----------------------------- MODULE ThreadPool -----------------------------
(***************************************************************************)
(* The thread pool of threadpool.cpp: one main thread that launches the    *)
(* workers, pushes sbufs, waits for the queue to drain and finally kills   *)
(* the workers with one null work unit each; and the workers, which take   *)
(* work units off work_queue, run them, and may push further units.        *)
(*                                                                         *)
(* Every critical section under thread_pool::M is one action.  The two     *)
(* shared updates made without M, `freethreads++' when a worker starts     *)
(* (line 167) and `working_workers--' when it is done (line 213), are      *)
(* actions of their own.  A condition wait ends the action that starts it: *)
(* the thread sits in a waiting state until a notify, or a spurious        *)
(* wake-up, sends it back to re-test its predicate.                        *)
(*                                                                         *)
(* What process_sbuf() does is abstracted to what the pool sees of it: an  *)
(* unit without a scanner is fanned out into one unit per scanner, and a   *)
(* scanner may recurse into a child sbuf, which is fanned out in the same  *)
(* thread or queued whole (scanner_set.cpp:672-700, 927-1040).             *)
(***************************************************************************)
EXTENDS Integers, Sequences, FiniteSets

CONSTANTS
    Worker,          \* the worker threads launch_workers() creates
    Image,           \* the sbufs the main thread pushes
    Child,           \* the sbufs a scanner may recurse into
    Large,           \* those without a parent, that may have 8192 bytes and more
    Skipped,         \* those process_sbuf() returns early on (empty, too deep)
    Scanner,         \* the enabled scanners
    NoScanner,       \* work_unit.scanner == nullptr: "use all"
    NullSbuf,        \* work_unit.sbuf == nullptr: "exit thread"
    MainThreadWaits, \* does the client call main_thread_wait()?
    Spurious         \* may condition variables wake up spuriously?

ASSUME WorkerAssumption == IsFiniteSet(Worker) /\ Worker # {}
ASSUME SbufAssumption ==
    /\ Image \cap Child = {}
    /\ Large \subseteq Child
    /\ Skipped \subseteq Image \cup Child
    /\ NullSbuf \notin Image \cup Child
ASSUME ScannerAssumption == IsFiniteSet(Scanner) /\ NoScanner \notin Scanner
ASSUME SwitchAssumption == MainThreadWaits \in BOOLEAN /\ Spurious \in BOOLEAN

Sbuf == Image \cup Child

ScannerUnit == [sbuf : Sbuf, scanner : Scanner]
PoisonPill == [sbuf |-> NullSbuf, scanner |-> NoScanner]
AllScanners(s) == [sbuf |-> s, scanner |-> NoScanner]
WorkUnit == [sbuf : Sbuf \cup {NullSbuf}, scanner : Scanner \cup {NoScanner}]

VARIABLES
    work_queue,      \* the FIFO of work units
    freethreads,     \* atomic<int>: workers ready for work
    working_workers, \* atomic<int>: workers that hold a work unit
    workers,         \* the set of live worker objects
    wpc,             \* where each worker thread is in worker::run()
    wu,              \* the work unit each worker holds
    todo,            \* the scanners its process_sbuf() has not pushed yet
    fanout,          \* the sbuf that process_sbuf() is fanning out
    mpc,             \* where the main thread is in the pool's interface
    mret,            \* where it returns to from wait_for_tasks()
    mitem,           \* the argument of its push_task()
    pills,           \* null units join() has still to push
    seen,            \* history: sbufs handed to process_sbuf() or the queue
    runs             \* history: how often each scanner was run on each sbuf

poolVars   == <<work_queue, freethreads, working_workers, workers>>
threadVars == <<wpc, wu, todo, fanout>>
mainVars   == <<mpc, mret, mitem, pills>>
historyVars == <<seen, runs>>
vars == <<poolVars, threadVars, mainVars, historyVars>>

WorkerState == {"unlaunched", "starting", "checking", "waiting", "dispatching",
                "scanning", "releasing", "finishing", "freeing", "exiting",
                "exited", "gone"}
Free     == {"checking", "waiting"}
Working  == {"dispatching", "scanning", "releasing", "finishing", "exiting"}
Finished == {"exited", "gone"}
In(states) == {w \in Worker : wpc[w] \in states}

MainState == {"launching", "running", "pushing", "pushWait", "bareWait",
              "draining", "drainWait", "counting", "killing", "killWait",
              "spinning", "joined", "membersDestroyed", "destroyed"}

Init ==
    /\ work_queue = <<>>
    /\ freethreads = 0
    /\ working_workers = 0
    /\ workers = {}
    /\ wpc = [w \in Worker |-> "unlaunched"]
    /\ wu = [w \in Worker |-> PoisonPill]
    /\ todo = [w \in Worker |-> {}]
    /\ fanout = [w \in Worker |-> NullSbuf]
    /\ mpc = "launching"
    /\ mret = "running"
    /\ mitem = NullSbuf
    /\ pills = 0
    /\ seen = {}
    /\ runs = [u \in ScannerUnit |-> 0]

-----------------------------------------------------------------------------
(* The condition variables.  (An operator introduced as a mutation is a    *)
(* plausible bug in the definition that follows it; no action uses it.)    *)

(* TO_WORKER.notify_one(): one of the sleeping workers, if there is one,   *)
(* goes back to test the queue.                                            *)
NotifyWorker ==
    \/ In({"waiting"}) = {} /\ UNCHANGED wpc
    \/ \E w \in In({"waiting"}) : wpc' = [wpc EXCEPT ![w] = "checking"]

(* TO_MAIN.notify_one(): only the main thread waits there.                 *)
(* Mutation: after a wake-up in join(), the last push is made again.       *)
AfterWaitRepush == [pushWait  |-> "pushing",  killWait |-> "pushing",
                    drainWait |-> "draining", bareWait |-> "running"]
AfterWait == [pushWait  |-> "pushing",  killWait |-> "killing",
              drainWait |-> "draining", bareWait |-> "running"]
MainWaiting == mpc \in DOMAIN AfterWait
(* Mutation: the main thread is never told.                                *)
NotifyNobody == mpc' = mpc
NotifyMain == mpc' = IF MainWaiting THEN AfterWait[mpc] ELSE mpc

Enqueue(u) == work_queue' = Append(work_queue, u) /\ NotifyWorker

-----------------------------------------------------------------------------
(* The main thread.                                                        *)

MainGoes(from, to) ==
    /\ mpc = from
    /\ mpc' = to
    /\ UNCHANGED <<poolVars, threadVars, mret, mitem, pills, historyVars>>

(* launch_workers(): one iteration of its loop, and its return.            *)
LaunchWorker ==
    /\ mpc = "launching"
    /\ \E w \in In({"unlaunched"}) :
          /\ workers' = workers \cup {w}
          /\ wpc' = [wpc EXCEPT ![w] = "starting"]
    /\ UNCHANGED <<work_queue, freethreads, working_workers, wu, todo, fanout,
                   mainVars, historyVars>>

LaunchDone == In({"unlaunched"}) = {} /\ MainGoes("launching", "running")

(* push_task(s), called by the client.                                     *)
CallPushTask(s) ==
    /\ mpc = "running"
    /\ s \notin seen
    /\ mpc' = "pushing"
    /\ mitem' = s
    /\ UNCHANGED <<poolVars, threadVars, mret, pills, historyVars>>

(* push_task(u) in the main thread, from taking M (or from a wake-up) to   *)
(* releasing it: wait for a free thread, or queue the unit and return.     *)
MainPushTask(u, waiting, return) ==
    /\ IF freethreads = 0
         THEN mpc' = waiting /\ UNCHANGED <<work_queue, wpc>>
         ELSE mpc' = return  /\ Enqueue(u)
    /\ UNCHANGED <<freethreads, working_workers, workers, wu, todo, fanout,
                   mret, mitem, runs>>

PushTask ==
    /\ mpc = "pushing"
    /\ MainPushTask(AllScanners(mitem), "pushWait", "running")
    /\ seen' = IF freethreads = 0 THEN seen ELSE seen \cup {mitem}
    /\ UNCHANGED pills

(* main_thread_wait(): no predicate is tested before or after the wait.    *)
MainThreadWait == MainThreadWaits /\ MainGoes("running", "bareWait")

(* wait_for_tasks(), called by the client or by join().                    *)
CallWaitForTasks(return) ==
    /\ mpc = "running"
    /\ mpc' = "draining"
    /\ mret' = return
    /\ UNCHANGED <<poolVars, threadVars, mitem, pills, historyVars>>

(* Mutation: tasks being run, which may queue others, are not waited for.  *)
QueueIsEmpty == work_queue = <<>>
MayReturnDrained == work_queue = <<>> /\ working_workers = 0

WaitForTasks ==
    /\ mpc = "draining"
    /\ IF MayReturnDrained
         THEN mpc' = mret        /\ UNCHANGED wpc
         ELSE mpc' = "drainWait" /\ NotifyWorker
    /\ UNCHANGED <<poolVars, wu, todo, fanout, mret, mitem, pills, historyVars>>

(* get_worker_count(), and a mutation: get_free_count() in its place.      *)
FreeCount == freethreads
WorkerCount == Cardinality(workers)

(* join(), once drained: count the workers, push that many null tasks, and *)
(* spin until no worker is left.                                           *)
CountWorkers ==
    /\ mpc = "counting"
    /\ mpc' = "killing"
    /\ pills' = WorkerCount
    /\ UNCHANGED <<poolVars, threadVars, mret, mitem, historyVars>>

KillWorker ==
    /\ mpc = "killing"
    /\ pills > 0
    /\ MainPushTask(PoisonPill, "killWait", "killing")
    /\ pills' = IF freethreads = 0 THEN pills ELSE pills - 1
    /\ UNCHANGED seen

AllKilled == pills = 0 /\ MainGoes("killing", "spinning")

JoinReturns == WorkerCount = 0 /\ MainGoes("spinning", "joined")

(* The end of ~scanner_set(): the members declared after `pool', among     *)
(* them thread_status and its mutex, are destroyed before ~thread_pool()   *)
(* joins the threads.                                                      *)
DestroyMembers == MainGoes("joined", "membersDestroyed")

DestroyPool ==
    /\ \A w \in Worker : wpc[w] = "gone"
    /\ MainGoes("membersDestroyed", "destroyed")

SpuriousMainWakeup ==
    /\ Spurious
    /\ MainWaiting
    /\ NotifyMain
    /\ UNCHANGED <<poolVars, threadVars, mret, mitem, pills, historyVars>>

-----------------------------------------------------------------------------
(* A worker, worker::run().                                                *)

WorkerGoes(w, from, to) ==
    /\ wpc[w] = from
    /\ wpc' = [wpc EXCEPT ![w] = to]
    /\ UNCHANGED <<mret, mitem, pills>>

(* freethreads++, without the lock.                                        *)
StartWorker(w) ==
    /\ WorkerGoes(w, "starting", "checking")
    /\ freethreads' = freethreads + 1
    /\ UNCHANGED <<work_queue, working_workers, workers, wu, todo, fanout, mpc,
                   historyVars>>

(* The queue is empty: tell the main thread and sleep.                     *)
WaitForWork(w) ==
    /\ work_queue = <<>>
    /\ WorkerGoes(w, "checking", "waiting")
    /\ NotifyMain
    /\ UNCHANGED <<poolVars, wu, todo, fanout, historyVars>>

(* Take the front unit.  A null unit ends the loop, a unit with a scanner  *)
(* runs it, a unit without one fans out over all the scanners.             *)
FirstStep(u) == CASE u.sbuf = NullSbuf                          -> "exiting"
                  [] u.sbuf # NullSbuf /\ u.scanner = NoScanner -> "dispatching"
                  [] u.sbuf # NullSbuf /\ u.scanner # NoScanner -> "scanning"

(* Mutation: the loop over the scanners ends after the first.              *)
FirstScanner(s) == IF s \in Skipped THEN {} ELSE {CHOOSE sc \in Scanner : TRUE}
FanOut(s) == IF s \in Skipped THEN {} ELSE Scanner

TakeWork(w) ==
    /\ wpc[w] = "checking"
    /\ work_queue # <<>>
    /\ LET u == Head(work_queue) IN
          /\ wu' = [wu EXCEPT ![w] = u]
          /\ wpc' = [wpc EXCEPT ![w] = FirstStep(u)]
          /\ fanout' = [fanout EXCEPT ![w] = IF FirstStep(u) = "dispatching"
                                            THEN u.sbuf ELSE NullSbuf]
          /\ todo' = [todo EXCEPT ![w] = IF FirstStep(u) = "dispatching"
                                        THEN FanOut(u.sbuf) ELSE {}]
    /\ work_queue' = Tail(work_queue)
    /\ freethreads' = freethreads - 1
    /\ working_workers' = working_workers + 1
    /\ UNCHANGED <<workers, mainVars, historyVars>>

(* process_sbuf(sbuf) queues one unit per enabled scanner.  It never waits *)
(* for a free thread: this is not the main thread.                         *)
(* Mutation: the scanner is not taken off the list.                        *)
PushScannerTaskAgain(w) ==
    /\ wpc[w] = "dispatching"
    /\ \E sc \in todo[w] : /\ Enqueue([sbuf |-> fanout[w], scanner |-> sc])
                           /\ todo' \in {todo, [todo EXCEPT ![w] = @ \ {sc}]}
    /\ UNCHANGED <<freethreads, working_workers, workers, wu, fanout, mainVars,
                   historyVars>>

PushScannerTask(w) ==
    /\ wpc[w] = "dispatching"
    /\ \E sc \in todo[w] :
          /\ Enqueue([sbuf |-> fanout[w], scanner |-> sc])
          /\ todo' = [todo EXCEPT ![w] = @ \ {sc}]
    /\ UNCHANGED <<freethreads, working_workers, workers, wu, fanout, mainVars,
                   historyVars>>

(* process_sbuf(sbuf) returns: to run(), or to the scanner that recursed.  *)
Dispatched(w) ==
    /\ todo[w] = {}
    /\ WorkerGoes(w, "dispatching",
                  IF wu[w].scanner = NoScanner THEN "releasing" ELSE "scanning")
    /\ fanout' = [fanout EXCEPT ![w] = NullSbuf]
    /\ UNCHANGED <<poolVars, wu, todo, mpc, historyVars>>

(* The scanner calls sp.recurse(c).  schedule_sbuf() runs process_sbuf(c)  *)
(* in this thread if c is small or has a parent, and else queues it, again *)
(* without waiting for a free thread.  The sizes of sbufs are any.         *)
Recurse(w, c) ==
    /\ c \notin seen
    /\ WorkerGoes(w, "scanning", "dispatching")
    /\ seen' = seen \cup {c}
    /\ fanout' = [fanout EXCEPT ![w] = c]
    /\ todo' = [todo EXCEPT ![w] = FanOut(c)]
    /\ UNCHANGED <<poolVars, mpc, runs, wu>>

RecurseQueued(w, c) ==
    /\ wpc[w] = "scanning"
    /\ c \in Large \ seen
    /\ seen' = seen \cup {c}
    /\ Enqueue(AllScanners(c))
    /\ UNCHANGED <<freethreads, working_workers, workers, wu, todo, fanout,
                   mainVars, runs>>

(* process_sbuf(sbuf, scanner) returns.                                    *)
ScannerReturns(w) ==
    /\ WorkerGoes(w, "scanning", "releasing")
    /\ runs' = [runs EXCEPT ![wu[w]] = @ + 1]
    /\ UNCHANGED <<poolVars, wu, todo, fanout, mpc, seen>>

(* release_sbuf(wu.sbuf): nothing of the pool changes.                     *)
Release(w) ==
    /\ WorkerGoes(w, "releasing", "finishing")
    /\ UNCHANGED <<poolVars, wu, todo, fanout, mpc, historyVars>>

(* working_workers--, without the lock.                                    *)
(* Mutation: the worker is counted as working for ever.                    *)
StopWorkingUncounted(w) ==
    /\ WorkerGoes(w, "finishing", "freeing")
    /\ UNCHANGED <<poolVars, wu, todo, fanout, mpc, historyVars>>

StopWorking(w) ==
    /\ WorkerGoes(w, "finishing", "freeing")
    /\ working_workers' = working_workers - 1
    /\ UNCHANGED <<work_queue, freethreads, workers, wu, todo, fanout, mpc,
                   historyVars>>

(* Under the lock: free again, and the main thread is told.  The local wu  *)
(* goes out of scope.                                                      *)
BecomeFree(w) ==
    /\ WorkerGoes(w, "freeing", "checking")
    /\ freethreads' = freethreads + 1
    /\ NotifyMain
    /\ wu' = [wu EXCEPT ![w] = PoisonPill]
    /\ UNCHANGED <<work_queue, working_workers, workers, todo, fanout,
                   historyVars>>

(* After the loop, under the lock.  The main thread is not notified.       *)
ExitWorker(w) ==
    /\ WorkerGoes(w, "exiting", "exited")
    /\ workers' = workers \ {w}
    /\ working_workers' = working_workers - 1
    /\ UNCHANGED <<work_queue, freethreads, wu, todo, fanout, mpc, historyVars>>

(* ss.thread_set_status("exited") and the return of the thread, after the  *)
(* worker has left the set that join() watches.                            *)
LastStatus(w) ==
    /\ WorkerGoes(w, "exited", "gone")
    /\ UNCHANGED <<poolVars, wu, todo, fanout, mpc, historyVars>>

SpuriousWakeup(w) ==
    /\ Spurious
    /\ WorkerGoes(w, "waiting", "checking")
    /\ UNCHANGED <<poolVars, wu, todo, fanout, mpc, historyVars>>

-----------------------------------------------------------------------------
MainStep ==
    \/ LaunchWorker \/ LaunchDone
    \/ PushTask
    \/ WaitForTasks
    \/ CountWorkers \/ KillWorker \/ AllKilled \/ JoinReturns
    \/ DestroyPool

(* What the client chooses to call.                                        *)
ClientCall ==
    \/ \E s \in Image : CallPushTask(s)
    \/ MainThreadWait
    \/ \E return \in {"running", "counting"} : CallWaitForTasks(return)
    \/ DestroyMembers

WorkerStep(w) ==
    \/ StartWorker(w) \/ WaitForWork(w) \/ TakeWork(w)
    \/ PushScannerTask(w) \/ Dispatched(w)
    \/ ScannerReturns(w) \/ Release(w)
    \/ StopWorking(w) \/ BecomeFree(w)
    \/ ExitWorker(w) \/ LastStatus(w)

Terminated == mpc = "destroyed" /\ UNCHANGED vars

Next ==
    \/ MainStep
    \/ ClientCall
    \/ SpuriousMainWakeup
    \/ \E w \in Worker : \/ WorkerStep(w)
                         \/ \E c \in Child : Recurse(w, c) \/ RecurseQueued(w, c)
                         \/ SpuriousWakeup(w)
    \/ Terminated

(* Every thread keeps taking steps: the operating system schedules it and  *)
(* it eventually gets the mutex.  Nothing obliges the client to make       *)
(* another call, a scanner to recurse, or a condition variable to wake up  *)
(* without a notify.                                                       *)
Fairness == WF_vars(MainStep) /\ \A w \in Worker : WF_vars(WorkerStep(w))

Spec == Init /\ [][Next]_vars /\ Fairness

-----------------------------------------------------------------------------
(* Types.                                                                  *)
TypeOK ==
    /\ work_queue \in Seq(WorkUnit)
    /\ freethreads \in Int
    /\ working_workers \in Int
    /\ workers \subseteq Worker
    /\ wpc \in [Worker -> WorkerState]
    /\ wu \in [Worker -> WorkUnit]
    /\ todo \in [Worker -> SUBSET Scanner]
    /\ fanout \in [Worker -> Sbuf \cup {NullSbuf}]
    /\ mpc \in MainState
    /\ mret \in {"running", "counting"}
    /\ mitem \in Sbuf \cup {NullSbuf}
    /\ mpc \in {"pushing", "pushWait"} => mitem \in Sbuf
    /\ pills \in Nat
    /\ seen \subseteq Sbuf
    /\ runs \in [ScannerUnit -> Nat]

(* The two atomic counters, which the main thread trusts, are exact even   *)
(* though each has one update outside the lock: freethreads counts the     *)
(* workers at the top of their loop, working_workers those that took a     *)
(* unit and have not handed it back.                                       *)
CountersExact ==
    /\ freethreads = Cardinality(In(Free))
    /\ working_workers = Cardinality(In(Working))

(* workers holds exactly the threads that were launched and have not left  *)
(* their loop: what join() counts its null tasks by, and spins on.         *)
WorkersExact == workers = Worker \ In({"unlaunched"} \cup Finished)

(* Past wait_for_tasks() in join() nothing but null tasks is queued or     *)
(* held, although workers queue tasks of their own accord.                 *)
Killing == mpc \in {"counting", "killing", "killWait", "spinning", "joined",
                    "membersDestroyed", "destroyed"}
OnlyPillsWhenKilling ==
    Killing => /\ \A i \in DOMAIN work_queue : work_queue[i] = PoisonPill
               /\ In(Working) = In({"exiting"})

(* join() has pushed or will push exactly one null task per live worker:   *)
(* with fewer the spin would never end, with more a null unit would be     *)
(* left behind and leaked.                                                 *)
Counted == mpc \in {"killing", "killWait", "spinning", "joined"}
PillsMatchWorkers ==
    Counted =>
        pills + Len(work_queue) + Cardinality(In({"exiting"}))
            = Cardinality(workers)

(* When join() has returned, no worker is still in its loop, holds a unit  *)
(* or touches the queue, a counter or the mutex: all that is left of each  *)
(* is the last call of thread_set_status() (LastStatus), which nothing     *)
(* keeps from running after the members of the scanner set are destroyed.  *)
Joined == mpc \in {"joined", "membersDestroyed", "destroyed"}
JoinedMeansGone == Joined => In(Finished) = Worker

(* What the proofs carry from step to step: no thread is launched any more *)
(* once launch_workers() has returned, and between the drain and the count *)
(* of the workers none of them has, or can get, a unit.                    *)
LaunchedFirst == mpc # "launching" => In({"unlaunched"}) = {}
JoinInv == LaunchedFirst /\ JoinedMeansGone
CountingIdle == mpc = "counting" => work_queue = <<>> /\ In(Working) = {}
PoolInv ==
    /\ CountersExact
    /\ WorkersExact
    /\ OnlyPillsWhenKilling
    /\ PillsMatchWorkers
    /\ CountingIdle

(* Every scanner is run at most once on every sbuf: a unit is never in two *)
(* of the places where a run of it can come from.                          *)
Copies(u) ==
    Cardinality({i \in DOMAIN work_queue : work_queue[i] = u})
      + Cardinality({w \in Worker : wu[w] = u /\ wpc[w] \in {"scanning", "dispatching"}})
      + Cardinality({w \in Worker : fanout[w] = u.sbuf /\ u.scanner \in todo[w]})
      + runs[u]
AtMostOnce == \A u \in ScannerUnit : Copies(u) <= 1

(* What was accepted, and where its run can still come from: the queue, as *)
(* itself or as the fan-out it is part of, or a worker that runs it or has *)
(* yet to queue it.                                                        *)
Accepted  == {u \in ScannerUnit : u.sbuf \in seen \ Skipped}
Completed == {u \in ScannerUnit : runs[u] > 0}
Queued    == {work_queue[i] : i \in DOMAIN work_queue}
Pending(u) ==
    \/ u \in Queued
    \/ AllScanners(u.sbuf) \in Queued
    \/ \E w \in Worker : wpc[w] \in {"scanning", "dispatching"} /\ wu[w] = u
    \/ \E w \in Worker : /\ wpc[w] = "dispatching"
                         /\ fanout[w] = u.sbuf /\ u.scanner \in todo[w]

(* No accepted work is ever lost, and none is run that was not accepted.   *)
NothingLost == \A u \in Accepted : u \in Completed \/ Pending(u)
Genuine(u) == u.sbuf \in Sbuf => /\ u.sbuf \in seen
                                 /\ u.scanner \in Scanner => u.sbuf \notin Skipped
NothingForged ==
    /\ \A u \in Queued : Genuine(u)
    /\ \A w \in Worker : /\ Genuine(wu[w])
                         /\ todo[w] # {} => fanout[w] \in seen \ Skipped
                         /\ wpc[w] = "scanning" => wu[w] \in ScannerUnit
                         /\ wpc[w] = "dispatching" => wu[w].sbuf \in Sbuf
    /\ Completed \subseteq Accepted

(* wait_for_tasks() returns only when every scanner has finished with      *)
(* every sbuf that was pushed, and with every sbuf they recursed into.     *)
WaitReturnsDrained ==
    [][mpc = "draining" /\ mpc' \in {"running", "counting"}
         => Accepted = Completed]_vars

(* join() always returns once it has been called, and so do push_task()    *)
(* and wait_for_tasks(): no wake-up they depend on is lost.  And           *)
(* main_thread_wait(), which tests nothing and may sleep for ever when the *)
(* pool is idle, returns while work is outstanding.                        *)
CallsReturn ==
    /\ mpc = "draining" ~> mpc = mret
    /\ mpc = "counting" ~> mpc = "joined"
    /\ mpc = "pushing" ~> mpc = "running"
    /\ (mpc = "bareWait" /\ ~MayReturnDrained) ~> mpc # "bareWait"

(* The abstract pool this one implements.                                  *)
Pool == INSTANCE WorkPool WITH
    Unit      <- ScannerUnit,
    Batch     <- {{u \in ScannerUnit : u.sbuf = s} : s \in Sbuf \ Skipped},
    accepted  <- Accepted,
    completed <- Completed,
    client    <- IF Killing THEN "closed"
                 ELSE IF mpc \in {"draining", "drainWait"} THEN "draining"
                 ELSE "open"
ImplementsWorkPool == Pool!Spec
=============================================================================
