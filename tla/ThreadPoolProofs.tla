-------------------------- MODULE ThreadPoolProofs --------------------------
(***************************************************************************)
(* Theorems about ThreadPool, and about the references to sbufs that       *)
(* SbufGC keeps over its steps, for every set of workers, sbufs and        *)
(* scanners.                                                               *)
(***************************************************************************)
EXTENDS SbufGC, FiniteSetTheorems, FunctionTheorems, SequenceTheorems, TLAPS

(* The queue operations keep a sequence of work units.                     *)
LEMMA QueueType ==
    ASSUME NEW q \in Seq(WorkUnit), NEW u \in WorkUnit
    PROVE  /\ Append(q, u) \in Seq(WorkUnit)
           /\ Len(Append(q, u)) = Len(q) + 1
           /\ q # <<>> => /\ Head(q) \in WorkUnit
                          /\ Tail(q) \in Seq(WorkUnit)
                          /\ Len(Tail(q)) = Len(q) - 1
<1>1. /\ Append(q, u) \in Seq(WorkUnit)
      /\ Len(Append(q, u)) = Len(q) + 1
  BY AppendProperties
<1>2. ASSUME q # <<>>
      PROVE  /\ Head(q) \in WorkUnit
             /\ Tail(q) \in Seq(WorkUnit)
             /\ Len(Tail(q)) = Len(q) - 1
  BY <1>2, HeadTailProperties
<1>3. QED  BY <1>1, <1>2

(* The units the threads make are work units.                              *)
LEMMA UnitType ==
    /\ PoisonPill \in WorkUnit
    /\ \A s \in Sbuf : AllScanners(s) \in WorkUnit
    /\ \A s \in Sbuf \cup {NullSbuf}, sc \in Scanner :
          [sbuf |-> s, scanner |-> sc] \in WorkUnit
BY DEF PoisonPill, AllScanners, WorkUnit

(* Waking the main thread moves it from a wait to the test that follows.   *)
LEMMA NotifyMainMoves ==
    ASSUME mpc \in MainState, NotifyMain
    PROVE  /\ mpc' \in MainState
           /\ mpc' \in {"pushing", "pushWait"} <=> mpc \in {"pushing", "pushWait"}
           /\ mpc' = "counting" <=> mpc = "counting"
           /\ Killing' <=> Killing
           /\ Counted' <=> Counted
BY DEF MainState, NotifyMain, AfterWait, MainWaiting, Killing, Counted

(* Waking a worker keeps every worker in a state it has.                   *)
LEMMA NotifyWorkerType ==
    ASSUME wpc \in [Worker -> WorkerState], NotifyWorker
    PROVE  wpc' \in [Worker -> WorkerState]
BY DEF NotifyWorker, WorkerState

(* A count stays a count when one of its entries is incremented.           *)
LEMMA CountType ==
    ASSUME NEW S, NEW f \in [S -> Nat], NEW u
    PROVE  [f EXCEPT ![u] = @ + 1] \in [S -> Nat]
<1>1. CASE u \in S
  <2>1. f[u] + 1 \in Nat
    BY <1>1
  <2>2. QED  BY <1>1, <2>1
<1>2. CASE u \notin S
  BY <1>2
<1>3. QED  BY <1>1, <1>2

-----------------------------------------------------------------------------
LEMMA TypeInit == Init => TypeOK
BY DEF Init, TypeOK, PoisonPill, WorkUnit, ScannerUnit, WorkerState, MainState

LEMMA TypeStep == TypeOK /\ [Next]_vars => TypeOK'
<1> SUFFICES ASSUME TypeOK, [Next]_vars PROVE TypeOK'
  OBVIOUS
<1> USE DEF poolVars, threadVars, mainVars, historyVars
<1>1. CASE LaunchWorker
  BY <1>1 DEF TypeOK, LaunchWorker, In, WorkerState
<1>2. CASE LaunchDone
  BY <1>2 DEF TypeOK, LaunchDone, MainGoes, MainState
<1>3. CASE PushTask
  <2>1. AllScanners(mitem) \in WorkUnit /\ mitem \in Sbuf
    BY <1>3, UnitType DEF TypeOK, PushTask
  <2>2. CASE freethreads = 0
    BY <1>3, <2>2 DEF TypeOK, PushTask, MainPushTask, MainState
  <2>3. CASE freethreads # 0
    <3>1. work_queue' \in Seq(WorkUnit)
      BY <1>3, <2>1, <2>3, QueueType DEF TypeOK, PushTask, MainPushTask, Enqueue
    <3>2. wpc' \in [Worker -> WorkerState]
      BY <1>3, <2>3, NotifyWorkerType DEF TypeOK, PushTask, MainPushTask, Enqueue
    <3>3. QED
      BY <1>3, <2>1, <2>3, <3>1, <3>2 DEF TypeOK, PushTask, MainPushTask, MainState
  <2>4. QED  BY <2>2, <2>3
<1>4. CASE WaitForTasks
  <2>1. wpc' \in [Worker -> WorkerState]
    BY <1>4, NotifyWorkerType DEF TypeOK, WaitForTasks
  <2>2. QED
    BY <1>4, <2>1 DEF TypeOK, WaitForTasks, MainState
<1>5. CASE CountWorkers
  <2>1. Cardinality(workers) \in Nat
    BY WorkerAssumption, FS_Subset, FS_CardinalityType DEF TypeOK
  <2>2. QED
    BY <1>5, <2>1 DEF TypeOK, CountWorkers, WorkerCount, MainState
<1>6. CASE KillWorker
  <2>2. CASE freethreads = 0
    BY <1>6, <2>2 DEF TypeOK, KillWorker, MainPushTask, MainState
  <2>3. CASE freethreads # 0
    <3>1. work_queue' \in Seq(WorkUnit)
      BY <1>6, <2>3, UnitType, QueueType
      DEF TypeOK, KillWorker, MainPushTask, Enqueue
    <3>2. wpc' \in [Worker -> WorkerState]
      BY <1>6, <2>3, NotifyWorkerType DEF TypeOK, KillWorker, MainPushTask, Enqueue
    <3>3. QED
      BY <1>6, <2>3, <3>1, <3>2 DEF TypeOK, KillWorker, MainPushTask, MainState
  <2>4. QED  BY <2>2, <2>3
<1>7. CASE AllKilled \/ JoinReturns \/ DestroyPool \/ DestroyMembers \/ MainThreadWait
  BY <1>7 DEF TypeOK, AllKilled, JoinReturns, DestroyPool, DestroyMembers,
              MainThreadWait, MainGoes, MainState
<1>8. CASE \E s \in Image : CallPushTask(s)
  BY <1>8 DEF TypeOK, CallPushTask, MainState, Sbuf
<1>9. CASE \E return \in {"running", "counting"} : CallWaitForTasks(return)
  BY <1>9 DEF TypeOK, CallWaitForTasks, MainState
<1>10. CASE SpuriousMainWakeup
  BY <1>10, NotifyMainMoves DEF TypeOK, SpuriousMainWakeup
<1>11. ASSUME NEW w \in Worker, WorkerStep(w) \/ SpuriousWakeup(w)
       PROVE  TypeOK'
  <2>1. CASE StartWorker(w)
    BY <2>1 DEF TypeOK, StartWorker, WorkerGoes, WorkerState
  <2>2. CASE WaitForWork(w)
    BY <2>2, NotifyMainMoves DEF TypeOK, WaitForWork, WorkerGoes, WorkerState
  <2>3. CASE TakeWork(w)
    <3>1. /\ Head(work_queue) \in WorkUnit
          /\ Tail(work_queue) \in Seq(WorkUnit)
      BY <2>3, UnitType, QueueType DEF TypeOK, TakeWork
    <3>2. FirstStep(Head(work_queue)) \in WorkerState
      BY DEF FirstStep, WorkerState
    <3>3. \A s : FanOut(s) \subseteq Scanner
      BY DEF FanOut
    <3>4. Head(work_queue).sbuf \in Sbuf \cup {NullSbuf}
      BY <3>1 DEF WorkUnit
    <3>5. QED
      BY <2>3, <3>1, <3>2, <3>3, <3>4 DEF TypeOK, TakeWork
  <2>4. CASE PushScannerTask(w)
    <3>1. PICK sc \in todo[w] :
             /\ Enqueue([sbuf |-> fanout[w], scanner |-> sc])
             /\ todo' = [todo EXCEPT ![w] = @ \ {sc}]
      BY <2>4 DEF PushScannerTask
    <3>2. [sbuf |-> fanout[w], scanner |-> sc] \in WorkUnit
      BY UnitType DEF TypeOK
    <3>3. work_queue' \in Seq(WorkUnit)
      BY <3>1, <3>2, QueueType DEF TypeOK, Enqueue
    <3>4. wpc' \in [Worker -> WorkerState]
      BY <3>1, NotifyWorkerType DEF TypeOK, Enqueue
    <3>5. QED
      BY <2>4, <3>1, <3>3, <3>4 DEF TypeOK, PushScannerTask
  <2>5. CASE Dispatched(w)
    BY <2>5 DEF TypeOK, Dispatched, WorkerGoes, WorkerState
  <2>6. CASE ScannerReturns(w)
    <3>1. \A u : [runs EXCEPT ![u] = @ + 1] \in [ScannerUnit -> Nat]
      BY CountType DEF TypeOK
    <3>2. runs' \in [ScannerUnit -> Nat]
      BY <2>6, <3>1 DEF ScannerReturns
    <3>3. wpc' \in [Worker -> WorkerState]
      BY <2>6 DEF TypeOK, ScannerReturns, WorkerGoes, WorkerState
    <3>4. QED
      BY <2>6, <3>2, <3>3 DEF TypeOK, ScannerReturns, WorkerGoes
  <2>7. CASE BecomeFree(w)
    BY <2>7, NotifyMainMoves, UnitType DEF TypeOK, BecomeFree, WorkerGoes, WorkerState
  <2>8. CASE Release(w) \/ StopWorking(w) \/ ExitWorker(w) \/ LastStatus(w)
             \/ SpuriousWakeup(w)
    BY <2>8 DEF TypeOK, Release, StopWorking, ExitWorker, LastStatus,
                SpuriousWakeup, WorkerGoes, WorkerState
  <2>9. QED
    BY <1>11, <2>1, <2>2, <2>3, <2>4, <2>5, <2>6, <2>7, <2>8 DEF WorkerStep
<1>12. ASSUME NEW w \in Worker, NEW c \in Child, Recurse(w, c)
       PROVE  TypeOK'
  <2>1. FanOut(c) \subseteq Scanner
    BY DEF FanOut
  <2>2. QED
    BY <1>12, <2>1 DEF TypeOK, Recurse, WorkerGoes, WorkerState, Sbuf
<1>13. ASSUME NEW w \in Worker, NEW c \in Child, RecurseQueued(w, c)
       PROVE  TypeOK'
  <2>1. AllScanners(c) \in WorkUnit /\ c \in Sbuf
    BY UnitType DEF Sbuf
  <2>2. work_queue' \in Seq(WorkUnit)
    BY <1>13, <2>1, QueueType DEF TypeOK, RecurseQueued, Enqueue
  <2>3. wpc' \in [Worker -> WorkerState]
    BY <1>13, NotifyWorkerType DEF TypeOK, RecurseQueued, Enqueue
  <2>4. QED
    BY <1>13, <2>1, <2>2, <2>3 DEF TypeOK, RecurseQueued
<1>14. CASE UNCHANGED vars
  BY <1>14 DEF TypeOK, vars
<1>15. QED
  BY <1>1, <1>2, <1>3, <1>4, <1>5, <1>6, <1>7, <1>8, <1>9, <1>10, <1>11, <1>12,
     <1>13, <1>14
  DEF Next, MainStep, ClientCall, Terminated

(* Every variable keeps its type, whatever the number of workers.          *)
THEOREM TypeCorrect == Spec => []TypeOK
BY TypeInit, TypeStep, PTL DEF Spec

-----------------------------------------------------------------------------
(* Any set of workers can be counted.                                      *)
LEMMA FiniteIn ==
    ASSUME NEW S
    PROVE  IsFiniteSet(In(S)) /\ Cardinality(In(S)) \in Nat
<1>1. In(S) \in SUBSET Worker
  BY DEF In
<1>2. QED
  BY <1>1, WorkerAssumption, FS_Subset, FS_CardinalityType

LEMMA FiniteWorkers ==
    ASSUME TypeOK
    PROVE  IsFiniteSet(workers) /\ Cardinality(workers) \in Nat
BY WorkerAssumption, FS_Subset, FS_CardinalityType DEF TypeOK

(* One element more or less changes a cardinality by one.                  *)
LEMMA CountOneMore ==
    ASSUME NEW S, IsFiniteSet(S), NEW x, x \notin S, NEW T, T = S \cup {x}
    PROVE  Cardinality(T) = Cardinality(S) + 1
BY FS_AddElement

LEMMA CountOneLess ==
    ASSUME NEW S, IsFiniteSet(S), NEW x, x \in S, NEW T, T = S \ {x}
    PROVE  Cardinality(T) = Cardinality(S) - 1
BY FS_RemoveElement

(* The sets of workers that the invariant counts.                          *)
Off == {"unlaunched"} \cup Finished
SameSets ==
    /\ In(Free)' = In(Free)
    /\ In(Working)' = In(Working)
    /\ In({"exiting"})' = In({"exiting"})
    /\ In(Off)' = In(Off)

(* Waking a sleeping worker leaves it among the free ones.                 *)
LEMMA NotifyKeepsSets ==
    ASSUME TypeOK, NotifyWorker
    PROVE  SameSets
BY DEF TypeOK, NotifyWorker, SameSets, In, Free, Working, Off, Finished

(* A step that moves no worker from one of those sets to another, leaves   *)
(* the queue and the counters alone and does not advance join() past its   *)
(* drain preserves the invariant.                                          *)
LEMMA QuietStep ==
    ASSUME PoolInv, SameSets,
           UNCHANGED <<work_queue, freethreads, working_workers, workers, pills>>,
           Killing' => Killing, Counted' => Counted,
           mpc' = "counting" => mpc = "counting"
    PROVE  PoolInv'
BY DEF PoolInv, SameSets, CountersExact, WorkersExact, OnlyPillsWhenKilling,
       PillsMatchWorkers, CountingIdle, Off

(* The main thread only moves its own program counter.                     *)
LEMMA MainGoesInv ==
    ASSUME PoolInv, NEW from, NEW to, MainGoes(from, to),
           Killing' => Killing, Counted' => Counted, to # "counting"
    PROVE  PoolInv'
<1>1. SameSets
  BY DEF MainGoes, SameSets, In, threadVars
<1>2. QED
  BY <1>1, QuietStep DEF MainGoes, poolVars

LEMMA MainStepInv ==
    ASSUME TypeOK, PoolInv, MainStep \/ ClientCall \/ SpuriousMainWakeup
    PROVE  PoolInv'
<1> USE DEF poolVars, threadVars, mainVars, historyVars
<1>1. CASE LaunchWorker
  <2>1. PICK w \in In({"unlaunched"}) :
           /\ workers' = workers \cup {w}
           /\ wpc' = [wpc EXCEPT ![w] = "starting"]
    BY <1>1 DEF LaunchWorker
  <2>2. /\ In(Free)' = In(Free) /\ In(Working)' = In(Working)
        /\ In({"exiting"})' = In({"exiting"})
        /\ In(Off)' = In(Off) \ {w}
    BY <2>1 DEF TypeOK, In, Free, Working, Off, Finished
  <2>3. UNCHANGED <<mpc, work_queue, freethreads, working_workers, pills>>
           /\ mpc = "launching"
    BY <1>1 DEF LaunchWorker
  <2>4. WorkersExact'
    BY <2>1, <2>2 DEF PoolInv, WorkersExact, Off, In
  <2>5. QED
    BY <2>2, <2>3, <2>4 DEF PoolInv, CountersExact, OnlyPillsWhenKilling,
       PillsMatchWorkers, CountingIdle, Killing, Counted
<1>2. CASE PushTask
  <2>1. mpc = "pushing" /\ mpc' \in {"pushWait", "running"}
    BY <1>2 DEF PushTask, MainPushTask
  <2>2. SameSets
    BY <1>2, NotifyKeepsSets DEF PushTask, MainPushTask, Enqueue, SameSets, In
  <2>3. UNCHANGED <<freethreads, working_workers, workers>>
    BY <1>2 DEF PushTask, MainPushTask
  <2>4. QED
    BY <2>1, <2>2, <2>3 DEF PoolInv, SameSets, CountersExact, WorkersExact,
       OnlyPillsWhenKilling, PillsMatchWorkers, CountingIdle, Killing, Counted, Off
<1>3. CASE WaitForTasks
  <2>1. mpc = "draining" /\ mpc' \in {"drainWait", "running", "counting"}
    BY <1>3 DEF WaitForTasks, TypeOK
  <2>2. SameSets
    BY <1>3, NotifyKeepsSets DEF WaitForTasks, SameSets, In
  <2>3. UNCHANGED <<work_queue, freethreads, working_workers, workers, pills>>
    BY <1>3 DEF WaitForTasks
  <2>4. CASE mpc' = "counting"
    <3>1. work_queue = <<>> /\ working_workers = 0
      BY <1>3, <2>4 DEF WaitForTasks, MayReturnDrained
    <3>2. In(Working) = {}
      BY <3>1, FiniteIn, FS_EmptySet DEF PoolInv, CountersExact
    <3>3. In({"exiting"}) = {}
      BY <3>2 DEF In, Working
    <3>4. DOMAIN work_queue = {}
      BY <3>1
    <3>5. QED
      BY <2>2, <2>3, <2>4, <3>1, <3>2, <3>3, <3>4 DEF PoolInv, SameSets, CountersExact,
         WorkersExact, OnlyPillsWhenKilling, PillsMatchWorkers, CountingIdle,
         Killing, Counted, Off
  <2>5. CASE mpc' # "counting"
    BY <2>1, <2>2, <2>3, <2>5, QuietStep DEF Killing, Counted
  <2>6. QED  BY <2>4, <2>5
<1>4. CASE CountWorkers
  <2>1. /\ mpc = "counting" /\ work_queue = <<>> /\ In(Working) = {}
        /\ pills' = Cardinality(workers) /\ mpc' = "killing"
        /\ UNCHANGED <<work_queue, freethreads, working_workers, workers, wpc>>
    BY <1>4 DEF CountWorkers, WorkerCount, PoolInv, CountingIdle
  <2>2. SameSets /\ In({"exiting"}) = {}
    BY <2>1 DEF SameSets, In, Working
  <2>3. Cardinality(In({"exiting"})') = 0 /\ Len(work_queue') = 0
    BY <2>1, <2>2, FS_EmptySet DEF SameSets
  <2>4. PillsMatchWorkers'
    BY <2>1, <2>3, FiniteWorkers DEF PillsMatchWorkers
  <2>5. QED
    BY <2>1, <2>2, <2>4 DEF PoolInv, SameSets, CountersExact, WorkersExact,
       OnlyPillsWhenKilling, CountingIdle, Killing, Off
<1>5. CASE KillWorker
  <2>1. /\ mpc = "killing" /\ mpc' \in {"killing", "killWait"}
        /\ UNCHANGED <<freethreads, working_workers, workers>>
    BY <1>5 DEF KillWorker, MainPushTask
  <2>2. SameSets
    BY <1>5, NotifyKeepsSets DEF KillWorker, MainPushTask, Enqueue, SameSets, In
  <2>3. CASE freethreads = 0
    BY <1>5, <2>1, <2>2, <2>3, QuietStep DEF KillWorker, MainPushTask, Killing, Counted
  <2>4. CASE freethreads # 0
    <3>1. work_queue' = Append(work_queue, PoisonPill) /\ pills' = pills - 1
      BY <1>5, <2>4 DEF KillWorker, MainPushTask, Enqueue
    <3>2. Len(work_queue') = Len(work_queue) + 1
      BY <3>1, UnitType, QueueType DEF TypeOK
    <3>3. \A i \in DOMAIN work_queue' : work_queue'[i] = PoisonPill
      BY <2>1, <3>1, UnitType, AppendProperties, LenProperties
      DEF TypeOK, PoolInv, OnlyPillsWhenKilling, Killing
    <3>4. /\ Cardinality(In({"exiting"})) \in Nat /\ Len(work_queue) \in Nat
          /\ Cardinality(workers) \in Nat
      BY FiniteIn, FiniteWorkers, LenProperties DEF TypeOK
    <3>5. PillsMatchWorkers'
      BY <2>1, <2>2, <3>1, <3>2, <3>4
      DEF TypeOK, PoolInv, PillsMatchWorkers, Counted, SameSets
    <3>6. QED
      BY <2>1, <2>2, <3>3, <3>5 DEF PoolInv, SameSets, CountersExact, WorkersExact,
         OnlyPillsWhenKilling, CountingIdle, Killing, Off
  <2>5. QED  BY <2>3, <2>4
<1>6. CASE LaunchDone \/ AllKilled \/ JoinReturns \/ DestroyPool \/ DestroyMembers
             \/ MainThreadWait
  BY <1>6, MainGoesInv DEF LaunchDone, AllKilled, JoinReturns, DestroyPool,
     DestroyMembers, MainThreadWait, MainGoes, Killing, Counted
<1>7. CASE \/ \E s \in Image : CallPushTask(s)
           \/ \E return \in {"running", "counting"} : CallWaitForTasks(return)
  <2>1. /\ mpc' \in {"pushing", "draining"}
        /\ UNCHANGED <<work_queue, freethreads, working_workers, workers, wpc, pills>>
    BY <1>7 DEF CallPushTask, CallWaitForTasks
  <2>2. SameSets
    BY <2>1 DEF SameSets, In
  <2>3. QED
    BY <2>1, <2>2, QuietStep DEF Killing, Counted
<1>8. CASE SpuriousMainWakeup
  <2>1. SameSets
    BY <1>8 DEF SpuriousMainWakeup, SameSets, In
  <2>2. QED
    BY <1>8, <2>1, NotifyMainMoves, QuietStep DEF SpuriousMainWakeup, TypeOK
<1>9. QED
  BY <1>1, <1>2, <1>3, <1>4, <1>5, <1>6, <1>7, <1>8 DEF MainStep, ClientCall

(* A worker moves within one of the sets the invariant counts.             *)
LEMMA WorkerGoesSets ==
    ASSUME TypeOK, NEW w \in Worker, NEW from, NEW to, WorkerGoes(w, from, to),
           \A S \in {Free, Working, {"exiting"}, Off} : from \in S <=> to \in S
    PROVE  SameSets
<1>1. wpc[w] = from /\ wpc' = [wpc EXCEPT ![w] = to]
  BY DEF WorkerGoes
<1>2. ASSUME NEW S, from \in S <=> to \in S
      PROVE  In(S)' = In(S)
  BY <1>1, <1>2 DEF TypeOK, In
<1>3. QED
  BY <1>2 DEF SameSets

LEMMA WorkerStepInv ==
    ASSUME TypeOK, PoolInv, NEW w \in Worker, WorkerStep(w) \/ SpuriousWakeup(w)
    PROVE  PoolInv'
<1> USE DEF poolVars, mainVars, historyVars
<1>1. CASE StartWorker(w)
  <2>1. /\ wpc[w] = "starting" /\ wpc' = [wpc EXCEPT ![w] = "checking"]
        /\ freethreads' = freethreads + 1
        /\ UNCHANGED <<work_queue, working_workers, workers, mpc, pills>>
    BY <1>1 DEF StartWorker, WorkerGoes
  <2>2. /\ In(Free)' = In(Free) \cup {w} /\ w \notin In(Free)
        /\ In(Working)' = In(Working) /\ In({"exiting"})' = In({"exiting"})
        /\ In(Off)' = In(Off)
    BY <2>1 DEF TypeOK, In, Free, Working, Off, Finished
  <2>3. Cardinality(In(Free)') = Cardinality(In(Free)) + 1
    BY <2>2, FiniteIn, CountOneMore
  <2>4. QED
    BY <2>1, <2>2, <2>3 DEF PoolInv, CountersExact, WorkersExact,
       OnlyPillsWhenKilling, PillsMatchWorkers, CountingIdle, Killing, Counted, Off
<1>2. CASE WaitForWork(w)
  <2>1. SameSets
    BY <1>2, WorkerGoesSets DEF WaitForWork, Free, Working, Off, Finished
  <2>2. QED
    BY <1>2, <2>1, NotifyMainMoves, QuietStep DEF WaitForWork, WorkerGoes, TypeOK
<1>3. CASE TakeWork(w)
  <2> DEFINE u == Head(work_queue)
  <2>1. /\ wpc[w] = "checking" /\ wpc' = [wpc EXCEPT ![w] = FirstStep(u)]
        /\ work_queue # <<>> /\ work_queue' = Tail(work_queue)
        /\ freethreads' = freethreads - 1 /\ working_workers' = working_workers + 1
        /\ UNCHANGED <<workers, mpc, pills>>
    BY <1>3 DEF TakeWork
  <2>2. FirstStep(u) \in {"exiting", "dispatching", "scanning"}
    BY DEF FirstStep
  <2>3. /\ In(Free)' = In(Free) \ {w} /\ w \in In(Free)
        /\ In(Working)' = In(Working) \cup {w} /\ w \notin In(Working)
        /\ In(Off)' = In(Off)
    BY <2>1, <2>2 DEF TypeOK, In, Free, Working, Off, Finished
  <2>4. /\ Cardinality(In(Free)') = Cardinality(In(Free)) - 1
        /\ Cardinality(In(Working)') = Cardinality(In(Working)) + 1
    BY <2>3, FiniteIn, CountOneMore, CountOneLess
  <2>5. CountersExact' /\ WorkersExact' /\ CountingIdle'
    BY <2>1, <2>3, <2>4 DEF PoolInv, CountersExact, WorkersExact, CountingIdle, Off
  <2>6. CASE ~Killing
    BY <2>1, <2>5, <2>6 DEF PoolInv, OnlyPillsWhenKilling, PillsMatchWorkers,
       Killing, Counted
  <2>7. CASE Killing
    <3>1. /\ Len(work_queue) \in Nat \ {0} /\ DOMAIN work_queue = 1 .. Len(work_queue)
          /\ Len(Tail(work_queue)) = Len(work_queue) - 1
          /\ \A i \in DOMAIN Tail(work_queue) :
                i + 1 \in DOMAIN work_queue /\ Tail(work_queue)[i] = work_queue[i + 1]
      BY <2>1, EmptySeq, LenProperties, HeadTailProperties DEF TypeOK
    <3>2. Head(work_queue) = work_queue[1] /\ 1 \in DOMAIN work_queue
      BY <2>1, <3>1 DEF TypeOK
    <3>3. u = PoisonPill
      BY <2>7, <3>2 DEF PoolInv, OnlyPillsWhenKilling
    <3>4. FirstStep(u) = "exiting"
      BY <3>3 DEF FirstStep, PoisonPill
    <3>5. In({"exiting"})' = In({"exiting"}) \cup {w} /\ w \notin In({"exiting"})
      BY <2>1, <3>4 DEF TypeOK, In
    <3>6. Cardinality(In({"exiting"})') = Cardinality(In({"exiting"})) + 1
      BY <3>5, FiniteIn, CountOneMore
    <3>7. OnlyPillsWhenKilling'
      BY <2>1, <2>3, <2>7, <3>1, <3>5 DEF PoolInv, OnlyPillsWhenKilling
    <3>8. /\ Cardinality(In({"exiting"})) \in Nat /\ pills \in Nat
          /\ Cardinality(workers) \in Nat
      BY FiniteIn, FiniteWorkers DEF TypeOK
    <3>9. PillsMatchWorkers'
      BY <2>1, <3>1, <3>6, <3>8 DEF PoolInv, PillsMatchWorkers, Counted
    <3>10. QED
      BY <2>5, <3>7, <3>9 DEF PoolInv
  <2>8. QED  BY <2>6, <2>7
<1>4. CASE PushScannerTask(w)
  <2>1. /\ wpc[w] = "dispatching" /\ NotifyWorker
        /\ UNCHANGED <<freethreads, working_workers, workers, mpc, pills>>
    BY <1>4 DEF PushScannerTask, Enqueue
  <2>2. SameSets
    BY <2>1, NotifyKeepsSets
  <2>3. ~Killing
    BY <2>1 DEF PoolInv, OnlyPillsWhenKilling, In, Working
  <2>4. QED
    BY <2>1, <2>2, <2>3 DEF PoolInv, SameSets, CountersExact, WorkersExact,
       OnlyPillsWhenKilling, PillsMatchWorkers, CountingIdle, Killing, Counted, Off
<1>5. CASE Dispatched(w)
  <2>1. SameSets
    BY <1>5, WorkerGoesSets DEF Dispatched, Free, Working, Off, Finished
  <2>2. QED
    BY <1>5, <2>1, QuietStep DEF Dispatched, WorkerGoes, Killing, Counted
<1>6. CASE ScannerReturns(w) \/ Release(w) \/ LastStatus(w) \/ SpuriousWakeup(w)
  <2>1. SameSets
    BY <1>6, WorkerGoesSets DEF ScannerReturns, Release, LastStatus, SpuriousWakeup,
       Free, Working, Off, Finished
  <2>2. QED
    BY <1>6, <2>1, QuietStep DEF ScannerReturns, Release, LastStatus, SpuriousWakeup,
       WorkerGoes, Killing, Counted
<1>7. CASE StopWorking(w)
  <2>1. /\ wpc[w] = "finishing" /\ wpc' = [wpc EXCEPT ![w] = "freeing"]
        /\ working_workers' = working_workers - 1
        /\ UNCHANGED <<work_queue, freethreads, workers, mpc, pills>>
    BY <1>7 DEF StopWorking, WorkerGoes
  <2>2. /\ In(Working)' = In(Working) \ {w} /\ w \in In(Working)
        /\ In(Free)' = In(Free) /\ In({"exiting"})' = In({"exiting"})
        /\ In(Off)' = In(Off)
    BY <2>1 DEF TypeOK, In, Free, Working, Off, Finished
  <2>3. Cardinality(In(Working)') = Cardinality(In(Working)) - 1
    BY <2>2, FiniteIn, CountOneLess
  <2>4. ~Killing
    BY <2>1 DEF PoolInv, OnlyPillsWhenKilling, In, Working
  <2>5. QED
    BY <2>1, <2>2, <2>3, <2>4 DEF PoolInv, CountersExact, WorkersExact,
       OnlyPillsWhenKilling, PillsMatchWorkers, CountingIdle, Killing, Counted, Off
<1>8. CASE BecomeFree(w)
  <2>1. /\ wpc[w] = "freeing" /\ wpc' = [wpc EXCEPT ![w] = "checking"]
        /\ freethreads' = freethreads + 1 /\ NotifyMain
        /\ UNCHANGED <<work_queue, working_workers, workers, pills>>
    BY <1>8 DEF BecomeFree, WorkerGoes
  <2>2. /\ In(Free)' = In(Free) \cup {w} /\ w \notin In(Free)
        /\ In(Working)' = In(Working) /\ In({"exiting"})' = In({"exiting"})
        /\ In(Off)' = In(Off)
    BY <2>1 DEF TypeOK, In, Free, Working, Off, Finished
  <2>3. Cardinality(In(Free)') = Cardinality(In(Free)) + 1
    BY <2>2, FiniteIn, CountOneMore
  <2>4. /\ Killing' <=> Killing
        /\ Counted' <=> Counted
        /\ mpc' = "counting" <=> mpc = "counting"
    BY <2>1, NotifyMainMoves DEF TypeOK
  <2>5. QED
    BY <2>1, <2>2, <2>3, <2>4 DEF PoolInv, CountersExact, WorkersExact,
       OnlyPillsWhenKilling, PillsMatchWorkers, CountingIdle, Off
<1>9. CASE ExitWorker(w)
  <2>1. /\ wpc[w] = "exiting" /\ wpc' = [wpc EXCEPT ![w] = "exited"]
        /\ working_workers' = working_workers - 1 /\ workers' = workers \ {w}
        /\ UNCHANGED <<work_queue, freethreads, mpc, pills>>
    BY <1>9 DEF ExitWorker, WorkerGoes
  <2>2. /\ In(Working)' = In(Working) \ {w} /\ w \in In(Working)
        /\ In({"exiting"})' = In({"exiting"}) \ {w} /\ w \in In({"exiting"})
        /\ In(Free)' = In(Free) /\ In(Off)' = In(Off) \cup {w} /\ w \notin In(Off)
    BY <2>1 DEF TypeOK, In, Free, Working, Off, Finished
  <2>3. WorkersExact' /\ w \in workers
    <3>1. workers = Worker \ In(Off)
      BY DEF PoolInv, WorkersExact, Off
    <3>2. workers' = Worker \ In(Off)'
      BY <2>1, <2>2, <3>1
    <3>3. QED
      BY <2>2, <3>1, <3>2 DEF WorkersExact, Off
  <2>4. /\ Cardinality(In(Working)') = Cardinality(In(Working)) - 1
        /\ Cardinality(In({"exiting"})') = Cardinality(In({"exiting"})) - 1
        /\ Cardinality(workers') = Cardinality(workers) - 1
    <3>1. Cardinality(In(Working)') = Cardinality(In(Working)) - 1
      BY <2>2, FiniteIn, CountOneLess
    <3>2. Cardinality(In({"exiting"})') = Cardinality(In({"exiting"})) - 1
      BY <2>2, FiniteIn, CountOneLess
    <3>3. Cardinality(workers') = Cardinality(workers) - 1
      BY <2>1, <2>3, FiniteWorkers, CountOneLess
    <3>4. QED  BY <3>1, <3>2, <3>3
  <2>5. CountersExact' /\ OnlyPillsWhenKilling' /\ CountingIdle'
    BY <2>1, <2>2, <2>4 DEF PoolInv, CountersExact, OnlyPillsWhenKilling,
       CountingIdle, Killing
  <2>6. /\ Cardinality(In({"exiting"})) \in Nat /\ Len(work_queue) \in Nat
        /\ Cardinality(workers) \in Nat /\ pills \in Nat
    BY FiniteIn, FiniteWorkers, LenProperties DEF TypeOK
  <2>7. PillsMatchWorkers'
    BY <2>1, <2>4, <2>6 DEF PoolInv, PillsMatchWorkers, Counted
  <2>8. QED
    BY <2>3, <2>5, <2>7 DEF PoolInv
<1>10. QED
  BY <1>1, <1>2, <1>3, <1>4, <1>5, <1>6, <1>7, <1>8, <1>9 DEF WorkerStep

LEMMA RecurseInv ==
    ASSUME TypeOK, PoolInv, NEW w \in Worker, NEW c \in Child, Recurse(w, c)
    PROVE  PoolInv'
<1>1. SameSets
  BY WorkerGoesSets DEF Recurse, Free, Working, Off, Finished
<1>2. QED
  BY <1>1, QuietStep DEF Recurse, WorkerGoes, Killing, Counted, poolVars

LEMMA RecurseQueuedInv ==
    ASSUME TypeOK, PoolInv, NEW w \in Worker, NEW c \in Child, RecurseQueued(w, c)
    PROVE  PoolInv'
<1>1. /\ wpc[w] = "scanning" /\ NotifyWorker
      /\ UNCHANGED <<freethreads, working_workers, workers, mpc, pills>>
  BY DEF RecurseQueued, Enqueue, mainVars
<1>2. SameSets
  BY <1>1, NotifyKeepsSets
<1>3. ~Killing
  BY <1>1 DEF PoolInv, OnlyPillsWhenKilling, In, Working
<1>4. QED
  BY <1>1, <1>2, <1>3 DEF PoolInv, SameSets, CountersExact, WorkersExact,
     OnlyPillsWhenKilling, PillsMatchWorkers, CountingIdle, Killing, Counted, Off

LEMMA PoolInit == Init => PoolInv
<1> SUFFICES ASSUME Init PROVE PoolInv
  OBVIOUS
<1>1. In(Free) = {} /\ In(Working) = {} /\ In({"exiting"}) = {}
  BY DEF Init, In, Free, Working
<1>2. workers = Worker \ In(Off)
  BY DEF Init, In, Off
<1>3. QED
  BY <1>1, <1>2, FS_EmptySet DEF Init, PoolInv, CountersExact, WorkersExact,
     OnlyPillsWhenKilling, PillsMatchWorkers, CountingIdle, Killing, Counted, Off

LEMMA PoolStep == TypeOK /\ PoolInv /\ [Next]_vars => PoolInv'
<1> SUFFICES ASSUME TypeOK, PoolInv, [Next]_vars PROVE PoolInv'
  OBVIOUS
<1>1. CASE UNCHANGED vars
  BY <1>1, QuietStep DEF vars, poolVars, threadVars, mainVars, SameSets, In,
     Killing, Counted
<1>2. QED
  BY <1>1, MainStepInv, WorkerStepInv, RecurseInv, RecurseQueuedInv DEF Next, Terminated

(* The counters the main thread decides on are exact, the worker set is    *)
(* the set of live workers, wait_for_tasks() inside join() leaves nothing  *)
(* but null tasks behind, and join() pushes exactly as many null tasks as  *)
(* there are workers to take them, for any number of workers, sbufs and    *)
(* scanners.                                                               *)
THEOREM PoolCorrect ==
    Spec => [](/\ CountersExact /\ WorkersExact
               /\ OnlyPillsWhenKilling /\ PillsMatchWorkers)
<1>1. PoolInv => /\ CountersExact /\ WorkersExact
                 /\ OnlyPillsWhenKilling /\ PillsMatchWorkers
  BY DEF PoolInv
<1>2. QED
  BY <1>1, TypeInit, TypeStep, PoolInit, PoolStep, PTL DEF Spec

(* The counters on their own: what push_task(), wait_for_tasks() and the   *)
(* status reports decide on is how many workers there really are.          *)
THEOREM CountersCorrect == Spec => []CountersExact
BY PoolCorrect, PTL

-----------------------------------------------------------------------------
(* Workers only come to the end of their thread, never back.               *)
LEMMA FinishedStays ==
    ASSUME TypeOK, [Next]_vars, mpc # "launching"
    PROVE  /\ In({"unlaunched"})' \subseteq In({"unlaunched"})
           /\ In(Finished) \subseteq In(Finished)'
<1> USE DEF poolVars, threadVars, mainVars, historyVars, MainGoes
<1>1. CASE MainStep \/ ClientCall \/ SpuriousMainWakeup
  <2>1. UNCHANGED wpc \/ NotifyWorker
    BY <1>1 DEF MainStep, ClientCall, SpuriousMainWakeup, LaunchWorker, LaunchDone,
       PushTask, MainPushTask, Enqueue, WaitForTasks, CountWorkers, KillWorker,
       AllKilled, JoinReturns, DestroyPool, CallPushTask, CallWaitForTasks,
       MainThreadWait, DestroyMembers
  <2>2. QED
    BY <2>1 DEF TypeOK, NotifyWorker, In, Finished
<1>2. ASSUME NEW w \in Worker,
             \/ WorkerStep(w)
             \/ \E c \in Child : Recurse(w, c) \/ RecurseQueued(w, c)
             \/ SpuriousWakeup(w)
      PROVE  /\ In({"unlaunched"})' \subseteq In({"unlaunched"})
             /\ In(Finished) \subseteq In(Finished)'
  <2>1. CASE PushScannerTask(w) \/ \E c \in Child : RecurseQueued(w, c)
    <3>1. NotifyWorker
      BY <2>1 DEF PushScannerTask, RecurseQueued, Enqueue
    <3>2. QED
      BY <3>1 DEF TypeOK, NotifyWorker, In, Finished
  <2>2. CASE ExitWorker(w) \/ LastStatus(w)
    BY <2>2 DEF TypeOK, ExitWorker, LastStatus, WorkerGoes, In, Finished
  <2>3. CASE TakeWork(w)
    BY <2>3 DEF TypeOK, TakeWork, FirstStep, In, Finished
  <2>4. CASE Dispatched(w)
    BY <2>4 DEF TypeOK, Dispatched, WorkerGoes, In, Finished
  <2>5. CASE \/ StartWorker(w) \/ WaitForWork(w) \/ ScannerReturns(w) \/ Release(w)
             \/ StopWorking(w) \/ BecomeFree(w) \/ SpuriousWakeup(w)
             \/ \E c \in Child : Recurse(w, c)
    BY <2>5 DEF TypeOK, StartWorker, WaitForWork, ScannerReturns, Release, StopWorking,
       BecomeFree, SpuriousWakeup, Recurse, WorkerGoes, In, Finished
  <2>6. QED
    BY <1>2, <2>1, <2>2, <2>3, <2>4, <2>5 DEF WorkerStep
<1>3. CASE UNCHANGED vars
  BY <1>3 DEF vars, In
<1>4. QED
  BY <1>1, <1>2, <1>3 DEF Next, Terminated

(* The two moves of the main thread that the invariant is about.           *)
LEMMA MainMoves ==
    ASSUME TypeOK, [Next]_vars
    PROVE  /\ mpc = "launching" => mpc' = "launching" \/ LaunchDone
           /\ ~Joined /\ Joined' => JoinReturns
<1> USE DEF mainVars, MainGoes, Joined
<1>1. CASE MainStep \/ ClientCall
  BY <1>1 DEF TypeOK, MainStep, ClientCall, LaunchWorker, LaunchDone, PushTask,
     MainPushTask, WaitForTasks, CountWorkers, KillWorker, AllKilled, JoinReturns,
     DestroyPool, CallPushTask, CallWaitForTasks, MainThreadWait, DestroyMembers
<1>2. ASSUME UNCHANGED mpc \/ NotifyMain
      PROVE  mpc = "launching" => mpc' = "launching"
  BY <1>2 DEF NotifyMain, MainWaiting, AfterWait
<1>3. ASSUME UNCHANGED mpc \/ NotifyMain, ~Joined
      PROVE  ~Joined'
  BY <1>3 DEF NotifyMain, MainWaiting, AfterWait
<1>4. ASSUME NEW w \in Worker,
             \/ WorkerStep(w)
             \/ \E c \in Child : Recurse(w, c) \/ RecurseQueued(w, c)
             \/ SpuriousWakeup(w)
      PROVE  UNCHANGED mpc \/ NotifyMain
  BY <1>4 DEF WorkerStep, StartWorker, WaitForWork, TakeWork, PushScannerTask,
     Dispatched, ScannerReturns, Release, StopWorking, BecomeFree, ExitWorker,
     LastStatus, SpuriousWakeup, Recurse, RecurseQueued
<1>5. SpuriousMainWakeup => NotifyMain
  BY DEF SpuriousMainWakeup
<1>6. UNCHANGED vars => UNCHANGED mpc
  BY DEF vars
<1>7. QED
  BY <1>1, <1>2, <1>3, <1>4, <1>5, <1>6 DEF Next, Terminated

LEMMA JoinInit == Init => JoinInv
BY DEF Init, JoinInv, LaunchedFirst, JoinedMeansGone, Joined

(* Launching ends when all are launched; join() returns when the worker    *)
(* set, which is that of the live workers, is empty.                       *)
LEMMA JoinStep == TypeOK /\ PoolInv /\ JoinInv /\ [Next]_vars => JoinInv'
<1> SUFFICES ASSUME TypeOK, PoolInv, JoinInv, [Next]_vars PROVE JoinInv'
  OBVIOUS
<1>1. CASE mpc = "launching"
  <2>1. LaunchedFirst'
    BY <1>1, MainMoves DEF LaunchDone, MainGoes, threadVars, LaunchedFirst, In
  <2>2. ~Joined'
    BY <1>1, MainMoves DEF Joined, LaunchDone, MainGoes
  <2>3. QED  BY <2>1, <2>2 DEF JoinInv, JoinedMeansGone
<1>2. CASE mpc # "launching"
  <2>1. LaunchedFirst'
    BY <1>2, FinishedStays DEF JoinInv, LaunchedFirst
  <2>2. ASSUME In(Finished) = Worker
        PROVE  In(Finished)' = Worker
    <3>1. In(Finished) \subseteq In(Finished)'
      BY <1>2, FinishedStays
    <3>2. QED  BY <2>2, <3>1 DEF In
  <2>3. CASE ~Joined /\ Joined'
    <3>1. Cardinality(workers) = 0
      BY <2>3, MainMoves DEF JoinReturns, WorkerCount
    <3>2. workers = {}
      BY <3>1, FiniteWorkers, FS_EmptySet
    <3>3. In({"unlaunched"}) = {}
      BY <1>2 DEF JoinInv, LaunchedFirst
    <3>4. In(Finished) = Worker
      BY <3>2, <3>3 DEF PoolInv, WorkersExact, In
    <3>5. QED  BY <2>1, <2>2, <3>4 DEF JoinInv, JoinedMeansGone
  <2>4. CASE ~Joined'
    BY <2>1, <2>4 DEF JoinInv, JoinedMeansGone
  <2>5. CASE Joined
    BY <2>1, <2>2, <2>5 DEF JoinInv, JoinedMeansGone
  <2>6. QED  BY <2>3, <2>4, <2>5
<1>3. QED  BY <1>1, <1>2

(* ~scanner_set() may rely on join(): it returns only when no worker is in *)
(* its loop any more, for any number of workers.                           *)
THEOREM JoinCorrect == Spec => []JoinedMeansGone
<1>1. JoinInv => JoinedMeansGone
  BY DEF JoinInv
<1>2. QED
  BY <1>1, TypeInit, TypeStep, PoolInit, PoolStep, JoinInit, JoinStep, PTL DEF Spec

-----------------------------------------------------------------------------
(* No unit of work is lost or made up by the pool, and therefore           *)
(* wait_for_tasks() returns only when everything accepted has been run.    *)

(* What is in the queue after a push and after a take.                     *)
LEMMA QueuedPush ==
    ASSUME TypeOK, NEW u \in WorkUnit, work_queue' = Append(work_queue, u)
    PROVE  Queued' = Queued \cup {u}
<1>1. /\ Len(work_queue) \in Nat /\ DOMAIN work_queue = 1 .. Len(work_queue)
      /\ DOMAIN work_queue' = 1 .. (Len(work_queue) + 1)
      /\ \A i \in 1 .. Len(work_queue) : work_queue'[i] = work_queue[i]
      /\ work_queue'[Len(work_queue) + 1] = u
  BY AppendProperties, LenProperties DEF TypeOK
<1>2. \A i \in DOMAIN work_queue' : i \in DOMAIN work_queue \/ i = Len(work_queue) + 1
  BY <1>1
<1>3. QED
  BY <1>1, <1>2 DEF Queued

LEMMA QueuedTake ==
    ASSUME TypeOK, work_queue # <<>>, work_queue' = Tail(work_queue)
    PROVE  /\ Queued = Queued' \cup {Head(work_queue)}
           /\ Head(work_queue) \in WorkUnit
<1> DEFINE n == Len(work_queue)
<1>1. /\ n \in Nat \ {0} /\ DOMAIN work_queue = 1 .. n
      /\ Head(work_queue) \in WorkUnit
      /\ Tail(work_queue) \in Seq(WorkUnit) /\ Len(Tail(work_queue)) = n - 1
  BY EmptySeq, LenProperties, HeadTailProperties DEF TypeOK
<1>2. DOMAIN work_queue' = 1 .. (n - 1)
  BY <1>1, LenProperties
<1>3. Head(work_queue) = work_queue[1]
  BY <1>1 DEF TypeOK
<1>4. \A i \in 1 .. (n - 1) : work_queue'[i] = work_queue[i + 1]
  BY <1>1 DEF TypeOK
<1>5. Queued' \cup {Head(work_queue)} \subseteq Queued
  <2>1. \A i \in DOMAIN work_queue' : i + 1 \in DOMAIN work_queue
    BY <1>1, <1>2
  <2>2. QED
    BY <1>1, <1>2, <1>3, <1>4, <2>1 DEF Queued
<1>6. Queued \subseteq Queued' \cup {Head(work_queue)}
  <2>1. ASSUME NEW i \in DOMAIN work_queue, i # 1
        PROVE  work_queue[i] \in Queued'
    <3>1. i - 1 \in DOMAIN work_queue' /\ work_queue'[i - 1] = work_queue[i]
      BY <1>1, <1>2, <1>4, <2>1
    <3>2. QED  BY <3>1 DEF Queued
  <2>2. QED
    BY <1>3, <2>1 DEF Queued
<1>7. QED
  BY <1>1, <1>5, <1>6

-----------------------------------------------------------------------------
WorkInv == NothingLost /\ NothingForged

(* No worker starts or stops running a scanner or fanning out.             *)
SameActivity ==
    /\ UNCHANGED <<runs, wu, todo, fanout>>
    /\ \A x \in Worker : /\ wpc'[x] = "scanning" <=> wpc[x] = "scanning"
                         /\ wpc'[x] = "dispatching" <=> wpc[x] = "dispatching"

LEMMA NotifyKeepsActivity ==
    ASSUME TypeOK, NotifyWorker, UNCHANGED <<runs, wu, todo, fanout>>
    PROVE  SameActivity
BY DEF TypeOK, NotifyWorker, SameActivity, In

(* A step that touches neither the queue nor what the workers are running. *)
LEMMA IdleStep ==
    ASSUME WorkInv, SameActivity, UNCHANGED <<work_queue, seen>>
    PROVE  WorkInv'
<1>1. Queued' = Queued /\ Accepted' = Accepted /\ Completed' = Completed
  BY DEF SameActivity, Queued, Accepted, Completed
<1>2. ASSUME NEW u PROVE Pending(u) => Pending(u)'
  BY <1>1 DEF SameActivity, Pending
<1>3. NothingLost'
  BY <1>1, <1>2 DEF WorkInv, NothingLost
<1>4. NothingForged'
  BY <1>1 DEF WorkInv, NothingForged, SameActivity, Genuine
<1>5. QED  BY <1>3, <1>4 DEF WorkInv

(* A unit is queued by a thread that runs no scanner.                      *)
LEMMA QueueStep ==
    ASSUME TypeOK, WorkInv, SameActivity, NEW v \in WorkUnit,
           work_queue' = Append(work_queue, v), UNCHANGED seen,
           v.scanner = NoScanner, v.sbuf \in Sbuf => v.sbuf \in seen
    PROVE  WorkInv'
<1>1. Queued' = Queued \cup {v} /\ Accepted' = Accepted /\ Completed' = Completed
  BY QueuedPush DEF SameActivity, Accepted, Completed
<1>2. ASSUME NEW u PROVE Pending(u) => Pending(u)'
  BY <1>1 DEF SameActivity, Pending
<1>3. NothingLost'
  BY <1>1, <1>2 DEF WorkInv, NothingLost
<1>4. Genuine(v)'
  BY ScannerAssumption DEF Genuine
<1>5. NothingForged'
  BY <1>1, <1>4 DEF WorkInv, NothingForged, SameActivity, Genuine
<1>6. QED  BY <1>3, <1>5 DEF WorkInv

-----------------------------------------------------------------------------
LEMMA WorkInit == Init => WorkInv
<1> SUFFICES ASSUME Init PROVE WorkInv
  OBVIOUS
<1>1. Accepted = {} /\ Completed = {} /\ Queued = {}
  BY DEF Init, Accepted, Completed, Queued
<1>2. \A u : u = PoisonPill => Genuine(u)
  BY SbufAssumption DEF Genuine, PoisonPill, Sbuf
<1>3. NothingLost
  BY <1>1 DEF NothingLost
<1>4. NothingForged
  BY <1>1, <1>2 DEF Init, NothingForged
<1>5. QED  BY <1>3, <1>4 DEF WorkInv

(* A thread queues a whole sbuf: all its units are accepted at once.       *)
LEMMA AcceptWork ==
    ASSUME TypeOK, WorkInv, NEW s \in Sbuf, work_queue' = Append(work_queue, AllScanners(s)),
           NotifyWorker, seen' = seen \cup {s}, UNCHANGED <<runs, wu, todo, fanout>>
    PROVE  WorkInv'
<1>0. PICK v : v = AllScanners(s)
  OBVIOUS
<1>1. v \in WorkUnit /\ v.sbuf = s /\ v.scanner = NoScanner
  BY <1>0, UnitType DEF AllScanners
<1>2. Queued' = Queued \cup {v} /\ Completed' = Completed
  BY <1>0, <1>1, QueuedPush DEF Completed
<1>3. SameActivity
  BY NotifyKeepsActivity
<1>4. ASSUME NEW u PROVE Pending(u) => Pending(u)'
  BY <1>2, <1>3 DEF SameActivity, Pending
<1>5. \A u \in Accepted' : u \in Accepted \/ u.sbuf = s
  BY DEF Accepted
<1>6. \A u : u.sbuf = s => Pending(u)'
  BY <1>0, <1>2 DEF Pending, AllScanners
<1>7. NothingLost'
  BY <1>2, <1>4, <1>5, <1>6 DEF WorkInv, NothingLost
<1>8. Genuine(v)'
  BY <1>1, ScannerAssumption DEF Genuine
<1>9. Accepted \subseteq Accepted' /\ seen \subseteq seen'
  BY DEF Accepted
<1>10. NothingForged'
  BY <1>2, <1>3, <1>8, <1>9 DEF WorkInv, NothingForged, SameActivity, Genuine
<1>11. QED  BY <1>7, <1>10 DEF WorkInv

LEMMA PushTaskWork ==
    ASSUME TypeOK, WorkInv, PushTask
    PROVE  WorkInv'
<1>1. CASE freethreads = 0
  <2>1. SameActivity
    BY <1>1 DEF PushTask, MainPushTask, SameActivity
  <2>2. QED
    BY <1>1, <2>1, IdleStep DEF PushTask, MainPushTask
<1>2. CASE freethreads # 0
  <2>1. mitem \in Sbuf /\ seen' = seen \cup {mitem}
    BY <1>2 DEF PushTask, TypeOK
  <2>2. /\ work_queue' = Append(work_queue, AllScanners(mitem)) /\ NotifyWorker
        /\ UNCHANGED <<runs, wu, todo, fanout>>
    BY <1>2 DEF PushTask, MainPushTask, Enqueue
  <2>3. QED
    BY <2>1, <2>2, AcceptWork
<1>3. QED  BY <1>1, <1>2

LEMMA MainWork ==
    ASSUME TypeOK, WorkInv, MainStep \/ ClientCall \/ SpuriousMainWakeup
    PROVE  WorkInv'
<1> USE DEF poolVars, threadVars, mainVars, historyVars
<1>1. CASE LaunchWorker
  <2>1. SameActivity
    BY <1>1 DEF TypeOK, LaunchWorker, SameActivity, In
  <2>2. QED
    BY <1>1, <2>1, IdleStep DEF LaunchWorker
<1>2. CASE PushTask
  BY <1>2, PushTaskWork
<1>3. CASE WaitForTasks
  <2>1. SameActivity
    BY <1>3, NotifyKeepsActivity DEF WaitForTasks, SameActivity
  <2>2. QED
    BY <1>3, <2>1, IdleStep DEF WaitForTasks
<1>4. CASE KillWorker
  <2>1. UNCHANGED <<runs, wu, todo, fanout, seen>>
    BY <1>4 DEF KillWorker, MainPushTask
  <2>2. CASE freethreads = 0
    <3>1. SameActivity
      BY <1>4, <2>1, <2>2 DEF KillWorker, MainPushTask, SameActivity
    <3>2. QED
      BY <1>4, <2>1, <2>2, <3>1, IdleStep DEF KillWorker, MainPushTask
  <2>3. CASE freethreads # 0
    <3>1. work_queue' = Append(work_queue, PoisonPill) /\ NotifyWorker
      BY <1>4, <2>3 DEF KillWorker, MainPushTask, Enqueue
    <3>2. SameActivity
      BY <2>1, <3>1, NotifyKeepsActivity
    <3>3. /\ PoisonPill \in WorkUnit /\ PoisonPill.scanner = NoScanner
          /\ PoisonPill.sbuf \notin Sbuf
      BY UnitType, SbufAssumption DEF PoisonPill, Sbuf
    <3>4. QED
      BY <2>1, <3>1, <3>2, <3>3, QueueStep
  <2>4. QED  BY <2>2, <2>3
<1>5. CASE \/ LaunchDone \/ CountWorkers \/ AllKilled \/ JoinReturns \/ DestroyPool
           \/ DestroyMembers \/ MainThreadWait \/ SpuriousMainWakeup
           \/ \E s \in Image : CallPushTask(s)
           \/ \E return \in {"running", "counting"} : CallWaitForTasks(return)
  <2>1. UNCHANGED <<work_queue, seen, runs, wpc, wu, todo, fanout>>
    BY <1>5 DEF LaunchDone, CountWorkers, AllKilled, JoinReturns, DestroyPool,
       DestroyMembers, MainThreadWait, SpuriousMainWakeup, CallPushTask,
       CallWaitForTasks, MainGoes
  <2>2. SameActivity
    BY <2>1 DEF SameActivity
  <2>3. QED
    BY <2>1, <2>2, IdleStep
<1>6. QED
  BY <1>1, <1>2, <1>3, <1>4, <1>5 DEF MainStep, ClientCall

-----------------------------------------------------------------------------
(* A worker takes the unit at the front of the queue.                      *)
LEMMA TakeWorkWork ==
    ASSUME TypeOK, WorkInv, NEW w \in Worker, TakeWork(w)
    PROVE  WorkInv'
<1>0. PICK h : h = Head(work_queue)
  OBVIOUS
<1>1. /\ wpc[w] = "checking" /\ wpc' = [wpc EXCEPT ![w] = FirstStep(h)]
      /\ wu' = [wu EXCEPT ![w] = h]
      /\ fanout' = [fanout EXCEPT ![w] = IF FirstStep(h) = "dispatching"
                                            THEN h.sbuf ELSE NullSbuf]
      /\ todo' = [todo EXCEPT ![w] = IF FirstStep(h) = "dispatching"
                                        THEN FanOut(h.sbuf) ELSE {}]
      /\ UNCHANGED <<seen, runs>>
  BY <1>0 DEF TakeWork, historyVars
<1>2. Queued = Queued' \cup {h} /\ h \in WorkUnit
  BY <1>0, QueuedTake DEF TakeWork
<1>3. Accepted' = Accepted /\ Completed' = Completed
  BY <1>1 DEF Accepted, Completed
<1>4. Genuine(h) /\ Genuine(h)'
  BY <1>1, <1>2 DEF WorkInv, NothingForged, Genuine
<1>5. ASSUME NEW u \in Accepted, Pending(u)
      PROVE  Pending(u)'
  <2>1. u \in ScannerUnit /\ u.sbuf \in Sbuf /\ u.scanner \in Scanner /\ u.sbuf \notin Skipped
    BY <1>5 DEF Accepted, ScannerUnit
  <2>2. CASE u = h
    <3>1. FirstStep(h) = "scanning"
      BY <2>1, <2>2, SbufAssumption, ScannerAssumption DEF FirstStep, Sbuf
    <3>2. wpc'[w] = "scanning" /\ wu'[w] = u
      BY <1>1, <2>2, <3>1 DEF TypeOK
    <3>3. QED  BY <3>2 DEF Pending
  <2>3. CASE AllScanners(u.sbuf) = h
    <3>1. h.sbuf = u.sbuf /\ h.scanner = NoScanner
      BY <2>3 DEF AllScanners
    <3>2. FirstStep(h) = "dispatching" /\ FanOut(h.sbuf) = Scanner
      BY <2>1, <3>1, SbufAssumption DEF FirstStep, FanOut, Sbuf
    <3>3. wpc'[w] = "dispatching" /\ fanout'[w] = u.sbuf /\ u.scanner \in todo'[w]
      BY <1>1, <2>1, <3>1, <3>2 DEF TypeOK
    <3>4. QED  BY <3>3 DEF Pending
  <2>4. CASE u # h /\ AllScanners(u.sbuf) # h
    <3>1. \A x \in Worker : wpc[x] \in {"scanning", "dispatching"} => x # w
      BY <1>1
    <3>2. QED
      BY <1>1, <1>2, <1>5, <2>4, <3>1 DEF Pending, TypeOK
  <2>5. QED  BY <2>2, <2>3, <2>4
<1>6. NothingLost'
  BY <1>3, <1>5 DEF WorkInv, NothingLost
<1>7. ASSUME NEW x \in Worker
      PROVE  /\ Genuine(wu[x])'
             /\ todo'[x] # {} => fanout'[x] \in seen' \ Skipped
             /\ wpc'[x] = "scanning" => wu'[x] \in ScannerUnit
             /\ wpc'[x] = "dispatching" => wu'[x].sbuf \in Sbuf
  <2>1. CASE x = w
    <3>1. /\ FirstStep(h) = "scanning" => h \in ScannerUnit
          /\ FirstStep(h) = "dispatching" => h.sbuf \in Sbuf
      BY <1>2 DEF FirstStep, WorkUnit, ScannerUnit
    <3>2. FanOut(h.sbuf) # {} => h.sbuf \notin Skipped
      BY DEF FanOut
    <3>3. /\ wu'[x] = h /\ wpc'[x] = FirstStep(h)
          /\ todo'[x] # {} => FirstStep(h) = "dispatching" /\ todo'[x] = FanOut(h.sbuf)
          /\ FirstStep(h) = "dispatching" => fanout'[x] = h.sbuf
      BY <1>1, <2>1 DEF TypeOK
    <3>4. QED
      BY <1>1, <1>4, <3>1, <3>2, <3>3 DEF Genuine
  <2>2. CASE x # w
    <3>1. /\ wu'[x] = wu[x] /\ wpc'[x] = wpc[x]
          /\ todo'[x] = todo[x] /\ fanout'[x] = fanout[x]
      BY <1>1, <2>2 DEF TypeOK
    <3>2. QED
      BY <1>1, <3>1 DEF WorkInv, NothingForged, Genuine
  <2>3. QED  BY <2>1, <2>2
<1>8. NothingForged'
  BY <1>1, <1>2, <1>3, <1>7 DEF WorkInv, NothingForged, Genuine
<1>9. QED  BY <1>6, <1>8 DEF WorkInv

(* A worker queues one scanner of its fan-out.                             *)
LEMMA PushScannerWork ==
    ASSUME TypeOK, WorkInv, NEW w \in Worker, PushScannerTask(w)
    PROVE  WorkInv'
<1>1. PICK sc \in todo[w] : /\ Enqueue([sbuf |-> fanout[w], scanner |-> sc])
                           /\ todo' = [todo EXCEPT ![w] = @ \ {sc}]
  BY DEF PushScannerTask
<1>2. PICK v : v = [sbuf |-> fanout[w], scanner |-> sc]
  OBVIOUS
<1>3. /\ wpc[w] = "dispatching" /\ UNCHANGED <<seen, runs, wu, fanout>>
      /\ work_queue' = Append(work_queue, v) /\ NotifyWorker
      /\ v \in WorkUnit /\ v.sbuf = fanout[w] /\ v.scanner = sc /\ sc \in Scanner
  BY <1>1, <1>2, UnitType DEF PushScannerTask, Enqueue, TypeOK, historyVars
<1>4. Queued' = Queued \cup {v} /\ Accepted' = Accepted /\ Completed' = Completed
  BY <1>3, QueuedPush DEF Accepted, Completed
<1>5. \A x \in Worker : /\ wpc'[x] = "scanning" <=> wpc[x] = "scanning"
                        /\ wpc'[x] = "dispatching" <=> wpc[x] = "dispatching"
  BY <1>3 DEF TypeOK, NotifyWorker, In
<1>6. ASSUME NEW u \in Accepted, Pending(u)
      PROVE  Pending(u)'
  <2>1. CASE u = v
    BY <1>4, <2>1 DEF Pending
  <2>2. CASE u # v
    <3>1. ~(u.sbuf = fanout[w] /\ u.scanner = sc)
      BY <1>2, <2>2 DEF Accepted, ScannerUnit
    <3>2. \A x \in Worker : fanout[x] = u.sbuf /\ u.scanner \in todo[x]
                             => u.scanner \in todo'[x]
      BY <1>1, <3>1 DEF TypeOK
    <3>3. QED
      BY <1>3, <1>4, <1>5, <1>6, <3>2 DEF Pending
  <2>3. QED  BY <2>1, <2>2
<1>7. NothingLost'
  BY <1>4, <1>6 DEF WorkInv, NothingLost
<1>8. fanout[w] \in seen \ Skipped
  BY <1>1 DEF WorkInv, NothingForged
<1>9. Genuine(v)'
  BY <1>3, <1>8 DEF Genuine
<1>10. \A x \in Worker : todo'[x] \subseteq todo[x]
  BY <1>1 DEF TypeOK
<1>11. NothingForged'
  BY <1>3, <1>4, <1>5, <1>9, <1>10 DEF WorkInv, NothingForged, Genuine
<1>12. QED  BY <1>7, <1>11 DEF WorkInv

(* A fan-out ends: the worker had no scanner left to queue.                *)
LEMMA DispatchedWork ==
    ASSUME TypeOK, WorkInv, NEW w \in Worker, Dispatched(w)
    PROVE  WorkInv'
<1>1. /\ todo[w] = {} /\ wpc[w] = "dispatching"
      /\ wpc' = [wpc EXCEPT ![w] = IF wu[w].scanner = NoScanner
                                      THEN "releasing" ELSE "scanning"]
      /\ fanout' = [fanout EXCEPT ![w] = NullSbuf]
      /\ UNCHANGED <<work_queue, wu, todo, seen, runs>>
  BY DEF Dispatched, WorkerGoes, poolVars, historyVars
<1>2. Queued' = Queued /\ Accepted' = Accepted /\ Completed' = Completed
  BY <1>1 DEF Queued, Accepted, Completed
<1>3. ASSUME NEW u \in Accepted, Pending(u)
      PROVE  Pending(u)'
  <2>1. u.scanner # NoScanner
    BY ScannerAssumption DEF Accepted, ScannerUnit
  <2>2. wu[w] = u => wpc'[w] = "scanning"
    BY <1>1, <2>1 DEF TypeOK
  <2>3. \A x \in Worker : x # w => wpc'[x] = wpc[x] /\ fanout'[x] = fanout[x]
    BY <1>1 DEF TypeOK
  <2>4. QED
    BY <1>1, <1>2, <1>3, <2>2, <2>3 DEF Pending
<1>4. NothingLost'
  BY <1>2, <1>3 DEF WorkInv, NothingLost
<1>5. wu[w].scanner # NoScanner => wu[w] \in ScannerUnit
  BY <1>1 DEF WorkInv, NothingForged, TypeOK, WorkUnit, ScannerUnit
<1>6. \A x \in Worker :
         /\ wpc'[x] = "dispatching" => wpc[x] = "dispatching"
         /\ wpc'[x] = "scanning" => wpc[x] = "scanning" \/ wu[x] \in ScannerUnit
         /\ todo[x] # {} => fanout'[x] = fanout[x]
  BY <1>1, <1>5 DEF TypeOK
<1>7. NothingForged'
  BY <1>1, <1>2, <1>6 DEF WorkInv, NothingForged, Genuine
<1>8. QED  BY <1>4, <1>7 DEF WorkInv

(* A scanner recurses: the child's units are accepted and all to be queued.*)
LEMMA RecurseWork ==
    ASSUME TypeOK, WorkInv, NEW w \in Worker, NEW c \in Child, Recurse(w, c)
    PROVE  WorkInv'
<1>1. /\ wpc[w] = "scanning" /\ wpc' = [wpc EXCEPT ![w] = "dispatching"]
      /\ seen' = seen \cup {c} /\ fanout' = [fanout EXCEPT ![w] = c]
      /\ todo' = [todo EXCEPT ![w] = FanOut(c)]
      /\ UNCHANGED <<work_queue, wu, runs>>
  BY DEF Recurse, WorkerGoes, poolVars
<1>2. Queued' = Queued /\ Completed' = Completed
  BY <1>1 DEF Queued, Completed
<1>3. \A x \in Worker : x # w => /\ wpc'[x] = wpc[x] /\ fanout'[x] = fanout[x]
                                 /\ todo'[x] = todo[x]
  BY <1>1 DEF TypeOK
<1>4. wpc'[w] = "dispatching" /\ fanout'[w] = c /\ todo'[w] = FanOut(c)
  BY <1>1 DEF TypeOK
<1>5. ASSUME NEW u, Pending(u) PROVE Pending(u)'
  BY <1>1, <1>2, <1>3, <1>4, <1>5 DEF Pending
<1>6. ASSUME NEW u \in Accepted', u \notin Accepted
      PROVE  Pending(u)'
  <2>1. u.sbuf = c /\ u.sbuf \notin Skipped /\ u.scanner \in Scanner
    BY <1>1, <1>6 DEF Accepted, ScannerUnit
  <2>2. u.scanner \in todo'[w]
    BY <1>4, <2>1 DEF FanOut
  <2>3. QED  BY <1>4, <2>1, <2>2 DEF Pending
<1>7. NothingLost'
  BY <1>2, <1>5, <1>6 DEF WorkInv, NothingLost
<1>8. Accepted \subseteq Accepted' /\ seen \subseteq seen' /\ c \in seen'
  BY <1>1 DEF Accepted
<1>9. FanOut(c) # {} => c \notin Skipped
  BY DEF FanOut
<1>10. wu[w].sbuf \in Sbuf
  BY <1>1 DEF WorkInv, NothingForged, ScannerUnit
<1>11. NothingForged'
  BY <1>1, <1>2, <1>3, <1>4, <1>8, <1>9, <1>10 DEF WorkInv, NothingForged, Genuine
<1>12. QED  BY <1>7, <1>11 DEF WorkInv

LEMMA RecurseQueuedWork ==
    ASSUME TypeOK, WorkInv, NEW w \in Worker, NEW c \in Child, RecurseQueued(w, c)
    PROVE  WorkInv'
BY AcceptWork DEF RecurseQueued, Enqueue, Sbuf

(* A scanner returns: its unit is completed.                               *)
LEMMA ScannerReturnsWork ==
    ASSUME TypeOK, WorkInv, NEW w \in Worker, ScannerReturns(w)
    PROVE  WorkInv'
<1>1. /\ wpc[w] = "scanning" /\ wpc' = [wpc EXCEPT ![w] = "releasing"]
      /\ runs' = [runs EXCEPT ![wu[w]] = @ + 1]
      /\ UNCHANGED <<work_queue, wu, todo, fanout, seen>>
  BY DEF ScannerReturns, WorkerGoes, poolVars
<1>2. wu[w] \in ScannerUnit /\ wu[w] \in Accepted
  BY <1>1 DEF WorkInv, NothingForged, Genuine, Accepted, ScannerUnit
<1>3. \A u \in ScannerUnit : runs'[u] = IF u = wu[w] THEN runs[u] + 1 ELSE runs[u]
  BY <1>1, <1>2 DEF TypeOK
<1>4. Queued' = Queued /\ Accepted' = Accepted
  BY <1>1 DEF Queued, Accepted
<1>5. Completed' = Completed \cup {wu[w]}
  BY <1>2, <1>3 DEF Completed, TypeOK
<1>6. \A x \in Worker : /\ x # w => wpc'[x] = wpc[x]
                        /\ wpc'[w] = "releasing"
  BY <1>1 DEF TypeOK
<1>7. ASSUME NEW u, Pending(u), u # wu[w] PROVE Pending(u)'
  BY <1>1, <1>4, <1>6, <1>7 DEF Pending
<1>8. NothingLost'
  BY <1>4, <1>5, <1>7 DEF WorkInv, NothingLost
<1>9. NothingForged'
  BY <1>1, <1>2, <1>4, <1>5, <1>6 DEF WorkInv, NothingForged, Genuine
<1>10. QED  BY <1>8, <1>9 DEF WorkInv

LEMMA WorkerWork ==
    ASSUME TypeOK, WorkInv, NEW w \in Worker, WorkerStep(w) \/ SpuriousWakeup(w)
    PROVE  WorkInv'
<1> USE DEF poolVars, historyVars
<1>1. CASE \/ StartWorker(w) \/ WaitForWork(w) \/ Release(w) \/ StopWorking(w)
           \/ ExitWorker(w) \/ LastStatus(w) \/ SpuriousWakeup(w)
  <2>1. /\ UNCHANGED <<work_queue, wu, todo, fanout, seen, runs>>
        /\ wpc[w] \notin {"scanning", "dispatching"}
        /\ \E to \in WorkerState \ {"scanning", "dispatching"} :
              wpc' = [wpc EXCEPT ![w] = to]
    BY <1>1 DEF StartWorker, WaitForWork, Release, StopWorking, ExitWorker,
       LastStatus, SpuriousWakeup, WorkerGoes, WorkerState
  <2>2. SameActivity
    BY <2>1 DEF SameActivity, TypeOK
  <2>3. QED  BY <2>1, <2>2, IdleStep
<1>2. CASE BecomeFree(w)
  <2>1. /\ UNCHANGED <<work_queue, todo, fanout, seen, runs>>
        /\ wu' = [wu EXCEPT ![w] = PoisonPill]
        /\ wpc[w] = "freeing" /\ wpc' = [wpc EXCEPT ![w] = "checking"]
    BY <1>2 DEF BecomeFree, WorkerGoes
  <2>2. Queued' = Queued /\ Accepted' = Accepted /\ Completed' = Completed
    BY <2>1 DEF Queued, Accepted, Completed
  <2>3. \A x \in Worker : /\ wpc'[x] = "scanning" <=> wpc[x] = "scanning"
                          /\ wpc'[x] = "dispatching" <=> wpc[x] = "dispatching"
                          /\ x # w => wu'[x] = wu[x]
    BY <2>1 DEF TypeOK
  <2>4. ASSUME NEW u, Pending(u) PROVE Pending(u)'
    BY <2>1, <2>2, <2>3, <2>4 DEF Pending
  <2>5. NothingLost'
    BY <2>2, <2>4 DEF WorkInv, NothingLost
  <2>6. wu'[w].sbuf \notin Sbuf
    BY <2>1, SbufAssumption DEF TypeOK, PoisonPill, Sbuf
  <2>7. NothingForged'
    BY <2>1, <2>2, <2>3, <2>6 DEF WorkInv, NothingForged, Genuine
  <2>8. QED  BY <2>5, <2>7 DEF WorkInv
<1>3. QED
  BY <1>1, <1>2, TakeWorkWork, PushScannerWork, DispatchedWork, ScannerReturnsWork
  DEF WorkerStep

LEMMA WorkStep == TypeOK /\ WorkInv /\ [Next]_vars => WorkInv'
<1> SUFFICES ASSUME TypeOK, WorkInv, [Next]_vars PROVE WorkInv'
  OBVIOUS
<1>1. CASE UNCHANGED vars
  BY <1>1, IdleStep DEF vars, poolVars, threadVars, historyVars, SameActivity
<1>2. QED
  BY <1>1, MainWork, WorkerWork, RecurseWork, RecurseQueuedWork DEF Next, Terminated

(* The pool neither loses nor makes up work: every accepted unit has been  *)
(* run or has a place its run will come from, and only such units are run. *)
THEOREM WorkKept == Spec => [](NothingLost /\ NothingForged)
<1>1. WorkInv => NothingLost /\ NothingForged
  BY DEF WorkInv
<1>2. QED
  BY <1>1, TypeInit, TypeStep, WorkInit, WorkStep, PTL DEF Spec

-----------------------------------------------------------------------------
(* When the test of wait_for_tasks() succeeds there is nowhere left for a  *)
(* run to come from.                                                       *)
LEMMA DrainedIsDone ==
    ASSUME TypeOK, PoolInv, WorkInv, MayReturnDrained
    PROVE  Accepted = Completed
<1>1. In(Working) = {}
  BY FiniteIn, FS_EmptySet DEF MayReturnDrained, PoolInv, CountersExact
<1>2. Queued = {}
  BY DEF MayReturnDrained, Queued
<1>3. \A w \in Worker : wpc[w] \notin {"scanning", "dispatching"}
  BY <1>1 DEF In, Working
<1>4. \A u : ~Pending(u)
  BY <1>2, <1>3 DEF Pending
<1>5. QED
  BY <1>4 DEF WorkInv, NothingLost, NothingForged

(* Only the test of wait_for_tasks() lets it return.                       *)
LEMMA OnlyWaitReturns ==
    ASSUME [Next]_vars, mpc = "draining", mpc' \in {"running", "counting"}
    PROVE  MayReturnDrained
<1> USE DEF poolVars, threadVars, mainVars, historyVars
<1>1. CASE MainStep
  BY <1>1 DEF MainStep, LaunchWorker, LaunchDone, PushTask, WaitForTasks,
     CountWorkers, KillWorker, AllKilled, JoinReturns, DestroyPool, MainGoes
<1>2. CASE ClientCall \/ SpuriousMainWakeup \/ UNCHANGED vars
  BY <1>2 DEF ClientCall, CallPushTask, MainThreadWait, CallWaitForTasks,
     DestroyMembers, SpuriousMainWakeup, MainWaiting, AfterWait, MainGoes, vars
<1>3. ASSUME NEW w \in Worker,
             \/ WorkerStep(w) \/ SpuriousWakeup(w)
             \/ \E c \in Child : Recurse(w, c) \/ RecurseQueued(w, c)
      PROVE  FALSE
  <2>1. mpc' = mpc \/ NotifyMain
    BY <1>3 DEF WorkerStep, StartWorker, WaitForWork, TakeWork, PushScannerTask,
       Dispatched, ScannerReturns, Release, StopWorking, BecomeFree, ExitWorker,
       LastStatus, SpuriousWakeup, Recurse, RecurseQueued, mainVars
  <2>2. QED
    BY <2>1 DEF NotifyMain, MainWaiting, AfterWait
<1>4. QED
  BY <1>1, <1>2, <1>3 DEF Next, Terminated

(* wait_for_tasks() returns only when every scanner has been run on every  *)
(* sbuf that was pushed or recursed into, for any number of workers,       *)
(* scanners and sbufs, and with wake-ups that come for no reason.          *)
THEOREM Drained == Spec => WaitReturnsDrained
<1>1. TypeOK /\ PoolInv /\ WorkInv /\ [Next]_vars
        => [mpc = "draining" /\ mpc' \in {"running", "counting"}
              => Accepted = Completed]_vars
  BY OnlyWaitReturns, DrainedIsDone
<1>2. QED
  BY <1>1, TypeInit, TypeStep, PoolInit, PoolStep, WorkInit, WorkStep, PTL
  DEF Spec, WaitReturnsDrained

-----------------------------------------------------------------------------
(***************************************************************************)
(* Every scanner is run at most once on every sbuf, since at any time      *)
(* there is at most one place that a run of a unit has come from or can    *)
(* still come from; and therefore the thread pool implements the safety    *)
(* part of WorkPool: every step of the pool is one of WorkPool, or is not  *)
(* visible to its client.                                                  *)
(***************************************************************************)
(* The places: an entry of the queue, which is the unit or the whole sbuf, *)
(* and a worker, which runs the unit or has yet to push it.                *)
Carries(v, u) == v = u \/ v = AllScanners(u.sbuf)
Running(w, u) == wu[w] = u /\ wpc[w] \in {"scanning", "dispatching"}
ToPush(w, u)  == fanout[w] = u.sbuf /\ u.scanner \in todo[w]
Holds(w, u)   == Running(w, u) \/ ToPush(w, u)
InQueue(u)    == \E i \in DOMAIN work_queue : Carries(work_queue[i], u)

Exclusive(u) ==
    /\ \A i, j \in DOMAIN work_queue :
          Carries(work_queue[i], u) /\ Carries(work_queue[j], u) => i = j
    /\ \A v, w \in Worker : Holds(v, u) /\ Holds(w, u) => v = w
    /\ \A w \in Worker : Holds(w, u) => ~InQueue(u) /\ ~(Running(w, u) /\ ToPush(w, u))
    /\ runs[u] # 0 => /\ runs[u] = 1 /\ ~InQueue(u)
                      /\ \A w \in Worker : ~Holds(w, u)

(* The sbuf that the main thread pushes is a new one.                      *)
PushesNew == mpc \in {"pushing", "pushWait"} => mitem \in Image \ seen
OnceInv == PushesNew /\ \A u \in ScannerUnit : Exclusive(u)

-----------------------------------------------------------------------------
(* A set whose elements are all the same has one element or none.          *)
LEMMA OneOrNone ==
    ASSUME NEW S, \A x, y \in S : x = y
    PROVE  /\ S = {} => Cardinality(S) = 0
           /\ S # {} => Cardinality(S) = 1
<1>1. S = {} => Cardinality(S) = 0
  BY FS_EmptySet
<1>2. ASSUME S # {} PROVE Cardinality(S) = 1
  <2>1. PICK x : S = {x}
    BY <1>2
  <2>2. QED  BY <2>1, FS_Singleton
<1>3. QED  BY <1>1, <1>2

LEMMA ExclusiveCopies ==
    ASSUME TypeOK, NEW u \in ScannerUnit, Exclusive(u)
    PROVE  Copies(u) <= 1
<1> DEFINE Q == {i \in DOMAIN work_queue : work_queue[i] = u}
           R == {w \in Worker : wu[w] = u /\ wpc[w] \in {"scanning", "dispatching"}}
           P == {w \in Worker : fanout[w] = u.sbuf /\ u.scanner \in todo[w]}
<1>1. /\ \A i, j \in Q : i = j
      /\ \A v, w \in R : v = w
      /\ \A v, w \in P : v = w
  BY DEF Exclusive, Carries, Holds, Running, ToPush
<1>2. /\ Q = {} => Cardinality(Q) = 0
      /\ Q # {} => Cardinality(Q) = 1
      /\ R = {} => Cardinality(R) = 0
      /\ R # {} => Cardinality(R) = 1
      /\ P = {} => Cardinality(P) = 0
      /\ P # {} => Cardinality(P) = 1
  <2>1. (Q = {} => Cardinality(Q) = 0) /\ (Q # {} => Cardinality(Q) = 1)
    BY <1>1, OneOrNone
  <2>2. (R = {} => Cardinality(R) = 0) /\ (R # {} => Cardinality(R) = 1)
    BY <1>1, OneOrNone
  <2>3. (P = {} => Cardinality(P) = 0) /\ (P # {} => Cardinality(P) = 1)
    BY <1>1, OneOrNone
  <2>4. QED  BY <2>1, <2>2, <2>3
<1>3. /\ Q # {} => R = {} /\ P = {}
      /\ R # {} => P = {}
      /\ runs[u] # 0 => runs[u] = 1 /\ Q = {} /\ R = {} /\ P = {}
  BY DEF Exclusive, InQueue, Carries, Holds, Running, ToPush
<1>4. Copies(u) = Cardinality(Q) + Cardinality(R) + Cardinality(P) + runs[u]
  BY DEF Copies
<1>5. runs[u] \in Nat
  BY DEF TypeOK
<1> HIDE DEF Q, R, P
<1>6. QED  BY <1>2, <1>3, <1>4, <1>5

(* A unit of an sbuf that nobody has seen has no place.                    *)
LEMMA UnseenHasNoPlace ==
    ASSUME TypeOK, WorkInv, NEW u \in ScannerUnit, u.sbuf \notin seen
    PROVE  ~InQueue(u) /\ (\A w \in Worker : ~Holds(w, u)) /\ runs[u] = 0
<1>1. u.sbuf \in Sbuf
  BY DEF ScannerUnit
<1>2. ~InQueue(u)
  BY <1>1 DEF InQueue, Carries, AllScanners, WorkInv, NothingForged, Genuine, Queued
<1>3. \A w \in Worker : ~Holds(w, u)
  BY <1>1 DEF Holds, Running, ToPush, WorkInv, NothingForged, Genuine
<1>4. u \notin Completed
  BY DEF WorkInv, NothingForged, Accepted
<1>5. runs[u] = 0
  BY <1>4 DEF Completed, TypeOK
<1>6. QED  BY <1>2, <1>3, <1>5

-----------------------------------------------------------------------------
(* No worker gets a unit to run or to push.                                *)
NoMoreHeld ==
    \A w \in Worker, u \in ScannerUnit :
        /\ Running(w, u)' => Running(w, u)
        /\ ToPush(w, u)' => ToPush(w, u)

LEMMA NotifyHoldsNoMore ==
    ASSUME TypeOK, NotifyWorker, UNCHANGED <<wu, todo, fanout>>
    PROVE  NoMoreHeld
BY DEF TypeOK, NotifyWorker, NoMoreHeld, Running, ToPush, In

(* A step that makes no new place.                                         *)
LEMMA FewerPlaces ==
    ASSUME OnceInv, NoMoreHeld, UNCHANGED <<work_queue, runs>>, NEW u \in ScannerUnit
    PROVE  Exclusive(u)'
<1>1. InQueue(u)' <=> InQueue(u)
  BY DEF InQueue
<1>2. QED
  BY <1>1 DEF OnceInv, Exclusive, NoMoreHeld, Holds

(* A unit goes to the end of the queue, and what it carries has no other   *)
(* place then.                                                             *)
LEMMA PlaceAtEnd ==
    ASSUME TypeOK, OnceInv, NoMoreHeld, UNCHANGED runs,
           NEW v \in WorkUnit, work_queue' = Append(work_queue, v),
           NEW u \in ScannerUnit,
           Carries(v, u) => /\ ~InQueue(u) /\ runs[u] = 0
                            /\ \A w \in Worker : ~Holds(w, u)'
    PROVE  Exclusive(u)'
<1>1. /\ Len(work_queue) \in Nat /\ DOMAIN work_queue = 1 .. Len(work_queue)
      /\ DOMAIN work_queue' = 1 .. (Len(work_queue) + 1)
      /\ \A i \in 1 .. Len(work_queue) : work_queue'[i] = work_queue[i]
      /\ work_queue'[Len(work_queue) + 1] = v
  BY AppendProperties, LenProperties DEF TypeOK
<1>2. \A i \in DOMAIN work_queue' : i \in DOMAIN work_queue \/ i = Len(work_queue) + 1
  BY <1>1
<1>3. CASE Carries(v, u)
  <2>1. \A i \in DOMAIN work_queue' :
           Carries(work_queue'[i], u) => i = Len(work_queue) + 1
    BY <1>1, <1>2, <1>3 DEF InQueue
  <2>2. \A w \in Worker : ~Holds(w, u)'
    BY <1>3
  <2>3. runs'[u] = 0
    BY <1>3
  <2>4. QED  BY <2>1, <2>2, <2>3 DEF Exclusive, Carries, AllScanners
<1>4. CASE ~Carries(v, u)
  <2>1. \A i \in DOMAIN work_queue' : Carries(work_queue'[i], u) =>
           i \in DOMAIN work_queue /\ work_queue'[i] = work_queue[i]
    BY <1>1, <1>2, <1>4
  <2>2. InQueue(u)' => InQueue(u)
    BY <2>1 DEF InQueue, Carries, AllScanners
  <2>3. \A i, j \in DOMAIN work_queue' :
           Carries(work_queue'[i], u) /\ Carries(work_queue'[j], u) => i = j
    BY <2>1 DEF OnceInv, Exclusive
  <2>4. QED
    BY <2>2, <2>3 DEF OnceInv, Exclusive, NoMoreHeld, Holds, Carries, AllScanners
<1>5. QED  BY <1>3, <1>4

(* A whole sbuf that nobody has seen is queued.                            *)
LEMMA QueueNewSbuf ==
    ASSUME TypeOK, WorkInv, OnceInv, NEW s \in Sbuf \ seen,
           work_queue' = Append(work_queue, AllScanners(s)), NotifyWorker,
           UNCHANGED <<wu, todo, fanout, runs>>, NEW u \in ScannerUnit
    PROVE  Exclusive(u)'
<1>1. NoMoreHeld
  BY NotifyHoldsNoMore
<1>2. AllScanners(s) \in WorkUnit
  BY UnitType
<1>3. ASSUME Carries(AllScanners(s), u)
      PROVE  /\ ~InQueue(u) /\ runs[u] = 0
             /\ \A w \in Worker : ~Holds(w, u)'
  <2>1. u.sbuf = s
    BY <1>3 DEF Carries, AllScanners
  <2>2. ~InQueue(u) /\ (\A w \in Worker : ~Holds(w, u)) /\ runs[u] = 0
    BY <2>1, UnseenHasNoPlace
  <2>3. QED  BY <1>1, <2>2 DEF NoMoreHeld, Holds
<1>4. QED  BY <1>1, <1>2, <1>3, PlaceAtEnd

-----------------------------------------------------------------------------
LEMMA TakeWorkOnce ==
    ASSUME TypeOK, OnceInv, NEW w \in Worker, TakeWork(w), NEW u \in ScannerUnit
    PROVE  Exclusive(u)'
<1>0. PICK h : h = Head(work_queue)
  OBVIOUS
<1>1. /\ wpc' = [wpc EXCEPT ![w] = FirstStep(h)]
      /\ wu' = [wu EXCEPT ![w] = h]
      /\ fanout' = [fanout EXCEPT ![w] = IF FirstStep(h) = "dispatching"
                                            THEN h.sbuf ELSE NullSbuf]
      /\ todo' = [todo EXCEPT ![w] = IF FirstStep(h) = "dispatching"
                                        THEN FanOut(h.sbuf) ELSE {}]
      /\ UNCHANGED runs
  BY <1>0 DEF TakeWork, historyVars
<1>2. /\ Len(work_queue) \in Nat \ {0} /\ DOMAIN work_queue = 1 .. Len(work_queue)
      /\ DOMAIN work_queue' = 1 .. (Len(work_queue) - 1)
      /\ \A i \in 1 .. (Len(work_queue) - 1) : work_queue'[i] = work_queue[i + 1]
      /\ work_queue[1] = h /\ h \in WorkUnit
  <2>1. /\ work_queue \in Seq(WorkUnit) /\ work_queue # <<>>
        /\ work_queue' = Tail(work_queue)
    BY DEF TypeOK, TakeWork
  <2>2. /\ Len(work_queue) \in Nat \ {0} /\ DOMAIN work_queue = 1 .. Len(work_queue)
        /\ Head(work_queue) \in WorkUnit /\ Tail(work_queue) \in Seq(WorkUnit)
        /\ Len(Tail(work_queue)) = Len(work_queue) - 1
    BY <2>1, EmptySeq, LenProperties, HeadTailProperties
  <2>3. QED  BY <1>0, <2>1, <2>2, LenProperties
<1>3. \A i \in DOMAIN work_queue' : /\ i + 1 \in DOMAIN work_queue /\ i + 1 # 1
                                    /\ work_queue'[i] = work_queue[i + 1]
  BY <1>2
<1>4. 1 \in DOMAIN work_queue
  BY <1>2
<1>5. /\ \A i, j \in DOMAIN work_queue' :
            Carries(work_queue'[i], u) /\ Carries(work_queue'[j], u) => i = j
      /\ InQueue(u)' => InQueue(u) /\ ~Carries(h, u)
  <2>1. ASSUME NEW i \in DOMAIN work_queue', Carries(work_queue'[i], u)
        PROVE  Carries(work_queue[i + 1], u) /\ i + 1 \in DOMAIN work_queue /\ i + 1 # 1
    BY <1>3, <2>1
  <2>2. ASSUME NEW i \in DOMAIN work_queue', Carries(work_queue'[i], u),
               NEW j \in DOMAIN work_queue', Carries(work_queue'[j], u)
        PROVE  i = j
    <3>1. i + 1 = j + 1
      BY <2>1, <2>2 DEF OnceInv, Exclusive
    <3>2. QED  BY <1>2, <3>1
  <2>3. ASSUME NEW i \in DOMAIN work_queue', Carries(work_queue'[i], u)
        PROVE  InQueue(u) /\ ~Carries(h, u)
    BY <1>2, <1>4, <2>1, <2>3 DEF OnceInv, Exclusive, InQueue
  <2>4. QED  BY <2>2, <2>3 DEF InQueue, Carries, AllScanners
<1>6. \A x \in Worker \ {w} : Holds(x, u)' <=> Holds(x, u)
  BY <1>1 DEF TypeOK, Holds, Running, ToPush
<1>7. /\ Holds(w, u)' => Carries(h, u)
      /\ ~(Running(w, u)' /\ ToPush(w, u)')
  <2>1. /\ wu'[w] = h /\ wpc'[w] = FirstStep(h)
        /\ todo'[w] # {} => FirstStep(h) = "dispatching" /\ fanout'[w] = h.sbuf
    BY <1>1 DEF TypeOK
  <2>2. FirstStep(h) = "dispatching" => h = AllScanners(h.sbuf) /\ h.scanner = NoScanner
    BY <1>2 DEF FirstStep, AllScanners, WorkUnit
  <2>3. u.scanner # NoScanner
    BY ScannerAssumption DEF ScannerUnit
  <2>4. QED  BY <2>1, <2>2, <2>3 DEF Holds, Running, ToPush, Carries
<1>8. Carries(h, u) => InQueue(u)
  BY <1>2, <1>4 DEF InQueue
<1>9. \A x, y \in Worker : Holds(x, u)' /\ Holds(y, u)' => x = y
  BY <1>6, <1>7, <1>8 DEF OnceInv, Exclusive
<1>10. \A x \in Worker : Holds(x, u)' => /\ ~InQueue(u)'
                                        /\ ~(Running(x, u)' /\ ToPush(x, u)')
  <2>1. ASSUME NEW x \in Worker, x # w, Holds(x, u)'
        PROVE  ~InQueue(u)' /\ ~(Running(x, u)' /\ ToPush(x, u)')
    <3>1. ~InQueue(u) /\ ~(Running(x, u) /\ ToPush(x, u))
      BY <1>6, <2>1 DEF OnceInv, Exclusive
    <3>2. (Running(x, u)' <=> Running(x, u)) /\ (ToPush(x, u)' <=> ToPush(x, u))
      BY <1>1, <2>1 DEF TypeOK, Running, ToPush
    <3>3. QED  BY <1>5, <3>1, <3>2
  <2>2. QED  BY <1>5, <1>7, <2>1
<1>11. runs'[u] # 0 => /\ runs'[u] = 1 /\ ~InQueue(u)'
                       /\ \A x \in Worker : ~Holds(x, u)'
  BY <1>1, <1>5, <1>6, <1>7, <1>8 DEF OnceInv, Exclusive
<1>12. QED
  BY <1>5, <1>9, <1>10, <1>11 DEF Exclusive, Carries, AllScanners

(* A scanner unit moves from the fan-out into the queue.                   *)
LEMMA PushScannerOnce ==
    ASSUME TypeOK, OnceInv, NEW w \in Worker, PushScannerTask(w), NEW u \in ScannerUnit
    PROVE  Exclusive(u)'
<1>1. PICK sc \in todo[w] : /\ Enqueue([sbuf |-> fanout[w], scanner |-> sc])
                           /\ todo' = [todo EXCEPT ![w] = @ \ {sc}]
  BY DEF PushScannerTask
<1>2. PICK v : v = [sbuf |-> fanout[w], scanner |-> sc]
  OBVIOUS
<1>3. /\ UNCHANGED <<runs, wu, fanout>>
      /\ work_queue' = Append(work_queue, v) /\ NotifyWorker
      /\ v \in WorkUnit /\ v.sbuf = fanout[w] /\ v.scanner = sc /\ sc \in Scanner
  BY <1>1, <1>2, UnitType DEF PushScannerTask, Enqueue, TypeOK, historyVars
<1>4. NoMoreHeld
  BY <1>1, <1>3 DEF TypeOK, NotifyWorker, NoMoreHeld, Running, ToPush, In
<1>5. ASSUME Carries(v, u)
      PROVE  /\ ~InQueue(u) /\ runs[u] = 0
             /\ \A x \in Worker : ~Holds(x, u)'
  <2>1. u = v
    BY <1>3, <1>5, ScannerAssumption DEF Carries, AllScanners
  <2>2. ToPush(w, u)
    BY <1>1, <1>3, <2>1 DEF ToPush
  <2>3. ~InQueue(u) /\ runs[u] = 0 /\ ~Running(w, u)
    BY <2>2 DEF OnceInv, Exclusive, Holds
  <2>4. \A x \in Worker : Holds(x, u) => x = w
    BY <2>2 DEF OnceInv, Exclusive, Holds
  <2>5. ~ToPush(w, u)'
    BY <1>1, <1>3, <2>1 DEF ToPush, TypeOK
  <2>6. QED  BY <1>4, <2>3, <2>4, <2>5 DEF NoMoreHeld, Holds
<1>6. QED  BY <1>3, <1>4, <1>5, PlaceAtEnd

(* The scanner recurses: the units of the new child are its to push.       *)
LEMMA RecurseOnce ==
    ASSUME TypeOK, WorkInv, OnceInv, NEW w \in Worker, NEW c \in Child, Recurse(w, c),
           NEW u \in ScannerUnit
    PROVE  Exclusive(u)'
<1>1. /\ wpc[w] = "scanning" /\ wpc' = [wpc EXCEPT ![w] = "dispatching"]
      /\ c \notin seen /\ fanout' = [fanout EXCEPT ![w] = c]
      /\ todo' = [todo EXCEPT ![w] = FanOut(c)]
      /\ UNCHANGED <<work_queue, wu, runs>>
  BY DEF Recurse, WorkerGoes, poolVars
<1>2. InQueue(u)' <=> InQueue(u)
  BY <1>1 DEF InQueue
<1>3. \A x \in Worker : Running(x, u)' <=> Running(x, u)
  BY <1>1 DEF TypeOK, Running
<1>4. \A x \in Worker \ {w} : ToPush(x, u)' <=> ToPush(x, u)
  BY <1>1 DEF TypeOK, ToPush
<1>5. ToPush(w, u)' => u.sbuf = c
  BY <1>1 DEF TypeOK, ToPush
<1>6. CASE u.sbuf = c
  <2>1. ~InQueue(u) /\ (\A x \in Worker : ~Holds(x, u)) /\ runs[u] = 0
    BY <1>1, <1>6, UnseenHasNoPlace
  <2>2. QED
    BY <1>1, <1>2, <1>3, <1>4, <2>1 DEF Exclusive, InQueue, Holds
<1>7. CASE u.sbuf # c
  <2>1. \A x \in Worker : /\ Holds(x, u)' => Holds(x, u)
                          /\ Running(x, u)' /\ ToPush(x, u)'
                                => Running(x, u) /\ ToPush(x, u)
    BY <1>3, <1>4, <1>5, <1>7 DEF Holds
  <2>2. QED
    BY <1>1, <1>2, <2>1 DEF OnceInv, Exclusive
<1>8. QED  BY <1>6, <1>7

LEMMA ScannerReturnsOnce ==
    ASSUME TypeOK, WorkInv, OnceInv, NEW w \in Worker, ScannerReturns(w),
           NEW u \in ScannerUnit
    PROVE  Exclusive(u)'
<1>1. /\ wpc[w] = "scanning" /\ wpc' = [wpc EXCEPT ![w] = "releasing"]
      /\ runs' = [runs EXCEPT ![wu[w]] = @ + 1]
      /\ UNCHANGED <<work_queue, wu, todo, fanout>>
  BY DEF ScannerReturns, WorkerGoes, poolVars
<1>2. InQueue(u)' <=> InQueue(u)
  BY <1>1 DEF InQueue
<1>3. NoMoreHeld /\ ~Running(w, u)'
  BY <1>1 DEF TypeOK, NoMoreHeld, Running, ToPush
<1>4. CASE u = wu[w]
  <2>1. Running(w, u)
    BY <1>1, <1>4 DEF Running
  <2>2. ~InQueue(u) /\ runs[u] = 0 /\ ~ToPush(w, u)
    BY <2>1 DEF OnceInv, Exclusive, Holds
  <2>3. \A x \in Worker : ~Holds(x, u)'
    BY <1>3, <2>1, <2>2 DEF OnceInv, Exclusive, NoMoreHeld, Holds
  <2>4. runs'[u] = 1
    BY <1>1, <1>4, <2>2 DEF TypeOK
  <2>5. QED  BY <1>1, <1>2, <2>2, <2>3, <2>4 DEF Exclusive, InQueue
<1>5. CASE u # wu[w]
  <2>1. runs'[u] = runs[u]
    BY <1>1, <1>5 DEF TypeOK
  <2>2. QED
    BY <1>1, <1>2, <1>3, <2>1 DEF OnceInv, Exclusive, NoMoreHeld, Holds
<1>6. QED  BY <1>4, <1>5

-----------------------------------------------------------------------------
(* The main thread queues a new sbuf or a null unit, or makes no place.    *)
LEMMA MainOnce ==
    ASSUME TypeOK, WorkInv, OnceInv, MainStep \/ ClientCall \/ SpuriousMainWakeup,
           NEW u \in ScannerUnit
    PROVE  Exclusive(u)'
<1> USE DEF poolVars, threadVars, mainVars, historyVars
<1>1. CASE PushTask /\ freethreads # 0
  <2>1. mitem \in Sbuf \ seen
    BY <1>1 DEF OnceInv, PushesNew, PushTask, Sbuf
  <2>2. /\ work_queue' = Append(work_queue, AllScanners(mitem)) /\ NotifyWorker
        /\ UNCHANGED <<runs, wu, todo, fanout>>
    BY <1>1 DEF PushTask, MainPushTask, Enqueue
  <2>3. QED  BY <2>1, <2>2, QueueNewSbuf
<1>2. CASE KillWorker /\ freethreads # 0
  <2>1. /\ work_queue' = Append(work_queue, PoisonPill) /\ NotifyWorker
        /\ UNCHANGED <<runs, wu, todo, fanout>>
    BY <1>2 DEF KillWorker, MainPushTask, Enqueue
  <2>2. PoisonPill \in WorkUnit /\ ~Carries(PoisonPill, u)
    BY UnitType, SbufAssumption DEF Carries, PoisonPill, AllScanners, ScannerUnit, Sbuf
  <2>3. QED  BY <2>1, <2>2, NotifyHoldsNoMore, PlaceAtEnd
<1>3. CASE LaunchWorker
  <2>1. NoMoreHeld /\ UNCHANGED <<work_queue, runs>>
    BY <1>3 DEF TypeOK, LaunchWorker, NoMoreHeld, Running, ToPush, In
  <2>2. QED  BY <2>1, FewerPlaces
<1>4. CASE WaitForTasks
  <2>1. UNCHANGED <<work_queue, runs, wu, todo, fanout>> /\ (NotifyWorker \/ UNCHANGED wpc)
    BY <1>4 DEF WaitForTasks
  <2>2. NoMoreHeld
    BY <2>1, NotifyHoldsNoMore DEF NoMoreHeld, Running, ToPush
  <2>3. QED  BY <2>1, <2>2, FewerPlaces
<1>5. CASE \/ LaunchDone \/ CountWorkers \/ AllKilled \/ JoinReturns \/ DestroyPool
           \/ DestroyMembers \/ MainThreadWait \/ SpuriousMainWakeup
           \/ \E s \in Image : CallPushTask(s)
           \/ \E return \in {"running", "counting"} : CallWaitForTasks(return)
           \/ (PushTask \/ KillWorker) /\ freethreads = 0
  <2>1. UNCHANGED <<work_queue, runs, wpc, wu, todo, fanout>>
    BY <1>5 DEF LaunchDone, CountWorkers, AllKilled, JoinReturns, DestroyPool,
       DestroyMembers, MainThreadWait, SpuriousMainWakeup, CallPushTask,
       CallWaitForTasks, MainGoes, PushTask, KillWorker, MainPushTask
  <2>2. NoMoreHeld
    BY <2>1 DEF NoMoreHeld, Running, ToPush
  <2>3. QED  BY <2>1, <2>2, FewerPlaces
<1>6. QED
  BY <1>1, <1>2, <1>3, <1>4, <1>5 DEF MainStep, ClientCall

LEMMA WorkerOnce ==
    ASSUME TypeOK, WorkInv, OnceInv, NEW w \in Worker, WorkerStep(w) \/ SpuriousWakeup(w),
           NEW u \in ScannerUnit
    PROVE  Exclusive(u)'
<1> USE DEF poolVars, historyVars
<1>1. CASE \/ StartWorker(w) \/ WaitForWork(w) \/ Release(w) \/ StopWorking(w)
           \/ ExitWorker(w) \/ LastStatus(w) \/ SpuriousWakeup(w)
  <2>1. /\ UNCHANGED <<work_queue, wu, todo, fanout, runs>>
        /\ \E to \in WorkerState \ {"scanning", "dispatching"} :
              wpc' = [wpc EXCEPT ![w] = to]
    BY <1>1 DEF StartWorker, WaitForWork, Release, StopWorking, ExitWorker,
       LastStatus, SpuriousWakeup, WorkerGoes, WorkerState
  <2>2. NoMoreHeld
    BY <2>1 DEF TypeOK, NoMoreHeld, Running, ToPush
  <2>3. QED  BY <2>1, <2>2, FewerPlaces
<1>2. CASE BecomeFree(w)
  <2>1. /\ UNCHANGED <<work_queue, todo, fanout, runs>>
        /\ wu' = [wu EXCEPT ![w] = PoisonPill]
        /\ wpc' = [wpc EXCEPT ![w] = "checking"]
    BY <1>2 DEF BecomeFree, WorkerGoes
  <2>2. NoMoreHeld
    BY <2>1 DEF TypeOK, NoMoreHeld, Running, ToPush
  <2>3. QED  BY <2>1, <2>2, FewerPlaces
<1>3. CASE Dispatched(w)
  <2>1. /\ UNCHANGED <<work_queue, wu, todo, runs>>
        /\ wpc[w] = "dispatching" /\ todo[w] = {}
        /\ \E to \in WorkerState : wpc' = [wpc EXCEPT ![w] = to]
        /\ fanout' = [fanout EXCEPT ![w] = NullSbuf]
    BY <1>3 DEF Dispatched, WorkerGoes, WorkerState
  <2>2. NoMoreHeld
    BY <2>1 DEF TypeOK, NoMoreHeld, Running, ToPush
  <2>3. QED  BY <2>1, <2>2, FewerPlaces
<1>4. QED
  BY <1>1, <1>2, <1>3, TakeWorkOnce, PushScannerOnce, ScannerReturnsOnce DEF WorkerStep

LEMMA NextOnce ==
    ASSUME TypeOK, WorkInv, OnceInv, [Next]_vars, NEW u \in ScannerUnit
    PROVE  Exclusive(u)'
<1>1. CASE UNCHANGED vars
  <2>1. NoMoreHeld /\ UNCHANGED <<work_queue, runs>>
    BY <1>1 DEF vars, poolVars, threadVars, historyVars, NoMoreHeld, Running, ToPush
  <2>2. QED  BY <2>1, FewerPlaces
<1>2. ASSUME NEW w \in Worker, NEW c \in Child, RecurseQueued(w, c)
      PROVE  Exclusive(u)'
  <2>1. /\ c \in Sbuf \ seen
        /\ work_queue' = Append(work_queue, AllScanners(c)) /\ NotifyWorker
        /\ UNCHANGED <<runs, wu, todo, fanout>>
    BY <1>2 DEF RecurseQueued, Enqueue, Sbuf
  <2>2. QED  BY <2>1, QueueNewSbuf
<1>3. QED
  BY <1>1, <1>2, MainOnce, WorkerOnce, RecurseOnce DEF Next, Terminated

-----------------------------------------------------------------------------
(* Only the main thread pushes an image, and takes on one at a time.       *)
LEMMA PushesNewStep ==
    ASSUME TypeOK, PushesNew, [Next]_vars
    PROVE  PushesNew'
<1> USE DEF poolVars, threadVars, mainVars, historyVars
<1>1. CASE PushTask
  BY <1>1 DEF PushTask, MainPushTask, PushesNew
<1>2. CASE MainStep /\ ~PushTask
  BY <1>2 DEF MainStep, LaunchWorker, LaunchDone, WaitForTasks, CountWorkers,
     KillWorker, MainPushTask, AllKilled, JoinReturns, DestroyPool, MainGoes,
     PushesNew, TypeOK
<1>3. CASE ClientCall \/ UNCHANGED vars
  BY <1>3 DEF ClientCall, CallPushTask, MainThreadWait, CallWaitForTasks,
     DestroyMembers, MainGoes, PushesNew, vars
<1>4. CASE SpuriousMainWakeup
  BY <1>4, NotifyMainMoves DEF SpuriousMainWakeup, PushesNew, TypeOK
<1>5. ASSUME NEW w \in Worker, WorkerStep(w) \/ SpuriousWakeup(w)
      PROVE  PushesNew'
  <2>1. UNCHANGED <<mitem, seen>> /\ (mpc' = mpc \/ NotifyMain)
    BY <1>5 DEF WorkerStep, StartWorker, WaitForWork, TakeWork, PushScannerTask,
       Dispatched, ScannerReturns, Release, StopWorking, BecomeFree, ExitWorker,
       LastStatus, SpuriousWakeup, WorkerGoes
  <2>2. QED  BY <2>1, NotifyMainMoves DEF PushesNew, TypeOK
<1>6. ASSUME NEW w \in Worker, NEW c \in Child, Recurse(w, c) \/ RecurseQueued(w, c)
      PROVE  PushesNew'
  BY <1>6, SbufAssumption DEF Recurse, RecurseQueued, WorkerGoes, PushesNew
<1>7. QED
  BY <1>1, <1>2, <1>3, <1>4, <1>5, <1>6 DEF Next, Terminated

LEMMA OnceInvInit == Init => OnceInv
<1> SUFFICES ASSUME Init PROVE OnceInv
  OBVIOUS
<1>1. PushesNew
  BY DEF Init, PushesNew
<1>2. ASSUME NEW u \in ScannerUnit PROVE Exclusive(u)
  <2>1. ~InQueue(u) /\ runs[u] = 0 /\ \A i \in DOMAIN work_queue : FALSE
    BY DEF Init, InQueue
  <2>2. \A w \in Worker : ~Holds(w, u)
    BY DEF Init, Holds, Running, ToPush
  <2>3. QED  BY <2>1, <2>2 DEF Exclusive
<1>3. QED  BY <1>1, <1>2 DEF OnceInv

LEMMA OnceInvStep == TypeOK /\ WorkInv /\ OnceInv /\ [Next]_vars => OnceInv'
<1> SUFFICES ASSUME TypeOK, WorkInv, OnceInv, [Next]_vars PROVE OnceInv'
  OBVIOUS
<1>1. \A u \in ScannerUnit : Exclusive(u)'
  BY NextOnce
<1>2. PushesNew'
  BY PushesNewStep DEF OnceInv
<1>3. QED  BY <1>1, <1>2 DEF OnceInv

(* No unit is ever in two of the places where a run of it can come from,   *)
(* so that every scanner is run at most once on every sbuf.                *)
THEOREM RunOnce == Spec => []AtMostOnce
<1>1. TypeOK /\ OnceInv => AtMostOnce
  BY ExclusiveCopies DEF OnceInv, AtMostOnce
<1>2. QED
  BY <1>1, TypeInit, TypeStep, WorkInit, WorkStep, OnceInvInit, OnceInvStep, PTL DEF Spec

-----------------------------------------------------------------------------
(* What WorkPool sees of the pool.                                         *)
BatchOf(s) == {u \in ScannerUnit : u.sbuf = s}
Client == IF Killing THEN "closed"
          ELSE IF mpc \in {"draining", "drainWait"} THEN "draining" ELSE "open"
SameView == UNCHANGED <<Accepted, Completed, Client>>

LEMMA HiddenStep == ASSUME SameView PROVE UNCHANGED Pool!vars
BY DEF SameView, Pool!vars, Client

(* An sbuf that is new to the pool is accepted as a batch, or has none.    *)
LEMMA AcceptStep ==
    ASSUME TypeOK, NEW s \in Sbuf \ seen, seen' = seen \cup {s},
           UNCHANGED <<Completed, Client>>, Client = "open" \/ Accepted # Completed
    PROVE  Pool!Next \/ UNCHANGED Pool!vars
<1>1. Accepted' = Accepted \cup (IF s \in Skipped THEN {} ELSE BatchOf(s))
  BY DEF Accepted, BatchOf
<1>2. CASE s \in Skipped
  BY <1>1, <1>2, HiddenStep DEF SameView
<1>3. CASE s \notin Skipped
  <2>1. BatchOf(s) \in {{u \in ScannerUnit : u.sbuf = q} : q \in Sbuf \ Skipped}
    BY <1>3 DEF BatchOf
  <2>2. BatchOf(s) \cap Accepted = {}
    BY DEF BatchOf, Accepted
  <2>3. Pool!Accept(BatchOf(s))
    BY <1>1, <1>3, <2>2 DEF Pool!Accept, Client
  <2>4. QED  BY <2>1, <2>3 DEF Pool!Next
<1>4. QED  BY <1>2, <1>3

(* A worker that scans has a unit that was accepted and is not complete.   *)
LEMMA ScanningUnit ==
    ASSUME TypeOK, WorkInv, OnceInv, NEW w \in Worker, wpc[w] = "scanning"
    PROVE  wu[w] \in ScannerUnit /\ wu[w] \in Accepted \ Completed
<1>1. wu[w] \in ScannerUnit /\ wu[w] \in Accepted
  BY DEF WorkInv, NothingForged, Genuine, Accepted, ScannerUnit
<1>2. Running(w, wu[w])
  BY DEF Running
<1>3. runs[wu[w]] = 0
  BY <1>1, <1>2 DEF OnceInv, Exclusive, Holds
<1>4. QED  BY <1>1, <1>3 DEF Completed

-----------------------------------------------------------------------------
LEMMA MainSimulates ==
    ASSUME TypeOK, PoolInv, WorkInv, OnceInv,
           MainStep \/ ClientCall \/ SpuriousMainWakeup
    PROVE  Pool!Next \/ UNCHANGED Pool!vars
<1> USE DEF poolVars, threadVars, mainVars, historyVars
<1>1. CASE PushTask
  <2>1. UNCHANGED <<Completed, Client>> /\ Client = "open"
    BY <1>1 DEF PushTask, MainPushTask, Completed, Client, Killing
  <2>2. CASE freethreads = 0
    <3>1. UNCHANGED Accepted
      BY <1>1, <2>2 DEF PushTask, Accepted
    <3>2. QED  BY <2>1, <3>1, HiddenStep DEF SameView
  <2>3. CASE freethreads # 0
    <3>1. mitem \in Sbuf \ seen /\ seen' = seen \cup {mitem}
      BY <1>1, <2>3 DEF PushTask, OnceInv, PushesNew, Sbuf
    <3>2. QED  BY <2>1, <3>1, AcceptStep
  <2>4. QED  BY <2>2, <2>3
<1>2. CASE WaitForTasks
  <2>1. UNCHANGED <<Accepted, Completed>>
    BY <1>2 DEF WaitForTasks, Accepted, Completed
  <2>2. CASE MayReturnDrained
    <3>1. Accepted = Completed
      BY <2>2, DrainedIsDone
    <3>2. Client = "draining" /\ Client' \in {"open", "closed"}
      BY <1>2, <2>2 DEF WaitForTasks, Client, Killing, TypeOK
    <3>3. Pool!WaitReturns
      BY <2>1, <3>1, <3>2 DEF Pool!WaitReturns, Client
    <3>4. QED  BY <3>3 DEF Pool!Next
  <2>3. CASE ~MayReturnDrained
    <3>1. UNCHANGED Client
      BY <1>2, <2>3 DEF WaitForTasks, Client, Killing
    <3>2. QED  BY <2>1, <3>1, HiddenStep DEF SameView
  <2>4. QED  BY <2>2, <2>3
<1>3. CASE \E return \in {"running", "counting"} : CallWaitForTasks(return)
  <2>1. UNCHANGED <<Accepted, Completed>> /\ Client = "open" /\ Client' = "draining"
    BY <1>3 DEF CallWaitForTasks, Accepted, Completed, Client, Killing
  <2>2. Pool!CallWait
    BY <2>1 DEF Pool!CallWait, Client
  <2>3. QED  BY <2>2 DEF Pool!Next
<1>4. CASE \/ LaunchWorker \/ LaunchDone \/ CountWorkers \/ KillWorker \/ AllKilled
           \/ JoinReturns \/ DestroyPool \/ DestroyMembers \/ MainThreadWait
           \/ SpuriousMainWakeup \/ \E s \in Image : CallPushTask(s)
  <2>1. UNCHANGED <<seen, runs>>
    BY <1>4 DEF LaunchWorker, LaunchDone, CountWorkers, KillWorker, MainPushTask,
       AllKilled, JoinReturns, DestroyPool, DestroyMembers, MainThreadWait,
       SpuriousMainWakeup, CallPushTask, MainGoes
  <2>2. UNCHANGED Client
    BY <1>4 DEF LaunchWorker, LaunchDone, CountWorkers, KillWorker, MainPushTask,
       AllKilled, JoinReturns, DestroyPool, DestroyMembers, MainThreadWait,
       SpuriousMainWakeup, NotifyMain, AfterWait, MainWaiting, CallPushTask,
       MainGoes, Client, Killing
  <2>3. QED
    BY <2>1, <2>2, HiddenStep DEF SameView, Accepted, Completed
<1>5. QED  BY <1>1, <1>2, <1>3, <1>4 DEF MainStep, ClientCall

LEMMA WorkerSimulates ==
    ASSUME TypeOK, WorkInv, OnceInv, NEW w \in Worker, WorkerStep(w) \/ SpuriousWakeup(w)
    PROVE  Pool!Next \/ UNCHANGED Pool!vars
<1> USE DEF poolVars, historyVars
<1>1. UNCHANGED Client
  <2>1. mpc' = mpc \/ NotifyMain
    BY DEF WorkerStep, StartWorker, WaitForWork, TakeWork, PushScannerTask,
       Dispatched, ScannerReturns, Release, StopWorking, BecomeFree, ExitWorker,
       LastStatus, SpuriousWakeup, mainVars
  <2>2. QED  BY <2>1 DEF NotifyMain, AfterWait, MainWaiting, Client, Killing
<1>2. CASE ScannerReturns(w)
  <2>1. /\ wpc[w] = "scanning" /\ seen' = seen
        /\ runs' = [runs EXCEPT ![wu[w]] = @ + 1]
    BY <1>2 DEF ScannerReturns, WorkerGoes
  <2>2. wu[w] \in ScannerUnit /\ wu[w] \in Accepted \ Completed
    BY <2>1, ScanningUnit
  <2>3. Completed' = Completed \cup {wu[w]}
    <3>1. \A u \in ScannerUnit : runs'[u] = IF u = wu[w] THEN runs[u] + 1 ELSE runs[u]
      BY <2>1, <2>2 DEF TypeOK
    <3>2. QED  BY <2>2, <3>1 DEF Completed, TypeOK
  <2>4. Accepted' = Accepted
    BY <2>1 DEF Accepted
  <2>5. Pool!Complete(wu[w])
    BY <1>1, <2>2, <2>3, <2>4 DEF Pool!Complete, Client
  <2>6. QED  BY <2>2, <2>5 DEF Pool!Next
<1>3. CASE ~ScannerReturns(w)
  <2>1. UNCHANGED <<seen, runs>>
    BY <1>3 DEF WorkerStep, StartWorker, WaitForWork, TakeWork, PushScannerTask,
       Dispatched, Release, StopWorking, BecomeFree, ExitWorker, LastStatus,
       SpuriousWakeup
  <2>2. QED
    BY <1>1, <2>1, HiddenStep DEF SameView, Accepted, Completed
<1>4. QED  BY <1>2, <1>3

LEMMA RecursionSimulates ==
    ASSUME TypeOK, WorkInv, OnceInv, NEW w \in Worker, NEW c \in Child,
           Recurse(w, c) \/ RecurseQueued(w, c)
    PROVE  Pool!Next \/ UNCHANGED Pool!vars
<1>1. /\ wpc[w] = "scanning" /\ c \in Sbuf \ seen /\ seen' = seen \cup {c}
      /\ UNCHANGED <<mpc, runs>>
  BY DEF Recurse, RecurseQueued, WorkerGoes, mainVars, Sbuf
<1>2. UNCHANGED <<Completed, Client>>
  BY <1>1 DEF Completed, Client, Killing
<1>3. Accepted # Completed
  BY <1>1, ScanningUnit
<1>4. QED  BY <1>1, <1>2, <1>3, AcceptStep

LEMMA StepSimulates ==
    TypeOK /\ PoolInv /\ WorkInv /\ OnceInv /\ [Next]_vars => [Pool!Next]_(Pool!vars)
<1>1. CASE UNCHANGED vars
  <2>1. SameView
    BY <1>1 DEF vars, mainVars, historyVars, SameView, Accepted, Completed, Client, Killing
  <2>2. QED  BY <2>1, HiddenStep
<1>2. QED
  BY <1>1, MainSimulates, WorkerSimulates, RecursionSimulates DEF Next, Terminated

LEMMA InitSimulates == Init => Pool!Init
BY DEF Init, Pool!Init, Accepted, Completed, Killing

(* What a client may rely on of WorkPool, but for what must happen in the  *)
(* end, the pool gives it: no unit is accepted or completed twice, and a   *)
(* wait returns only when all that was accepted is complete.               *)
THEOREM PoolIsWorkPool == Spec => Pool!Init /\ [][Pool!Next]_(Pool!vars)
BY InitSimulates, StepSimulates, TypeInit, TypeStep, PoolInit, PoolStep,
   WorkInit, WorkStep, OnceInvInit, OnceInvStep, PTL DEF Spec
-----------------------------------------------------------------------------
(* SbufGC: the reference counts are exact, and nothing that is held is     *)
(* deleted.                                                                *)

One(s, S) == IF s \in S THEN 1 ELSE 0

-----------------------------------------------------------------------------
(* The calls on a set of sbufs can be counted.                             *)
LEMMA CallsType ==
    ASSUME TypeOK, NEW S
    PROVE  /\ IsFiniteSet(UnitsOf(S)) /\ Cardinality(UnitsOf(S)) \in Nat
           /\ IsFiniteSet(RunnersOf(S)) /\ Cardinality(RunnersOf(S)) \in Nat
           /\ IsFiniteSet(RecursersOf(S)) /\ Cardinality(RecursersOf(S)) \in Nat
           /\ CallsOn(S) \in Nat
<1>1. IsFiniteSet(DOMAIN work_queue)
  BY LenProperties, FS_Interval DEF TypeOK
<1>2. /\ UnitsOf(S) \in SUBSET DOMAIN work_queue
      /\ RunnersOf(S) \in SUBSET Worker /\ RecursersOf(S) \in SUBSET Worker
  BY DEF UnitsOf, RunnersOf, RecursersOf
<1>3. /\ IsFiniteSet(UnitsOf(S)) /\ Cardinality(UnitsOf(S)) \in Nat
      /\ IsFiniteSet(RunnersOf(S)) /\ Cardinality(RunnersOf(S)) \in Nat
      /\ IsFiniteSet(RecursersOf(S)) /\ Cardinality(RecursersOf(S)) \in Nat
  BY <1>1, <1>2, WorkerAssumption, FS_Subset, FS_CardinalityType
<1>4. QED  BY <1>3 DEF CallsOn

(* Who makes a call on s is counted.                                       *)
LEMMA SomeoneCalls ==
    ASSUME TypeOK, NEW S,
           \/ Pushing(S)
           \/ UnitsOf(S) # {} \/ RunnersOf(S) # {} \/ RecursersOf(S) # {}
    PROVE  CallsOn(S) > 0
<1>1. /\ UnitsOf(S) # {} => Cardinality(UnitsOf(S)) # 0
      /\ RunnersOf(S) # {} => Cardinality(RunnersOf(S)) # 0
      /\ RecursersOf(S) # {} => Cardinality(RecursersOf(S)) # 0
  BY CallsType, FS_EmptySet
<1>2. QED  BY <1>1, CallsType DEF CallsOn

(* Nobody makes a call on none.                                            *)
LEMMA NobodyCalls == ASSUME Init, NEW S PROVE CallsOn(S) = 0
<1>1. UnitsOf(S) = {} /\ RunnersOf(S) = {} /\ RecursersOf(S) = {} /\ ~Pushing(S)
  BY DEF Init, UnitsOf, RunnersOf, RecursersOf, Pushing
<1>2. QED  BY <1>1, FS_EmptySet DEF CallsOn

LEMMA UnitsPushed ==
    ASSUME TypeOK, NEW v \in WorkUnit, work_queue' = Append(work_queue, v), NEW S
    PROVE  Cardinality(UnitsOf(S)') = Cardinality(UnitsOf(S)) + One(v.sbuf, S)
<1> DEFINE n == Len(work_queue)
<1>1. /\ n \in Nat /\ DOMAIN work_queue = 1 .. n /\ DOMAIN work_queue' = 1 .. (n + 1)
      /\ \A i \in 1 .. n : work_queue'[i] = work_queue[i]
      /\ work_queue'[n + 1] = v
  BY AppendProperties, LenProperties DEF TypeOK
<1>2. n + 1 \notin UnitsOf(S)
  BY <1>1 DEF UnitsOf
<1>3. \A i : i \in DOMAIN work_queue' <=> i \in DOMAIN work_queue \/ i = n + 1
  BY <1>1
<1>4. CASE v.sbuf \in S
  <2>1. UnitsOf(S)' = UnitsOf(S) \cup {n + 1}
    BY <1>1, <1>3, <1>4 DEF UnitsOf
  <2>2. QED  BY <1>2, <1>4, <2>1, CallsType, CountOneMore DEF One
<1>5. CASE v.sbuf \notin S
  <2>1. UnitsOf(S)' = UnitsOf(S)
    BY <1>1, <1>3, <1>5 DEF UnitsOf
  <2>2. QED  BY <1>5, <2>1, CallsType DEF One
<1>6. QED  BY <1>4, <1>5

LEMMA UnitsTaken ==
    ASSUME TypeOK, work_queue # <<>>, work_queue' = Tail(work_queue), NEW S
    PROVE  /\ Cardinality(UnitsOf(S)') \in Nat
           /\ Cardinality(UnitsOf(S)) = Cardinality(UnitsOf(S)') + One(Head(work_queue).sbuf, S)
<1> DEFINE n == Len(work_queue)
           Rest == UnitsOf(S) \ {1}
           f == [i \in Rest |-> i - 1]
<1>1. /\ n \in Nat \ {0} /\ DOMAIN work_queue = 1 .. n
      /\ Head(work_queue) = work_queue[1]
      /\ DOMAIN work_queue' = 1 .. (n - 1)
      /\ \A i \in 1 .. (n - 1) : work_queue'[i] = work_queue[i + 1]
  <2>1. work_queue \in Seq(WorkUnit) /\ work_queue # <<>>
    BY DEF TypeOK
  <2>2. /\ n \in Nat \ {0} /\ DOMAIN work_queue = 1 .. n
        /\ Tail(work_queue) \in Seq(WorkUnit) /\ Len(Tail(work_queue)) = n - 1
    BY <2>1, EmptySeq, LenProperties, HeadTailProperties
  <2>3. QED  BY <2>1, <2>2, LenProperties
<1>2. IsFiniteSet(UnitsOf(S)) /\ Cardinality(UnitsOf(S)) \in Nat
  BY CallsType
<1>3. IsFiniteSet(Rest) /\ Cardinality(UnitsOf(S)) = Cardinality(Rest) + One(work_queue[1].sbuf, S)
  <2>1. 1 \in UnitsOf(S) <=> work_queue[1].sbuf \in S
    BY <1>1 DEF UnitsOf
  <2>2. /\ IsFiniteSet(Rest)
        /\ Cardinality(Rest) = IF 1 \in UnitsOf(S) THEN Cardinality(UnitsOf(S)) - 1
                                                   ELSE Cardinality(UnitsOf(S))
    BY <1>2, FS_RemoveElement
  <2>3. QED  BY <1>2, <2>1, <2>2 DEF One
<1>4. \A i \in Rest : i - 1 \in UnitsOf(S)'
  BY <1>1 DEF UnitsOf
<1>5. \A j \in UnitsOf(S)' : j + 1 \in Rest /\ (j + 1) - 1 = j
  BY <1>1 DEF UnitsOf
<1>6. Rest \subseteq Int /\ \A i, j \in Rest : i - 1 = j - 1 => i = j
  BY <1>1 DEF UnitsOf
<1>7. f \in Bijection(Rest, UnitsOf(S)')
  <2>1. f \in [Rest -> UnitsOf(S)']
    BY <1>4, Zenon
  <2>2. \A i, j \in Rest : f[i] = f[j] => i = j
    BY <1>6
  <2>3. \A j \in UnitsOf(S)' : \E i \in Rest : f[i] = j
    <3>1. \A j \in UnitsOf(S)' : f[j + 1] = j
      BY <1>5
    <3>2. QED  BY <1>5, <3>1
  <2>4. QED  BY <2>1, <2>2, <2>3, Fun_IsBij
<1>8. Cardinality(UnitsOf(S)') = Cardinality(Rest)
  BY <1>3, <1>7, FS_Bijection DEF ExistsBijection
<1>9. QED  BY <1>1, <1>3, <1>8, FS_CardinalityType

-----------------------------------------------------------------------------
(* What a step does to the number of calls on the sbufs in S.              *)
SameCalls == \A S \in SUBSET Sbuf : CallsOn(S)' = CallsOn(S)
OneMoreCall(s) == \A S \in SUBSET Sbuf : CallsOn(S)' = CallsOn(S) + One(s, S)
OneCallLess(s) == \A S \in SUBSET Sbuf : CallsOn(S)' = CallsOn(S) - One(s, S)

SameWorkersCall(S) == RunnersOf(S)' = RunnersOf(S) /\ RecursersOf(S)' = RecursersOf(S)

LEMMA NotifyKeepsCalls ==
    ASSUME TypeOK, NotifyWorker, UNCHANGED <<wu, fanout>>, NEW S
    PROVE  SameWorkersCall(S)
BY DEF TypeOK, NotifyWorker, In, SameWorkersCall, RunnersOf, RecursersOf

(* The main thread pushes, is done with it, or does something else.        *)
LEMMA MainCalls ==
    ASSUME TypeOK, MainStep \/ SpuriousMainWakeup \/ MainThreadWait \/ DestroyMembers
                     \/ \E return \in {"running", "counting"} : CallWaitForTasks(return)
    PROVE  SameCalls
<1> SUFFICES ASSUME NEW S \in SUBSET Sbuf PROVE CallsOn(S)' = CallsOn(S)
  BY DEF SameCalls
<1> USE DEF poolVars, threadVars, mainVars, historyVars
<1>1. CASE PushTask /\ freethreads # 0
  <2>1. /\ work_queue' = Append(work_queue, AllScanners(mitem)) /\ NotifyWorker
        /\ UNCHANGED <<wu, fanout, mitem>> /\ mpc = "pushing" /\ mpc' = "running"
        /\ mitem \in Sbuf
    BY <1>1 DEF PushTask, MainPushTask, Enqueue, TypeOK
  <2>2. AllScanners(mitem) \in WorkUnit /\ AllScanners(mitem).sbuf = mitem
    BY <2>1, UnitType DEF AllScanners
  <2>3. Cardinality(UnitsOf(S)') = Cardinality(UnitsOf(S)) + One(mitem, S)
    BY <2>1, <2>2, UnitsPushed
  <2>4. SameWorkersCall(S)
    BY <2>1, NotifyKeepsCalls
  <2>5. (Pushing(S) <=> mitem \in S) /\ ~Pushing(S)'
    BY <2>1 DEF Pushing
  <2>6. QED
    BY <2>3, <2>4, <2>5, CallsType DEF CallsOn, SameWorkersCall, One
<1>2. CASE KillWorker /\ freethreads # 0
  <2>1. /\ work_queue' = Append(work_queue, PoisonPill) /\ NotifyWorker
        /\ UNCHANGED <<wu, fanout>> /\ mpc = "killing" /\ mpc' = "killing"
    BY <1>2 DEF KillWorker, MainPushTask, Enqueue
  <2>2. PoisonPill \in WorkUnit /\ PoisonPill.sbuf \notin S
    BY UnitType, SbufAssumption DEF PoisonPill, Sbuf
  <2>3. Cardinality(UnitsOf(S)') = Cardinality(UnitsOf(S)) + 0
    BY <2>1, <2>2, UnitsPushed DEF One
  <2>4. SameWorkersCall(S)
    BY <2>1, NotifyKeepsCalls
  <2>5. ~Pushing(S) /\ ~Pushing(S)'
    BY <2>1 DEF Pushing
  <2>6. QED
    BY <2>3, <2>4, <2>5, CallsType DEF CallsOn, SameWorkersCall
<1>3. CASE LaunchWorker \/ WaitForTasks
  <2>1. /\ UNCHANGED <<work_queue, wu, fanout>>
        /\ ~Pushing(S) /\ ~Pushing(S)'
        /\ \A w \in Worker : wpc'[w] # wpc[w] => /\ wpc[w] \in {"unlaunched", "waiting"}
                                                /\ wpc'[w] \in {"starting", "checking"}
    BY <1>3 DEF TypeOK, LaunchWorker, WaitForTasks, NotifyWorker, In, Pushing
  <2>2. SameWorkersCall(S) /\ UnitsOf(S)' = UnitsOf(S)
    BY <2>1 DEF SameWorkersCall, RunnersOf, RecursersOf, UnitsOf
  <2>3. QED  BY <2>1, <2>2 DEF CallsOn, SameWorkersCall
<1>4. CASE \/ LaunchDone \/ CountWorkers \/ AllKilled \/ JoinReturns \/ DestroyPool
           \/ DestroyMembers \/ MainThreadWait \/ SpuriousMainWakeup
           \/ \E return \in {"running", "counting"} : CallWaitForTasks(return)
           \/ (PushTask \/ KillWorker) /\ freethreads = 0
  <2>1. /\ UNCHANGED <<work_queue, wpc, wu, fanout, mitem>>
        /\ mpc' \in {"pushing", "pushWait"} <=> mpc \in {"pushing", "pushWait"}
    BY <1>4, NotifyMainMoves DEF LaunchDone, CountWorkers, AllKilled, JoinReturns,
       DestroyPool, DestroyMembers, MainThreadWait, SpuriousMainWakeup,
       CallWaitForTasks, MainGoes, PushTask, KillWorker, MainPushTask, TypeOK
  <2>2. /\ UnitsOf(S)' = UnitsOf(S) /\ SameWorkersCall(S)
        /\ Pushing(S)' <=> Pushing(S)
    BY <2>1 DEF UnitsOf, SameWorkersCall, RunnersOf, RecursersOf, Pushing
  <2>3. QED  BY <2>2 DEF CallsOn, SameWorkersCall
<1>5. QED  BY <1>1, <1>2, <1>3, <1>4 DEF MainStep

LEMMA CallPushTaskCalls ==
    ASSUME TypeOK, NEW s \in Image, CallPushTask(s)
    PROVE  OneMoreCall(s)
<1> SUFFICES ASSUME NEW S \in SUBSET Sbuf PROVE CallsOn(S)' = CallsOn(S) + One(s, S)
  BY DEF OneMoreCall
<1>1. /\ UnitsOf(S)' = UnitsOf(S) /\ SameWorkersCall(S)
      /\ ~Pushing(S) /\ (Pushing(S)' <=> s \in S)
  BY DEF CallPushTask, UnitsOf, SameWorkersCall, RunnersOf, RecursersOf, Pushing,
     poolVars, threadVars
<1>2. QED  BY <1>1, CallsType DEF CallsOn, SameWorkersCall, One

-----------------------------------------------------------------------------
(* The workers.  Taking a unit moves its call from the queue to the worker.*)
LEMMA TakeWorkCalls ==
    ASSUME TypeOK, NEW w \in Worker, TakeWork(w)
    PROVE  SameCalls
<1> SUFFICES ASSUME NEW S \in SUBSET Sbuf PROVE CallsOn(S)' = CallsOn(S)
  BY DEF SameCalls
<1>0. PICK h : h = Head(work_queue)
  OBVIOUS
<1>1. /\ wpc[w] = "checking" /\ wpc' = [wpc EXCEPT ![w] = FirstStep(h)]
      /\ wu' = [wu EXCEPT ![w] = h]
      /\ fanout' = [fanout EXCEPT ![w] = IF FirstStep(h) = "dispatching"
                                            THEN h.sbuf ELSE NullSbuf]
      /\ work_queue # <<>> /\ work_queue' = Tail(work_queue)
      /\ UNCHANGED <<mpc, mitem>>
  BY <1>0 DEF TakeWork, mainVars
<1>2. h \in WorkUnit
  BY <1>0, <1>1, QueuedTake
<1>3. /\ Cardinality(UnitsOf(S)') \in Nat
      /\ Cardinality(UnitsOf(S)) = Cardinality(UnitsOf(S)') + One(h.sbuf, S)
  BY <1>0, <1>1, UnitsTaken
<1>4. w \notin RunnersOf(S) /\ w \notin RecursersOf(S)
  BY <1>1 DEF RunnersOf, RecursersOf
<1>5. RecursersOf(S)' = RecursersOf(S)
  <2>1. wpc'[w] = "dispatching" => wu'[w].scanner = NoScanner
    BY <1>1, <1>2 DEF TypeOK, FirstStep, WorkUnit
  <2>2. QED  BY <1>1, <1>4, <2>1 DEF TypeOK, RecursersOf
<1>6. wpc'[w] \in {"dispatching", "scanning", "releasing"} <=> h.sbuf # NullSbuf
  BY <1>1 DEF TypeOK, FirstStep
<1>7. CASE h.sbuf \in S
  <2>1. h.sbuf # NullSbuf
    BY <1>7, SbufAssumption DEF Sbuf
  <2>2. RunnersOf(S)' = RunnersOf(S) \cup {w}
    BY <1>1, <1>6, <1>7, <2>1 DEF TypeOK, RunnersOf
  <2>3. Cardinality(RunnersOf(S)') = Cardinality(RunnersOf(S)) + 1
    BY <1>4, <2>2, CallsType, CountOneMore
  <2>4. Cardinality(UnitsOf(S)) = Cardinality(UnitsOf(S)') + 1
    BY <1>3, <1>7 DEF One
  <2>5. Pushing(S)' <=> Pushing(S)
    BY <1>1 DEF Pushing
  <2>6. QED  BY <1>3, <1>5, <2>3, <2>4, <2>5, CallsType DEF CallsOn
<1>8. CASE h.sbuf \notin S
  <2>1. RunnersOf(S)' = RunnersOf(S)
    BY <1>1, <1>4, <1>8 DEF TypeOK, RunnersOf
  <2>2. Cardinality(UnitsOf(S)) = Cardinality(UnitsOf(S)')
    BY <1>3, <1>8 DEF One
  <2>3. Pushing(S)' <=> Pushing(S)
    BY <1>1 DEF Pushing
  <2>4. QED  BY <1>5, <2>1, <2>2, <2>3 DEF CallsOn
<1>9. QED  BY <1>7, <1>8

LEMMA PushScannerCalls ==
    ASSUME TypeOK, NEW w \in Worker, PushScannerTask(w)
    PROVE  OneMoreCall(fanout[w])
<1> SUFFICES ASSUME NEW S \in SUBSET Sbuf
             PROVE  CallsOn(S)' = CallsOn(S) + One(fanout[w], S)
  BY DEF OneMoreCall
<1>1. PICK sc \in todo[w] : Enqueue([sbuf |-> fanout[w], scanner |-> sc])
  BY DEF PushScannerTask
<1>2. PICK v : v = [sbuf |-> fanout[w], scanner |-> sc]
  OBVIOUS
<1>3. /\ work_queue' = Append(work_queue, v) /\ NotifyWorker
      /\ v \in WorkUnit /\ v.sbuf = fanout[w]
      /\ UNCHANGED <<wu, fanout, mpc, mitem>>
  BY <1>1, <1>2, UnitType DEF PushScannerTask, Enqueue, TypeOK, mainVars
<1>4. Cardinality(UnitsOf(S)') = Cardinality(UnitsOf(S)) + One(fanout[w], S)
  BY <1>3, UnitsPushed
<1>5. SameWorkersCall(S) /\ (Pushing(S)' <=> Pushing(S))
  BY <1>3, NotifyKeepsCalls DEF Pushing
<1>6. QED  BY <1>4, <1>5, CallsType DEF CallsOn, SameWorkersCall, One

LEMMA RecurseQueuedCalls ==
    ASSUME TypeOK, NEW w \in Worker, NEW c \in Child, RecurseQueued(w, c)
    PROVE  OneMoreCall(c)
<1> SUFFICES ASSUME NEW S \in SUBSET Sbuf PROVE CallsOn(S)' = CallsOn(S) + One(c, S)
  BY DEF OneMoreCall
<1>1. /\ work_queue' = Append(work_queue, AllScanners(c)) /\ NotifyWorker
      /\ AllScanners(c) \in WorkUnit /\ AllScanners(c).sbuf = c
      /\ UNCHANGED <<wu, fanout, mpc, mitem>>
  BY UnitType DEF RecurseQueued, Enqueue, mainVars, AllScanners, Sbuf
<1>2. Cardinality(UnitsOf(S)') = Cardinality(UnitsOf(S)) + One(c, S)
  BY <1>1, UnitsPushed
<1>3. SameWorkersCall(S) /\ (Pushing(S)' <=> Pushing(S))
  BY <1>1, NotifyKeepsCalls DEF Pushing
<1>4. QED  BY <1>2, <1>3, CallsType DEF CallsOn, SameWorkersCall, One

(* A scanner that recurses makes one more call, which ends with the loop.  *)
LEMMA RecurseCalls ==
    ASSUME TypeOK, WorkInv, NEW w \in Worker, NEW c \in Child, Recurse(w, c)
    PROVE  OneMoreCall(c)
<1> SUFFICES ASSUME NEW S \in SUBSET Sbuf PROVE CallsOn(S)' = CallsOn(S) + One(c, S)
  BY DEF OneMoreCall
<1>1. /\ wpc[w] = "scanning" /\ wpc' = [wpc EXCEPT ![w] = "dispatching"]
      /\ fanout' = [fanout EXCEPT ![w] = c]
      /\ UNCHANGED <<work_queue, wu, mpc, mitem>>
  BY DEF Recurse, WorkerGoes, poolVars
<1>2. wu[w].scanner # NoScanner
  BY <1>1, ScannerAssumption DEF WorkInv, NothingForged, ScannerUnit
<1>3. UnitsOf(S)' = UnitsOf(S) /\ RunnersOf(S)' = RunnersOf(S) /\ (Pushing(S)' <=> Pushing(S))
  BY <1>1 DEF TypeOK, UnitsOf, RunnersOf, Pushing
<1>4. w \notin RecursersOf(S)
  BY <1>1 DEF RecursersOf
<1>5. Cardinality(RecursersOf(S)') = Cardinality(RecursersOf(S)) + One(c, S)
  <2>1. CASE c \in S
    <3>1. RecursersOf(S)' = RecursersOf(S) \cup {w}
      BY <1>1, <1>2, <2>1 DEF TypeOK, RecursersOf
    <3>2. QED  BY <1>4, <2>1, <3>1, CallsType, CountOneMore DEF One
  <2>2. CASE c \notin S
    <3>1. RecursersOf(S)' = RecursersOf(S)
      BY <1>1, <1>4, <2>2 DEF TypeOK, RecursersOf
    <3>2. QED  BY <2>2, <3>1, CallsType DEF One
  <2>3. QED  BY <2>1, <2>2
<1>6. QED  BY <1>3, <1>5, CallsType DEF CallsOn, One

LEMMA DispatchedCalls ==
    ASSUME TypeOK, NEW w \in Worker, Dispatched(w)
    PROVE  IF wu[w].scanner = NoScanner THEN SameCalls ELSE OneCallLess(fanout[w])
<1>1. /\ wpc[w] = "dispatching"
      /\ wpc' = [wpc EXCEPT ![w] = IF wu[w].scanner = NoScanner
                                      THEN "releasing" ELSE "scanning"]
      /\ fanout' = [fanout EXCEPT ![w] = NullSbuf]
      /\ UNCHANGED <<work_queue, wu, mpc, mitem>>
  BY DEF Dispatched, WorkerGoes, poolVars
<1>2. ASSUME NEW S PROVE /\ UnitsOf(S)' = UnitsOf(S) /\ RunnersOf(S)' = RunnersOf(S)
                         /\ Pushing(S)' <=> Pushing(S)
  BY <1>1 DEF TypeOK, UnitsOf, RunnersOf, Pushing
<1>3. ASSUME NEW S PROVE RecursersOf(S)' = RecursersOf(S) \ {w}
  BY <1>1 DEF TypeOK, RecursersOf
<1>4. CASE wu[w].scanner = NoScanner
  <2>1. ASSUME NEW S PROVE CallsOn(S)' = CallsOn(S)
    <3>1. w \notin RecursersOf(S)
      BY <1>4 DEF RecursersOf
    <3>2. RecursersOf(S)' = RecursersOf(S)
      BY <1>3, <3>1
    <3>3. QED  BY <1>2, <3>2 DEF CallsOn
  <2>2. QED  BY <1>4, <2>1 DEF SameCalls
<1>5. CASE wu[w].scanner # NoScanner
  <2>1. ASSUME NEW S PROVE CallsOn(S)' = CallsOn(S) - One(fanout[w], S)
    <3>1. w \in RecursersOf(S) <=> fanout[w] \in S
      BY <1>1, <1>5 DEF RecursersOf
    <3>2. Cardinality(RecursersOf(S)') = Cardinality(RecursersOf(S)) - One(fanout[w], S)
      <4>1. CASE fanout[w] \in S
        BY <1>3, <3>1, <4>1, CallsType, CountOneLess DEF One
      <4>2. CASE fanout[w] \notin S
        <5>1. RecursersOf(S)' = RecursersOf(S)
          BY <1>3, <3>1, <4>2
        <5>2. QED  BY <4>2, <5>1, CallsType DEF One
      <4>3. QED  BY <4>1, <4>2
    <3>3. QED  BY <1>2, <3>2, CallsType DEF CallsOn, One
  <2>2. QED  BY <1>5, <2>1 DEF OneCallLess
<1>6. QED  BY <1>4, <1>5

LEMMA ReleaseCalls ==
    ASSUME TypeOK, NEW w \in Worker, Release(w)
    PROVE  OneCallLess(wu[w].sbuf)
<1> SUFFICES ASSUME NEW S PROVE CallsOn(S)' = CallsOn(S) - One(wu[w].sbuf, S)
  BY DEF OneCallLess
<1>1. /\ wpc[w] = "releasing" /\ wpc' = [wpc EXCEPT ![w] = "finishing"]
      /\ UNCHANGED <<work_queue, wu, fanout, mpc, mitem>>
  BY DEF Release, WorkerGoes, poolVars
<1>2. /\ UnitsOf(S)' = UnitsOf(S) /\ RecursersOf(S)' = RecursersOf(S)
      /\ Pushing(S)' <=> Pushing(S)
      /\ RunnersOf(S)' = RunnersOf(S) \ {w}
      /\ w \in RunnersOf(S) <=> wu[w].sbuf \in S
  BY <1>1 DEF TypeOK, UnitsOf, RunnersOf, RecursersOf, Pushing
<1>3. Cardinality(RunnersOf(S)') = Cardinality(RunnersOf(S)) - One(wu[w].sbuf, S)
  <2>1. CASE wu[w].sbuf \in S
    BY <1>2, <2>1, CallsType, CountOneLess DEF One
  <2>2. CASE wu[w].sbuf \notin S
    <3>1. RunnersOf(S)' = RunnersOf(S)
      BY <1>2, <2>2
    <3>2. QED  BY <2>2, <3>1, CallsType DEF One
  <2>3. QED  BY <2>1, <2>2
<1>4. QED  BY <1>2, <1>3, CallsType DEF CallsOn, One

LEMMA OtherWorkerCalls ==
    ASSUME TypeOK, NEW w \in Worker,
           \/ StartWorker(w) \/ WaitForWork(w) \/ TakeWork(w) \/ ScannerReturns(w)
           \/ StopWorking(w) \/ BecomeFree(w) \/ ExitWorker(w) \/ LastStatus(w)
           \/ SpuriousWakeup(w)
    PROVE  SameCalls
<1>1. CASE TakeWork(w)
  BY <1>1, TakeWorkCalls
<1>2. CASE ~TakeWork(w)
  <2> SUFFICES ASSUME NEW S PROVE CallsOn(S)' = CallsOn(S)
    BY DEF SameCalls
  <2>1. /\ UNCHANGED <<work_queue, fanout, mitem>>
        /\ mpc' \in {"pushing", "pushWait"} <=> mpc \in {"pushing", "pushWait"}
    BY <1>2, NotifyMainMoves DEF StartWorker, WaitForWork, ScannerReturns, StopWorking,
       BecomeFree, ExitWorker, LastStatus, SpuriousWakeup, WorkerGoes, poolVars, TypeOK
  <2>2. /\ \/ wpc[w] = "scanning" /\ wpc' = [wpc EXCEPT ![w] = "releasing"]
           \/ /\ wpc[w] \notin {"dispatching", "scanning", "releasing"}
              /\ \E to \in WorkerState \ {"dispatching", "scanning", "releasing"} :
                    wpc' = [wpc EXCEPT ![w] = to]
        /\ \/ UNCHANGED wu
           \/ wpc[w] = "freeing" /\ wu' = [wu EXCEPT ![w] = PoisonPill]
    BY <1>2 DEF StartWorker, WaitForWork, ScannerReturns, StopWorking, BecomeFree,
       ExitWorker, LastStatus, SpuriousWakeup, WorkerGoes, WorkerState
  <2>3. RunnersOf(S)' = RunnersOf(S) /\ RecursersOf(S)' = RecursersOf(S)
    BY <2>1, <2>2 DEF TypeOK, RunnersOf, RecursersOf
  <2>4. UnitsOf(S)' = UnitsOf(S) /\ (Pushing(S)' <=> Pushing(S))
    BY <2>1 DEF UnitsOf, Pushing
  <2>5. QED  BY <2>3, <2>4 DEF CallsOn
<1>3. QED  BY <1>1, <1>2

-----------------------------------------------------------------------------
(* The invariant of the references.  Only slices have parents, and they    *)
(* get them when they are constructed.                                     *)
GCShape ==
    /\ sbuf_state \in [Sbuf -> {"unborn", "live", "deleted"}]
    /\ reference_count \in [Sbuf -> Int]
    /\ children \in [Sbuf -> Int]
    /\ parent \in [Sbuf -> Sbuf \cup {NullSbuf}]
    /\ sbufs_in_queue \in Int
    /\ IsFiniteSet(Live)
Parents ==
    \A c \in Sbuf : parent[c] # NullSbuf => c \in Slice /\ sbuf_state[c] # "unborn"
Refs == GCShape /\ Parents /\ RefCountExact /\ NoUseAfterFree

LEMMA SlicesType ==
    ASSUME GCShape, NEW s
    PROVE  IsFiniteSet(SlicesOf(s)) /\ Cardinality(SlicesOf(s)) \in Nat
<1>1. SlicesOf(s) \in SUBSET Live
  BY DEF SlicesOf
<1>2. QED  BY <1>1, FS_Subset, FS_CardinalityType DEF GCShape

(* What the change of all calls says of each sbuf, and of their sum.       *)
LEMMA CallsOfEach ==
    ASSUME TypeOK, NEW s \in Sbuf
    PROVE  /\ CallsOn(Sbuf) \in Nat /\ \A q \in Sbuf : Holders(q) \in Nat
           /\ SameCalls => /\ CallsOn(Sbuf)' = CallsOn(Sbuf)
                           /\ \A q \in Sbuf : Holders(q)' = Holders(q)
           /\ OneMoreCall(s) => /\ CallsOn(Sbuf)' = CallsOn(Sbuf) + 1
                                /\ Holders(s)' = Holders(s) + 1
                                /\ \A q \in Sbuf \ {s} : Holders(q)' = Holders(q)
           /\ OneCallLess(s) => /\ CallsOn(Sbuf)' = CallsOn(Sbuf) - 1
                                /\ Holders(s)' = Holders(s) - 1
                                /\ \A q \in Sbuf \ {s} : Holders(q)' = Holders(q)
<1>1. CallsOn(Sbuf) \in Nat /\ \A q \in Sbuf : CallsOn({q}) \in Nat
  BY CallsType
<1>2. /\ One(s, Sbuf) = 1 /\ One(s, {s}) = 1
      /\ \A q \in Sbuf \ {s} : One(s, {q}) = 0
      /\ Sbuf \in SUBSET Sbuf /\ \A q \in Sbuf : {q} \in SUBSET Sbuf
  BY DEF One
<1>3. SameCalls => /\ CallsOn(Sbuf)' = CallsOn(Sbuf)
                   /\ \A q \in Sbuf : CallsOn({q})' = CallsOn({q})
  BY <1>2 DEF SameCalls
<1>4. OneMoreCall(s) => /\ CallsOn(Sbuf)' = CallsOn(Sbuf) + 1
                        /\ CallsOn({s})' = CallsOn({s}) + 1
                        /\ \A q \in Sbuf \ {s} : CallsOn({q})' = CallsOn({q})
  <2> SUFFICES ASSUME OneMoreCall(s)
               PROVE  /\ CallsOn(Sbuf)' = CallsOn(Sbuf) + 1
                      /\ CallsOn({s})' = CallsOn({s}) + 1
                      /\ \A q \in Sbuf \ {s} : CallsOn({q})' = CallsOn({q})
    OBVIOUS
  <2>1. CallsOn(Sbuf)' = CallsOn(Sbuf) + 1 /\ CallsOn({s})' = CallsOn({s}) + 1
    BY <1>2 DEF OneMoreCall
  <2>2. ASSUME NEW q \in Sbuf \ {s} PROVE CallsOn({q})' = CallsOn({q})
    <3>1. CallsOn({q})' = CallsOn({q}) + One(s, {q})
      BY <1>2 DEF OneMoreCall
    <3>2. QED  BY <1>1, <1>2, <3>1
  <2>3. QED  BY <2>1, <2>2
<1>5. OneCallLess(s) => /\ CallsOn(Sbuf)' = CallsOn(Sbuf) - 1
                        /\ CallsOn({s})' = CallsOn({s}) - 1
                        /\ \A q \in Sbuf \ {s} : CallsOn({q})' = CallsOn({q})
  <2> SUFFICES ASSUME OneCallLess(s)
               PROVE  /\ CallsOn(Sbuf)' = CallsOn(Sbuf) - 1
                      /\ CallsOn({s})' = CallsOn({s}) - 1
                      /\ \A q \in Sbuf \ {s} : CallsOn({q})' = CallsOn({q})
    OBVIOUS
  <2>1. CallsOn(Sbuf)' = CallsOn(Sbuf) - 1 /\ CallsOn({s})' = CallsOn({s}) - 1
    BY <1>2 DEF OneCallLess
  <2>2. ASSUME NEW q \in Sbuf \ {s} PROVE CallsOn({q})' = CallsOn({q})
    <3>1. CallsOn({q})' = CallsOn({q}) - One(s, {q})
      BY <1>2 DEF OneCallLess
    <3>2. QED  BY <1>1, <1>2, <3>1
  <2>3. QED  BY <2>1, <2>2
<1>6. QED  BY <1>1, <1>3, <1>4, <1>5 DEF Holders

LEMMA RefsQuiet ==
    ASSUME TypeOK, Refs, SameCalls, UNCHANGED gcVars
    PROVE  Refs'
<1>1. /\ Live' = Live
      /\ \A s : SlicesOf(s)' = SlicesOf(s)
  BY DEF gcVars, Live, SlicesOf
<1>2. CallsOn(Sbuf)' = CallsOn(Sbuf) /\ \A q \in Sbuf : Holders(q)' = Holders(q)
  <2>1. /\ \A q \in Sbuf : CallsOn({q})' = CallsOn({q})
        /\ CallsOn(Sbuf)' = CallsOn(Sbuf)
    BY DEF SameCalls
  <2>2. QED  BY <2>1 DEF Holders
<1>3. GCShape' /\ Parents'
  BY <1>1 DEF Refs, GCShape, Parents, gcVars
<1>4. RefCountExact'
  <2>1. \A s \in Sbuf : s \in Leaked' => s \in Leaked
    BY <1>1, <1>2 DEF Leaked, Live
  <2>2. LeakedWereParents'
    BY <2>1 DEF Refs, RefCountExact, LeakedWereParents, Leaked, Live, gcVars
  <2>3. QED  BY <1>1, <1>2, <2>2 DEF Refs, RefCountExact, gcVars
<1>5. NoUseAfterFree'
  BY <1>1, <1>2 DEF Refs, NoUseAfterFree
<1>6. QED  BY <1>3, <1>4, <1>5 DEF Refs

LEMMA RefsRetain ==
    ASSUME TypeOK, Refs, NEW s \in Sbuf, Holders(s) > 0, OneMoreCall(s), Retain(s)
    PROVE  Refs'
<1>1. /\ Live' = Live
      /\ \A q : SlicesOf(q)' = SlicesOf(q)
      /\ UNCHANGED <<sbuf_state, children, parent>>
  BY DEF Retain, Live, SlicesOf
<1>2. /\ CallsOn(Sbuf)' = CallsOn(Sbuf) + 1 /\ Holders(s)' = Holders(s) + 1
      /\ \A q \in Sbuf \ {s} : Holders(q)' = Holders(q)
      /\ CallsOn(Sbuf) \in Nat /\ \A q \in Sbuf : Holders(q) \in Nat
  BY CallsOfEach
<1>3. /\ sbufs_in_queue' = sbufs_in_queue + 1
      /\ reference_count' \in [Sbuf -> Int]
      /\ reference_count'[s] = reference_count[s] + 1
      /\ \A q \in Sbuf \ {s} : reference_count'[q] = reference_count[q]
  BY DEF Retain, Plus, update_queue_stats, Refs, GCShape
<1>4. GCShape' /\ Parents'
  BY <1>1, <1>3 DEF Refs, GCShape, Parents
<1>5. \A q \in Sbuf : reference_count'[q] = Holders(q)' + Cardinality(SlicesOf(q)')
  <2>1. \A q \in Sbuf : /\ Cardinality(SlicesOf(q)) \in Nat
                        /\ reference_count[q] = Holders(q) + Cardinality(SlicesOf(q))
    BY SlicesType DEF Refs, RefCountExact
  <2>2. QED  BY <1>1, <1>2, <1>3, <2>1
<1>6. LeakedWereParents'
  <2>1. \A q \in Sbuf : Holders(q)' = 0 => Holders(q) = 0
    BY <1>2
  <2>2. \A q \in Leaked' : q \in Leaked
    BY <1>1, <2>1 DEF Leaked, Live
  <2>3. QED  BY <1>1, <2>2 DEF Refs, RefCountExact, LeakedWereParents
<1>7. RefCountExact'
  BY <1>1, <1>2, <1>3, <1>5, <1>6 DEF Refs, RefCountExact
<1>8. NoUseAfterFree'
  <2>1. \A q \in Sbuf : Holders(q)' > 0 => Holders(q) > 0
    BY <1>2
  <2>2. QED  BY <1>1, <2>1 DEF Refs, NoUseAfterFree
<1>9. QED  BY <1>4, <1>7, <1>8 DEF Refs

-----------------------------------------------------------------------------
(* An sbuf is constructed and scheduled.                                   *)
LEMMA RefsNew ==
    ASSUME TypeOK, Refs, NEW s \in Sbuf, sbuf_state[s] = "unborn",
           NEW p \in Sbuf \cup {NullSbuf}, p # NullSbuf => p \in Live /\ s \in Slice,
           OneMoreCall(s), ScheduleNew(s, p)
    PROVE  Refs'
<1>1. /\ CallsOn(Sbuf)' = CallsOn(Sbuf) + 1 /\ Holders(s)' = Holders(s) + 1
      /\ \A q \in Sbuf \ {s} : Holders(q)' = Holders(q)
      /\ CallsOn(Sbuf) \in Nat /\ \A q \in Sbuf : Holders(q) \in Nat
  BY CallsOfEach
<1>2. s \notin Live /\ Live' = Live \cup {s}
  BY DEF ScheduleNew, Live, Refs, GCShape
<1>3. /\ sbufs_in_queue' = sbufs_in_queue + 1
      /\ parent' = [parent EXCEPT ![s] = p]
      /\ sbuf_state' = [sbuf_state EXCEPT ![s] = "live"]
  BY DEF ScheduleNew, update_queue_stats
<1>4. p # s
  BY <1>2, SbufAssumption DEF Sbuf
<1>5. parent[s] = NullSbuf /\ parent'[s] = p /\ parent \in [Sbuf -> Sbuf \cup {NullSbuf}]
  BY <1>3 DEF Refs, GCShape, Parents
<1>6. Holders(s) = 0 /\ SlicesOf(s) = {}
  BY <1>1, <1>2 DEF Refs, NoUseAfterFree
<1>7. \A q \in Sbuf : q # p => SlicesOf(q)' = SlicesOf(q)
  BY <1>2, <1>3, <1>5 DEF SlicesOf
<1>8. p # NullSbuf => SlicesOf(p)' = SlicesOf(p) \cup {s} /\ s \notin SlicesOf(p)
  BY <1>2, <1>3, <1>5 DEF SlicesOf, Live
<1>9. /\ \A q \in Sbuf : Cardinality(SlicesOf(q)) \in Nat
      /\ \A q \in Sbuf : q # p => Cardinality(SlicesOf(q)') = Cardinality(SlicesOf(q))
      /\ p # NullSbuf => Cardinality(SlicesOf(p)') = Cardinality(SlicesOf(p)) + 1
  <2>1. \A q \in Sbuf : Cardinality(SlicesOf(q)) \in Nat
    BY SlicesType DEF Refs
  <2>2. ASSUME p # NullSbuf
        PROVE  Cardinality(SlicesOf(p)') = Cardinality(SlicesOf(p)) + 1
    BY <1>8, <2>2, SlicesType, CountOneMore DEF Refs
  <2>3. QED  BY <1>7, <2>1, <2>2
<1>10. /\ reference_count' \in [Sbuf -> Int] /\ children' \in [Sbuf -> Int]
       /\ \A q \in Sbuf :
             /\ children'[q] = IF q = p THEN children[q] + 1 ELSE children[q]
             /\ reference_count'[q] = IF q = p THEN reference_count[q] + 1
                                      ELSE IF q = s THEN reference_count[q] + 1
                                      ELSE reference_count[q]
  BY <1>4 DEF ScheduleNew, Plus, AddChild, Refs, GCShape
<1>11. GCShape' /\ Parents'
  <2>1. IsFiniteSet(Live')
    BY <1>2, FS_AddElement DEF Refs, GCShape
  <2>2. /\ sbuf_state' \in [Sbuf -> {"unborn", "live", "deleted"}]
        /\ parent' \in [Sbuf -> Sbuf \cup {NullSbuf}]
        /\ sbufs_in_queue' \in Int
    BY <1>3 DEF Refs, GCShape
  <2>3. GCShape'
    BY <1>10, <2>1, <2>2 DEF GCShape
  <2>4. Parents'
    BY <1>3, <1>5 DEF Refs, GCShape, Parents
  <2>5. QED  BY <2>3, <2>4
<1>12. \A q \in Sbuf :
          /\ reference_count'[q] = Holders(q)' + Cardinality(SlicesOf(q)')
          /\ children'[q] = Cardinality(SlicesOf(q)')
  <2>1. \A q \in Sbuf : /\ reference_count[q] = Holders(q) + Cardinality(SlicesOf(q))
                        /\ children[q] = Cardinality(SlicesOf(q))
    BY DEF Refs, RefCountExact
  <2>2. p \in Sbuf <=> p # NullSbuf
    BY SbufAssumption DEF Sbuf
  <2>3. QED  BY <1>1, <1>4, <1>9, <1>10, <2>1, <2>2
<1>13. LeakedWereParents'
  <2>1. ASSUME NEW q \in Leaked' PROVE \E c \in Slice : parent'[c] = q
    <3>1. q \in Sbuf /\ q \in Live' /\ Holders(q)' = 0 /\ SlicesOf(q)' = {}
      BY <2>1 DEF Leaked, Live
    <3>2. q # s
      BY <1>1, <3>1
    <3>3. q # p
      BY <1>8, <3>1, SbufAssumption DEF Sbuf
    <3>4. q \in Leaked
      BY <1>1, <1>2, <1>7, <3>1, <3>2, <3>3 DEF Leaked
    <3>5. PICK c \in Slice : parent[c] = q
      BY <3>4 DEF Refs, RefCountExact, LeakedWereParents
    <3>6. c # s
      BY <1>5, <3>1, <3>5, SbufAssumption DEF Sbuf
    <3>7. c \in Sbuf
      BY <3>5, SliceAssumption DEF Sbuf
    <3>8. QED  BY <1>3, <1>5, <3>5, <3>6, <3>7
  <2>2. QED  BY <2>1 DEF LeakedWereParents
<1>14. RefCountExact'
  BY <1>1, <1>3, <1>12, <1>13 DEF Refs, RefCountExact
<1>15. NoUseAfterFree'
  <2>1. ASSUME NEW q \in Sbuf, Holders(q)' > 0 \/ SlicesOf(q)' # {} PROVE q \in Live'
    <3>1. CASE q = s
      BY <1>2, <3>1
    <3>2. CASE q = p
      BY <1>2, <3>2, SbufAssumption DEF Sbuf
    <3>3. CASE q # s /\ q # p
      BY <1>1, <1>2, <1>7, <2>1, <3>3 DEF Refs, NoUseAfterFree
    <3>4. QED  BY <3>1, <3>2, <3>3
  <2>2. QED  BY <2>1 DEF NoUseAfterFree
<1>16. QED  BY <1>11, <1>14, <1>15 DEF Refs

(* A reference is given back, and the last one deletes the sbuf.           *)
LEMMA RefsRelease ==
    ASSUME TypeOK, Refs, NEW s \in Sbuf, Holders(s) > 0, OneCallLess(s), ReleaseSbuf(s)
    PROVE  Refs'
<1> DEFINE refs == Minus(reference_count, s)
<1>1. /\ CallsOn(Sbuf)' = CallsOn(Sbuf) - 1 /\ Holders(s)' = Holders(s) - 1
      /\ \A q \in Sbuf \ {s} : Holders(q)' = Holders(q)
      /\ CallsOn(Sbuf) \in Nat /\ \A q \in Sbuf : Holders(q) \in Nat
  BY CallsOfEach
<1>2. /\ \A q \in Sbuf : /\ Cardinality(SlicesOf(q)) \in Nat
                         /\ reference_count[q] = Holders(q) + Cardinality(SlicesOf(q))
                         /\ children[q] = Cardinality(SlicesOf(q))
      /\ sbufs_in_queue' = sbufs_in_queue - 1 /\ parent' = parent
  BY SlicesType DEF Refs, RefCountExact, ReleaseSbuf, update_queue_stats, GCShape
<1>3. /\ refs \in [Sbuf -> Int] /\ refs[s] = reference_count[s] - 1
      /\ \A q \in Sbuf \ {s} : refs[q] = reference_count[q]
  BY DEF Minus, Refs, GCShape
<1> HIDE DEF refs
<1>4. CASE ~MustDelete(refs, s)
  <2>1. reference_count' = refs /\ UNCHANGED <<sbuf_state, children, parent>>
    BY <1>4 DEF ReleaseSbuf, refs
  <2>2. Live' = Live /\ \A q : SlicesOf(q)' = SlicesOf(q)
    BY <2>1 DEF Live, SlicesOf
  <2>3. GCShape' /\ Parents'
    BY <1>2, <1>3, <2>1, <2>2 DEF Refs, GCShape, Parents
  <2>4. \A q \in Sbuf : reference_count'[q] = Holders(q)' + Cardinality(SlicesOf(q)')
    BY <1>1, <1>2, <1>3, <2>1, <2>2
  <2>5. SlicesOf(s) = {} => Holders(s)' # 0
    <3>1. refs[s] # 0
      BY <1>4 DEF MustDelete
    <3>2. SlicesOf(s) = {} => Cardinality(SlicesOf(s)) = 0
      BY FS_EmptySet
    <3>3. reference_count[s] = Holders(s) + Cardinality(SlicesOf(s)) /\ Holders(s) \in Nat
      BY <1>1, <1>2
    <3>4. Holders(s)' = Holders(s) - 1
      BY <1>1
    <3>5. ASSUME SlicesOf(s) = {} PROVE refs[s] = Holders(s)'
      <4>1. reference_count[s] = Holders(s)
        BY <3>2, <3>3, <3>5
      <4>2. QED  BY <1>3, <3>4, <4>1
    <3>6. QED  BY <3>1, <3>5
  <2>6. \A q \in Leaked' : q \in Leaked
    BY <1>1, <2>2, <2>5 DEF Leaked, Live
  <2>7. LeakedWereParents'
    BY <2>1, <2>6 DEF Refs, RefCountExact, LeakedWereParents
  <2>8. RefCountExact'
    BY <1>1, <1>2, <2>1, <2>2, <2>4, <2>7 DEF Refs, RefCountExact
  <2>9. NoUseAfterFree'
    <3>1. \A q \in Sbuf : Holders(q)' > 0 => Holders(q) > 0
      BY <1>1
    <3>2. QED  BY <2>2, <3>1 DEF Refs, NoUseAfterFree
  <2>10. QED  BY <2>3, <2>8, <2>9 DEF Refs
<1>5. CASE MustDelete(refs, s)
  <2>1. /\ sbuf_state' = [sbuf_state EXCEPT ![s] = "deleted"]
        /\ children' = Minus(children, parent[s])
        /\ reference_count' = DelChild(refs, parent[s])
    BY <1>5 DEF ReleaseSbuf, Destroy, refs
  <2>2. Holders(s)' = 0 /\ SlicesOf(s) = {}
    <3>1. refs[s] = 0
      BY <1>5 DEF MustDelete
    <3>2. Holders(s) = 1 /\ Cardinality(SlicesOf(s)) = 0
      BY <1>1, <1>2, <1>3, <3>1
    <3>3. QED  BY <1>1, <3>2, SlicesType, FS_EmptySet DEF Refs
  <2>3. s \in Live /\ Live' = Live \ {s}
    BY <2>1 DEF Live, Refs, NoUseAfterFree, GCShape
  <2>4. PICK p \in Sbuf \cup {NullSbuf} : p = parent[s]
    BY DEF Refs, GCShape
  <2>5. p # s
    BY <2>2, <2>3, <2>4 DEF SlicesOf
  <2>6. \A q \in Sbuf : q # p => SlicesOf(q)' = SlicesOf(q)
    BY <1>2, <2>3, <2>4 DEF SlicesOf
  <2>7. p \in Sbuf => SlicesOf(p)' = SlicesOf(p) \ {s} /\ s \in SlicesOf(p)
    BY <1>2, <2>3, <2>4 DEF SlicesOf
  <2>8. /\ \A q \in Sbuf : q # p => Cardinality(SlicesOf(q)') = Cardinality(SlicesOf(q))
        /\ p \in Sbuf => Cardinality(SlicesOf(p)') = Cardinality(SlicesOf(p)) - 1
    <3>1. ASSUME p \in Sbuf PROVE Cardinality(SlicesOf(p)') = Cardinality(SlicesOf(p)) - 1
      BY <2>7, <3>1, SlicesType, CountOneLess DEF Refs
    <3>2. QED  BY <2>6, <3>1
  <2>9. /\ reference_count' \in [Sbuf -> Int] /\ children' \in [Sbuf -> Int]
        /\ \A q \in Sbuf :
              /\ children'[q] = IF q = p THEN children[q] - 1 ELSE children[q]
              /\ reference_count'[q] = IF q = p THEN refs[q] - 1 ELSE refs[q]
    BY <1>3, <2>1, <2>4 DEF Minus, DelChild, Refs, GCShape
  <2>10. GCShape' /\ Parents'
    <3>1. IsFiniteSet(Live')
      BY <2>3, FS_RemoveElement DEF Refs, GCShape
    <3>2. GCShape'
      BY <1>2, <2>1, <2>9, <3>1 DEF Refs, GCShape
    <3>3. Parents'
      BY <1>2, <2>1 DEF Refs, GCShape, Parents
    <3>4. QED  BY <3>2, <3>3
  <2>11. \A q \in Sbuf :
            /\ reference_count'[q] = Holders(q)' + Cardinality(SlicesOf(q)')
            /\ children'[q] = Cardinality(SlicesOf(q)')
    BY <1>1, <1>2, <1>3, <2>5, <2>8, <2>9
  <2>12. LeakedWereParents'
    <3>1. ASSUME NEW q \in Leaked' PROVE \E c \in Slice : parent'[c] = q
      <4>1. q \in Sbuf /\ q \in Live' /\ Holders(q)' = 0 /\ SlicesOf(q)' = {}
        BY <3>1 DEF Leaked, Live
      <4>2. CASE q = p
        <5>1. s \in Slice
          BY <2>4, <4>1, <4>2, SbufAssumption DEF Refs, Parents, Sbuf
        <5>2. QED  BY <1>2, <2>4, <4>2, <5>1
      <4>3. CASE q # p
        <5>1. q \in Leaked
          BY <1>1, <2>3, <2>6, <4>1, <4>3 DEF Leaked
        <5>2. QED  BY <1>2, <5>1 DEF Refs, RefCountExact, LeakedWereParents
      <4>4. QED  BY <4>2, <4>3
    <3>2. QED  BY <3>1 DEF LeakedWereParents
  <2>13. RefCountExact'
    BY <1>1, <1>2, <2>11, <2>12 DEF Refs, RefCountExact
  <2>14. NoUseAfterFree'
    <3>1. ASSUME NEW q \in Sbuf, Holders(q)' > 0 \/ SlicesOf(q)' # {} PROVE q \in Live'
      <4>1. q # s
        BY <2>2, <2>5, <2>6, <3>1
      <4>2. Holders(q) > 0 \/ SlicesOf(q) # {}
        BY <1>1, <2>6, <2>7, <3>1, <4>1
      <4>3. QED  BY <2>3, <4>1, <4>2 DEF Refs, NoUseAfterFree
    <3>2. QED  BY <3>1 DEF NoUseAfterFree
  <2>15. QED  BY <2>10, <2>13, <2>14 DEF Refs
<1>6. QED  BY <1>4, <1>5

-----------------------------------------------------------------------------
(* Every step is one of the pool.                                          *)
LEMMA StepOfThePool == [GCNext]_allVars => [Next]_vars
BY DEF GCNext, allVars, Next, OtherMainStep, ScheduleImage, OtherWorkerStep,
   RetainForScanner, ReturnToRun, ReturnToScanner, ReleaseUnit, RecurseInto,
   RecurseLarge, ClientCall, WorkerStep

(* What is at hand in process_sbuf() and after it.                         *)
Fanning ==
    \A w \in Worker :
        /\ wpc[w] = "dispatching" => /\ fanout[w] \in Sbuf
                                     /\ \/ wu[w].scanner # NoScanner
                                        \/ fanout[w] = wu[w].sbuf
        /\ wpc[w] \in {"dispatching", "scanning", "releasing"} => wu[w].sbuf \in Sbuf

LEMMA FanningStep ==
    ASSUME TypeOK, WorkInv, Fanning, [Next]_vars
    PROVE  Fanning'
<1> USE DEF poolVars, threadVars, mainVars, historyVars
<1>1. ASSUME UNCHANGED <<wu, fanout>>,
             \A w \in Worker : wpc'[w] = wpc[w]
                   \/ wpc'[w] \notin {"dispatching", "scanning", "releasing"}
      PROVE  Fanning'
  BY <1>1 DEF Fanning
<1>2. CASE MainStep \/ ClientCall \/ SpuriousMainWakeup \/ UNCHANGED vars
  <2>1. /\ UNCHANGED <<wu, fanout>>
        /\ \/ UNCHANGED wpc \/ NotifyWorker
           \/ \E w \in Worker : wpc' = [wpc EXCEPT ![w] = "starting"]
    BY <1>2 DEF MainStep, LaunchWorker, LaunchDone, PushTask, MainPushTask, Enqueue,
       WaitForTasks, CountWorkers, KillWorker, AllKilled, JoinReturns, DestroyPool,
       MainGoes, ClientCall, CallPushTask, MainThreadWait, CallWaitForTasks,
       DestroyMembers, SpuriousMainWakeup, vars, In
  <2>2. QED  BY <1>1, <2>1 DEF TypeOK, NotifyWorker, In
<1>3. ASSUME NEW w \in Worker,
             \/ StartWorker(w) \/ WaitForWork(w) \/ Release(w) \/ StopWorking(w)
             \/ ExitWorker(w) \/ LastStatus(w) \/ SpuriousWakeup(w)
      PROVE  Fanning'
  <2>1. /\ UNCHANGED <<wu, fanout>>
        /\ \E to \in WorkerState \ {"dispatching", "scanning", "releasing"} :
              wpc' = [wpc EXCEPT ![w] = to]
    BY <1>3 DEF StartWorker, WaitForWork, Release, StopWorking, ExitWorker,
       LastStatus, SpuriousWakeup, WorkerGoes, WorkerState
  <2>2. QED  BY <1>1, <2>1 DEF TypeOK
<1>4. ASSUME NEW w \in Worker, BecomeFree(w) PROVE Fanning'
  BY <1>4 DEF BecomeFree, WorkerGoes, TypeOK, Fanning
<1>5. ASSUME NEW w \in Worker, TakeWork(w) PROVE Fanning'
  <2>1. PICK h \in WorkUnit : h = Head(work_queue)
    BY <1>5, QueuedTake DEF TakeWork
  <2>2. /\ wpc' = [wpc EXCEPT ![w] = FirstStep(h)]
        /\ wu' = [wu EXCEPT ![w] = h]
        /\ fanout' = [fanout EXCEPT ![w] = IF FirstStep(h) = "dispatching"
                                              THEN h.sbuf ELSE NullSbuf]
    BY <1>5, <2>1 DEF TakeWork
  <2>3. /\ FirstStep(h) \in {"dispatching", "scanning", "releasing"} => h.sbuf \in Sbuf
        /\ FirstStep(h) \in {"exiting", "dispatching", "scanning"}
    BY <2>1 DEF FirstStep, WorkUnit
  <2>4. QED  BY <2>2, <2>3 DEF TypeOK, Fanning
<1>6. ASSUME NEW w \in Worker, PushScannerTask(w) PROVE Fanning'
  <2>1. UNCHANGED <<wu, fanout>> /\ NotifyWorker
    BY <1>6 DEF PushScannerTask, Enqueue
  <2>2. QED  BY <1>1, <2>1 DEF TypeOK, NotifyWorker, In
<1>7. ASSUME NEW w \in Worker, Dispatched(w) PROVE Fanning'
  BY <1>7 DEF Dispatched, WorkerGoes, TypeOK, Fanning
<1>8. ASSUME NEW w \in Worker, ScannerReturns(w) PROVE Fanning'
  BY <1>8 DEF ScannerReturns, WorkerGoes, TypeOK, Fanning
<1>9. ASSUME NEW w \in Worker, NEW c \in Child, Recurse(w, c) PROVE Fanning'
  <2>1. wu[w].scanner # NoScanner
    BY <1>9, ScannerAssumption
       DEF Recurse, WorkerGoes, WorkInv, NothingForged, ScannerUnit
  <2>2. QED  BY <1>9, <2>1 DEF Recurse, WorkerGoes, TypeOK, Fanning, Sbuf
<1>10. ASSUME NEW w \in Worker, NEW c \in Child, RecurseQueued(w, c) PROVE Fanning'
  <2>1. UNCHANGED <<wu, fanout>> /\ NotifyWorker
    BY <1>10 DEF RecurseQueued, Enqueue
  <2>2. QED  BY <1>1, <2>1 DEF TypeOK, NotifyWorker, In
<1>11. QED
  BY <1>2, <1>3, <1>4, <1>5, <1>6, <1>7, <1>8, <1>9, <1>10
     DEF Next, WorkerStep, Terminated

-----------------------------------------------------------------------------
(* Only what was scheduled has been constructed.                           *)
Scheduled == seen \cup (IF mpc \in {"pushing", "pushWait"} THEN {mitem} ELSE {})
Born == \A s \in Sbuf \ Scheduled : sbuf_state[s] = "unborn"

GCInv == TypeOK /\ WorkInv /\ OnceInv /\ Fanning /\ Refs /\ Born

LEMMA BornKept ==
    ASSUME Born, UNCHANGED sbuf_state, Scheduled \subseteq Scheduled'
    PROVE  Born'
BY DEF Born

LEMMA MainScheduled ==
    ASSUME TypeOK, OtherMainStep
    PROVE  Scheduled' = Scheduled
<1> USE DEF poolVars, threadVars, mainVars, historyVars
<1>1. CASE PushTask
  BY <1>1 DEF PushTask, MainPushTask, Scheduled
<1>2. CASE MainStep /\ ~PushTask
  BY <1>2 DEF MainStep, LaunchWorker, LaunchDone, WaitForTasks, CountWorkers,
     KillWorker, MainPushTask, AllKilled, JoinReturns, DestroyPool, MainGoes,
     Scheduled, TypeOK
<1>3. CASE \/ DestroyMembers \/ Terminated
           \/ \E return \in {"running", "counting"} : CallWaitForTasks(return)
  BY <1>3 DEF DestroyMembers, Terminated, CallWaitForTasks, MainGoes, Scheduled, vars
<1>4. QED  BY <1>1, <1>2, <1>3 DEF OtherMainStep

LEMMA WorkerScheduled ==
    ASSUME TypeOK, NEW w \in Worker, WorkerStep(w)
    PROVE  Scheduled' = Scheduled
<1>1. UNCHANGED <<mitem, seen>> /\ (mpc' = mpc \/ NotifyMain)
  BY DEF WorkerStep, StartWorker, WaitForWork, TakeWork, PushScannerTask,
     Dispatched, ScannerReturns, Release, StopWorking, BecomeFree, ExitWorker,
     LastStatus, WorkerGoes, historyVars, mainVars
<1>2. QED  BY <1>1, NotifyMainMoves DEF Scheduled, TypeOK

(* A release needs a holder, and leaves the sbuf one that was scheduled.   *)
LEMMA ReleaseGC ==
    ASSUME TypeOK, Refs, Born, NEW s \in Sbuf, Holders(s) > 0, OneCallLess(s),
           ReleaseSbuf(s), Scheduled' = Scheduled
    PROVE  Refs' /\ Born'
<1>1. Refs'
  BY RefsRelease
<1>2. s \in Scheduled
  BY DEF Refs, NoUseAfterFree, Live, Born
<1>3. \A q \in Sbuf \ {s} : sbuf_state'[q] = sbuf_state[q]
  BY DEF ReleaseSbuf, Destroy, Refs, GCShape
<1>4. QED  BY <1>1, <1>2, <1>3 DEF Born

LEMMA MainGC ==
    ASSUME GCInv, OtherMainStep
    PROVE  Refs' /\ Born'
<1>1. SameCalls
  <2>1. CASE Terminated
    <3>1. \A S : /\ UnitsOf(S)' = UnitsOf(S) /\ RunnersOf(S)' = RunnersOf(S)
                 /\ RecursersOf(S)' = RecursersOf(S) /\ (Pushing(S)' <=> Pushing(S))
      BY <2>1 DEF Terminated, vars, poolVars, threadVars, mainVars, UnitsOf,
         RunnersOf, RecursersOf, Pushing
    <3>2. QED  BY <3>1 DEF SameCalls, CallsOn
  <2>2. QED  BY <2>1, MainCalls DEF OtherMainStep, GCInv
<1>2. UNCHANGED gcVars
  BY DEF OtherMainStep
<1>3. Refs'
  BY <1>1, <1>2, RefsQuiet DEF GCInv
<1>4. Born'
  BY <1>2, MainScheduled, BornKept DEF GCInv, gcVars
<1>5. QED  BY <1>3, <1>4

LEMMA ScheduleImageGC ==
    ASSUME GCInv, NEW s \in Image, ScheduleImage(s)
    PROVE  Refs' /\ Born'
<1>1. /\ s \in Sbuf /\ s \notin seen /\ mpc = "running" /\ seen' = seen
      /\ mpc' = "pushing" /\ mitem' = s
  BY DEF ScheduleImage, CallPushTask, Sbuf, historyVars
<1>2. sbuf_state[s] = "unborn"
  BY <1>1 DEF GCInv, Born, Scheduled
<1>3. Refs'
  BY <1>1, <1>2, CallPushTaskCalls, RefsNew DEF GCInv, ScheduleImage
<1>4. Born'
  BY <1>1 DEF ScheduleImage, ScheduleNew, GCInv, Born, Scheduled, Refs, GCShape
<1>5. QED  BY <1>3, <1>4

LEMMA WorkerGC ==
    ASSUME GCInv, NEW w \in Worker,
           \/ OtherWorkerStep(w) \/ RetainForScanner(w)
           \/ ReturnToRun(w) \/ ReturnToScanner(w) \/ ReleaseUnit(w)
    PROVE  Refs' /\ Born'
<1>1. Scheduled' = Scheduled
  BY WorkerScheduled DEF GCInv, OtherWorkerStep, RetainForScanner, ReturnToRun,
     ReturnToScanner, ReleaseUnit, WorkerStep
<1>2. CASE OtherWorkerStep(w) \/ ReturnToRun(w)
  <2>1. SameCalls /\ UNCHANGED gcVars
    BY <1>2, OtherWorkerCalls, DispatchedCalls DEF GCInv, OtherWorkerStep, ReturnToRun
  <2>2. QED  BY <1>1, <2>1, RefsQuiet, BornKept DEF GCInv, gcVars
<1>3. CASE RetainForScanner(w)
  <2>1. wpc[w] = "dispatching" /\ fanout[w] \in Sbuf
    BY <1>3 DEF RetainForScanner, PushScannerTask, GCInv, Fanning
  <2>2. w \in RunnersOf({fanout[w]}) \/ w \in RecursersOf({fanout[w]})
    BY <2>1 DEF GCInv, Fanning, RunnersOf, RecursersOf
  <2>3. Holders(fanout[w]) > 0
    BY <2>2, SomeoneCalls DEF GCInv, Holders
  <2>4. OneMoreCall(fanout[w]) /\ Retain(fanout[w])
    BY <1>3, PushScannerCalls DEF GCInv, RetainForScanner
  <2>5. Refs'
    BY <2>1, <2>3, <2>4, RefsRetain DEF GCInv
  <2>6. Born'
    BY <1>1, <2>4, BornKept DEF GCInv, Retain
  <2>7. QED  BY <2>5, <2>6
<1>4. CASE ReturnToScanner(w)
  <2>1. wpc[w] = "dispatching" /\ fanout[w] \in Sbuf /\ wu[w].scanner # NoScanner
    BY <1>4 DEF ReturnToScanner, Dispatched, WorkerGoes, GCInv, Fanning
  <2>2. w \in RecursersOf({fanout[w]})
    BY <2>1 DEF RecursersOf
  <2>3. Holders(fanout[w]) > 0
    BY <2>2, SomeoneCalls DEF GCInv, Holders
  <2>4. OneCallLess(fanout[w]) /\ ReleaseSbuf(fanout[w])
    BY <1>4, <2>1, DispatchedCalls DEF GCInv, ReturnToScanner
  <2>5. QED  BY <1>1, <2>1, <2>3, <2>4, ReleaseGC DEF GCInv
<1>5. CASE ReleaseUnit(w)
  <2>1. wpc[w] = "releasing" /\ wu[w].sbuf \in Sbuf
    BY <1>5 DEF ReleaseUnit, Release, WorkerGoes, GCInv, Fanning
  <2>2. w \in RunnersOf({wu[w].sbuf})
    BY <2>1 DEF RunnersOf
  <2>3. Holders(wu[w].sbuf) > 0
    BY <2>2, SomeoneCalls DEF GCInv, Holders
  <2>4. OneCallLess(wu[w].sbuf) /\ ReleaseSbuf(wu[w].sbuf)
    BY <1>5, ReleaseCalls DEF GCInv, ReleaseUnit
  <2>5. QED  BY <1>1, <2>1, <2>3, <2>4, ReleaseGC DEF GCInv
<1>6. QED  BY <1>2, <1>3, <1>4, <1>5

LEMMA RecurseGC ==
    ASSUME GCInv, NEW w \in Worker, NEW c \in Child, RecurseInto(w, c) \/ RecurseLarge(w, c)
    PROVE  Refs' /\ Born'
<1>1. PICK p : /\ p = IF RecurseInto(w, c) THEN ParentOf(w, c) ELSE NullSbuf
               /\ ScheduleNew(c, p)
  BY DEF RecurseInto, RecurseLarge
<1>2. /\ c \in Sbuf \ seen /\ seen' = seen \cup {c} /\ UNCHANGED <<mpc, mitem>>
      /\ wpc[w] = "scanning"
  BY DEF RecurseInto, RecurseLarge, Recurse, RecurseQueued, WorkerGoes, mainVars, Sbuf
<1>3. sbuf_state[c] = "unborn"
  BY <1>2, SbufAssumption DEF GCInv, Born, Scheduled, OnceInv, PushesNew
<1>4. OneMoreCall(c)
  BY RecurseCalls, RecurseQueuedCalls DEF GCInv, RecurseInto, RecurseLarge
<1>5. p \in Sbuf \cup {NullSbuf} /\ (p # NullSbuf => p \in Live /\ c \in Slice)
  <2>1. wu[w].sbuf \in Sbuf /\ w \in RunnersOf({wu[w].sbuf})
    BY <1>2 DEF GCInv, Fanning, RunnersOf
  <2>2. PICK s \in Sbuf : s = wu[w].sbuf /\ s \in Live
    BY <2>1, SomeoneCalls DEF GCInv, Holders, Refs, NoUseAfterFree
  <2>3. CASE p # NullSbuf
    <3>1. c \in Slice /\ p = HighestParent(s)
      BY <1>1, <2>2, <2>3 DEF ParentOf
    <3>2. CASE parent[s] = NullSbuf
      BY <2>2, <3>1, <3>2 DEF HighestParent
    <3>3. CASE parent[s] # NullSbuf
      <4>1. p \in Sbuf /\ p = parent[s] /\ s \in SlicesOf(p)
        BY <2>2, <3>1, <3>3 DEF HighestParent, SlicesOf, GCInv, Refs, GCShape
      <4>2. QED  BY <3>1, <4>1 DEF GCInv, Refs, NoUseAfterFree
    <3>4. QED  BY <3>2, <3>3
  <2>4. QED  BY <2>3
<1>6. Refs'
  BY <1>1, <1>2, <1>3, <1>4, <1>5, RefsNew DEF GCInv
<1>7. Born'
  BY <1>1, <1>2 DEF ScheduleNew, GCInv, Born, Scheduled, Refs, GCShape
<1>8. QED  BY <1>6, <1>7

LEMMA GCInvStep == GCInv /\ [GCNext]_allVars => GCInv'
<1> SUFFICES ASSUME GCInv, [GCNext]_allVars PROVE GCInv'
  OBVIOUS
<1>1. [Next]_vars
  BY StepOfThePool
<1>2. TypeOK' /\ WorkInv' /\ OnceInv' /\ Fanning'
  BY <1>1, TypeStep, WorkStep, OnceInvStep, FanningStep DEF GCInv
<1>3. CASE UNCHANGED allVars
  <2>1. \A S : /\ UnitsOf(S)' = UnitsOf(S) /\ RunnersOf(S)' = RunnersOf(S)
               /\ RecursersOf(S)' = RecursersOf(S) /\ (Pushing(S)' <=> Pushing(S))
    BY <1>3 DEF allVars, vars, poolVars, threadVars, mainVars, UnitsOf,
       RunnersOf, RecursersOf, Pushing
  <2>2. SameCalls
    BY <2>1 DEF SameCalls, CallsOn
  <2>3. Refs'
    BY <1>3, <2>2, RefsQuiet DEF GCInv, allVars
  <2>4. Born'
    BY <1>3 DEF allVars, vars, mainVars, historyVars, gcVars, GCInv, Born, Scheduled
  <2>5. QED  BY <1>2, <2>3, <2>4 DEF GCInv
<1>4. CASE GCNext
  <2>1. Refs' /\ Born'
    BY <1>4, MainGC, ScheduleImageGC, WorkerGC, RecurseGC DEF GCNext
  <2>2. QED  BY <1>2, <2>1 DEF GCInv
<1>5. QED  BY <1>3, <1>4

LEMMA GCInvInit == GCInit => GCInv
<1> SUFFICES ASSUME GCInit PROVE GCInv
  OBVIOUS
<1>1. Init
  BY DEF GCInit
<1>2. TypeOK /\ WorkInv /\ OnceInv
  BY <1>1, TypeInit, WorkInit, OnceInvInit
<1>3. Fanning /\ Born
  BY <1>1 DEF Init, GCInit, Fanning, Born
<1>4. Live = {} /\ \A s : SlicesOf(s) = {}
  BY DEF GCInit, Live, SlicesOf
<1>5. GCShape /\ Parents
  BY <1>4, FS_EmptySet DEF GCInit, GCShape, Parents
<1>6. CallsOn(Sbuf) = 0 /\ \A s : Holders(s) = 0
  BY <1>1, NobodyCalls DEF Holders
<1>7. Cardinality({}) = 0
  BY FS_EmptySet
<1>8. RefCountExact
  BY <1>4, <1>6, <1>7 DEF GCInit, RefCountExact, LeakedWereParents, Leaked
<1>9. NoUseAfterFree
  BY <1>4, <1>6 DEF NoUseAfterFree
<1>10. QED  BY <1>2, <1>3, <1>5, <1>8, <1>9 DEF GCInv, Refs

(* Every sbuf has exactly one reference for every call that may still      *)
(* touch it and one for every live slice of it, for any number of threads. *)
THEOREM ReferencesExact == GCSpec => []RefCountExact
<1>1. GCInv => RefCountExact
  BY DEF GCInv, Refs
<1>2. QED  BY <1>1, GCInvInit, GCInvStep, PTL DEF GCSpec

(* No thread, no queued unit and no slice ever has a deleted sbuf.         *)
THEOREM HeldIsLive == GCSpec => []NoUseAfterFree
<1>1. GCInv => NoUseAfterFree
  BY DEF GCInv, Refs
<1>2. QED  BY <1>1, GCInvInit, GCInvStep, PTL DEF GCSpec

(* The counters of an sbuf are never negative.                             *)
THEOREM CountsAreNatural == GCSpec => []GCTypeOK
<1>1. ASSUME GCInv PROVE GCTypeOK
  <2>1. \A s \in Sbuf : Holders(s) \in Nat /\ Cardinality(SlicesOf(s)) \in Nat
    BY <1>1, CallsOfEach, SlicesType DEF GCInv, Refs
  <2>2. \A s \in Sbuf : reference_count[s] \in Nat /\ children[s] \in Nat
    BY <1>1, <2>1 DEF GCInv, Refs, RefCountExact
  <2>3. reference_count \in [Sbuf -> Nat] /\ children \in [Sbuf -> Nat]
    BY <1>1, <2>2 DEF GCInv, Refs, GCShape
  <2>4. QED  BY <1>1, <2>3 DEF GCInv, Refs, GCShape, GCTypeOK
<1>2. QED  BY <1>1, GCInvInit, GCInvStep, PTL DEF GCSpec
=============================================================================
