------------------------------- MODULE SbufGC -------------------------------
(***************************************************************************)
(* The garbage collection of sbufs, over the thread pool: who holds a      *)
(* reference to which sbuf, and when the last one deletes it.              *)
(*                                                                         *)
(* Every step is a step of ThreadPool together with what the code around   *)
(* the pool does to the sbuf: schedule_sbuf() and the loop of              *)
(* process_sbuf() retain it once per pending call, release_sbuf() gives a  *)
(* reference back and deletes the sbuf at zero, and a slice, which points  *)
(* into the buffer of its highest parent, holds one reference to that      *)
(* parent from its construction to its destruction.                        *)
(***************************************************************************)
EXTENDS ThreadPool

CONSTANT Slice      \* the children that are made by new_slice()

ASSUME SliceAssumption == Slice \subseteq Child \ Large

VARIABLES
    sbuf_state,      \* not constructed yet, live, or deleted
    reference_count, \* sbuf_t::reference_count
    children,        \* sbuf_t::children: live slices of its buffer
    parent,          \* sbuf_t::parent
    sbufs_in_queue   \* scanner_set::sbufs_in_queue

gcVars == <<sbuf_state, reference_count, children, parent, sbufs_in_queue>>
allVars == <<vars, gcVars>>

GCInit ==
    /\ Init
    /\ sbuf_state = [s \in Sbuf |-> "unborn"]
    /\ reference_count = [s \in Sbuf |-> 0]
    /\ children = [s \in Sbuf |-> 0]
    /\ parent = [s \in Sbuf |-> NullSbuf]
    /\ sbufs_in_queue = 0

Live == {s \in Sbuf : sbuf_state[s] = "live"}
HighestParent(s) == IF parent[s] = NullSbuf THEN s ELSE parent[s]

-----------------------------------------------------------------------------
(* The counters of one sbuf; there is nothing to count for NullSbuf.       *)
Plus(count, s)  == [q \in Sbuf |-> IF q = s THEN count[q] + 1 ELSE count[q]]
Minus(count, s) == [q \in Sbuf |-> IF q = s THEN count[q] - 1 ELSE count[q]]

(* The sbufs that are held, which the statistics show and assert.          *)
update_queue_stats(dir) == sbufs_in_queue' = sbufs_in_queue + dir

(* retain_sbuf(s).                                                         *)
Retain(s) ==
    /\ update_queue_stats(1)
    /\ reference_count' = Plus(reference_count, s)
    /\ UNCHANGED <<sbuf_state, children, parent>>

(* What add_child() and del_child() make of the references of p, given     *)
(* those that the caller has changed already.                              *)
(* Mutations: a slice takes no reference to its parent; it never gives it  *)
(* back.                                                                   *)
NoReference(refs, p) == refs
AddChild(refs, p) == Plus(refs, p)
DelChild(refs, p) == Minus(refs, p)

(* The constructor of s, as a slice of p if p is not null, and the retain  *)
(* of schedule_sbuf(s) that follows.                                       *)
ScheduleNew(s, p) ==
    /\ sbuf_state' = [sbuf_state EXCEPT ![s] = "live"]
    /\ parent' = [parent EXCEPT ![s] = p]
    /\ children' = Plus(children, p)
    /\ reference_count' = Plus(AddChild(reference_count, p), s)
    /\ update_queue_stats(1)

(* ~sbuf_t() of s, after its last reference went: a slice leaves its       *)
(* parent with del_child(), which never deletes the parent.                *)
Destroy(s, refs) ==
    /\ sbuf_state' = [sbuf_state EXCEPT ![s] = "deleted"]
    /\ children' = Minus(children, parent[s])
    /\ reference_count' = DelChild(refs, parent[s])

(* release_sbuf(s).                                                        *)
(* Mutations: it deletes while a reference is left; it never deletes.      *)
DeleteEarly(refs, s) == refs[s] <= 1
DeleteNever(refs, s) == FALSE
MustDelete(refs, s) == refs[s] = 0

ReleaseSbuf(s) ==
    LET refs == Minus(reference_count, s) IN
    /\ update_queue_stats(-1)
    /\ UNCHANGED parent
    /\ \/ /\ ~MustDelete(refs, s)
          /\ reference_count' = refs
          /\ UNCHANGED <<sbuf_state, children>>
       \/ MustDelete(refs, s) /\ Destroy(s, refs)

-----------------------------------------------------------------------------
(* The steps of the pool, each with what happens to the sbuf.              *)

(* scanner_set::schedule_sbuf(s) in the main thread.                       *)
ScheduleImage(s) == CallPushTask(s) /\ ScheduleNew(s, NullSbuf)

(* recurse(c): c is a slice of the highest parent of the sbuf the scanner  *)
(* runs on, or an sbuf with a buffer of its own.                           *)
ParentOf(w, c) == IF c \in Slice THEN HighestParent(wu[w].sbuf) ELSE NullSbuf
RecurseInto(w, c)  == Recurse(w, c) /\ ScheduleNew(c, ParentOf(w, c))
RecurseLarge(w, c) == RecurseQueued(w, c) /\ ScheduleNew(c, NullSbuf)

(* The loop of process_sbuf(): one reference per scanner.                  *)
RetainForScanner(w) == PushScannerTask(w) /\ Retain(fanout[w])

(* The loop is over.  A scanner that recursed releases the child here, and *)
(* run() releases the sbuf of its own unit.                                *)
ReturnToRun(w) ==
    /\ wu[w].scanner = NoScanner
    /\ Dispatched(w)
    /\ UNCHANGED gcVars
(* Mutation: schedule_sbuf() returns without the release.                  *)
ReturnUnreleased(w) ==
    /\ wu[w].scanner # NoScanner
    /\ Dispatched(w)
    /\ UNCHANGED gcVars
ReturnToScanner(w) ==
    /\ wu[w].scanner # NoScanner
    /\ Dispatched(w)
    /\ ReleaseSbuf(fanout[w])
ReleaseUnit(w) == Release(w) /\ ReleaseSbuf(wu[w].sbuf)

OtherWorkerStep(w) ==
    /\ \/ StartWorker(w) \/ WaitForWork(w) \/ TakeWork(w) \/ ScannerReturns(w)
       \/ StopWorking(w) \/ BecomeFree(w) \/ ExitWorker(w) \/ LastStatus(w)
    /\ UNCHANGED gcVars

OtherMainStep ==
    /\ \/ MainStep
       \/ \E return \in {"running", "counting"} : CallWaitForTasks(return)
       \/ DestroyMembers
       \/ Terminated
    /\ UNCHANGED gcVars

GCNext ==
    \/ OtherMainStep
    \/ \E s \in Image : ScheduleImage(s)
    \/ \E w \in Worker :
          \/ OtherWorkerStep(w)
          \/ RetainForScanner(w)
          \/ ReturnToRun(w) \/ ReturnToScanner(w)
          \/ ReleaseUnit(w)
          \/ \E c \in Child : RecurseInto(w, c) \/ RecurseLarge(w, c)

(* The fairness of the pool: every thread keeps taking steps.              *)
GCWorkerStep(w) ==
    OtherWorkerStep(w) \/ RetainForScanner(w) \/ ReturnToRun(w)
      \/ ReturnToScanner(w) \/ ReleaseUnit(w)
GCFairness ==
    /\ WF_allVars(MainStep /\ UNCHANGED gcVars)
    /\ \A w \in Worker : WF_allVars(GCWorkerStep(w))

GCSpec == GCInit /\ [][GCNext]_allVars /\ GCFairness

-----------------------------------------------------------------------------
GCTypeOK ==
    /\ TypeOK
    /\ sbuf_state \in [Sbuf -> {"unborn", "live", "deleted"}]
    /\ reference_count \in [Sbuf -> Nat]
    /\ children \in [Sbuf -> Nat]
    /\ parent \in [Sbuf -> Sbuf \cup {NullSbuf}]
    /\ sbufs_in_queue \in Int

(* The calls that hold a reference to one of the sbufs in S: one for the   *)
(* push the main thread is making, one for each queued unit, one for each  *)
(* unit a worker has not released, and one for a recursion that a scanner  *)
(* has not returned from.                                                  *)
Pushing(S)   == mpc \in {"pushing", "pushWait"} /\ mitem \in S
UnitsOf(S)   == {i \in DOMAIN work_queue : work_queue[i].sbuf \in S}
RunnersOf(S) == {w \in Worker : /\ wpc[w] \in {"dispatching", "scanning", "releasing"}
                                /\ wu[w].sbuf \in S}
RecursersOf(S) == {w \in Worker : /\ wpc[w] = "dispatching"
                                  /\ wu[w].scanner # NoScanner
                                  /\ fanout[w] \in S}
CallsOn(S) ==
    (IF Pushing(S) THEN 1 ELSE 0)
      + Cardinality(UnitsOf(S)) + Cardinality(RunnersOf(S))
      + Cardinality(RecursersOf(S))
Holders(s) == CallsOn({s})
SlicesOf(s) == {c \in Live : parent[c] = s}

(* sbufs without slices never leak, and a leaked sbuf is a parent whose    *)
(* slices took the last references away from it.                           *)
Leaked == {s \in Live : Holders(s) = 0 /\ SlicesOf(s) = {}}
LeakedWereParents == \A s \in Leaked : \E c \in Slice : parent[c] = s

(* No count is lost between the threads: every sbuf has one reference for  *)
(* every call that may still touch it and one for every live slice of it,  *)
(* `children' counts those slices, and sbufs_in_queue, which is asserted   *)
(* not to go below zero, all the calls, whatever order the threads retain  *)
(* and release in; and who releases the last reference deletes the sbuf,   *)
(* but for a parent that loses it with a slice.                            *)
RefCountExact ==
    /\ \A s \in Sbuf :
          /\ reference_count[s] = Holders(s) + Cardinality(SlicesOf(s))
          /\ children[s] = Cardinality(SlicesOf(s))
    /\ sbufs_in_queue = CallsOn(Sbuf)
    /\ LeakedWereParents

(* Whatever a thread or the queue may still dereference is live: the sbuf  *)
(* of a unit, the one being fanned out, and the buffer a slice points to.  *)
NoUseAfterFree ==
    \A s \in Sbuf : Holders(s) > 0 \/ SlicesOf(s) # {} => s \in Live

(* An sbuf that is scheduled is eventually deleted, however its scanners   *)
(* interleave, unless it is sliced.                                        *)
Sliced(s) == \E c \in Slice : parent[c] = s
ScheduledIsDeleted ==
    \A s \in Sbuf : sbuf_state[s] = "live" ~> sbuf_state[s] = "deleted" \/ Sliced(s)

(* sbuf.h:572, of reference_count: "when goes to zero, automatically free". *)
(* No live sbuf is left that nobody holds a reference to.                  *)
FreedAtZero ==
    \A s \in Live : reference_count[s] > 0
=============================================================================
