----------------------------- MODULE ScanRecords -----------------------------
(***************************************************************************)
(* What the worker threads record about the sbufs they process, all at the *)
(* same time: the count of each content that tells a duplicate from a      *)
(* first sight, the bytes saved by it, the largest depth (a compare and    *)
(* swap loop), and the work_start and work_stop lines of the DFXML log,    *)
(* whose reference count is read apart from the decrement that follows.    *)
(*                                                                         *)
(* The pool is its FIFO queue and workers that take from it (ThreadPool    *)
(* shows that this is what its locks and condition variables implement).   *)
(* An atomic operation of the code is one step; a scanner on a worker may  *)
(* recurse into a small child, which is processed in the same thread.      *)
(***************************************************************************)
EXTENDS Integers, Sequences, FiniteSets, Folding

CONSTANTS
    Worker,
    Image,           \* the sbufs the main thread schedules
    Child,           \* those scanners recurse into
    Scanner, NoScanner,
    NullSbuf,
    ParentOf,        \* the sbuf each child is found in
    hash,            \* the content of each sbuf, as far as its hash tells
    bufsize,
    scan_seen_before, \* the scanners that want duplicates
    depth,           \* the depth of each sbuf in its path
    max_depth

Sbuf == Image \cup Child

ASSUME RecordsAssumption ==
    /\ IsFiniteSet(Worker) /\ IsFiniteSet(Image) /\ IsFiniteSet(Child)
    /\ Image \cap Child = {} /\ NullSbuf \notin Sbuf /\ NoScanner \notin Scanner
    /\ ParentOf \in [Child -> Sbuf]
    /\ DOMAIN hash = Sbuf
    /\ bufsize \in [Sbuf -> Nat]
    /\ scan_seen_before \subseteq Scanner
    /\ depth \in [Sbuf -> Nat]
    /\ \A s \in Image : depth[s] = 0
    /\ \A c \in Child : depth[c] = depth[ParentOf[c]] + 1
    /\ max_depth \in Nat

VARIABLES
    work_queue,      \* thread_pool::work_queue
    wpc, wu,         \* where each worker is, and its work unit
    at,              \* the sbuf it processes or releases
    todo,            \* the scanners it has not pushed yet
    prev_value,      \* the local variable of update_maximum()
    reference_count, max_depth_seen, previously_processed_counter,
    seen_before, dup_bytes_encountered,
    dfxml,           \* the lines of the log about each sbuf
    scheduled,       \* history: the sbufs that were scheduled
    counted,         \* history: those that were counted
    ran              \* history: the scanners that were run on each sbuf

threadVars == <<wpc, wu, at, todo, prev_value>>
stats == <<max_depth_seen, previously_processed_counter, seen_before,
           dup_bytes_encountered>>
history == <<scheduled, counted, ran>>
vars == <<work_queue, threadVars, reference_count, stats, dfxml, history>>

Hash == {hash[s] : s \in Sbuf}

Unit(s, sc) == [sbuf |-> s, scanner |-> sc]

Init ==
    /\ work_queue = <<>>
    /\ wpc = [w \in Worker |-> "idle"]
    /\ wu = [w \in Worker |-> Unit(NullSbuf, NoScanner)]
    /\ at = [w \in Worker |-> NullSbuf]
    /\ todo = [w \in Worker |-> {}]
    /\ prev_value = [w \in Worker |-> 0]
    /\ reference_count = [s \in Sbuf |-> 0]
    /\ max_depth_seen = 0
    /\ previously_processed_counter = [h \in Hash |-> 0]
    /\ seen_before = [s \in Sbuf |-> FALSE]
    /\ dup_bytes_encountered = 0
    /\ dfxml = [s \in Sbuf |-> <<>>]
    /\ scheduled = {}
    /\ counted = {}
    /\ ran = [s \in Sbuf |-> {}]

Goes(w, from, to) == wpc[w] = from /\ wpc' = [wpc EXCEPT ![w] = to]
Retain(s) == reference_count' = [reference_count EXCEPT ![s] = @ + 1]

-----------------------------------------------------------------------------
(* schedule_sbuf() in the main thread.                                     *)
Schedule(s) ==
    /\ s \notin scheduled
    /\ scheduled' = scheduled \cup {s}
    /\ Retain(s)
    /\ work_queue' = Append(work_queue, Unit(s, NoScanner))
    /\ UNCHANGED <<threadVars, stats, dfxml, counted, ran>>

(* A duplicate is kept from the scanners that do not ask for it.           *)
(* Mutation: it is not.                                                    *)
RunAlways(s, sc) == TRUE
MayRun(s, sc) == seen_before[s] => sc \in scan_seen_before

TakeWork(w) ==
    /\ wpc[w] = "idle"
    /\ work_queue # <<>>
    /\ LET u == Head(work_queue) IN
          /\ wu' = [wu EXCEPT ![w] = u]
          /\ at' = [at EXCEPT ![w] = u.sbuf]
          /\ wpc' = [wpc EXCEPT ![w] =
                       IF u.scanner = NoScanner        THEN "entering"
                       ELSE IF MayRun(u.sbuf, u.scanner) THEN "scanning"
                       ELSE "ending"]
    /\ work_queue' = Tail(work_queue)
    /\ UNCHANGED <<todo, prev_value, reference_count, stats, dfxml, history>>

-----------------------------------------------------------------------------
(* process_sbuf(sbuf).  The log has the sbufs without a path only.  A      *)
(* work_stop line is the reference count in it, which is not 0.            *)
WorkStart == 0
Log(s, line) ==
    dfxml' = IF depth[s] = 0 THEN [dfxml EXCEPT ![s] = Append(@, line)] ELSE dfxml

ReturnEmpty(w) ==
    /\ Goes(w, "entering", "ending")
    /\ bufsize[at[w]] = 0
    /\ UNCHANGED <<work_queue, wu, at, todo, prev_value, reference_count, stats,
                   dfxml, history>>

RefuseDeep(w) ==
    /\ Goes(w, "entering", "ending")
    /\ bufsize[at[w]] > 0 /\ depth[at[w]] >= max_depth
    /\ Log(at[w], WorkStart)
    /\ UNCHANGED <<work_queue, wu, at, todo, prev_value, reference_count, stats,
                   history>>

(* record_work_start(), and the load that begins update_maximum().         *)
Enter(w) ==
    /\ Goes(w, "entering", "raising")
    /\ bufsize[at[w]] > 0 /\ depth[at[w]] < max_depth
    /\ Log(at[w], WorkStart)
    /\ prev_value' = [prev_value EXCEPT ![w] = max_depth_seen]
    /\ UNCHANGED <<work_queue, wu, at, todo, reference_count, stats, history>>

(* The loop of update_maximum().  A compare and swap that fails loads the  *)
(* value again; one that fails although the value is right changes nothing.*)
(* Mutation: the larger value is stored whatever is there by now.          *)
StoreMaximum(w) ==
    LET d == depth[at[w]] IN
    /\ wpc[w] = "raising"
    /\ max_depth_seen' = IF prev_value[w] < d THEN d ELSE max_depth_seen
    /\ wpc' = [wpc EXCEPT ![w] = "counting"]
    /\ UNCHANGED <<work_queue, wu, at, todo, prev_value, reference_count,
                   previously_processed_counter, seen_before,
                   dup_bytes_encountered, dfxml, history>>
UpdateMaximum(w) ==
    LET d == depth[at[w]] IN
    /\ wpc[w] = "raising"
    /\ \/ /\ prev_value[w] >= d
          /\ wpc' = [wpc EXCEPT ![w] = "counting"]
          /\ UNCHANGED <<prev_value, max_depth_seen>>
       \/ /\ prev_value[w] < d /\ prev_value[w] = max_depth_seen
          /\ max_depth_seen' = d
          /\ wpc' = [wpc EXCEPT ![w] = "counting"]
          /\ UNCHANGED prev_value
       \/ /\ prev_value[w] < d /\ prev_value[w] # max_depth_seen
          /\ prev_value' = [prev_value EXCEPT ![w] = max_depth_seen]
          /\ UNCHANGED <<wpc, max_depth_seen>>
    /\ UNCHANGED <<work_queue, wu, at, todo, reference_count,
                   previously_processed_counter, seen_before,
                   dup_bytes_encountered, dfxml, history>>

(* previously_processed_count() returns the count before its increment.    *)
(* Mutation: the count after it.                                           *)
CountAfter(h) == previously_processed_counter[h] + 1
CountBefore(h) == previously_processed_counter[h]

Count(w) ==
    /\ Goes(w, "counting", "dispatching")
    /\ LET s == at[w]
           seen == CountBefore(hash[s]) > 0
       IN  /\ previously_processed_counter' =
                 [previously_processed_counter EXCEPT ![hash[s]] = @ + 1]
           /\ seen_before' = [seen_before EXCEPT ![s] = seen]
           /\ dup_bytes_encountered' =
                 dup_bytes_encountered + IF seen THEN bufsize[s] ELSE 0
           /\ counted' = counted \cup {s}
    /\ todo' = [todo EXCEPT ![w] = Scanner]
    /\ prev_value' = [prev_value EXCEPT ![w] = 0]
    /\ UNCHANGED <<work_queue, wu, at, reference_count, max_depth_seen, dfxml,
                   scheduled, ran>>

(* The loop over the scanners: retain, and push one unit.                  *)
(* Mutation: the sbuf is not retained for it.                              *)
PushUnretained(w, sc) ==
    /\ wpc[w] = "dispatching" /\ sc \in todo[w]
    /\ work_queue' = Append(work_queue, Unit(at[w], sc))
    /\ todo' = [todo EXCEPT ![w] = @ \ {sc}]
    /\ UNCHANGED <<wpc, wu, at, prev_value, reference_count, stats, dfxml, history>>
PushScannerTask(w, sc) ==
    /\ wpc[w] = "dispatching" /\ sc \in todo[w]
    /\ Retain(at[w])
    /\ work_queue' = Append(work_queue, Unit(at[w], sc))
    /\ todo' = [todo EXCEPT ![w] = @ \ {sc}]
    /\ UNCHANGED <<wpc, wu, at, prev_value, stats, dfxml, history>>

Dispatched(w) ==
    /\ todo[w] = {}
    /\ Goes(w, "dispatching", "ending")
    /\ UNCHANGED <<work_queue, wu, at, todo, prev_value, reference_count, stats,
                   dfxml, history>>

-----------------------------------------------------------------------------
(* process_sbuf(sbuf, scanner): the scanner may recurse, and returns.      *)
Recurse(w, c) ==
    /\ c \notin scheduled /\ ParentOf[c] = wu[w].sbuf
    /\ Goes(w, "scanning", "entering")
    /\ scheduled' = scheduled \cup {c}
    /\ Retain(c)
    /\ at' = [at EXCEPT ![w] = c]
    /\ UNCHANGED <<work_queue, wu, todo, prev_value, stats, dfxml, counted, ran>>

ScannerReturns(w) ==
    /\ Goes(w, "scanning", "ending")
    /\ ran' = [ran EXCEPT ![wu[w].sbuf] = @ \cup {wu[w].scanner}]
    /\ UNCHANGED <<work_queue, wu, at, todo, prev_value, reference_count, stats,
                   dfxml, scheduled, counted>>

(* release_sbuf(), first record_work_end(), which reads the count.         *)
(* Mutation: the line has the count that the decrement will leave.         *)
CountLeft(s) == reference_count[s] - 1
CountHeld(s) == reference_count[s]

RecordWorkEnd(w) ==
    /\ Goes(w, "ending", "releasing")
    /\ Log(at[w], CountHeld(at[w]))
    /\ UNCHANGED <<work_queue, wu, at, todo, prev_value, reference_count, stats,
                   history>>

(* Then the decrement.  A scanner that recursed goes on, with its own sbuf.*)
Release(w) ==
    LET recursed == at[w] # wu[w].sbuf IN
    /\ Goes(w, "releasing", IF recursed THEN "scanning" ELSE "idle")
    /\ reference_count' = [reference_count EXCEPT ![at[w]] = @ - 1]
    /\ at' = [at EXCEPT ![w] = IF recursed THEN wu[w].sbuf ELSE NullSbuf]
    /\ wu' = IF recursed THEN wu ELSE [wu EXCEPT ![w] = Unit(NullSbuf, NoScanner)]
    /\ UNCHANGED <<work_queue, todo, prev_value, stats, dfxml, history>>

-----------------------------------------------------------------------------
WorkerStep(w) ==
    \/ TakeWork(w)
    \/ ReturnEmpty(w) \/ RefuseDeep(w) \/ Enter(w)
    \/ UpdateMaximum(w) \/ Count(w)
    \/ \E sc \in Scanner : PushScannerTask(w, sc)
    \/ Dispatched(w)
    \/ \E c \in Child : Recurse(w, c)
    \/ ScannerReturns(w)
    \/ RecordWorkEnd(w) \/ Release(w)

Drained == work_queue = <<>> /\ \A w \in Worker : wpc[w] = "idle"
Done == Drained /\ UNCHANGED vars

Next ==
    \/ \E s \in Image : Schedule(s)
    \/ \E w \in Worker : WorkerStep(w)
    \/ Done

Spec == Init /\ [][Next]_vars

-----------------------------------------------------------------------------
TypeOK ==
    /\ work_queue \in Seq([sbuf : Sbuf, scanner : Scanner \cup {NoScanner}])
    /\ wpc \in [Worker -> {"idle", "entering", "raising", "counting", "dispatching",
                           "scanning", "ending", "releasing"}]
    /\ wu \in [Worker -> [sbuf : Sbuf \cup {NullSbuf},
                          scanner : Scanner \cup {NoScanner}]]
    /\ at \in [Worker -> Sbuf \cup {NullSbuf}]
    /\ todo \in [Worker -> SUBSET Scanner]
    /\ prev_value \in [Worker -> Nat]
    /\ reference_count \in [Sbuf -> Nat]
    /\ max_depth_seen \in Nat
    /\ previously_processed_counter \in [Hash -> Nat]
    /\ seen_before \in [Sbuf -> BOOLEAN]
    /\ dup_bytes_encountered \in Nat
    /\ \A s \in Sbuf : dfxml[s] \in Seq(Nat)
    /\ scheduled \subseteq Sbuf
    /\ counted \subseteq Sbuf
    /\ ran \in [Sbuf -> SUBSET Scanner]

(* However the threads interleave, max_depth_seen is the largest depth of  *)
(* the sbufs that are past update_maximum(): a thread with a smaller value *)
(* never takes back what another has stored since it looked.               *)
Depths == {0} \cup {depth[s] : s \in counted}
Raising == {depth[at[w]] : w \in {v \in Worker : wpc[v] \in {"raising", "counting"}}}
MaxDepthExact ==
    /\ \A d \in Depths : d <= max_depth_seen
    /\ max_depth_seen \in Depths \cup Raising

(* Of equal buffers that several threads come across at the same time, one *)
(* is taken for new and all the others for duplicates, so that the bytes   *)
(* reported as duplicate are exact, every scanner runs on the content, and *)
(* one that does not want duplicates runs on it once.                      *)
Equal(h) == {s \in counted : hash[s] = h}
OneIsNew ==
    \A h \in Hash :
        Equal(h) # {} => Cardinality({s \in Equal(h) : ~seen_before[s]}) = 1
RunsOn(h, sc) == Cardinality({s \in Equal(h) : sc \in ran[s]})
ScannedOnce ==
    /\ dup_bytes_encountered = SumOf(bufsize, {s \in counted : seen_before[s]})
    /\ OneIsNew
    /\ \A h \in Hash, sc \in Scanner :
          /\ sc \notin scan_seen_before => RunsOn(h, sc) <= 1
          /\ Drained /\ Equal(h) # {} => RunsOn(h, sc) >= 1

(* scanner_set.cpp:730: the log is "used for restarting".  Every release   *)
(* writes a work_stop line, the first of them long before the sbuf is      *)
(* done.  A line with rc='1', though, is the last one about the sbuf: no   *)
(* unit of it is queued or held by another thread, and every scanner that  *)
(* was to run on it has returned.  (There need not be such a line: two     *)
(* threads that release at the same time both write '2'.)                  *)
HeldBy(w, s) == wpc[w] # "idle" /\ (at[w] = s \/ wu[w].sbuf = s)
StopMeansDone ==
    \A s \in Sbuf : \A i \in DOMAIN dfxml[s] : dfxml[s][i] = 1 =>
        /\ i = Len(dfxml[s])
        /\ \A j \in DOMAIN work_queue : work_queue[j].sbuf # s
        /\ \A w \in Worker : HeldBy(w, s) => wpc[w] = "releasing"
        /\ s \in counted => {sc \in Scanner : MayRun(s, sc)} \subseteq ran[s]
=============================================================================
