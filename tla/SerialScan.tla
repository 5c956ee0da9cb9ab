----------------------------- MODULE SerialScan -----------------------------
(***************************************************************************)
(* Scanning without worker threads: schedule_sbuf() calls process_sbuf(),  *)
(* which calls every enabled scanner, each of which may recurse into what  *)
(* it decoded, all on one call stack.  The stack is the model's main       *)
(* variable.  Scanners and the disk behave as they like: a scanner may     *)
(* recurse, throw, or find that a feature cannot be written.               *)
(*                                                                         *)
(* A buffer is its Content, which is what the hash of the duplicate check  *)
(* sees; its forensic path is the sequence of the scanners that decoded    *)
(* it, so that its length is the depth.  The conditions on the bytes alone *)
(* (minimum size, n-grams, distinct characters) are one constant, Suits.   *)
(***************************************************************************)
EXTENDS Integers, Sequences, FiniteSets, SequencesExt, Folding

CONSTANTS
    Content,         \* the byte strings that occur
    Scanner,         \* the enabled scanners
    NoScanner,
    bufsize,         \* the size of each content
    Suits,           \* the scanners each content is long and varied enough for
    depth0_only, scan_seen_before, recurse_always,  \* flags, as sets of scanners
    scanner_wants, scanner_produces, \* flags: memory, file systems, or both
    Named,           \* the scanners whose path prefix is their name
    OccursIn,        \* the scanners whose path prefix contains a scanner's
    max_depth,
    AlertRecorder,   \* is there an alert recorder (not flags.no_alert)?
    DiskMayFill,     \* may writing to the disk start to fail?
    MaxScheduled,    \* bound: sbufs the client schedules
    MaxRecursions    \* bound: recursions of one call of a scanner

ASSUME SetsAssumption ==
    /\ IsFiniteSet(Content)
    /\ NoScanner \notin Scanner
    /\ bufsize \in [Content -> Nat]
    /\ Suits \in [Content -> SUBSET Scanner]
    /\ OccursIn \in [Scanner -> SUBSET Scanner]
    /\ depth0_only \cup scan_seen_before \cup recurse_always \cup Named \subseteq Scanner
    /\ scanner_wants \in [Scanner -> SUBSET {"memory", "filesystems"}]
    /\ scanner_produces \in [Scanner -> SUBSET {"memory", "filesystems"}]
ASSUME BoundAssumption == max_depth \in Nat /\ MaxScheduled \in Nat /\ MaxRecursions \in Nat

VARIABLES
    stack,           \* the calls of process_sbuf(), innermost first
    pc,              \* where the innermost call is
    thrown,          \* the exception being propagated
    previously_processed_counter,
    max_depth_seen, dup_bytes_encountered, disk_write_errors,
    alerts,          \* lines written to the alert recorder
    sbufs_in_queue,  \* references that schedule and the loop hold
    disk_full,
    scheduled,       \* history: calls of the client
    begun,           \* history: contents that reached the loop
    asked,           \* history: contents a scanner asked about
    calls,           \* history: calls of each scanner on each content
    escaped          \* history: exceptions that left schedule_sbuf()

history == <<begun, asked, calls, escaped>>
stats == <<max_depth_seen, dup_bytes_encountered, disk_write_errors, alerts>>
vars == <<stack, pc, thrown, previously_processed_counter, stats,
          sbufs_in_queue, disk_full, scheduled, history>>

Init ==
    /\ stack = <<>>
    /\ pc = "idle"
    /\ thrown = "none"
    /\ previously_processed_counter = [c \in Content |-> 0]
    /\ max_depth_seen = 0
    /\ dup_bytes_encountered = 0
    /\ disk_write_errors = 0
    /\ alerts = 0
    /\ sbufs_in_queue = 0
    /\ disk_full = FALSE
    /\ scheduled = 0
    /\ begun = {}
    /\ asked = {}
    /\ calls = [c \in Content |-> [sc \in Scanner |-> 0]]
    /\ escaped = 0

Top == Head(stack)
SetTop(f) == stack' = <<f>> \o Tail(stack)
Depth(f) == Len(f.path)

Frame(c, path) ==
    [content |-> c, path |-> path, seen_before |-> FALSE,
     possibly_has |-> {}, todo |-> {}, scanner |-> NoScanner,
     recursions |-> 0]

-----------------------------------------------------------------------------
update_queue_stats(dir) == sbufs_in_queue' = sbufs_in_queue + dir

(* schedule_sbuf(): retain the sbuf and process it; and its return, when   *)
(* the sbuf is released, deleted, and the caller goes on.                  *)
Call(f) ==
    /\ stack' = <<f>> \o stack
    /\ pc' = "entering"
    /\ update_queue_stats(1)

(* Mutation: schedule_sbuf() returns without the release.                  *)
ReturnUnreleased ==
    /\ stack' = Tail(stack)
    /\ pc' = IF Tail(stack) = <<>> THEN "idle" ELSE "scanning"
    /\ UNCHANGED sbufs_in_queue
Return ==
    /\ stack' = Tail(stack)
    /\ pc' = IF Tail(stack) = <<>> THEN "idle" ELSE "scanning"
    /\ update_queue_stats(-1)

(* An exception leaves process_sbuf(sbuf) and schedule_sbuf() without the  *)
(* releases: into the scanner that recursed, or to the client.             *)
Unwind(e) ==
    /\ stack' = Tail(stack)
    /\ IF Tail(stack) = <<>>
         THEN pc' = "idle" /\ thrown' = "none" /\ escaped' = escaped + 1
         ELSE pc' = "catching" /\ thrown' = e /\ UNCHANGED escaped
    /\ UNCHANGED sbufs_in_queue

Schedule(c) ==
    /\ pc = "idle"
    /\ scheduled < MaxScheduled
    /\ scheduled' = scheduled + 1
    /\ Call(Frame(c, <<>>))
    /\ UNCHANGED <<thrown, previously_processed_counter, stats, disk_full,
                   history>>

-----------------------------------------------------------------------------
(* process_sbuf(sbuf), up to its loop.                                     *)
IsEmpty(f) == bufsize[f.content] = 0
(* Mutation: off by one.                                                   *)
TooDeepByOne(f) == Depth(f) > max_depth
TooDeep(f) == Depth(f) >= max_depth

ReturnEmpty ==
    /\ pc = "entering"
    /\ IsEmpty(Top)
    /\ Return
    /\ UNCHANGED <<thrown, previously_processed_counter, stats, disk_full,
                   scheduled, history>>

(* The depth limit is reported to the alert recorder; nothing catches what *)
(* get_alert_recorder() or write() throws.                                 *)
RefuseDeep ==
    /\ pc = "entering"
    /\ ~IsEmpty(Top) /\ TooDeep(Top)
    /\ IF AlertRecorder /\ ~disk_full
         THEN alerts' = alerts + 1 /\ Return /\ UNCHANGED <<thrown, escaped>>
         ELSE /\ Unwind(IF AlertRecorder THEN "DiskWriteError" ELSE "exception")
              /\ UNCHANGED alerts
    /\ UNCHANGED <<previously_processed_counter, max_depth_seen, disk_write_errors,
                   dup_bytes_encountered, disk_full, scheduled, begun, asked, calls>>

(* What there may be in the sbuf: anything in an image, and else what the  *)
(* scanner produces that the last part of the path names, if it names one. *)
PossiblyHas(path) ==
    IF path = <<>> THEN {"memory", "filesystems"}
    ELSE IF Last(path) \in Named THEN scanner_produces[Last(path)] ELSE {}

(* Mutation: the count after the increment is tested.                      *)
SeenNow(c) == previously_processed_counter[c] + 1 > 0
SeenBefore(c) == previously_processed_counter[c] > 0

(* previously_processed_count(): the count before is returned.             *)
Count(c) == previously_processed_counter' = [previously_processed_counter EXCEPT ![c] = @ + 1]

Begin ==
    LET c == Top.content IN
    /\ pc = "entering"
    /\ ~IsEmpty(Top) /\ ~TooDeep(Top)
    /\ max_depth_seen' = Max({max_depth_seen, Depth(Top)})
    /\ Count(c)
    /\ dup_bytes_encountered' = dup_bytes_encountered + IF SeenBefore(c) THEN bufsize[c] ELSE 0
    /\ SetTop([Top EXCEPT !.seen_before = SeenBefore(c),
                          !.possibly_has = PossiblyHas(Top.path),
                          !.todo = Scanner])
    /\ pc' = "looping"
    /\ begun' = begun \cup {c}
    /\ UNCHANGED <<thrown, disk_write_errors, alerts, sbufs_in_queue, disk_full,
                   scheduled, asked, calls, escaped>>

-----------------------------------------------------------------------------
(* process_sbuf(sbuf, scanner), and the loop that calls it.                *)

(* pos0.contains(): the prefix of sc is a substring of the path.           *)
InPath(f, sc) == \E i \in DOMAIN f.path : f.path[i] \in OccursIn[sc]

(* The reasons not to run a scanner.                                       *)
(* Mutation: what was seen before is scanned again.                        *)
RunOnSeen(f, sc) ==
    /\ sc \in depth0_only => Depth(f) = 0
    /\ sc \in Suits[f.content]
    /\ sc \in recurse_always => ~InPath(f, sc)
    /\ scanner_wants[sc] \subseteq f.possibly_has
MayRun(f, sc) ==
    /\ sc \in depth0_only => Depth(f) = 0
    /\ sc \in Suits[f.content]
    /\ f.seen_before => sc \in scan_seen_before
    /\ sc \in recurse_always => ~InPath(f, sc)
    /\ scanner_wants[sc] \subseteq f.possibly_has

(* Mutation: the loop does not move on from a scanner it skips.            *)
SkipNothing(sc) ==
    /\ pc = "looping"
    /\ sc \in Top.todo /\ ~MayRun(Top, sc)
    /\ UNCHANGED vars
SkipScanner(sc) ==
    /\ pc = "looping"
    /\ sc \in Top.todo /\ ~MayRun(Top, sc)
    /\ SetTop([Top EXCEPT !.todo = @ \ {sc}])
    /\ UNCHANGED <<pc, thrown, previously_processed_counter, stats,
                   sbufs_in_queue, disk_full, scheduled, history>>

CallScanner(sc) ==
    /\ pc = "looping"
    /\ sc \in Top.todo /\ MayRun(Top, sc)
    /\ SetTop([Top EXCEPT !.todo = @ \ {sc}, !.scanner = sc, !.recursions = 0])
    /\ pc' = "scanning"
    /\ update_queue_stats(1)
    /\ calls' = [calls EXCEPT ![Top.content][sc] = @ + 1]
    /\ UNCHANGED <<thrown, previously_processed_counter, stats, disk_full,
                   scheduled, begun, asked, escaped>>

LoopDone ==
    /\ pc = "looping"
    /\ Top.todo = {}
    /\ Return
    /\ UNCHANGED <<thrown, previously_processed_counter, stats, disk_full,
                   scheduled, history>>

(* Back in the loop after a call: the reference it held is released.       *)
BackInLoop ==
    /\ SetTop([Top EXCEPT !.scanner = NoScanner])
    /\ pc' = "looping"
    /\ update_queue_stats(-1)

ScannerReturns ==
    /\ pc = "scanning"
    /\ BackInLoop
    /\ UNCHANGED <<thrown, previously_processed_counter, stats, disk_full,
                   scheduled, history>>

-----------------------------------------------------------------------------
(* What a scanner may do.                                                  *)
Recurse(c) ==
    /\ pc = "scanning"
    /\ Top.recursions < MaxRecursions
    /\ stack' = <<Frame(c, Append(Top.path, Top.scanner)),
                  [Top EXCEPT !.recursions = @ + 1]>> \o Tail(stack)
    /\ pc' = "entering"
    /\ update_queue_stats(1)
    /\ UNCHANGED <<thrown, previously_processed_counter, stats, disk_full,
                   scheduled, history>>

(* check_previously_processed(): the question itself counts.               *)
CheckPreviouslyProcessed(c) ==
    /\ pc = "scanning"
    /\ Top.recursions < MaxRecursions
    /\ Count(c)
    /\ asked' = asked \cup {c}
    /\ SetTop([Top EXCEPT !.recursions = @ + 1])
    /\ UNCHANGED <<pc, thrown, stats, sbufs_in_queue, disk_full, scheduled,
                   begun, calls, escaped>>

Throw(e) ==
    /\ pc = "scanning"
    /\ pc' = "catching"
    /\ thrown' = e
    /\ UNCHANGED <<stack, previously_processed_counter, stats, sbufs_in_queue,
                   disk_full, scheduled, history>>

WriteFails == disk_full /\ Throw("DiskWriteError")
ScannerThrows == Throw("exception")

(* The handlers of process_sbuf(sbuf, scanner).  They write an alert; that *)
(* there is no recorder for it is caught, that it cannot be written is not.*)
AlertFails == AlertRecorder /\ disk_full

Catch ==
    /\ pc = "catching"
    /\ disk_write_errors' = disk_write_errors + IF thrown = "DiskWriteError" THEN 1 ELSE 0
    /\ IF AlertFails
         THEN Unwind("DiskWriteError") /\ UNCHANGED alerts
         ELSE /\ BackInLoop
              /\ alerts' = alerts + IF AlertRecorder THEN 1 ELSE 0
              /\ thrown' = "none"
              /\ UNCHANGED escaped
    /\ UNCHANGED <<previously_processed_counter, max_depth_seen,
                   dup_bytes_encountered, disk_full, scheduled, begun, asked, calls>>

DiskFills ==
    /\ DiskMayFill /\ ~disk_full
    /\ disk_full' = TRUE
    /\ UNCHANGED <<stack, pc, thrown, previously_processed_counter, stats,
                   sbufs_in_queue, scheduled, history>>

-----------------------------------------------------------------------------
Step ==
    \/ ReturnEmpty \/ RefuseDeep \/ Begin
    \/ \E sc \in Scanner : SkipScanner(sc) \/ CallScanner(sc)
    \/ LoopDone
    \/ ScannerReturns
    \/ Catch

Done == pc = "idle" /\ UNCHANGED vars

Next ==
    \/ Step
    \/ \E c \in Content : Schedule(c) \/ Recurse(c) \/ CheckPreviouslyProcessed(c)
    \/ WriteFails \/ ScannerThrows
    \/ DiskFills
    \/ Done

(* The program keeps running, and a scanner in the end returns or throws.  *)
Spec == Init /\ [][Next]_vars /\ WF_vars(Step)

-----------------------------------------------------------------------------
(* The recursion is as deep as max_depth allows and no deeper, whatever    *)
(* path it takes, and max_depth_seen is not exceeded by a running call.    *)
DepthBound ==
    /\ Len(stack) <= max_depth + 1
    /\ \A i \in DOMAIN stack :
          stack[i].scanner # NoScanner => Depth(stack[i]) <= max_depth_seen
    /\ begun # {} => max_depth_seen < max_depth

(* The types, and where the innermost call can be with what is on the      *)
(* stack.                                                                  *)
Shape ==
    /\ stack \in Seq([content : Content, path : Seq(Scanner), seen_before : BOOLEAN,
                      possibly_has : SUBSET {"memory", "filesystems"}, todo : SUBSET Scanner,
                      scanner : Scanner \cup {NoScanner}, recursions : 0 .. MaxRecursions])
    /\ pc \in {"idle", "entering", "looping", "scanning", "catching"}
    /\ (pc = "idle") <=> (stack = <<>>)
    /\ pc \in {"entering", "looping"} => Top.scanner = NoScanner
    /\ pc \in {"scanning", "catching"} => Top.scanner \in Scanner
    /\ thrown \in {"none", "DiskWriteError", "exception"}
    /\ (pc = "catching") <=> (thrown # "none")
    /\ previously_processed_counter \in [Content -> Nat]
    /\ {max_depth_seen, dup_bytes_encountered, disk_write_errors, alerts,
        sbufs_in_queue, scheduled, escaped} \subseteq Nat
    /\ disk_full \in BOOLEAN
    /\ begun \cup asked \subseteq Content
    /\ calls \in [Content -> [Scanner -> Nat]]
TypeOK == Shape /\ DepthBound

(* The duplicate bytes that are reported are those of all the copies but   *)
(* the first of each buffer that was processed.                            *)
Copies == [c \in begun |-> bufsize[c] * (previously_processed_counter[c] - 1)]
DupsExact == asked = {} => dup_bytes_encountered = SumOf(Copies, begun)

(* However the scanners recurse, also into what they or others have seen   *)
(* before and into the input of a call that is still running, a scanner    *)
(* that does not ask for duplicates sees the same bytes once.              *)
ScansOnce ==
    \A c \in Content, sc \in Scanner \ scan_seen_before : calls[c][sc] <= 1

ContextFree ==
    {sc \in Scanner \ (depth0_only \cup recurse_always) : scanner_wants[sc] = {}}

(* And what the scanners are spared is what is reported, and nothing is    *)
(* lost by it: when the outermost call has returned, every scanner that    *)
(* looks at the bytes only has been called on every buffer that was        *)
(* processed, be it the first copy or a later one.  Buffers that a scanner *)
(* asked about are excepted: the question counts as a sighting, and a      *)
(* buffer that is asked about first is taken for a duplicate.              *)
SeenOnce ==
    /\ ScansOnce
    /\ DupsExact
    /\ pc = "idle" /\ escaped = 0 =>
          \A c \in begun \ asked : \A sc \in Suits[c] \cap ContextFree : calls[c][sc] >= 1

(* scanner_params.cpp:55: "sbuf will be deleted after it is processed".    *)
(* When the outermost call has returned nobody holds a reference, unless   *)
(* an exception of the alert recorder has passed the releases.             *)
NothingKept == pc = "idle" /\ AlertRecorder /\ ~disk_full => sbufs_in_queue = 0

(* The scan of a buffer comes to its end although scanners recurse into    *)
(* their own output, because the depth and each call are bounded.          *)
Terminates == pc # "idle" ~> pc = "idle"

(* threadpool.cpp:161-162: the worker does not throw, "we simply return    *)
(* when there is an error".  run() has no handler: it relies on            *)
(* process_sbuf() to keep every exception.                                 *)
NoExceptionEscapes == escaped = 0
=============================================================================
