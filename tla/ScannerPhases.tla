--------------------------- MODULE ScannerPhases ---------------------------
(***************************************************************************)
(* The life cycle of a scanner_set: scanners are added, commands enable    *)
(* and disable them, their feature recorders and histograms are made, they *)
(* scan, are shut down and cleaned up, and the set is destroyed.  The      *)
(* client makes the calls in any order it likes; those the code refuses    *)
(* throw and change nothing, and are no actions here.  The loops over the  *)
(* scanners are steps, in any order, for the sets and maps are ordered by  *)
(* addresses; meanwhile the workers scan.                                  *)
(*                                                                         *)
(* The pool is what ThreadPool shows it to be: what is queued is run once, *)
(* and join() waits until nothing is queued or running.  Scanners do not   *)
(* recurse here.  A scanner is its own name.                               *)
(***************************************************************************)
EXTENDS Integers, Sequences, FiniteSets, SequencesExt, FiniteSetsExt

CONSTANTS
    Scanner, Sbuf, Worker,
    NoScanner,        \* the unit is for all the scanners
    Idle,             \* the worker has no unit
    RecorderName, ALERT_RECORDER_NAME, Def, DefaultDef,
    default_enabled, no_all,   \* flags, as sets of scanners
    feature_defs,     \* the recorders that each scanner defines
    histogram_defs,   \* the recorders that each scanner wants a histogram of
    ALL_SCANNERS, CommandLists,   \* the lists of commands a client may have
    no_alert,
    ThrowIn,          \* the phases in which scanners may throw
    benchmark_wanted, \* debug_benchmark is set, and there is a DFXML writer
    DestroyBusy,      \* may the client destroy the set while workers scan?
    MaxApplies,       \* bound: calls of apply_scanner_commands()
    MaxFailures       \* bound: exceptions of scanners

PHASE_INIT     == 1
PHASE_INIT2    == 2
PHASE_ENABLED  == 3
PHASE_SCAN     == 4
PHASE_SHUTDOWN == 5
PHASE_CLEANUP  == 6
PHASE_CLEANED  == 7

RecorderDef == [name : RecorderName, def : Def]
Command == [command : {"enable", "disable"}, scannerName : Scanner \cup {ALL_SCANNERS}]
Unit == [sbuf : Sbuf, scanner : Scanner \cup {NoScanner}]

ASSUME ScannerAssumption ==
    /\ {NoScanner, ALL_SCANNERS} \cap Scanner = {}
    /\ Idle \notin Unit
    /\ default_enabled \cup no_all \subseteq Scanner
    /\ feature_defs \in [Scanner -> SUBSET RecorderDef]
    /\ histogram_defs \in [Scanner -> SUBSET RecorderName]
    /\ ALERT_RECORDER_NAME \in RecorderName /\ DefaultDef \in Def
    /\ CommandLists \subseteq Seq(Command)
    /\ ThrowIn \subseteq {PHASE_INIT2, PHASE_SHUTDOWN, PHASE_CLEANUP}
    /\ {no_alert, benchmark_wanted, DestroyBusy} \subseteq BOOLEAN
    /\ MaxApplies \in Nat /\ MaxFailures \in Nat

VARIABLES
    commands,            \* scanner_config's list of commands
    current_phase,
    scanner_info_db,     \* the scanners that are loaded
    enabled_scanners,
    frm,                 \* the feature recorders
    histograms,          \* how many histograms each recorder has
    mpc,                 \* where the main thread is
    executed,            \* how many of the commands its call has executed
    todo,                \* the rest of its loop over scanners
    dying,               \* it is in the destructor
    threading, joined,   \* workers were launched, and have left
    work_queue, job,     \* units, and the unit each worker has
    benchmark_cpu_thread, \* not started, running, or over
    told,                \* history: the messages each scanner got
    unreported,          \* history: recorders with features after the last report
    applies,             \* history: calls of apply_scanner_commands()
    failures             \* history: exceptions of scanners in each phase

config == <<commands, executed>>
set == <<scanner_info_db, enabled_scanners, frm, histograms>>
pool == <<threading, joined, work_queue, job>>
threads == <<pool, benchmark_cpu_thread>>
counts == <<applies, failures>>
history == <<told, unreported, counts>>
vars == <<config, current_phase, set, mpc, todo, dying, threads, history>>

Init ==
    /\ commands \in CommandLists
    /\ current_phase = PHASE_INIT
    /\ scanner_info_db = {}
    /\ enabled_scanners = {}
    /\ frm = {}
    /\ histograms = [r \in RecorderName |-> 0]
    /\ mpc = "client" /\ executed = 0
    /\ todo = {}
    /\ dying = FALSE
    /\ threading = FALSE /\ joined = FALSE
    /\ work_queue = {}
    /\ job = [w \in Worker |-> Idle]
    /\ told = [sc \in Scanner |-> <<>>]
    /\ unreported = {}
    /\ applies = 0
    /\ failures = [p \in {PHASE_INIT2, PHASE_SHUTDOWN, PHASE_CLEANUP} |-> 0]
    /\ benchmark_cpu_thread = "none"

(* A message to a scanner; a scanner that is called for several sbufs is   *)
(* told PHASE_SCAN once.                                                   *)
Tell(sc, phase) ==
    told' = IF phase = PHASE_SCAN /\ told[sc] # <<>> /\ Last(told[sc]) = PHASE_SCAN
              THEN told
              ELSE [told EXCEPT ![sc] = Append(@, phase)]

(* Scanning and shutting down, a scanner may write a feature.              *)
Feature(sc) ==
    \E written \in {{}} \cup {{d.name} : d \in feature_defs[sc]} :
        unreported' = unreported \cup written

(* The client joins the threads before it shuts down or cleans up; whether *)
(* it leaves that to the destructor, as its comment allows, is DestroyBusy.*)
Quiet == ~threading \/ joined

-----------------------------------------------------------------------------
(* Loading scanners and starting threads.                                  *)
AddScanner(sc) ==
    /\ mpc = "client"
    /\ current_phase = PHASE_INIT
    /\ sc \notin scanner_info_db
    /\ scanner_info_db' = scanner_info_db \cup {sc}
    /\ enabled_scanners' = enabled_scanners \cup ({sc} \cap default_enabled)
    /\ Tell(sc, PHASE_INIT)
    /\ UNCHANGED <<config, current_phase, frm, histograms, mpc, todo, dying,
                   threads, unreported, counts>>

LaunchWorkers ==
    /\ mpc = "client"
    /\ ~threading
    /\ threading' = TRUE
    /\ UNCHANGED <<config, current_phase, set, mpc, todo, dying, joined,
                   work_queue, job, benchmark_cpu_thread, history>>

-----------------------------------------------------------------------------
(* apply_scanner_commands()                                                *)
Apply ==
    /\ mpc = "client"
    /\ current_phase = PHASE_INIT
    /\ applies < MaxApplies
    /\ applies' = applies + 1
    /\ mpc' = "commands" /\ executed' = 0
    /\ UNCHANGED <<commands, current_phase, set, todo, dying, threads, told,
                   unreported, failures>>

(* Mutation: a command for all takes those with no_all too.                *)
ReallyAll(name) == IF name = ALL_SCANNERS THEN scanner_info_db ELSE {name}
Meant(name) == IF name = ALL_SCANNERS THEN scanner_info_db \ no_all ELSE {name}
Execute(cmd, enabled) ==
    IF cmd.command = "enable" THEN enabled \cup Meant(cmd.scannerName)
                              ELSE enabled \ Meant(cmd.scannerName)

(* NoSuchScanner is thrown at the first command for a scanner that is not  *)
(* loaded: those before it have been executed.                             *)
(* Mutation: any name will do.                                             *)
NeverUnknown(cmd) == FALSE
Unknown(cmd) == cmd.scannerName \notin scanner_info_db \cup {ALL_SCANNERS}

ExecuteCommand ==
    /\ mpc = "commands" /\ executed < Len(commands)
    /\ LET cmd == commands[executed + 1] IN
       IF Unknown(cmd)
         THEN mpc' = "client" /\ UNCHANGED <<enabled_scanners, executed>>
         ELSE /\ enabled_scanners' = Execute(cmd, enabled_scanners)
              /\ executed' = executed + 1
              /\ UNCHANGED mpc
    /\ UNCHANGED <<commands, current_phase, scanner_info_db, frm, histograms,
                   todo, dying, threads, history>>

(* create_feature_recorder() refuses a second definition of a name.        *)
Conflicts(defs) ==
    {d \in defs : \E e \in frm \cup defs : e.name = d.name /\ e.def # d.def}
AlertRecorder == IF no_alert THEN {} ELSE {[name |-> ALERT_RECORDER_NAME, def |-> DefaultDef]}

CommandsDone ==
    /\ mpc = "commands" /\ executed = Len(commands)
    /\ IF Conflicts(AlertRecorder) # {}
         THEN mpc' = "client" /\ UNCHANGED <<frm, todo>>
         ELSE /\ mpc' = "recorders"
              /\ frm' = frm \cup AlertRecorder
              /\ todo' = scanner_info_db
    /\ UNCHANGED <<config, current_phase, scanner_info_db,
                   enabled_scanners, histograms, dying, threads, history>>

(* The recorders and histograms of one scanner.  What was made before an   *)
(* exception stays: some of the recorders, or all and some histograms.     *)
(* Mutation: all loaded scanners get theirs.                               *)
IsLoaded(sc) == sc \in scanner_info_db
IsEnabled(sc) == sc \in enabled_scanners
(* Mutation: a histogram that the recorder has is not counted again.       *)
AddOnce(features) == [r \in RecorderName |-> IF r \in features THEN 1 ELSE histograms[r]]
AddHistograms(features) == [r \in RecorderName |-> histograms[r] + IF r \in features THEN 1 ELSE 0]

MakeRecorders(sc) ==
    /\ mpc = "recorders"
    /\ sc \in todo
    /\ IsEnabled(sc)
    /\ LET clashes == Conflicts(feature_defs[sc])
           made    == {d.name : d \in frm \cup feature_defs[sc]}
           missing == histogram_defs[sc] \ made
       IN  \/ /\ clashes \cup missing = {}
              /\ frm' = frm \cup feature_defs[sc]
              /\ histograms' = AddHistograms(histogram_defs[sc])
              /\ todo' = todo \ {sc}
              /\ UNCHANGED mpc
           \/ /\ clashes # {}
              /\ \E some \in SUBSET (feature_defs[sc] \ clashes) : frm' = frm \cup some
              /\ mpc' = "client"
              /\ UNCHANGED <<todo, histograms>>
           \/ /\ clashes = {} /\ missing # {}
              /\ frm' = frm \cup feature_defs[sc]
              /\ \E some \in SUBSET (histogram_defs[sc] \ missing) :
                    histograms' = AddHistograms(some)
              /\ mpc' = "client"
              /\ UNCHANGED todo
    /\ UNCHANGED <<config, current_phase, scanner_info_db, enabled_scanners,
                   dying, threads, history>>

SkipRecorders(sc) ==
    /\ mpc = "recorders"
    /\ sc \in todo /\ ~IsEnabled(sc)
    /\ todo' = todo \ {sc}
    /\ UNCHANGED <<config, current_phase, set, mpc, dying, threads, history>>

StartInit2 ==
    /\ mpc = "recorders" /\ todo = {}
    /\ current_phase' = PHASE_INIT2
    /\ mpc' = "init2"
    /\ todo' = enabled_scanners
    /\ UNCHANGED <<config, set, dying, threads, history>>

Init2(sc) ==
    /\ mpc = "init2"
    /\ sc \in todo
    /\ todo' = todo \ {sc}
    /\ Tell(sc, PHASE_INIT2)
    /\ UNCHANGED <<config, current_phase, set, mpc, dying, threads, unreported,
                   counts>>

Enabled ==
    /\ mpc = "init2" /\ todo = {}
    /\ current_phase' = PHASE_ENABLED
    /\ mpc' = "client"
    /\ UNCHANGED <<config, set, todo, dying, threads, history>>

(* The exception of a scanner leaves apply_scanner_commands(), shutdown()  *)
(* or cleanup(), with the phase as it is; nothing may leave the destructor.*)
ScannerThrows(sc) ==
    LET p == current_phase IN
    /\ mpc \in {"init2", "shutdown", "cleanup"} /\ p \in ThrowIn
    /\ sc \in todo
    /\ failures[PHASE_INIT2] + failures[PHASE_SHUTDOWN] + failures[PHASE_CLEANUP] < MaxFailures
    /\ failures' = [failures EXCEPT ![p] = @ + 1]
    /\ Tell(sc, p)
    /\ mpc' = IF dying THEN "terminated" ELSE "client"
    /\ todo' = {}
    /\ UNCHANGED <<config, current_phase, set, dying, threads, unreported,
                   applies>>

-----------------------------------------------------------------------------
(* Scanning.                                                               *)
PhaseScan ==
    /\ mpc = "client"
    /\ current_phase = PHASE_ENABLED
    /\ current_phase' = PHASE_SCAN
    /\ benchmark_cpu_thread' = IF benchmark_wanted THEN "running" ELSE "none"
    /\ UNCHANGED <<config, set, mpc, todo, dying, pool, history>>

(* launch_cpu_benchmark_thread() looks once a second, and otherwise logs.  *)
BenchmarkOver == current_phase # PHASE_SCAN \/ ~threading \/ joined

(* Mutation: it looks whether workers were launched, not at the phase.     *)
BenchmarkGoesOn ==
    /\ benchmark_cpu_thread = "running"
    /\ benchmark_cpu_thread' = IF threading THEN "running" ELSE "over"
    /\ UNCHANGED <<config, current_phase, set, mpc, todo, dying, pool, history>>

BenchmarkEnds ==
    /\ benchmark_cpu_thread = "running"
    /\ BenchmarkOver
    /\ benchmark_cpu_thread' = "over"
    /\ UNCHANGED <<config, current_phase, set, mpc, todo, dying, pool, history>>

(* An sbuf is in the pool once.  When the workers have left, push_task()   *)
(* would wait for ever.                                                    *)
Schedule(s) ==
    /\ mpc = "client"
    /\ current_phase = PHASE_SCAN
    /\ threading /\ ~joined
    /\ \A u \in work_queue : u.sbuf # s
    /\ \A w \in Worker : job[w] # Idle => job[w].sbuf # s
    /\ work_queue' = work_queue \cup {[sbuf |-> s, scanner |-> NoScanner]}
    /\ UNCHANGED <<config, current_phase, set, mpc, todo, dying, threading,
                   joined, job, benchmark_cpu_thread, history>>

(* Without threads, schedule_sbuf() calls the enabled scanners.            *)
ScanSerially ==
    /\ mpc = "client"
    /\ ~threading
    /\ current_phase = PHASE_SCAN
    /\ mpc' = "scan"
    /\ todo' = enabled_scanners
    /\ UNCHANGED <<config, current_phase, set, dying, threads, history>>

SerialScan(sc) ==
    /\ mpc = "scan"
    /\ sc \in todo
    /\ todo' = todo \ {sc}
    /\ Tell(sc, PHASE_SCAN)
    /\ Feature(sc)
    /\ UNCHANGED <<config, current_phase, set, mpc, dying, threads, counts>>

SerialDone ==
    /\ mpc = "scan" /\ todo = {}
    /\ mpc' = "client"
    /\ UNCHANGED <<config, current_phase, set, todo, dying, threads, history>>

(* A worker takes a unit; for an sbuf it pushes a unit for each enabled    *)
(* scanner, and in another phase it throws, which ends the program.        *)
ProcessSbuf(w, u) ==
    /\ job[w] = Idle
    /\ u \in work_queue /\ u.scanner = NoScanner
    /\ IF current_phase # PHASE_SCAN
         THEN mpc' = "terminated" /\ UNCHANGED work_queue
         ELSE /\ work_queue' = (work_queue \ {u})
                   \cup {[sbuf |-> u.sbuf, scanner |-> sc] : sc \in enabled_scanners}
              /\ UNCHANGED mpc
    /\ UNCHANGED <<config, current_phase, set, todo, dying, threading, joined,
                   job, benchmark_cpu_thread, history>>

(* It calls the scanner, if it is enabled, when it has its flags, which    *)
(* Mscanner_info_db protects.  The loops hold that lock.                   *)
Mscanner_info_db == mpc \in {"commands", "recorders", "init2", "cleanup"}

StartScan(w, u) ==
    /\ job[w] = Idle
    /\ u \in work_queue /\ u.scanner # NoScanner
    /\ ~Mscanner_info_db
    /\ work_queue' = work_queue \ {u}
    /\ job' = [job EXCEPT ![w] = u]
    /\ Tell(u.scanner, PHASE_SCAN)
    /\ UNCHANGED <<config, current_phase, set, mpc, todo, dying, threading,
                   joined, benchmark_cpu_thread, unreported, counts>>

EndScan(w) ==
    /\ job[w] # Idle
    /\ Feature(job[w].scanner)
    /\ job' = [job EXCEPT ![w] = Idle]
    /\ UNCHANGED <<config, current_phase, set, mpc, todo, dying, threading,
                   joined, work_queue, benchmark_cpu_thread, told, counts>>

-----------------------------------------------------------------------------
(* join(), which waits for the pool, and returns at once without one.      *)
(* Mutations: it waits for an empty queue only; for idle workers only.     *)
QueueDone == work_queue = {}
WorkersDone == \A w \in Worker : job[w] = Idle
PoolDone == work_queue = {} /\ \A w \in Worker : job[w] = Idle

Join ==
    /\ mpc = "client"
    /\ threading
    /\ mpc' = "joining"
    /\ UNCHANGED <<config, current_phase, set, todo, dying, threads, history>>

(* Mutation: a second call waits for workers that have left already.       *)
JoinsAgain ==
    /\ mpc = "joining"
    /\ PoolDone
    /\ joined' = threading
    /\ mpc' = IF joined THEN "joining" ELSE IF dying THEN "ending" ELSE "client"
    /\ UNCHANGED <<config, current_phase, set, todo, dying, threading,
                   work_queue, job, benchmark_cpu_thread, history>>
Joined ==
    /\ mpc = "joining"
    /\ PoolDone
    /\ joined' = threading
    /\ mpc' = IF dying THEN "ending" ELSE "client"
    /\ UNCHANGED <<config, current_phase, set, todo, dying, threading,
                   work_queue, job, benchmark_cpu_thread, history>>

-----------------------------------------------------------------------------
(* shutdown()                                                              *)
Shutdown ==
    /\ mpc = "client"
    /\ Quiet
    /\ current_phase = PHASE_SCAN
    /\ current_phase' = PHASE_SHUTDOWN
    /\ mpc' = "shutdown"
    /\ todo' = enabled_scanners
    /\ UNCHANGED <<config, set, dying, threads, history>>

ShutdownScanner(sc) ==
    /\ mpc = "shutdown"
    /\ sc \in todo
    /\ todo' = todo \ {sc}
    /\ Tell(sc, PHASE_SHUTDOWN)
    /\ Feature(sc)
    /\ UNCHANGED <<config, current_phase, set, mpc, dying, threads, counts>>

(* cleanup(), which shutdown() calls when the histograms are written.      *)
(* Mutation: it does not look at the phase.                                *)
AlwaysNeeded == TRUE
CleanupNeeded == current_phase # PHASE_CLEANED
StartCleanup ==
    /\ CleanupNeeded
    /\ current_phase' = PHASE_CLEANUP
    /\ mpc' = "cleanup"
    /\ todo' = scanner_info_db

(* Mutation: the histograms are not written.                               *)
ReportNothing == UNCHANGED unreported
Report == unreported' = {}

WriteHistograms ==
    /\ mpc = "shutdown" /\ todo = {}
    /\ Report
    /\ StartCleanup
    /\ UNCHANGED <<config, set, dying, threads, told, counts>>

Cleanup ==
    /\ mpc = "client"
    /\ Quiet
    /\ StartCleanup
    /\ UNCHANGED <<config, set, dying, threads, history>>

CleanupScanner(sc) ==
    /\ mpc = "cleanup"
    /\ sc \in todo
    /\ todo' = todo \ {sc}
    /\ Tell(sc, PHASE_CLEANUP)
    /\ UNCHANGED <<config, current_phase, set, mpc, dying, threads, unreported,
                   counts>>

Cleaned ==
    /\ mpc = "cleanup" /\ todo = {}
    /\ current_phase' = PHASE_CLEANED
    /\ mpc' = IF dying THEN "joining" ELSE "client"
    /\ UNCHANGED <<config, set, todo, dying, threads, history>>

(* The destructor cleans up, if nobody has, and then joins the threads.    *)
Destroy ==
    /\ mpc = "client"
    /\ DestroyBusy \/ Quiet
    /\ dying' = TRUE
    /\ \/ StartCleanup
       \/ ~CleanupNeeded /\ mpc' = "joining" /\ UNCHANGED <<current_phase, todo>>
    /\ UNCHANGED <<config, set, threads, history>>

(* Last it waits for the benchmark thread, which uses the set.             *)
BenchmarkJoined ==
    /\ mpc = "ending"
    /\ benchmark_cpu_thread # "running"
    /\ mpc' = "gone"
    /\ UNCHANGED <<config, current_phase, set, todo, dying, threads, history>>

-----------------------------------------------------------------------------
Main ==
    \/ ExecuteCommand \/ CommandsDone \/ StartInit2 \/ Enabled \/ SerialDone
    \/ Joined \/ WriteHistograms \/ Cleaned \/ BenchmarkJoined
    \/ \E sc \in Scanner :
          \/ MakeRecorders(sc) \/ SkipRecorders(sc) \/ Init2(sc)
          \/ SerialScan(sc) \/ ShutdownScanner(sc) \/ CleanupScanner(sc)

Client ==
    \/ LaunchWorkers \/ Apply \/ PhaseScan \/ ScanSerially
    \/ Join \/ Shutdown \/ Cleanup \/ Destroy
    \/ \E sc \in Scanner : AddScanner(sc) \/ ScannerThrows(sc)
    \/ \E s \in Sbuf : Schedule(s)

Work(w) ==
    /\ mpc # "terminated"
    /\ \/ \E u \in work_queue : ProcessSbuf(w, u) \/ StartScan(w, u)
       \/ EndScan(w)

Done == mpc \in {"gone", "terminated"} /\ UNCHANGED vars

Next ==
    \/ Main \/ Client \/ Done
    \/ mpc # "terminated" /\ BenchmarkEnds
    \/ \E w \in Worker : Work(w)

Fairness ==
    /\ WF_vars(Main) /\ WF_vars(mpc # "terminated" /\ BenchmarkEnds)
    /\ \A w \in Worker : WF_vars(Work(w))
Spec == Init /\ [][Next]_vars /\ Fairness

-----------------------------------------------------------------------------
TypeOK ==
    /\ commands \in CommandLists /\ executed \in 0 .. Len(commands)
    /\ current_phase \in PHASE_INIT .. PHASE_CLEANED
    /\ enabled_scanners \subseteq scanner_info_db
    /\ scanner_info_db \subseteq Scanner
    /\ frm \subseteq RecorderDef
    /\ histograms \in [RecorderName -> Nat]
    /\ mpc \in {"client", "commands", "recorders", "init2", "scan", "joining",
                "shutdown", "cleanup", "ending", "gone", "terminated"}
    /\ todo \subseteq scanner_info_db
    /\ {dying, threading, joined} \subseteq BOOLEAN
    /\ work_queue \subseteq Unit
    /\ job \in [Worker -> [sbuf : Sbuf, scanner : Scanner] \cup {Idle}]
    /\ told \in [Scanner -> Seq(PHASE_INIT .. PHASE_CLEANUP)]
    /\ unreported \subseteq RecorderName
    /\ applies \in 0 .. MaxApplies
    /\ benchmark_cpu_thread \in {"none", "running", "over"}
    /\ failures \in [{PHASE_INIT2, PHASE_SHUTDOWN, PHASE_CLEANUP} -> 0 .. MaxFailures]

(* Whatever the client calls and whatever fails half way, a scanner gets   *)
(* its messages in the order of the phases, none of them twice; it is      *)
(* never called to scan before INIT2 nor after SHUTDOWN or CLEANUP, also   *)
(* not by a worker that is late; and when the set is CLEANED, which it is  *)
(* in the end unless the destructor throws, none has been left out.  Only  *)
(* an exception in CLEANUP has the next cleanup() tell all of them again.  *)
Times(sc, phase) == Cardinality({i \in DOMAIN told[sc] : told[sc][i] = phase})
LifeInOrder ==
    \A sc \in Scanner :
        /\ \A i, j \in DOMAIN told[sc] :
              i < j => \/ told[sc][i] < told[sc][j]
                       \/ told[sc][i] = told[sc][j] /\ told[sc][i] = PHASE_CLEANUP
        /\ Times(sc, PHASE_CLEANUP) <= 1 + failures[PHASE_CLEANUP]
        /\ {PHASE_SCAN, PHASE_SHUTDOWN} \cap Range(told[sc]) # {}
              => PHASE_INIT2 \in Range(told[sc])
        /\ current_phase = PHASE_CLEANED /\ sc \in scanner_info_db
              => PHASE_CLEANUP \in Range(told[sc])

(* The memory that a scanner frees in CLEANUP is not in use by a worker    *)
(* that is inside it.                                                      *)
NotCleanedWhileScanning ==
    \A w \in Worker : job[w] # Idle => PHASE_CLEANUP \notin Range(told[job[w].scanner])

(* The commands mean what they say also when they are applied twice: of    *)
(* those that concern a scanner the last one counts, and without one the   *)
(* scanner's default.                                                      *)
Concerning(sc) ==
    {i \in DOMAIN commands :
        commands[i].scannerName \in {sc} \cup (IF sc \in no_all THEN {} ELSE {ALL_SCANNERS})}
EnabledExact ==
    current_phase \in PHASE_INIT2 .. PHASE_SHUTDOWN =>
        enabled_scanners =
            {sc \in scanner_info_db :
                IF Concerning(sc) = {} THEN sc \in default_enabled
                ELSE commands[Max(Concerning(sc))].command = "enable"}

(* From INIT2 on the scanners that the commands mean are enabled, and each *)
(* of them finds the recorders it defined, no name with two definitions,   *)
(* and a histogram for each of its requests, once if the commands were     *)
(* applied once.                                                           *)
RecordersReady ==
    /\ EnabledExact
    /\ current_phase \in PHASE_INIT2 .. PHASE_SHUTDOWN =>
        /\ \A sc \in enabled_scanners : feature_defs[sc] \subseteq frm
        /\ \A d, e \in frm : d.name = e.name => d = e
        /\ \A r \in RecorderName :
              LET n == Cardinality({sc \in enabled_scanners : r \in histogram_defs[sc]})
              IN  histograms[r] >= n /\ (applies = 1 => histograms[r] = n)

(* A feature that was written before the set was shut down, by a worker or *)
(* in the shutdown, is in the histogram, unless a scanner has thrown in    *)
(* SHUTDOWN: what was written is then never reported, and no second call   *)
(* of shutdown() is possible.                                              *)
NothingUnreported ==
    current_phase = PHASE_CLEANED /\ failures[PHASE_SHUTDOWN] = 0
    /\ (\E sc \in Scanner : PHASE_SHUTDOWN \in Range(told[sc]))
        => unreported = {}

(* No worker throws; nothing catches it if one does.  The one exception    *)
(* that ends the program is that of a scanner in the CLEANUP that the      *)
(* destructor has to do, because nobody has or because it failed before.   *)
NoTerminate ==
    mpc = "terminated" =>
        dying /\ current_phase = PHASE_CLEANUP /\ failures[PHASE_CLEANUP] > 0

(* The destructor ends, benchmark thread included: when it is joined, the  *)
(* phase has left SCAN or no worker is left, and neither comes back.       *)
Destroyed == dying ~> mpc \in {"gone", "terminated"}

(* scanner_params.h:156: "after CLEANUP. Nothing else can happen".         *)
NothingAfterCleaned ==
    \A sc \in Scanner : \A i \in DOMAIN told[sc] :
        told[sc][i] = PHASE_CLEANUP => i = Len(told[sc])
=============================================================================
