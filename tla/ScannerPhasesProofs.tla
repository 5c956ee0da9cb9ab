------------------------ MODULE ScannerPhasesProofs ------------------------
(***************************************************************************)
(* Theorems about ScannerPhases for every set of scanners, sbufs and       *)
(* workers, every list of commands and every choice of flags, for clients  *)
(* that join the workers before they shut down (DestroyBusy is FALSE).     *)
(***************************************************************************)
EXTENDS ScannerPhases, SequenceTheorems, FiniteSetTheorems, TLAPS

Message == PHASE_INIT .. PHASE_CLEANUP

LEMMA PhaseNumbers ==
    /\ PHASE_INIT = 1 /\ PHASE_INIT2 = 2 /\ PHASE_ENABLED = 3 /\ PHASE_SCAN = 4
    /\ PHASE_SHUTDOWN = 5 /\ PHASE_CLEANUP = 6 /\ PHASE_CLEANED = 7
BY DEF PHASE_INIT, PHASE_INIT2, PHASE_ENABLED, PHASE_SCAN, PHASE_SHUTDOWN,
       PHASE_CLEANUP, PHASE_CLEANED

-----------------------------------------------------------------------------
(* The types.                                                              *)
LEMMA Told ==
    ASSUME TypeOK, NEW sc \in Scanner, NEW p \in Message, Tell(sc, p)
    PROVE  /\ told' \in [Scanner -> Seq(Message)]
           /\ \A o \in Scanner : o # sc => told'[o] = told[o]
           /\ \/ told'[sc] = Append(told[sc], p)
              \/ /\ told'[sc] = told[sc] /\ p = PHASE_SCAN
                 /\ told[sc] # <<>> /\ Last(told[sc]) = PHASE_SCAN
           /\ p # PHASE_SCAN => told'[sc] = Append(told[sc], p)
<1>1. told \in [Scanner -> Seq(Message)]
  BY DEF TypeOK, Message
<1>2. Append(told[sc], p) \in Seq(Message)
  BY <1>1, AppendProperties
<1>3. CASE p = PHASE_SCAN /\ told[sc] # <<>> /\ Last(told[sc]) = PHASE_SCAN
  BY <1>1, <1>3 DEF Tell
<1>4. CASE ~(p = PHASE_SCAN /\ told[sc] # <<>> /\ Last(told[sc]) = PHASE_SCAN)
  <2>1. told' = [told EXCEPT ![sc] = Append(@, p)]
    BY <1>4 DEF Tell
  <2>2. QED  BY <1>1, <1>2, <1>4, <2>1
<1>5. QED  BY <1>3, <1>4

LEMMA FeatureType ==
    ASSUME TypeOK, NEW sc \in Scanner, Feature(sc)
    PROVE  unreported' \subseteq RecorderName
BY ScannerAssumption DEF TypeOK, Feature, RecorderDef

(* Some more of the features of a scanner are made, or all of them.        *)
LEMMA MakeType ==
    ASSUME TypeOK, NEW sc \in Scanner, MakeRecorders(sc)
    PROVE  /\ frm' \subseteq RecorderDef
           /\ histograms' \in [RecorderName -> Nat]
           /\ mpc' \in {"recorders", "client"} /\ todo' \subseteq todo
<1>1. feature_defs[sc] \subseteq RecorderDef /\ frm \subseteq RecorderDef
  BY ScannerAssumption DEF TypeOK
<1>2. \A features : AddHistograms(features) \in [RecorderName -> Nat]
  BY DEF TypeOK, AddHistograms
<1>3. histograms \in [RecorderName -> Nat] /\ mpc = "recorders"
  BY DEF TypeOK, MakeRecorders
<1> HIDE DEF AddHistograms
<1>4. frm' \subseteq RecorderDef
  BY <1>1 DEF MakeRecorders
<1>5. histograms' \in [RecorderName -> Nat]
  BY <1>2, <1>3 DEF MakeRecorders
<1>6. mpc' \in {"recorders", "client"} /\ todo' \subseteq todo
  BY <1>3 DEF MakeRecorders
<1>7. QED  BY <1>4, <1>5, <1>6

LEMMA TypeStep == TypeOK /\ [Next]_vars => TypeOK'
<1> SUFFICES ASSUME TypeOK, [Next]_vars PROVE TypeOK'
  OBVIOUS
<1> USE PhaseNumbers, ScannerAssumption DEF TypeOK, config, set, pool, threads, counts, history
<1>1. ASSUME NEW sc \in Scanner, AddScanner(sc) PROVE TypeOK'
  BY <1>1 DEF AddScanner, Tell
<1>2. ASSUME LaunchWorkers PROVE TypeOK'
  BY <1>2 DEF LaunchWorkers
<1>3. ASSUME Apply PROVE TypeOK'
  BY <1>3 DEF Apply
<1>4. ASSUME ExecuteCommand PROVE TypeOK'
  BY <1>4 DEF ExecuteCommand, Unknown, Execute, Meant
<1>5. ASSUME CommandsDone PROVE TypeOK'
  BY <1>5 DEF CommandsDone, AlertRecorder, RecorderDef
<1>6. ASSUME NEW sc \in Scanner, MakeRecorders(sc) PROVE TypeOK'
  BY <1>6, MakeType DEF MakeRecorders
<1>7. ASSUME NEW sc \in Scanner, SkipRecorders(sc) PROVE TypeOK'
  BY <1>7 DEF SkipRecorders
<1>8. ASSUME StartInit2 PROVE TypeOK'
  BY <1>8 DEF StartInit2
<1>9. ASSUME NEW sc \in Scanner, Init2(sc) PROVE TypeOK'
  BY <1>9 DEF Init2, Tell
<1>10. ASSUME Enabled PROVE TypeOK'
  BY <1>10 DEF Enabled
<1>11. ASSUME NEW sc \in Scanner, ScannerThrows(sc) PROVE TypeOK'
  <2>1. current_phase \in {PHASE_INIT2, PHASE_SHUTDOWN, PHASE_CLEANUP}
    BY <1>11 DEF ScannerThrows
  <2>2. failures' \in [{PHASE_INIT2, PHASE_SHUTDOWN, PHASE_CLEANUP} -> 0 .. MaxFailures]
    BY <1>11, <2>1 DEF ScannerThrows
  <2>3. told' \in [Scanner -> Seq(Message)]
    BY <1>11, <2>1, Told DEF ScannerThrows, Message
  <2>4. QED  BY <1>11, <2>2, <2>3 DEF ScannerThrows, Message
<1>12. ASSUME PhaseScan PROVE TypeOK'
  BY <1>12 DEF PhaseScan
<1>13. ASSUME BenchmarkEnds PROVE TypeOK'
  BY <1>13 DEF BenchmarkEnds
<1>14. ASSUME NEW s \in Sbuf, Schedule(s) PROVE TypeOK'
  BY <1>14 DEF Schedule, Unit
<1>15. ASSUME ScanSerially PROVE TypeOK'
  BY <1>15 DEF ScanSerially
<1>16. ASSUME NEW sc \in Scanner, SerialScan(sc) PROVE TypeOK'
  <2>1. told' \in [Scanner -> Seq(Message)]
    BY <1>16, Told DEF SerialScan, Message
  <2>2. unreported' \subseteq RecorderName
    BY <1>16, FeatureType DEF SerialScan
  <2>3. QED  BY <1>16, <2>1, <2>2 DEF SerialScan, Message
<1>17. ASSUME SerialDone PROVE TypeOK'
  BY <1>17 DEF SerialDone
<1>18. ASSUME NEW w \in Worker, NEW u \in work_queue, ProcessSbuf(w, u) PROVE TypeOK'
  BY <1>18 DEF ProcessSbuf, Unit
<1>19. ASSUME NEW w \in Worker, NEW u \in work_queue, StartScan(w, u) PROVE TypeOK'
  <2>1. u \in [sbuf : Sbuf, scanner : Scanner]
    BY <1>19 DEF StartScan, Unit
  <2>2. told' \in [Scanner -> Seq(Message)]
    BY <1>19, <2>1, Told DEF StartScan, Message
  <2>3. QED  BY <1>19, <2>1, <2>2 DEF StartScan, Message
<1>20. ASSUME NEW w \in Worker, EndScan(w) PROVE TypeOK'
  <2>1. unreported' \subseteq RecorderName
    BY <1>20 DEF EndScan, Feature, RecorderDef, Unit
  <2>2. QED  BY <1>20, <2>1 DEF EndScan, Unit
<1>21. ASSUME Join PROVE TypeOK'
  BY <1>21 DEF Join
<1>22. ASSUME Joined PROVE TypeOK'
  BY <1>22 DEF Joined
<1>23. ASSUME Shutdown PROVE TypeOK'
  BY <1>23 DEF Shutdown
<1>24. ASSUME NEW sc \in Scanner, ShutdownScanner(sc) PROVE TypeOK'
  <2>1. told' \in [Scanner -> Seq(Message)]
    BY <1>24, Told DEF ShutdownScanner, Message
  <2>2. unreported' \subseteq RecorderName
    BY <1>24, FeatureType DEF ShutdownScanner
  <2>3. QED  BY <1>24, <2>1, <2>2 DEF ShutdownScanner, Message
<1>25. ASSUME WriteHistograms PROVE TypeOK'
  BY <1>25 DEF WriteHistograms, Report, StartCleanup
<1>26. ASSUME Cleanup PROVE TypeOK'
  BY <1>26 DEF Cleanup, StartCleanup
<1>27. ASSUME NEW sc \in Scanner, CleanupScanner(sc) PROVE TypeOK'
  BY <1>27 DEF CleanupScanner, Tell
<1>28. ASSUME Cleaned PROVE TypeOK'
  BY <1>28 DEF Cleaned
<1>29. ASSUME Destroy PROVE TypeOK'
  BY <1>29 DEF Destroy, StartCleanup
<1>30. ASSUME BenchmarkJoined PROVE TypeOK'
  BY <1>30 DEF BenchmarkJoined
<1>31. CASE UNCHANGED vars
  BY <1>31 DEF vars
<1> QED
  BY <1>1, <1>2, <1>3, <1>4, <1>5, <1>6, <1>7, <1>8, <1>9, <1>10, <1>11, <1>12,
     <1>13, <1>14, <1>15, <1>16, <1>17, <1>18, <1>19, <1>20, <1>21, <1>22, <1>23,
     <1>24, <1>25, <1>26, <1>27, <1>28, <1>29, <1>30, <1>31
     DEF Next, Main, Client, Work, Done

-----------------------------------------------------------------------------
(* The phase says where the main thread is, and the workers have something *)
(* to do in PHASE_SCAN only, for enabled scanners.                         *)
Where ==
    /\ mpc \in {"commands", "recorders"} => current_phase = PHASE_INIT
    /\ mpc = "init2" => current_phase = PHASE_INIT2
    /\ mpc = "scan" => current_phase = PHASE_SCAN
    /\ mpc = "shutdown" => current_phase = PHASE_SHUTDOWN
    /\ mpc = "cleanup" => current_phase = PHASE_CLEANUP
    /\ mpc \in {"init2", "scan", "shutdown"} => todo \subseteq enabled_scanners
    /\ dying => /\ mpc \in {"cleanup", "joining", "ending", "gone", "terminated"}
                /\ current_phase >= PHASE_CLEANUP
    /\ NoTerminate

Pooled ==
    /\ ~threading \/ joined \/ current_phase # PHASE_SCAN => PoolDone
    /\ \A u \in work_queue : u.scanner \in enabled_scanners \cup {NoScanner}
    /\ \A w \in Worker : job[w] # Idle => job[w].scanner \in enabled_scanners

(* What an exception of a scanner does.                                    *)
LEMMA Throws ==
    ASSUME TypeOK, NEW sc \in Scanner, ScannerThrows(sc)
    PROVE  /\ current_phase \in {PHASE_INIT2, PHASE_SHUTDOWN, PHASE_CLEANUP}
           /\ \A p \in {PHASE_INIT2, PHASE_SHUTDOWN, PHASE_CLEANUP} :
                 /\ failures[p] \in Nat
                 /\ failures'[p] = IF p = current_phase THEN failures[p] + 1 ELSE failures[p]
<1>1. current_phase \in {PHASE_INIT2, PHASE_SHUTDOWN, PHASE_CLEANUP}
  BY ScannerAssumption DEF ScannerThrows
<1>2. failures \in [{PHASE_INIT2, PHASE_SHUTDOWN, PHASE_CLEANUP} -> 0 .. MaxFailures]
  BY DEF TypeOK
<1>3. failures' = [failures EXCEPT ![current_phase] = @ + 1]
  BY DEF ScannerThrows
<1>4. QED  BY <1>1, <1>2, <1>3, ScannerAssumption

LEMMA WhereStep ==
    ASSUME ~DestroyBusy, TypeOK, TypeOK', Where, Pooled, [Next]_vars
    PROVE  Where' /\ Pooled'
<1> USE PhaseNumbers DEF Where, Pooled, PoolDone, NoTerminate, config, set, pool, threads, counts, history
<1>1. ASSUME NEW sc \in Scanner, AddScanner(sc) PROVE Where' /\ Pooled'
  BY <1>1 DEF AddScanner
<1>2. ASSUME LaunchWorkers PROVE Where' /\ Pooled'
  BY <1>2 DEF LaunchWorkers
<1>3. ASSUME Apply PROVE Where' /\ Pooled'
  BY <1>3 DEF Apply
<1>4. ASSUME ExecuteCommand PROVE Where' /\ Pooled'
  BY <1>4 DEF ExecuteCommand, Unknown, Execute, Meant
<1>5. ASSUME CommandsDone PROVE Where' /\ Pooled'
  BY <1>5 DEF CommandsDone
<1>6. ASSUME NEW sc \in Scanner, MakeRecorders(sc) PROVE Where' /\ Pooled'
  BY <1>6 DEF MakeRecorders
<1>7. ASSUME NEW sc \in Scanner, SkipRecorders(sc) PROVE Where' /\ Pooled'
  BY <1>7 DEF SkipRecorders
<1>8. ASSUME StartInit2 PROVE Where' /\ Pooled'
  BY <1>8 DEF StartInit2
<1>9. ASSUME NEW sc \in Scanner, Init2(sc) PROVE Where' /\ Pooled'
  BY <1>9 DEF Init2
<1>10. ASSUME Enabled PROVE Where' /\ Pooled'
  BY <1>10 DEF Enabled
<1>11. ASSUME NEW sc \in Scanner, ScannerThrows(sc) PROVE Where' /\ Pooled'
  BY <1>11, Throws DEF ScannerThrows
<1>12. ASSUME PhaseScan PROVE Where' /\ Pooled'
  BY <1>12 DEF PhaseScan
<1>13. ASSUME BenchmarkEnds PROVE Where' /\ Pooled'
  BY <1>13 DEF BenchmarkEnds
<1>14. ASSUME NEW s \in Sbuf, Schedule(s) PROVE Where' /\ Pooled'
  BY <1>14 DEF Schedule
<1>15. ASSUME ScanSerially PROVE Where' /\ Pooled'
  BY <1>15 DEF ScanSerially
<1>16. ASSUME NEW sc \in Scanner, SerialScan(sc) PROVE Where' /\ Pooled'
  BY <1>16 DEF SerialScan
<1>17. ASSUME SerialDone PROVE Where' /\ Pooled'
  BY <1>17 DEF SerialDone
<1>18. ASSUME NEW w \in Worker, NEW u \in work_queue, ProcessSbuf(w, u) PROVE Where' /\ Pooled'
  BY <1>18 DEF ProcessSbuf
<1>19. ASSUME NEW w \in Worker, NEW u \in work_queue, StartScan(w, u) PROVE Where' /\ Pooled'
  BY <1>19 DEF StartScan
<1>20. ASSUME NEW w \in Worker, EndScan(w) PROVE Where' /\ Pooled'
  BY <1>20 DEF EndScan
<1>21. ASSUME Join PROVE Where' /\ Pooled'
  BY <1>21 DEF Join
<1>22. ASSUME Joined PROVE Where' /\ Pooled'
  BY <1>22 DEF Joined
<1>23. ASSUME Shutdown PROVE Where' /\ Pooled'
  BY <1>23 DEF Shutdown, Quiet
<1>24. ASSUME NEW sc \in Scanner, ShutdownScanner(sc) PROVE Where' /\ Pooled'
  BY <1>24 DEF ShutdownScanner
<1>25. ASSUME WriteHistograms PROVE Where' /\ Pooled'
  BY <1>25 DEF WriteHistograms, StartCleanup, CleanupNeeded
<1>26. ASSUME Cleanup PROVE Where' /\ Pooled'
  BY <1>26 DEF Cleanup, StartCleanup, CleanupNeeded, Quiet
<1>27. ASSUME NEW sc \in Scanner, CleanupScanner(sc) PROVE Where' /\ Pooled'
  BY <1>27 DEF CleanupScanner
<1>28. ASSUME Cleaned PROVE Where' /\ Pooled'
  BY <1>28 DEF Cleaned
<1>29. ASSUME Destroy PROVE Where' /\ Pooled'
  BY <1>29 DEF Destroy, StartCleanup, CleanupNeeded, Quiet
<1>30. ASSUME BenchmarkJoined PROVE Where' /\ Pooled'
  BY <1>30 DEF BenchmarkJoined
<1>31. CASE UNCHANGED vars
  BY <1>31 DEF vars
<1> QED
  BY <1>1, <1>2, <1>3, <1>4, <1>5, <1>6, <1>7, <1>8, <1>9, <1>10, <1>11, <1>12,
     <1>13, <1>14, <1>15, <1>16, <1>17, <1>18, <1>19, <1>20, <1>21, <1>22, <1>23,
     <1>24, <1>25, <1>26, <1>27, <1>28, <1>29, <1>30, <1>31
     DEF Next, Main, Client, Work, Done

-----------------------------------------------------------------------------
(* What a scanner has been told: messages in order, none of a phase to     *)
(* come, nor of this one while it waits for it in a loop.                  *)
Ordered(t) ==
    \A i, j \in DOMAIN t :
        i < j => t[i] < t[j] \/ (t[i] = t[j] /\ t[i] = PHASE_CLEANUP)

Waits(sc) == sc \in todo /\ mpc \in {"init2", "shutdown"}

ToldOf(sc) ==
    /\ Ordered(told[sc])
    /\ \A i \in DOMAIN told[sc] :
          /\ told[sc][i] <= current_phase
          /\ Waits(sc) => told[sc][i] < current_phase
    /\ sc \notin scanner_info_db => told[sc] = <<>>

LEMMA Keeps ==
    ASSUME TypeOK, TypeOK', NEW o \in Scanner, ToldOf(o), told'[o] = told[o],
           current_phase <= current_phase',
           Waits(o)' => Waits(o) \/ current_phase < current_phase',
           scanner_info_db \subseteq scanner_info_db'
    PROVE  ToldOf(o)'
<1>1. /\ told[o] \in Seq(Message)
      /\ current_phase \in Nat /\ current_phase' \in Nat
  BY PhaseNumbers DEF TypeOK, Message
<1>2. \A i \in DOMAIN told[o] : told[o][i] \in Nat
  BY <1>1, PhaseNumbers DEF Message
<1>3. QED  BY <1>1, <1>2 DEF ToldOf, Waits, Ordered

LEMMA Hears ==
    ASSUME TypeOK, TypeOK', NEW sc \in scanner_info_db, ToldOf(sc), Tell(sc, current_phase),
           current_phase \in Message,
           current_phase \in {PHASE_SCAN, PHASE_CLEANUP} \/ Waits(sc),
           current_phase' = current_phase, scanner_info_db' = scanner_info_db, ~Waits(sc)'
    PROVE  ToldOf(sc)'
<1> USE PhaseNumbers
<1> DEFINE t == told[sc]
           p == current_phase
<1>1. sc \in Scanner /\ t \in Seq(Message) /\ p \in Nat
  BY DEF TypeOK, Message
<1>2. /\ Len(t) \in Nat /\ DOMAIN t = 1 .. Len(t)
      /\ \A i \in DOMAIN t : t[i] \in Nat /\ t[i] <= p
  BY <1>1, LenProperties DEF Message, ToldOf
<1>3. CASE told'[sc] = t
  BY <1>1, <1>3 DEF ToldOf, Ordered
<1>4. CASE told'[sc] = Append(t, p)
  <2>1. p \notin {PHASE_CLEANUP} => \A i \in DOMAIN t : t[i] < p
    <3>1. CASE Waits(sc)
      BY <3>1 DEF ToldOf
    <3>2. CASE p = PHASE_SCAN
      <4>1. t = <<>> \/ Last(t) # PHASE_SCAN
        <5>1. CASE t # <<>> /\ Last(t) = PHASE_SCAN
          <6>1. told' = told
            BY <5>1, <3>2 DEF Tell
          <6>2. Len(Append(t, p)) = Len(t) + 1
            BY <1>1
          <6>3. QED  BY <6>1, <6>2, <1>2, <1>4
        <5>2. QED  BY <5>1
      <4>2. SUFFICES ASSUME NEW i \in DOMAIN t PROVE t[i] < p
        OBVIOUS
      <4>3. Last(t) = t[Len(t)] /\ Len(t) \in DOMAIN t /\ t # <<>>
        BY <1>1, <1>2, <4>2 DEF Last
      <4>4. t[Len(t)] < p
        BY <4>1, <4>3, <1>2, <3>2
      <4>5. CASE i < Len(t)
        <5>1. t[i] < t[Len(t)] \/ (t[i] = t[Len(t)] /\ t[i] = PHASE_CLEANUP)
          BY <4>5, <4>3 DEF ToldOf, Ordered
        <5>2. QED  BY <5>1, <4>4, <4>3, <1>1, <1>2
      <4>6. QED  BY <4>4, <4>5, <1>2
    <3>3. QED  BY <3>1, <3>2
  <2>2. /\ DOMAIN Append(t, p) = 1 .. (Len(t) + 1)
        /\ Append(t, p)[Len(t) + 1] = p
        /\ \A i \in 1 .. Len(t) : Append(t, p)[i] = t[i]
    BY <1>1, AppendProperties
  <2>3. Ordered(Append(t, p))
    <3>1. SUFFICES ASSUME NEW i \in 1 .. (Len(t) + 1), NEW j \in 1 .. (Len(t) + 1), i < j
                   PROVE  LET a == Append(t, p) IN
                          a[i] < a[j] \/ (a[i] = a[j] /\ a[i] = PHASE_CLEANUP)
      BY <2>2 DEF Ordered
    <3>2. CASE j = Len(t) + 1
      BY <3>1, <3>2, <2>1, <2>2, <1>1, <1>2
    <3>3. CASE j # Len(t) + 1
      <4>1. i \in DOMAIN t /\ j \in DOMAIN t
        BY <3>1, <3>3, <1>2
      <4>2. t[i] < t[j] \/ (t[i] = t[j] /\ t[i] = PHASE_CLEANUP)
        BY <4>1, <3>1 DEF ToldOf, Ordered
      <4>3. Append(t, p)[i] = t[i] /\ Append(t, p)[j] = t[j]
        BY <4>1, <1>2, <2>2
      <4>4. QED  BY <4>2, <4>3
    <3>4. QED  BY <3>2, <3>3
  <2>4. \A i \in DOMAIN Append(t, p) : Append(t, p)[i] <= p
    BY <2>2, <1>1, <1>2
  <2>5. QED  BY <2>3, <2>4, <1>4 DEF ToldOf
<1>5. QED
  BY <1>1, <1>3, <1>4, Told

LEMMA ToldStep ==
    ASSUME ~DestroyBusy, TypeOK, TypeOK', Where, Where', Pooled, NEW o \in Scanner, ToldOf(o),
           [Next]_vars
    PROVE  ToldOf(o)'
<1> USE PhaseNumbers DEF config, set, pool, threads, counts, history
<1>0. /\ current_phase \in PHASE_INIT .. PHASE_CLEANED /\ current_phase' \in Nat
      /\ todo \subseteq scanner_info_db
  BY DEF TypeOK
<1>1. ASSUME NEW sc \in Scanner, AddScanner(sc) PROVE ToldOf(o)'
  <2>1. CASE o = sc
    <3>1. told'[o] = <<PHASE_INIT>> /\ sc \in scanner_info_db'
      BY <1>1, <2>1, Told DEF AddScanner, ToldOf, Message
    <3>2. ~Waits(o)' /\ current_phase' = PHASE_INIT
      BY <1>1 DEF AddScanner, Waits
    <3>3. QED  BY <2>1, <3>1, <3>2 DEF ToldOf, Ordered
  <2>2. CASE o # sc
    BY <1>0, <1>1, <2>2, Told, Keeps DEF AddScanner, Waits, Where, Message
  <2>3. QED  BY <2>1, <2>2
<1>2. ASSUME LaunchWorkers PROVE ToldOf(o)'
  BY <1>2, <1>0, Keeps DEF LaunchWorkers, Waits, Where
<1>3. ASSUME Apply PROVE ToldOf(o)'
  BY <1>3, <1>0, Keeps DEF Apply, Waits, Where
<1>4. ASSUME ExecuteCommand PROVE ToldOf(o)'
  BY <1>4, <1>0, Keeps DEF ExecuteCommand, Unknown, Execute, Meant, Waits, Where
<1>5. ASSUME CommandsDone PROVE ToldOf(o)'
  BY <1>5, <1>0, Keeps DEF CommandsDone, Waits, Where
<1>6. ASSUME NEW sc \in Scanner, MakeRecorders(sc) PROVE ToldOf(o)'
  BY <1>6, <1>0, Keeps DEF MakeRecorders, Waits, Where
<1>7. ASSUME NEW sc \in Scanner, SkipRecorders(sc) PROVE ToldOf(o)'
  BY <1>7, <1>0, Keeps DEF SkipRecorders, Waits, Where
<1>8. ASSUME StartInit2 PROVE ToldOf(o)'
  BY <1>8, <1>0, Keeps DEF StartInit2, Waits, Where
<1>9. ASSUME NEW sc \in Scanner, Init2(sc) PROVE ToldOf(o)'
  <2>1. CASE o = sc
    BY <1>0, <1>9, <2>1, Hears DEF Init2, Waits, Where, Message
  <2>2. CASE o # sc
    BY <1>0, <1>9, <2>2, Told, Keeps DEF Init2, Waits, Where, Message
  <2>3. QED  BY <2>1, <2>2
<1>10. ASSUME Enabled PROVE ToldOf(o)'
  BY <1>10, <1>0, Keeps DEF Enabled, Waits, Where
<1>11. ASSUME NEW sc \in Scanner, ScannerThrows(sc) PROVE ToldOf(o)'
  <2>1. CASE o = sc
    BY <1>0, <1>11, <2>1, Throws, Hears DEF ScannerThrows, Waits, Where, Message
  <2>2. CASE o # sc
    BY <1>0, <1>11, <2>2, Throws, Told, Keeps DEF ScannerThrows, Waits, Where, Message
  <2>3. QED  BY <2>1, <2>2
<1>12. ASSUME PhaseScan PROVE ToldOf(o)'
  BY <1>12, <1>0, Keeps DEF PhaseScan, Waits, Where
<1>13. ASSUME BenchmarkEnds PROVE ToldOf(o)'
  BY <1>13, <1>0, Keeps DEF BenchmarkEnds, Waits, Where
<1>14. ASSUME NEW s \in Sbuf, Schedule(s) PROVE ToldOf(o)'
  BY <1>14, <1>0, Keeps DEF Schedule, Waits, Where
<1>15. ASSUME ScanSerially PROVE ToldOf(o)'
  BY <1>15, <1>0, Keeps DEF ScanSerially, Waits, Where
<1>16. ASSUME NEW sc \in Scanner, SerialScan(sc) PROVE ToldOf(o)'
  <2>1. CASE o = sc
    BY <1>0, <1>16, <2>1, Hears DEF SerialScan, Waits, Where, Message
  <2>2. CASE o # sc
    BY <1>0, <1>16, <2>2, Told, Keeps DEF SerialScan, Waits, Where, Message
  <2>3. QED  BY <2>1, <2>2
<1>17. ASSUME SerialDone PROVE ToldOf(o)'
  BY <1>17, <1>0, Keeps DEF SerialDone, Waits, Where
<1>18. ASSUME NEW w \in Worker, NEW u \in work_queue, ProcessSbuf(w, u) PROVE ToldOf(o)'
  BY <1>18, <1>0, Keeps DEF ProcessSbuf, Waits, Where
<1>19. ASSUME NEW w \in Worker, NEW u \in work_queue, StartScan(w, u) PROVE ToldOf(o)'
  <2>1. u.scanner \in scanner_info_db /\ current_phase = PHASE_SCAN /\ u.scanner \in Scanner
    BY <1>19 DEF StartScan, Pooled, PoolDone, TypeOK
  <2>2. CASE o = u.scanner
    BY <1>0, <1>19, <2>1, <2>2, Hears DEF StartScan, Waits, Where, Message
  <2>3. CASE o # u.scanner
    BY <1>0, <1>19, <2>1, <2>3, Told, Keeps DEF StartScan, Waits, Where, Message
  <2>4. QED  BY <2>2, <2>3
<1>20. ASSUME NEW w \in Worker, EndScan(w) PROVE ToldOf(o)'
  BY <1>20, <1>0, Keeps DEF EndScan, Waits, Where
<1>21. ASSUME Join PROVE ToldOf(o)'
  BY <1>21, <1>0, Keeps DEF Join, Waits, Where
<1>22. ASSUME Joined PROVE ToldOf(o)'
  BY <1>22, <1>0, Keeps DEF Joined, Waits, Where
<1>23. ASSUME Shutdown PROVE ToldOf(o)'
  BY <1>23, <1>0, Keeps DEF Shutdown, Quiet, Waits, Where
<1>24. ASSUME NEW sc \in Scanner, ShutdownScanner(sc) PROVE ToldOf(o)'
  <2>1. CASE o = sc
    BY <1>0, <1>24, <2>1, Hears DEF ShutdownScanner, Waits, Where, Message
  <2>2. CASE o # sc
    BY <1>0, <1>24, <2>2, Told, Keeps DEF ShutdownScanner, Waits, Where, Message
  <2>3. QED  BY <2>1, <2>2
<1>25. ASSUME WriteHistograms PROVE ToldOf(o)'
  BY <1>25, <1>0, Keeps DEF WriteHistograms, StartCleanup, CleanupNeeded, Waits, Where
<1>26. ASSUME Cleanup PROVE ToldOf(o)'
  BY <1>26, <1>0, Keeps DEF Cleanup, StartCleanup, CleanupNeeded, Quiet, Waits, Where
<1>27. ASSUME NEW sc \in Scanner, CleanupScanner(sc) PROVE ToldOf(o)'
  <2>1. CASE o = sc
    BY <1>0, <1>27, <2>1, Hears DEF CleanupScanner, Waits, Where, Message
  <2>2. CASE o # sc
    BY <1>0, <1>27, <2>2, Told, Keeps DEF CleanupScanner, Waits, Where, Message
  <2>3. QED  BY <2>1, <2>2
<1>28. ASSUME Cleaned PROVE ToldOf(o)'
  BY <1>28, <1>0, Keeps DEF Cleaned, Waits, Where
<1>29. ASSUME Destroy PROVE ToldOf(o)'
  BY <1>29, <1>0, Keeps DEF Destroy, StartCleanup, CleanupNeeded, Quiet, Waits, Where
<1>30. ASSUME BenchmarkJoined PROVE ToldOf(o)'
  BY <1>30, <1>0, Keeps DEF BenchmarkJoined, Waits, Where
<1>31. CASE UNCHANGED vars
  BY <1>31, <1>0, Keeps DEF vars, Waits, Where
<1> QED
  BY <1>1, <1>2, <1>3, <1>4, <1>5, <1>6, <1>7, <1>8, <1>9, <1>10, <1>11, <1>12,
     <1>13, <1>14, <1>15, <1>16, <1>17, <1>18, <1>19, <1>20, <1>21, <1>22, <1>23,
     <1>24, <1>25, <1>26, <1>27, <1>28, <1>29, <1>30, <1>31
     DEF Next, Main, Client, Work, Done

(* The enabled scanners know INIT2 once its loop is over, and those that   *)
(* are loaded know CLEANUP.                                                *)
KnowsOf(sc) ==
    /\ current_phase \in PHASE_ENABLED .. PHASE_SHUTDOWN /\ sc \in enabled_scanners
          => PHASE_INIT2 \in Range(told[sc])
    /\ mpc = "init2" /\ sc \in enabled_scanners \ todo => PHASE_INIT2 \in Range(told[sc])
    /\ {PHASE_SCAN, PHASE_SHUTDOWN} \cap Range(told[sc]) # {}
          => PHASE_INIT2 \in Range(told[sc])
    /\ mpc = "cleanup" /\ sc \in scanner_info_db \ todo => PHASE_CLEANUP \in Range(told[sc])
    /\ current_phase = PHASE_CLEANED /\ sc \in scanner_info_db
          => PHASE_CLEANUP \in Range(told[sc])

LEMMA Learns ==
    ASSUME TypeOK, NEW sc \in Scanner, NEW p \in Message, Tell(sc, p)
    PROVE  Range(told'[sc]) = Range(told[sc]) \cup {p}
<1> DEFINE t == told[sc]
<1>1. t \in Seq(Message) /\ DOMAIN t = 1 .. Len(t) /\ Len(t) \in Nat
  BY LenProperties DEF TypeOK, Message
<1>2. CASE told'[sc] = Append(t, p)
  <2>1. /\ DOMAIN Append(t, p) = 1 .. (Len(t) + 1)
        /\ Append(t, p)[Len(t) + 1] = p
        /\ \A i \in 1 .. Len(t) : Append(t, p)[i] = t[i]
    BY <1>1, AppendProperties
  <2>2. Range(Append(t, p)) \subseteq Range(t) \cup {p}
    <3>1. SUFFICES ASSUME NEW i \in 1 .. (Len(t) + 1)
                   PROVE  Append(t, p)[i] \in Range(t) \cup {p}
      BY <2>1 DEF Range
    <3>2. CASE i = Len(t) + 1
      BY <3>2, <2>1
    <3>3. CASE i \in DOMAIN t
      BY <3>3, <1>1, <2>1 DEF Range
    <3>4. QED  BY <3>2, <3>3, <1>1
  <2>3. Range(t) \subseteq Range(Append(t, p))
    BY <1>1, <2>1 DEF Range
  <2>4. p \in Range(Append(t, p))
    BY <1>1, <2>1 DEF Range
  <2>5. QED  BY <1>2, <2>2, <2>3, <2>4
<1>3. CASE told'[sc] = t /\ t # <<>> /\ Last(t) = p
  <2>1. Len(t) \in DOMAIN t
    BY <1>1, <1>3
  <2>2. p \in Range(t)
    BY <2>1, <1>3 DEF Last, Range
  <2>3. QED  BY <1>3, <2>2
<1>4. QED  BY <1>2, <1>3, Told

LEMMA KnowsStep ==
    ASSUME ~DestroyBusy, TypeOK, Where, Pooled, NEW o \in Scanner, ToldOf(o), KnowsOf(o),
           [Next]_vars
    PROVE  KnowsOf(o)'
<1> USE PhaseNumbers DEF KnowsOf, config, set, pool, threads, counts, history
<1>0. /\ current_phase \in PHASE_INIT .. PHASE_CLEANED
      /\ todo \subseteq scanner_info_db /\ enabled_scanners \subseteq scanner_info_db
  BY DEF TypeOK
<1>1. ASSUME NEW sc \in Scanner, AddScanner(sc) PROVE KnowsOf(o)'
  <2>1. current_phase \in Message
    BY <1>0, <1>1 DEF AddScanner, Where, Message
  <2>2. CASE o = sc
    <3>1. Range(told'[o]) = Range(told[o]) \cup {current_phase}
      BY <2>1, <2>2, <1>1, Learns DEF AddScanner, Where
    <3>2. QED  BY <1>0, <2>2, <3>1, <1>1 DEF AddScanner, Where
  <2>3. CASE o # sc
    BY <1>0, <2>1, <2>3, <1>1, Told DEF AddScanner, Where
  <2>4. QED  BY <2>2, <2>3
<1>2. ASSUME LaunchWorkers PROVE KnowsOf(o)'
  BY <1>2, <1>0 DEF LaunchWorkers, Where
<1>3. ASSUME Apply PROVE KnowsOf(o)'
  BY <1>3, <1>0 DEF Apply, Where
<1>4. ASSUME ExecuteCommand PROVE KnowsOf(o)'
  BY <1>4, <1>0 DEF ExecuteCommand, Unknown, Execute, Meant, Where
<1>5. ASSUME CommandsDone PROVE KnowsOf(o)'
  BY <1>5, <1>0 DEF CommandsDone, Where
<1>6. ASSUME NEW sc \in Scanner, MakeRecorders(sc) PROVE KnowsOf(o)'
  BY <1>6, <1>0 DEF MakeRecorders, Where
<1>7. ASSUME NEW sc \in Scanner, SkipRecorders(sc) PROVE KnowsOf(o)'
  BY <1>7, <1>0 DEF SkipRecorders, Where
<1>8. ASSUME StartInit2 PROVE KnowsOf(o)'
  BY <1>8, <1>0 DEF StartInit2, Where
<1>9. ASSUME NEW sc \in Scanner, Init2(sc) PROVE KnowsOf(o)'
  <2>1. current_phase \in Message
    BY <1>0, <1>9 DEF Init2, Where, Message
  <2>2. CASE o = sc
    <3>1. Range(told'[o]) = Range(told[o]) \cup {current_phase}
      BY <2>1, <2>2, <1>9, Learns DEF Init2, Where
    <3>2. QED  BY <1>0, <2>2, <3>1, <1>9 DEF Init2, Where
  <2>3. CASE o # sc
    BY <1>0, <2>1, <2>3, <1>9, Told DEF Init2, Where
  <2>4. QED  BY <2>2, <2>3
<1>10. ASSUME Enabled PROVE KnowsOf(o)'
  BY <1>10, <1>0 DEF Enabled, Where
<1>11. ASSUME NEW sc \in Scanner, ScannerThrows(sc) PROVE KnowsOf(o)'
  <2>1. current_phase \in Message
    BY <1>0, <1>11, Throws DEF ScannerThrows, Where, Message
  <2>2. CASE o = sc
    <3>1. Range(told'[o]) = Range(told[o]) \cup {current_phase}
      BY <2>1, <2>2, <1>11, Learns DEF ScannerThrows, Where
    <3>2. QED  BY <1>0, <2>2, <3>1, <1>11, Throws DEF ScannerThrows, Where
  <2>3. CASE o # sc
    BY <1>0, <2>1, <2>3, <1>11, Throws, Told DEF ScannerThrows, Where
  <2>4. QED  BY <2>2, <2>3
<1>12. ASSUME PhaseScan PROVE KnowsOf(o)'
  BY <1>12, <1>0 DEF PhaseScan, Where
<1>13. ASSUME BenchmarkEnds PROVE KnowsOf(o)'
  BY <1>13, <1>0 DEF BenchmarkEnds, Where
<1>14. ASSUME NEW s \in Sbuf, Schedule(s) PROVE KnowsOf(o)'
  BY <1>14, <1>0 DEF Schedule, Where
<1>15. ASSUME ScanSerially PROVE KnowsOf(o)'
  BY <1>15, <1>0 DEF ScanSerially, Where
<1>16. ASSUME NEW sc \in Scanner, SerialScan(sc) PROVE KnowsOf(o)'
  <2>1. current_phase \in Message
    BY <1>0, <1>16 DEF SerialScan, Where, Message
  <2>2. CASE o = sc
    <3>1. Range(told'[o]) = Range(told[o]) \cup {current_phase}
      BY <2>1, <2>2, <1>16, Learns DEF SerialScan, Where
    <3>2. QED  BY <1>0, <2>2, <3>1, <1>16 DEF SerialScan, Where
  <2>3. CASE o # sc
    BY <1>0, <2>1, <2>3, <1>16, Told DEF SerialScan, Where
  <2>4. QED  BY <2>2, <2>3
<1>17. ASSUME SerialDone PROVE KnowsOf(o)'
  BY <1>17, <1>0 DEF SerialDone, Where
<1>18. ASSUME NEW w \in Worker, NEW u \in work_queue, ProcessSbuf(w, u) PROVE KnowsOf(o)'
  BY <1>18, <1>0 DEF ProcessSbuf, Where
<1>19. ASSUME NEW w \in Worker, NEW u \in work_queue, StartScan(w, u) PROVE KnowsOf(o)'
  <2>1. /\ current_phase = PHASE_SCAN /\ u.scanner \in Scanner
        /\ u.scanner \in enabled_scanners /\ PHASE_SCAN \in Message
    BY <1>0, <1>19 DEF StartScan, Pooled, PoolDone, TypeOK, Message
  <2>2. CASE o = u.scanner
    <3>1. Range(told'[o]) = Range(told[o]) \cup {PHASE_SCAN}
      BY <2>1, <2>2, <1>19, Learns DEF StartScan
    <3>2. QED  BY <1>0, <2>1, <2>2, <3>1, <1>19 DEF StartScan, Where
  <2>3. CASE o # u.scanner
    BY <1>0, <2>1, <2>3, <1>19, Told DEF StartScan, Where
  <2>4. QED  BY <2>2, <2>3
<1>20. ASSUME NEW w \in Worker, EndScan(w) PROVE KnowsOf(o)'
  BY <1>20, <1>0 DEF EndScan, Where
<1>21. ASSUME Join PROVE KnowsOf(o)'
  BY <1>21, <1>0 DEF Join, Where
<1>22. ASSUME Joined PROVE KnowsOf(o)'
  BY <1>22, <1>0 DEF Joined, Where
<1>23. ASSUME Shutdown PROVE KnowsOf(o)'
  BY <1>23, <1>0 DEF Shutdown, Quiet, Where
<1>24. ASSUME NEW sc \in Scanner, ShutdownScanner(sc) PROVE KnowsOf(o)'
  <2>1. current_phase \in Message
    BY <1>0, <1>24 DEF ShutdownScanner, Where, Message
  <2>2. CASE o = sc
    <3>1. Range(told'[o]) = Range(told[o]) \cup {current_phase}
      BY <2>1, <2>2, <1>24, Learns DEF ShutdownScanner, Where
    <3>2. QED  BY <1>0, <2>2, <3>1, <1>24 DEF ShutdownScanner, Where
  <2>3. CASE o # sc
    BY <1>0, <2>1, <2>3, <1>24, Told DEF ShutdownScanner, Where
  <2>4. QED  BY <2>2, <2>3
<1>25. ASSUME WriteHistograms PROVE KnowsOf(o)'
  BY <1>25, <1>0 DEF WriteHistograms, StartCleanup, CleanupNeeded, Where
<1>26. ASSUME Cleanup PROVE KnowsOf(o)'
  BY <1>26, <1>0 DEF Cleanup, StartCleanup, CleanupNeeded, Quiet, Where
<1>27. ASSUME NEW sc \in Scanner, CleanupScanner(sc) PROVE KnowsOf(o)'
  <2>1. current_phase \in Message
    BY <1>0, <1>27 DEF CleanupScanner, Where, Message
  <2>2. CASE o = sc
    <3>1. Range(told'[o]) = Range(told[o]) \cup {current_phase}
      BY <2>1, <2>2, <1>27, Learns DEF CleanupScanner, Where
    <3>2. QED  BY <1>0, <2>2, <3>1, <1>27 DEF CleanupScanner, Where
  <2>3. CASE o # sc
    BY <1>0, <2>1, <2>3, <1>27, Told DEF CleanupScanner, Where
  <2>4. QED  BY <2>2, <2>3
<1>28. ASSUME Cleaned PROVE KnowsOf(o)'
  BY <1>28, <1>0 DEF Cleaned, Where
<1>29. ASSUME Destroy PROVE KnowsOf(o)'
  BY <1>29, <1>0 DEF Destroy, StartCleanup, CleanupNeeded, Quiet, Where
<1>30. ASSUME BenchmarkJoined PROVE KnowsOf(o)'
  BY <1>30, <1>0 DEF BenchmarkJoined, Where
<1>31. CASE UNCHANGED vars
  BY <1>31 DEF vars, Where
<1> QED
  BY <1>1, <1>2, <1>3, <1>4, <1>5, <1>6, <1>7, <1>8, <1>9, <1>10, <1>11, <1>12,
     <1>13, <1>14, <1>15, <1>16, <1>17, <1>18, <1>19, <1>20, <1>21, <1>22, <1>23,
     <1>24, <1>25, <1>26, <1>27, <1>28, <1>29, <1>30, <1>31
     DEF Next, Main, Client, Work, Done

(* Each failure in CLEANUP has the scanners told at most once more.        *)
TimesOf(sc) ==
    /\ Times(sc, PHASE_CLEANUP) <= 1 + failures[PHASE_CLEANUP]
    /\ current_phase = PHASE_CLEANUP /\ (mpc # "cleanup" \/ sc \in todo)
          => Times(sc, PHASE_CLEANUP) <= failures[PHASE_CLEANUP]

LEMMA Occurrences ==
    ASSUME NEW t \in Seq(Message), NEW p
    PROVE  /\ IsFiniteSet({i \in DOMAIN t : t[i] = p})
           /\ Cardinality({i \in DOMAIN t : t[i] = p}) \in Nat
<1> DEFINE In == {i \in DOMAIN t : t[i] = p}
<1>1. Len(t) \in Int /\ DOMAIN t = 1 .. Len(t)
  BY LenProperties
<1>2. IsFiniteSet(1 .. Len(t))
  <2>1. Len(t) \in Int
    BY <1>1
  <2>2. QED  BY <2>1, FS_Interval
<1>3. In \subseteq 1 .. Len(t)
  BY <1>1
<1>4. IsFiniteSet(In)
  BY <1>2, <1>3, FS_Subset
<1>5. QED  BY <1>4, FS_CardinalityType

LEMMA Occurs ==
    ASSUME TypeOK, NEW sc \in Scanner, NEW p \in Message, Tell(sc, p)
    PROVE  /\ Times(sc, PHASE_CLEANUP) \in Nat
           /\ Times(sc, PHASE_CLEANUP)' =
                 Times(sc, PHASE_CLEANUP) + IF p = PHASE_CLEANUP THEN 1 ELSE 0
<1> USE PhaseNumbers
<1> DEFINE t == told[sc]
           In(s) == {i \in DOMAIN s : s[i] = PHASE_CLEANUP}
<1>1. t \in Seq(Message) /\ DOMAIN t = 1 .. Len(t) /\ Len(t) \in Nat
  BY LenProperties DEF TypeOK, Message
<1>2. IsFiniteSet(In(t)) /\ Cardinality(In(t)) \in Nat
  BY <1>1, Occurrences
<1>3. Times(sc, PHASE_CLEANUP) = Cardinality(In(t))
  BY DEF Times
<1>4. Times(sc, PHASE_CLEANUP)' = Cardinality(In(told'[sc]))
  BY DEF Times
<1>5. CASE told'[sc] = t /\ p # PHASE_CLEANUP
  BY <1>2, <1>3, <1>4, <1>5
<1>6. CASE told'[sc] = Append(t, p)
  <2>1. /\ DOMAIN Append(t, p) = 1 .. (Len(t) + 1)
        /\ Append(t, p)[Len(t) + 1] = p
        /\ \A i \in 1 .. Len(t) : Append(t, p)[i] = t[i]
    BY <1>1, AppendProperties
  <2>2. CASE p # PHASE_CLEANUP
    <3>1. In(Append(t, p)) = In(t)
      BY <1>1, <2>1, <2>2
    <3>2. Times(sc, PHASE_CLEANUP)' = Times(sc, PHASE_CLEANUP)
      BY <3>1, <1>3, <1>4, <1>6
    <3>3. QED  BY <3>2, <2>2, <1>2, <1>3
  <2>3. CASE p = PHASE_CLEANUP
    <3>1. In(Append(t, p)) = In(t) \cup {Len(t) + 1}
      BY <1>1, <2>1, <2>3
    <3>2. Len(t) + 1 \notin In(t)
      BY <1>1
    <3>3. Cardinality(In(Append(t, p))) = Cardinality(In(t)) + 1
      BY <3>1, <3>2, <1>2, FS_AddElement
    <3>4. QED  BY <3>3, <2>3, <1>2, <1>3, <1>4, <1>6
  <2>4. QED  BY <2>2, <2>3
<1>7. QED  BY <1>5, <1>6, Told

LEMMA NeverTold ==
    ASSUME TypeOK, NEW o \in Scanner, ToldOf(o), current_phase < PHASE_CLEANUP
    PROVE  Times(o, PHASE_CLEANUP) = 0
<1>1. current_phase \in Nat
  BY PhaseNumbers DEF TypeOK
<1>2. \A i \in DOMAIN told[o] : told[o][i] \in Nat
  BY PhaseNumbers DEF TypeOK
<1>3. {i \in DOMAIN told[o] : told[o][i] = PHASE_CLEANUP} = {}
  BY <1>1, <1>2, PhaseNumbers DEF ToldOf
<1>4. QED  BY <1>3, FS_EmptySet DEF Times

LEMMA TimesStep ==
    ASSUME ~DestroyBusy, TypeOK, Where, Pooled, NEW o \in Scanner, ToldOf(o), TimesOf(o),
           [Next]_vars
    PROVE  TimesOf(o)'
<1> USE PhaseNumbers DEF TimesOf, config, set, pool, threads, counts, history
<1>0. /\ current_phase \in PHASE_INIT .. PHASE_CLEANED
      /\ todo \subseteq scanner_info_db
      /\ failures[PHASE_CLEANUP] \in Nat
      /\ Times(o, PHASE_CLEANUP) \in Nat
  <2>1. Times(o, PHASE_CLEANUP) \in Nat
    <3>1. told[o] \in Seq(Message)
      BY DEF TypeOK, Message
    <3>2. QED  BY <3>1, Occurrences DEF Times
  <2>2. QED  BY <2>1, ScannerAssumption DEF TypeOK
<1>a. told'[o] = told[o] => Times(o, PHASE_CLEANUP)' = Times(o, PHASE_CLEANUP)
  BY DEF Times
<1>1. ASSUME NEW sc \in Scanner, AddScanner(sc) PROVE TimesOf(o)'
  <2>1. current_phase \in Message
    BY <1>0, <1>1 DEF AddScanner, Where, Message
  <2>2. CASE o = sc
    <3>1. Times(o, PHASE_CLEANUP)' =
             Times(o, PHASE_CLEANUP) + IF current_phase = PHASE_CLEANUP THEN 1 ELSE 0
      BY <2>1, <2>2, <1>1, Occurs DEF AddScanner, Where
    <3>2. QED  BY <1>0, <2>2, <3>1, <1>1 DEF AddScanner, Where
  <2>3. CASE o # sc
    BY <1>0, <1>a, <2>1, <2>3, <1>1, Told DEF AddScanner, Where
  <2>4. QED  BY <2>2, <2>3
<1>2. ASSUME LaunchWorkers PROVE TimesOf(o)'
  BY <1>2, <1>0, <1>a DEF LaunchWorkers, Where
<1>3. ASSUME Apply PROVE TimesOf(o)'
  BY <1>3, <1>0, <1>a DEF Apply, Where
<1>4. ASSUME ExecuteCommand PROVE TimesOf(o)'
  BY <1>4, <1>0, <1>a DEF ExecuteCommand, Unknown, Execute, Meant, Where
<1>5. ASSUME CommandsDone PROVE TimesOf(o)'
  BY <1>5, <1>0, <1>a DEF CommandsDone, Where
<1>6. ASSUME NEW sc \in Scanner, MakeRecorders(sc) PROVE TimesOf(o)'
  BY <1>6, <1>0, <1>a DEF MakeRecorders, Where
<1>7. ASSUME NEW sc \in Scanner, SkipRecorders(sc) PROVE TimesOf(o)'
  BY <1>7, <1>0, <1>a DEF SkipRecorders, Where
<1>8. ASSUME StartInit2 PROVE TimesOf(o)'
  BY <1>8, <1>0, <1>a DEF StartInit2, Where
<1>9. ASSUME NEW sc \in Scanner, Init2(sc) PROVE TimesOf(o)'
  <2>1. current_phase \in Message
    BY <1>0, <1>9 DEF Init2, Where, Message
  <2>2. CASE o = sc
    <3>1. Times(o, PHASE_CLEANUP)' =
             Times(o, PHASE_CLEANUP) + IF current_phase = PHASE_CLEANUP THEN 1 ELSE 0
      BY <2>1, <2>2, <1>9, Occurs DEF Init2, Where
    <3>2. QED  BY <1>0, <2>2, <3>1, <1>9 DEF Init2, Where
  <2>3. CASE o # sc
    BY <1>0, <1>a, <2>1, <2>3, <1>9, Told DEF Init2, Where
  <2>4. QED  BY <2>2, <2>3
<1>10. ASSUME Enabled PROVE TimesOf(o)'
  BY <1>10, <1>0, <1>a DEF Enabled, Where
<1>11. ASSUME NEW sc \in Scanner, ScannerThrows(sc) PROVE TimesOf(o)'
  <2>1. current_phase \in Message
    BY <1>0, <1>11, Throws DEF ScannerThrows, Where, Message
  <2>2. CASE o = sc
    <3>1. Times(o, PHASE_CLEANUP)' =
             Times(o, PHASE_CLEANUP) + IF current_phase = PHASE_CLEANUP THEN 1 ELSE 0
      BY <2>1, <2>2, <1>11, Occurs DEF ScannerThrows, Where
    <3>2. QED  BY <1>0, <2>2, <3>1, <1>11, Throws DEF ScannerThrows, Where
  <2>3. CASE o # sc
    BY <1>0, <1>a, <2>1, <2>3, <1>11, Throws, Told DEF ScannerThrows, Where
  <2>4. QED  BY <2>2, <2>3
<1>12. ASSUME PhaseScan PROVE TimesOf(o)'
  BY <1>12, <1>0, <1>a DEF PhaseScan, Where
<1>13. ASSUME BenchmarkEnds PROVE TimesOf(o)'
  BY <1>13, <1>0, <1>a DEF BenchmarkEnds, Where
<1>14. ASSUME NEW s \in Sbuf, Schedule(s) PROVE TimesOf(o)'
  BY <1>14, <1>0, <1>a DEF Schedule, Where
<1>15. ASSUME ScanSerially PROVE TimesOf(o)'
  BY <1>15, <1>0, <1>a DEF ScanSerially, Where
<1>16. ASSUME NEW sc \in Scanner, SerialScan(sc) PROVE TimesOf(o)'
  <2>1. current_phase \in Message
    BY <1>0, <1>16 DEF SerialScan, Where, Message
  <2>2. CASE o = sc
    <3>1. Times(o, PHASE_CLEANUP)' =
             Times(o, PHASE_CLEANUP) + IF current_phase = PHASE_CLEANUP THEN 1 ELSE 0
      BY <2>1, <2>2, <1>16, Occurs DEF SerialScan, Where
    <3>2. QED  BY <1>0, <2>2, <3>1, <1>16 DEF SerialScan, Where
  <2>3. CASE o # sc
    BY <1>0, <1>a, <2>1, <2>3, <1>16, Told DEF SerialScan, Where
  <2>4. QED  BY <2>2, <2>3
<1>17. ASSUME SerialDone PROVE TimesOf(o)'
  BY <1>17, <1>0, <1>a DEF SerialDone, Where
<1>18. ASSUME NEW w \in Worker, NEW u \in work_queue, ProcessSbuf(w, u) PROVE TimesOf(o)'
  BY <1>18, <1>0, <1>a DEF ProcessSbuf, Where, Pooled, PoolDone
<1>19. ASSUME NEW w \in Worker, NEW u \in work_queue, StartScan(w, u) PROVE TimesOf(o)'
  <2>1. current_phase = PHASE_SCAN /\ u.scanner \in Scanner /\ PHASE_SCAN \in Message
    BY <1>0, <1>19 DEF StartScan, Pooled, PoolDone, TypeOK, Message
  <2>2. CASE o = u.scanner
    <3>1. Times(o, PHASE_CLEANUP)' = Times(o, PHASE_CLEANUP)
      BY <1>0, <2>1, <2>2, <1>19, Occurs DEF StartScan
    <3>2. QED  BY <1>0, <2>1, <2>2, <3>1, <1>19 DEF StartScan, Where
  <2>3. CASE o # u.scanner
    BY <1>0, <1>a, <2>1, <2>3, <1>19, Told DEF StartScan, Where
  <2>4. QED  BY <2>2, <2>3
<1>20. ASSUME NEW w \in Worker, EndScan(w) PROVE TimesOf(o)'
  BY <1>20, <1>0, <1>a DEF EndScan, Where
<1>21. ASSUME Join PROVE TimesOf(o)'
  BY <1>21, <1>0, <1>a DEF Join, Where
<1>22. ASSUME Joined PROVE TimesOf(o)'
  BY <1>22, <1>0, <1>a DEF Joined, Where
<1>23. ASSUME Shutdown PROVE TimesOf(o)'
  BY <1>23, <1>0, <1>a DEF Shutdown, Quiet, Where
<1>24. ASSUME NEW sc \in Scanner, ShutdownScanner(sc) PROVE TimesOf(o)'
  <2>1. current_phase \in Message
    BY <1>0, <1>24 DEF ShutdownScanner, Where, Message
  <2>2. CASE o = sc
    <3>1. Times(o, PHASE_CLEANUP)' =
             Times(o, PHASE_CLEANUP) + IF current_phase = PHASE_CLEANUP THEN 1 ELSE 0
      BY <2>1, <2>2, <1>24, Occurs DEF ShutdownScanner, Where
    <3>2. QED  BY <1>0, <2>2, <3>1, <1>24 DEF ShutdownScanner, Where
  <2>3. CASE o # sc
    BY <1>0, <1>a, <2>1, <2>3, <1>24, Told DEF ShutdownScanner, Where
  <2>4. QED  BY <2>2, <2>3
<1>25. ASSUME WriteHistograms PROVE TimesOf(o)'
  BY <1>25, <1>0, <1>a, NeverTold DEF WriteHistograms, StartCleanup, CleanupNeeded, Where
<1>26. ASSUME Cleanup PROVE TimesOf(o)'
  BY <1>26, <1>0, <1>a, NeverTold DEF Cleanup, StartCleanup, CleanupNeeded, Quiet, Where
<1>27. ASSUME NEW sc \in Scanner, CleanupScanner(sc) PROVE TimesOf(o)'
  <2>1. current_phase \in Message
    BY <1>0, <1>27 DEF CleanupScanner, Where, Message
  <2>2. CASE o = sc
    <3>1. Times(o, PHASE_CLEANUP)' =
             Times(o, PHASE_CLEANUP) + IF current_phase = PHASE_CLEANUP THEN 1 ELSE 0
      BY <2>1, <2>2, <1>27, Occurs DEF CleanupScanner, Where
    <3>2. QED  BY <1>0, <2>2, <3>1, <1>27 DEF CleanupScanner, Where
  <2>3. CASE o # sc
    BY <1>0, <1>a, <2>1, <2>3, <1>27, Told DEF CleanupScanner, Where
  <2>4. QED  BY <2>2, <2>3
<1>28. ASSUME Cleaned PROVE TimesOf(o)'
  BY <1>28, <1>0, <1>a DEF Cleaned, Where
<1>29. ASSUME Destroy PROVE TimesOf(o)'
  BY <1>29, <1>0, <1>a, NeverTold DEF Destroy, StartCleanup, CleanupNeeded, Quiet, Where
<1>30. ASSUME BenchmarkJoined PROVE TimesOf(o)'
  BY <1>30, <1>0, <1>a DEF BenchmarkJoined, Where
<1>31. CASE UNCHANGED vars
  BY <1>31, <1>0, <1>a DEF vars, Where
<1> QED
  BY <1>1, <1>2, <1>3, <1>4, <1>5, <1>6, <1>7, <1>8, <1>9, <1>10, <1>11, <1>12,
     <1>13, <1>14, <1>15, <1>16, <1>17, <1>18, <1>19, <1>20, <1>21, <1>22, <1>23,
     <1>24, <1>25, <1>26, <1>27, <1>28, <1>29, <1>30, <1>31
     DEF Next, Main, Client, Work, Done

-----------------------------------------------------------------------------
(* A shutdown that did not fail has reported everything.                   *)
Reported ==
    /\ current_phase = PHASE_SHUTDOWN /\ mpc # "shutdown" => failures[PHASE_SHUTDOWN] > 0
    /\ current_phase >= PHASE_CLEANUP /\ failures[PHASE_SHUTDOWN] = 0
       /\ (\E sc \in Scanner : PHASE_SHUTDOWN \in Range(told[sc]))
          => unreported = {}

LEMMA NotYet ==
    ASSUME TypeOK, NEW o \in Scanner, ToldOf(o), NEW p \in Nat, current_phase < p
    PROVE  p \notin Range(told[o])
<1>1. current_phase \in Nat
  BY PhaseNumbers DEF TypeOK
<1>2. \A i \in DOMAIN told[o] : told[o][i] \in Nat
  BY PhaseNumbers DEF TypeOK
<1>3. QED  BY <1>1, <1>2 DEF ToldOf, Range

LEMMA ReportedStep ==
    ASSUME ~DestroyBusy, TypeOK, Where, Pooled, \A sc \in Scanner : ToldOf(sc), Reported,
           [Next]_vars
    PROVE  Reported'
<1> USE PhaseNumbers DEF Reported, config, set, pool, threads, counts, history
<1>0. /\ current_phase \in PHASE_INIT .. PHASE_CLEANED
      /\ todo \subseteq Scanner
      /\ failures[PHASE_SHUTDOWN] \in Nat
  BY ScannerAssumption DEF TypeOK
<1>a. current_phase < PHASE_SHUTDOWN =>
         \A sc \in Scanner : PHASE_SHUTDOWN \notin Range(told[sc])
  BY <1>0, NotYet
<1>1. ASSUME NEW sc \in Scanner, AddScanner(sc) PROVE Reported'
  BY <1>1, <1>0, <1>a DEF AddScanner, Where, Pooled, PoolDone
<1>2. ASSUME LaunchWorkers PROVE Reported'
  BY <1>2, <1>0, <1>a DEF LaunchWorkers, Where, Pooled, PoolDone
<1>3. ASSUME Apply PROVE Reported'
  BY <1>3, <1>0, <1>a DEF Apply, Where, Pooled, PoolDone
<1>4. ASSUME ExecuteCommand PROVE Reported'
  BY <1>4, <1>0, <1>a DEF ExecuteCommand, Unknown, Execute, Meant, Where, Pooled, PoolDone
<1>5. ASSUME CommandsDone PROVE Reported'
  BY <1>5, <1>0, <1>a DEF CommandsDone, Where, Pooled, PoolDone
<1>6. ASSUME NEW sc \in Scanner, MakeRecorders(sc) PROVE Reported'
  BY <1>6, <1>0, <1>a DEF MakeRecorders, Where, Pooled, PoolDone
<1>7. ASSUME NEW sc \in Scanner, SkipRecorders(sc) PROVE Reported'
  BY <1>7, <1>0, <1>a DEF SkipRecorders, Where, Pooled, PoolDone
<1>8. ASSUME StartInit2 PROVE Reported'
  BY <1>8, <1>0, <1>a DEF StartInit2, Where, Pooled, PoolDone
<1>9. ASSUME NEW sc \in Scanner, Init2(sc) PROVE Reported'
  BY <1>9, <1>0, <1>a DEF Init2, Where, Pooled, PoolDone
<1>10. ASSUME Enabled PROVE Reported'
  BY <1>10, <1>0, <1>a DEF Enabled, Where, Pooled, PoolDone
<1>11. ASSUME NEW sc \in Scanner, ScannerThrows(sc) PROVE Reported'
  <2>1. current_phase \in {PHASE_INIT2, PHASE_SHUTDOWN, PHASE_CLEANUP}
    BY <1>11, Throws
  <2>2. CASE current_phase = PHASE_CLEANUP
    <3>1. Range(told'[sc]) = Range(told[sc]) \cup {PHASE_CLEANUP} /\ PHASE_CLEANUP \in Message
      BY <1>11, <2>2, Learns DEF ScannerThrows, Message
    <3>5. Tell(sc, PHASE_CLEANUP)
      BY <1>11, <2>2 DEF ScannerThrows
    <3>6. \A o \in Scanner : o # sc => told'[o] = told[o]
      BY <1>11, <3>1, <3>5, Told
    <3>2. \A o \in Scanner :
             PHASE_SHUTDOWN \in Range(told'[o]) => PHASE_SHUTDOWN \in Range(told[o])
      BY <3>1, <3>6
    <3>3. failures'[PHASE_SHUTDOWN] = failures[PHASE_SHUTDOWN]
      BY <1>11, <2>2, Throws
    <3>4. QED  BY <1>0, <2>2, <3>2, <3>3, <1>11 DEF ScannerThrows
  <2>3. CASE current_phase = PHASE_SHUTDOWN
    BY <1>0, <2>3, <1>11, Throws DEF ScannerThrows
  <2>4. CASE current_phase = PHASE_INIT2
    BY <1>0, <2>4, <1>11 DEF ScannerThrows
  <2>5. QED  BY <2>1, <2>2, <2>3, <2>4
<1>12. ASSUME PhaseScan PROVE Reported'
  BY <1>12, <1>0, <1>a DEF PhaseScan, Where, Pooled, PoolDone
<1>13. ASSUME BenchmarkEnds PROVE Reported'
  BY <1>13, <1>0, <1>a DEF BenchmarkEnds, Where, Pooled, PoolDone
<1>14. ASSUME NEW s \in Sbuf, Schedule(s) PROVE Reported'
  BY <1>14, <1>0, <1>a DEF Schedule, Where, Pooled, PoolDone
<1>15. ASSUME ScanSerially PROVE Reported'
  BY <1>15, <1>0, <1>a DEF ScanSerially, Where, Pooled, PoolDone
<1>16. ASSUME NEW sc \in Scanner, SerialScan(sc) PROVE Reported'
  BY <1>16, <1>0, <1>a DEF SerialScan, Where, Pooled, PoolDone
<1>17. ASSUME SerialDone PROVE Reported'
  BY <1>17, <1>0, <1>a DEF SerialDone, Where, Pooled, PoolDone
<1>18. ASSUME NEW w \in Worker, NEW u \in work_queue, ProcessSbuf(w, u) PROVE Reported'
  BY <1>18, <1>0, <1>a DEF ProcessSbuf, Where, Pooled, PoolDone
<1>19. ASSUME NEW w \in Worker, NEW u \in work_queue, StartScan(w, u) PROVE Reported'
  BY <1>19, <1>0, <1>a DEF StartScan, Where, Pooled, PoolDone
<1>20. ASSUME NEW w \in Worker, EndScan(w) PROVE Reported'
  BY <1>20, <1>0, <1>a DEF EndScan, Where, Pooled, PoolDone
<1>21. ASSUME Join PROVE Reported'
  BY <1>21, <1>0, <1>a DEF Join, Where, Pooled, PoolDone
<1>22. ASSUME Joined PROVE Reported'
  BY <1>22, <1>0, <1>a DEF Joined, Where, Pooled, PoolDone
<1>23. ASSUME Shutdown PROVE Reported'
  BY <1>23, <1>0, <1>a DEF Shutdown, Quiet, Where, Pooled, PoolDone
<1>24. ASSUME NEW sc \in Scanner, ShutdownScanner(sc) PROVE Reported'
  BY <1>24, <1>0, <1>a DEF ShutdownScanner, Where, Pooled, PoolDone
<1>25. ASSUME WriteHistograms PROVE Reported'
  BY <1>25, <1>0, <1>a DEF WriteHistograms, Report, StartCleanup, CleanupNeeded, Where, Pooled, PoolDone
<1>26. ASSUME Cleanup PROVE Reported'
  BY <1>26, <1>0, <1>a DEF Cleanup, StartCleanup, CleanupNeeded, Quiet, Where, Pooled, PoolDone
<1>27. ASSUME NEW sc \in Scanner, CleanupScanner(sc) PROVE Reported'
  <2>1. Range(told'[sc]) = Range(told[sc]) \cup {PHASE_CLEANUP} /\ PHASE_CLEANUP \in Message
    BY <1>27, Learns DEF CleanupScanner, Message
  <2>2. \A o \in Scanner :
           PHASE_SHUTDOWN \in Range(told'[o]) => PHASE_SHUTDOWN \in Range(told[o])
    BY <1>27, <2>1, Told DEF CleanupScanner
  <2>3. QED  BY <1>0, <2>2, <1>27 DEF CleanupScanner, Where
<1>28. ASSUME Cleaned PROVE Reported'
  BY <1>28, <1>0, <1>a DEF Cleaned, Where, Pooled, PoolDone
<1>29. ASSUME Destroy PROVE Reported'
  BY <1>29, <1>0, <1>a DEF Destroy, StartCleanup, CleanupNeeded, Quiet, Where, Pooled, PoolDone
<1>30. ASSUME BenchmarkJoined PROVE Reported'
  BY <1>30, <1>0, <1>a DEF BenchmarkJoined, Where, Pooled, PoolDone
<1>31. CASE UNCHANGED vars
  BY <1>31, <1>0, <1>a DEF vars, Where, Pooled, PoolDone
<1> QED
  BY <1>1, <1>2, <1>3, <1>4, <1>5, <1>6, <1>7, <1>8, <1>9, <1>10, <1>11, <1>12,
     <1>13, <1>14, <1>15, <1>16, <1>17, <1>18, <1>19, <1>20, <1>21, <1>22, <1>23,
     <1>24, <1>25, <1>26, <1>27, <1>28, <1>29, <1>30, <1>31
     DEF Next, Main, Client, Work, Done

-----------------------------------------------------------------------------
(* The commands executed so far have their effect on the scanners they     *)
(* concern, and the others are enabled by default.                         *)
Settled == mpc \in {"commands", "recorders"} \/ current_phase \in PHASE_INIT2 .. PHASE_SHUTDOWN
Executed(sc) == Concerning(sc) \cap (1 .. executed)

ObeyedBy(sc) ==
    sc \in scanner_info_db =>
        /\ current_phase <= PHASE_SHUTDOWN /\ Concerning(sc) = {} =>
              (sc \in enabled_scanners <=> sc \in default_enabled)
        /\ Settled /\ Executed(sc) # {} =>
              (sc \in enabled_scanners <=> commands[Max(Executed(sc))].command = "enable")
        /\ Settled /\ mpc # "commands" => executed = Len(commands)

LEMMA MaxNext ==
    ASSUME NEW n \in Nat, NEW S \in SUBSET (1 .. n)
    PROVE  Max(S \cup {n + 1}) = n + 1
<1> DEFINE T == S \cup {n + 1}
<1>1. n + 1 \in T /\ \A y \in T : y \in Int /\ n + 1 >= y
  OBVIOUS
<1>2. \E x \in T : \A y \in T : x >= y
  BY <1>1
<1>3. Max(T) \in T /\ \A y \in T : Max(T) >= y
  BY <1>2 DEF Max
<1>4. Max(T) \in Int /\ Max(T) >= n + 1 /\ n + 1 >= Max(T)
  BY <1>1, <1>3
<1>5. QED  BY <1>4

(* One command has its effect on the scanners it concerns and no other.    *)
LEMMA Effect ==
    ASSUME TypeOK, NEW o \in scanner_info_db, ExecuteCommand, ~Unknown(commands[executed + 1])
    PROVE  /\ executed + 1 \in Concerning(o) =>
                 (o \in enabled_scanners' <=> commands[executed + 1].command = "enable")
           /\ executed + 1 \notin Concerning(o) =>
                 (o \in enabled_scanners' <=> o \in enabled_scanners)
<1> DEFINE cmd == commands[executed + 1]
<1>1. /\ executed + 1 \in DOMAIN commands /\ cmd \in Command
      /\ o \in Scanner /\ o # ALL_SCANNERS
  <2>1. commands \in Seq(Command) /\ executed \in Nat /\ executed < Len(commands)
    BY ScannerAssumption DEF TypeOK, ExecuteCommand
  <2>2. executed + 1 \in 1 .. Len(commands)
    BY <2>1, LenProperties
  <2>3. QED  BY <2>1, <2>2, LenProperties, ScannerAssumption DEF TypeOK
<1>2. enabled_scanners' = Execute(cmd, enabled_scanners)
  BY DEF ExecuteCommand
<1>3. executed + 1 \in Concerning(o) <=>
         cmd.scannerName = o \/ (cmd.scannerName = ALL_SCANNERS /\ o \notin no_all)
  BY <1>1 DEF Concerning
<1>4. o \in Meant(cmd.scannerName) <=> executed + 1 \in Concerning(o)
  BY <1>1, <1>3 DEF Meant
<1>5. QED  BY <1>2, <1>4 DEF Execute

LEMMA ObeyedStep ==
    ASSUME ~DestroyBusy, TypeOK, TypeOK', Where, NEW o \in Scanner, ObeyedBy(o), [Next]_vars
    PROVE  ObeyedBy(o)'
<1> USE PhaseNumbers DEF ObeyedBy, Settled, config, set, pool, threads, counts, history
<1>0. /\ current_phase \in PHASE_INIT .. PHASE_CLEANED /\ executed \in Nat
      /\ enabled_scanners \subseteq scanner_info_db
  BY DEF TypeOK
<1>a. commands' = commands => Concerning(o)' = Concerning(o)
  BY DEF Concerning
<1>b. commands' = commands /\ executed' = executed => Executed(o)' = Executed(o)
  BY DEF Concerning, Executed
<1>1. ASSUME NEW sc \in Scanner, AddScanner(sc) PROVE ObeyedBy(o)'
  BY <1>1, <1>0, <1>a, <1>b DEF AddScanner, Where
<1>2. ASSUME LaunchWorkers PROVE ObeyedBy(o)'
  BY <1>2, <1>0, <1>a, <1>b DEF LaunchWorkers, Where
<1>3. ASSUME Apply PROVE ObeyedBy(o)'
  <2>1. Executed(o)' = {}
    BY <1>3 DEF Apply, Executed
  <2>2. QED  BY <1>0, <1>a, <2>1, <1>3 DEF Apply, Where
<1>4. ASSUME ExecuteCommand PROVE ObeyedBy(o)'
  <2>0. mpc = "commands" /\ current_phase = PHASE_INIT /\ current_phase' = PHASE_INIT
        /\ UNCHANGED <<commands, scanner_info_db>>
    BY <1>4 DEF ExecuteCommand, Where
  <2>1. CASE Unknown(commands[executed + 1])
    BY <1>0, <1>a, <2>0, <2>1, <1>4 DEF ExecuteCommand
  <2>2. CASE ~Unknown(commands[executed + 1]) /\ o \in scanner_info_db
    <3>0. executed' = executed + 1 /\ mpc' = "commands"
      BY <2>0, <2>2, <1>4 DEF ExecuteCommand
    <3>1. CASE executed + 1 \in Concerning(o)
      <4>1. Executed(o)' = Executed(o) \cup {executed + 1}
        BY <1>0, <1>a, <2>0, <3>0, <3>1 DEF Executed
      <4>2. Max(Executed(o)') = executed + 1
        BY <1>0, <4>1, MaxNext DEF Executed
      <4>3. o \in enabled_scanners' <=> commands[executed + 1].command = "enable"
        BY <2>2, <3>1, <1>4, Effect
      <4>4. QED  BY <1>a, <2>0, <3>0, <3>1, <4>2, <4>3
    <3>2. CASE executed + 1 \notin Concerning(o)
      <4>1. Executed(o)' = Executed(o)
        BY <1>0, <1>a, <2>0, <3>0, <3>2 DEF Executed
      <4>2. o \in enabled_scanners' <=> o \in enabled_scanners
        BY <2>2, <3>2, <1>4, Effect
      <4>3. QED  BY <1>a, <2>0, <2>2, <3>0, <4>1, <4>2
    <3>3. QED  BY <3>1, <3>2
  <2>3. CASE o \notin scanner_info_db
    BY <2>0, <2>3
  <2>4. QED  BY <2>1, <2>2, <2>3
<1>5. ASSUME CommandsDone PROVE ObeyedBy(o)'
  BY <1>5, <1>0, <1>a, <1>b DEF CommandsDone, Where
<1>6. ASSUME NEW sc \in Scanner, MakeRecorders(sc) PROVE ObeyedBy(o)'
  BY <1>6, <1>0, <1>a, <1>b DEF MakeRecorders, Where
<1>7. ASSUME NEW sc \in Scanner, SkipRecorders(sc) PROVE ObeyedBy(o)'
  BY <1>7, <1>0, <1>a, <1>b DEF SkipRecorders, Where
<1>8. ASSUME StartInit2 PROVE ObeyedBy(o)'
  BY <1>8, <1>0, <1>a, <1>b DEF StartInit2, Where
<1>9. ASSUME NEW sc \in Scanner, Init2(sc) PROVE ObeyedBy(o)'
  BY <1>9, <1>0, <1>a, <1>b DEF Init2, Where
<1>10. ASSUME Enabled PROVE ObeyedBy(o)'
  BY <1>10, <1>0, <1>a, <1>b DEF Enabled, Where
<1>11. ASSUME NEW sc \in Scanner, ScannerThrows(sc) PROVE ObeyedBy(o)'
  BY <1>11, <1>0, <1>a, <1>b DEF ScannerThrows, Where
<1>12. ASSUME PhaseScan PROVE ObeyedBy(o)'
  BY <1>12, <1>0, <1>a, <1>b DEF PhaseScan, Where
<1>13. ASSUME BenchmarkEnds PROVE ObeyedBy(o)'
  BY <1>13, <1>0, <1>a, <1>b DEF BenchmarkEnds, Where
<1>14. ASSUME NEW s \in Sbuf, Schedule(s) PROVE ObeyedBy(o)'
  BY <1>14, <1>0, <1>a, <1>b DEF Schedule, Where
<1>15. ASSUME ScanSerially PROVE ObeyedBy(o)'
  BY <1>15, <1>0, <1>a, <1>b DEF ScanSerially, Where
<1>16. ASSUME NEW sc \in Scanner, SerialScan(sc) PROVE ObeyedBy(o)'
  BY <1>16, <1>0, <1>a, <1>b DEF SerialScan, Where
<1>17. ASSUME SerialDone PROVE ObeyedBy(o)'
  BY <1>17, <1>0, <1>a, <1>b DEF SerialDone, Where
<1>18. ASSUME NEW w \in Worker, NEW u \in work_queue, ProcessSbuf(w, u) PROVE ObeyedBy(o)'
  BY <1>18, <1>0, <1>a, <1>b DEF ProcessSbuf, Where
<1>19. ASSUME NEW w \in Worker, NEW u \in work_queue, StartScan(w, u) PROVE ObeyedBy(o)'
  BY <1>19, <1>0, <1>a, <1>b DEF StartScan, Where
<1>20. ASSUME NEW w \in Worker, EndScan(w) PROVE ObeyedBy(o)'
  BY <1>20, <1>0, <1>a, <1>b DEF EndScan, Where
<1>21. ASSUME Join PROVE ObeyedBy(o)'
  BY <1>21, <1>0, <1>a, <1>b DEF Join, Where
<1>22. ASSUME Joined PROVE ObeyedBy(o)'
  BY <1>22, <1>0, <1>a, <1>b DEF Joined, Where
<1>23. ASSUME Shutdown PROVE ObeyedBy(o)'
  BY <1>23, <1>0, <1>a, <1>b DEF Shutdown, Quiet, Where
<1>24. ASSUME NEW sc \in Scanner, ShutdownScanner(sc) PROVE ObeyedBy(o)'
  BY <1>24, <1>0, <1>a, <1>b DEF ShutdownScanner, Where
<1>25. ASSUME WriteHistograms PROVE ObeyedBy(o)'
  BY <1>25, <1>0, <1>a, <1>b DEF WriteHistograms, StartCleanup, CleanupNeeded, Where
<1>26. ASSUME Cleanup PROVE ObeyedBy(o)'
  BY <1>26, <1>0, <1>a, <1>b DEF Cleanup, StartCleanup, CleanupNeeded, Quiet, Where
<1>27. ASSUME NEW sc \in Scanner, CleanupScanner(sc) PROVE ObeyedBy(o)'
  BY <1>27, <1>0, <1>a, <1>b DEF CleanupScanner, Where
<1>28. ASSUME Cleaned PROVE ObeyedBy(o)'
  BY <1>28, <1>0, <1>a, <1>b DEF Cleaned, Where
<1>29. ASSUME Destroy PROVE ObeyedBy(o)'
  BY <1>29, <1>0, <1>a, <1>b DEF Destroy, StartCleanup, CleanupNeeded, Quiet, Where
<1>30. ASSUME BenchmarkJoined PROVE ObeyedBy(o)'
  BY <1>30, <1>0, <1>a, <1>b DEF BenchmarkJoined, Where
<1>31. CASE UNCHANGED vars
  BY <1>31, <1>0, <1>a, <1>b DEF vars, Where
<1> QED
  BY <1>1, <1>2, <1>3, <1>4, <1>5, <1>6, <1>7, <1>8, <1>9, <1>10, <1>11, <1>12,
     <1>13, <1>14, <1>15, <1>16, <1>17, <1>18, <1>19, <1>20, <1>21, <1>22, <1>23,
     <1>24, <1>25, <1>26, <1>27, <1>28, <1>29, <1>30, <1>31
     DEF Next, Main, Client, Work, Done

-----------------------------------------------------------------------------
(* No two recorders have a name in common, and the scanners that the loop  *)
(* has passed have theirs.                                                 *)
Ready ==
    IF mpc = "recorders" THEN enabled_scanners \ todo
    ELSE IF current_phase \in PHASE_INIT2 .. PHASE_SHUTDOWN THEN enabled_scanners
    ELSE {}
Unique(recorders) == \A d, e \in recorders : d.name = e.name => d = e
Made ==
    /\ Unique(frm)
    /\ \A sc \in Ready : feature_defs[sc] \subseteq frm
    /\ IsFiniteSet(scanner_info_db)

LEMMA NoClash ==
    ASSUME TypeOK, Unique(frm), NEW defs \in SUBSET RecorderDef,
           NEW some \in SUBSET (defs \ Conflicts(defs))
    PROVE  Unique(frm \cup some)
<1>1. SUFFICES ASSUME NEW d \in frm \cup some, NEW e \in frm \cup some, d.name = e.name
               PROVE  d = e
  BY DEF Unique
<1>2. d \in RecorderDef /\ e \in RecorderDef
  BY DEF TypeOK
<1>3. CASE d \in frm /\ e \in frm
  BY <1>1, <1>3 DEF Unique
<1>4. CASE d \in some
  <2>1. d.def = e.def
    BY <1>1, <1>4 DEF Conflicts
  <2>2. QED  BY <1>1, <1>2, <2>1 DEF RecorderDef
<1>5. CASE e \in some
  <2>1. d.def = e.def
    BY <1>1, <1>5 DEF Conflicts
  <2>2. QED  BY <1>1, <1>2, <2>1 DEF RecorderDef
<1>6. QED  BY <1>3, <1>4, <1>5

LEMMA MadeStep ==
    ASSUME ~DestroyBusy, TypeOK, Where, Made, [Next]_vars
    PROVE  Made'
<1> USE PhaseNumbers DEF Made, Ready, config, set, pool, threads, counts, history
<1>0. /\ current_phase \in PHASE_INIT .. PHASE_CLEANED
      /\ enabled_scanners \subseteq Scanner /\ frm \subseteq RecorderDef
  BY DEF TypeOK
<1>a. \A sc \in Scanner : feature_defs[sc] \subseteq RecorderDef
  BY ScannerAssumption
<1>1. ASSUME NEW sc \in Scanner, AddScanner(sc) PROVE Made'
  <2>1. IsFiniteSet(scanner_info_db')
    BY <1>1, FS_AddElement DEF AddScanner
  <2>2. QED  BY <1>0, <2>1, <1>1 DEF AddScanner, Where
<1>2. ASSUME LaunchWorkers PROVE Made'
  BY <1>2, <1>0 DEF LaunchWorkers, Where
<1>3. ASSUME Apply PROVE Made'
  BY <1>3, <1>0 DEF Apply, Where
<1>4. ASSUME ExecuteCommand PROVE Made'
  BY <1>4, <1>0 DEF ExecuteCommand, Unknown, Execute, Meant, Where
<1>5. ASSUME CommandsDone PROVE Made'
  <2>1. CASE Conflicts(AlertRecorder) # {}
    BY <1>0, <2>1, <1>5 DEF CommandsDone, Where
  <2>2. CASE Conflicts(AlertRecorder) = {}
    <3>1. AlertRecorder \subseteq RecorderDef
      BY ScannerAssumption DEF AlertRecorder, RecorderDef
    <3>2. AlertRecorder \in SUBSET (AlertRecorder \ Conflicts(AlertRecorder))
      BY <2>2
    <3>3. Unique(frm \cup AlertRecorder)
      BY <3>1, <3>2, NoClash
    <3>4. frm' = frm \cup AlertRecorder /\ mpc' = "recorders" /\ enabled_scanners' \ todo' = {}
          /\ scanner_info_db' = scanner_info_db
      BY <2>2, <1>5 DEF CommandsDone, TypeOK
    <3>5. QED  BY <3>3, <3>4
  <2>3. QED  BY <2>1, <2>2
<1>6. ASSUME NEW sc \in Scanner, MakeRecorders(sc) PROVE Made'
  <2>1. /\ mpc = "recorders" /\ current_phase = PHASE_INIT /\ current_phase' = PHASE_INIT
        /\ UNCHANGED <<scanner_info_db, enabled_scanners>>
    BY <1>6 DEF MakeRecorders, Where
  <2>2. PICK some \in SUBSET (feature_defs[sc] \ Conflicts(feature_defs[sc])) :
           /\ frm' = frm \cup some
           /\ \/ some = feature_defs[sc] /\ todo' = todo \ {sc} /\ mpc' = mpc
              \/ mpc' = "client"
    <3>1. CASE Conflicts(feature_defs[sc]) # {}
      BY <3>1, <1>6 DEF MakeRecorders
    <3>2. CASE Conflicts(feature_defs[sc]) = {}
      <4>1. feature_defs[sc] \in SUBSET (feature_defs[sc] \ Conflicts(feature_defs[sc]))
        BY <3>2
      <4>2. QED  BY <4>1, <3>2, <1>6 DEF MakeRecorders
    <3>3. QED  BY <3>1, <3>2
  <2>3. Unique(frm')
    BY <1>a, <2>2, NoClash
  <2>4. QED  BY <2>1, <2>2, <2>3
<1>7. ASSUME NEW sc \in Scanner, SkipRecorders(sc) PROVE Made'
  BY <1>7, <1>0 DEF SkipRecorders, IsEnabled, Where
<1>8. ASSUME StartInit2 PROVE Made'
  BY <1>8, <1>0 DEF StartInit2, Where
<1>9. ASSUME NEW sc \in Scanner, Init2(sc) PROVE Made'
  BY <1>9, <1>0 DEF Init2, Where
<1>10. ASSUME Enabled PROVE Made'
  BY <1>10, <1>0 DEF Enabled, Where
<1>11. ASSUME NEW sc \in Scanner, ScannerThrows(sc) PROVE Made'
  BY <1>11, <1>0 DEF ScannerThrows, Where
<1>12. ASSUME PhaseScan PROVE Made'
  BY <1>12, <1>0 DEF PhaseScan, Where
<1>13. ASSUME BenchmarkEnds PROVE Made'
  BY <1>13, <1>0 DEF BenchmarkEnds, Where
<1>14. ASSUME NEW s \in Sbuf, Schedule(s) PROVE Made'
  BY <1>14, <1>0 DEF Schedule, Where
<1>15. ASSUME ScanSerially PROVE Made'
  BY <1>15, <1>0 DEF ScanSerially, Where
<1>16. ASSUME NEW sc \in Scanner, SerialScan(sc) PROVE Made'
  BY <1>16, <1>0 DEF SerialScan, Where
<1>17. ASSUME SerialDone PROVE Made'
  BY <1>17, <1>0 DEF SerialDone, Where
<1>18. ASSUME NEW w \in Worker, NEW u \in work_queue, ProcessSbuf(w, u) PROVE Made'
  BY <1>18, <1>0 DEF ProcessSbuf, Where
<1>19. ASSUME NEW w \in Worker, NEW u \in work_queue, StartScan(w, u) PROVE Made'
  BY <1>19, <1>0 DEF StartScan, Where
<1>20. ASSUME NEW w \in Worker, EndScan(w) PROVE Made'
  BY <1>20, <1>0 DEF EndScan, Where
<1>21. ASSUME Join PROVE Made'
  BY <1>21, <1>0 DEF Join, Where
<1>22. ASSUME Joined PROVE Made'
  BY <1>22, <1>0 DEF Joined, Where
<1>23. ASSUME Shutdown PROVE Made'
  BY <1>23, <1>0 DEF Shutdown, Quiet, Where
<1>24. ASSUME NEW sc \in Scanner, ShutdownScanner(sc) PROVE Made'
  BY <1>24, <1>0 DEF ShutdownScanner, Where
<1>25. ASSUME WriteHistograms PROVE Made'
  BY <1>25, <1>0 DEF WriteHistograms, StartCleanup, CleanupNeeded, Where
<1>26. ASSUME Cleanup PROVE Made'
  BY <1>26, <1>0 DEF Cleanup, StartCleanup, CleanupNeeded, Quiet, Where
<1>27. ASSUME NEW sc \in Scanner, CleanupScanner(sc) PROVE Made'
  BY <1>27, <1>0 DEF CleanupScanner, Where
<1>28. ASSUME Cleaned PROVE Made'
  BY <1>28, <1>0 DEF Cleaned, Where
<1>29. ASSUME Destroy PROVE Made'
  BY <1>29, <1>0 DEF Destroy, StartCleanup, CleanupNeeded, Quiet, Where
<1>30. ASSUME BenchmarkJoined PROVE Made'
  BY <1>30, <1>0 DEF BenchmarkJoined, Where
<1>31. CASE UNCHANGED vars
  BY <1>31, <1>0 DEF vars, Where
<1> QED
  BY <1>1, <1>2, <1>3, <1>4, <1>5, <1>6, <1>7, <1>8, <1>9, <1>10, <1>11, <1>12,
     <1>13, <1>14, <1>15, <1>16, <1>17, <1>18, <1>19, <1>20, <1>21, <1>22, <1>23,
     <1>24, <1>25, <1>26, <1>27, <1>28, <1>29, <1>30, <1>31
     DEF Next, Main, Client, Work, Done

(* A recorder has a histogram for each request of the scanners that have   *)
(* theirs, and the first time no other.                                    *)
Wanting(r) == {sc \in Ready : r \in histogram_defs[sc]}
Counted(r) ==
    /\ mpc \in {"commands", "recorders"} => applies >= 1
    /\ histograms[r] >= Cardinality(Wanting(r))
    /\ applies = 0 => histograms[r] = 0
    /\ applies = 1 /\ Settled => histograms[r] = Cardinality(Wanting(r))

LEMMA CountedStep ==
    ASSUME ~DestroyBusy, TypeOK, Where, Made, NEW r \in RecorderName, Counted(r), [Next]_vars
    PROVE  Counted(r)'
<1> USE PhaseNumbers DEF config, set, pool, threads, counts, history
<1>0. /\ current_phase \in PHASE_INIT .. PHASE_CLEANED
      /\ applies \in Nat /\ histograms \in [RecorderName -> Nat]
      /\ enabled_scanners \subseteq scanner_info_db
  BY ScannerAssumption DEF TypeOK
<1>a. IsFiniteSet(Wanting(r)) /\ Cardinality(Wanting(r)) \in Nat
  <2>1. Wanting(r) \subseteq scanner_info_db
    BY <1>0 DEF Wanting, Ready
  <2>2. QED  BY <2>1, FS_Subset, FS_CardinalityType DEF Made
<1> DEFINE Over == /\ Ready' = {} /\ ~Settled'
                   /\ applies' = applies /\ histograms' = histograms
           Idly == /\ Ready' = Ready /\ (Settled' => Settled)
                   /\ applies' = applies /\ histograms' = histograms
                   /\ mpc' \in {"commands", "recorders"} => mpc \in {"commands", "recorders"}
<1>b. Over => Counted(r)'
  <2>1. SUFFICES ASSUME Over PROVE Counted(r)'
    OBVIOUS
  <2>2. Wanting(r)' = {}
    BY <2>1 DEF Wanting
  <2>3. Cardinality(Wanting(r)') = 0
    BY <2>2, FS_EmptySet
  <2>4. QED  BY <1>0, <2>1, <2>3 DEF Counted, Settled
<1>c. Idly => Counted(r)'
  <2>1. SUFFICES ASSUME Idly PROVE Counted(r)'
    OBVIOUS
  <2>2. Wanting(r)' = Wanting(r)
    BY <2>1 DEF Wanting
  <2>3. QED  BY <2>1, <2>2 DEF Counted
<1>d. todo \subseteq scanner_info_db
  BY DEF TypeOK
<1>1. ASSUME NEW sc \in Scanner, AddScanner(sc) PROVE Counted(r)'
  BY <1>1, <1>0, <1>b, <1>c, <1>d DEF AddScanner, Where, Ready, Settled
<1>2. ASSUME LaunchWorkers PROVE Counted(r)'
  BY <1>2, <1>0, <1>b, <1>c, <1>d DEF LaunchWorkers, Where, Ready, Settled
<1>3. ASSUME Apply PROVE Counted(r)'
  <2>1. Ready' = {} /\ applies' = applies + 1 /\ histograms' = histograms
    BY <1>3 DEF Apply, Ready
  <2>2. Wanting(r)' = {}
    BY <2>1 DEF Wanting
  <2>3. Cardinality(Wanting(r)') = 0
    BY <2>2, FS_EmptySet
  <2>4. QED  BY <1>0, <2>1, <2>3 DEF Counted
<1>4. ASSUME ExecuteCommand PROVE Counted(r)'
  BY <1>4, <1>0, <1>b, <1>c, <1>d DEF ExecuteCommand, Unknown, Execute, Meant, Where, Ready, Settled
<1>5. ASSUME CommandsDone PROVE Counted(r)'
  BY <1>5, <1>0, <1>b, <1>c, <1>d DEF CommandsDone, Where, Ready, Settled
<1>6. ASSUME NEW sc \in Scanner, MakeRecorders(sc) PROVE Counted(r)'
  <2>1. /\ mpc = "recorders" /\ current_phase = PHASE_INIT /\ current_phase' = PHASE_INIT
        /\ applies' = applies /\ sc \in todo /\ sc \in enabled_scanners
        /\ UNCHANGED enabled_scanners
    BY <1>6 DEF MakeRecorders, IsEnabled, Where
  <2>2. CASE mpc' = "recorders"
    <3>1. /\ histograms'[r] = histograms[r] + IF r \in histogram_defs[sc] THEN 1 ELSE 0
          /\ todo' = todo \ {sc}
      BY <2>1, <2>2, <1>6 DEF MakeRecorders, AddHistograms
    <3>2. Ready' = Ready \cup {sc} /\ sc \notin Ready
      BY <2>1, <2>2, <3>1 DEF Ready
    <3>3. CASE r \in histogram_defs[sc]
      <4>1. Wanting(r)' = Wanting(r) \cup {sc} /\ sc \notin Wanting(r)
        BY <3>2, <3>3 DEF Wanting
      <4>2. Cardinality(Wanting(r)') = Cardinality(Wanting(r)) + 1
        BY <1>a, <4>1, FS_AddElement
      <4>3. histograms'[r] = histograms[r] + 1
        BY <3>1, <3>3
      <4>4. QED  BY <1>0, <1>a, <2>1, <2>2, <4>2, <4>3 DEF Counted, Settled
    <3>4. CASE r \notin histogram_defs[sc]
      <4>1. Wanting(r)' = Wanting(r)
        BY <3>2, <3>4 DEF Wanting
      <4>2. histograms'[r] = histograms[r]
        BY <1>0, <3>1, <3>4
      <4>3. QED  BY <1>0, <1>a, <2>1, <2>2, <4>1, <4>2 DEF Counted, Settled
    <3>5. QED  BY <3>3, <3>4
  <2>3. CASE mpc' = "client"
    <3>1. Ready' = {} /\ ~Settled'
      BY <2>1, <2>3 DEF Ready, Settled
    <3>2. Wanting(r)' = {}
      BY <3>1 DEF Wanting
    <3>3. Cardinality(Wanting(r)') = 0
      BY <3>2, FS_EmptySet
    <3>4. histograms'[r] \in Nat /\ applies >= 1
      BY <2>1, MakeType, <1>6 DEF Counted
    <3>5. QED  BY <1>0, <2>1, <2>3, <3>1, <3>3, <3>4 DEF Counted
  <2>4. QED  BY <2>2, <2>3, MakeType, <1>6
<1>7. ASSUME NEW sc \in Scanner, SkipRecorders(sc) PROVE Counted(r)'
  BY <1>7, <1>0, <1>b, <1>c, <1>d DEF SkipRecorders, IsEnabled, Where, Ready, Settled
<1>8. ASSUME StartInit2 PROVE Counted(r)'
  BY <1>8, <1>0, <1>b, <1>c, <1>d DEF StartInit2, Where, Ready, Settled
<1>9. ASSUME NEW sc \in Scanner, Init2(sc) PROVE Counted(r)'
  BY <1>9, <1>0, <1>b, <1>c, <1>d DEF Init2, Where, Ready, Settled
<1>10. ASSUME Enabled PROVE Counted(r)'
  BY <1>10, <1>0, <1>b, <1>c, <1>d DEF Enabled, Where, Ready, Settled
<1>11. ASSUME NEW sc \in Scanner, ScannerThrows(sc) PROVE Counted(r)'
  BY <1>11, <1>0, <1>b, <1>c, <1>d DEF ScannerThrows, Where, Ready, Settled
<1>12. ASSUME PhaseScan PROVE Counted(r)'
  BY <1>12, <1>0, <1>b, <1>c, <1>d DEF PhaseScan, Where, Ready, Settled
<1>13. ASSUME BenchmarkEnds PROVE Counted(r)'
  BY <1>13, <1>0, <1>b, <1>c, <1>d DEF BenchmarkEnds, Where, Ready, Settled
<1>14. ASSUME NEW s \in Sbuf, Schedule(s) PROVE Counted(r)'
  BY <1>14, <1>0, <1>b, <1>c, <1>d DEF Schedule, Where, Ready, Settled
<1>15. ASSUME ScanSerially PROVE Counted(r)'
  BY <1>15, <1>0, <1>b, <1>c, <1>d DEF ScanSerially, Where, Ready, Settled
<1>16. ASSUME NEW sc \in Scanner, SerialScan(sc) PROVE Counted(r)'
  BY <1>16, <1>0, <1>b, <1>c, <1>d DEF SerialScan, Where, Ready, Settled
<1>17. ASSUME SerialDone PROVE Counted(r)'
  BY <1>17, <1>0, <1>b, <1>c, <1>d DEF SerialDone, Where, Ready, Settled
<1>18. ASSUME NEW w \in Worker, NEW u \in work_queue, ProcessSbuf(w, u) PROVE Counted(r)'
  BY <1>18, <1>0, <1>b, <1>c, <1>d DEF ProcessSbuf, Where, Ready, Settled
<1>19. ASSUME NEW w \in Worker, NEW u \in work_queue, StartScan(w, u) PROVE Counted(r)'
  BY <1>19, <1>0, <1>b, <1>c, <1>d DEF StartScan, Where, Ready, Settled
<1>20. ASSUME NEW w \in Worker, EndScan(w) PROVE Counted(r)'
  BY <1>20, <1>0, <1>b, <1>c, <1>d DEF EndScan, Where, Ready, Settled
<1>21. ASSUME Join PROVE Counted(r)'
  BY <1>21, <1>0, <1>b, <1>c, <1>d DEF Join, Where, Ready, Settled
<1>22. ASSUME Joined PROVE Counted(r)'
  BY <1>22, <1>0, <1>b, <1>c, <1>d DEF Joined, Where, Ready, Settled
<1>23. ASSUME Shutdown PROVE Counted(r)'
  BY <1>23, <1>0, <1>b, <1>c, <1>d DEF Shutdown, Quiet, Where, Ready, Settled
<1>24. ASSUME NEW sc \in Scanner, ShutdownScanner(sc) PROVE Counted(r)'
  BY <1>24, <1>0, <1>b, <1>c, <1>d DEF ShutdownScanner, Where, Ready, Settled
<1>25. ASSUME WriteHistograms PROVE Counted(r)'
  BY <1>25, <1>0, <1>b, <1>c, <1>d DEF WriteHistograms, StartCleanup, CleanupNeeded, Where, Ready, Settled
<1>26. ASSUME Cleanup PROVE Counted(r)'
  BY <1>26, <1>0, <1>b, <1>c, <1>d DEF Cleanup, StartCleanup, CleanupNeeded, Quiet, Where, Ready, Settled
<1>27. ASSUME NEW sc \in Scanner, CleanupScanner(sc) PROVE Counted(r)'
  BY <1>27, <1>0, <1>b, <1>c, <1>d DEF CleanupScanner, Where, Ready, Settled
<1>28. ASSUME Cleaned PROVE Counted(r)'
  BY <1>28, <1>0, <1>b, <1>c, <1>d DEF Cleaned, Where, Ready, Settled
<1>29. ASSUME Destroy PROVE Counted(r)'
  BY <1>29, <1>0, <1>b, <1>c, <1>d DEF Destroy, StartCleanup, CleanupNeeded, Quiet, Where, Ready, Settled
<1>30. ASSUME BenchmarkJoined PROVE Counted(r)'
  BY <1>30, <1>0, <1>b, <1>c, <1>d DEF BenchmarkJoined, Where, Ready, Settled
<1>31. CASE UNCHANGED vars
  BY <1>31, <1>0, <1>c DEF vars, Where, Ready, Settled
<1> QED
  BY <1>1, <1>2, <1>3, <1>4, <1>5, <1>6, <1>7, <1>8, <1>9, <1>10, <1>11, <1>12,
     <1>13, <1>14, <1>15, <1>16, <1>17, <1>18, <1>19, <1>20, <1>21, <1>22, <1>23,
     <1>24, <1>25, <1>26, <1>27, <1>28, <1>29, <1>30, <1>31
     DEF Next, Main, Client, Work, Done

-----------------------------------------------------------------------------
(* The inductive invariant, and what it implies.                           *)
PhasesInv ==
    /\ TypeOK /\ Where /\ Pooled
    /\ \A sc \in Scanner : ToldOf(sc) /\ KnowsOf(sc) /\ TimesOf(sc) /\ ObeyedBy(sc)
    /\ Reported /\ Made
    /\ \A r \in RecorderName : Counted(r)

LEMMA TypeInit == Init => TypeOK
<1> SUFFICES ASSUME Init PROVE TypeOK
  OBVIOUS
<1>1. commands \in CommandLists /\ executed \in 0 .. Len(commands)
  BY ScannerAssumption, LenProperties DEF Init
<1>2. <<>> \in Seq(PHASE_INIT .. PHASE_CLEANUP)
  OBVIOUS
<1>3. /\ told \in [Scanner -> Seq(PHASE_INIT .. PHASE_CLEANUP)]
      /\ histograms \in [RecorderName -> Nat]
      /\ failures \in [{PHASE_INIT2, PHASE_SHUTDOWN, PHASE_CLEANUP} -> 0 .. MaxFailures]
      /\ applies \in 0 .. MaxApplies
  BY <1>2, ScannerAssumption DEF Init
<1>4. job \in [Worker -> [sbuf : Sbuf, scanner : Scanner] \cup {Idle}]
  BY DEF Init
<1>5. /\ enabled_scanners \subseteq scanner_info_db /\ scanner_info_db \subseteq Scanner
      /\ frm \subseteq RecorderDef /\ todo \subseteq scanner_info_db
      /\ work_queue \subseteq Unit /\ unreported \subseteq RecorderName
      /\ {dying, threading, joined} \subseteq BOOLEAN
  BY DEF Init
<1>6. current_phase \in PHASE_INIT .. PHASE_CLEANED
  BY PhaseNumbers DEF Init
<1>7. /\ mpc = "client" /\ benchmark_cpu_thread = "none"
  BY DEF Init
<1>8. QED
  BY <1>1, <1>3, <1>4, <1>5, <1>6, <1>7 DEF TypeOK

LEMMA PhasesInit == Init => PhasesInv
<1> SUFFICES ASSUME Init PROVE PhasesInv
  OBVIOUS
<1> USE PhaseNumbers
<1>1. TypeOK /\ Where /\ Pooled
  BY TypeInit DEF Init, Where, Pooled, PoolDone, NoTerminate
<1>2. ASSUME NEW sc \in Scanner
      PROVE  ToldOf(sc) /\ KnowsOf(sc) /\ TimesOf(sc) /\ ObeyedBy(sc)
  <2>1. told[sc] = <<>> /\ DOMAIN told[sc] = {} /\ Range(told[sc]) = {}
    BY DEF Init, Range
  <2>2. ToldOf(sc)
    BY <2>1 DEF ToldOf, Ordered, Init
  <2>3. KnowsOf(sc)
    BY <2>1 DEF KnowsOf, Init
  <2>4. Times(sc, PHASE_CLEANUP) = 0
    BY <2>1, FS_EmptySet DEF Times
  <2>5. TimesOf(sc)
    BY <2>4 DEF TimesOf, Init
  <2>6. ObeyedBy(sc)
    BY DEF ObeyedBy, Init
  <2>7. QED  BY <2>2, <2>3, <2>5, <2>6
<1>3. Reported
  BY DEF Reported, Init
<1>4. Ready = {}
  BY DEF Ready, Init
<1>5. Made
  BY <1>4, FS_EmptySet DEF Made, Unique, Init
<1>6. ASSUME NEW r \in RecorderName PROVE Counted(r)
  <2>1. Wanting(r) = {}
    BY <1>4 DEF Wanting
  <2>2. Cardinality(Wanting(r)) = 0
    BY <2>1, FS_EmptySet
  <2>3. QED  BY <2>2 DEF Counted, Init
<1>7. QED  BY <1>1, <1>2, <1>3, <1>5, <1>6 DEF PhasesInv

LEMMA PhasesStep == ASSUME ~DestroyBusy, PhasesInv, [Next]_vars PROVE PhasesInv'
<1> USE DEF PhasesInv
<1>1. TypeOK'
  BY TypeStep
<1>2. Where' /\ Pooled'
  BY <1>1, WhereStep
<1>3. ASSUME NEW sc \in Scanner
      PROVE  (ToldOf(sc) /\ KnowsOf(sc) /\ TimesOf(sc) /\ ObeyedBy(sc))'
  BY <1>1, <1>2, <1>3, ToldStep, KnowsStep, TimesStep, ObeyedStep
<1>4. Reported' /\ Made'
  BY ReportedStep, MadeStep
<1>5. ASSUME NEW r \in RecorderName PROVE Counted(r)'
  BY <1>5, CountedStep
<1>6. QED  BY <1>1, <1>2, <1>3, <1>4, <1>5

LEMMA PhasesImplies ==
    ASSUME PhasesInv
    PROVE  /\ LifeInOrder /\ NotCleanedWhileScanning /\ NothingUnreported
           /\ NoTerminate /\ RecordersReady
<1> USE PhaseNumbers
<1>1. LifeInOrder
  BY DEF PhasesInv, LifeInOrder, ToldOf, Ordered, KnowsOf, TimesOf
<1>2. NotCleanedWhileScanning
  <2>1. SUFFICES ASSUME NEW w \in Worker, job[w] # Idle
                 PROVE  PHASE_CLEANUP \notin Range(told[job[w].scanner])
    BY DEF NotCleanedWhileScanning
  <2>2. job[w].scanner \in Scanner /\ current_phase = PHASE_SCAN
    BY <2>1 DEF PhasesInv, TypeOK, Pooled, PoolDone
  <2>3. QED  BY <2>2, NotYet DEF PhasesInv
<1>3. NothingUnreported
  BY DEF PhasesInv, Reported, NothingUnreported
<1>4. NoTerminate
  BY DEF PhasesInv, Where
<1>5. EnabledExact
  <2>1. SUFFICES ASSUME current_phase \in PHASE_INIT2 .. PHASE_SHUTDOWN,
                        NEW sc \in scanner_info_db
                 PROVE  sc \in enabled_scanners <=>
                          IF Concerning(sc) = {} THEN sc \in default_enabled
                          ELSE commands[Max(Concerning(sc))].command = "enable"
    BY DEF EnabledExact, PhasesInv, TypeOK
  <2>2. mpc # "commands" /\ Settled /\ sc \in Scanner
    BY <2>1 DEF PhasesInv, Where, Settled, TypeOK
  <2>3. executed = Len(commands) /\ DOMAIN commands = 1 .. Len(commands)
    BY <2>1, <2>2, ScannerAssumption, LenProperties DEF PhasesInv, ObeyedBy, TypeOK
  <2>4. Executed(sc) = Concerning(sc)
    BY <2>3 DEF Executed, Concerning
  <2>5. QED  BY <2>1, <2>2, <2>4 DEF PhasesInv, ObeyedBy
<1>6. RecordersReady
  <2>1. SUFFICES ASSUME current_phase \in PHASE_INIT2 .. PHASE_SHUTDOWN
                 PROVE  /\ \A sc \in enabled_scanners : feature_defs[sc] \subseteq frm
                        /\ \A d, e \in frm : d.name = e.name => d = e
                        /\ \A r \in RecorderName :
                              LET n == Cardinality({sc \in enabled_scanners : r \in histogram_defs[sc]})
                              IN  histograms[r] >= n /\ (applies = 1 => histograms[r] = n)
    BY <1>5 DEF RecordersReady
  <2>2. Ready = enabled_scanners /\ Settled
    BY <2>1 DEF PhasesInv, Where, Ready, Settled
  <2>3. QED  BY <2>2 DEF PhasesInv, Made, Unique, Counted, Wanting
<1>7. QED  BY <1>1, <1>2, <1>3, <1>4, <1>6

(* Every variable keeps its type, whatever the client may do.              *)
THEOREM PhasesTyped == Spec => []TypeOK
<1>1. Init => TypeOK
  BY TypeInit
<1>2. TypeOK /\ [Next]_vars => TypeOK'
  BY TypeStep
<1>3. QED  BY <1>1, <1>2, PTL DEF Spec

LEMMA PhasesAlways == ASSUME ~DestroyBusy PROVE Spec => []PhasesInv
<1>1. PhasesInv /\ [Next]_vars => PhasesInv'
  BY PhasesStep
<1>2. QED  BY <1>1, PhasesInit, PTL DEF Spec

(* A scanner gets its messages in the order of the phases, no call to scan *)
(* before its INIT2 or after its SHUTDOWN, none twice unless CLEANUP       *)
(* failed, and CLEANUP before the set is CLEANED.                          *)
THEOREM LifeOrdered == ASSUME ~DestroyBusy PROVE Spec => []LifeInOrder
<1>1. PhasesInv => LifeInOrder
  BY PhasesImplies
<1>2. QED  BY <1>1, PhasesAlways, PTL

(* No scanner is cleaned up while a worker is inside it.                   *)
THEOREM CleanedLast == ASSUME ~DestroyBusy PROVE Spec => []NotCleanedWhileScanning
<1>1. PhasesInv => NotCleanedWhileScanning
  BY PhasesImplies
<1>2. QED  BY <1>1, PhasesAlways, PTL

(* A shutdown without an exception leaves no feature out of the reports.   *)
THEOREM AllReported == ASSUME ~DestroyBusy PROVE Spec => []NothingUnreported
<1>1. PhasesInv => NothingUnreported
  BY PhasesImplies
<1>2. QED  BY <1>1, PhasesAlways, PTL

(* Only an exception in the CLEANUP of the destructor ends the program: no *)
(* worker finds the phase changed under it.                                *)
THEOREM TerminatesOnlyIn == ASSUME ~DestroyBusy PROVE Spec => []NoTerminate
<1>1. PhasesInv => NoTerminate
  BY PhasesImplies
<1>2. QED  BY <1>1, PhasesAlways, PTL

(* The enabled scanners are those that the commands mean, and they have    *)
(* their recorders and histograms.                                         *)
THEOREM AllReady == ASSUME ~DestroyBusy PROVE Spec => []RecordersReady
<1>1. PhasesInv => RecordersReady
  BY PhasesImplies
<1>2. QED  BY <1>1, PhasesAlways, PTL
=============================================================================
