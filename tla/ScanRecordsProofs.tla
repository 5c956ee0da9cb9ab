-------------------------- MODULE ScanRecordsProofs --------------------------
(***************************************************************************)
(* Theorems about ScanRecords for every set of workers, sbufs and scanners *)
(* and every nesting of the sbufs: the largest depth, the duplicates, the  *)
(* reference counts, what has run on each content, and what a work_stop    *)
(* line says.                                                              *)
(***************************************************************************)
EXTENDS ScanRecords, FoldingProofs

(* The types that the proofs need.  A worker that is not idle has a unit   *)
(* and is at an sbuf.                                                      *)
WorkUnit == [sbuf : Sbuf, scanner : Scanner \cup {NoScanner}]
WorkerState == {"idle", "entering", "raising", "counting", "dispatching",
                "scanning", "ending", "releasing"}
Shape ==
    /\ work_queue \in Seq(WorkUnit)
    /\ wpc \in [Worker -> WorkerState]
    /\ wu \in [Worker -> [sbuf : Sbuf \cup {NullSbuf}, scanner : Scanner \cup {NoScanner}]]
    /\ at \in [Worker -> Sbuf \cup {NullSbuf}]
    /\ prev_value \in [Worker -> Nat]
    /\ max_depth_seen \in Nat
    /\ scheduled \subseteq Sbuf /\ counted \subseteq Sbuf
    /\ \A w \in Worker : wpc[w] # "idle" => wu[w].sbuf \in Sbuf /\ at[w] \in Sbuf

(* Taking the first unit of the queue and adding one to its end.           *)
LEMMA TakeType ==
    ASSUME NEW q \in Seq(WorkUnit), q # <<>>
    PROVE  /\ Head(q) = q[1] /\ Head(q) \in WorkUnit
           /\ Tail(q) \in Seq(WorkUnit)
           /\ Len(Tail(q)) = Len(q) - 1 /\ Len(q) \in Nat \ {0}
           /\ \A i \in 1 .. Len(q) - 1 : Tail(q)[i] = q[i + 1]
BY HeadTailProperties, EmptySeq

LEMMA AddType ==
    ASSUME NEW q \in Seq(WorkUnit), NEW u \in WorkUnit
    PROVE  /\ Append(q, u) \in Seq(WorkUnit)
           /\ Len(q) \in Nat /\ Len(Append(q, u)) = Len(q) + 1
           /\ \A i \in 1 .. Len(q) : Append(q, u)[i] = q[i]
           /\ Append(q, u)[Len(q) + 1] = u
BY AppendProperties

LEMMA UnitType ==
    ASSUME NEW s \in Sbuf, NEW sc \in Scanner \cup {NoScanner}
    PROVE  /\ Unit(s, sc) \in WorkUnit
           /\ Unit(s, sc).sbuf = s /\ Unit(s, sc).scanner = sc
BY DEF Unit, WorkUnit

LEMMA ShapeInit == Init => Shape
BY DEF Init, Shape, Unit, WorkerState

LEMMA ShapeStep == Shape /\ [Next]_vars => Shape'
<1> SUFFICES ASSUME Shape, [Next]_vars PROVE Shape'
  OBVIOUS
<1> USE DEF threadVars, stats, history, Goes, WorkerState
<1>1. ASSUME NEW s \in Image, Schedule(s) PROVE Shape'
  <2>1. s \in Sbuf
    BY DEF Sbuf
  <2>2. work_queue' \in Seq(WorkUnit)
    BY <1>1, <2>1, UnitType, AddType DEF Schedule, Shape
  <2>3. QED  BY <1>1, <2>1, <2>2 DEF Schedule, Shape
<1>2. ASSUME NEW w \in Worker, TakeWork(w) PROVE Shape'
  <2>1. /\ Head(work_queue) \in WorkUnit
        /\ Tail(work_queue) \in Seq(WorkUnit)
    BY <1>2, TakeType DEF TakeWork, Shape
  <2>2. QED  BY <1>2, <2>1 DEF TakeWork, Shape, WorkUnit
<1>3. ASSUME NEW w \in Worker, ReturnEmpty(w) \/ RefuseDeep(w) PROVE Shape'
  BY <1>3 DEF ReturnEmpty, RefuseDeep, Shape
<1>4. ASSUME NEW w \in Worker, Enter(w) PROVE Shape'
  BY <1>4 DEF Enter, Shape
<1>5. ASSUME NEW w \in Worker, UpdateMaximum(w) PROVE Shape'
  <2>1. depth[at[w]] \in Nat
    BY <1>5, RecordsAssumption DEF UpdateMaximum, Shape
  <2>2. QED  BY <1>5, <2>1 DEF UpdateMaximum, Shape
<1>6. ASSUME NEW w \in Worker, Count(w) PROVE Shape'
  BY <1>6 DEF Count, Shape
<1>7. ASSUME NEW w \in Worker, NEW sc \in Scanner, PushScannerTask(w, sc) PROVE Shape'
  <2>1. work_queue' \in Seq(WorkUnit)
    BY <1>7, UnitType, AddType DEF PushScannerTask, Shape
  <2>2. QED  BY <1>7, <2>1 DEF PushScannerTask, Shape
<1>8. ASSUME NEW w \in Worker, Dispatched(w) \/ ScannerReturns(w) \/ RecordWorkEnd(w) PROVE Shape'
  BY <1>8 DEF Dispatched, ScannerReturns, RecordWorkEnd, Shape
<1>9. ASSUME NEW w \in Worker, NEW c \in Child, Recurse(w, c) PROVE Shape'
  BY <1>9 DEF Recurse, Shape, Sbuf
<1>10. ASSUME NEW w \in Worker, Release(w) PROVE Shape'
  BY <1>10 DEF Release, Shape, Unit
<1>11. CASE UNCHANGED vars
  BY <1>11 DEF vars, Shape
<1>12. QED
  BY <1>1, <1>2, <1>3, <1>4, <1>5, <1>6, <1>7, <1>8, <1>9, <1>10, <1>11
     DEF Next, WorkerStep, Done

-----------------------------------------------------------------------------
(* The largest depth.  What a worker has loaded is not above the maximum,  *)
(* which only grows; and a worker leaves the loop when the maximum has     *)
(* reached its sbuf's depth.                                               *)
DepthInv ==
    /\ MaxDepthExact
    /\ \A w \in Worker :
          /\ wpc[w] = "raising" => prev_value[w] <= max_depth_seen
          /\ wpc[w] = "counting" => depth[at[w]] <= max_depth_seen

LEMMA DepthInit == Init => DepthInv
BY DEF Init, DepthInv, MaxDepthExact, Depths, Raising

(* A step that leaves the maximum, the sbufs that were counted and the     *)
(* workers in the loop as they are.                                        *)
LEMMA DepthKept ==
    ASSUME Shape, DepthInv,
           UNCHANGED <<max_depth_seen, counted>>,
           \A w \in Worker :
              /\ wpc[w] \in {"raising", "counting"} => at'[w] = at[w] /\ wpc'[w] = wpc[w]
              /\ wpc'[w] \in {"raising", "counting"} =>
                    /\ wpc[w] = wpc'[w]
                    /\ at'[w] = at[w] /\ prev_value'[w] = prev_value[w]
    PROVE  DepthInv'
<1>1. Depths' = Depths
  BY DEF Depths
<1>2. Raising' = Raising
  BY DEF Raising
<1>3. QED  BY <1>1, <1>2 DEF DepthInv, MaxDepthExact

LEMMA DepthStep == Shape /\ DepthInv /\ [Next]_vars => DepthInv'
<1> SUFFICES ASSUME Shape, DepthInv, [Next]_vars PROVE DepthInv'
  OBVIOUS
<1> USE DEF threadVars, stats, history, Goes
<1>1. ASSUME NEW s \in Image, Schedule(s) PROVE DepthInv'
  BY <1>1, DepthKept DEF Schedule
<1>2. ASSUME NEW w \in Worker, TakeWork(w) PROVE DepthInv'
  <2>1. /\ wpc[w] = "idle"
        /\ wpc'[w] \in {"entering", "scanning", "ending"}
        /\ \A v \in Worker \ {w} : wpc'[v] = wpc[v] /\ at'[v] = at[v]
    BY <1>2 DEF TakeWork, Shape
  <2>2. UNCHANGED <<max_depth_seen, counted, prev_value>>
    BY <1>2 DEF TakeWork
  <2>3. QED  BY <2>1, <2>2, DepthKept
<1>3. ASSUME NEW w \in Worker, ReturnEmpty(w) \/ RefuseDeep(w) PROVE DepthInv'
  BY <1>3, DepthKept DEF ReturnEmpty, RefuseDeep, Shape
<1>4. ASSUME NEW w \in Worker, Enter(w) PROVE DepthInv'
  <2>1. /\ prev_value'[w] = max_depth_seen
        /\ wpc[w] = "entering" /\ wpc'[w] = "raising"
        /\ \A v \in Worker \ {w} : wpc'[v] = wpc[v] /\ prev_value'[v] = prev_value[v]
        /\ UNCHANGED <<at, max_depth_seen, counted>>
    BY <1>4 DEF Enter, Shape
  <2>2. Depths' = Depths /\ Raising \subseteq Raising'
    BY <2>1 DEF Depths, Raising
  <2>3. MaxDepthExact'
    BY <2>1, <2>2 DEF DepthInv, MaxDepthExact
  <2>4. max_depth_seen <= max_depth_seen
    BY DEF Shape
  <2>5. QED  BY <2>1, <2>3, <2>4 DEF DepthInv
<1>5. ASSUME NEW w \in Worker, UpdateMaximum(w) PROVE DepthInv'
  <2> DEFINE d == depth[at[w]]
  <2>1. wpc[w] = "raising" /\ at[w] \in Sbuf /\ d \in Nat
    BY <1>5, RecordsAssumption DEF UpdateMaximum, Shape
  <2>2. UNCHANGED <<at, counted>> /\ Depths' = Depths
    BY <1>5 DEF UpdateMaximum, Depths
  <2>3. \A v \in Worker \ {w} : wpc'[v] = wpc[v] /\ prev_value'[v] = prev_value[v]
    BY <1>5 DEF UpdateMaximum, Shape
  <2>4. wpc'[w] \in {"raising", "counting"}
    BY <1>5, <2>1 DEF UpdateMaximum, Shape
  <2>5. Raising' = Raising
    BY <2>1, <2>2, <2>3, <2>4 DEF Raising, Shape
  <2>6. d \in Raising
    BY <2>1 DEF Raising
  <2>7. \A e \in Depths : e \in Nat
    BY RecordsAssumption DEF Depths, Shape
  <2>8. CASE prev_value[w] >= d
    <3>1. UNCHANGED <<max_depth_seen, prev_value>> /\ wpc'[w] = "counting"
      BY <1>5, <2>1, <2>8 DEF UpdateMaximum, Shape
    <3>2. d <= max_depth_seen
      BY <2>1, <2>8 DEF DepthInv, Shape
    <3>3. QED  BY <2>2, <2>3, <2>5, <3>1, <3>2 DEF DepthInv, MaxDepthExact
  <2>9. CASE prev_value[w] < d /\ prev_value[w] = max_depth_seen
    <3>1. max_depth_seen' = d /\ wpc'[w] = "counting" /\ UNCHANGED prev_value
      BY <1>5, <2>1, <2>9 DEF UpdateMaximum, Shape
    <3>2. \A e \in Depths : e <= d
      BY <2>1, <2>7, <2>9 DEF DepthInv, MaxDepthExact, Shape
    <3>3. MaxDepthExact'
      BY <2>2, <2>5, <2>6, <3>1, <3>2 DEF MaxDepthExact
    <3>4. \A v \in Worker \ {w} :
             /\ wpc[v] = "raising" => prev_value[v] <= d
             /\ wpc[v] = "counting" => depth[at[v]] <= d
      <4>1. \A v \in Worker : wpc[v] = "counting" => depth[at[v]] \in Nat
        BY RecordsAssumption DEF Shape
      <4>2. QED  BY <2>1, <2>9, <4>1 DEF DepthInv, Shape
    <3>5. QED  BY <2>1, <2>2, <2>3, <3>1, <3>3, <3>4 DEF DepthInv
  <2>10. CASE prev_value[w] < d /\ prev_value[w] # max_depth_seen
    <3>1. /\ prev_value'[w] = max_depth_seen /\ wpc' = wpc
          /\ UNCHANGED max_depth_seen
      BY <1>5, <2>1, <2>10 DEF UpdateMaximum, Shape
    <3>2. max_depth_seen <= max_depth_seen
      BY DEF Shape
    <3>3. QED  BY <2>1, <2>2, <2>3, <2>5, <3>1, <3>2 DEF DepthInv, MaxDepthExact
  <2>11. QED  BY <2>1, <2>8, <2>9, <2>10 DEF Shape
<1>6. ASSUME NEW w \in Worker, Count(w) PROVE DepthInv'
  <2>1. /\ wpc[w] = "counting" /\ wpc'[w] = "dispatching"
        /\ \A v \in Worker \ {w} : wpc'[v] = wpc[v] /\ prev_value'[v] = prev_value[v]
        /\ counted' = counted \cup {at[w]}
        /\ UNCHANGED <<at, max_depth_seen>>
    BY <1>6 DEF Count, Shape
  <2>2. Depths' = Depths \cup {depth[at[w]]}
    BY <2>1 DEF Depths
  <2>3. Raising \subseteq Raising' \cup {depth[at[w]]}
    BY <2>1 DEF Raising
  <2>4. depth[at[w]] <= max_depth_seen
    BY <2>1 DEF DepthInv
  <2>5. MaxDepthExact'
    BY <2>1, <2>2, <2>3, <2>4 DEF DepthInv, MaxDepthExact
  <2>6. QED  BY <2>1, <2>5 DEF DepthInv
<1>7. ASSUME NEW w \in Worker, NEW sc \in Scanner, PushScannerTask(w, sc) PROVE DepthInv'
  BY <1>7, DepthKept DEF PushScannerTask
<1>8. ASSUME NEW w \in Worker, Dispatched(w) \/ ScannerReturns(w) \/ RecordWorkEnd(w)
      PROVE DepthInv'
  BY <1>8, DepthKept DEF Dispatched, ScannerReturns, RecordWorkEnd, Shape
<1>9. ASSUME NEW w \in Worker, NEW c \in Child, Recurse(w, c) PROVE DepthInv'
  BY <1>9, DepthKept DEF Recurse, Shape
<1>10. ASSUME NEW w \in Worker, Release(w) PROVE DepthInv'
  BY <1>10, DepthKept DEF Release, Shape
<1>11. CASE UNCHANGED vars
  BY <1>11, DepthKept DEF vars
<1>12. QED
  BY <1>1, <1>2, <1>3, <1>4, <1>5, <1>6, <1>7, <1>8, <1>9, <1>10, <1>11
     DEF Next, WorkerStep, Done

(* The largest depth that is reported is right, however many workers       *)
(* update it at the same time without a lock.                              *)
THEOREM LargestDepth == Spec => []MaxDepthExact
<1>1. Shape /\ DepthInv /\ [Next]_vars => (Shape /\ DepthInv)'
  BY ShapeStep, DepthStep
<1>2. Init => Shape /\ DepthInv
  BY ShapeInit, DepthInit
<1>3. Shape /\ DepthInv => MaxDepthExact
  BY DEF DepthInv
<1>4. QED  BY <1>1, <1>2, <1>3, PTL DEF Spec

-----------------------------------------------------------------------------
(* An sbuf is counted once: it is scheduled once, and from then on it is   *)
(* in one place only, a unit of the queue or a worker that has not counted *)
(* it yet, until it is counted.                                            *)
Enters(w) == wpc[w] \in {"entering", "raising", "counting"}
Once ==
    /\ counted \subseteq scheduled
    /\ \A i \in DOMAIN work_queue :
          work_queue[i].scanner = NoScanner =>
            /\ work_queue[i].sbuf \in scheduled \ counted
            /\ \A j \in DOMAIN work_queue : work_queue[j] = work_queue[i] => j = i
            /\ \A w \in Worker : Enters(w) => at[w] # work_queue[i].sbuf
    /\ \A w \in Worker : Enters(w) =>
          /\ at[w] \in scheduled \ counted
          /\ \A v \in Worker : Enters(v) /\ at[v] = at[w] => v = w

LEMMA OnceInit == Init => Once
BY DEF Init, Once, Enters

(* A step that at most takes a worker out of those that enter an sbuf.     *)
LEMMA OnceKept ==
    ASSUME Once, UNCHANGED <<work_queue, scheduled, counted>>,
           \A w \in Worker : Enters(w)' => Enters(w) /\ at'[w] = at[w]
    PROVE  Once'
BY DEF Once

LEMMA SameUnit ==
    ASSUME NEW u \in WorkUnit, NEW v \in WorkUnit,
           u.sbuf = v.sbuf, u.scanner = v.scanner
    PROVE  u = v
BY DEF WorkUnit

LEMMA OnceStep == Shape /\ Once /\ [Next]_vars => Once'
<1> SUFFICES ASSUME Shape, Once, [Next]_vars PROVE Once'
  OBVIOUS
<1> USE DEF threadVars, stats, history, Goes
<1>1. ASSUME NEW s \in Image, Schedule(s) PROVE Once'
  <2> DEFINE n == Len(work_queue)
  <2>1. s \in Sbuf /\ s \notin scheduled /\ scheduled' = scheduled \cup {s}
    BY <1>1 DEF Schedule, Sbuf
  <2>2. UNCHANGED <<wpc, at, counted>>
    BY <1>1 DEF Schedule
  <2>3. /\ work_queue' \in Seq(WorkUnit) /\ n \in Nat /\ Len(work_queue') = n + 1
        /\ \A i \in 1 .. n : work_queue'[i] = work_queue[i]
        /\ work_queue'[n + 1] = Unit(s, NoScanner)
    BY <1>1, <2>1, UnitType, AddType DEF Schedule, Shape
  <2>4. Unit(s, NoScanner).sbuf = s
    BY DEF Unit
  <2>5. DOMAIN work_queue = 1 .. n /\ DOMAIN work_queue' = 1 .. n + 1
    BY <2>3 DEF Shape
  <2>6. ASSUME NEW i \in DOMAIN work_queue', work_queue'[i].scanner = NoScanner
        PROVE  /\ work_queue'[i].sbuf \in scheduled' \ counted
               /\ \A j \in DOMAIN work_queue' : work_queue'[j] = work_queue'[i] => j = i
               /\ \A w \in Worker : Enters(w) => at[w] # work_queue'[i].sbuf
    <3>1. CASE i \in 1 .. n
      BY <2>1, <2>3, <2>4, <2>5, <2>6, <3>1 DEF Once
    <3>2. CASE i = n + 1
      BY <2>1, <2>3, <2>4, <2>5, <2>6, <3>2 DEF Once
    <3>3. QED  BY <2>3, <2>5, <3>1, <3>2
  <2>7. QED  BY <2>1, <2>2, <2>6 DEF Once, Enters
<1>2. ASSUME NEW w \in Worker, TakeWork(w) PROVE Once'
  <2> DEFINE n == Len(work_queue)
  <2>1. /\ n \in Nat \ {0} /\ Head(work_queue) = work_queue[1]
        /\ work_queue' \in Seq(WorkUnit) /\ Len(work_queue') = n - 1
        /\ \A i \in 1 .. n - 1 : work_queue'[i] = work_queue[i + 1]
    BY <1>2, TakeType DEF TakeWork, Shape
  <2>2. UNCHANGED <<scheduled, counted>>
    BY <1>2 DEF TakeWork
  <2>3. /\ at'[w] = work_queue[1].sbuf
        /\ Enters(w)' => work_queue[1].scanner = NoScanner
        /\ \A v \in Worker \ {w} : wpc'[v] = wpc[v] /\ at'[v] = at[v]
    BY <1>2, <2>1 DEF TakeWork, Shape, Enters
  <2>4. DOMAIN work_queue = 1 .. n /\ DOMAIN work_queue' = 1 .. n - 1
    BY <2>1 DEF Shape
  <2>5. \A i \in DOMAIN work_queue' : i + 1 \in DOMAIN work_queue /\ i + 1 # 1
    BY <2>1, <2>4
  <2>6. ASSUME NEW i \in DOMAIN work_queue', work_queue'[i].scanner = NoScanner
        PROVE  /\ work_queue'[i].sbuf \in scheduled \ counted
               /\ \A j \in DOMAIN work_queue' : work_queue'[j] = work_queue'[i] => j = i
               /\ \A v \in Worker : Enters(v)' => at'[v] # work_queue'[i].sbuf
    <3>1. work_queue'[i] = work_queue[i + 1] /\ work_queue[i + 1].scanner = NoScanner
      BY <2>1, <2>4, <2>6
    <3>2. \A j \in DOMAIN work_queue' : work_queue'[j] = work_queue'[i] => j = i
      <4>1. ASSUME NEW j \in DOMAIN work_queue', work_queue'[j] = work_queue'[i] PROVE j = i
        <5>1. work_queue[j + 1] = work_queue[i + 1]
          BY <2>1, <2>4, <3>1, <4>1
        <5>2. j + 1 = i + 1
          BY <2>5, <3>1, <5>1 DEF Once
        <5>3. QED  BY <2>1, <2>4, <5>2
      <4>2. QED  BY <4>1
    <3>3. Enters(w)' => at'[w] # work_queue'[i].sbuf
      <4>1. SUFFICES ASSUME Enters(w)', at'[w] = work_queue'[i].sbuf PROVE FALSE
        OBVIOUS
      <4>2. work_queue[1] \in WorkUnit /\ work_queue[i + 1] \in WorkUnit
        BY <2>1, <2>4, <2>5 DEF Shape
      <4>3. /\ work_queue[1].sbuf = work_queue[i + 1].sbuf
            /\ work_queue[1].scanner = work_queue[i + 1].scanner
        BY <2>3, <3>1, <4>1
      <4>4. work_queue[1] = work_queue[i + 1]
        BY <4>2, <4>3, SameUnit
      <4>5. QED  BY <2>1, <2>4, <2>5, <3>1, <4>4 DEF Once
    <3>4. QED  BY <2>3, <2>5, <3>1, <3>2, <3>3 DEF Once, Enters
  <2>7. ASSUME NEW v \in Worker, Enters(v)'
        PROVE  /\ at'[v] \in scheduled \ counted
               /\ \A u \in Worker : Enters(u)' /\ at'[u] = at'[v] => u = v
    <3>1. 1 \in DOMAIN work_queue
      BY <2>1, <2>4
    <3>2. QED  BY <2>3, <2>7, <3>1 DEF Once, Enters
  <2>8. QED  BY <2>2, <2>6, <2>7 DEF Once
<1>3. ASSUME NEW w \in Worker, ReturnEmpty(w) \/ RefuseDeep(w) PROVE Once'
  BY <1>3, OnceKept DEF ReturnEmpty, RefuseDeep, Shape, Enters
<1>4. ASSUME NEW w \in Worker, Enter(w) PROVE Once'
  BY <1>4, OnceKept DEF Enter, Shape, Enters
<1>5. ASSUME NEW w \in Worker, UpdateMaximum(w) PROVE Once'
  BY <1>5, OnceKept DEF UpdateMaximum, Shape, Enters
<1>6. ASSUME NEW w \in Worker, Count(w) PROVE Once'
  <2>1. /\ Enters(w) /\ ~Enters(w)'
        /\ counted' = counted \cup {at[w]}
        /\ UNCHANGED <<work_queue, at, scheduled>>
        /\ \A v \in Worker \ {w} : wpc'[v] = wpc[v]
    BY <1>6 DEF Count, Shape, Enters
  <2>2. \A v \in Worker : Enters(v)' => Enters(v) /\ v # w
    BY <2>1 DEF Enters
  <2>3. at[w] \in scheduled
    BY <2>1 DEF Once
  <2>4. QED  BY <2>1, <2>2, <2>3 DEF Once
<1>7. ASSUME NEW w \in Worker, NEW sc \in Scanner, PushScannerTask(w, sc) PROVE Once'
  <2> DEFINE n == Len(work_queue)
  <2>1. UNCHANGED <<wpc, at, scheduled, counted>>
    BY <1>7 DEF PushScannerTask
  <2>2. at[w] \in Sbuf
    BY <1>7 DEF PushScannerTask, Shape
  <2>3. /\ work_queue' \in Seq(WorkUnit) /\ n \in Nat /\ Len(work_queue') = n + 1
        /\ \A i \in 1 .. n : work_queue'[i] = work_queue[i]
        /\ work_queue'[n + 1] = Unit(at[w], sc)
    BY <1>7, <2>2, UnitType, AddType DEF PushScannerTask, Shape
  <2>4. Unit(at[w], sc).scanner # NoScanner
    BY RecordsAssumption DEF Unit
  <2>5. DOMAIN work_queue = 1 .. n /\ DOMAIN work_queue' = 1 .. n + 1
    BY <2>3 DEF Shape
  <2>6. \A i \in DOMAIN work_queue' : work_queue'[i].scanner = NoScanner => i \in 1 .. n
    BY <2>3, <2>4, <2>5
  <2>7. QED  BY <2>1, <2>3, <2>5, <2>6 DEF Once, Enters
<1>8. ASSUME NEW w \in Worker, Dispatched(w) \/ ScannerReturns(w) \/ RecordWorkEnd(w)
      PROVE Once'
  BY <1>8, OnceKept DEF Dispatched, ScannerReturns, RecordWorkEnd, Shape, Enters
<1>9. ASSUME NEW w \in Worker, NEW c \in Child, Recurse(w, c) PROVE Once'
  <2>1. /\ c \notin scheduled /\ scheduled' = scheduled \cup {c}
        /\ at'[w] = c
        /\ \A v \in Worker \ {w} : at'[v] = at[v] /\ wpc'[v] = wpc[v]
        /\ UNCHANGED <<work_queue, counted>>
    BY <1>9 DEF Recurse, Shape
  <2>2. \A v \in Worker \ {w} : Enters(v)' <=> Enters(v)
    BY <2>1 DEF Enters
  <2>3. QED  BY <2>1, <2>2 DEF Once
<1>10. ASSUME NEW w \in Worker, Release(w) PROVE Once'
  BY <1>10, OnceKept DEF Release, Shape, Enters
<1>11. CASE UNCHANGED vars
  BY <1>11, OnceKept DEF vars, Enters
<1>12. QED
  BY <1>1, <1>2, <1>3, <1>4, <1>5, <1>6, <1>7, <1>8, <1>9, <1>10, <1>11
     DEF Next, WorkerStep, Done

(* The counter of a content is 0 until an sbuf with it is counted, and of  *)
(* those that are, one was counted first.                                  *)
FirstOf(h) ==
    Equal(h) # {} =>
        \E s \in Equal(h) : \A t \in Equal(h) : ~seen_before[t] <=> t = s
Sightings ==
    /\ previously_processed_counter \in [Hash -> Nat]
    /\ seen_before \in [Sbuf -> BOOLEAN]
    /\ \A h \in Hash : previously_processed_counter[h] = 0 <=> Equal(h) = {}
    /\ \A h \in Hash : FirstOf(h)

LEMMA SightingsInit == Init => Sightings
BY DEF Init, Sightings, Equal, FirstOf

LEMMA SightingsStep == Shape /\ Once /\ Sightings /\ [Next]_vars => Sightings'
<1> SUFFICES ASSUME Shape, Once, Sightings, [Next]_vars PROVE Sightings'
  OBVIOUS
<1> USE DEF threadVars, stats, history
<1>1. ASSUME UNCHANGED <<previously_processed_counter, seen_before, counted>>
      PROVE  Sightings'
  BY <1>1 DEF Sightings, Equal, FirstOf
<1>2. ASSUME NEW w \in Worker, Count(w) PROVE Sightings'
  <2>1. at[w] \in Sbuf /\ at[w] \notin counted /\ counted \subseteq Sbuf
    BY <1>2 DEF Count, Goes, Shape, Once, Enters
  <2>2. hash[at[w]] \in Hash
    BY <2>1 DEF Hash
  <2>3. PICK q \in Sbuf, g \in Hash : q = at[w] /\ g = hash[q]
    BY <2>1, <2>2
  <2>4. /\ previously_processed_counter' =
             [previously_processed_counter EXCEPT ![g] = @ + 1]
        /\ seen_before' = [seen_before EXCEPT ![q] = previously_processed_counter[g] > 0]
        /\ counted' = counted \cup {q}
    BY <1>2, <2>3 DEF Count, CountBefore
  <2>5. previously_processed_counter \in [Hash -> Nat] /\ previously_processed_counter[g] \in Nat
    BY DEF Sightings
  <2>6. seen_before \in [Sbuf -> BOOLEAN]
    BY DEF Sightings
  <2>7. previously_processed_counter' \in [Hash -> Nat] /\ seen_before' \in [Sbuf -> BOOLEAN]
    BY <2>4, <2>5, <2>6
  <2>8. q \notin counted
    BY <2>1, <2>3
  <2>9. \A h \in Hash : Equal(h) \subseteq counted
    BY DEF Equal
  <2>10. Equal(g)' = Equal(g) \cup {q} /\ q \notin Equal(g)
    BY <2>3, <2>4, <2>8 DEF Equal
  <2>11. \A h \in Hash \ {g} : Equal(h)' = Equal(h)
    BY <2>3, <2>4 DEF Equal
  <2>12. ASSUME NEW h \in Hash
         PROVE  previously_processed_counter'[h] = 0 <=> Equal(h)' = {}
    <3>1. CASE h = g
      BY <2>4, <2>5, <2>10, <3>1
    <3>2. CASE h # g
      <4>1. previously_processed_counter'[h] = previously_processed_counter[h]
        BY <2>4, <2>5, <3>2
      <4>2. QED  BY <2>11, <3>2, <4>1 DEF Sightings
    <3>3. QED  BY <3>1, <3>2
  <2>13. \A t \in counted : seen_before'[t] = seen_before[t]
    BY <2>1, <2>4, <2>6, <2>8
  <2>14. seen_before'[q] <=> previously_processed_counter[g] > 0
    BY <2>4, <2>6
  <2>15. ASSUME NEW h \in Hash, h # g PROVE FirstOf(h)'
    BY <2>9, <2>11, <2>13, <2>15 DEF Sightings, FirstOf
  <2>16. FirstOf(g)'
    <3>1. CASE Equal(g) = {}
      <4>1. ~seen_before'[q]
        BY <2>5, <2>14, <3>1 DEF Sightings
      <4>2. QED  BY <2>10, <3>1, <4>1 DEF FirstOf
    <3>2. CASE Equal(g) # {}
      <4>1. seen_before'[q]
        BY <2>5, <2>14, <3>2 DEF Sightings
      <4>2. PICK s \in Equal(g) : \A t \in Equal(g) : ~seen_before[t] <=> t = s
        BY <3>2 DEF Sightings, FirstOf
      <4>3. \A t \in Equal(g)' : ~seen_before'[t] <=> t = s
        BY <2>9, <2>10, <2>13, <4>1, <4>2
      <4>4. s \in Equal(g)'
        BY <2>10
      <4>5. QED  BY <4>3, <4>4 DEF FirstOf
    <3>3. QED  BY <3>1, <3>2
  <2>17. \A h \in Hash : FirstOf(h)'
    BY <2>15, <2>16
  <2>18. QED  BY <2>7, <2>12, <2>17 DEF Sightings
<1>3. QED
  BY <1>1, <1>2 DEF Next, WorkerStep, Done, vars, Schedule, TakeWork, ReturnEmpty,
     RefuseDeep, Enter, UpdateMaximum, PushScannerTask, Dispatched, Recurse,
     ScannerReturns, RecordWorkEnd, Release

(* One of equal buffers is new.                                            *)
LEMMA OneNew == Sightings => OneIsNew
<1> SUFFICES ASSUME Sightings, NEW h \in Hash, Equal(h) # {}
             PROVE  Cardinality({s \in Equal(h) : ~seen_before[s]}) = 1
  BY DEF OneIsNew
<1>1. PICK s \in Equal(h) : \A t \in Equal(h) : ~seen_before[t] <=> t = s
  BY DEF Sightings, FirstOf
<1>2. {t \in Equal(h) : ~seen_before[t]} = {s}
  BY <1>1
<1> QED BY <1>2, FS_Singleton

(* Of equal buffers exactly one is taken for new, on however many threads  *)
(* they are met at the same time.                                          *)
THEOREM FirstSight == Spec => []OneIsNew
<1>1. Shape /\ Once /\ Sightings /\ [Next]_vars => (Shape /\ Once /\ Sightings)'
  BY ShapeStep, OnceStep, SightingsStep
<1>2. Init => Shape /\ Once /\ Sightings
  BY ShapeInit, OnceInit, SightingsInit
<1>3. Sightings => OneIsNew
  BY OneNew
<1>4. QED  BY <1>1, <1>2, <1>3, PTL DEF Spec
-----------------------------------------------------------------------------
(* What every worker and every unit is about.  A worker at another sbuf    *)
(* than its unit's is in a child that its scanner recursed into; that      *)
(* scanner may run on the sbuf of the unit, which was counted.             *)
Recursed(w) == at[w] # wu[w].sbuf
OnDuty(w) ==
    /\ wpc[w] = "idle" => at[w] = NullSbuf /\ wu[w].sbuf = NullSbuf
    /\ wpc[w] # "idle" => at[w] \in scheduled /\ wu[w].sbuf \in scheduled
    /\ Recursed(w) \/ wpc[w] = "scanning" =>
          wu[w].scanner \in Scanner /\ MayRun(wu[w].sbuf, wu[w].scanner)
    /\ wpc[w] = "scanning" => ~Recursed(w)
    /\ wpc[w] = "dispatching" => at[w] \in counted
    /\ wpc[w] # "idle" /\ wu[w].scanner # NoScanner => wu[w].sbuf \in counted
InOrder(u, S, C) ==
    /\ u.sbuf \in S
    /\ u.scanner # NoScanner => u.sbuf \in C
Working ==
    /\ \A w \in Worker : OnDuty(w)
    /\ \A i \in DOMAIN work_queue : InOrder(work_queue[i], scheduled, counted)
    /\ \A s \in Sbuf, sc \in Scanner : sc \in ran[s] => s \in counted /\ MayRun(s, sc)

LEMMA WorkingInit == Init => Working
BY DEF Init, Working, OnDuty, InOrder, Recursed, Unit

(* What was scheduled or counted stays so, and whether an sbuf is a        *)
(* duplicate does not change once it is counted.                           *)
Settling ==
    /\ scheduled \subseteq scheduled' /\ counted \subseteq counted'
    /\ \A s \in counted : seen_before'[s] = seen_before[s]

LEMMA Settles == Shape /\ Once /\ Sightings /\ [Next]_vars => Settling
<1> SUFFICES ASSUME Shape, Once, Sightings, [Next]_vars PROVE Settling
  OBVIOUS
<1> USE DEF threadVars, stats, history
<1>1. ASSUME NEW w \in Worker, Count(w) PROVE Settling
  <2>1. /\ at[w] \notin counted /\ counted' = counted \cup {at[w]}
        /\ UNCHANGED scheduled
    BY <1>1 DEF Count, Goes, Once, Enters
  <2>2. seen_before \in [Sbuf -> BOOLEAN] /\ counted \subseteq Sbuf
    BY DEF Shape, Sightings
  <2>3. \A s \in counted : seen_before'[s] = seen_before[s]
    <3> DEFINE q == at[w]
               b == CountBefore(hash[q]) > 0
    <3>1. seen_before' = [seen_before EXCEPT ![q] = b] /\ q \notin counted
      BY <1>1, <2>1 DEF Count
    <3> HIDE DEF q, b
    <3> QED BY <2>2, <3>1
  <2> QED BY <2>1, <2>3 DEF Settling
<1>2. ASSUME scheduled \subseteq scheduled', UNCHANGED <<counted, seen_before>> PROVE Settling
  BY <1>2 DEF Settling
<1>3. ASSUME NEW s \in Image, Schedule(s) PROVE Settling
  BY <1>2, <1>3 DEF Schedule
<1>4. ASSUME NEW w \in Worker, NEW c \in Child, Recurse(w, c) PROVE Settling
  BY <1>2, <1>4 DEF Recurse
<1> QED
  BY <1>1, <1>2, <1>3, <1>4 DEF Next, WorkerStep, Done, vars, TakeWork, ReturnEmpty,
     RefuseDeep, Enter, UpdateMaximum, PushScannerTask, Dispatched,
     ScannerReturns, RecordWorkEnd, Release

LEMMA OnDutyKept ==
    ASSUME Settling, NEW w \in Worker, OnDuty(w),
           wpc'[w] = wpc[w], at'[w] = at[w], wu'[w] = wu[w]
    PROVE  OnDuty(w)'
BY RecordsAssumption DEF OnDuty, Recursed, MayRun, Settling

LEMMA WorkingStep == Shape /\ Once /\ Sightings /\ Working /\ [Next]_vars => Working'
<1> SUFFICES ASSUME Shape, Once, Sightings, Working, [Next]_vars PROVE Working'
  OBVIOUS
<1> USE DEF threadVars, stats, history, Goes
<1>1. Settling
  BY Settles
<1>2. \A s \in Sbuf, sc \in Scanner : sc \in ran[s] => s \in counted' /\ MayRun(s, sc)'
  BY <1>1 DEF Settling, Working, MayRun
<1>3. \A i \in DOMAIN work_queue : InOrder(work_queue[i], scheduled', counted')
  BY <1>1 DEF Settling, Working, InOrder
<1>4. ASSUME NEW w \in Worker, OnDuty(w)',
             \A v \in Worker \ {w} : wpc'[v] = wpc[v] /\ at'[v] = at[v] /\ wu'[v] = wu[v]
      PROVE  \A v \in Worker : OnDuty(v)'
  BY <1>1, <1>4, OnDutyKept DEF Working
<1>5. ASSUME UNCHANGED <<wpc, at, wu>> PROVE \A v \in Worker : OnDuty(v)'
  BY <1>1, <1>5, OnDutyKept DEF Working
<1>6. ASSUME NEW u \in WorkUnit, work_queue' = Append(work_queue, u), InOrder(u, scheduled', counted')
      PROVE  \A i \in DOMAIN work_queue' : InOrder(work_queue'[i], scheduled', counted')
  <2>1. work_queue \in Seq(WorkUnit)
    BY DEF Shape
  <2>2. /\ DOMAIN work_queue = 1 .. Len(work_queue) /\ Len(work_queue) \in Nat
        /\ DOMAIN work_queue' = 1 .. Len(work_queue) + 1
        /\ \A i \in 1 .. Len(work_queue) : work_queue'[i] = work_queue[i]
        /\ work_queue'[Len(work_queue) + 1] = u
    BY <1>6, <2>1, AppendProperties, LenProperties
  <2> QED BY <1>3, <1>6, <2>2
<1>7. ASSUME NEW s \in Image, Schedule(s) PROVE Working'
  <2>1. s \in Sbuf /\ Unit(s, NoScanner) \in WorkUnit /\ InOrder(Unit(s, NoScanner), scheduled', counted')
    BY <1>7, UnitType DEF Schedule, Sbuf, InOrder, Unit
  <2>2. work_queue' = Append(work_queue, Unit(s, NoScanner)) /\ UNCHANGED <<wpc, at, wu, ran>>
    BY <1>7 DEF Schedule
  <2> QED BY <1>2, <1>5, <1>6, <2>1, <2>2 DEF Working
<1>8. ASSUME NEW w \in Worker, TakeWork(w) PROVE Working'
  <2>1. /\ Head(work_queue) = work_queue[1] /\ Head(work_queue) \in WorkUnit
        /\ work_queue' \in Seq(WorkUnit) /\ work_queue' = Tail(work_queue)
        /\ Len(work_queue') = Len(work_queue) - 1 /\ Len(work_queue) \in Nat \ {0}
        /\ \A i \in 1 .. Len(work_queue) - 1 : work_queue'[i] = work_queue[i + 1]
    BY <1>8, TakeType DEF TakeWork, Shape
  <2>2. /\ DOMAIN work_queue = 1 .. Len(work_queue)
        /\ DOMAIN work_queue' = 1 .. Len(work_queue) - 1
    BY <2>1 DEF Shape
  <2>3. \A i \in DOMAIN work_queue' : InOrder(work_queue'[i], scheduled', counted')
    BY <1>3, <2>1, <2>2
  <2>4. InOrder(Head(work_queue), scheduled, counted)
    BY <2>1, <2>2 DEF Working
  <2> DEFINE u == Head(work_queue)
  <2>5. /\ wu'[w] = u /\ at'[w] = u.sbuf
        /\ wpc'[w] = IF u.scanner = NoScanner THEN "entering"
                     ELSE IF MayRun(u.sbuf, u.scanner) THEN "scanning" ELSE "ending"
        /\ \A v \in Worker \ {w} : wpc'[v] = wpc[v] /\ at'[v] = at[v] /\ wu'[v] = wu[v]
        /\ UNCHANGED <<scheduled, counted, seen_before, ran>>
    BY <1>8 DEF TakeWork, Shape
  <2>6. OnDuty(w)'
    BY <2>1, <2>4, <2>5 DEF OnDuty, Recursed, InOrder, MayRun, WorkUnit
  <2> QED BY <1>2, <1>4, <2>3, <2>5, <2>6 DEF Working
<1>9. ASSUME NEW w \in Worker, UNCHANGED <<work_queue, at, wu, ran>>, wpc[w] # "idle",
             wpc'[w] \notin {"idle", "scanning"},
             wpc'[w] = "dispatching" => at[w] \in counted',
             \A v \in Worker \ {w} : wpc'[v] = wpc[v]
      PROVE  Working'
  <2>1. OnDuty(w)'
    BY <1>1, <1>9, RecordsAssumption DEF Working, OnDuty, Recursed, MayRun, Settling
  <2> QED BY <1>2, <1>3, <1>4, <1>9, <2>1 DEF Working
<1>10. ASSUME NEW w \in Worker,
              \/ ReturnEmpty(w) \/ RefuseDeep(w) \/ Enter(w)
              \/ Dispatched(w) \/ RecordWorkEnd(w)
       PROVE  Working'
  BY <1>9, <1>10 DEF ReturnEmpty, RefuseDeep, Enter, Dispatched, RecordWorkEnd, Shape
<1>11. ASSUME NEW w \in Worker, UpdateMaximum(w) PROVE Working'
  BY <1>9, <1>11 DEF UpdateMaximum, Shape
<1>12. ASSUME NEW w \in Worker, Count(w) PROVE Working'
  BY <1>9, <1>12 DEF Count, Shape
<1>13. ASSUME NEW w \in Worker, NEW sc \in Scanner, PushScannerTask(w, sc) PROVE Working'
  <2>1. /\ wpc[w] = "dispatching" /\ at[w] \in Sbuf
        /\ work_queue' = Append(work_queue, Unit(at[w], sc))
        /\ UNCHANGED <<wpc, at, wu, ran>>
    BY <1>13 DEF PushScannerTask, Shape
  <2>2. at[w] \in counted' /\ at[w] \in scheduled'
    BY <1>1, <2>1 DEF Working, OnDuty, Settling
  <2>3. Unit(at[w], sc) \in WorkUnit /\ InOrder(Unit(at[w], sc), scheduled', counted')
    BY <2>1, <2>2, UnitType DEF InOrder, Unit
  <2> QED BY <1>2, <1>5, <1>6, <2>1, <2>3 DEF Working
<1>14. ASSUME NEW w \in Worker, NEW c \in Child, Recurse(w, c) PROVE Working'
  <2>1. /\ wpc[w] = "scanning" /\ wpc'[w] = "entering"
        /\ at'[w] = c /\ c \in scheduled' /\ c \notin scheduled
        /\ UNCHANGED <<work_queue, wu, ran>>
        /\ \A v \in Worker \ {w} : wpc'[v] = wpc[v] /\ at'[v] = at[v]
    BY <1>14 DEF Recurse, Shape
  <2>2. OnDuty(w)'
    BY <1>1, <2>1, RecordsAssumption DEF Working, OnDuty, Recursed, MayRun, Settling
  <2> QED BY <1>2, <1>3, <1>4, <2>1, <2>2 DEF Working
<1>15. ASSUME NEW w \in Worker, ScannerReturns(w) PROVE Working'
  <2>1. /\ wpc[w] = "scanning" /\ wpc'[w] = "ending"
        /\ UNCHANGED <<work_queue, wu, at, seen_before, counted>>
        /\ \A v \in Worker \ {w} : wpc'[v] = wpc[v]
        /\ ran' = [ran EXCEPT ![wu[w].sbuf] = @ \cup {wu[w].scanner}]
    BY <1>15 DEF ScannerReturns, Shape
  <2>2. /\ wu[w].sbuf \in counted /\ MayRun(wu[w].sbuf, wu[w].scanner)
        /\ wu[w].scanner \in Scanner
    BY <2>1, RecordsAssumption DEF Working, OnDuty
  <2>3. \A s \in Sbuf, sc \in Scanner :
           sc \in ran'[s] => sc \in ran[s] \/ (s = wu[w].sbuf /\ sc = wu[w].scanner)
    <3> DEFINE q == wu[w].sbuf
               x == wu[w].scanner
    <3>1. ran' = [ran EXCEPT ![q] = @ \cup {x}]
      BY <2>1
    <3> HIDE DEF q, x
    <3>2. \A s, sc : sc \in ran'[s] => sc \in ran[s] \/ (s = q /\ sc = x)
      BY <3>1
    <3> QED BY <3>2 DEF q, x
  <2>4. \A s \in Sbuf, sc \in Scanner : sc \in ran'[s] => s \in counted' /\ MayRun(s, sc)'
    BY <1>2, <2>1, <2>2, <2>3 DEF MayRun
  <2>5. OnDuty(w)'
    BY <1>1, <2>1 DEF Working, OnDuty, Recursed, MayRun, Settling
  <2> QED BY <1>3, <1>4, <2>1, <2>4, <2>5 DEF Working
<1>16. ASSUME NEW w \in Worker, Release(w) PROVE Working'
  <2>1. /\ wpc[w] = "releasing" /\ OnDuty(w)
        /\ \A v \in Worker \ {w} : wpc'[v] = wpc[v] /\ at'[v] = at[v] /\ wu'[v] = wu[v]
        /\ UNCHANGED <<work_queue, ran>>
    BY <1>16 DEF Release, Shape, Working
  <2>2. CASE Recursed(w)
    <3>1. wpc'[w] = "scanning" /\ at'[w] = wu[w].sbuf /\ wu'[w] = wu[w]
      BY <1>16, <2>2 DEF Release, Recursed, Shape
    <3>2. OnDuty(w)'
      BY <1>1, <2>1, <2>2, <3>1, RecordsAssumption DEF OnDuty, Recursed, MayRun, Settling
    <3> QED BY <1>2, <1>3, <1>4, <2>1, <3>2 DEF Working
  <2>3. CASE ~Recursed(w)
    <3>1. wpc'[w] = "idle" /\ at'[w] = NullSbuf /\ wu'[w] = Unit(NullSbuf, NoScanner)
      BY <1>16, <2>3 DEF Release, Recursed, Shape
    <3>2. OnDuty(w)'
      BY <3>1 DEF OnDuty, Recursed, Unit
    <3> QED BY <1>2, <1>3, <1>4, <2>1, <3>2 DEF Working
  <2> QED BY <2>2, <2>3
<1>17. CASE UNCHANGED vars
  BY <1>2, <1>3, <1>5, <1>17 DEF vars, Working
<1> QED
  BY <1>7, <1>8, <1>10, <1>11, <1>12, <1>13, <1>14, <1>15, <1>16, <1>17
     DEF Next, WorkerStep, Done
-----------------------------------------------------------------------------
(* The types of the other variables.  A reference count could become       *)
(* negative as far as these go; that it does not follows from who holds    *)
(* references (Held below).                                                *)
OtherTypes ==
    /\ todo \in [Worker -> SUBSET Scanner]
    /\ ran \in [Sbuf -> SUBSET Scanner]
    /\ reference_count \in [Sbuf -> Int]
    /\ dup_bytes_encountered \in Nat
    /\ DOMAIN dfxml = Sbuf /\ \A s \in Sbuf : dfxml[s] \in Seq(Nat)

LEMMA OtherTypesInit == Init => OtherTypes
<1>1. \A s \in Sbuf : <<>> \in Seq(Nat)
  BY EmptySeq
<1> QED BY <1>1 DEF Init, OtherTypes

LEMMA AddLine ==
    ASSUME NEW q \in Seq(Nat), NEW n \in Nat
    PROVE  /\ Append(q, n) \in Seq(Nat)
           /\ Len(q) \in Nat /\ Len(Append(q, n)) = Len(q) + 1
           /\ DOMAIN q = 1 .. Len(q) /\ DOMAIN Append(q, n) = 1 .. Len(q) + 1
           /\ \A i \in 1 .. Len(q) : Append(q, n)[i] = q[i]
           /\ Append(q, n)[Len(q) + 1] = n
BY AppendProperties, LenProperties

-----------------------------------------------------------------------------
(* The reference count of an sbuf is exactly the number of its units in    *)
(* the queue and of the workers that hold it: nothing is released twice,   *)
(* and nothing that was released is used.                                  *)
UnitsOf(s) == {u \in WorkUnit : u.sbuf = s}
Queued(s) == CountIn(work_queue, UnitsOf(s))
Holders(s) == {w \in Worker : HeldBy(w, s)}
Held(s) == Cardinality(Holders(s))
References == \A s \in Sbuf : reference_count[s] = Queued(s) + Held(s)

LEMMA NoneHeld == Cardinality({}) = 0
BY FS_EmptySet

LEMMA ReferencesInit == Init => References
<1> SUFFICES ASSUME Init, NEW s \in Sbuf PROVE reference_count[s] = Queued(s) + Held(s)
  BY DEF References
<1>1. Queued(s) = 0
  BY CountEmpty DEF Init, Queued
<1>2. Holders(s) = {}
  BY DEF Init, Holders, HeldBy
<1>3. Held(s) = 0
  BY <1>2, NoneHeld DEF Held
<1> QED BY <1>1, <1>3 DEF Init

LEMMA HoldersFinite ==
    /\ \A s : IsFiniteSet(Holders(s)) /\ Held(s) \in Nat
    /\ \A s : IsFiniteSet(Holders(s))' /\ Held(s)' \in Nat
<1>1. \A H : H \subseteq Worker => IsFiniteSet(H) /\ Cardinality(H) \in Nat
  BY RecordsAssumption, FS_Subset, FS_CardinalityType
<1> QED BY <1>1 DEF Holders, Held

(* A worker that comes to hold an sbuf, and one that no longer does.       *)
LEMMA OneHolderMore ==
    ASSUME NEW s, NEW w \in Worker, ~HeldBy(w, s), HeldBy(w, s)',
           \A v \in Worker \ {w} : HeldBy(v, s)' <=> HeldBy(v, s)
    PROVE  Held(s)' = Held(s) + 1
<1>1. Holders(s)' = Holders(s) \cup {w} /\ w \notin Holders(s)
  BY DEF Holders
<1>2. IsFiniteSet(Holders(s))
  BY HoldersFinite
<1> QED BY <1>1, <1>2, FS_AddElement DEF Held

LEMMA OneHolderLess ==
    ASSUME NEW s, NEW w \in Worker, HeldBy(w, s), ~HeldBy(w, s)',
           \A v \in Worker \ {w} : HeldBy(v, s)' <=> HeldBy(v, s)
    PROVE  Held(s)' = Held(s) - 1
<1>1. Holders(s)' = Holders(s) \ {w} /\ w \in Holders(s)
  BY DEF Holders
<1>2. IsFiniteSet(Holders(s))
  BY HoldersFinite
<1> QED BY <1>1, <1>2, FS_RemoveElement DEF Held

LEMMA SameHolders ==
    ASSUME NEW s, \A v \in Worker : HeldBy(v, s)' <=> HeldBy(v, s)
    PROVE  Held(s)' = Held(s)
<1>1. Holders(s)' = Holders(s)
  BY DEF Holders
<1> QED BY <1>1 DEF Held

(* A unit that is added, and the first one that is taken.                  *)
LEMMA OneUnitMore ==
    ASSUME Shape, NEW r \in Sbuf, NEW sc \in Scanner \cup {NoScanner},
           work_queue' = Append(work_queue, Unit(r, sc)), NEW s \in Sbuf
    PROVE  Queued(s) \in Nat /\ Queued(s)' = Queued(s) + IF s = r THEN 1 ELSE 0
<1> DEFINE u == Unit(r, sc)
           Q == UnitsOf(s)
<1>1. work_queue \in Seq(WorkUnit) /\ u \in WorkUnit
  BY UnitType DEF Shape
<1>2. u \in Q <=> s = r
  BY <1>1, UnitType DEF UnitsOf
<1>3. work_queue' = Append(work_queue, u)
  OBVIOUS
<1>4. Queued(s) = CountIn(work_queue, Q) /\ Queued(s)' = CountIn(work_queue', Q)
  BY DEF Queued, UnitsOf
<1> HIDE DEF u, Q
<1>5. /\ CountIn(work_queue, Q) \in Nat
      /\ u \in Q => CountIn(Append(work_queue, u), Q) = CountIn(work_queue, Q) + 1
      /\ u \notin Q => CountIn(Append(work_queue, u), Q) = CountIn(work_queue, Q)
  BY <1>1, CountAppend
<1> QED BY <1>2, <1>3, <1>4, <1>5

LEMMA OneUnitLess ==
    ASSUME Shape, work_queue # <<>>, work_queue' = Tail(work_queue), NEW s \in Sbuf
    PROVE  /\ Queued(s) \in Nat /\ Queued(s)' \in Nat
           /\ Queued(s) = Queued(s)' + IF Head(work_queue).sbuf = s THEN 1 ELSE 0
<1> DEFINE Q == UnitsOf(s)
<1>1. work_queue \in Seq(WorkUnit) /\ Head(work_queue) \in WorkUnit
  BY TakeType DEF Shape
<1>2. Head(work_queue) \in Q <=> Head(work_queue).sbuf = s
  BY <1>1 DEF UnitsOf
<1>3. Queued(s) = CountIn(work_queue, Q) /\ Queued(s)' = CountIn(work_queue', Q)
  BY DEF Queued, UnitsOf
<1> HIDE DEF Q
<1>4. /\ CountIn(work_queue, Q) \in Nat /\ CountIn(Tail(work_queue), Q) \in Nat
      /\ Head(work_queue) \in Q => CountIn(work_queue, Q) = CountIn(Tail(work_queue), Q) + 1
      /\ Head(work_queue) \notin Q => CountIn(work_queue, Q) = CountIn(Tail(work_queue), Q)
  BY <1>1, CountTail
<1> QED BY <1>2, <1>3, <1>4

LEMMA QueuedNat == Shape => \A s : Queued(s) \in Nat
BY CountNat DEF Shape, Queued

LEMMA ReferencesStep ==
    Shape /\ Working /\ OtherTypes /\ References /\ [Next]_vars => References'
<1> SUFFICES ASSUME Shape, Working, OtherTypes, References, [Next]_vars,
                    NEW s \in Sbuf
             PROVE  reference_count'[s] = Queued(s)' + Held(s)'
  BY DEF References
<1> USE DEF threadVars, stats, history, Goes
<1>1. /\ reference_count[s] = Queued(s) + Held(s)
      /\ Held(s) \in Nat /\ Held(s)' \in Nat /\ reference_count \in [Sbuf -> Int]
  BY HoldersFinite DEF References, OtherTypes
<1>2. ASSUME UNCHANGED <<reference_count, work_queue>>,
             \A v \in Worker : HeldBy(v, s)' <=> HeldBy(v, s)
      PROVE  reference_count'[s] = Queued(s)' + Held(s)'
  <2>1. Held(s)' = Held(s)
    BY <1>2, SameHolders
  <2>2. Queued(s)' = Queued(s)
    BY <1>2 DEF Queued, UnitsOf
  <2> QED BY <1>1, <1>2, <2>1, <2>2
<1>3. ASSUME NEW r \in Sbuf, NEW sc \in Scanner \cup {NoScanner},
             work_queue' = Append(work_queue, Unit(r, sc)), Retain(r),
             UNCHANGED <<wpc, at, wu>>
      PROVE  reference_count'[s] = Queued(s)' + Held(s)'
  <2>1. Queued(s) \in Nat /\ Queued(s)' = Queued(s) + IF s = r THEN 1 ELSE 0
    BY <1>3, OneUnitMore
  <2>2. Held(s)' = Held(s)
    BY <1>3, SameHolders DEF HeldBy
  <2>3. reference_count'[s] = reference_count[s] + IF s = r THEN 1 ELSE 0
    BY <1>1, <1>3 DEF Retain
  <2> QED BY <1>1, <2>1, <2>2, <2>3
<1>4. ASSUME NEW r \in Image, Schedule(r) PROVE reference_count'[s] = Queued(s)' + Held(s)'
  BY <1>3, <1>4 DEF Schedule, Sbuf
<1>5. ASSUME NEW w \in Worker, TakeWork(w) PROVE reference_count'[s] = Queued(s)' + Held(s)'
  <2>1. /\ wpc[w] = "idle" /\ wpc'[w] # "idle"
        /\ wu'[w] = Head(work_queue) /\ at'[w] = Head(work_queue).sbuf
        /\ \A v \in Worker \ {w} : wpc'[v] = wpc[v] /\ at'[v] = at[v] /\ wu'[v] = wu[v]
        /\ work_queue # <<>> /\ work_queue' = Tail(work_queue)
        /\ UNCHANGED reference_count
    BY <1>5 DEF TakeWork, Shape
  <2>2. /\ Queued(s) \in Nat /\ Queued(s)' \in Nat
        /\ Queued(s) = Queued(s)' + IF Head(work_queue).sbuf = s THEN 1 ELSE 0
    BY <2>1, OneUnitLess
  <2>3. ~HeldBy(w, s) /\ (HeldBy(w, s)' <=> Head(work_queue).sbuf = s)
        /\ \A v \in Worker \ {w} : HeldBy(v, s)' <=> HeldBy(v, s)
    BY <2>1 DEF HeldBy
  <2>4. CASE Head(work_queue).sbuf = s
    <3>1. Held(s)' = Held(s) + 1
      BY <2>3, <2>4, OneHolderMore
    <3> QED BY <1>1, <2>1, <2>2, <2>4, <3>1
  <2>5. CASE Head(work_queue).sbuf # s
    <3>1. Held(s)' = Held(s)
      BY <2>3, <2>5, SameHolders
    <3> QED BY <1>1, <2>1, <2>2, <2>5, <3>1
  <2> QED BY <2>4, <2>5
<1>6. ASSUME NEW w \in Worker, UNCHANGED <<reference_count, work_queue, at, wu>>,
             wpc[w] # "idle", wpc'[w] # "idle",
             \A v \in Worker \ {w} : wpc'[v] = wpc[v]
      PROVE  reference_count'[s] = Queued(s)' + Held(s)'
  BY <1>2, <1>6 DEF HeldBy
<1>7. ASSUME NEW w \in Worker,
             \/ ReturnEmpty(w) \/ RefuseDeep(w) \/ Enter(w) \/ Count(w)
             \/ Dispatched(w) \/ ScannerReturns(w) \/ RecordWorkEnd(w)
      PROVE  reference_count'[s] = Queued(s)' + Held(s)'
  BY <1>6, <1>7 DEF ReturnEmpty, RefuseDeep, Enter, Count, Dispatched, ScannerReturns,
     RecordWorkEnd, Shape
<1>8. ASSUME NEW w \in Worker, UpdateMaximum(w)
      PROVE  reference_count'[s] = Queued(s)' + Held(s)'
  BY <1>6, <1>8 DEF UpdateMaximum, Shape
<1>9. ASSUME NEW w \in Worker, NEW sc \in Scanner, PushScannerTask(w, sc)
      PROVE  reference_count'[s] = Queued(s)' + Held(s)'
  BY <1>3, <1>9 DEF PushScannerTask, Shape
<1>10. ASSUME NEW w \in Worker, NEW c \in Child, Recurse(w, c)
       PROVE  reference_count'[s] = Queued(s)' + Held(s)'
  <2>1. /\ wpc[w] = "scanning" /\ wpc'[w] # "idle"
        /\ at[w] = wu[w].sbuf /\ at'[w] = c /\ c # wu[w].sbuf /\ wu'[w] = wu[w]
        /\ \A v \in Worker \ {w} : wpc'[v] = wpc[v] /\ at'[v] = at[v] /\ wu'[v] = wu[v]
        /\ UNCHANGED work_queue
    BY <1>10 DEF Recurse, Shape, Working, OnDuty, Recursed
  <2>2. reference_count'[s] = reference_count[s] + IF s = c THEN 1 ELSE 0
    BY <1>1, <1>10 DEF Recurse, Retain
  <2>3. Queued(s)' = Queued(s) /\ Queued(s) \in Int
    <3>1. Queued(s)' = Queued(s)
      BY <2>1 DEF Queued, UnitsOf
    <3>2. Queued(s) \in Nat
      BY QueuedNat
    <3> QED BY <3>1, <3>2
  <2>4. \A v \in Worker \ {w} : HeldBy(v, s)' <=> HeldBy(v, s)
    BY <2>1 DEF HeldBy
  <2>5. CASE s = c
    <3>1. ~HeldBy(w, s) /\ HeldBy(w, s)'
      BY <2>1, <2>5 DEF HeldBy
    <3>2. Held(s)' = Held(s) + 1
      BY <2>4, <3>1, OneHolderMore
    <3> QED BY <1>1, <2>2, <2>3, <2>5, <3>2
  <2>6. CASE s # c
    <3>1. HeldBy(w, s)' <=> HeldBy(w, s)
      BY <2>1, <2>6 DEF HeldBy
    <3>2. Held(s)' = Held(s)
      BY <2>4, <3>1, SameHolders
    <3> QED BY <1>1, <2>2, <2>3, <2>6, <3>2
  <2> QED BY <2>5, <2>6
<1>11. ASSUME NEW w \in Worker, Release(w) PROVE reference_count'[s] = Queued(s)' + Held(s)'
  <2>1. /\ wpc[w] = "releasing" /\ wpc'[w] = IF Recursed(w) THEN "scanning" ELSE "idle"
        /\ Recursed(w) => at'[w] = wu[w].sbuf /\ wu'[w] = wu[w]
        /\ \A v \in Worker \ {w} : wpc'[v] = wpc[v] /\ at'[v] = at[v] /\ wu'[v] = wu[v]
        /\ UNCHANGED work_queue
    BY <1>11 DEF Release, Recursed, Shape
  <2>2. reference_count'[s] = reference_count[s] - IF s = at[w] THEN 1 ELSE 0
    BY <1>1, <1>11 DEF Release
  <2>3. Queued(s)' = Queued(s) /\ Queued(s) \in Int
    <3>1. Queued(s)' = Queued(s)
      BY <2>1 DEF Queued, UnitsOf
    <3>2. Queued(s) \in Nat
      BY QueuedNat
    <3> QED BY <3>1, <3>2
  <2>4. \A v \in Worker \ {w} : HeldBy(v, s)' <=> HeldBy(v, s)
    BY <2>1 DEF HeldBy
  <2>5. CASE s = at[w]
    <3>1. HeldBy(w, s) /\ ~HeldBy(w, s)'
      BY <2>1, <2>5 DEF HeldBy, Recursed
    <3>2. Held(s)' = Held(s) - 1
      BY <2>4, <3>1, OneHolderLess
    <3> QED BY <1>1, <2>2, <2>3, <2>5, <3>2
  <2>6. CASE s # at[w]
    <3>1. HeldBy(w, s)' <=> HeldBy(w, s)
      BY <2>1, <2>6 DEF HeldBy, Recursed
    <3>2. Held(s)' = Held(s)
      BY <2>4, <3>1, SameHolders
    <3> QED BY <1>1, <2>2, <2>3, <2>6, <3>2
  <2> QED BY <2>5, <2>6
<1>12. CASE UNCHANGED vars
  BY <1>2, <1>12 DEF vars, HeldBy
<1> QED
  BY <1>4, <1>5, <1>7, <1>8, <1>9, <1>10, <1>11, <1>12 DEF Next, WorkerStep, Done

LEMMA CountIsNat == Shape /\ References => \A s \in Sbuf : reference_count[s] \in Nat
BY QueuedNat, HoldersFinite DEF References

LEMMA LogTypes ==
    ASSUME OtherTypes, NEW s \in Sbuf, NEW n \in Nat, Log(s, n)
    PROVE  DOMAIN dfxml' = Sbuf /\ \A r \in Sbuf : dfxml'[r] \in Seq(Nat)
<1>1. Append(dfxml[s], n) \in Seq(Nat)
  BY AddLine DEF OtherTypes
<1> QED BY <1>1 DEF Log, OtherTypes

LEMMA OtherTypesStep == Shape /\ Working /\ OtherTypes /\ References /\ [Next]_vars => OtherTypes'
<1> SUFFICES ASSUME Shape, Working, OtherTypes, References, [Next]_vars PROVE OtherTypes'
  OBVIOUS
<1> USE DEF threadVars, stats, history, Goes
<1>1. ASSUME UNCHANGED <<todo, ran, dup_bytes_encountered, dfxml>>,
             \E s \in Sbuf : Retain(s)
      PROVE  OtherTypes'
  BY <1>1 DEF OtherTypes, Retain
<1>2. ASSUME UNCHANGED <<todo, ran, dup_bytes_encountered, dfxml, reference_count>>
      PROVE  OtherTypes'
  BY <1>2 DEF OtherTypes
<1>3. ASSUME UNCHANGED <<todo, ran, dup_bytes_encountered, reference_count>>,
             \E s \in Sbuf, n \in Nat : Log(s, n)
      PROVE  OtherTypes'
  BY <1>3, LogTypes DEF OtherTypes
<1>4. ASSUME NEW s \in Image, Schedule(s) PROVE OtherTypes'
  BY <1>1, <1>4 DEF Schedule, Sbuf
<1>5. ASSUME NEW w \in Worker,
             TakeWork(w) \/ ReturnEmpty(w) \/ UpdateMaximum(w) \/ Dispatched(w)
      PROVE  OtherTypes'
  BY <1>2, <1>5 DEF TakeWork, ReturnEmpty, UpdateMaximum, Dispatched
<1>6. ASSUME NEW w \in Worker, RefuseDeep(w) \/ Enter(w) PROVE OtherTypes'
  <2>1. at[w] \in Sbuf /\ 0 \in Nat
    BY <1>6 DEF RefuseDeep, Enter, Shape
  <2>2. Log(at[w], 0) /\ UNCHANGED <<todo, ran, dup_bytes_encountered, reference_count>>
    BY <1>6 DEF RefuseDeep, Enter, WorkStart
  <2> QED BY <1>3, <2>1, <2>2
<1>7. ASSUME NEW w \in Worker, Count(w) PROVE OtherTypes'
  <2>1. at[w] \in Sbuf /\ bufsize[at[w]] \in Nat
    BY <1>7, RecordsAssumption DEF Count, Shape
  <2>2. dup_bytes_encountered' \in Nat
    BY <1>7, <2>1 DEF Count, OtherTypes
  <2> QED BY <1>7, <2>2 DEF Count, OtherTypes
<1>8. ASSUME NEW w \in Worker, NEW sc \in Scanner, PushScannerTask(w, sc) PROVE OtherTypes'
  BY <1>8 DEF PushScannerTask, Retain, OtherTypes, Shape
<1>9. ASSUME NEW w \in Worker, NEW c \in Child, Recurse(w, c) PROVE OtherTypes'
  BY <1>1, <1>9 DEF Recurse, Sbuf
<1>10. ASSUME NEW w \in Worker, ScannerReturns(w) PROVE OtherTypes'
  <2>1. wu[w].sbuf \in Sbuf /\ wu[w].scanner \in Scanner
    BY <1>10 DEF ScannerReturns, Shape, Working, OnDuty
  <2> QED BY <1>10, <2>1 DEF ScannerReturns, OtherTypes
<1>11. ASSUME NEW w \in Worker, RecordWorkEnd(w) PROVE OtherTypes'
  <2>1. at[w] \in Sbuf /\ CountHeld(at[w]) \in Nat
    BY <1>11, CountIsNat DEF RecordWorkEnd, Shape, CountHeld
  <2> QED BY <1>3, <1>11, <2>1 DEF RecordWorkEnd
<1>12. ASSUME NEW w \in Worker, Release(w) PROVE OtherTypes'
  <2>1. at[w] \in Sbuf
    BY <1>12 DEF Release, Shape
  <2>2. reference_count' \in [Sbuf -> Int]
    BY <1>12, <2>1 DEF Release, OtherTypes
  <2> QED BY <1>12, <2>2 DEF Release, OtherTypes
<1>13. CASE UNCHANGED vars
  BY <1>2, <1>13 DEF vars
<1> QED
  BY <1>4, <1>5, <1>6, <1>7, <1>8, <1>9, <1>10, <1>11, <1>12, <1>13 DEF Next, WorkerStep, Done

-----------------------------------------------------------------------------
(* A scanner that may run on an sbuf that was counted has run, or the      *)
(* worker that dispatches the sbuf has yet to push its unit, or its unit   *)
(* is in the queue, or a worker runs it.                                   *)
Running(w) == wpc[w] # "idle" /\ (wpc[w] = "scanning" \/ Recursed(w))
Pushing(w, s, sc) == wpc[w] = "dispatching" /\ at[w] = s /\ sc \in todo[w]
Runs(w, s, sc) == Running(w) /\ wu[w].sbuf = s /\ wu[w].scanner = sc
Waits(i, s, sc) == work_queue[i].sbuf = s /\ work_queue[i].scanner = sc
Pending(s, sc) ==
    \/ \E w \in Worker : Pushing(w, s, sc) \/ Runs(w, s, sc)
    \/ \E i \in DOMAIN work_queue : Waits(i, s, sc)
Covered ==
    \A s \in counted, sc \in Scanner : MayRun(s, sc) => sc \in ran[s] \/ Pending(s, sc)

LEMMA CoveredInit == Init => Covered
BY DEF Init, Covered

(* The units of a queue that is added to.                                  *)
LEMMA StillWaits ==
    ASSUME Shape, NEW u \in WorkUnit, work_queue' = Append(work_queue, u),
           NEW s, NEW sc
    PROVE  /\ (\E i \in DOMAIN work_queue : Waits(i, s, sc)) =>
                 \E i \in DOMAIN work_queue' : Waits(i, s, sc)'
           /\ u.sbuf = s /\ u.scanner = sc => \E i \in DOMAIN work_queue' : Waits(i, s, sc)'
<1>1. work_queue \in Seq(WorkUnit)
  BY DEF Shape
<1>2. /\ DOMAIN work_queue = 1 .. Len(work_queue) /\ Len(work_queue) \in Nat
      /\ DOMAIN work_queue' = 1 .. Len(work_queue) + 1
      /\ \A i \in 1 .. Len(work_queue) : work_queue'[i] = work_queue[i]
      /\ work_queue'[Len(work_queue) + 1] = u
  BY <1>1, AppendProperties, LenProperties
<1> QED BY <1>2 DEF Waits

LEMMA CoveredStep ==
    Shape /\ Once /\ Sightings /\ Working /\ OtherTypes /\ Covered /\ [Next]_vars => Covered'
<1> SUFFICES ASSUME Shape, Once, Sightings, Working, OtherTypes, Covered, [Next]_vars,
                    NEW s \in counted', NEW sc \in Scanner, MayRun(s, sc)'
             PROVE  sc \in ran'[s] \/ Pending(s, sc)'
  BY DEF Covered
<1> USE DEF threadVars, stats, history, Goes
<1>1. s \in counted => sc \in ran[s] \/ Pending(s, sc)
  BY Settles DEF Settling, MayRun, Covered
<1>2. ASSUME NEW w \in Worker, UNCHANGED counted,
             \A v \in Worker \ {w} : /\ wpc'[v] = wpc[v] /\ at'[v] = at[v]
                                     /\ wu'[v] = wu[v] /\ todo'[v] = todo[v],
             Pushing(w, s, sc) \/ Runs(w, s, sc) =>
                sc \in ran'[s] \/ Pending(s, sc)',
             \A i \in DOMAIN work_queue : Waits(i, s, sc) => Pending(s, sc)',
             sc \in ran[s] => sc \in ran'[s]
      PROVE  sc \in ran'[s] \/ Pending(s, sc)'
  BY <1>1, <1>2 DEF Pending, Pushing, Runs, Running, Recursed
<1>3. ASSUME NEW w \in Worker, UNCHANGED <<work_queue, counted, wu, todo, ran>>,
             \A v \in Worker \ {w} : wpc'[v] = wpc[v] /\ at'[v] = at[v],
             ~Pushing(w, s, sc),
             Runs(w, s, sc) => Runs(w, s, sc)'
      PROVE  sc \in ran'[s] \/ Pending(s, sc)'
  BY <1>2, <1>3 DEF Pending, Waits
<1>4. ASSUME NEW r \in Image, Schedule(r) PROVE sc \in ran'[s] \/ Pending(s, sc)'
  <2>1. /\ work_queue' = Append(work_queue, Unit(r, NoScanner))
        /\ Unit(r, NoScanner) \in WorkUnit
        /\ UNCHANGED <<counted, wpc, at, wu, todo, ran>>
    BY <1>4, UnitType DEF Schedule, Sbuf
  <2>2. (\E i \in DOMAIN work_queue : Waits(i, s, sc)) =>
              \E i \in DOMAIN work_queue' : Waits(i, s, sc)'
    BY <2>1, StillWaits
  <2> QED BY <1>1, <2>1, <2>2 DEF Pending, Pushing, Runs, Running, Recursed
<1>5. ASSUME NEW w \in Worker, TakeWork(w) PROVE sc \in ran'[s] \/ Pending(s, sc)'
  <2> DEFINE n == Len(work_queue)
  <2>1. /\ Head(work_queue) = work_queue[1] /\ Head(work_queue) \in WorkUnit
        /\ Len(work_queue') = n - 1 /\ n \in Nat \ {0}
        /\ \A i \in 1 .. n - 1 : work_queue'[i] = work_queue[i + 1]
        /\ work_queue' \in Seq(WorkUnit)
    BY <1>5, TakeType DEF TakeWork, Shape
  <2>2. DOMAIN work_queue = 1 .. n /\ DOMAIN work_queue' = 1 .. n - 1
    BY <2>1 DEF Shape
  <2>3. /\ wpc[w] = "idle" /\ UNCHANGED <<counted, todo, ran, seen_before>>
        /\ wu'[w] = work_queue[1]
        /\ \A v \in Worker \ {w} : wpc'[v] = wpc[v] /\ at'[v] = at[v] /\ wu'[v] = wu[v]
        /\ wpc'[w] = IF work_queue[1].scanner = NoScanner THEN "entering"
                     ELSE IF MayRun(work_queue[1].sbuf, work_queue[1].scanner)
                     THEN "scanning" ELSE "ending"
    BY <1>5, <2>1 DEF TakeWork, Shape
  <2>4. ASSUME NEW i \in DOMAIN work_queue, Waits(i, s, sc) PROVE Pending(s, sc)'
    <3>1. CASE i = 1
      <4>1. /\ work_queue[1].sbuf = s /\ work_queue[1].scanner = sc
            /\ sc # NoScanner /\ MayRun(s, sc)
        BY <2>3, <2>4, <3>1, RecordsAssumption DEF Waits, MayRun
      <4>2. Runs(w, s, sc)'
        BY <2>3, <4>1 DEF Runs, Running
      <4> QED BY <4>2 DEF Pending
    <3>2. CASE i # 1
      <4>1. i - 1 \in DOMAIN work_queue' /\ work_queue'[i - 1] = work_queue[i]
        BY <2>1, <2>2, <3>2
      <4>2. Waits(i - 1, s, sc)'
        BY <2>4, <4>1 DEF Waits
      <4> QED BY <4>1, <4>2 DEF Pending
    <3> QED BY <3>1, <3>2
  <2>5. ~Pushing(w, s, sc) /\ ~Runs(w, s, sc)
    BY <2>3 DEF Pushing, Runs, Running
  <2> QED BY <1>2, <2>3, <2>4, <2>5
<1>6. ASSUME NEW w \in Worker, UNCHANGED <<work_queue, counted, at, wu, todo, ran>>,
             wpc[w] \notin {"idle", "scanning", "dispatching"}, wpc'[w] # "idle",
             \A v \in Worker \ {w} : wpc'[v] = wpc[v]
      PROVE  sc \in ran'[s] \/ Pending(s, sc)'
  BY <1>3, <1>6 DEF Pushing, Runs, Running, Recursed
<1>7. ASSUME NEW w \in Worker,
             ReturnEmpty(w) \/ RefuseDeep(w) \/ Enter(w) \/ RecordWorkEnd(w)
      PROVE  sc \in ran'[s] \/ Pending(s, sc)'
  BY <1>6, <1>7 DEF ReturnEmpty, RefuseDeep, Enter, RecordWorkEnd, Shape
<1>8. ASSUME NEW w \in Worker, UpdateMaximum(w) PROVE sc \in ran'[s] \/ Pending(s, sc)'
  BY <1>6, <1>8 DEF UpdateMaximum, Shape
<1>9. ASSUME NEW w \in Worker, Count(w) PROVE sc \in ran'[s] \/ Pending(s, sc)'
  <2>1. /\ wpc[w] = "counting" /\ wpc'[w] = "dispatching" /\ todo'[w] = Scanner
        /\ \A v \in Worker \ {w} : wpc'[v] = wpc[v] /\ todo'[v] = todo[v]
        /\ counted' = counted \cup {at[w]}
        /\ UNCHANGED <<work_queue, at, wu, ran>>
    BY <1>9 DEF Count, Shape, OtherTypes
  <2>2. CASE s = at[w]
    <3>1. Pushing(w, s, sc)'
      BY <2>1, <2>2 DEF Pushing
    <3> QED BY <3>1 DEF Pending
  <2>3. CASE s # at[w]
    <3>1. s \in counted
      BY <2>1, <2>3
    <3>2. \A v \in Worker : Pushing(v, s, sc) => Pushing(v, s, sc)'
      BY <2>1 DEF Pushing
    <3>3. \A v \in Worker : Runs(v, s, sc) => Runs(v, s, sc)'
      BY <2>1 DEF Runs, Running, Recursed
    <3> QED BY <1>1, <2>1, <3>1, <3>2, <3>3 DEF Pending, Waits
  <2> QED BY <2>2, <2>3
<1>10. ASSUME NEW w \in Worker, NEW x \in Scanner, PushScannerTask(w, x)
       PROVE  sc \in ran'[s] \/ Pending(s, sc)'
  <2>1. /\ at[w] \in Sbuf /\ work_queue' = Append(work_queue, Unit(at[w], x))
        /\ todo' = [todo EXCEPT ![w] = @ \ {x}]
        /\ UNCHANGED <<counted, wpc, at, wu, ran>>
    BY <1>10 DEF PushScannerTask, Shape
  <2>2. /\ Unit(at[w], x) \in WorkUnit
        /\ Unit(at[w], x).sbuf = at[w] /\ Unit(at[w], x).scanner = x
    BY <2>1, UnitType
  <2>3. /\ (\E i \in DOMAIN work_queue : Waits(i, s, sc)) =>
                 \E i \in DOMAIN work_queue' : Waits(i, s, sc)'
        /\ at[w] = s /\ x = sc => \E i \in DOMAIN work_queue' : Waits(i, s, sc)'
    BY <2>1, <2>2, StillWaits
  <2>4. ASSUME NEW v \in Worker, Pushing(v, s, sc)
        PROVE  Pushing(v, s, sc)' \/ \E i \in DOMAIN work_queue' : Waits(i, s, sc)'
    BY <2>1, <2>3, <2>4 DEF Pushing, OtherTypes
  <2>5. \A v \in Worker : Runs(v, s, sc) => Runs(v, s, sc)'
    BY <2>1 DEF Runs, Running, Recursed
  <2> QED BY <1>1, <2>1, <2>3, <2>4, <2>5 DEF Pending
<1>11. ASSUME NEW w \in Worker, Dispatched(w) PROVE sc \in ran'[s] \/ Pending(s, sc)'
  <2>1. /\ wpc[w] = "dispatching" /\ wpc'[w] = "ending" /\ todo[w] = {}
        /\ \A v \in Worker \ {w} : wpc'[v] = wpc[v]
        /\ UNCHANGED <<work_queue, counted, at, wu, todo, ran>>
    BY <1>11 DEF Dispatched, Shape
  <2>2. ~Pushing(w, s, sc) /\ (Runs(w, s, sc) => Runs(w, s, sc)')
    BY <2>1 DEF Pushing, Runs, Running, Recursed
  <2> QED BY <1>3, <2>1, <2>2
<1>12. ASSUME NEW w \in Worker, NEW c \in Child, Recurse(w, c)
       PROVE  sc \in ran'[s] \/ Pending(s, sc)'
  <2>1. /\ wpc[w] = "scanning" /\ wpc'[w] = "entering" /\ at'[w] = c
        /\ c \notin scheduled /\ wu[w].sbuf \in scheduled
        /\ \A v \in Worker \ {w} : wpc'[v] = wpc[v] /\ at'[v] = at[v]
        /\ UNCHANGED <<work_queue, counted, wu, todo, ran>>
    BY <1>12 DEF Recurse, Shape, Working, OnDuty
  <2>2. ~Pushing(w, s, sc) /\ (Runs(w, s, sc) => Runs(w, s, sc)')
    BY <2>1 DEF Pushing, Runs, Running, Recursed
  <2> QED BY <1>3, <2>1, <2>2
<1>13. ASSUME NEW w \in Worker, ScannerReturns(w) PROVE sc \in ran'[s] \/ Pending(s, sc)'
  <2>1. /\ wpc[w] = "scanning"
        /\ \A v \in Worker \ {w} : wpc'[v] = wpc[v]
        /\ UNCHANGED <<work_queue, counted, at, wu, todo>>
        /\ ran' = [ran EXCEPT ![wu[w].sbuf] = @ \cup {wu[w].scanner}]
        /\ s \in Sbuf
    BY <1>13 DEF ScannerReturns, Shape
  <2>2. ~Pushing(w, s, sc) /\ (Runs(w, s, sc) => sc \in ran'[s])
    BY <2>1 DEF Pushing, Runs, OtherTypes
  <2>3. sc \in ran[s] => sc \in ran'[s]
    BY <2>1 DEF OtherTypes
  <2>4. \A i \in DOMAIN work_queue : Waits(i, s, sc) => Pending(s, sc)'
    BY <2>1 DEF Pending, Waits
  <2> QED BY <1>2, <2>1, <2>2, <2>3, <2>4
<1>14. ASSUME NEW w \in Worker, Release(w) PROVE sc \in ran'[s] \/ Pending(s, sc)'
  <2>1. /\ wpc[w] = "releasing"
        /\ Recursed(w) => wpc'[w] = "scanning" /\ wu'[w] = wu[w]
        /\ \A v \in Worker \ {w} : wpc'[v] = wpc[v] /\ at'[v] = at[v] /\ wu'[v] = wu[v]
        /\ UNCHANGED <<work_queue, counted, todo, ran>>
    BY <1>14 DEF Release, Recursed, Shape
  <2>2. ~Pushing(w, s, sc) /\ (Runs(w, s, sc) => Runs(w, s, sc)')
    BY <2>1 DEF Pushing, Runs, Running
  <2>3. Runs(w, s, sc) => Pending(s, sc)'
    BY <2>2 DEF Pending
  <2>4. \A i \in DOMAIN work_queue : Waits(i, s, sc) => Pending(s, sc)'
    BY <2>1 DEF Pending, Waits
  <2> QED BY <1>2, <2>1, <2>2, <2>3, <2>4
<1>15. CASE UNCHANGED vars
  <2>1. UNCHANGED <<counted, wpc, at, wu, todo, ran, work_queue>>
    BY <1>15 DEF vars
  <2> QED BY <1>1, <2>1 DEF Pending, Pushing, Runs, Running, Recursed, Waits
<1> QED
  BY <1>4, <1>5, <1>7, <1>8, <1>9, <1>10, <1>11, <1>12, <1>13, <1>14, <1>15
     DEF Next, WorkerStep, Done

-----------------------------------------------------------------------------
(* An sbuf is settled when no unit of it is queued and only workers that   *)
(* release it hold it; a line with the count 1 is the last one about an    *)
(* sbuf that is settled, and what is settled stays so.                     *)
Settled(s) ==
    /\ s \in scheduled
    /\ \A j \in DOMAIN work_queue : work_queue[j].sbuf # s
    /\ \A w \in Worker : HeldBy(w, s) => wpc[w] = "releasing" /\ at[w] = s
LastLine == \A s \in Sbuf : \A i \in DOMAIN dfxml[s] :
    dfxml[s][i] = 1 => i = Len(dfxml[s]) /\ Settled(s)

LEMMA LastLineInit == Init => LastLine
<1>1. DOMAIN <<>> = {}
  OBVIOUS
<1> QED BY <1>1 DEF Init, LastLine

LEMMA SettledStays ==
    ASSUME Shape, Once, Sightings, Working, [Next]_vars, NEW s, Settled(s)
    PROVE  Settled(s)'
<1> USE DEF threadVars, stats, history, Goes
<1>1. s \in scheduled'
  BY Settles DEF Settling, Settled
<1>2. ASSUME NEW w \in Worker, UNCHANGED work_queue,
             HeldBy(w, s)' => wpc'[w] = "releasing" /\ at'[w] = s,
             \A v \in Worker \ {w} : wpc'[v] = wpc[v] /\ at'[v] = at[v] /\ wu'[v] = wu[v]
      PROVE  Settled(s)'
  BY <1>1, <1>2 DEF Settled, HeldBy
<1>3. ASSUME NEW r \in Sbuf, r # s, NEW sc \in Scanner \cup {NoScanner},
             work_queue' = Append(work_queue, Unit(r, sc)), UNCHANGED <<wpc, at, wu>>
      PROVE  Settled(s)'
  <2>1. /\ DOMAIN work_queue = 1 .. Len(work_queue) /\ Len(work_queue) \in Nat
        /\ DOMAIN work_queue' = 1 .. Len(work_queue) + 1
        /\ \A i \in 1 .. Len(work_queue) : work_queue'[i] = work_queue[i]
        /\ work_queue'[Len(work_queue) + 1] = Unit(r, sc)
    <3>1. work_queue \in Seq(WorkUnit) /\ Unit(r, sc) \in WorkUnit
      BY UnitType DEF Shape
    <3> QED BY <1>3, <3>1, AppendProperties, LenProperties
  <2>2. Unit(r, sc).sbuf # s
    BY <1>3 DEF Unit
  <2>3. \A j \in DOMAIN work_queue' : work_queue'[j].sbuf # s
    BY <2>1, <2>2 DEF Settled
  <2> QED BY <1>1, <1>3, <2>3 DEF Settled, HeldBy
<1>4. ASSUME NEW r \in Image, Schedule(r) PROVE Settled(s)'
  <2>1. r # s /\ r \in Sbuf
    BY <1>4 DEF Schedule, Settled, Sbuf
  <2> QED BY <1>3, <1>4, <2>1 DEF Schedule
<1>5. ASSUME NEW w \in Worker, TakeWork(w) PROVE Settled(s)'
  <2>1. /\ Head(work_queue) = work_queue[1]
        /\ Len(work_queue') = Len(work_queue) - 1 /\ Len(work_queue) \in Nat \ {0}
        /\ \A i \in 1 .. Len(work_queue) - 1 : work_queue'[i] = work_queue[i + 1]
        /\ work_queue' \in Seq(WorkUnit)
    BY <1>5, TakeType DEF TakeWork, Shape
  <2>2. /\ DOMAIN work_queue = 1 .. Len(work_queue)
        /\ DOMAIN work_queue' = 1 .. Len(work_queue) - 1
    BY <2>1 DEF Shape
  <2>3. \A j \in DOMAIN work_queue' : work_queue'[j].sbuf # s
    <3>1. \A j \in DOMAIN work_queue' :
             j + 1 \in DOMAIN work_queue /\ work_queue'[j] = work_queue[j + 1]
      BY <2>1, <2>2
    <3> QED BY <3>1 DEF Settled
  <2>4. work_queue[1].sbuf # s
    BY <2>1, <2>2 DEF Settled
  <2>5. /\ at'[w] = work_queue[1].sbuf /\ wu'[w] = work_queue[1]
        /\ \A v \in Worker \ {w} : wpc'[v] = wpc[v] /\ at'[v] = at[v] /\ wu'[v] = wu[v]
    BY <1>5, <2>1 DEF TakeWork, Shape
  <2> QED BY <1>1, <2>3, <2>4, <2>5 DEF Settled, HeldBy
<1>6. ASSUME NEW w \in Worker, UNCHANGED <<work_queue, at, wu>>,
             wpc[w] # "idle", wpc[w] # "releasing",
             \A v \in Worker \ {w} : wpc'[v] = wpc[v]
      PROVE  Settled(s)'
  BY <1>2, <1>6 DEF Settled, HeldBy
<1>7. ASSUME NEW w \in Worker,
             \/ ReturnEmpty(w) \/ RefuseDeep(w) \/ Enter(w) \/ Count(w)
             \/ Dispatched(w) \/ ScannerReturns(w) \/ RecordWorkEnd(w)
      PROVE  Settled(s)'
  BY <1>6, <1>7 DEF ReturnEmpty, RefuseDeep, Enter, Count, Dispatched, ScannerReturns,
     RecordWorkEnd, Shape
<1>8. ASSUME NEW w \in Worker, UpdateMaximum(w) PROVE Settled(s)'
  BY <1>6, <1>8 DEF UpdateMaximum, Shape
<1>9. ASSUME NEW w \in Worker, NEW sc \in Scanner, PushScannerTask(w, sc) PROVE Settled(s)'
  <2>1. /\ wpc[w] = "dispatching" /\ at[w] \in Sbuf
        /\ work_queue' = Append(work_queue, Unit(at[w], sc)) /\ UNCHANGED <<wpc, at, wu>>
    BY <1>9 DEF PushScannerTask, Shape
  <2>2. at[w] # s
    BY <2>1 DEF Settled, HeldBy
  <2> QED BY <1>3, <2>1, <2>2
<1>10. ASSUME NEW w \in Worker, NEW c \in Child, Recurse(w, c) PROVE Settled(s)'
  <2>1. /\ wpc[w] = "scanning" /\ at'[w] = c /\ c \notin scheduled
        /\ UNCHANGED <<work_queue, wu>>
        /\ \A v \in Worker \ {w} : wpc'[v] = wpc[v] /\ at'[v] = at[v]
    BY <1>10 DEF Recurse, Shape
  <2>2. ~HeldBy(w, s)'
    BY <2>1 DEF Settled, HeldBy
  <2> QED BY <1>2, <2>1, <2>2
<1>11. ASSUME NEW w \in Worker, Release(w) PROVE Settled(s)'
  <2>1. /\ wpc[w] = "releasing" /\ wpc'[w] = IF Recursed(w) THEN "scanning" ELSE "idle"
        /\ Recursed(w) => at'[w] = wu[w].sbuf /\ wu'[w] = wu[w]
        /\ \A v \in Worker \ {w} : wpc'[v] = wpc[v] /\ at'[v] = at[v] /\ wu'[v] = wu[v]
        /\ UNCHANGED work_queue
    BY <1>11 DEF Release, Recursed, Shape
  <2>2. ~HeldBy(w, s)'
    BY <2>1 DEF Settled, HeldBy, Recursed
  <2> QED BY <1>2, <2>1, <2>2
<1>12. CASE UNCHANGED vars
  BY <1>12 DEF vars, Settled, HeldBy
<1> QED
  BY <1>4, <1>5, <1>7, <1>8, <1>9, <1>10, <1>11, <1>12 DEF Next, WorkerStep, Done

(* A count of 1 is held by the worker that writes it.                      *)
LEMMA OneSettles ==
    ASSUME Shape, Working, References, NEW w \in Worker, wpc[w] = "ending",
           NEW s, s = at[w], reference_count[s] = 1,
           UNCHANGED <<work_queue, at, wu, scheduled>>,
           wpc' = [wpc EXCEPT ![w] = "releasing"]
    PROVE  Settled(s)'
<1>1. /\ s \in Sbuf /\ s \in scheduled
      /\ reference_count[s] = Queued(s) + Held(s)
      /\ Queued(s) \in Nat /\ Held(s) \in Nat /\ IsFiniteSet(Holders(s))
  <2>1. s \in Sbuf /\ s \in scheduled
    BY DEF Shape, Working, OnDuty
  <2>2. Queued(s) \in Nat
    BY QueuedNat
  <2>3. Held(s) \in Nat /\ IsFiniteSet(Holders(s))
    BY HoldersFinite
  <2> QED BY <2>1, <2>2, <2>3 DEF References
<1>2. w \in Holders(s)
  BY DEF Holders, HeldBy
<1>3. Held(s) = 1 /\ Queued(s) = 0
  <2>1. Held(s) # 0
    BY <1>1, <1>2, FS_EmptySet DEF Held
  <2> QED BY <1>1, <2>1
<1>4. Holders(s) = {w}
  <2>1. \E x : Holders(s) = {x}
    BY <1>1, <1>3, FS_Singleton DEF Held
  <2> QED BY <1>2, <2>1
<1>5. \A j \in DOMAIN work_queue : work_queue[j].sbuf # s
  <2>1. IsFiniteSet(PlacesIn(work_queue, UnitsOf(s)))
    BY CountNat DEF Shape
  <2>2. PlacesIn(work_queue, UnitsOf(s)) = {}
    BY <1>3, <2>1, FS_EmptySet DEF Queued, CountIn
  <2>3. \A j \in DOMAIN work_queue : work_queue[j] \in WorkUnit
    BY DEF Shape
  <2> QED BY <2>2, <2>3 DEF PlacesIn, UnitsOf
<1>6. \A v \in Worker : HeldBy(v, s) => v = w
  BY <1>4 DEF Holders
<1>7. wpc'[w] = "releasing" /\ \A v \in Worker \ {w} : wpc'[v] = wpc[v]
  BY DEF Shape
<1> QED BY <1>1, <1>5, <1>6, <1>7 DEF Settled, HeldBy

LEMMA LastLineStep ==
    Shape /\ Once /\ Sightings /\ Working /\ OtherTypes /\ References /\ LastLine
       /\ [Next]_vars => LastLine'
<1> SUFFICES ASSUME Shape, Once, Sightings, Working, OtherTypes, References, LastLine,
                    [Next]_vars
             PROVE  LastLine'
  OBVIOUS
<1> USE DEF threadVars, stats, history, Goes
<1>1. \A s : Settled(s) => Settled(s)'
  BY SettledStays
<1>2. ASSUME UNCHANGED dfxml PROVE LastLine'
  BY <1>1, <1>2 DEF LastLine
<1>3. ASSUME NEW w \in Worker, NEW n \in Nat, NEW s \in Sbuf, s = at[w],
             Log(s, n), wpc[w] \in {"entering", "ending"},
             n = 1 => Settled(s)'
      PROVE  LastLine'
  <2>1. /\ dfxml[s] \in Seq(Nat) /\ DOMAIN dfxml = Sbuf
        /\ Len(dfxml[s]) \in Nat
        /\ Append(dfxml[s], n) \in Seq(Nat)
        /\ Len(Append(dfxml[s], n)) = Len(dfxml[s]) + 1
        /\ DOMAIN dfxml[s] = 1 .. Len(dfxml[s])
        /\ DOMAIN Append(dfxml[s], n) = 1 .. Len(dfxml[s]) + 1
        /\ \A i \in 1 .. Len(dfxml[s]) : Append(dfxml[s], n)[i] = dfxml[s][i]
        /\ Append(dfxml[s], n)[Len(dfxml[s]) + 1] = n
    <3>1. dfxml[s] \in Seq(Nat) /\ DOMAIN dfxml = Sbuf
      BY <1>3 DEF OtherTypes
    <3> QED BY <1>3, <3>1, AddLine
  <2>2. ~Settled(s)
    BY <1>3 DEF Settled, HeldBy
  <2>3. \A i \in DOMAIN dfxml[s] : dfxml[s][i] # 1
    BY <1>3, <2>2 DEF LastLine
  <2>4. /\ \A r \in Sbuf \ {s} : dfxml'[r] = dfxml[r]
        /\ dfxml'[s] = dfxml[s] \/ dfxml'[s] = Append(dfxml[s], n)
    BY <1>3, <2>1 DEF Log
  <2>5. ASSUME NEW i \in DOMAIN dfxml'[s], dfxml'[s][i] = 1
        PROVE  i = Len(dfxml'[s]) /\ Settled(s)'
    <3>1. dfxml'[s] = Append(dfxml[s], n)
      BY <2>3, <2>4, <2>5
    <3>2. i = Len(dfxml[s]) + 1 /\ n = 1
      BY <2>1, <2>3, <2>5, <3>1
    <3> QED BY <1>3, <2>1, <3>1, <3>2
  <2>6. ASSUME NEW r \in Sbuf, NEW i \in DOMAIN dfxml'[r], dfxml'[r][i] = 1
        PROVE  i = Len(dfxml'[r]) /\ Settled(r)'
    <3>1. CASE r # s
      BY <1>1, <2>4, <2>6, <3>1 DEF LastLine
    <3>2. CASE r = s
      BY <2>5, <2>6, <3>2
    <3> QED BY <3>1, <3>2
  <2> QED BY <2>6 DEF LastLine
<1>4. ASSUME NEW w \in Worker, RefuseDeep(w) \/ Enter(w) PROVE LastLine'
  <2>1. at[w] \in Sbuf /\ Log(at[w], 0) /\ wpc[w] = "entering"
    BY <1>4 DEF RefuseDeep, Enter, Shape, WorkStart
  <2> QED BY <1>3, <2>1
<1>5. ASSUME NEW w \in Worker, RecordWorkEnd(w) PROVE LastLine'
  <2>1. /\ at[w] \in Sbuf /\ wpc[w] = "ending" /\ wpc' = [wpc EXCEPT ![w] = "releasing"]
        /\ Log(at[w], reference_count[at[w]])
        /\ UNCHANGED <<work_queue, at, wu, scheduled>>
    BY <1>5 DEF RecordWorkEnd, Shape, CountHeld
  <2>2. PICK s \in Sbuf : s = at[w]
    BY <2>1
  <2>3. reference_count[s] = 1 => Settled(s)'
    BY <2>1, <2>2, OneSettles
  <2>4. reference_count[s] \in Nat
    BY CountIsNat
  <2> QED BY <1>3, <2>1, <2>2, <2>3, <2>4
<1> QED
  BY <1>2, <1>4, <1>5 DEF Next, WorkerStep, Done, vars, Schedule, TakeWork, ReturnEmpty,
     UpdateMaximum, Count, PushScannerTask, Dispatched, Recurse, ScannerReturns, Release

-----------------------------------------------------------------------------
(* The bytes of the duplicates.                                            *)
Duplicates == {s \in counted : seen_before[s]}
Tally == dup_bytes_encountered = SumOf(bufsize, Duplicates)

LEMMA TallyInit == Init => Tally
<1> SUFFICES ASSUME Init PROVE Tally
  OBVIOUS
<1>1. Duplicates = {} /\ dup_bytes_encountered = 0
  BY DEF Init, Duplicates
<1> QED BY <1>1, SumEmpty DEF Tally

LEMMA SbufFinite == IsFiniteSet(Sbuf)
BY RecordsAssumption, FS_Union DEF Sbuf

LEMMA TallyStep == Shape /\ Once /\ Sightings /\ Tally /\ [Next]_vars => Tally'
<1> SUFFICES ASSUME Shape, Once, Sightings, Tally, [Next]_vars PROVE Tally'
  OBVIOUS
<1> USE DEF threadVars, stats, history, Goes
<1>1. ASSUME NEW w \in Worker, Count(w) PROVE Tally'
  <2>1. PICK q \in Sbuf : q = at[w]
    BY <1>1 DEF Count, Shape
  <2> DEFINE b == CountBefore(hash[q]) > 0
  <2>2. b \in BOOLEAN
    OBVIOUS
  <2>3. /\ seen_before' = [seen_before EXCEPT ![q] = b]
        /\ dup_bytes_encountered' = dup_bytes_encountered + IF b THEN bufsize[q] ELSE 0
        /\ counted' = counted \cup {q} /\ q \notin counted
    BY <1>1, <2>1 DEF Count, Once, Enters
  <2> HIDE DEF b
  <2>4. seen_before \in [Sbuf -> BOOLEAN] /\ counted \subseteq Sbuf
    BY DEF Sightings, Shape
  <2>5. /\ IsFiniteSet(Duplicates) /\ q \notin Duplicates
        /\ \A s \in Duplicates \cup {q} : bufsize[s] \in Nat
    <3>1. Duplicates \in SUBSET Sbuf
      BY <2>4 DEF Duplicates
    <3>2. IsFiniteSet(Duplicates)
      BY <3>1, SbufFinite, FS_Subset
    <3> QED BY <2>3, <2>4, <3>1, <3>2, RecordsAssumption DEF Duplicates
  <2>6. CASE b
    <3>1. Duplicates' = Duplicates \cup {q}
      BY <2>3, <2>4, <2>6 DEF Duplicates
    <3>2. SumOf(bufsize, Duplicates \cup {q}) = SumOf(bufsize, Duplicates) + bufsize[q]
      BY <2>5, SumAdd
    <3> QED BY <2>3, <2>6, <3>1, <3>2 DEF Tally
  <2>7. CASE ~b
    <3>1. Duplicates' = Duplicates
      BY <2>3, <2>4, <2>7 DEF Duplicates
    <3>2. SumOf(bufsize, Duplicates) \in Nat
      BY <2>5, SumNat
    <3> QED BY <2>3, <2>7, <3>1, <3>2 DEF Tally
  <2> QED BY <2>6, <2>7
<1>2. ASSUME UNCHANGED <<counted, seen_before, dup_bytes_encountered>> PROVE Tally'
  BY <1>2 DEF Tally, Duplicates
<1> QED
  BY <1>1, <1>2 DEF Next, WorkerStep, Done, vars, Schedule, TakeWork, ReturnEmpty,
     RefuseDeep, Enter, UpdateMaximum, PushScannerTask, Dispatched, Recurse,
     ScannerReturns, RecordWorkEnd, Release

-----------------------------------------------------------------------------
(* The inductive invariant of all this.                                    *)
RecordsInv ==
    /\ Shape /\ Once /\ Sightings /\ Working /\ OtherTypes /\ References
    /\ Covered /\ LastLine /\ Tally

LEMMA RecordsInvariant == Spec => []RecordsInv
<1>1. Init => RecordsInv
  BY ShapeInit, OnceInit, SightingsInit, WorkingInit, OtherTypesInit, ReferencesInit,
     CoveredInit, LastLineInit, TallyInit DEF RecordsInv
<1>2. RecordsInv /\ [Next]_vars => RecordsInv'
  BY ShapeStep, OnceStep, SightingsStep, WorkingStep, OtherTypesStep, ReferencesStep,
     CoveredStep, LastLineStep, TallyStep DEF RecordsInv
<1> QED BY <1>1, <1>2, PTL DEF Spec

(* The types: no reference count is ever negative.                         *)
THEOREM RecordsTypes == Spec => []TypeOK
<1>1. RecordsInv => TypeOK
  <2> SUFFICES ASSUME RecordsInv PROVE TypeOK
    OBVIOUS
  <2>1. /\ Shape /\ Sightings /\ OtherTypes
        /\ \A s \in Sbuf : reference_count[s] \in Nat
    BY CountIsNat DEF RecordsInv
  <2>2. reference_count \in [Sbuf -> Nat]
    BY <2>1 DEF OtherTypes
  <2> QED BY <2>1, <2>2 DEF TypeOK, Shape, WorkUnit, WorkerState, Sightings, OtherTypes
<1> QED BY <1>1, RecordsInvariant, PTL

(* Of equal buffers one is taken for new and the others for duplicates,    *)
(* the bytes of the duplicates are counted exactly, a scanner that does    *)
(* not want duplicates runs on a content once at most, and when all is     *)
(* done every scanner has run on it.                                       *)
THEOREM EachContentOnce == Spec => []ScannedOnce
<1>1. RecordsInv => ScannedOnce
  <2> SUFFICES ASSUME RecordsInv PROVE ScannedOnce
    OBVIOUS
  <2> USE DEF RecordsInv
  <2>1. dup_bytes_encountered = SumOf(bufsize, {s \in counted : seen_before[s]})
    BY DEF Tally, Duplicates
  <2>2. OneIsNew
    BY OneNew
  <2>3. ASSUME NEW h \in Hash, NEW sc \in Scanner
        PROVE  /\ sc \notin scan_seen_before => RunsOn(h, sc) <= 1
               /\ Drained /\ Equal(h) # {} => RunsOn(h, sc) >= 1
    <3> DEFINE On == {s \in Equal(h) : sc \in ran[s]}
    <3>1. On \in SUBSET Sbuf /\ IsFiniteSet(On) /\ Cardinality(On) \in Nat
      <4>1. On \in SUBSET Sbuf
        BY DEF Equal, Shape
      <4> HIDE DEF On
      <4>2. IsFiniteSet(On)
        BY <4>1, SbufFinite, FS_Subset
      <4> QED BY <4>1, <4>2, FS_CardinalityType
    <3>2. FirstOf(h)
      BY DEF Sightings
    <3>3. ASSUME sc \notin scan_seen_before PROVE Cardinality(On) <= 1
      <4>1. \A s \in On : ~seen_before[s]
        BY <3>1, <3>3 DEF Working, MayRun
      <4>2. CASE On = {}
        BY <4>2, NoneHeld
      <4>3. CASE On # {}
        <5>1. PICK s \in Equal(h) : \A t \in Equal(h) : ~seen_before[t] <=> t = s
          BY <3>2, <4>3 DEF FirstOf
        <5>2. \A t \in On : t \in Equal(h) /\ t = s
          BY <4>1, <5>1
        <5> HIDE DEF On
        <5>3. On = {s}
          BY <4>3, <5>2
        <5> QED BY <5>3, FS_Singleton
      <4> QED BY <4>2, <4>3
    <3>4. ASSUME Drained, Equal(h) # {} PROVE Cardinality(On) >= 1
      <4>1. PICK s \in Equal(h) : ~seen_before[s]
        BY <3>2, <3>4 DEF FirstOf
      <4>2. ~Pending(s, sc)
        BY <3>4 DEF Drained, Pending, Pushing, Runs, Running
      <4>3. s \in counted /\ MayRun(s, sc)
        BY <4>1 DEF Equal, MayRun
      <4>4. s \in On
        BY <4>2, <4>3 DEF Covered
      <4> HIDE DEF On
      <4>5. Cardinality(On) # 0
        BY <3>1, <4>4, FS_EmptySet
      <4> QED BY <3>1, <4>5
    <3> QED BY <3>3, <3>4 DEF RunsOn
  <2> QED BY <2>1, <2>2, <2>3 DEF ScannedOnce
<1> QED BY <1>1, RecordsInvariant, PTL

(* A work_stop line with the count 1 is the last line about its sbuf:      *)
(* nothing of it is queued or runs, and every scanner that was to run on   *)
(* it has returned.                                                        *)
THEOREM StopIsLast == Spec => []StopMeansDone
<1>1. RecordsInv => StopMeansDone
  <2> SUFFICES ASSUME RecordsInv, NEW s \in Sbuf, NEW i \in DOMAIN dfxml[s], dfxml[s][i] = 1
               PROVE  /\ i = Len(dfxml[s])
                      /\ \A j \in DOMAIN work_queue : work_queue[j].sbuf # s
                      /\ \A w \in Worker : HeldBy(w, s) => wpc[w] = "releasing"
                      /\ s \in counted => {sc \in Scanner : MayRun(s, sc)} \subseteq ran[s]
    BY DEF StopMeansDone
  <2>1. i = Len(dfxml[s]) /\ Settled(s)
    BY DEF RecordsInv, LastLine
  <2>2. ASSUME NEW sc \in Scanner PROVE ~Pending(s, sc)
    <3>1. \A w \in Worker : ~Pushing(w, s, sc)
      BY <2>1 DEF Settled, HeldBy, Pushing
    <3>2. \A w \in Worker : ~Runs(w, s, sc)
      BY <2>1 DEF Settled, HeldBy, Runs, Running, Recursed
    <3>3. \A j \in DOMAIN work_queue : ~Waits(j, s, sc)
      BY <2>1 DEF Settled, Waits
    <3> QED BY <3>1, <3>2, <3>3 DEF Pending
  <2>3. s \in counted => {sc \in Scanner : MayRun(s, sc)} \subseteq ran[s]
    BY <2>2 DEF RecordsInv, Covered
  <2> QED BY <2>1, <2>3 DEF Settled
<1> QED BY <1>1, RecordsInvariant, PTL
=============================================================================
