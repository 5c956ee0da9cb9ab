------------------------ MODULE FeatureRecorderProofs -----------------------
(***************************************************************************)
(* Theorems about FeatureRecorder for every set of threads, features and   *)
(* objects, through any number of crashes, full disks and failed           *)
(* allocations: equal objects are carved once, and what a line names is in *)
(* its file; the file has the lines that were written, in their order, and *)
(* keeps them; and the histograms count each feature exactly.              *)
(***************************************************************************)
EXTENDS FeatureRecorder, FoldingProofs

(* Where a thread is with the carving of an object.                        *)
Past == {"histogram", "open", "data"}
Carving(t) == job[t].path # NoPath
Holds(t, d) == pc[t] = "write0" /\ Carving(t) /\ job[t].line[2] = d

Types ==
    /\ pc \in [Thread -> {"idle", "write0"} \cup Past]
    /\ job \in [Thread -> [line : Line \cup {Banner}, path : Path \cup {NoPath}]]
    /\ files \in [Path -> Data \cup {NoData, Empty, Cut, Mixed}]
    /\ carve_cache \subseteq Data
    /\ carved_file_count \in 0 .. calls /\ calls \in 0 .. MaxCalls
    /\ returned \in Seq(Line)
    /\ unadded \in [Feature -> Nat]

(* The line and the path of a thread belong together, and what it has      *)
(* written is in returned.                                                 *)
Jobs ==
    /\ \A t \in Thread :
          /\ Carving(t) => job[t].line = <<job[t].path, job[t].line[2]>> /\ job[t].line[2] \in Data
          /\ pc[t] # "idle" /\ ~Carving(t) => job[t].line[1] \notin Path
          /\ pc[t] \in {"open", "data"} => Carving(t)
          /\ pc[t] # "idle" => job[t].line \in Line
          /\ pc[t] \in Past => job[t].line \in Range(returned)
    /\ phase # "scanning" => \A t \in Thread : pc[t] = "idle"
    /\ failed => disk_full

(* An object's bytes have one carver, which has them in the cache.         *)
OneCarver(d) ==
    /\ \A i, j \in Named(d) : i = j
    /\ \A t, u \in Thread : Holds(t, d) /\ Holds(u, d) => t = u
    /\ \A t \in Thread : Holds(t, d) => Named(d) = {}
    /\ \A t, u \in Thread :
          pc[t] \in Past /\ pc[u] \in Past /\ Carving(t) /\ Carving(u)
          /\ job[t].line[2] = d /\ job[u].line[2] = d => t = u
    /\ Named(d) # {} \/ (\E t \in Thread : Holds(t, d)) => d \in carve_cache
    /\ d \in carve_cache /\ ~disk_full => Named(d) # {} \/ \E t \in Thread : Holds(t, d)
    /\ <<CACHED, d>> \in Range(returned) => d \in carve_cache
    /\ \A t \in Thread : pc[t] = "write0" /\ job[t].line = <<CACHED, d>> => d \in carve_cache

(* The file that one line names is on its way to have that line's bytes.   *)
Sole(p, d) ==
    /\ <<p, d>> \in Range(returned)
    /\ \A e \in Data : <<p, e>> \in Range(returned) => e = d
Busy(p) == {t \in Thread : pc[t] \in Past /\ job[t].path = p}
OnItsWay(p, d) ==
    Sole(p, d) /\ ~disk_full /\ unadded = NoTally =>
        IF Busy(p) = {} THEN files[p] = d
        ELSE \A t \in Busy(p) : pc[t] = "data" => files[p] = Empty

CarveInv ==
    /\ Types /\ Jobs
    /\ \A d \in Data : OneCarver(d)
    /\ \A p \in Path, d \in Data : OnItsWay(p, d)

-----------------------------------------------------------------------------
(* What the operators do.                                                  *)
LEMMA GoesTo ==
    ASSUME Types, NEW t \in Thread, NEW where, GoTo(t, where)
    PROVE  /\ pc'[t] = where
           /\ job'[t] = IF where = "idle" THEN NoJob ELSE job[t]
           /\ \A u \in Thread : u # t => pc'[u] = pc[u] /\ job'[u] = job[u]
BY DEF GoTo, Types

LEMMA Tallied ==
    ASSUME NEW tally \in [Feature -> Nat], NEW f
    PROVE  /\ Plus(tally, f) \in [Feature -> Nat]
           /\ Plus(tally, f) = NoTally => tally = NoTally
           /\ f \in Feature => Plus(tally, f) # NoTally
<1>1. \A g \in Feature : tally[g] \in Nat /\ tally[g] + 1 # 0
  OBVIOUS
<1>2. \A g \in Feature : Plus(tally, f)[g] = IF g = f THEN tally[g] + 1 ELSE tally[g]
  BY DEF Plus
<1>3. Plus(tally, f) \in [Feature -> Nat]
  <2>1. CASE f \in Feature
    BY <2>1 DEF Plus
  <2>2. CASE f \notin Feature
    BY <2>2 DEF Plus
  <2>3. QED  BY <2>1, <2>2
<1>4. ASSUME f \in Feature PROVE Plus(tally, f) # NoTally
  BY <1>1, <1>2, <1>4 DEF NoTally
<1>5. ASSUME Plus(tally, f) = NoTally PROVE tally = NoTally
  <2>1. f \notin Feature
    BY <1>4, <1>5
  <2>2. \A g \in Feature : tally[g] = 0
    BY <1>2, <1>5, <2>1 DEF NoTally
  <2>3. QED  BY <2>2 DEF NoTally
<1>6. QED  BY <1>3, <1>4, <1>5

LEMMA LineParts ==
    ASSUME NEW l \in Line
    PROVE  /\ l = <<l[1], l[2]>> /\ l[1] \in Feature
           /\ l[1] \in Path => l[2] \in Data
BY PathAssumption DEF Line, Feature

LEMMA Returns ==
    ASSUME returned \in Seq(Line), NEW l \in Line, returned' = Append(returned, l)
    PROVE  /\ returned' \in Seq(Line)
           /\ Range(returned') = Range(returned) \cup {l}
           /\ \A d : Named(d)' = Named(d) \cup
                 IF l[1] \in Path /\ l[2] = d THEN {Len(returned) + 1} ELSE {}
<1>1. /\ Len(returned) \in Nat /\ DOMAIN returned = 1 .. Len(returned)
      /\ DOMAIN returned' = 1 .. (Len(returned) + 1)
      /\ returned'[Len(returned) + 1] = l
      /\ \A i \in 1 .. Len(returned) : returned'[i] = returned[i]
      /\ returned' \in Seq(Line)
  BY AppendProperties, LenProperties
<1>2. Len(returned) + 1 \in DOMAIN returned' /\ \A i \in DOMAIN returned : i \in DOMAIN returned'
  BY <1>1
<1>3. \A i \in DOMAIN returned' : i \in DOMAIN returned \/ i = Len(returned) + 1
  BY <1>1
<1>4. Range(returned') = Range(returned) \cup {l}
  BY <1>1, <1>2, <1>3 DEF Range
<1>5. ASSUME NEW d
      PROVE  Named(d)' = Named(d) \cup
                IF l[1] \in Path /\ l[2] = d THEN {Len(returned) + 1} ELSE {}
  BY <1>1, <1>2, <1>3 DEF Named
<1>6. QED  BY <1>1, <1>4, <1>5

LEMMA NamedIs ==
    ASSUME returned \in Seq(Line), NEW d
    PROVE  Named(d) # {} <=> \E p \in Path : <<p, d>> \in Range(returned)
<1>1. \A i \in DOMAIN returned : returned[i] \in Line
  OBVIOUS
<1>2. \A i \in DOMAIN returned : returned[i] = <<returned[i][1], returned[i][2]>>
  BY <1>1, LineParts
<1>3. QED  BY <1>2 DEF Named, Range

LEMMA DirectoryType ==
    ASSUME NEW c \in 0 .. MaxCalls
    PROVE  c \div files_per_dir \in 0 .. MaxCalls \div files_per_dir
BY RecorderAssumption

-----------------------------------------------------------------------------
(* The types.                                                              *)
LEMMA TypesStep == ASSUME Types, Jobs, [Next]_vars PROVE Types'
<1> USE DEF Types, Past, stream, carving, report, history, limits
<1>0. MaxCalls \in Nat /\ NoJob \in [line : Line \cup {Banner}, path : Path \cup {NoPath}]
  BY RecorderAssumption DEF NoJob
<1>1. ASSUME NEW t \in Thread, NEW f \in Text, Write(t, f) PROVE Types'
  <2>1. <<f, NoData>> \in Line
    BY DEF Line
  <2>2. QED  BY <1>1, <1>0, <2>1 DEF Write
<1>2. ASSUME NEW t \in Thread, NEW o \in Object, Carve(t, o) PROVE Types'
  <2>1. data[o] \in Data /\ filename[o] \in Name /\ <<CACHED, data[o]>> \in Line
    BY RecorderAssumption DEF Line
  <2>2. <<carved_file_count \div files_per_dir, filename[o]>> \in Path
    BY <1>0, <2>1, DirectoryType DEF Path
  <2>3. <<<<carved_file_count \div files_per_dir, filename[o]>>, data[o]>> \in Line
    BY <2>1, <2>2 DEF Line
  <2>4. QED  BY <1>2, <1>0, <2>1, <2>2, <2>3 DEF Carve, CheckAndInsert
<1>3. ASSUME NEW t \in Thread, Write0(t) PROVE Types'
  <2>1. job[t].line \in Line
    BY <1>3 DEF Write0, Jobs
  <2>2. returned' \in Seq(Line)
    BY <1>3, <2>1 DEF Write0
  <2>3. QED  BY <1>3, <1>0, <2>2 DEF Write0, GoTo, AfterWrite
<1>4. ASSUME NEW t \in Thread, Write0Throws(t) PROVE Types'
  BY <1>4, <1>0 DEF Write0Throws, GoTo, AfterWrite
<1>5. ASSUME NEW t \in Thread, AddFeature(t) PROVE Types'
  BY <1>5, <1>0 DEF AddFeature, GoTo, AfterWrite
<1>6. ASSUME NEW t \in Thread, AddFeatureThrows(t) PROVE Types'
  <2>1. unadded' \in [Feature -> Nat]
    BY <1>6, Tallied DEF AddFeatureThrows
  <2>2. QED  BY <1>6, <1>0, <2>1 DEF AddFeatureThrows, GoTo
<1>7. ASSUME NEW t \in Thread, OpenFile(t) PROVE Types'
  <2>1. files' \in [Path -> Data \cup {NoData, Empty, Cut, Mixed}]
    BY <1>7 DEF OpenFile, Truncate
  <2>2. QED  BY <1>7, <1>0, <2>1 DEF OpenFile, GoTo
<1>8. ASSUME NEW t \in Thread, OpenFails(t) PROVE Types'
  BY <1>8, <1>0 DEF OpenFails, GoTo, AfterWrite
<1>9. ASSUME NEW t \in Thread, WriteData(t) PROVE Types'
  <2>1. job[t].line[2] \in Data
    BY <1>9 DEF WriteData, Jobs
  <2>2. files' \in [Path -> Data \cup {NoData, Empty, Cut, Mixed}]
    BY <1>9, <2>1 DEF WriteData, Over
  <2>3. QED  BY <1>9, <1>0, <2>2 DEF WriteData, GoTo
<1>10. ASSUME Shutdown PROVE Types'
  BY <1>10 DEF Shutdown
<1>11. ASSUME ReadLine PROVE Types'
  <2>1. unadded' \in [Feature -> Nat]
    BY <1>11, Tallied DEF ReadLine
  <2>2. QED  BY <1>11, <2>1 DEF ReadLine
<1>12. ASSUME Report PROVE Types'
  BY <1>12 DEF Report
<1>13. ASSUME DiskFills PROVE Types'
  BY <1>13 DEF DiskFills
<1>14. ASSUME Crash PROVE Types'
  <2>1. files' \in [Path -> Data \cup {NoData, Empty, Cut, Mixed}]
    BY <1>14 DEF Crash
  <2>2. unadded' \in [Feature -> Nat]
    BY <1>14 DEF Crash, Start, NoTally
  <2>3. carved_file_count' \in 0 .. calls'
    BY <1>14 DEF Crash, Start
  <2>4. QED  BY <1>14, <1>0, <2>1, <2>2, <2>3 DEF Crash, Start
<1>15. CASE UNCHANGED vars
  BY <1>15 DEF vars
<1> QED
  BY <1>1, <1>2, <1>3, <1>4, <1>5, <1>6, <1>7, <1>8,
     <1>9, <1>10, <1>11, <1>12, <1>13, <1>14, <1>15 DEF Next, Done
-----------------------------------------------------------------------------
(* What a thread does.                                                     *)
LEMMA JobsStep == ASSUME Types, Jobs, [Next]_vars PROVE Jobs'
<1> USE DEF Jobs, Past, Carving, stream, carving, report, history, limits
<1>0. \A t \in Thread : Carving(t) => job[t].path \in Path
  BY DEF Types
<1>a. \A q : q \in Path => q # NoPath
  BY PathAssumption
<1>b. NoJob.path = NoPath
  BY DEF NoJob
<1>1. ASSUME NEW t \in Thread, NEW f \in Text, Write(t, f) PROVE Jobs'
  <2>1. /\ job'[t] = [line |-> <<f, NoData>>, path |-> NoPath] /\ pc'[t] = "write0"
        /\ \A u \in Thread : u # t => job'[u] = job[u] /\ pc'[u] = pc[u]
        /\ UNCHANGED <<phase, failed, disk_full, returned>> /\ phase = "scanning"
    BY <1>1 DEF Write, Types
  <2>2. f \notin Path /\ <<f, NoData>> \in Line
    BY PathAssumption DEF Line
  <2>3. QED  BY <2>1, <2>2, <1>a
<1>2. ASSUME NEW t \in Thread, NEW o \in Object, Carve(t, o) PROVE Jobs'
  <2>1. data[o] \in Data /\ filename[o] \in Name /\ <<CACHED, data[o]>> \in Line
    BY RecorderAssumption DEF Line
  <2>2. <<carved_file_count \div files_per_dir, filename[o]>> \in Path
    <3>1. carved_file_count \in 0 .. MaxCalls
      BY RecorderAssumption DEF Types
    <3>2. QED  BY <2>1, <3>1, DirectoryType DEF Path
  <2>3. CACHED \notin Path
    BY PathAssumption
  <2>4. PICK q \in Path \cup {NoPath} :
           /\ job'[t] = IF q = NoPath THEN [line |-> <<CACHED, data[o]>>, path |-> NoPath]
                        ELSE [line |-> <<q, data[o]>>, path |-> q]
           /\ pc'[t] = "write0"
    BY <1>2, <1>a, <2>2 DEF Carve, Types
  <2>5. /\ \A u \in Thread : u # t => job'[u] = job[u] /\ pc'[u] = pc[u]
        /\ UNCHANGED <<phase, failed, disk_full, returned>> /\ phase = "scanning"
    BY <1>2 DEF Carve, Types
  <2>6. q \in Path => <<q, data[o]>> \in Line
    BY <2>1 DEF Line
  <2>7. CASE q = NoPath
    BY <2>1, <2>3, <2>4, <2>5, <2>7
  <2>8. CASE q \in Path
    BY <1>a, <2>1, <2>4, <2>5, <2>6, <2>8
  <2>9. QED  BY <2>7, <2>8
<1>3. ASSUME NEW t \in Thread, Write0(t) PROVE Jobs'
  <2>1. job[t].line \in Line
    BY <1>3 DEF Write0
  <2>2. Range(returned') = Range(returned) \cup {job[t].line}
    BY <1>3, <2>1, Returns DEF Write0, Types
  <2>3. PICK where \in {"idle", "open", "histogram"} :
           /\ GoTo(t, where)
           /\ where = "open" => Carving(t)
    BY <1>3 DEF Write0, AfterWrite
  <2>4. UNCHANGED <<phase, failed, disk_full>> /\ pc[t] = "write0"
    BY <1>3 DEF Write0
  <2>5. QED  BY <1>b, <2>1, <2>2, <2>3, <2>4, GoesTo
<1>4. ASSUME NEW t \in Thread, Write0Throws(t) PROVE Jobs'
  <2>1. GoTo(t, "idle") /\ UNCHANGED <<phase, returned, disk_full>>
    BY <1>4 DEF Write0Throws
  <2>2. failed' => disk_full'
    BY <1>4 DEF Write0Throws
  <2>3. pc[t] # "idle"
    BY <1>4 DEF Write0Throws
  <2>4. QED  BY <1>b, <2>1, <2>2, <2>3, GoesTo
<1>5. ASSUME NEW t \in Thread, AddFeature(t) PROVE Jobs'
  <2>1. PICK where \in {"idle", "open"} : GoTo(t, where) /\ (where = "open" => Carving(t))
    BY <1>5 DEF AddFeature, AfterWrite
  <2>2. UNCHANGED <<phase, returned, failed, disk_full>> /\ pc[t] = "histogram"
    BY <1>5 DEF AddFeature
  <2>3. QED  BY <1>b, <2>1, <2>2, GoesTo
<1>6. ASSUME NEW t \in Thread, AddFeatureThrows(t) PROVE Jobs'
  <2>1. GoTo(t, "idle") /\ UNCHANGED <<phase, returned, disk_full>>
    BY <1>6 DEF AddFeatureThrows
  <2>2. failed' => disk_full'
    BY <1>6 DEF AddFeatureThrows
  <2>3. pc[t] # "idle"
    BY <1>6 DEF AddFeatureThrows
  <2>4. QED  BY <1>b, <2>1, <2>2, <2>3, GoesTo
<1>7. ASSUME NEW t \in Thread, OpenFile(t) PROVE Jobs'
  <2>1. GoTo(t, "data") /\ UNCHANGED <<phase, returned, disk_full>>
    BY <1>7 DEF OpenFile
  <2>2. failed' => disk_full'
    BY <1>7 DEF OpenFile
  <2>3. pc[t] # "idle" /\ Carving(t) /\ pc[t] = "open"
    BY <1>7 DEF OpenFile
  <2>4. QED  BY <1>b, <2>1, <2>2, <2>3, GoesTo
<1>8. ASSUME NEW t \in Thread, OpenFails(t) PROVE Jobs'
  <2>1. GoTo(t, "idle") /\ UNCHANGED <<phase, returned, disk_full>>
    BY <1>8 DEF OpenFails
  <2>2. failed' => disk_full'
    BY <1>8 DEF OpenFails
  <2>3. pc[t] # "idle"
    BY <1>8 DEF OpenFails
  <2>4. QED  BY <1>b, <2>1, <2>2, <2>3, GoesTo
<1>9. ASSUME NEW t \in Thread, WriteData(t) PROVE Jobs'
  <2>1. GoTo(t, "idle") /\ UNCHANGED <<phase, returned, disk_full>>
    BY <1>9 DEF WriteData
  <2>2. failed' => disk_full'
    BY <1>9 DEF WriteData
  <2>3. pc[t] # "idle"
    BY <1>9 DEF WriteData
  <2>4. QED  BY <1>b, <2>1, <2>2, <2>3, GoesTo
<1>10. ASSUME Shutdown PROVE Jobs'
  BY <1>10 DEF Shutdown, Flush
<1>11. ASSUME ReadLine PROVE Jobs'
  BY <1>11 DEF ReadLine
<1>12. ASSUME Report PROVE Jobs'
  BY <1>12 DEF Report
<1>13. ASSUME DiskFills PROVE Jobs'
  BY <1>13 DEF DiskFills
<1>14. ASSUME Crash PROVE Jobs'
  <2>1. /\ \A u \in Thread : pc'[u] = "idle" /\ job'[u] = NoJob
        /\ ~failed' /\ phase' = "scanning"
    BY <1>14 DEF Crash, Start
  <2>2. QED  BY <1>b, <2>1
<1>15. CASE UNCHANGED vars
  BY <1>15 DEF vars
<1> QED
  BY <1>1, <1>2, <1>3, <1>4, <1>5, <1>6, <1>7, <1>8,
     <1>9, <1>10, <1>11, <1>12, <1>13, <1>14, <1>15 DEF Next, Done
-----------------------------------------------------------------------------
(* One carver.                                                             *)
LEMMA CarverStep ==
    ASSUME Types, Jobs, NEW d \in Data, OneCarver(d), [Next]_vars
    PROVE  OneCarver(d)'
<1> USE DEF OneCarver, Holds, Past, Carving, stream, carving, report, history, limits
<1>0. \A t \in Thread : Carving(t) => job[t].path \in Path
  BY DEF Types
<1>a. NoPath \notin Path /\ CACHED \notin Path
  BY PathAssumption
<1>b. NoJob.path = NoPath
  BY DEF NoJob
<1>c. returned' = returned => Named(d)' = Named(d)
  BY DEF Named
<1>1. ASSUME NEW t \in Thread, NEW f \in Text, Write(t, f) PROVE OneCarver(d)'
  <2>1. /\ job'[t] = [line |-> <<f, NoData>>, path |-> NoPath] /\ pc[t] = "idle"
        /\ \A u \in Thread : u # t => job'[u] = job[u] /\ pc'[u] = pc[u]
        /\ UNCHANGED <<disk_full, returned, carve_cache>>
        /\ pc'[t] = "write0"
    BY <1>1 DEF Write, Types
  <2>2. NoData # d
    BY RecorderAssumption
  <2>3. QED  BY <1>c, <2>1, <2>2
<1>2. ASSUME NEW t \in Thread, NEW o \in Object, Carve(t, o) PROVE OneCarver(d)'
  <2>0. data[o] \in Data
    BY RecorderAssumption
  <2>1. /\ pc[t] = "idle" /\ pc'[t] = "write0"
        /\ \A u \in Thread : u # t => job'[u] = job[u] /\ pc'[u] = pc[u]
        /\ UNCHANGED <<disk_full, returned>> /\ carve_cache' = carve_cache \cup {data[o]}
    BY <1>2 DEF Carve, CheckAndInsert, Types
  <2>2. CASE data[o] \in carve_cache
    <3>1. job'[t] = [line |-> <<CACHED, data[o]>>, path |-> NoPath]
      BY <1>2, <2>2 DEF Carve, Types
    <3>2. QED  BY <1>c, <2>0, <2>1, <2>2, <3>1
  <2>3. CASE data[o] \notin carve_cache
    <3>1. PICK q : job'[t] = [line |-> <<q, data[o]>>, path |-> q] /\ q \in Path
      <4>1. <<carved_file_count \div files_per_dir, filename[o]>> \in Path
        <5>1. carved_file_count \in 0 .. MaxCalls /\ filename[o] \in Name
          BY RecorderAssumption DEF Types
        <5>2. QED  BY <5>1, DirectoryType DEF Path
      <4>2. QED  BY <1>2, <2>3, <4>1 DEF Carve, Types
    <3>2. CASE d = data[o]
      BY <1>a, <1>c, <2>1, <2>3, <3>1, <3>2
    <3>3. CASE d # data[o]
      BY <1>a, <1>c, <2>0, <2>1, <2>3, <3>1, <3>3
    <3>4. QED  BY <3>2, <3>3
  <2>4. QED  BY <2>2, <2>3
<1>3. ASSUME NEW t \in Thread, Write0(t) PROVE OneCarver(d)'
  <2>0. job[t].line \in Line /\ pc[t] = "write0"
    BY <1>3 DEF Write0, Jobs
  <2>1. /\ Range(returned') = Range(returned) \cup {job[t].line}
        /\ Named(d)' = Named(d) \cup
              IF job[t].line[1] \in Path /\ job[t].line[2] = d THEN {Len(returned) + 1} ELSE {}
    BY <1>3, <2>0, Returns DEF Write0, Types
  <2>2. PICK where \in {"idle", "open", "histogram"} : GoTo(t, where)
    BY <1>3 DEF Write0, AfterWrite
  <2>3. UNCHANGED <<disk_full, carve_cache>>
    BY <1>3 DEF Write0
  <2>4. /\ \A u \in Thread : u # t => job'[u] = job[u] /\ pc'[u] = pc[u]
        /\ job'[t] = job[t] \/ (pc'[t] = "idle" /\ job'[t] = NoJob)
        /\ pc'[t] \in {"idle", "open", "histogram"}
    BY <2>2, GoesTo
  <2>5. Carving(t) <=> job[t].line[1] \in Path
    BY <1>0, <2>0 DEF Jobs
  <2>6. \A u \in Thread : pc[u] \in Past /\ Carving(u) /\ job[u].line[2] = d => Named(d) # {}
    <3>1. SUFFICES ASSUME NEW u \in Thread, pc[u] \in Past, Carving(u), job[u].line[2] = d
                   PROVE  Named(d) # {}
      OBVIOUS
    <3>2. job[u].line = <<job[u].path, d>> /\ job[u].line \in Range(returned)
      BY <3>1 DEF Jobs
    <3>3. QED  BY <1>0, <3>1, <3>2, NamedIs DEF Types
  <2>7. CASE Carving(t) /\ job[t].line[2] = d
    <3>1. Named(d) = {} /\ d \in carve_cache
      BY <2>0, <2>7
    <3>2. Named(d)' = {Len(returned) + 1}
      BY <2>1, <2>5, <2>7, <3>1
    <3>3. \A u \in Thread : ~Holds(u, d)'
      BY <2>0, <2>4, <2>7
    <3>4. job[t].line # <<CACHED, d>>
      BY <1>a, <2>5, <2>7
    <3>5. \A u \in Thread : pc'[u] \in Past /\ Carving(u)' /\ job'[u].line[2] = d => u = t
      BY <2>4, <2>6, <3>1
    <3>6. <<CACHED, d>> \in Range(returned') => d \in carve_cache'
      BY <2>3, <3>1
    <3>7. \A u \in Thread : pc'[u] = "write0" /\ job'[u].line = <<CACHED, d>> => d \in carve_cache'
      BY <2>3, <3>1
    <3>8. Named(d)' # {} /\ \A i, j \in Named(d)' : i = j
      BY <3>2
    <3>9. QED  BY <2>3, <3>1, <3>3, <3>5, <3>6, <3>7, <3>8
  <2>8. CASE ~(Carving(t) /\ job[t].line[2] = d)
    <3>1. Named(d)' = Named(d)
      BY <2>1, <2>5, <2>8
    <3>2. \A u \in Thread : Holds(u, d)' <=> Holds(u, d)
      BY <2>0, <2>4, <2>8
    <3>3. \A u \in Thread : pc'[u] \in Past /\ Carving(u)' /\ job'[u].line[2] = d
             => pc[u] \in Past /\ Carving(u) /\ job[u].line[2] = d
      BY <1>b, <2>4, <2>8
    <3>4. <<CACHED, d>> \in Range(returned') => d \in carve_cache
      BY <2>0, <2>1
    <3>5. \A u \in Thread : pc'[u] = "write0" /\ job'[u].line = <<CACHED, d>> => d \in carve_cache
      BY <2>4
    <3>6. QED  BY <2>3, <2>4, <3>1, <3>2, <3>3, <3>4, <3>5
  <2>9. QED  BY <2>7, <2>8
<1>4. ASSUME NEW t \in Thread, Write0Throws(t) PROVE OneCarver(d)'
  <2>1. /\ GoTo(t, "idle") /\ disk_full'
        /\ UNCHANGED <<returned, carve_cache, disk_full>>
    BY <1>4 DEF Write0Throws, Jobs
  <2>2. QED  BY <1>b, <1>c, <2>1, GoesTo
<1>5. ASSUME NEW t \in Thread, AddFeature(t) PROVE OneCarver(d)'
  <2>1. PICK where \in {"idle", "open"} : GoTo(t, where)
    BY <1>5 DEF AddFeature, AfterWrite
  <2>2. UNCHANGED <<returned, carve_cache, disk_full>> /\ pc[t] \in Past
    BY <1>5 DEF AddFeature
  <2>3. QED  BY <1>b, <1>c, <2>1, <2>2, GoesTo
<1>6. ASSUME NEW t \in Thread, AddFeatureThrows(t) PROVE OneCarver(d)'
  <2>1. /\ GoTo(t, "idle") /\ pc[t] \in Past
        /\ UNCHANGED <<returned, carve_cache, disk_full>>
    BY <1>6 DEF AddFeatureThrows
  <2>2. QED  BY <1>b, <1>c, <2>1, GoesTo
<1>7. ASSUME NEW t \in Thread, OpenFile(t) PROVE OneCarver(d)'
  <2>1. /\ GoTo(t, "data") /\ pc[t] \in Past
        /\ UNCHANGED <<returned, carve_cache, disk_full>>
    BY <1>7 DEF OpenFile
  <2>2. QED  BY <1>b, <1>c, <2>1, GoesTo
<1>8. ASSUME NEW t \in Thread, OpenFails(t) PROVE OneCarver(d)'
  <2>1. /\ GoTo(t, "idle") /\ pc[t] \in Past
        /\ UNCHANGED <<returned, carve_cache, disk_full>>
    BY <1>8 DEF OpenFails
  <2>2. QED  BY <1>b, <1>c, <2>1, GoesTo
<1>9. ASSUME NEW t \in Thread, WriteData(t) PROVE OneCarver(d)'
  <2>1. /\ GoTo(t, "idle") /\ pc[t] \in Past
        /\ UNCHANGED <<returned, carve_cache, disk_full>>
    BY <1>9 DEF WriteData
  <2>2. QED  BY <1>b, <1>c, <2>1, GoesTo
<1>10. ASSUME Shutdown PROVE OneCarver(d)'
  BY <1>10, <1>c DEF Shutdown, Flush
<1>11. ASSUME ReadLine PROVE OneCarver(d)'
  BY <1>11, <1>c DEF ReadLine
<1>12. ASSUME Report PROVE OneCarver(d)'
  BY <1>12, <1>c DEF Report
<1>13. ASSUME DiskFills PROVE OneCarver(d)'
  BY <1>13, <1>c DEF DiskFills
<1>14. ASSUME Crash PROVE OneCarver(d)'
  <2>1. /\ \A u \in Thread : pc'[u] = "idle" /\ job'[u] = NoJob
        /\ returned' = <<>> /\ carve_cache' = {}
    BY <1>14 DEF Crash, Start
  <2>2. Named(d)' = {} /\ Range(returned') = {}
    BY <2>1 DEF Named, Range
  <2>3. QED  BY <2>1, <2>2
<1>15. CASE UNCHANGED vars
  BY <1>15, <1>c DEF vars
<1> QED
  BY <1>1, <1>2, <1>3, <1>4, <1>5, <1>6, <1>7, <1>8,
     <1>9, <1>10, <1>11, <1>12, <1>13, <1>14, <1>15 DEF Next, Done
-----------------------------------------------------------------------------
(* The file that one line names.                                           *)
LEMMA BusyAlone ==
    ASSUME Types, Jobs, NEW p \in Path, NEW d \in Data, OneCarver(d), Sole(p, d),
           NEW t \in Busy(p), NEW u \in Busy(p)
    PROVE  t = u /\ job[t].line = <<p, d>>
<1>1. p # NoPath
  BY PathAssumption
<1>2. \A v \in Busy(p) : v \in Thread /\ pc[v] \in Past /\ job[v].path = p /\ Carving(v)
  BY <1>1 DEF Busy, Carving
<1>3. \A v \in Busy(p) :
         /\ job[v].line = <<p, job[v].line[2]>> /\ job[v].line[2] \in Data
         /\ job[v].line \in Range(returned)
  BY <1>2 DEF Jobs
<1>4. \A v \in Busy(p) : job[v].line[2] = d
  BY <1>3 DEF Sole
<1>5. QED  BY <1>2, <1>3, <1>4 DEF OneCarver

LEMMA WayStep ==
    ASSUME Types, Jobs, NEW p \in Path, NEW d \in Data, OneCarver(d), OnItsWay(p, d),
           [Next]_vars
    PROVE  OnItsWay(p, d)'
<1> USE DEF stream, carving, report, history, limits
<1>0. p # NoPath /\ NoJob.path = NoPath
  BY PathAssumption DEF NoJob
<1>a. returned' = returned => Sole(p, d)' = Sole(p, d)
  BY DEF Sole
<1>b. UNCHANGED <<pc, job>> => Busy(p)' = Busy(p)
  BY DEF Busy
<1>c. ASSUME NEW t \in Thread, GoTo(t, "idle") \/ GoTo(t, "data") \/ GoTo(t, "open"),
             job[t].path # p
      PROVE  Busy(p)' = Busy(p) /\ \A u \in Busy(p) : pc'[u] = pc[u]
  BY <1>0, <1>c, GoesTo DEF Busy
<1>1. ASSUME NEW t \in Thread, NEW f \in Text, Write(t, f) PROVE OnItsWay(p, d)'
  <2>1. /\ pc[t] = "idle" /\ pc'[t] = "write0"
        /\ \A u \in Thread : u # t => job'[u] = job[u] /\ pc'[u] = pc[u]
        /\ UNCHANGED <<disk_full, returned, files, unadded>>
    BY <1>1 DEF Write, Types
  <2>2. Busy(p)' = Busy(p) /\ \A u \in Busy(p) : pc'[u] = pc[u]
    BY <2>1 DEF Busy, Past
  <2>3. QED  BY <1>a, <2>1, <2>2 DEF OnItsWay
<1>2. ASSUME NEW t \in Thread, NEW o \in Object, Carve(t, o) PROVE OnItsWay(p, d)'
  <2>1. /\ pc[t] = "idle" /\ pc'[t] = "write0"
        /\ \A u \in Thread : u # t => job'[u] = job[u] /\ pc'[u] = pc[u]
        /\ UNCHANGED <<disk_full, returned, files, unadded>>
    BY <1>2 DEF Carve, Types
  <2>2. Busy(p)' = Busy(p) /\ \A u \in Busy(p) : pc'[u] = pc[u]
    BY <2>1 DEF Busy, Past
  <2>3. QED  BY <1>a, <2>1, <2>2 DEF OnItsWay
<1>3. ASSUME NEW t \in Thread, Write0(t) PROVE OnItsWay(p, d)'
  <2>0. job[t].line \in Line /\ pc[t] = "write0" /\ UNCHANGED <<disk_full, files, unadded>>
    BY <1>3 DEF Write0, Jobs
  <2>1. Range(returned') = Range(returned) \cup {job[t].line}
    BY <1>3, <2>0, Returns DEF Write0, Types
  <2>2. PICK where \in {"idle", "open", "histogram"} :
           GoTo(t, where) /\ (Carving(t) => where # "idle")
    BY <1>3 DEF Write0, AfterWrite, Carving
  <2>3. CASE job[t].path = p
    <3>1. Carving(t) /\ job[t].line = <<p, job[t].line[2]>> /\ job[t].line[2] \in Data
      BY <1>0, <2>3 DEF Carving, Jobs
    <3>2. CASE job[t].line[2] # d
      BY <2>1, <3>1, <3>2 DEF OnItsWay, Sole
    <3>3. CASE job[t].line[2] = d /\ Sole(p, d)'
      <4>1. Named(d) = {}
        BY <2>0, <3>1, <3>3 DEF OneCarver, Holds
      <4>2. Busy(p) = {}
        <5>1. SUFFICES ASSUME NEW u \in Busy(p) PROVE FALSE
          OBVIOUS
        <5>2. u \in Thread /\ pc[u] \in Past /\ job[u].path = p /\ Carving(u)
          BY <1>0 DEF Busy, Carving
        <5>3. /\ job[u].line = <<p, job[u].line[2]>> /\ job[u].line[2] \in Data
              /\ job[u].line \in Range(returned)
          BY <5>2 DEF Jobs
        <5>4. job[u].line[2] = d
          BY <2>1, <3>3, <5>3 DEF Sole
        <5>5. QED  BY <4>1, <5>3, <5>4, NamedIs DEF Types
      <4>3. Busy(p)' = {t} /\ pc'[t] # "data"
        BY <2>0, <2>2, <2>3, <3>1, <4>2, GoesTo DEF Busy, Past
      <4>4. QED  BY <4>3 DEF OnItsWay
    <3>4. QED  BY <3>2, <3>3 DEF OnItsWay
  <2>4. CASE job[t].path # p
    <3>1. \A e : job[t].line # <<p, e>>
      BY <2>0, <2>4 DEF Jobs, Carving
    <3>2. Sole(p, d)' => Sole(p, d)
      BY <2>1, <3>1 DEF Sole
    <3>3. Busy(p)' = Busy(p) /\ \A u \in Busy(p) : pc'[u] = pc[u]
      BY <1>0, <2>0, <2>2, <2>4, GoesTo DEF Busy, Past
    <3>4. QED  BY <2>0, <3>2, <3>3 DEF OnItsWay
  <2>5. QED  BY <2>3, <2>4
<1>4. ASSUME NEW t \in Thread, Write0Throws(t) PROVE OnItsWay(p, d)'
  BY <1>4 DEF Write0Throws, Jobs, OnItsWay
<1>5. ASSUME NEW t \in Thread, AddFeature(t) PROVE OnItsWay(p, d)'
  <2>1. PICK where \in {"idle", "open"} : GoTo(t, where) /\ (Carving(t) => where = "open")
    BY <1>5 DEF AddFeature, AfterWrite, Carving
  <2>2. UNCHANGED <<returned, files, unadded, disk_full>> /\ pc[t] = "histogram"
    BY <1>5 DEF AddFeature
  <2>3. Busy(p)' = Busy(p) /\ \A u \in Busy(p) : pc'[u] = "data" => pc[u] = "data"
    BY <1>0, <2>1, <2>2, GoesTo DEF Busy, Past, Carving
  <2>4. QED  BY <1>a, <2>2, <2>3 DEF OnItsWay
<1>6. ASSUME NEW t \in Thread, AddFeatureThrows(t) PROVE OnItsWay(p, d)'
  <2>1. job[t].line[1] \in Feature
    BY <1>6, LineParts DEF AddFeatureThrows, Jobs
  <2>2. unadded' # NoTally
    BY <1>6, <2>1, Tallied DEF AddFeatureThrows, Types
  <2>3. NoTally' = NoTally
    BY DEF NoTally
  <2>4. QED  BY <2>2, <2>3 DEF OnItsWay
<1>7. ASSUME NEW t \in Thread, OpenFile(t) PROVE OnItsWay(p, d)'
  <2>1. GoTo(t, "data") /\ pc[t] = "open" /\ UNCHANGED <<returned, unadded, disk_full>>
    BY <1>7 DEF OpenFile
  <2>2. CASE job[t].path = p /\ Sole(p, d)
    <3>1. Busy(p) = {t}
      <4>1. t \in Busy(p)
        BY <2>1, <2>2 DEF Busy, Past
      <4>2. QED  BY <4>1, <2>2, BusyAlone
    <3>2. Busy(p)' = {t}
      BY <2>1, <2>2, <3>1, GoesTo DEF Busy, Past
    <3>3. files'[p] = Empty
      BY <1>7, <2>2 DEF OpenFile, Truncate, Types
    <3>4. QED  BY <3>2, <3>3 DEF OnItsWay
  <2>3. CASE job[t].path # p
    <3>1. files'[p] = files[p]
      BY <1>7, <2>3 DEF OpenFile, Types
    <3>2. QED  BY <1>a, <1>c, <2>1, <2>3, <3>1 DEF OnItsWay
  <2>4. QED  BY <1>a, <2>1, <2>2, <2>3 DEF OnItsWay
<1>8. ASSUME NEW t \in Thread, OpenFails(t) PROVE OnItsWay(p, d)'
  BY <1>8 DEF OpenFails, OnItsWay
<1>9. ASSUME NEW t \in Thread, WriteData(t) PROVE OnItsWay(p, d)'
  <2>1. GoTo(t, "idle") /\ pc[t] = "data" /\ UNCHANGED <<returned, unadded, disk_full>>
    BY <1>9 DEF WriteData
  <2>2. CASE job[t].path = p /\ Sole(p, d) /\ ~disk_full /\ unadded = NoTally
    <3>0. t \in Busy(p)
      BY <2>1, <2>2 DEF Busy, Past
    <3>1. Busy(p) = {t} /\ job[t].line = <<p, d>>
      BY <3>0, <2>2, BusyAlone
    <3>2. Busy(p)' = {}
      BY <2>1, <3>1, GoesTo DEF Busy, Past
    <3>3. files[p] = Empty
      BY <2>1, <2>2, <3>0, <3>1 DEF OnItsWay
    <3>4. files'[p] = d
      BY <1>9, <2>2, <3>1, <3>3 DEF WriteData, Over, Types
    <3>5. QED  BY <3>2, <3>4 DEF OnItsWay
  <2>3. CASE job[t].path # p
    <3>1. files'[p] = files[p]
      BY <1>9, <2>3 DEF WriteData, Types
    <3>2. QED  BY <1>a, <1>c, <2>1, <2>3, <3>1 DEF OnItsWay
  <2>5. NoTally' = NoTally
    BY DEF NoTally
  <2>4. QED  BY <1>a, <2>1, <2>2, <2>3, <2>5 DEF OnItsWay
<1>10. ASSUME Shutdown PROVE OnItsWay(p, d)'
  BY <1>10, <1>a, <1>b DEF Shutdown, Flush, OnItsWay
<1>11. ASSUME ReadLine PROVE OnItsWay(p, d)'
  <2>1. unadded' = NoTally => unadded = NoTally
    BY <1>11, Tallied DEF ReadLine, Types
  <2>2. UNCHANGED <<pc, job, files, returned, disk_full>>
    BY <1>11 DEF ReadLine
  <2>3. NoTally' = NoTally
    BY DEF NoTally
  <2>4. QED  BY <1>a, <1>b, <2>1, <2>2, <2>3 DEF OnItsWay
<1>12. ASSUME Report PROVE OnItsWay(p, d)'
  BY <1>12, <1>a, <1>b DEF Report, OnItsWay
<1>13. ASSUME DiskFills PROVE OnItsWay(p, d)'
  BY <1>13 DEF DiskFills, OnItsWay
<1>14. ASSUME Crash PROVE OnItsWay(p, d)'
  <2>1. Range(returned') = {}
    BY <1>14 DEF Crash, Start, Range
  <2>2. QED  BY <2>1 DEF OnItsWay, Sole
<1>15. CASE UNCHANGED vars
  BY <1>15, <1>a, <1>b DEF vars, OnItsWay
<1> QED
  BY <1>1, <1>2, <1>3, <1>4, <1>5, <1>6, <1>7, <1>8,
     <1>9, <1>10, <1>11, <1>12, <1>13, <1>14, <1>15 DEF Next, Done
-----------------------------------------------------------------------------
(* The inductive invariant, and what it implies.                           *)
LEMMA CarveInit == Init => CarveInv
<1> SUFFICES ASSUME Init PROVE CarveInv
  OBVIOUS
<1>1. returned = <<>> /\ Range(returned) = {}
  BY DEF Init, Range
<1>2. \A t \in Thread : pc[t] = "idle" /\ job[t] = NoJob
  BY DEF Init
<1>3. Types
  <2>1. NoJob \in [line : Line \cup {Banner}, path : Path \cup {NoPath}]
    BY DEF NoJob
  <2>2. unadded \in [Feature -> Nat]
    BY DEF Init, NoTally
  <2>3. carved_file_count \in 0 .. calls /\ calls \in 0 .. MaxCalls
    BY RecorderAssumption DEF Init
  <2>4. QED  BY <1>1, <2>1, <2>2, <2>3 DEF Init, Types
<1>4. Jobs
  <2>1. NoJob.path = NoPath
    BY DEF NoJob
  <2>2. QED  BY <1>2, <2>1 DEF Init, Jobs, Past, Carving
<1>5. ASSUME NEW d \in Data PROVE OneCarver(d)
  <2>1. Named(d) = {} /\ carve_cache = {}
    BY <1>1 DEF Named, Init
  <2>2. QED  BY <1>1, <1>2, <2>1 DEF OneCarver, Holds, Past
<1>6. \A p \in Path, d \in Data : OnItsWay(p, d)
  BY <1>1 DEF OnItsWay, Sole
<1>7. QED  BY <1>3, <1>4, <1>5, <1>6 DEF CarveInv

LEMMA CarveStep == CarveInv /\ [Next]_vars => CarveInv'
<1> SUFFICES ASSUME CarveInv, [Next]_vars PROVE CarveInv'
  OBVIOUS
<1> USE DEF CarveInv
<1>1. Types' /\ Jobs'
  BY TypesStep, JobsStep
<1>2. ASSUME NEW d \in Data PROVE OneCarver(d)'
  BY <1>2, CarverStep
<1>3. ASSUME NEW p \in Path, NEW d \in Data PROVE OnItsWay(p, d)'
  BY <1>3, WayStep
<1>4. QED  BY <1>1, <1>2, <1>3

LEMMA AtMostOneOf ==
    ASSUME NEW S, \A i, j \in S : i = j
    PROVE  Cardinality(S) \in Nat /\ Cardinality(S) <= 1
<1>1. CASE S = {}
  BY <1>1, FS_EmptySet
<1>2. CASE S # {}
  <2>1. PICK i : i \in S
    BY <1>2
  <2>2. S = {i}
    BY <2>1
  <2>3. Cardinality({i}) = 1
    BY FS_Singleton
  <2>4. QED  BY <2>2, <2>3
<1>3. QED  BY <1>1, <1>2

LEMMA CarveImplies == CarveInv => CarvedOnce
<1> SUFFICES ASSUME CarveInv PROVE CarvedOnce
  OBVIOUS
<1> USE DEF CarveInv
<1>0. /\ \A i \in DOMAIN returned : returned[i] \in Line /\ returned[i] \in Range(returned)
      /\ IsFiniteSet(DOMAIN returned)
  <2>1. Len(returned) \in Int /\ DOMAIN returned = 1 .. Len(returned)
    BY LenProperties DEF Types
  <2>2. IsFiniteSet(1 .. Len(returned))
    <3>1. Len(returned) \in Int
      BY <2>1
    <3>2. QED  BY <3>1, FS_Interval
  <2>3. QED  BY <2>1, <2>2 DEF Types, Range
<1>1. FilesMatch
  <2>1. SUFFICES ASSUME phase # "scanning", ~disk_full, unadded = NoTally,
                        NEW i \in DOMAIN returned, returned[i][1] \in Path,
                        Occurrences(returned, returned[i][1]) = 1
                 PROVE  files[returned[i][1]] = returned[i][2]
    BY DEF FilesMatch
  <2> DEFINE p == returned[i][1]
             d == returned[i][2]
             At == {j \in DOMAIN returned : returned[j][1] = p}
  <2>2. d \in Data /\ <<p, d>> \in Range(returned)
    BY <1>0, <2>1, LineParts
  <2>3. At = {i}
    <3>1. IsFiniteSet(At)
      BY <1>0, FS_Subset
    <3>2. Cardinality(At) = 1
      BY <2>1 DEF Occurrences
    <3>3. PICK j : At = {j}
      BY <3>1, <3>2, FS_Singleton
    <3>4. QED  BY <3>3
  <2>4. \A e \in Data : <<p, e>> \in Range(returned) => e = d
    <3>1. SUFFICES ASSUME NEW j \in DOMAIN returned, NEW e \in Data, returned[j] = <<p, e>>
                   PROVE  e = d
      BY DEF Range
    <3>2. j = i
      BY <2>3, <3>1
    <3>3. QED  BY <3>1, <3>2
  <2>5. Sole(p, d)
    BY <2>2, <2>4 DEF Sole
  <2>6. Busy(p) = {}
    BY <2>1 DEF Jobs, Busy, Past
  <2>7. QED  BY <2>1, <2>2, <2>5, <2>6 DEF OnItsWay
<1>2. ASSUME NEW d \in Data PROVE Cardinality(Named(d)) <= 1
  BY <1>2, AtMostOneOf DEF OneCarver
<1>3. ASSUME phase # "scanning", ~disk_full, NEW i \in DOMAIN returned, returned[i][1] = CACHED
      PROVE  Named(returned[i][2]) # {}
  <2>1. returned[i] \in Line /\ returned[i] = <<CACHED, returned[i][2]>>
    BY <1>0, <1>3, LineParts
  <2>2. returned[i][2] \in Data
    BY <1>3, <2>1, PathAssumption DEF Line
  <2>3. <<CACHED, returned[i][2]>> \in Range(returned)
    BY <1>0, <2>1
  <2>4. \A t \in Thread : ~Holds(t, returned[i][2])
    BY <1>3 DEF Jobs, Holds
  <2>5. QED  BY <1>3, <2>2, <2>3, <2>4 DEF OneCarver
<1>4. QED  BY <1>1, <1>2, <1>3 DEF CarvedOnce

(* Equal objects are carved once, whatever threads find them; the others   *)
(* are reported as duplicates of one that is; and a file that one line     *)
(* names has that line's bytes, when nothing has failed since the start.   *)
THEOREM CarvesOnce == Spec => []CarvedOnce
<1>1. CarveInv => CarvedOnce
  BY CarveImplies
<1>2. QED  BY <1>1, CarveInit, CarveStep, PTL DEF Spec
-----------------------------------------------------------------------------
(* The lines of a sequence of cells.                                       *)
AnyLine == Line \cup {Banner}

(* A cell is a place in a line.                                            *)
LEMMA CellParts ==
  ASSUME NEW c \in Cell
  PROVE  c = <<c[1], c[2]>> /\ c[1] \in AnyLine /\ c[2] \in 1 .. Width(c[1])
<1>1. PICK l \in AnyLine : c \in Range(Cells(l))
  BY DEF Cell, AnyLine
<1>2. PICK i \in 1 .. Width(l) : c = <<l, i>>
  BY <1>1 DEF Range, Cells
<1> QED BY <1>2

(* The cells of a line, of which the last is its newline.                  *)
LEMMA CellsOf ==
  ASSUME NEW l \in AnyLine
  PROVE  /\ Width(l) \in {2, 3} /\ Cells(l) \in Seq(Cell) /\ Len(Cells(l)) = Width(l)
         /\ \A i \in 1 .. Width(l) : Cells(l)[i] = <<l, i>>
         /\ \A i \in 1 .. Width(l) : Cells(l)[i] \in Newline <=> i = Width(l)
<1>1. Width(l) \in {2, 3}
  BY DEF Width
<1>2. \A i \in 1 .. Width(l) : Cells(l)[i] = <<l, i>>
  BY DEF Cells
<1>3. \A i \in 1 .. Width(l) : <<l, i>> \in Cell
  BY <1>2 DEF Cell, AnyLine, Range, Cells
<1>4. Cells(l) = [i \in 1 .. Width(l) |-> <<l, i>>]
  BY DEF Cells
<1>5. Cells(l) \in Seq(Cell) /\ Len(Cells(l)) = Width(l)
  BY <1>1, <1>3, <1>4
<1> QED BY <1>1, <1>2, <1>3, <1>5 DEF Newline, IsNewline

LEMMA NewlineIs == \A c \in Cell : c \in Newline <=> IsNewline(c)
BY DEF Newline

LEMMA NewlinesOf ==
  ASSUME NEW d \in Seq(Cell)
  PROVE  /\ Newlines(d) = {i \in 1 .. Len(d) : d[i] \in Newline}
         /\ Newlines(d) = {i \in 1 .. Len(d) : IsNewline(d[i])}
         /\ \A i \in 1 .. Len(d) : d[i] \in Cell
BY LenProperties, ElementOfSeq, NewlineIs DEF Newlines

LEMMA LinesType ==
  ASSUME NEW d \in Seq(Cell)
  PROVE  /\ SelectIn(d, Newline) \in Seq(Cell)
         /\ Lines(d) \in Seq(AnyLine) /\ Len(Lines(d)) = Len(SelectIn(d, Newline))
         /\ \A i \in 1 .. Len(Lines(d)) : Lines(d)[i] = SelectIn(d, Newline)[i][1]
<1> DEFINE e == SelectIn(d, Newline)
<1>1. e \in Seq(Cell)
  <2>1. e \in Seq(Newline \cap Cell)
    BY SelectType
  <2> HIDE DEF e
  <2> QED BY <2>1, SeqMonotonic
<1>2. Lines(d) = [i \in DOMAIN e |-> e[i][1]]
  BY DEF Lines
<1> HIDE DEF e
<1>3. Len(e) \in Nat /\ DOMAIN e = 1 .. Len(e) /\ \A i \in 1 .. Len(e) : e[i][1] \in AnyLine
  BY <1>1, LenProperties, ElementOfSeq, CellParts
<1> QED BY <1>1, <1>2, <1>3 DEF e

(* The lines of one file after another.                                    *)
LEMMA LinesConcat ==
  ASSUME NEW a \in Seq(Cell), NEW b \in Seq(Cell)
  PROVE  Lines(a \o b) = Lines(a) \o Lines(b)
<1> DEFINE e == SelectIn(a, Newline)
           f == SelectIn(b, Newline)
           g == SelectIn(a \o b, Newline)
<1>1. g = e \o f
  BY SelectConcat
<1>2. a \o b \in Seq(Cell)
  BY ConcatProperties
<1> DEFINE u == Lines(a)
           v == Lines(b)
           w == Lines(a \o b)
<1>3. /\ e \in Seq(Cell) /\ f \in Seq(Cell) /\ g \in Seq(Cell)
      /\ u \in Seq(AnyLine) /\ v \in Seq(AnyLine) /\ w \in Seq(AnyLine)
      /\ Len(u) = Len(e) /\ Len(v) = Len(f) /\ Len(w) = Len(g)
      /\ \A i \in 1 .. Len(u) : u[i] = e[i][1]
      /\ \A i \in 1 .. Len(v) : v[i] = f[i][1]
      /\ \A i \in 1 .. Len(w) : w[i] = g[i][1]
  BY <1>2, LinesType
<1> HIDE DEF e, f, g, u, v, w
<1>4. /\ Len(e) \in Nat /\ Len(f) \in Nat /\ Len(g) = Len(e) + Len(f)
      /\ \A i \in 1 .. Len(g) : g[i] = IF i <= Len(e) THEN e[i] ELSE f[i - Len(e)]
  BY <1>1, <1>3, LenProperties, ConcatProperties
<1>5. /\ u \o v \in Seq(AnyLine) /\ Len(u \o v) = Len(u) + Len(v)
      /\ \A i \in 1 .. Len(u) + Len(v) : (u \o v)[i] = IF i <= Len(u) THEN u[i] ELSE v[i - Len(u)]
  <2>1. u \in Seq(AnyLine) /\ v \in Seq(AnyLine)
    BY <1>3
  <2> QED BY <2>1, ConcatProperties, Zenon
<1>6. ASSUME NEW i \in 1 .. Len(w) PROVE w[i] = (u \o v)[i]
  <2>1. w[i] = g[i][1]
    BY <1>3
  <2>2. CASE i <= Len(e)
    BY <1>3, <1>4, <1>5, <2>1, <2>2
  <2>3. CASE ~(i <= Len(e))
    <3>1. i - Len(e) \in 1 .. Len(v)
      BY <1>3, <1>4, <2>3
    <3> QED BY <1>3, <1>4, <1>5, <2>1, <2>3, <3>1
  <2> QED BY <2>2, <2>3
<1>7. w = u \o v
  BY <1>3, <1>4, <1>5, <1>6, SeqEqual
<1> QED BY <1>7 DEF u, v, w

LEMMA LinesNone ==
  ASSUME NEW d \in Seq(Cell), Newlines(d) = {}
  PROVE  Lines(d) = <<>>
<1>1. SelectIn(d, Newline) = <<>>
  BY NewlinesOf, SelectNone
<1> QED BY <1>1 DEF Lines

(* The cells of a line have that line.                                     *)
LEMMA LinesCells ==
  ASSUME NEW l \in AnyLine
  PROVE  Lines(Cells(l)) = <<l>>
<1> DEFINE n == Width(l)
           d == Cells(l)
           b == SubSeq(d, 1, n - 1)
           x == <<l, n>>
<1>1. /\ n \in {2, 3} /\ d \in Seq(Cell) /\ Len(d) = n /\ d[n] = x
      /\ \A i \in 1 .. n : d[i] \in Newline <=> i = n
  BY CellsOf
<1> HIDE DEF n, d
<1>2. n - 1 \in 0 .. Len(d) - 1 /\ (n - 1) + 1 = n
  BY <1>1
<1>3. b \in Seq(Cell) /\ x \in Cell /\ SubSeq(d, 1, n) = Append(b, x)
  BY <1>1, <1>2, FirstAndNext
<1>4. SubSeq(d, 1, n) = d
  BY <1>1, SubSeqFull
<1>5. Len(b) = n - 1 /\ \A i \in 1 .. n - 1 : b[i] = d[i]
  BY <1>1, <1>2, SubSeqProperties
<1> HIDE DEF b, x
<1>6. SelectIn(b, Newline) = <<>>
  BY <1>1, <1>3, <1>5, SelectNone
<1>7. SelectIn(d, Newline) = Selected(<<>>, x, Newline)
  BY <1>3, <1>4, <1>6, SelectAppend
<1>8. SelectIn(d, Newline) = <<x>>
  BY <1>1, <1>7 DEF Selected
<1> QED BY <1>8 DEF Lines, d, x

-----------------------------------------------------------------------------
LEMMA FeaturesConcat ==
  ASSUME NEW a \in Seq(AnyLine), NEW b \in Seq(AnyLine)
  PROVE  /\ Features(a) \in Seq(Line) /\ Features(b) \in Seq(Line)
         /\ Features(a \o b) = Features(a) \o Features(b)
<1>1. Features(a) \in Seq(Line \cap AnyLine) /\ Features(b) \in Seq(Line \cap AnyLine)
  BY SelectType DEF Features
<1>2. Line \cap AnyLine = Line
  BY DEF AnyLine
<1>3. Features(a \o b) = Features(a) \o Features(b)
  BY SelectConcat DEF Features
<1> QED BY <1>1, <1>2, <1>3

(* The banner is no feature.                                               *)
LEMMA FeaturesOne ==
  /\ \A l \in Line : Features(<<l>>) = <<l>>
  /\ Features(<<Banner>>) = <<>>
<1>1. ASSUME NEW l \in AnyLine
      PROVE  Features(<<l>>) = Selected(<<>>, l, Line)
  <2>1. <<>> \in Seq(AnyLine)
    BY EmptySeq
  <2>2. SelectIn(Append(<<>>, l), Line) = Selected(SelectIn(<<>>, Line), l, Line)
    BY <1>1, <2>1, SelectAppend
  <2>3. SelectIn(<<>>, Line) = <<>> /\ Append(<<>>, l) = <<l>>
    BY SelectEmpty
  <2> QED BY <2>2, <2>3 DEF Features
<1>2. Banner \notin Line
  BY HeaderAssumption DEF Banner, Line, Feature
<1> QED BY <1>1, <1>2 DEF AnyLine, Selected

(* A sequence is a prefix of another that is it and some more.             *)
LEMMA PrefixOf ==
  ASSUME NEW T, NEW a \in Seq(T), NEW c \in Seq(T)
  PROVE  a \o c \in Seq(T) /\ IsPrefix(a, a \o c)
<1>1. a \o c \in Seq(T) /\ Len(a \o c) = Len(a) + Len(c) /\ Len(a) \in Nat /\ Len(c) \in Nat
  BY ConcatProperties, LenProperties
<1>2. SubSeq(a \o c, 1, Len(a)) = SubSeq(a, 1, Len(a))
  BY <1>1, SubSeqOfConcat1
<1> QED BY <1>1, <1>2 DEF IsPrefix

LEMMA PrefixRest ==
  ASSUME NEW T, NEW a \in Seq(T), NEW b \in Seq(T), IsPrefix(a, b)
  PROVE  \E c \in Seq(T) : b = a \o c
<1>1. Len(a) \in Nat /\ Len(b) \in Nat /\ Len(a) <= Len(b)
  BY LenProperties DEF IsPrefix
<1>2. a = SubSeq(b, 1, Len(a))
  BY SubSeqFull DEF IsPrefix
<1> DEFINE c == SubSeq(b, Len(a) + 1, Len(b))
<1>3. b = SubSeq(b, 1, Len(b))
  BY SubSeqFull
<1>4. SubSeq(b, 1, Len(a)) \o c = SubSeq(b, 1, Len(b))
  <2>1. 1 \in 1 .. Len(b) + 1 /\ Len(a) \in 1 - 1 .. Len(b) /\ Len(b) \in Len(a) .. Len(b)
    BY <1>1
  <2> QED BY <2>1, ConcatAdjacentSubSeq, Zenon
<1>5. c \in Seq(T)
  BY <1>1, SubSeqProperties
<1> QED BY <1>2, <1>3, <1>4, <1>5

LEMMA PrefixLines ==
  ASSUME NEW a \in Seq(Cell), NEW b \in Seq(Cell)
  PROVE  /\ IsPrefix(Lines(a), Lines(a \o b))
         /\ IsPrefix(Features(Lines(a)), Features(Lines(a \o b)))
<1>1. Lines(a) \in Seq(AnyLine) /\ Lines(b) \in Seq(AnyLine) /\ Lines(a \o b) = Lines(a) \o Lines(b)
  BY LinesType, LinesConcat
<1> DEFINE u == Lines(a)
           v == Lines(b)
<1> HIDE DEF u, v
<1>2. u \in Seq(AnyLine) /\ v \in Seq(AnyLine) /\ Lines(a \o b) = u \o v
  BY <1>1 DEF u, v
<1>3. IsPrefix(u, u \o v)
  BY <1>2, PrefixOf
<1>4. /\ Features(u) \in Seq(Line) /\ Features(v) \in Seq(Line)
      /\ Features(u \o v) = Features(u) \o Features(v)
  BY <1>2, FeaturesConcat
<1>5. IsPrefix(Features(u), Features(u) \o Features(v))
  BY <1>4, PrefixOf
<1> QED BY <1>2, <1>3, <1>4, <1>5 DEF u

(* A prefix of a prefix.                                                   *)
LEMMA PrefixTransitive ==
  ASSUME NEW T, NEW a \in Seq(T), NEW b \in Seq(T), NEW c \in Seq(T),
         IsPrefix(a, b), IsPrefix(b, c)
  PROVE  IsPrefix(a, c)
<1>1. PICK u \in Seq(T) : b = a \o u
  BY PrefixRest
<1>2. PICK v \in Seq(T) : c = b \o v
  BY PrefixRest
<1>3. c = a \o (u \o v) /\ u \o v \in Seq(T)
  BY <1>1, <1>2, ConcatAssociative, ConcatProperties
<1> QED BY <1>3, PrefixOf

(* A sequence is its first n elements and the rest.                        *)
LEMMA Split ==
  ASSUME NEW T, NEW s \in Seq(T), NEW n \in 0 .. Len(s)
  PROVE  /\ SubSeq(s, 1, n) \in Seq(T) /\ Len(SubSeq(s, 1, n)) = n
         /\ \A i \in 1 .. n : SubSeq(s, 1, n)[i] = s[i]
         /\ SubSeq(s, n + 1, Len(s)) \in Seq(T) /\ Len(SubSeq(s, n + 1, Len(s))) = Len(s) - n
         /\ \A i \in 1 .. Len(s) - n : SubSeq(s, n + 1, Len(s))[i] = s[n + i]
         /\ s = SubSeq(s, 1, n) \o SubSeq(s, n + 1, Len(s))
<1>1. Len(s) \in Nat /\ n \in Nat /\ n <= Len(s) /\ \A i \in 1 .. Len(s) : s[i] \in T
  BY LenProperties, ElementOfSeq
<1>2. /\ SubSeq(s, 1, n) \in Seq(T) /\ Len(SubSeq(s, 1, n)) = n
      /\ \A i \in 1 .. n : SubSeq(s, 1, n)[i] = s[i]
  BY <1>1, SubSeqProperties
<1>3. /\ SubSeq(s, n + 1, Len(s)) \in Seq(T) /\ Len(SubSeq(s, n + 1, Len(s))) = Len(s) - n
      /\ \A i \in 1 .. Len(s) - n : SubSeq(s, n + 1, Len(s))[i] = s[n + i]
  BY <1>1, SubSeqProperties
<1>4. s = SubSeq(s, 1, n) \o SubSeq(s, n + 1, Len(s))
  <2>1. 1 \in 1 .. Len(s) + 1 /\ n \in 1 - 1 .. Len(s) /\ Len(s) \in n .. Len(s)
    BY <1>1
  <2>2. SubSeq(s, 1, n) \o SubSeq(s, n + 1, Len(s)) = SubSeq(s, 1, Len(s))
    BY <2>1, ConcatAdjacentSubSeq, Zenon
  <2> QED BY <2>2, SubSeqFull
<1> QED BY <1>2, <1>3, <1>4

(* And of two sequences one after the other, the first and the second.     *)
LEMMA Parts ==
  ASSUME NEW T, NEW a \in Seq(T), NEW c \in Seq(T)
  PROVE  /\ a \o c \in Seq(T) /\ Len(a \o c) = Len(a) + Len(c)
         /\ Len(a) \in Nat /\ Len(c) \in Nat
         /\ \A i \in 1 .. Len(a) : (a \o c)[i] = a[i]
         /\ \A i \in 1 .. Len(c) : (a \o c)[Len(a) + i] = c[i]
         /\ SubSeq(a \o c, 1, Len(a)) = a
         /\ SubSeq(a \o c, Len(a) + 1, Len(a) + Len(c)) = c
<1>1. /\ a \o c \in Seq(T) /\ Len(a \o c) = Len(a) + Len(c)
      /\ Len(a) \in Nat /\ Len(c) \in Nat
      /\ \A i \in 1 .. Len(a) + Len(c) : (a \o c)[i] =
            IF i <= Len(a) THEN a[i] ELSE c[i - Len(a)]
  BY ConcatProperties, LenProperties
<1> DEFINE d == a \o c
<1> HIDE DEF d
<1>2. /\ d \in Seq(T) /\ Len(d) = Len(a) + Len(c) /\ Len(a) \in Nat /\ Len(c) \in Nat
      /\ \A i \in 1 .. Len(a) : d[i] = a[i]
  BY <1>1 DEF d
<1>3. ASSUME NEW i \in 1 .. Len(c) PROVE d[Len(a) + i] = c[i]
  <2>1. Len(a) + i \in 1 .. Len(a) + Len(c) /\ ~(Len(a) + i <= Len(a)) /\ Len(a) + i - Len(a) = i
    BY <1>1
  <2> QED BY <1>1, <2>1 DEF d
<1>4. SubSeq(d, 1, Len(a)) = a
  <2>1. Len(a) \in 0 .. Len(d)
    BY <1>2
  <2>2. /\ SubSeq(d, 1, Len(a)) \in Seq(T) /\ Len(SubSeq(d, 1, Len(a))) = Len(a)
        /\ \A i \in 1 .. Len(a) : SubSeq(d, 1, Len(a))[i] = d[i]
    BY <1>2, <2>1, Split
  <2> QED BY <1>2, <2>2, SeqEqual
<1>5. SubSeq(d, Len(a) + 1, Len(a) + Len(c)) = c
  <2>1. Len(a) \in 0 .. Len(d) /\ Len(d) - Len(a) = Len(c)
    BY <1>2
  <2> DEFINE e == SubSeq(d, Len(a) + 1, Len(d))
  <2>2. /\ e \in Seq(T) /\ Len(e) = Len(c)
        /\ \A i \in 1 .. Len(c) : e[i] = d[Len(a) + i]
    BY <1>2, <2>1, Split
  <2>3. e = SubSeq(d, Len(a) + 1, Len(a) + Len(c))
    BY <1>2
  <2> HIDE DEF e
  <2>4. e = c
    BY <1>3, <2>2, SeqEqual
  <2> QED BY <2>3, <2>4
<1> QED BY <1>2, <1>3, <1>4, <1>5 DEF d

-----------------------------------------------------------------------------
WholeAt(d, i) ==
    LET l == d[i][1]
        b == i - Width(l)
    IN  /\ b >= 0 /\ SubSeq(d, b + 1, i) = Cells(l)
        /\ b = 0 \/ IsNewline(d[b])

LEMMA WholeIs == \A d : WholeLines(d) <=> \A i \in Newlines(d) : WholeAt(d, i)
BY DEF WholeLines, WholeAt

(* What follows does not matter.                                           *)
LEMMA WholeSame ==
  ASSUME NEW a \in Seq(Cell), NEW c \in Seq(Cell), NEW i \in 1 .. Len(a)
  PROVE  WholeAt(a, i) <=> WholeAt(a \o c, i)
<1> DEFINE d == a \o c
           l == a[i][1]
           b == i - Width(l)
<1>1. /\ Len(a) \in Nat /\ \A j \in 1 .. Len(a) : d[j] = a[j]
      /\ Width(l) \in {2, 3}
  <2>1. Width(l) \in {2, 3}
    BY DEF Width
  <2> QED BY <2>1, Parts
<1>2. d[i][1] = l
  BY <1>1
<1>3. ASSUME b >= 0
      PROVE  SubSeq(d, b + 1, i) = SubSeq(a, b + 1, i)
  <2>1. b + 1 \in 1 .. Len(a)
    BY <1>1, <1>3
  <2> QED BY <2>1, SubSeqOfConcat1
<1>4. ASSUME b >= 0, b # 0
      PROVE  d[b] = a[b]
  BY <1>1, <1>4
<1> HIDE DEF d
<1> QED BY <1>2, <1>3, <1>4 DEF WholeAt, d

(* The first part of a file of whole lines, and one with a torn line at its end.*)
LEMMA WholePrefix ==
  ASSUME NEW a \in Seq(Cell), NEW c \in Seq(Cell), WholeLines(a \o c)
  PROVE  WholeLines(a)
<1> SUFFICES ASSUME NEW i \in Newlines(a) PROVE WholeAt(a, i)
  BY WholeIs
<1>1. i \in 1 .. Len(a) /\ IsNewline(a[i])
  BY NewlinesOf
<1>2. i \in Newlines(a \o c)
  <2>1. /\ a \o c \in Seq(Cell) /\ Len(a \o c) = Len(a) + Len(c)
        /\ Len(a) \in Nat /\ Len(c) \in Nat /\ (a \o c)[i] = a[i]
    BY <1>1, Parts
  <2>2. i \in 1 .. Len(a \o c)
    BY <1>1, <2>1
  <2> QED BY <1>1, <2>1, <2>2, NewlinesOf
<1> QED BY <1>1, <1>2, WholeSame, WholeIs

LEMMA WholeTail ==
  ASSUME NEW a \in Seq(Cell), NEW c \in Seq(Cell), WholeLines(a), Newlines(c) = {}
  PROVE  WholeLines(a \o c)
<1> SUFFICES ASSUME NEW i \in Newlines(a \o c) PROVE WholeAt(a \o c, i)
  BY WholeIs
<1>1. i \in 1 .. Len(a) + Len(c) /\ IsNewline((a \o c)[i]) /\ Len(a) \in Nat /\ Len(c) \in Nat
  <2>1. /\ a \o c \in Seq(Cell) /\ Len(a \o c) = Len(a) + Len(c)
        /\ Len(a) \in Nat /\ Len(c) \in Nat
    BY Parts
  <2> QED BY <2>1, NewlinesOf
<1>2. i <= Len(a)
  <2>1. SUFFICES ASSUME ~(i <= Len(a)) PROVE FALSE
    OBVIOUS
  <2>2. i - Len(a) \in 1 .. Len(c) /\ Len(a) + (i - Len(a)) = i
    BY <1>1, <2>1
  <2>3. c[i - Len(a)] = (a \o c)[i]
    BY <2>2, Parts
  <2> QED BY <1>1, <2>2, <2>3, NewlinesOf
<1>3. i \in 1 .. Len(a) /\ i \in Newlines(a)
  BY <1>1, <1>2, Parts, NewlinesOf
<1> QED BY <1>3, WholeSame, WholeIs

Ends(d) == d = <<>> \/ IsNewline(d[Len(d)])

(* After a newline there may be another line.                              *)
LEMMA WholeLine ==
  ASSUME NEW a \in Seq(Cell), NEW l \in AnyLine, WholeLines(a), Ends(a)
  PROVE  WholeLines(a \o Cells(l)) /\ Ends(a \o Cells(l))
<1> DEFINE c == Cells(l)
           d == a \o c
           n == Len(a) + Width(l)
<1>1. /\ Width(l) \in {2, 3} /\ c \in Seq(Cell) /\ Len(c) = Width(l)
      /\ \A i \in 1 .. Width(l) : c[i] = <<l, i>>
      /\ \A i \in 1 .. Width(l) : c[i] \in Newline <=> i = Width(l)
  BY CellsOf
<1> HIDE DEF c
<1>2. /\ d \in Seq(Cell) /\ Len(d) = n /\ Len(a) \in Nat
      /\ \A i \in 1 .. Len(a) : d[i] = a[i]
      /\ \A i \in 1 .. Width(l) : d[Len(a) + i] = c[i]
      /\ SubSeq(d, Len(a) + 1, n) = c
  BY <1>1, Parts
<1> HIDE DEF d
<1>3. d[n] = <<l, Width(l)>> /\ IsNewline(d[n])
  <2>1. Width(l) \in 1 .. Width(l)
    BY <1>1
  <2>2. d[n] = c[Width(l)] /\ c[Width(l)] = <<l, Width(l)>>
    BY <1>1, <1>2, <2>1
  <2> QED BY <2>2 DEF IsNewline
<1>4. WholeAt(d, n)
  <2>1. d[n][1] = l /\ n - Width(l) = Len(a)
    BY <1>1, <1>2, <1>3
  <2>2. ASSUME Len(a) # 0 PROVE IsNewline(d[Len(a)])
    <3>1. a # <<>>
      BY <2>2, <1>2
    <3> QED BY <3>1, <2>2, <1>2 DEF Ends
  <2>3. Len(a) >= 0 /\ SubSeq(d, Len(a) + 1, n) = Cells(l)
    BY <1>2 DEF c
  <2> HIDE DEF n
  <2> QED BY <2>1, <2>2, <2>3 DEF WholeAt
<1>5. ASSUME NEW i \in Newlines(d) PROVE WholeAt(d, i)
  <2>1. i \in 1 .. n /\ IsNewline(d[i]) /\ d[i] \in Newline
    BY <1>2, NewlinesOf
  <2>2. CASE i <= Len(a)
    <3>1. i \in 1 .. Len(a) /\ i \in Newlines(a)
      BY <1>2, <2>1, <2>2, NewlinesOf
    <3>2. WholeAt(a, i)
      BY <3>1, WholeIs
    <3> QED BY <1>1, <3>1, <3>2, WholeSame DEF d
  <2>3. CASE ~(i <= Len(a))
    <3>1. i - Len(a) \in 1 .. Width(l) /\ Len(a) + (i - Len(a)) = i
      BY <1>1, <1>2, <2>1, <2>3
    <3>2. c[i - Len(a)] = d[i]
      BY <1>2, <3>1
    <3>3. i - Len(a) = Width(l)
      BY <1>1, <2>1, <3>1, <3>2
    <3>4. i = n
      BY <3>1, <3>3
    <3> QED BY <1>4, <3>4
  <2> QED BY <2>2, <2>3
<1>6. WholeLines(d)
  BY <1>5, WholeIs
<1>7. Ends(d)
  BY <1>2, <1>3 DEF Ends
<1> QED BY <1>6, <1>7 DEF d, c

LEMMA WholeEmpty == WholeLines(<<>>) /\ Ends(<<>>)
BY DEF WholeLines, Ends, Newlines

-----------------------------------------------------------------------------
(* Where there is no newline after the place k, the lines are those of the *)
(* cells up to there.                                                      *)
LEMMA NoneAfter ==
  ASSUME NEW d \in Seq(Cell), NEW k \in 0 .. Len(d), \A i \in Newlines(d) : i <= k
  PROVE  /\ Newlines(SubSeq(d, k + 1, Len(d))) = {}
         /\ Lines(d) = Lines(SubSeq(d, 1, k))
         /\ WholeLines(d) <=> WholeLines(SubSeq(d, 1, k))
<1> DEFINE a == SubSeq(d, 1, k)
           c == SubSeq(d, k + 1, Len(d))
<1>0. Len(d) \in Nat /\ k \in Nat /\ k <= Len(d)
  BY LenProperties
<1>1. /\ a \in Seq(Cell) /\ c \in Seq(Cell) /\ Len(c) = Len(d) - k /\ d = a \o c
      /\ \A i \in 1 .. Len(d) - k : c[i] = d[k + i]
  BY Split, Zenon
<1> HIDE DEF a, c
<1>2. Newlines(c) = {}
  <2>1. SUFFICES ASSUME NEW i \in Newlines(c) PROVE FALSE
    OBVIOUS
  <2>2. i \in 1 .. Len(d) - k /\ IsNewline(d[k + i])
    BY <1>0, <1>1, NewlinesOf
  <2>3. k + i \in 1 .. Len(d) /\ ~(k + i <= k)
    BY <1>0, <2>2
  <2> QED BY <2>2, <2>3, NewlinesOf
<1>3. Lines(a \o c) = Lines(a)
  <2>1. Lines(a \o c) = Lines(a) \o Lines(c) /\ Lines(c) = <<>> /\ Lines(a) \in Seq(AnyLine)
    BY <1>1, <1>2, LinesConcat, LinesNone, LinesType
  <2> QED BY <2>1, ConcatEmptySeq
<1>4. WholeLines(a \o c) <=> WholeLines(a)
  BY <1>1, <1>2, WholePrefix, WholeTail
<1> QED BY <1>1, <1>2, <1>3, <1>4 DEF a, c

(* Writing the first n cells of out at the place k.                        *)
Overwritten(d, k, out, n) == SubSeq(d, 1, k) \o SubSeq(out, 1, n) \o SubSeq(d, k + n + 1, Len(d))

LEMMA Overwrites ==
  ASSUME NEW d \in Seq(Cell), NEW k \in 0 .. Len(d),
         NEW out \in Seq(Cell), NEW n \in 0 .. Len(out)
  PROVE  /\ Overwritten(d, k, out, n) \in Seq(Cell)
         /\ k + n \in 0 .. Len(Overwritten(d, k, out, n))
         /\ SubSeq(Overwritten(d, k, out, n), 1, k + n) = SubSeq(d, 1, k) \o SubSeq(out, 1, n)
         /\ (\A i \in Newlines(d) : i <= k) =>
               \A i \in Newlines(Overwritten(d, k, out, n)) : i <= k + n
<1> DEFINE a == SubSeq(d, 1, k)
           b == SubSeq(out, 1, n)
           c == SubSeq(d, k + n + 1, Len(d))
           e == a \o b
           w == Overwritten(d, k, out, n)
<1>1. k \in Nat /\ n \in Nat /\ Len(d) \in Nat /\ \A i \in 1 .. Len(d) : d[i] \in Cell
  BY LenProperties, ElementOfSeq
<1>2. a \in Seq(Cell) /\ Len(a) = k
  BY Split
<1>3. b \in Seq(Cell) /\ Len(b) = n
  BY Split
<1>4. /\ c \in Seq(Cell) /\ Len(c) = IF k + n + 1 <= Len(d) THEN Len(d) - (k + n + 1) + 1 ELSE 0
      /\ \A i \in 1 .. Len(d) - (k + n + 1) + 1 : c[i] = d[k + n + 1 + i - 1]
  <2> DEFINE m == k + n + 1
             p == Len(d)
  <2>1. m \in Int /\ p \in Int /\ \A i \in m .. p : d[i] \in Cell
    BY <1>1
  <2> HIDE DEF m, p
  <2>2. /\ SubSeq(d, m, p) \in Seq(Cell) /\ Len(SubSeq(d, m, p)) = IF m <= p THEN p - m + 1 ELSE 0
        /\ \A i \in 1 .. p - m + 1 : SubSeq(d, m, p)[i] = d[m + i - 1]
    BY <2>1, SubSeqProperties
  <2> QED BY <2>2 DEF m, p
<1>5. w = e \o c
  BY DEF Overwritten
<1> HIDE DEF a, b, c, w
<1>6. e \in Seq(Cell) /\ Len(e) = k + n
  BY <1>2, <1>3, Parts
<1> HIDE DEF e
<1>7. /\ w \in Seq(Cell) /\ Len(w) = (k + n) + Len(c) /\ Len(c) \in Nat
      /\ SubSeq(w, 1, k + n) = e
      /\ \A i \in 1 .. Len(c) : w[(k + n) + i] = c[i]
  <2>1. c \in Seq(Cell)
    BY <1>4
  <2>2. /\ e \o c \in Seq(Cell) /\ Len(e \o c) = Len(e) + Len(c) /\ Len(c) \in Nat
        /\ SubSeq(e \o c, 1, Len(e)) = e
        /\ \A i \in 1 .. Len(c) : (e \o c)[Len(e) + i] = c[i]
    <3>1. e \in Seq(Cell)
      BY <1>6
    <3> QED BY <2>1, <3>1, Parts
  <2>3. w = e \o c /\ Len(e) = k + n
    BY <1>5, <1>6, Zenon
  <2> QED BY <2>2, <2>3, Zenon
<1>8. ASSUME \A i \in Newlines(d) : i <= k,
             NEW i \in Newlines(w)
      PROVE  i <= k + n
  <2>1. SUFFICES ASSUME ~(i <= k + n) PROVE FALSE
    OBVIOUS
  <2>2. i \in 1 .. Len(w) /\ IsNewline(w[i])
    BY <1>7, NewlinesOf
  <2> DEFINE j == i - (k + n)
  <2>3. j \in 1 .. Len(c) /\ k + n + j = i
    BY <1>1, <1>7, <2>1, <2>2
  <2>4. j \in 1 .. Len(d) - (k + n + 1) + 1 /\ k + n + 1 + j - 1 = i
    BY <1>1, <1>4, <2>3
  <2>5. w[i] = d[i]
    BY <1>4, <1>7, <2>3, <2>4
  <2>6. i \in 1 .. Len(d) /\ ~(i <= k)
    BY <1>1, <2>1, <2>3, <2>4
  <2> QED BY <1>8, <2>2, <2>5, <2>6, NewlinesOf
<1>9. k + n \in 0 .. Len(w)
  BY <1>1, <1>7
<1> QED BY <1>7, <1>8, <1>9 DEF a, b, e, w

-----------------------------------------------------------------------------
(* The file and the stream.  What the file has up to the stream's place is *)
(* what it has, and what is still in the buffer follows it.                *)
FileTypes ==
    /\ disk \in Seq(Cell) /\ pending \in Seq(Cell)
    /\ at \in 0 .. Len(disk)
    /\ recovered \in Seq(AnyLine) /\ returned \in Seq(Line) /\ refused \in Seq(Line)
    /\ failed \in BOOLEAN /\ wrapped \in BOOLEAN

Before == SubSeq(disk, 1, at)
Out == Before \o pending
Taken == Features(recovered) \o returned
Contents ==
    /\ \A i \in Newlines(disk) : i <= at
    /\ WholeLines(Out)
    /\ ~failed => Ends(Out) /\ Features(Lines(Out)) = Taken
    /\ failed => IsPrefix(Features(Lines(Out)), Taken \o refused)
FileInv ==
    /\ ~failed => refused = <<>>
    /\ failed => pending = <<>>
    /\ ~wrapped => Contents

LEMMA BeforeType ==
  ASSUME FileTypes
  PROVE  /\ Before \in Seq(Cell) /\ Len(Before) = at /\ Out \in Seq(Cell)
         /\ Taken \in Seq(Line) /\ Taken \o refused \in Seq(Line)
<1>1. Before \in Seq(Cell) /\ Len(Before) = at
  BY Split DEF FileTypes, Before
<1>2. Features(recovered) \in Seq(Line)
  BY FeaturesConcat DEF FileTypes
<1>3. Taken \in Seq(Line)
  BY <1>2, ConcatProperties DEF FileTypes, Taken
<1>4. Taken \o refused \in Seq(Line)
  BY <1>3, ConcatProperties DEF FileTypes
<1>5. Out \in Seq(Cell)
  BY <1>1, ConcatProperties DEF FileTypes, Out
<1> QED BY <1>1, <1>3, <1>4, <1>5

(* What a line adds to what is in the file and the buffer.                 *)
LEMMA Adds ==
  ASSUME FileTypes, NEW t \in Thread, job[t].line \in Line
  PROVE  /\ Buffered(t) \in Seq(Cell)
         /\ ~wrapped /\ ~failed /\ Contents =>
               /\ WholeLines(Before \o Buffered(t)) /\ Ends(Before \o Buffered(t))
               /\ Features(Lines(Before \o Buffered(t))) = Taken \o <<job[t].line>>
<1> DEFINE l == job[t].line
           out == Buffered(t)
           banner == IF at = 0 /\ pending = <<>> THEN Cells(Banner) ELSE <<>>
<1>1. Cells(l) \in Seq(Cell) /\ Cells(Banner) \in Seq(Cell) /\ l \in AnyLine /\ Banner \in AnyLine
  BY CellsOf DEF AnyLine
<1>2. banner \in Seq(Cell)
  BY <1>1, EmptySeq
<1>3. Before \in Seq(Cell) /\ pending \in Seq(Cell) /\ Out \in Seq(Cell)
  BY BeforeType DEF FileTypes
<1>4. out = pending \o banner \o Cells(l)
  BY DEF Buffered
<1> HIDE DEF banner, out, l
<1>5. pending \o banner \in Seq(Cell) /\ out \in Seq(Cell)
  <2>1. pending \o banner \in Seq(Cell)
    BY <1>2, <1>3, ConcatProperties
  <2>2. (pending \o banner) \o Cells(l) \in Seq(Cell)
    <3>1. Cells(l) \in Seq(Cell)
      BY <1>1
    <3> QED BY <2>1, <3>1, ConcatProperties
  <2> QED BY <1>4, <2>1, <2>2, Zenon
<1>6. Before \o out = Out \o banner \o Cells(l)
  <2>1. Before \o ((pending \o banner) \o Cells(l)) = (Before \o (pending \o banner)) \o Cells(l)
    <3>1. Before \in Seq(Cell) /\ pending \o banner \in Seq(Cell) /\ Cells(l) \in Seq(Cell)
      BY <1>1, <1>3, <1>5
    <3> QED BY <3>1, ConcatAssociative
  <2>2. Before \o (pending \o banner) = Out \o banner
    BY <1>2, <1>3, ConcatAssociative DEF Out
  <2> QED BY <1>4, <2>1, <2>2
<1>7. ASSUME ~wrapped, ~failed, Contents
      PROVE  /\ WholeLines(Before \o out) /\ Ends(Before \o out)
             /\ Features(Lines(Before \o out)) = Taken \o <<l>>
  <2>1. WholeLines(Out) /\ Ends(Out) /\ Features(Lines(Out)) = Taken
    BY <1>7 DEF Contents
  <2> DEFINE e == Out \o banner
  <2>2. e \in Seq(Cell) /\ WholeLines(e) /\ Ends(e) /\ Features(Lines(e)) = Taken
    <3>1. CASE at = 0 /\ pending = <<>>
      <4>1. banner = Cells(Banner)
        BY <3>1 DEF banner
      <4>2. WholeLines(e) /\ Ends(e)
        BY <1>1, <1>3, <2>1, <4>1, WholeLine
      <4>3. e \in Seq(Cell) /\ Lines(e) = Lines(Out) \o <<Banner>>
        BY <1>1, <1>3, <4>1, LinesConcat, LinesCells, ConcatProperties
      <4>4. Lines(Out) \in Seq(AnyLine) /\ <<Banner>> \in Seq(AnyLine)
        BY <1>1, <1>3, LinesType
      <4>5. Features(Lines(Out) \o <<Banner>>) = Features(Lines(Out)) \o Features(<<Banner>>)
        BY <4>4, FeaturesConcat
      <4>6. Taken \o <<>> = Taken
        BY BeforeType, ConcatEmptySeq
      <4> QED BY <2>1, <4>2, <4>3, <4>5, <4>6, FeaturesOne
    <3>2. CASE ~(at = 0 /\ pending = <<>>)
      <4>1. banner = <<>>
        BY <3>2 DEF banner
      <4>2. e = Out
        BY <1>3, <4>1, ConcatEmptySeq
      <4> QED BY <1>3, <2>1, <4>2
    <3> QED BY <3>1, <3>2
  <2> HIDE DEF e
  <2>3. WholeLines(e \o Cells(l)) /\ Ends(e \o Cells(l))
    BY <1>1, <2>2, WholeLine
  <2>4. Lines(e \o Cells(l)) = Lines(e) \o <<l>>
    BY <1>1, <2>2, LinesConcat, LinesCells
  <2>5. Lines(e) \in Seq(AnyLine) /\ <<l>> \in Seq(AnyLine)
    BY <1>1, <2>2, LinesType
  <2>6. Features(Lines(e) \o <<l>>) = Features(Lines(e)) \o Features(<<l>>)
    BY <2>5, FeaturesConcat
  <2>7. Features(<<l>>) = <<l>>
    BY FeaturesOne DEF l
  <2> QED BY <1>6, <2>2, <2>3, <2>4, <2>6, <2>7 DEF e
<1> QED BY <1>5, <1>7 DEF out, l

(* When the first n cells of out go to the file.                           *)
LEMMA Drains ==
  ASSUME FileTypes, NEW out \in Seq(Cell), NEW n \in 0 .. Len(out), Put(out, n), at' = at + n
  PROVE  /\ disk' \in Seq(Cell) /\ at' \in 0 .. Len(disk')
         /\ Before' = Before \o SubSeq(out, 1, n)
         /\ (\A i \in Newlines(disk) : i <= at) => \A i \in Newlines(disk') : i <= at'
<1>1. disk' = Overwritten(disk, at, out, n)
  BY DEF Put, Overwritten
<1>2. disk \in Seq(Cell) /\ at \in 0 .. Len(disk)
  BY DEF FileTypes
<1>3. /\ Overwritten(disk, at, out, n) \in Seq(Cell)
      /\ at + n \in 0 .. Len(Overwritten(disk, at, out, n))
      /\ SubSeq(Overwritten(disk, at, out, n), 1, at + n) = SubSeq(disk, 1, at) \o SubSeq(out, 1, n)
      /\ (\A i \in Newlines(disk) : i <= at) =>
            \A i \in Newlines(Overwritten(disk, at, out, n)) : i <= at + n
  BY <1>2, Overwrites
<1>4. Before' = SubSeq(disk', 1, at') /\ Before = SubSeq(disk, 1, at)
  BY DEF Before
<1> QED BY <1>1, <1>3, <1>4

(* Then the file has the lines of before, and it may have more of them.    *)
LEMMA Keeps ==
  ASSUME FileTypes, NEW out \in Seq(Cell), NEW n \in 0 .. Len(out), Put(out, n), at' = at + n,
         \A i \in Newlines(disk) : i <= at, WholeLines(Before \o out)
  PROVE  /\ WholeLines(disk') /\ IsPrefix(Lines(disk), Lines(disk'))
         /\ WholeLines(Before') /\ Before \o out = Before' \o SubSeq(out, n + 1, Len(out))
<1> DEFINE a == SubSeq(out, 1, n)
           c == SubSeq(out, n + 1, Len(out))
<1>1. a \in Seq(Cell) /\ c \in Seq(Cell) /\ out = a \o c
  BY Split
<1>2. /\ disk' \in Seq(Cell) /\ at' \in 0 .. Len(disk')
      /\ Before' = Before \o a
      /\ \A i \in Newlines(disk') : i <= at'
  BY Drains
<1>3. Before \in Seq(Cell) /\ disk \in Seq(Cell) /\ at \in 0 .. Len(disk)
  BY BeforeType DEF FileTypes
<1> HIDE DEF a, c
<1>4. Before \o out = Before' \o c
  <2>1. Before \o (a \o c) = (Before \o a) \o c
    <3>1. Before \in Seq(Cell) /\ a \in Seq(Cell) /\ c \in Seq(Cell)
      BY <1>1, <1>3
    <3> DEFINE b == Before
    <3> HIDE DEF b
    <3>2. b \in Seq(Cell)
      BY <3>1 DEF b
    <3>3. (b \o a) \o c = b \o (a \o c)
      BY <3>1, <3>2, ConcatAssociative
    <3> QED BY <3>3 DEF b
  <2> QED BY <1>1, <1>2, <2>1, Zenon
<1>5. Before' \in Seq(Cell)
  BY <1>1, <1>2, <1>3, ConcatProperties
<1>6. WholeLines(Before')
  BY <1>1, <1>4, <1>5, WholePrefix
<1>7. Lines(disk) = Lines(Before)
  BY <1>3, NoneAfter DEF Before
<1>8. Lines(disk') = Lines(Before') /\ (WholeLines(disk') <=> WholeLines(Before'))
  <2>1. Before' = SubSeq(disk', 1, at')
    BY DEF Before
  <2> QED BY <1>2, <2>1, NoneAfter
<1>9. IsPrefix(Lines(Before), Lines(Before \o a))
  BY <1>1, <1>3, PrefixLines
<1> QED BY <1>2, <1>4, <1>6, <1>7, <1>8, <1>9 DEF c

(* The search for the last newline.                                        *)
LEMMA LastNewlineIs ==
  ASSUME NEW d \in Seq(Cell)
  PROVE  /\ LastNewline(d) \in 0 .. Len(d)
         /\ ~MeetsIntSpan(d) =>
               /\ \A i \in Newlines(d) : i <= LastNewline(d)
               /\ Ends(SubSeq(d, 1, LastNewline(d)))
<1> DEFINE T == {i \in 0 .. Len(d) : i % IntSpan = 0 \/ i \in Newlines(d)}
           last == Max(T)
<1>1. /\ Len(d) \in Nat /\ IntSpan \in Nat \ {0}
      /\ \A i \in Newlines(d) : i \in 1 .. Len(d) /\ IsNewline(d[i])
  BY LenProperties, NewlinesOf, RecorderAssumption
<1>2. 0 \in T
  BY <1>1
<1>3. T \in SUBSET (0 .. Len(d)) /\ T # {}
  BY <1>2
<1>4. last \in T /\ \A y \in T : y <= last
  <2> HIDE DEF T
  <2> QED BY <1>1, <1>3, MaxOf
<1>5. LastNewline(d) = IF last % IntSpan = 0 THEN 0 ELSE last
  BY DEF LastNewline
<1> HIDE DEF last
<1>6. LastNewline(d) \in 0 .. Len(d)
  BY <1>1, <1>4, <1>5
<1>7. ASSUME ~MeetsIntSpan(d)
      PROVE  /\ \A i \in Newlines(d) : i <= LastNewline(d)
             /\ Ends(SubSeq(d, 1, LastNewline(d)))
  <2>1. \A i \in Newlines(d) : i <= last
    BY <1>1, <1>4
  <2>2. CASE last % IntSpan = 0
    <3>1. last = 0
      <4>1. SUFFICES ASSUME last # 0 PROVE FALSE
        OBVIOUS
      <4>2. last \in 1 .. Len(d)
        BY <1>4, <4>1
      <4> QED BY <1>7, <2>1, <2>2, <4>2 DEF MeetsIntSpan
    <3>2. LastNewline(d) = 0
      BY <1>5, <2>2
    <3>3. SubSeq(d, 1, 0) = <<>>
      BY SubSeqEmpty
    <3> QED BY <2>1, <3>1, <3>2, <3>3 DEF Ends
  <2>3. CASE last % IntSpan # 0
    <3>1. LastNewline(d) = last /\ last \in Newlines(d)
      BY <1>4, <1>5, <2>3
    <3>2. last \in 1 .. Len(d) /\ IsNewline(d[last])
      BY <1>1, <3>1
    <3>3. Len(SubSeq(d, 1, last)) = last /\ SubSeq(d, 1, last)[last] = d[last]
      <4>1. last \in 0 .. Len(d) /\ last \in 1 .. last
        BY <3>2
      <4> QED BY <4>1, Split
    <3> QED BY <2>1, <3>1, <3>2, <3>3 DEF Ends
  <2> QED BY <2>2, <2>3
<1> QED BY <1>6, <1>7

-----------------------------------------------------------------------------
(* The steps.                                                              *)
Kept == ~wrapped' => WholeLines(disk') /\ IsPrefix(Lines(disk), Lines(disk'))

(* What is beyond the place of the stream has no newline.                  *)
LEMMA WholeDisk ==
  ASSUME FileTypes, Contents
  PROVE  WholeLines(disk) /\ Lines(disk) = Lines(Before) /\ WholeLines(Before)
<1>1. Before \in Seq(Cell) /\ pending \in Seq(Cell) /\ disk \in Seq(Cell) /\ at \in 0 .. Len(disk)
  BY BeforeType DEF FileTypes
<1>2. WholeLines(Before)
  BY <1>1, WholePrefix DEF Contents, Out
<1> QED BY <1>1, <1>2, NoneAfter DEF Contents, Before


LEMMA StillKept ==
  ASSUME FileTypes, FileInv, UNCHANGED <<disk, wrapped>>
  PROVE  Kept
<1>1. Lines(disk) \in Seq(AnyLine)
  BY LinesType DEF FileTypes
<1>2. <<>> \in Seq(AnyLine) /\ Lines(disk) \o <<>> = Lines(disk)
  BY <1>1, EmptySeq, ConcatEmptySeq
<1>3. IsPrefix(Lines(disk), Lines(disk) \o <<>>)
  BY <1>1, <1>2, PrefixOf
<1>4. ~wrapped => WholeLines(disk)
  BY WholeDisk DEF FileInv
<1> QED BY <1>2, <1>3, <1>4 DEF Kept

(* Most steps leave the file and the stream alone.                         *)
LEMMA FileSame ==
  ASSUME FileTypes, FileInv, UNCHANGED <<disk, stream, recovered, returned, refused, wrapped>>
  PROVE  FileTypes' /\ FileInv' /\ Kept
<1>1. FileTypes'
  BY DEF FileTypes, stream
<1>2. Out' = Out /\ Taken' = Taken
  BY DEF Out, Before, Taken, stream
<1>3. FileInv'
  BY <1>2 DEF FileInv, Contents, stream
<1> QED BY <1>1, <1>3, StillKept

(* A line that is written follows the others.                              *)
LEMMA FileWrite0 ==
  ASSUME FileTypes, FileInv, NEW t \in Thread, job[t].line \in Line, Write0(t)
  PROVE  FileTypes' /\ FileInv' /\ Kept
<1> DEFINE out == Buffered(t)
           l == job[t].line
<1>1. /\ ~failed /\ failed' = failed /\ returned' = Append(returned, l)
      /\ UNCHANGED <<recovered, refused, wrapped>>
  BY DEF Write0
<1>2. /\ out \in Seq(Cell)
      /\ ~wrapped => /\ WholeLines(Before \o out) /\ Ends(Before \o out)
                     /\ Features(Lines(Before \o out)) = Taken \o <<l>>
  BY <1>1, Adds DEF FileInv
<1>3. PICK n \in 0 .. Len(out) :
         Put(out, n) /\ at' = at + n /\ pending' = SubSeq(out, n + 1, Len(out))
  <2>1. Len(out) \in Nat
    BY <1>2, LenProperties
  <2> HIDE DEF out
  <2>2. (IF disk_full THEN {0} ELSE 0 .. Len(out)) \subseteq 0 .. Len(out)
    BY <2>1
  <2>3. \E n \in (IF disk_full THEN {0} ELSE 0 .. Len(out)) : Drain(out, n)
    BY DEF Write0, out
  <2> QED BY <2>2, <2>3 DEF Drain
<1> HIDE DEF out, l
<1>4. /\ disk' \in Seq(Cell) /\ at' \in 0 .. Len(disk')
      /\ (\A i \in Newlines(disk) : i <= at) => \A i \in Newlines(disk') : i <= at'
  BY <1>2, <1>3, Drains
<1>5. pending' \in Seq(Cell)
  BY <1>2, <1>3, Split
<1>6. returned' \in Seq(Line)
  BY <1>1, AppendProperties DEF FileTypes, l
<1>7. FileTypes'
  BY <1>1, <1>4, <1>5, <1>6 DEF FileTypes
<1>8. ASSUME ~wrapped
      PROVE  /\ WholeLines(disk') /\ IsPrefix(Lines(disk), Lines(disk'))
             /\ Contents'
  <2>1. Contents
    BY <1>8 DEF FileInv
  <2>2. /\ WholeLines(disk') /\ IsPrefix(Lines(disk), Lines(disk'))
        /\ Before \o out = Before' \o SubSeq(out, n + 1, Len(out))
    BY <1>2, <1>3, <1>8, <2>1, Keeps DEF Contents
  <2>3. Out' = Before \o out
    BY <1>3, <2>2 DEF Out
  <2>4. Taken' = Taken \o <<l>>
    <3>1. Features(recovered) \in Seq(Line) /\ returned \in Seq(Line) /\ l \in Line
      BY FeaturesConcat DEF FileTypes, l
    <3>2. Features(recovered) \o Append(returned, l) = Append(Features(recovered) \o returned, l)
      BY <3>1, ConcatAppend
    <3>3. Features(recovered) \o returned \in Seq(Line)
      BY <3>1, ConcatProperties
    <3> QED BY <1>1, <3>1, <3>2, <3>3, AppendIsConcat DEF Taken
  <2>5. \A i \in Newlines(disk') : i <= at'
    BY <1>4, <2>1 DEF Contents
  <2> QED BY <1>1, <1>2, <1>8, <2>2, <2>3, <2>4, <2>5 DEF Contents
<1>9. FileInv'
  BY <1>1, <1>8 DEF FileInv
<1> QED BY <1>1, <1>7, <1>8, <1>9 DEF Kept

(* The line with which the stream fails is torn somewhere.                 *)
LEMMA FileThrows ==
  ASSUME FileTypes, FileInv, NEW t \in Thread, job[t].line \in Line, Write0Throws(t)
  PROVE  FileTypes' /\ FileInv' /\ Kept
<1> DEFINE out == Buffered(t)
           l == job[t].line
<1>1. failed' = TRUE /\ pending' = <<>> /\ UNCHANGED <<recovered, returned, wrapped>>
  BY DEF Write0Throws
<1>2. pending' \in Seq(Cell)
  BY <1>1, EmptySeq
<1>3. CASE failed /\ UNCHANGED <<disk, at, refused>>
  <2>1. UNCHANGED <<disk, stream, recovered, returned, refused, wrapped>>
    BY <1>1, <1>3 DEF stream, FileInv, FileTypes
  <2> QED BY <2>1, FileSame
<1>4. CASE /\ ~failed
           /\ \E n \in 0 .. Len(out) : Put(out, n) /\ at' = at + n
           /\ refused' = <<l>>
  <2>1. PICK n \in 0 .. Len(out) : Put(out, n) /\ at' = at + n
    BY <1>4
  <2>2. /\ out \in Seq(Cell)
        /\ ~wrapped => /\ WholeLines(Before \o out) /\ Ends(Before \o out)
                       /\ Features(Lines(Before \o out)) = Taken \o <<l>>
    BY <1>4, Adds DEF FileInv
  <2>a. l \in Line
    OBVIOUS
  <2> HIDE DEF out, l
  <2>3. /\ disk' \in Seq(Cell) /\ at' \in 0 .. Len(disk')
        /\ (\A i \in Newlines(disk) : i <= at) => \A i \in Newlines(disk') : i <= at'
    BY <2>1, <2>2, Drains
  <2>4. refused' \in Seq(Line)
    BY <1>4, <2>a
  <2>5. FileTypes'
    BY <1>1, <1>2, <2>3, <2>4 DEF FileTypes
  <2>6. ASSUME ~wrapped
        PROVE  /\ WholeLines(disk') /\ IsPrefix(Lines(disk), Lines(disk'))
               /\ Contents'
    <3>1. Contents
      BY <2>6 DEF FileInv
    <3> DEFINE c == SubSeq(out, n + 1, Len(out))
    <3>2. /\ WholeLines(disk') /\ IsPrefix(Lines(disk), Lines(disk'))
          /\ WholeLines(Before') /\ Before \o out = Before' \o c
      BY <2>1, <2>2, <2>6, <3>1, Keeps DEF Contents
    <3>3. Before' \in Seq(Cell) /\ c \in Seq(Cell)
      <4>1. Before' \in Seq(Cell)
        BY <2>3, Split DEF Before
      <4> QED BY <2>2, <4>1, Split
    <3> HIDE DEF c
    <3>4. Out' = Before'
      BY <1>1, <3>3, ConcatEmptySeq DEF Out
    <3>5. IsPrefix(Features(Lines(Before')), Features(Lines(Before' \o c)))
      BY <3>3, PrefixLines
    <3>6. Features(Lines(Before' \o c)) = Taken \o <<l>>
      BY <2>2, <2>6, <3>2
    <3>7. Taken' = Taken
      BY <1>1 DEF Taken
    <3>8. \A i \in Newlines(disk') : i <= at'
      BY <2>3, <3>1 DEF Contents
    <3> QED BY <1>1, <1>4, <3>2, <3>4, <3>5, <3>6, <3>7, <3>8 DEF Contents, l
  <2>7. FileInv'
    BY <1>1, <2>6 DEF FileInv
  <2> QED BY <1>1, <2>5, <2>6, <2>7 DEF Kept
<1> QED BY <1>3, <1>4 DEF Write0Throws

(* The shutdown empties the buffer, unless the disk is full.               *)
LEMMA FileFlush ==
  ASSUME FileTypes, FileInv, Flush, UNCHANGED <<recovered, returned, refused, wrapped>>
  PROVE  FileTypes' /\ FileInv' /\ Kept /\ (~disk_full => pending' = <<>>)
<1>1. PICK n \in 0 .. Len(pending) :
         /\ Put(pending, n) /\ at' = at + n /\ pending' = SubSeq(pending, n + 1, Len(pending))
         /\ ~disk_full => n = Len(pending)
  <2>1. Len(pending) \in Nat
    BY LenProperties DEF FileTypes
  <2>2. PICK n \in (IF disk_full THEN 0 ELSE Len(pending)) .. Len(pending) : Drain(pending, n)
    BY DEF Flush
  <2>3. n \in 0 .. Len(pending) /\ (~disk_full => n = Len(pending))
    BY <2>1, <2>2
  <2> QED BY <2>2, <2>3 DEF Drain
<1>2. pending \in Seq(Cell) /\ failed' = failed /\ Len(pending) \in Nat
  BY LenProperties DEF FileTypes, Flush
<1>3. /\ disk' \in Seq(Cell) /\ at' \in 0 .. Len(disk')
      /\ (\A i \in Newlines(disk) : i <= at) => \A i \in Newlines(disk') : i <= at'
  BY <1>1, <1>2, Drains
<1>4. pending' \in Seq(Cell) /\ Len(pending') = Len(pending) - n
  BY <1>1, <1>2, Split
<1>5. FileTypes'
  BY <1>2, <1>3, <1>4 DEF FileTypes
<1>6. ASSUME ~wrapped
      PROVE  /\ WholeLines(disk') /\ IsPrefix(Lines(disk), Lines(disk'))
             /\ Contents'
  <2>1. Contents
    BY <1>6 DEF FileInv
  <2>2. /\ WholeLines(disk') /\ IsPrefix(Lines(disk), Lines(disk'))
        /\ Before \o pending = Before' \o SubSeq(pending, n + 1, Len(pending))
    BY <1>1, <1>2, <2>1, Keeps DEF Contents, Out
  <2>3. Out' = Out /\ Taken' = Taken
    BY <1>1, <2>2 DEF Out, Taken
  <2>4. \A i \in Newlines(disk') : i <= at'
    BY <1>3, <2>1 DEF Contents
  <2> QED BY <1>2, <2>1, <2>2, <2>3, <2>4 DEF Contents
<1>7. pending = <<>> => pending' = <<>>
  BY <1>2, <1>4
<1>8. FileInv'
  BY <1>2, <1>6, <1>7 DEF FileInv
<1>9. ~disk_full => pending' = <<>>
  BY <1>1, <1>2, <1>4
<1> QED BY <1>5, <1>6, <1>8, <1>9 DEF Kept

(* A restart finds the end of the last whole line.                         *)
LEMMA FileCrash ==
  ASSUME FileTypes, FileInv, Crash
  PROVE  FileTypes' /\ FileInv' /\ Kept
<1>1. /\ disk' = disk /\ at' = LastNewline(disk) /\ recovered' = Lines(disk)
      /\ pending' = <<>> /\ failed' = FALSE /\ returned' = <<>> /\ refused' = <<>>
      /\ wrapped' = (wrapped \/ MeetsIntSpan(disk))
  BY DEF Crash, Start
<1>2. disk \in Seq(Cell) /\ wrapped \in BOOLEAN
  BY DEF FileTypes
<1>3. LastNewline(disk) \in 0 .. Len(disk)
  BY <1>2, LastNewlineIs
<1>4. Lines(disk) \in Seq(AnyLine)
  BY <1>2, LinesType
<1>5. FileTypes'
  <2>1. <<>> \in Seq(Cell) /\ <<>> \in Seq(Line)
    BY EmptySeq
  <2> QED BY <1>1, <1>2, <1>3, <1>4, <2>1 DEF FileTypes
<1>6. ASSUME ~wrapped' PROVE Contents' /\ WholeLines(disk')
  <2>1. Contents /\ ~MeetsIntSpan(disk)
    BY <1>1, <1>6 DEF FileInv
  <2>2. /\ \A i \in Newlines(disk) : i <= LastNewline(disk)
        /\ Ends(SubSeq(disk, 1, LastNewline(disk)))
    BY <1>2, <2>1, LastNewlineIs
  <2>3. WholeLines(disk)
    BY <2>1, WholeDisk
  <2>4. Out' = SubSeq(disk, 1, LastNewline(disk))
    <3>1. SubSeq(disk, 1, LastNewline(disk)) \in Seq(Cell)
      BY <1>2, <1>3, Split
    <3> QED BY <1>1, <3>1, ConcatEmptySeq DEF Out, Before
  <2>5. WholeLines(Out') /\ Lines(Out') = Lines(disk)
    BY <1>2, <1>3, <2>2, <2>3, <2>4, NoneAfter
  <2>6. Taken' = Features(Lines(disk))
    <3>1. Features(Lines(disk)) \in Seq(Line)
      BY <1>4, FeaturesConcat
    <3>2. Taken' = Features(recovered') \o returned'
      BY DEF Taken
    <3> QED BY <1>1, <3>1, <3>2, ConcatEmptySeq
  <2> QED BY <1>1, <2>2, <2>3, <2>4, <2>5, <2>6 DEF Contents
<1>7. FileInv'
  BY <1>1, <1>6 DEF FileInv
<1>8. Kept
  <2>1. IsPrefix(Lines(disk), Lines(disk))
    <3>1. <<>> \in Seq(AnyLine) /\ Lines(disk) \o <<>> = Lines(disk)
      BY <1>4, EmptySeq, ConcatEmptySeq
    <3> QED BY <1>4, <3>1, PrefixOf
  <2> QED BY <1>1, <1>6, <2>1 DEF Kept
<1> QED BY <1>5, <1>7, <1>8

-----------------------------------------------------------------------------
(* Counting.  What is reported, in memory, lost, or about to be added is   *)
(* what was written, or what has been read of the file.                    *)
InWrite == {t \in Thread : pc[t] = "write0"}
Adding(f) == {t \in Thread : pc[t] = "histogram" /\ job[t].line[1] = f}
ReadSoFar(f) == {i \in Newlines(disk) : i <= gpos /\ disk[i][1][1] = f}
Tally(f) == Reported(f) + histogram[f] + unadded[f]

CountTypes ==
    /\ features_written \in 0 .. calls
    /\ histogram \in [Feature -> Nat]
    /\ histogram_files \in Seq([Feature -> Nat])
    /\ phase \in {"scanning", "shutdown", "done"}
    /\ {disable_incremental_histograms, disk_full} \subseteq BOOLEAN
    /\ crashes \in 0 .. MaxCrashes
    /\ gpos \in 0 .. Len(disk)

WrittenCount == ~disk_full => features_written = Len(returned) + Cardinality(InWrite)
MemoryCount == ~disable_incremental_histograms =>
    \A f \in Feature : Tally(f) + Cardinality(Adding(f)) = Occurrences(returned, f)
FileCount == disable_incremental_histograms =>
    /\ \A t \in Thread : pc[t] # "histogram"
    /\ \A f \in Feature : Tally(f) = Cardinality(ReadSoFar(f))
    /\ phase = "done" => ~Unread
Phases ==
    /\ phase = "scanning" => gpos = 0
    /\ phase = "done" => histogram = NoTally
    /\ phase # "scanning" /\ ~disk_full => pending = <<>>
CountInv == WrittenCount /\ MemoryCount /\ FileCount /\ Phases

Lined(f) == {l \in AnyLine : l[1] = f}

(* How often a feature occurs.                                             *)
LEMMA OccursIs ==
  ASSUME NEW s \in Seq(AnyLine), NEW f
  PROVE  Occurrences(s, f) = CountIn(s, Lined(f))
<1>1. DOMAIN s = 1 .. Len(s) /\ \A i \in 1 .. Len(s) : s[i] \in AnyLine
  BY LenProperties, ElementOfSeq
<1>2. {i \in DOMAIN s : s[i][1] = f} = PlacesIn(s, Lined(f))
  BY <1>1 DEF PlacesIn, Lined
<1> QED BY <1>2 DEF Occurrences, CountIn

LEMMA OccursAppend ==
  ASSUME NEW s \in Seq(Line), NEW l \in Line, NEW f
  PROVE  /\ Occurrences(s, f) \in Nat
         /\ l[1] = f => Occurrences(Append(s, l), f) = Occurrences(s, f) + 1
         /\ l[1] # f => Occurrences(Append(s, l), f) = Occurrences(s, f)
<1>1. s \in Seq(AnyLine) /\ l \in AnyLine
  BY SeqMonotonic DEF AnyLine
<1>2. Append(s, l) \in Seq(AnyLine)
  BY <1>1, AppendProperties
<1>3. Occurrences(s, f) = CountIn(s, Lined(f)) /\ Occurrences(Append(s, l), f) = CountIn(Append(s, l), Lined(f))
  BY <1>1, <1>2, OccursIs
<1>4. l \in Lined(f) <=> l[1] = f
  BY <1>1 DEF Lined
<1> QED BY <1>1, <1>3, <1>4, CountAppend

(* In the lines of a file, as often as there are newlines of its lines.    *)
LEMMA OccursLines ==
  ASSUME NEW d \in Seq(Cell), NEW f
  PROVE  Occurrences(Lines(d), f) = Cardinality({i \in Newlines(d) : d[i][1][1] = f})
<1> DEFINE e == SelectIn(d, Newline)
           Q == {c \in Cell : c[1][1] = f}
<1>1. /\ e \in Seq(Cell) /\ Lines(d) \in Seq(AnyLine) /\ Len(Lines(d)) = Len(e)
      /\ \A i \in 1 .. Len(Lines(d)) : Lines(d)[i] = e[i][1]
  BY LinesType
<1>2. CountIn(e, Q) = CountIn(d, Newline \cap Q)
  BY SelectCount
<1>3. PlacesIn(d, Newline \cap Q) = {i \in Newlines(d) : d[i][1][1] = f}
  <2>1. DOMAIN d = 1 .. Len(d)
    BY LenProperties
  <2> QED BY <2>1, NewlinesOf DEF PlacesIn
<1> HIDE DEF e
<1>4. PlacesIn(e, Q) = {i \in DOMAIN Lines(d) : Lines(d)[i][1] = f}
  <2>1. DOMAIN e = 1 .. Len(e) /\ DOMAIN Lines(d) = 1 .. Len(Lines(d))
    BY <1>1, LenProperties
  <2>2. \A i \in 1 .. Len(e) : e[i] \in Cell
    BY <1>1, ElementOfSeq
  <2> QED BY <1>1, <2>1, <2>2 DEF PlacesIn
<1> QED BY <1>2, <1>3, <1>4 DEF CountIn, Occurrences

LEMMA ReportedType ==
  ASSUME CountTypes, NEW f \in Feature
  PROVE  Reported(f) \in Nat /\ IsFiniteSet(DOMAIN histogram_files)
<1> DEFINE w == [i \in DOMAIN histogram_files |-> histogram_files[i][f]]
           S == DOMAIN histogram_files
<1>1. S = 1 .. Len(histogram_files) /\ Len(histogram_files) \in Nat
  BY LenProperties DEF CountTypes
<1>2. \A i \in S : w[i] \in Nat
  <2>1. \A i \in S : histogram_files[i] \in [Feature -> Nat]
    BY <1>1, ElementOfSeq DEF CountTypes
  <2> QED BY <2>1
<1>3. IsFiniteSet(S)
  <2>1. 1 \in Int /\ Len(histogram_files) \in Int
    BY <1>1
  <2> QED BY <1>1, <2>1, FS_Interval
<1>4. Reported(f) = SumOf(w, S)
  BY DEF Reported
<1> HIDE DEF w, S
<1>5. SumOf(w, S) \in Nat
  BY <1>2, <1>3, SumNat
<1> QED BY <1>3, <1>4, <1>5 DEF S

(* Another histogram file adds its counts.                                 *)
LEMMA ReportedMore ==
  ASSUME CountTypes, NEW f \in Feature, histogram_files' = Append(histogram_files, histogram)
  PROVE  Reported(f)' = Reported(f) + histogram[f]
<1> DEFINE w == [i \in DOMAIN histogram_files |-> histogram_files[i][f]]
           S == DOMAIN histogram_files
           v == [i \in DOMAIN histogram_files' |-> histogram_files'[i][f]]
           n == Len(histogram_files) + 1
<1>1. /\ S = 1 .. Len(histogram_files) /\ Len(histogram_files) \in Nat
      /\ DOMAIN histogram_files' = 1 .. n
      /\ histogram_files'[n] = histogram
      /\ \A i \in S : histogram_files'[i] = histogram_files[i] /\ histogram_files[i] \in [Feature -> Nat]
  <2>1. histogram_files \in Seq([Feature -> Nat]) /\ histogram \in [Feature -> Nat]
    BY DEF CountTypes
  <2> QED BY <2>1, LenProperties, AppendProperties, ElementOfSeq
<1>2. DOMAIN histogram_files' = S \cup {n} /\ n \notin S
  BY <1>1
<1>3. \A i \in S : v[i] = w[i] /\ v[i] \in Nat
  BY <1>1, <1>2
<1>4. v[n] = histogram[f] /\ histogram[f] \in Nat
  BY <1>1, <1>2 DEF CountTypes
<1>5. IsFiniteSet(S)
  BY ReportedType
<1>6. Reported(f) = SumOf(w, S) /\ Reported(f)' = SumOf(v, S \cup {n})
  BY <1>2 DEF Reported
<1> HIDE DEF v, w, S, n
<1>7. \A y \in S \cup {n} : v[y] \in Nat
  BY <1>3, <1>4
<1>8. SumOf(v, S \cup {n}) = SumOf(v, S) + v[n]
  BY <1>2, <1>5, <1>7, SumAdd
<1>9. SumOf(v, S) = SumOf(w, S)
  BY <1>3, <1>5, SumSame
<1> QED BY <1>4, <1>6, <1>8, <1>9

(* The threads that are somewhere.                                         *)
LEMMA Somewhere ==
  ASSUME Types, NEW f
  PROVE  /\ IsFiniteSet(InWrite) /\ Cardinality(InWrite) \in Nat
         /\ IsFiniteSet(Adding(f)) /\ Cardinality(Adding(f)) \in Nat
<1>1. InWrite \in SUBSET Thread /\ Adding(f) \in SUBSET Thread
  BY DEF InWrite, Adding
<1>2. IsFiniteSet(Thread)
  BY RecorderAssumption
<1>3. IsFiniteSet(InWrite) /\ IsFiniteSet(Adding(f))
  BY <1>1, <1>2, FS_Subset
<1> QED BY <1>3, FS_CardinalityType

LEMMA OneMore ==
  ASSUME NEW S, IsFiniteSet(S), NEW x, x \notin S, NEW R, R = S \cup {x}
  PROVE  IsFiniteSet(R) /\ Cardinality(S) \in Nat /\ Cardinality(R) = Cardinality(S) + 1
BY FS_AddElement, FS_CardinalityType

(* A call begins.                                                          *)
LEMMA Starts ==
  ASSUME Types, Jobs, NEW t \in Thread, pc[t] = "idle", pc' = [pc EXCEPT ![t] = "write0"],
         \A u \in Thread : u # t => job'[u] = job[u]
  PROVE  /\ Cardinality(InWrite') = Cardinality(InWrite) + 1
         /\ \A f : Adding(f)' = Adding(f)
<1>1. pc'[t] = "write0" /\ \A u \in Thread : u # t => pc'[u] = pc[u]
  BY DEF Types
<1>2. InWrite' = InWrite \cup {t} /\ t \notin InWrite
  BY <1>1 DEF InWrite
<1>3. \A f : Adding(f)' = Adding(f)
  BY <1>1 DEF Adding
<1> QED BY <1>2, <1>3, OneMore, Somewhere

(* A call goes on.                                                         *)
LEMMA Leaves ==
  ASSUME Types, Types', NEW t \in Thread, NEW where, GoTo(t, where), where # "write0"
  PROVE  /\ pc[t] # "write0" => InWrite' = InWrite
         /\ pc[t] = "write0" => Cardinality(InWrite) = Cardinality(InWrite') + 1
<1>1. pc'[t] = where /\ \A u \in Thread : u # t => pc'[u] = pc[u]
  BY GoesTo
<1>2. ASSUME pc[t] # "write0" PROVE InWrite' = InWrite
  BY <1>1, <1>2 DEF InWrite
<1>3. ASSUME pc[t] = "write0" PROVE Cardinality(InWrite) = Cardinality(InWrite') + 1
  <2>1. InWrite = InWrite' \cup {t} /\ t \notin InWrite'
    BY <1>1, <1>3 DEF InWrite
  <2>2. IsFiniteSet(InWrite)
    BY Somewhere
  <2>3. IsFiniteSet(InWrite')
    BY <2>1, <2>2, FS_Subset
  <2> QED BY <2>1, <2>3, OneMore
<1> QED BY <1>2, <1>3

(* A line that is written waits for its place in the histogram.            *)
LEMMA Joins ==
  ASSUME Types, Types', NEW t \in Thread, NEW where, GoTo(t, where), NEW f
  PROVE  /\ pc[t] # "histogram" /\ where # "histogram" => Adding(f)' = Adding(f)
         /\ pc[t] = "histogram" /\ where # "histogram" =>
               Cardinality(Adding(f)) = Cardinality(Adding(f)') + IF job[t].line[1] = f THEN 1 ELSE 0
         /\ pc[t] # "histogram" /\ where = "histogram" =>
               Cardinality(Adding(f)') = Cardinality(Adding(f)) + IF job[t].line[1] = f THEN 1 ELSE 0
<1>1. /\ pc'[t] = where /\ (where # "idle" => job'[t] = job[t])
      /\ \A u \in Thread : u # t => pc'[u] = pc[u] /\ job'[u] = job[u]
  BY GoesTo
<1>2. ASSUME pc[t] # "histogram", where # "histogram" PROVE Adding(f)' = Adding(f)
  BY <1>1, <1>2 DEF Adding
<1>3. /\ IsFiniteSet(Adding(f)) /\ Cardinality(Adding(f)) \in Nat
  BY Somewhere
<1>4. ASSUME pc[t] = "histogram", where # "histogram"
      PROVE  Cardinality(Adding(f)) = Cardinality(Adding(f)') + IF job[t].line[1] = f THEN 1 ELSE 0
  <2>1. CASE job[t].line[1] = f
    <3>1. Adding(f) = Adding(f)' \cup {t} /\ t \notin Adding(f)'
      BY <1>1, <1>4, <2>1 DEF Adding
    <3>2. IsFiniteSet(Adding(f)')
      BY <1>3, <3>1, FS_Subset
    <3> QED BY <2>1, <3>1, <3>2, OneMore
  <2>2. CASE job[t].line[1] # f
    <3>1. Adding(f) = Adding(f)'
      BY <1>1, <1>4, <2>2 DEF Adding
    <3> QED BY <1>3, <2>2, <3>1
  <2> QED BY <2>1, <2>2
<1>5. ASSUME pc[t] # "histogram", where = "histogram"
      PROVE  Cardinality(Adding(f)') = Cardinality(Adding(f)) + IF job[t].line[1] = f THEN 1 ELSE 0
  <2>1. CASE job[t].line[1] = f
    <3>1. Adding(f)' = Adding(f) \cup {t} /\ t \notin Adding(f)
      BY <1>1, <1>5, <2>1 DEF Adding
    <3> QED BY <1>3, <2>1, <3>1, OneMore
  <2>2. CASE job[t].line[1] # f
    <3>1. Adding(f) = Adding(f)'
      BY <1>1, <1>5, <2>2 DEF Adding
    <3> QED BY <1>3, <2>2, <3>1
  <2> QED BY <2>1, <2>2
<1> QED BY <1>2, <1>4, <1>5

-----------------------------------------------------------------------------
(* The parts of the invariant in steps that do not touch what they count.  *)
LEMMA MemorySame ==
  ASSUME MemoryCount, \A f \in Feature : Adding(f)' = Adding(f),
         UNCHANGED <<histogram_files, histogram, unadded, returned, disable_incremental_histograms>>
  PROVE  MemoryCount'
<1>1. ASSUME NEW f \in Feature PROVE Tally(f)' = Tally(f)
  BY DEF Tally, Reported
<1>2. ASSUME NEW f \in Feature PROVE Occurrences(returned', f) = Occurrences(returned, f)
  OBVIOUS
<1> QED BY <1>1, <1>2 DEF MemoryCount

LEMMA NothingRead ==
  ASSUME NEW d \in Seq(Cell), NEW f
  PROVE  {i \in Newlines(d) : i <= 0 /\ d[i][1][1] = f} = {}
BY NewlinesOf

LEMMA FileSameCount ==
  ASSUME FileTypes, FileTypes', FileCount, Phases, UNCHANGED <<report, histogram, unadded>>,
         disable_incremental_histograms' = disable_incremental_histograms,
         disable_incremental_histograms => \A t \in Thread : pc'[t] # "histogram",
         phase = "scanning" \/ disk' = disk
  PROVE  FileCount'
<1>1. ASSUME NEW f \in Feature PROVE Tally(f)' = Tally(f)
  BY DEF Tally, Reported, report
<1>2. ASSUME NEW f \in Feature PROVE ReadSoFar(f)' = ReadSoFar(f)
  <2>1. CASE phase = "scanning"
    <3>1. gpos = 0 /\ gpos' = 0
      BY <2>1 DEF Phases, report
    <3>2. disk \in Seq(Cell) /\ disk' \in Seq(Cell)
      BY DEF FileTypes
    <3> QED BY <3>1, <3>2, NothingRead DEF ReadSoFar
  <2>2. CASE disk' = disk
    BY <2>2 DEF ReadSoFar, report
  <2> QED BY <2>1, <2>2
<1>3. phase' = "done" /\ disable_incremental_histograms' => ~Unread'
  <2>1. SUFFICES ASSUME phase = "done", disable_incremental_histograms PROVE ~Unread'
    BY DEF report
  <2>2. ~Unread /\ disk' = disk /\ gpos' = gpos
    BY <2>1 DEF FileCount, report
  <2> QED BY <2>2 DEF Unread
<1> QED BY <1>1, <1>2, <1>3 DEF FileCount, report

-----------------------------------------------------------------------------
(* The steps of a thread.                                                  *)
Sure == Types /\ Jobs /\ FileTypes /\ FileInv /\ CountTypes /\ CountInv

(* A call runs in the scanning phase.                                      *)
LEMMA Scanning ==
  ASSUME Sure, NEW t \in Thread, pc[t] # "idle"
  PROVE  phase = "scanning" /\ gpos = 0 /\ job[t].line \in Line
BY DEF Sure, Jobs, CountInv, Phases

LEMMA SeqLen == \A T : \A s \in Seq(T) : Len(s) \in Nat
BY LenProperties

LEMMA CountBegins ==
  ASSUME Sure, Types', FileTypes', NEW t \in Thread,
         \/ \E f \in Text : Write(t, f)
         \/ \E o \in Object : Carve(t, o)
  PROVE  CountTypes' /\ CountInv'
<1> USE DEF stream, carving, report, history, limits
<1>1. /\ phase = "scanning" /\ pc[t] = "idle" /\ calls' = calls + 1
      /\ features_written' = features_written + 1
      /\ pc' = [pc EXCEPT ![t] = "write0"]
      /\ UNCHANGED <<disk, at, pending, failed, histogram, report, disk_full, crashes,
                     disable_incremental_histograms, history>>
  BY DEF Write, Carve
<1>2. \A u \in Thread : u # t => job'[u] = job[u]
  BY DEF Write, Carve, Sure, Types
<1>3. Types /\ Jobs /\ FileTypes /\ CountTypes /\ WrittenCount /\ MemoryCount /\ FileCount /\ Phases
  BY DEF Sure, CountInv
<1>4. /\ Cardinality(InWrite') = Cardinality(InWrite) + 1
      /\ \A f : Adding(f)' = Adding(f)
  BY <1>1, <1>2, <1>3, Starts
<1>5. CountTypes'
  BY <1>1, <1>3 DEF CountTypes, Types
<1>6. WrittenCount'
  <2>1. Cardinality(InWrite) \in Nat /\ Len(returned) \in Nat
    BY <1>3, Somewhere, SeqLen DEF FileTypes
  <2> QED BY <1>1, <1>3, <1>4, <2>1 DEF WrittenCount, CountTypes
<1>7. MemoryCount'
  BY <1>1, <1>3, <1>4, MemorySame
<1>8. FileCount'
  <2>1. disable_incremental_histograms => \A u \in Thread : pc'[u] # "histogram"
    BY <1>1, <1>3 DEF FileCount, Types
  <2> QED BY <1>1, <1>3, <2>1, FileSameCount
<1>9. Phases'
  BY <1>1, <1>3 DEF Phases
<1> QED BY <1>5, <1>6, <1>7, <1>8, <1>9 DEF CountInv

(* A line is written.                                                      *)
LEMMA CountWrite0 ==
  ASSUME Sure, Types', FileTypes', NEW t \in Thread, Write0(t)
  PROVE  CountTypes' /\ CountInv'
<1> USE DEF stream, carving, report, history, limits
<1> DEFINE where == IF disable_incremental_histograms THEN AfterWrite(t) ELSE "histogram"
<1>1. /\ pc[t] = "write0" /\ GoTo(t, where)
      /\ returned' = Append(returned, job[t].line)
      /\ UNCHANGED <<features_written, histogram, report, disk_full, limits, unadded>>
  BY DEF Write0
<1>2. where \in {"idle", "open", "histogram"} /\ (where = "histogram" <=> ~disable_incremental_histograms)
  BY DEF AfterWrite
<1>3. Types /\ Jobs /\ FileTypes /\ CountTypes /\ WrittenCount /\ MemoryCount /\ FileCount /\ Phases
  BY DEF Sure, CountInv
<1>4. phase = "scanning" /\ gpos = 0 /\ job[t].line \in Line
  BY <1>1, Scanning
<1> HIDE DEF where
<1>5. CountTypes'
  <2>1. gpos' \in 0 .. Len(disk')
    <3>1. Len(disk') \in Nat
      BY SeqLen DEF FileTypes
    <3> QED BY <1>1, <1>4, <3>1
  <2> QED BY <1>1, <1>3, <2>1 DEF CountTypes
<1>6. WrittenCount'
  <2>1. Cardinality(InWrite) = Cardinality(InWrite') + 1
    BY <1>1, <1>2, <1>3, Leaves
  <2>2. Cardinality(InWrite') \in Nat
    <3>1. InWrite' \in SUBSET Thread
      BY DEF InWrite
    <3> QED BY <3>1, FS_Subset, FS_CardinalityType, RecorderAssumption
  <2>3. Len(returned) \in Nat /\ Len(returned') = Len(returned) + 1
    <3>1. returned \in Seq(Line)
      BY <1>3 DEF FileTypes
    <3> QED BY <1>1, <1>4, <3>1, AppendProperties, SeqLen
  <2> QED BY <1>1, <1>3, <2>1, <2>2, <2>3 DEF WrittenCount
<1>7. MemoryCount'
  <2>1. SUFFICES ASSUME ~disable_incremental_histograms, NEW f \in Feature
                 PROVE  Tally(f)' + Cardinality(Adding(f)') = Occurrences(returned', f)
    BY <1>1 DEF MemoryCount
  <2>2. Tally(f)' = Tally(f)
    BY <1>1 DEF Tally, Reported
  <2>3. Cardinality(Adding(f)') = Cardinality(Adding(f)) + IF job[t].line[1] = f THEN 1 ELSE 0
    BY <1>1, <1>2, <1>3, <2>1, Joins
  <2>4. /\ Occurrences(returned, f) \in Nat
        /\ Occurrences(returned', f) = Occurrences(returned, f) + IF job[t].line[1] = f THEN 1 ELSE 0
    BY <1>1, <1>3, <1>4, OccursAppend DEF FileTypes
  <2>5. Tally(f) \in Nat /\ Cardinality(Adding(f)) \in Nat
    BY <1>3, Somewhere, ReportedType DEF Tally, CountTypes, Types
  <2> QED BY <1>3, <2>1, <2>2, <2>3, <2>4, <2>5 DEF MemoryCount
<1>8. FileCount'
  <2>1. disable_incremental_histograms => \A u \in Thread : pc'[u] # "histogram"
    BY <1>1, <1>2, <1>3, GoesTo DEF FileCount
  <2> QED BY <1>1, <1>3, <1>4, <2>1, FileSameCount
<1>9. Phases'
  BY <1>1, <1>3, <1>4 DEF Phases
<1> QED BY <1>5, <1>6, <1>7, <1>8, <1>9 DEF CountInv

(* A feature gets into the histogram, or finds no memory.                  *)
LEMMA CountAddFeature ==
  ASSUME Sure, Types', FileTypes', NEW t \in Thread, AddFeature(t) \/ AddFeatureThrows(t)
  PROVE  CountTypes' /\ CountInv'
<1> USE DEF stream, carving, report, history, limits
<1>1. PICK where \in {"idle", "open"} : GoTo(t, where)
  BY DEF AddFeature, AddFeatureThrows, AfterWrite
<1>2. /\ pc[t] = "histogram"
      /\ UNCHANGED <<disk, pending, returned, features_written, report, disk_full, limits>>
      /\ \/ histogram' = Plus(histogram, job[t].line[1]) /\ unadded' = unadded
         \/ unadded' = Plus(unadded, job[t].line[1]) /\ histogram' = histogram
  BY DEF AddFeature, AddFeatureThrows
<1>3. Types /\ Jobs /\ FileTypes /\ CountTypes /\ WrittenCount /\ MemoryCount /\ FileCount /\ Phases
  BY DEF Sure, CountInv
<1>4. phase = "scanning" /\ gpos = 0 /\ job[t].line \in Line
  BY <1>2, Scanning
<1>5. CountTypes'
  <2>1. histogram' \in [Feature -> Nat]
    BY <1>2, <1>3, Tallied DEF CountTypes
  <2> QED BY <1>2, <1>3, <2>1 DEF CountTypes
<1>6. WrittenCount'
  BY <1>1, <1>2, <1>3, Leaves DEF WrittenCount
<1>7. ~disable_incremental_histograms
  BY <1>2, <1>3 DEF FileCount
<1>8. MemoryCount'
  <2>1. SUFFICES ASSUME NEW f \in Feature
                 PROVE  Tally(f)' + Cardinality(Adding(f)') = Occurrences(returned', f)
    BY <1>2 DEF MemoryCount
  <2>2. Reported(f)' = Reported(f) /\ Reported(f) \in Nat /\ histogram[f] \in Nat /\ unadded[f] \in Nat
    BY <1>2, <1>3, ReportedType DEF Reported, CountTypes, Types
  <2>3. histogram'[f] + unadded'[f] = histogram[f] + unadded[f] + IF job[t].line[1] = f THEN 1 ELSE 0
    <3>1. histogram \in [Feature -> Nat] /\ unadded \in [Feature -> Nat]
      BY <1>3 DEF CountTypes, Types
    <3> QED BY <1>2, <2>2, <3>1 DEF Plus
  <2>4. Cardinality(Adding(f)) = Cardinality(Adding(f)') + IF job[t].line[1] = f THEN 1 ELSE 0
    BY <1>1, <1>2, <1>3, Joins
  <2>5. Cardinality(Adding(f)') \in Nat
    <3>1. Adding(f)' \in SUBSET Thread
      BY DEF Adding
    <3> QED BY <3>1, FS_Subset, FS_CardinalityType, RecorderAssumption
  <2>6. histogram'[f] \in Nat /\ unadded'[f] \in Nat
    BY <1>5 DEF CountTypes, Types
  <2>7. Tally(f) + Cardinality(Adding(f)) = Occurrences(returned, f) /\ returned' = returned
    BY <1>2, <1>3, <1>7 DEF MemoryCount
  <2>8. /\ Tally(f)' = Reported(f) + histogram'[f] + unadded'[f]
        /\ Tally(f) = Reported(f) + histogram[f] + unadded[f]
    BY <2>2 DEF Tally
  <2>9. Tally(f)' = Tally(f) + IF job[t].line[1] = f THEN 1 ELSE 0
    BY <2>2, <2>3, <2>6, <2>8
  <2>10. Tally(f) \in Nat
    BY <2>2, <2>8
  <2> QED BY <2>4, <2>5, <2>7, <2>9, <2>10
<1>9. FileCount'
  BY <1>2, <1>7 DEF FileCount
<1>10. Phases'
  BY <1>2, <1>3, <1>4 DEF Phases
<1> QED BY <1>5, <1>6, <1>8, <1>9, <1>10 DEF CountInv

(* The steps of a thread that count nothing.                               *)
LEMMA CountOther ==
  ASSUME Sure, Types', FileTypes', NEW t \in Thread,
         Write0Throws(t) \/ OpenFile(t) \/ OpenFails(t) \/ WriteData(t)
  PROVE  CountTypes' /\ CountInv'
<1> USE DEF stream, carving, report, history, limits
<1>1. PICK where \in {"idle", "data"} : GoTo(t, where)
  BY DEF Write0Throws, OpenFile, OpenFails, WriteData
<1>2. /\ pc[t] # "idle" /\ pc[t] # "histogram"
      /\ UNCHANGED <<returned, features_written, histogram, unadded, report, disk_full, limits>>
      /\ pc[t] = "write0" => failed \/ disk_full
  BY DEF Write0Throws, OpenFile, OpenFails, WriteData
<1>3. Types /\ Jobs /\ FileTypes /\ CountTypes /\ WrittenCount /\ MemoryCount /\ FileCount /\ Phases
  BY DEF Sure, CountInv
<1>4. phase = "scanning" /\ gpos = 0 /\ job[t].line \in Line
  BY <1>2, Scanning
<1>5. CountTypes'
  <2>1. gpos' \in 0 .. Len(disk')
    <3>1. Len(disk') \in Nat
      BY SeqLen DEF FileTypes
    <3> QED BY <1>2, <1>4, <3>1
  <2> QED BY <1>2, <1>3, <2>1 DEF CountTypes
<1>6. WrittenCount'
  <2>1. CASE disk_full
    BY <1>2, <2>1 DEF WrittenCount
  <2>2. CASE pc[t] # "write0"
    BY <1>1, <1>2, <1>3, <2>2, Leaves DEF WrittenCount
  <2> QED BY <1>2, <1>3, <2>1, <2>2 DEF Jobs
<1>7. MemoryCount'
  <2>1. \A f \in Feature : Adding(f)' = Adding(f)
    BY <1>1, <1>2, <1>3, Joins
  <2> QED BY <1>2, <1>3, <2>1, MemorySame
<1>8. FileCount'
  <2>1. disable_incremental_histograms => \A u \in Thread : pc'[u] # "histogram"
    BY <1>1, <1>3, GoesTo DEF FileCount
  <2> QED BY <1>2, <1>3, <1>4, <2>1, FileSameCount
<1>9. Phases'
  BY <1>2, <1>3, <1>4 DEF Phases
<1> QED BY <1>5, <1>6, <1>7, <1>8, <1>9 DEF CountInv

-----------------------------------------------------------------------------
(* The steps of the main thread.                                           *)
LEMMA CountShutdown ==
  ASSUME Sure, Types', FileTypes', Shutdown
  PROVE  CountTypes' /\ CountInv'
<1> USE DEF stream, carving, report, history, limits
<1>1. /\ phase = "scanning" /\ phase' = "shutdown"
      /\ UNCHANGED <<pc, job, returned, features_written, histogram, unadded, gpos,
                     histogram_files, disk_full, limits>>
  BY DEF Shutdown
<1>2. Types /\ FileTypes /\ FileInv /\ CountTypes /\ WrittenCount /\ MemoryCount /\ FileCount /\ Phases
  BY DEF Sure, CountInv
<1>3. gpos = 0
  BY <1>1, <1>2 DEF Phases
<1>4. CountTypes'
  <2>1. gpos' \in 0 .. Len(disk')
    <3>1. Len(disk') \in Nat
      BY SeqLen DEF FileTypes
    <3> QED BY <1>1, <1>3, <3>1
  <2> QED BY <1>1, <1>2, <2>1 DEF CountTypes
<1>5. InWrite' = InWrite /\ \A f \in Feature : Adding(f)' = Adding(f)
  BY <1>1 DEF InWrite, Adding
<1>6. WrittenCount'
  BY <1>1, <1>2, <1>5 DEF WrittenCount
<1>7. MemoryCount'
  BY <1>1, <1>2, <1>5, MemorySame
<1>8. FileCount'
  <2>1. ASSUME NEW f \in Feature PROVE Tally(f)' = Tally(f) /\ ReadSoFar(f)' = ReadSoFar(f)
    <3>1. disk \in Seq(Cell) /\ disk' \in Seq(Cell)
      BY <1>2 DEF FileTypes
    <3>2. ReadSoFar(f)' = {} /\ ReadSoFar(f) = {}
      BY <1>1, <1>3, <3>1, NothingRead DEF ReadSoFar
    <3> QED BY <1>1, <3>2 DEF Tally, Reported
  <2> QED BY <1>1, <1>2, <2>1 DEF FileCount
<1>9. Phases'
  <2>1. ~disk_full => pending' = <<>>
    BY <1>1, <1>2, FileFlush DEF Shutdown
  <2> QED BY <1>1, <2>1 DEF Phases
<1> QED BY <1>4, <1>6, <1>7, <1>8, <1>9 DEF CountInv

(* The line that is read is the next one.                                  *)
LEMMA ReadsOne ==
  ASSUME FileTypes, CountTypes, Unread, gpos' = NextNewline, disk' = disk
  PROVE  /\ NextNewline \in 1 .. Len(disk) /\ disk[NextNewline][1] \in AnyLine
         /\ \A f : /\ Cardinality(ReadSoFar(f)) \in Nat
                   /\ Cardinality(ReadSoFar(f)') = Cardinality(ReadSoFar(f))
                         + IF disk[NextNewline][1][1] = f THEN 1 ELSE 0
<1> DEFINE m == NextNewline
           T == {i \in Newlines(disk) : i > gpos}
<1>1. /\ disk \in Seq(Cell) /\ Len(disk) \in Nat /\ gpos \in Nat
      /\ \A i \in Newlines(disk) : i \in 1 .. Len(disk)
      /\ \A i \in 1 .. Len(disk) : disk[i] \in Cell
  BY SeqLen, NewlinesOf DEF FileTypes, CountTypes
<1>2. T \in SUBSET Nat /\ T # {}
  BY <1>1 DEF Unread
<1>3. m = Min(T)
  BY DEF NextNewline
<1> HIDE DEF m, T
<1>4. m \in T /\ \A y \in T : m <= y
  BY <1>2, <1>3, MinOf
<1>5. m \in Newlines(disk) /\ m > gpos /\ m \in 1 .. Len(disk) /\ disk[m] \in Cell
  BY <1>1, <1>4 DEF T
<1>6. disk[m][1] \in AnyLine
  BY <1>5, CellParts
<1>7. ASSUME NEW f
      PROVE  /\ Cardinality(ReadSoFar(f)) \in Nat
             /\ Cardinality(ReadSoFar(f)') = Cardinality(ReadSoFar(f))
                   + IF disk[m][1][1] = f THEN 1 ELSE 0
  <2>1. IsFiniteSet(ReadSoFar(f)) /\ Cardinality(ReadSoFar(f)) \in Nat
    <3>1. ReadSoFar(f) \in SUBSET (1 .. Len(disk))
      BY <1>1 DEF ReadSoFar
    <3>2. IsFiniteSet(1 .. Len(disk))
      <4>1. 1 \in Int /\ Len(disk) \in Int
        BY <1>1
      <4> QED BY <4>1, FS_Interval
    <3> QED BY <3>1, <3>2, FS_Subset, FS_CardinalityType
  <2>2. ReadSoFar(f)' = {i \in Newlines(disk) : i <= m /\ disk[i][1][1] = f}
    BY DEF ReadSoFar, m
  <2>3. ASSUME NEW i \in Newlines(disk) PROVE i <= m <=> i <= gpos \/ i = m
    BY <1>1, <1>4, <1>5, <2>3 DEF T
  <2>4. CASE disk[m][1][1] = f
    <3>1. ReadSoFar(f)' = ReadSoFar(f) \cup {m} /\ m \notin ReadSoFar(f)
      BY <1>1, <1>5, <2>2, <2>3, <2>4 DEF ReadSoFar
    <3> QED BY <2>1, <2>4, <3>1, OneMore
  <2>5. CASE disk[m][1][1] # f
    <3>1. ReadSoFar(f)' = ReadSoFar(f)
      BY <2>2, <2>3, <2>5 DEF ReadSoFar
    <3> QED BY <2>1, <2>5, <3>1
  <2> QED BY <2>1, <2>4, <2>5
<1> QED BY <1>5, <1>6, <1>7 DEF m

LEMMA TallyType ==
  ASSUME Types, CountTypes, NEW f \in Feature
  PROVE  /\ Reported(f) \in Nat /\ histogram[f] \in Nat /\ unadded[f] \in Nat
         /\ Tally(f) = Reported(f) + histogram[f] + unadded[f] /\ Tally(f) \in Nat
BY ReportedType DEF Tally, CountTypes, Types

(* Writing the histogram from memory moves it to what is reported.         *)
LEMMA WritesHistogram ==
  ASSUME Types, CountTypes, WriteFromMemory
  PROVE  /\ histogram_files' \in Seq([Feature -> Nat]) /\ histogram' \in [Feature -> Nat]
         /\ \A f \in Feature : Reported(f)' + histogram'[f] = Reported(f) + histogram[f]
<1>1. histogram_files' \in Seq([Feature -> Nat])
  BY AppendProperties DEF WriteFromMemory, CountTypes
<1>2. histogram' = NoTally /\ NoTally \in [Feature -> Nat] /\ \A f \in Feature : NoTally[f] = 0
  BY DEF WriteFromMemory, NoTally
<1>3. \A f \in Feature : Reported(f)' = Reported(f) + histogram[f] /\ Reported(f) \in Nat /\ histogram[f] \in Nat
  BY ReportedMore, TallyType DEF WriteFromMemory
<1> QED BY <1>1, <1>2, <1>3

(* A line of the file is counted, or finds no memory.                      *)
LEMMA CountReadLine ==
  ASSUME Sure, Types', FileTypes', ReadLine
  PROVE  CountTypes' /\ CountInv'
<1> USE DEF stream, carving, report, history, limits
<1> DEFINE g == disk[NextNewline][1][1]
<1>1. /\ phase = "shutdown" /\ disable_incremental_histograms /\ Unread
      /\ gpos' = NextNewline
      /\ UNCHANGED <<disk, pending, pc, job, returned, features_written, phase, disk_full, limits>>
      /\ \/ g = Header /\ UNCHANGED <<histogram, histogram_files, unadded>>
         \/ g # Header /\ histogram' = Plus(histogram, g) /\ UNCHANGED <<histogram_files, unadded>>
         \/ g # Header /\ WriteFromMemory /\ unadded' = Plus(unadded, g)
  BY DEF ReadLine
<1>2. Types /\ FileTypes /\ CountTypes /\ WrittenCount /\ MemoryCount /\ FileCount /\ Phases
  BY DEF Sure, CountInv
<1>3. /\ NextNewline \in 1 .. Len(disk) /\ disk[NextNewline][1] \in AnyLine
      /\ \A f : /\ Cardinality(ReadSoFar(f)) \in Nat
                /\ Cardinality(ReadSoFar(f)') = Cardinality(ReadSoFar(f)) + IF g = f THEN 1 ELSE 0
  BY <1>1, <1>2, ReadsOne
<1>4. \A f \in Feature : f # Header
  BY HeaderAssumption
<1> HIDE DEF g
<1>5. histogram \in [Feature -> Nat] /\ unadded \in [Feature -> Nat] /\ histogram_files \in Seq([Feature -> Nat])
  BY <1>2 DEF CountTypes, Types
<1>6. /\ histogram' \in [Feature -> Nat] /\ histogram_files' \in Seq([Feature -> Nat])
      /\ \A f \in Feature : Tally(f)' = Tally(f) + IF g = f THEN 1 ELSE 0
  <2>0. ASSUME NEW f \in Feature
        PROVE  /\ Reported(f) \in Nat /\ histogram[f] \in Nat /\ unadded[f] \in Nat
               /\ Tally(f) = Reported(f) + histogram[f] + unadded[f]
               /\ Tally(f)' = Reported(f)' + histogram'[f] + unadded'[f]
    BY <1>2, TallyType DEF Tally
  <2>1. CASE g = Header /\ UNCHANGED <<histogram, histogram_files, unadded>>
    <3>1. \A f \in Feature : Reported(f)' = Reported(f)
      BY <2>1 DEF Reported
    <3> QED BY <1>4, <1>5, <2>0, <2>1, <3>1
  <2>2. CASE g # Header /\ histogram' = Plus(histogram, g) /\ UNCHANGED <<histogram_files, unadded>>
    <3>1. \A f \in Feature : Reported(f)' = Reported(f)
      BY <2>2 DEF Reported
    <3>2. histogram' \in [Feature -> Nat]
      BY <1>5, <2>2, Tallied
    <3>3. \A f \in Feature : histogram'[f] = histogram[f] + IF g = f THEN 1 ELSE 0
      BY <1>5, <2>0, <2>2 DEF Plus
    <3>4. \A f \in Feature : unadded'[f] = unadded[f]
      BY <2>2
    <3> QED BY <1>5, <2>0, <2>2, <3>1, <3>2, <3>3, <3>4
  <2>3. CASE g # Header /\ WriteFromMemory /\ unadded' = Plus(unadded, g)
    <3>1. /\ histogram' \in [Feature -> Nat] /\ histogram_files' \in Seq([Feature -> Nat])
          /\ \A f \in Feature : Reported(f)' + histogram'[f] = Reported(f) + histogram[f]
      BY <1>2, <2>3, WritesHistogram
    <3>2. \A f \in Feature : unadded'[f] = unadded[f] + IF g = f THEN 1 ELSE 0
      BY <1>5, <2>0, <2>3 DEF Plus
    <3>3. ASSUME NEW f \in Feature PROVE Tally(f)' = Tally(f) + IF g = f THEN 1 ELSE 0
      <4>1. Reported(f)' + histogram'[f] = Reported(f) + histogram[f]
        BY <3>1
      <4>2. unadded'[f] = unadded[f] + IF g = f THEN 1 ELSE 0
        BY <3>2
      <4> DEFINE a == Reported(f)' + histogram'[f]
      <4>3. Tally(f)' = a + unadded'[f]
        BY <2>0
      <4>4. a = Reported(f) + histogram[f]
        BY <4>1
      <4> HIDE DEF a
      <4> QED BY <2>0, <4>2, <4>3, <4>4
    <3> QED BY <3>1, <3>3
  <2> QED BY <1>1, <2>1, <2>2, <2>3
<1>7. CountTypes'
  <2>1. gpos' \in 0 .. Len(disk')
    BY <1>1, <1>3
  <2> QED BY <1>1, <1>2, <1>6, <2>1 DEF CountTypes
<1>8. WrittenCount' /\ MemoryCount' /\ Phases'
  <2>1. InWrite' = InWrite
    BY <1>1 DEF InWrite
  <2> QED BY <1>1, <1>2, <2>1 DEF WrittenCount, MemoryCount, Phases
<1>9. FileCount'
  <2>1. \A f \in Feature : Tally(f)' = Cardinality(ReadSoFar(f)')
    BY <1>1, <1>2, <1>3, <1>6 DEF FileCount
  <2> QED BY <1>1, <1>2, <2>1 DEF FileCount
<1> QED BY <1>7, <1>8, <1>9 DEF CountInv

LEMMA CountReport ==
  ASSUME Sure, Types', FileTypes', Report
  PROVE  CountTypes' /\ CountInv'
<1> USE DEF stream, carving, report, history, limits
<1>1. /\ phase = "shutdown" /\ phase' = "done" /\ ~(disable_incremental_histograms /\ Unread)
      /\ WriteFromMemory
      /\ UNCHANGED <<disk, pending, pc, job, returned, unadded, features_written, gpos, disk_full, limits>>
  BY DEF Report
<1>2. Types /\ FileTypes /\ CountTypes /\ WrittenCount /\ MemoryCount /\ FileCount /\ Phases
  BY DEF Sure, CountInv
<1>3. /\ histogram_files' \in Seq([Feature -> Nat]) /\ histogram' \in [Feature -> Nat]
      /\ \A f \in Feature : Reported(f)' + histogram'[f] = Reported(f) + histogram[f]
  BY <1>1, <1>2, WritesHistogram
<1>4. CountTypes'
  BY <1>1, <1>2, <1>3 DEF CountTypes
<1>5. ASSUME NEW f \in Feature
      PROVE  Tally(f)' = Tally(f) /\ Adding(f)' = Adding(f) /\ ReadSoFar(f)' = ReadSoFar(f)
  <2>1. Reported(f)' + histogram'[f] = Reported(f) + histogram[f] /\ unadded'[f] = unadded[f]
    BY <1>1, <1>3
  <2>2. Tally(f)' = Tally(f)
    BY <2>1 DEF Tally
  <2> QED BY <1>1, <2>2 DEF Adding, ReadSoFar
<1>6. WrittenCount'
  <2>1. InWrite' = InWrite
    BY <1>1 DEF InWrite
  <2> QED BY <1>1, <1>2, <2>1 DEF WrittenCount
<1>7. MemoryCount'
  <2>1. ASSUME NEW f \in Feature PROVE Occurrences(returned', f) = Occurrences(returned, f)
    BY <1>1
  <2> QED BY <1>1, <1>2, <1>5, <2>1 DEF MemoryCount
<1>8. FileCount'
  <2>1. Unread' = Unread
    BY <1>1 DEF Unread
  <2> QED BY <1>1, <1>2, <1>5, <2>1 DEF FileCount
<1>9. Phases'
  BY <1>1, <1>2 DEF Phases, WriteFromMemory, NoTally
<1> QED BY <1>4, <1>6, <1>7, <1>8, <1>9 DEF CountInv

LEMMA CountDiskFills ==
  ASSUME Sure, Types', FileTypes', DiskFills \/ UNCHANGED vars
  PROVE  CountTypes' /\ CountInv'
<1> USE DEF stream, carving, report, history, limits
<1>1. /\ UNCHANGED <<disk, pending, pc, job, returned, unadded, features_written, phase, gpos,
                     histogram_files, histogram, limits>>
      /\ disk_full' = disk_full \/ disk_full' = TRUE
  BY DEF DiskFills, vars
<1>2. Types /\ FileTypes /\ CountTypes /\ WrittenCount /\ MemoryCount /\ FileCount /\ Phases
  BY DEF Sure, CountInv
<1>3. CountTypes'
  BY <1>1, <1>2 DEF CountTypes
<1>4. InWrite' = InWrite /\ \A f \in Feature : Adding(f)' = Adding(f)
  BY <1>1 DEF InWrite, Adding
<1>5. WrittenCount' /\ Phases'
  BY <1>1, <1>2, <1>4 DEF WrittenCount, Phases
<1>6. MemoryCount'
  BY <1>1, <1>2, <1>4, MemorySame
<1>7. FileCount'
  <2>1. disable_incremental_histograms => \A u \in Thread : pc'[u] # "histogram"
    BY <1>1, <1>2 DEF FileCount
  <2> QED BY <1>1, <1>2, <2>1, FileSameCount
<1> QED BY <1>3, <1>5, <1>6, <1>7 DEF CountInv

LEMMA NewTally ==
  ASSUME NEW f \in Feature
  PROVE  /\ NoTally \in [Feature -> Nat] /\ NoTally[f] = 0
         /\ SumOf([i \in DOMAIN <<>> |-> <<>>[i][f]], DOMAIN <<>>) = 0
         /\ Occurrences(<<>>, f) = 0
<1>1. DOMAIN <<>> = {}
  OBVIOUS
<1>2. {i \in DOMAIN <<>> : <<>>[i][1] = f} = {}
  BY <1>1
<1> QED BY <1>1, <1>2, SumEmpty, FS_EmptySet DEF NoTally, Occurrences

(* A new process has nothing to count.                                     *)
LEMMA CountCrash ==
  ASSUME Sure, Types', FileTypes', Crash
  PROVE  CountTypes' /\ CountInv'
<1>1. /\ phase' = "scanning" /\ gpos' = 0 /\ histogram_files' = <<>> /\ histogram' = NoTally
      /\ unadded' = NoTally /\ returned' = <<>> /\ features_written' = 0
      /\ pc' = [t \in Thread |-> "idle"]
      /\ disable_incremental_histograms' \in BOOLEAN
      /\ UNCHANGED <<disk, disk_full, calls>>
      /\ crashes < MaxCrashes /\ crashes' = crashes + 1
  BY DEF Crash, Start
<1>2. Types /\ FileTypes /\ CountTypes
  BY DEF Sure
<1>3. disk \in Seq(Cell) /\ Len(disk) \in Nat
  BY <1>2, SeqLen DEF FileTypes
<1>4. CountTypes'
  <2>1. NoTally \in [Feature -> Nat] /\ <<>> \in Seq([Feature -> Nat])
    BY EmptySeq DEF NoTally
  <2>2. gpos' \in 0 .. Len(disk') /\ features_written' \in 0 .. calls'
    BY <1>1, <1>2, <1>3 DEF Types
  <2>3. crashes' \in 0 .. MaxCrashes
    BY <1>1, <1>2, RecorderAssumption DEF CountTypes
  <2>4. disk_full' \in BOOLEAN
    BY <1>1, <1>2 DEF CountTypes
  <2> QED BY <1>1, <2>1, <2>2, <2>3, <2>4 DEF CountTypes
<1>5. /\ InWrite' = {} /\ Cardinality(InWrite') = 0
      /\ \A f : Adding(f)' = {} /\ Cardinality(Adding(f)') = 0
  BY <1>1, FS_EmptySet DEF InWrite, Adding
<1>6. WrittenCount'
  <2>1. Len(returned') = 0
    BY <1>1
  <2> QED BY <1>1, <1>5, <2>1 DEF WrittenCount
<1>7. ASSUME NEW f \in Feature
      PROVE  Tally(f)' = 0 /\ Occurrences(returned', f) = 0 /\ Cardinality(ReadSoFar(f)') = 0
  <2>1. /\ NoTally[f] = 0 /\ Occurrences(<<>>, f) = 0
        /\ SumOf([i \in DOMAIN <<>> |-> <<>>[i][f]], DOMAIN <<>>) = 0
    BY NewTally
  <2>2. Reported(f)' = 0
    BY <1>1, <2>1 DEF Reported
  <2>3. ReadSoFar(f)' = {}
    BY <1>1, <1>3, NothingRead DEF ReadSoFar
  <2> QED BY <1>1, <2>1, <2>2, <2>3, FS_EmptySet DEF Tally
<1>8. MemoryCount' /\ FileCount' /\ Phases'
  BY <1>1, <1>5, <1>7 DEF MemoryCount, FileCount, Phases
<1> QED BY <1>4, <1>6, <1>8 DEF CountInv

-----------------------------------------------------------------------------
(* The inductive invariant of the file and the counts.                     *)
RecorderInv == Types /\ Jobs /\ FileTypes /\ FileInv /\ CountTypes /\ CountInv

LEMMA RecorderInit == Init => RecorderInv
<1> SUFFICES ASSUME Init PROVE RecorderInv
  OBVIOUS
<1>0. Len(<<>>) = 0
  OBVIOUS
<1>1. Types /\ Jobs
  BY CarveInit DEF CarveInv
<1>2. FileTypes
  <2>1. <<>> \in Seq(Cell) /\ <<>> \in Seq(AnyLine) /\ <<>> \in Seq(Line)
    BY EmptySeq
  <2>2. at \in 0 .. Len(disk)
    BY <1>0 DEF Init
  <2>3. failed \in BOOLEAN /\ wrapped \in BOOLEAN
    BY DEF Init
  <2> QED BY <2>1, <2>2, <2>3 DEF Init, FileTypes
<1>3. FileInv
  <2>1. Before = <<>> /\ Newlines(disk) = {}
    <3>1. SubSeq(<<>>, 1, 0) = <<>>
      BY SubSeqEmpty
    <3> QED BY <3>1 DEF Init, Before, Newlines
  <2>2. Out = <<>>
    BY <2>1 DEF Init, Out
  <2>3. Lines(<<>>) = <<>> /\ Features(<<>>) = <<>>
    <3>1. <<>> \in Seq(Cell) /\ Newlines(<<>>) = {}
      BY EmptySeq DEF Newlines
    <3> QED BY <3>1, LinesNone, SelectEmpty DEF Features
  <2>4. Taken = <<>>
    BY <2>3 DEF Init, Taken
  <2> QED BY <2>1, <2>2, <2>3, <2>4, WholeEmpty DEF Init, FileInv, Contents
<1>4. CountTypes
  <2>1. NoTally \in [Feature -> Nat] /\ <<>> \in Seq([Feature -> Nat])
    BY EmptySeq DEF NoTally
  <2>2. gpos \in 0 .. Len(disk) /\ features_written \in 0 .. calls
    BY <1>0 DEF Init
  <2>3. crashes \in 0 .. MaxCrashes
    BY RecorderAssumption DEF Init
  <2>4. {disable_incremental_histograms, disk_full} \subseteq BOOLEAN
    BY DEF Init
  <2> QED BY <2>1, <2>2, <2>3, <2>4 DEF Init, CountTypes
<1>5. CountInv
  <2>1. InWrite = {} /\ \A f : Adding(f) = {}
    BY DEF Init, InWrite, Adding
  <2>2. ASSUME NEW f \in Feature
        PROVE  Tally(f) = 0 /\ Occurrences(returned, f) = 0 /\ ReadSoFar(f) = {}
    <3>1. /\ NoTally[f] = 0 /\ Occurrences(<<>>, f) = 0
          /\ SumOf([i \in DOMAIN <<>> |-> <<>>[i][f]], DOMAIN <<>>) = 0
      BY NewTally
    <3>2. Reported(f) = 0
      BY <3>1 DEF Init, Reported
    <3>3. ReadSoFar(f) = {}
      BY DEF Init, ReadSoFar, Newlines
    <3> QED BY <3>1, <3>2, <3>3 DEF Init, Tally
  <2>3. Cardinality({}) = 0
    BY FS_EmptySet
  <2>4. WrittenCount
    BY <1>0, <2>1, <2>3 DEF Init, WrittenCount
  <2>6. MemoryCount
    BY <2>1, <2>2, <2>3 DEF MemoryCount
  <2>7. FileCount
    BY <2>2, <2>3 DEF Init, FileCount
  <2>5. Phases
    BY DEF Init, Phases
  <2> QED BY <2>4, <2>5, <2>6, <2>7 DEF CountInv
<1> QED BY <1>1, <1>2, <1>3, <1>4, <1>5 DEF RecorderInv

LEMMA FileStep ==
  ASSUME Types, Jobs, FileTypes, FileInv, [Next]_vars
  PROVE  FileTypes' /\ FileInv' /\ Kept
<1> USE DEF stream, carving, report, history, limits
<1>1. ASSUME NEW t \in Thread, Write0(t) PROVE FileTypes' /\ FileInv' /\ Kept
  <2>1. job[t].line \in Line
    BY <1>1 DEF Write0, Jobs
  <2> QED BY <1>1, <2>1, FileWrite0
<1>2. ASSUME NEW t \in Thread, Write0Throws(t) PROVE FileTypes' /\ FileInv' /\ Kept
  <2>1. job[t].line \in Line
    BY <1>2 DEF Write0Throws, Jobs
  <2> QED BY <1>2, <2>1, FileThrows
<1>3. ASSUME Shutdown PROVE FileTypes' /\ FileInv' /\ Kept
  BY <1>3, FileFlush DEF Shutdown
<1>4. ASSUME Crash PROVE FileTypes' /\ FileInv' /\ Kept
  BY <1>4, FileCrash
<1>5. ASSUME \/ \E t \in Thread :
                   \/ \E f \in Text : Write(t, f)
                   \/ \E o \in Object : Carve(t, o)
                   \/ AddFeature(t) \/ AddFeatureThrows(t)
                   \/ OpenFile(t) \/ OpenFails(t) \/ WriteData(t)
             \/ ReadLine \/ Report \/ DiskFills \/ UNCHANGED vars
      PROVE  FileTypes' /\ FileInv' /\ Kept
  <2>1. UNCHANGED <<disk, stream, recovered, returned, refused, wrapped>>
    BY <1>5 DEF Write, Carve, AddFeature, AddFeatureThrows, OpenFile, OpenFails, WriteData,
                ReadLine, Report, DiskFills, vars
  <2> QED BY <2>1, FileSame
<1> QED BY <1>1, <1>2, <1>3, <1>4, <1>5 DEF Next, Done

LEMMA RecorderStep == RecorderInv /\ [Next]_vars => RecorderInv'
<1> SUFFICES ASSUME RecorderInv, [Next]_vars PROVE RecorderInv'
  OBVIOUS
<1>1. Types /\ Jobs /\ FileTypes /\ FileInv /\ Sure
  BY DEF RecorderInv, Sure
<1>2. Types' /\ Jobs'
  BY <1>1, TypesStep, JobsStep
<1>3. FileTypes' /\ FileInv'
  BY <1>1, FileStep
<1>4. CountTypes' /\ CountInv'
  <2>1. ASSUME NEW t \in Thread,
               \/ \E f \in Text : Write(t, f)
               \/ \E o \in Object : Carve(t, o)
        PROVE  CountTypes' /\ CountInv'
    BY <1>1, <1>2, <1>3, <2>1, CountBegins
  <2>2. ASSUME NEW t \in Thread, Write0(t) PROVE CountTypes' /\ CountInv'
    BY <1>1, <1>2, <1>3, <2>2, CountWrite0
  <2>3. ASSUME NEW t \in Thread, AddFeature(t) \/ AddFeatureThrows(t)
        PROVE  CountTypes' /\ CountInv'
    BY <1>1, <1>2, <1>3, <2>3, CountAddFeature
  <2>4. ASSUME NEW t \in Thread, Write0Throws(t) \/ OpenFile(t) \/ OpenFails(t) \/ WriteData(t)
        PROVE  CountTypes' /\ CountInv'
    BY <1>1, <1>2, <1>3, <2>4, CountOther
  <2>5. ASSUME Shutdown PROVE CountTypes' /\ CountInv'
    BY <1>1, <1>2, <1>3, <2>5, CountShutdown
  <2>6. ASSUME ReadLine PROVE CountTypes' /\ CountInv'
    BY <1>1, <1>2, <1>3, <2>6, CountReadLine
  <2>7. ASSUME Report PROVE CountTypes' /\ CountInv'
    BY <1>1, <1>2, <1>3, <2>7, CountReport
  <2>8. ASSUME DiskFills \/ UNCHANGED vars PROVE CountTypes' /\ CountInv'
    BY <1>1, <1>2, <1>3, <2>8, CountDiskFills
  <2>9. ASSUME Crash PROVE CountTypes' /\ CountInv'
    BY <1>1, <1>2, <1>3, <2>9, CountCrash
  <2> QED BY <2>1, <2>2, <2>3, <2>4, <2>5, <2>6, <2>7, <2>8, <2>9 DEF Next, Done
<1> QED BY <1>2, <1>3, <1>4 DEF RecorderInv

-----------------------------------------------------------------------------
(* What follows from it.                                                   *)
LEMMA RecorderTypeOK == RecorderInv => TypeOK
<1> SUFFICES ASSUME RecorderInv PROVE TypeOK
  OBVIOUS
<1>1. Types /\ Jobs /\ FileTypes /\ CountTypes
  BY DEF RecorderInv
<1>2. MaxCalls \in Nat /\ calls \in 0 .. MaxCalls
  BY <1>1, RecorderAssumption DEF Types
<1>3. carved_file_count \in 0 .. MaxCalls /\ features_written \in 0 .. MaxCalls
  BY <1>1, <1>2 DEF Types, CountTypes
<1>4. pc \in [Thread -> {"idle", "write0", "histogram", "open", "data"}]
  BY <1>1 DEF Types, Past
<1> QED BY <1>1, <1>2, <1>3, <1>4 DEF TypeOK, Types, FileTypes, CountTypes, AnyLine

(* The file is in order.                                                   *)
LEMMA RecorderInOrder == RecorderInv => InOrder
<1> SUFFICES ASSUME RecorderInv, ~wrapped
             PROVE  IsPrefix(Features(Lines(disk)), Taken \o refused)
  BY DEF InOrder, Taken
<1>1. FileTypes /\ Contents /\ (~failed => refused = <<>>)
  BY DEF RecorderInv, FileInv
<1>2. Lines(disk) = Lines(Before)
  BY <1>1, WholeDisk
<1>3. Before \in Seq(Cell) /\ pending \in Seq(Cell) /\ Out \in Seq(Cell)
  BY <1>1, BeforeType DEF FileTypes
<1>4. IsPrefix(Features(Lines(Before)), Features(Lines(Out)))
  BY <1>3, PrefixLines DEF Out
<1>5. IsPrefix(Features(Lines(Out)), Taken \o refused)
  <2>1. CASE failed
    BY <1>1, <2>1 DEF Contents
  <2>2. CASE ~failed
    <3>1. Features(Lines(Out)) = Taken /\ refused = <<>>
      BY <1>1, <2>2 DEF Contents
    <3>2. Taken \in Seq(Line) /\ refused \in Seq(Line)
      BY <1>1, BeforeType DEF FileTypes
    <3> QED BY <3>1, <3>2, PrefixOf
  <2> QED BY <2>1, <2>2
<1>6. /\ Features(Lines(Before)) \in Seq(Line) /\ Features(Lines(Out)) \in Seq(Line)
      /\ Taken \o refused \in Seq(Line)
  <2>1. Lines(Before) \in Seq(AnyLine) /\ Lines(Out) \in Seq(AnyLine)
    BY <1>3, LinesType
  <2> QED BY <1>1, <2>1, FeaturesConcat, BeforeType
<1> QED BY <1>2, <1>4, <1>5, <1>6, PrefixTransitive

(* It is complete after a shutdown.                                        *)
LEMMA RecorderAllWritten == RecorderInv => AllWritten
<1> SUFFICES ASSUME RecorderInv, phase # "scanning", ~disk_full
             PROVE  /\ ~wrapped => Features(Lines(disk)) = Taken
                    /\ features_written = Len(returned)
  BY DEF AllWritten, Taken
<1>1. FileTypes /\ FileInv /\ Jobs /\ CountInv
  BY DEF RecorderInv
<1>2. pending = <<>> /\ ~failed
  BY <1>1 DEF CountInv, Phases, Jobs
<1>3. ASSUME ~wrapped PROVE Features(Lines(disk)) = Taken
  <2>1. Contents
    BY <1>1, <1>3 DEF FileInv
  <2>2. Lines(disk) = Lines(Before) /\ Features(Lines(Out)) = Taken
    BY <1>1, <1>2, <2>1, WholeDisk DEF Contents
  <2>3. Before \in Seq(Cell)
    BY <1>1, BeforeType
  <2>4. Out = Before
    BY <1>2, <2>3, ConcatEmptySeq DEF Out
  <2> QED BY <2>2, <2>4
<1>4. features_written = Len(returned)
  <2>1. InWrite = {}
    BY <1>1 DEF Jobs, InWrite
  <2>2. Len(returned) \in Nat
    BY <1>1, SeqLen DEF FileTypes
  <2> QED BY <1>1, <2>1, <2>2, FS_EmptySet DEF CountInv, WrittenCount
<1> QED BY <1>3, <1>4

(* And the histogram is.                                                   *)
LEMMA RecorderHistogram ==
  RecorderInv => (phase = "done" =>
     \A f \in Feature : Reported(f) + unadded[f] = Occurrences(Recorded, f))
<1> SUFFICES ASSUME RecorderInv, phase = "done", NEW f \in Feature
             PROVE  Reported(f) + unadded[f] = Occurrences(Recorded, f)
  OBVIOUS
<1>1. Types /\ Jobs /\ FileTypes /\ CountTypes /\ MemoryCount /\ FileCount /\ Phases
  BY DEF RecorderInv, CountInv
<1>2. /\ Reported(f) \in Nat /\ histogram[f] = 0 /\ unadded[f] \in Nat
      /\ Tally(f) = Reported(f) + histogram[f] + unadded[f]
  BY <1>1, TallyType DEF Phases, NoTally
<1>3. Tally(f) = Reported(f) + unadded[f]
  BY <1>2
<1>4. CASE ~disable_incremental_histograms
  <2>1. Adding(f) = {}
    BY <1>1 DEF Jobs, Adding
  <2>2. Tally(f) + Cardinality(Adding(f)) = Occurrences(returned, f)
    BY <1>1, <1>4 DEF MemoryCount
  <2>3. Cardinality(Adding(f)) = 0
    BY <2>1, FS_EmptySet
  <2> QED BY <1>2, <1>3, <1>4, <2>2, <2>3 DEF Recorded
<1>5. CASE disable_incremental_histograms
  <2>1. Tally(f) = Cardinality(ReadSoFar(f)) /\ ~Unread
    BY <1>1, <1>5 DEF FileCount
  <2>2. ReadSoFar(f) = {i \in Newlines(disk) : disk[i][1][1] = f}
    <3>1. \A i \in Newlines(disk) : i <= gpos
      <4>1. \A i \in Newlines(disk) : i \in Nat
        BY <1>1, NewlinesOf DEF FileTypes
      <4>2. gpos \in Nat
        BY <1>1 DEF CountTypes
      <4> QED BY <2>1, <4>1, <4>2 DEF Unread
    <3> QED BY <3>1 DEF ReadSoFar
  <2>3. Occurrences(Lines(disk), f) = Cardinality({i \in Newlines(disk) : disk[i][1][1] = f})
    BY <1>1, OccursLines DEF FileTypes
  <2> QED BY <1>3, <1>5, <2>1, <2>2, <2>3 DEF Recorded
<1> QED BY <1>1, <1>4, <1>5 DEF CountTypes

(* The types.                                                              *)
THEOREM RecorderTypes == Spec => []TypeOK
<1>1. RecorderInv => TypeOK
  BY RecorderTypeOK
<1> QED BY <1>1, RecorderInit, RecorderStep, PTL DEF Spec

(* The feature file has the lines that were taken, in order and without a  *)
(* gap, whatever the disk does and however often the process dies; after a *)
(* shutdown on a disk with room it has all of them, and features_written   *)
(* says how many; and the histogram files count each feature as often as   *)
(* it was written, but for what found no memory.                           *)
THEOREM HistogramIsExact == Spec => []HistogramExact
<1>1. RecorderInv => HistogramExact
  BY RecorderInOrder, RecorderAllWritten, RecorderHistogram DEF HistogramExact
<1> QED BY <1>1, RecorderInit, RecorderStep, PTL DEF Spec

(* Every newline of the file ends a whole line, and a line on the disk     *)
(* stays there, through torn writes, full disks, crashes and restarts,     *)
(* until a search for the last newline meets a multiple of IntSpan.        *)
THEOREM LinesStay == Spec => LinesKept
<1>1. RecorderInv /\ [Next]_vars =>
         [~wrapped' => WholeLines(disk') /\ IsPrefix(Lines(disk), Lines(disk'))]_vars
  BY FileStep DEF RecorderInv, Kept
<1> QED BY <1>1, RecorderInit, RecorderStep, PTL DEF Spec, LinesKept
=============================================================================
