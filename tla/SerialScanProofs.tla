-------------------------- MODULE SerialScanProofs --------------------------
(***************************************************************************)
(* Theorems about SerialScan for every set of contents and scanners, every *)
(* assignment of flags and every depth limit.                              *)
(***************************************************************************)
EXTENDS SerialScan, FoldingProofs

StackFrame ==
    [content : Content, path : Seq(Scanner), seen_before : BOOLEAN,
     possibly_has : SUBSET {"memory", "filesystems"}, todo : SUBSET Scanner,
     scanner : Scanner \cup {NoScanner}, recursions : 0 .. MaxRecursions]

(* Taking the innermost call off the stack, and putting one on it.         *)
LEMMA Popped ==
    ASSUME NEW S, NEW s \in Seq(S), s # <<>>
    PROVE  /\ Head(s) = s[1] /\ Head(s) \in S
           /\ Len(s) \in Nat \ {0} /\ DOMAIN s = 1 .. Len(s)
           /\ Tail(s) \in Seq(S) /\ Len(Tail(s)) = Len(s) - 1
           /\ DOMAIN Tail(s) = 1 .. Len(s) - 1
           /\ (Tail(s) = <<>>) <=> (Len(s) = 1)
           /\ \A i \in 1 .. Len(s) - 1 : Tail(s)[i] = s[i + 1]
<1>1. Len(s) \in Nat \ {0} /\ DOMAIN s = 1 .. Len(s)
  BY EmptySeq, LenProperties
<1>2. /\ Head(s) \in S /\ Tail(s) \in Seq(S) /\ Len(Tail(s)) = Len(s) - 1
      /\ \A i \in 1 .. Len(Tail(s)) : Tail(s)[i] = s[i + 1]
  BY HeadTailProperties
<1>3. DOMAIN Tail(s) = 1 .. Len(s) - 1
  BY <1>2, LenProperties
<1>4. (Tail(s) = <<>>) <=> (Len(s) = 1)
  BY <1>1, <1>2, EmptySeq
<1>5. Head(s) = s[1]
  OBVIOUS
<1>6. QED  BY <1>1, <1>2, <1>3, <1>4, <1>5

LEMMA Pushed ==
    ASSUME NEW S, NEW s \in Seq(S), NEW f \in S
    PROVE  /\ <<f>> \o s \in Seq(S) /\ Len(s) \in Nat
           /\ Len(<<f>> \o s) = Len(s) + 1 /\ <<f>> \o s # <<>>
           /\ DOMAIN (<<f>> \o s) = 1 .. Len(s) + 1
           /\ (<<f>> \o s)[1] = f /\ Head(<<f>> \o s) = f
           /\ \A i \in 1 .. Len(s) : (<<f>> \o s)[i + 1] = s[i]
<1>1. <<f>> \in Seq(S) /\ Len(<<f>>) = 1 /\ <<f>>[1] = f
  OBVIOUS
<1>2. /\ <<f>> \o s \in Seq(S) /\ Len(<<f>> \o s) = Len(s) + 1
      /\ Len(s) \in Nat
      /\ \A i \in 1 .. Len(s) + 1 : (<<f>> \o s)[i] = IF i <= 1 THEN <<f>>[i] ELSE s[i - 1]
  BY <1>1, ConcatProperties, LenProperties
<1>3. DOMAIN (<<f>> \o s) = 1 .. Len(s) + 1 /\ <<f>> \o s # <<>>
  BY <1>2, LenProperties, EmptySeq
<1>4. (<<f>> \o s)[1] = f
  BY <1>1, <1>2
<1>5. \A i \in 1 .. Len(s) : (<<f>> \o s)[i + 1] = s[i]
  BY <1>2
<1>6. QED  BY <1>2, <1>3, <1>4, <1>5, HeadTailProperties

LEMMA PushedTwo ==
    ASSUME NEW S, NEW s \in Seq(S), NEW f \in S, NEW g \in S
    PROVE  /\ <<f, g>> \o s \in Seq(S) /\ Len(s) \in Nat
           /\ Len(<<f, g>> \o s) = Len(s) + 2 /\ <<f, g>> \o s # <<>>
           /\ DOMAIN (<<f, g>> \o s) = 1 .. Len(s) + 2
           /\ (<<f, g>> \o s)[1] = f /\ Head(<<f, g>> \o s) = f
           /\ (<<f, g>> \o s)[2] = g
           /\ \A i \in 1 .. Len(s) : (<<f, g>> \o s)[i + 2] = s[i]
<1>1. <<f, g>> \in Seq(S) /\ Len(<<f, g>>) = 2 /\ <<f, g>>[1] = f /\ <<f, g>>[2] = g
  OBVIOUS
<1>2. /\ <<f, g>> \o s \in Seq(S) /\ Len(<<f, g>> \o s) = Len(s) + 2
      /\ Len(s) \in Nat
      /\ \A i \in 1 .. Len(s) + 2 :
            (<<f, g>> \o s)[i] = IF i <= 2 THEN <<f, g>>[i] ELSE s[i - 2]
  BY <1>1, ConcatProperties, LenProperties
<1>3. DOMAIN (<<f, g>> \o s) = 1 .. Len(s) + 2 /\ <<f, g>> \o s # <<>>
  BY <1>2, LenProperties, EmptySeq
<1>4. (<<f, g>> \o s)[1] = f /\ (<<f, g>> \o s)[2] = g
  BY <1>1, <1>2
<1>5. \A i \in 1 .. Len(s) : (<<f, g>> \o s)[i + 2] = s[i]
  BY <1>2
<1>6. QED  BY <1>2, <1>3, <1>4, <1>5, HeadTailProperties

LEMMA Greater ==
    ASSUME NEW a \in Nat, NEW b \in Nat
    PROVE  Max({a, b}) = IF a >= b THEN a ELSE b
BY DEF Max

-----------------------------------------------------------------------------
(* The calls below the innermost one are inside a scanner, and each is one *)
(* less deep than the one above it.                                        *)
Nested ==
    /\ \A i \in DOMAIN stack :
          /\ Depth(stack[i]) = Len(stack) - i
          /\ i > 1 => stack[i].scanner \in Scanner
          /\ i > 1 \/ pc # "entering" =>
                Depth(stack[i]) < max_depth /\ Depth(stack[i]) <= max_depth_seen
    /\ begun = {} => max_depth_seen = 0
    /\ begun # {} => max_depth_seen < max_depth

(* A call holds one reference for its caller, and one more for the scanner *)
(* that it is inside of.  An exception of the alert recorder leaves some   *)
(* of them behind.                                                         *)
Held == 2 * Len(stack) - (IF pc \in {"entering", "looping"} THEN 1 ELSE 0)
Balanced ==
    /\ sbufs_in_queue >= Held
    /\ AlertRecorder /\ ~disk_full => sbufs_in_queue = Held

ScanInv == Shape /\ Nested /\ Balanced

LEMMA TopType ==
    ASSUME Shape, pc # "idle"
    PROVE  /\ stack \in Seq(StackFrame) /\ stack # <<>>
           /\ Top = stack[1] /\ Top \in StackFrame /\ Len(stack) \in Nat \ {0}
           /\ DOMAIN stack = 1 .. Len(stack) /\ 1 \in DOMAIN stack
           /\ Depth(Top) \in Nat
<1>1. stack \in Seq(StackFrame) /\ stack # <<>>
  BY DEF Shape, StackFrame
<1>2. Top = stack[1] /\ Top \in StackFrame /\ Len(stack) \in Nat \ {0}
      /\ DOMAIN stack = 1 .. Len(stack)
  BY <1>1, Popped DEF Top
<1>3. Depth(Top) \in Nat
  BY <1>2, LenProperties DEF Depth, StackFrame
<1>4. QED  BY <1>1, <1>2, <1>3

(* The innermost call is changed.                                          *)
LEMMA TopSet ==
    ASSUME Shape, pc # "idle", NEW f \in StackFrame, SetTop(f)
    PROVE  /\ stack' \in Seq(StackFrame) /\ stack' # <<>>
           /\ Top' = f /\ stack'[1] = f
           /\ Len(stack') = Len(stack) /\ DOMAIN stack' = DOMAIN stack
           /\ \A i \in DOMAIN stack : i > 1 => stack'[i] = stack[i]
<1> DEFINE t == Tail(stack)
<1>1. /\ t \in Seq(StackFrame) /\ Len(t) = Len(stack) - 1 /\ Len(stack) \in Nat \ {0}
      /\ \A i \in 1 .. Len(stack) - 1 : t[i] = stack[i + 1]
      /\ DOMAIN stack = 1 .. Len(stack)
  BY TopType, Popped
<1>2. /\ stack' \in Seq(StackFrame) /\ stack' # <<>> /\ Len(stack') = Len(t) + 1
      /\ DOMAIN stack' = 1 .. Len(t) + 1 /\ stack'[1] = f /\ Head(stack') = f
      /\ \A i \in 1 .. Len(t) : stack'[i + 1] = t[i]
  BY <1>1, Pushed DEF SetTop
<1>3. Top' = f
  BY <1>2 DEF Top
<1>4. ASSUME NEW i \in DOMAIN stack, i > 1 PROVE stack'[i] = stack[i]
  <2>1. i - 1 \in 1 .. Len(t) /\ i - 1 + 1 = i
    BY <1>1, <1>4
  <2>2. QED  BY <1>1, <1>2, <2>1
<1>5. QED  BY <1>1, <1>2, <1>3, <1>4

(* The innermost call returns, or an exception leaves it.                  *)
LEMMA TopGone ==
    ASSUME Shape, pc # "idle", stack' = Tail(stack)
    PROVE  /\ stack' \in Seq(StackFrame)
           /\ Len(stack') = Len(stack) - 1 /\ DOMAIN stack' = 1 .. Len(stack) - 1
           /\ (stack' = <<>>) <=> (Len(stack) = 1)
           /\ \A i \in DOMAIN stack' :
                 /\ i \in Nat \ {0} /\ i + 1 \in DOMAIN stack
                 /\ stack'[i] = stack[i + 1]
           /\ stack' # <<>> => Top' = stack[2] /\ 2 \in DOMAIN stack
<1>1. /\ stack' \in Seq(StackFrame) /\ Len(stack) \in Nat \ {0}
      /\ Len(stack') = Len(stack) - 1 /\ DOMAIN stack' = 1 .. Len(stack) - 1
      /\ (stack' = <<>>) <=> (Len(stack) = 1)
      /\ \A i \in 1 .. Len(stack) - 1 : stack'[i] = stack[i + 1]
      /\ DOMAIN stack = 1 .. Len(stack)
  BY TopType, Popped
<1>2. ASSUME stack' # <<>> PROVE Top' = stack[2] /\ 2 \in DOMAIN stack
  <2>1. Top' = stack'[1] /\ 1 \in 1 .. Len(stack) - 1
    BY <1>1, <1>2, Popped DEF Top
  <2>2. QED  BY <1>1, <2>1
<1>3. QED  BY <1>1, <1>2

(* The numbers.                                                            *)
LEMMA Numbers ==
    ASSUME Shape
    PROVE  /\ max_depth_seen \in Nat /\ dup_bytes_encountered \in Nat
           /\ disk_write_errors \in Nat /\ alerts \in Nat /\ sbufs_in_queue \in Nat
           /\ scheduled \in Nat /\ escaped \in Nat
BY DEF Shape

LEMMA ScanInvInit == Init => ScanInv
<1> SUFFICES ASSUME Init PROVE ScanInv
  OBVIOUS
<1>1. stack = <<>> /\ stack \in Seq(StackFrame) /\ Len(stack) = 0 /\ DOMAIN stack = {}
  BY EmptySeq DEF Init
<1>2. Shape
  <2>1. stack \in Seq([content : Content, path : Seq(Scanner), seen_before : BOOLEAN,
                      possibly_has : SUBSET {"memory", "filesystems"}, todo : SUBSET Scanner,
                      scanner : Scanner \cup {NoScanner}, recursions : 0 .. MaxRecursions])
    BY <1>1 DEF StackFrame
  <2>2. /\ previously_processed_counter \in [Content -> Nat]
        /\ calls \in [Content -> [Scanner -> Nat]]
    BY DEF Init
  <2>3. disk_full \in BOOLEAN
    BY Zenon DEF Init
  <2>4. /\ pc = "idle" /\ thrown = "none" /\ begun = {} /\ asked = {}
        /\ max_depth_seen = 0 /\ dup_bytes_encountered = 0 /\ disk_write_errors = 0
        /\ alerts = 0 /\ sbufs_in_queue = 0 /\ scheduled = 0 /\ escaped = 0
    BY DEF Init
  <2>5. QED  BY <1>1, <2>1, <2>2, <2>3, <2>4 DEF Shape
<1>3. Nested /\ Balanced
  BY <1>1 DEF Init, Nested, Balanced, Held
<1>4. QED  BY <1>2, <1>3 DEF ScanInv

-----------------------------------------------------------------------------
(* The stack after a return.                                               *)
LEMMA ReturnKeeps ==
    ASSUME ScanInv, pc \in {"entering", "looping"}, Return,
           UNCHANGED <<max_depth_seen, begun, disk_full>>
    PROVE  /\ stack' \in Seq(StackFrame)
           /\ pc' \in {"idle", "scanning"} /\ ((pc' = "idle") <=> (stack' = <<>>))
           /\ pc' = "scanning" => Top'.scanner \in Scanner
           /\ sbufs_in_queue' \in Nat
           /\ Nested' /\ Balanced'
<1>1. /\ Shape /\ Nested /\ Balanced /\ pc # "idle" /\ stack' = Tail(stack)
      /\ pc' = IF stack' = <<>> THEN "idle" ELSE "scanning"
      /\ sbufs_in_queue' = sbufs_in_queue - 1
  BY DEF ScanInv, Return, update_queue_stats
<1>2. /\ stack' \in Seq(StackFrame)
      /\ Len(stack') = Len(stack) - 1
      /\ \A i \in DOMAIN stack' :
            i \in Nat \ {0} /\ i + 1 \in DOMAIN stack /\ stack'[i] = stack[i + 1]
      /\ stack' # <<>> => Top' = stack[2] /\ 2 \in DOMAIN stack
      /\ Len(stack) \in Nat \ {0} /\ sbufs_in_queue \in Nat
  BY <1>1, TopGone, TopType, Numbers
<1>3. pc' = "scanning" => Top'.scanner \in Scanner
  BY <1>1, <1>2 DEF Nested
<1>4. Nested'
  BY <1>1, <1>2 DEF Nested, Depth
<1>5. sbufs_in_queue' \in Nat /\ Balanced'
  BY <1>1, <1>2 DEF Balanced, Held
<1>6. QED  BY <1>1, <1>2, <1>3, <1>4, <1>5

(* The stack after an exception of the alert recorder.                     *)
LEMMA UnwindKeeps ==
    ASSUME ScanInv, pc \in {"entering", "catching"}, NEW e \in {"DiskWriteError", "exception"},
           Unwind(e), ~(AlertRecorder /\ ~disk_full),
           UNCHANGED <<max_depth_seen, begun, disk_full>>
    PROVE  /\ stack' \in Seq(StackFrame)
           /\ pc' \in {"idle", "catching"} /\ ((pc' = "idle") <=> (stack' = <<>>))
           /\ pc' = "catching" => Top'.scanner \in Scanner
           /\ thrown' \in {"none", "DiskWriteError", "exception"}
           /\ (pc' = "catching") <=> (thrown' # "none")
           /\ sbufs_in_queue' \in Nat /\ escaped' \in Nat
           /\ Nested' /\ Balanced'
<1>1. /\ Shape /\ Nested /\ Balanced /\ pc # "idle" /\ stack' = Tail(stack)
      /\ pc' = IF stack' = <<>> THEN "idle" ELSE "catching"
  BY DEF ScanInv, Unwind
<1>a. /\ thrown' = IF stack' = <<>> THEN "none" ELSE e
      /\ escaped' = IF stack' = <<>> THEN escaped + 1 ELSE escaped
      /\ sbufs_in_queue' = sbufs_in_queue
  BY DEF ScanInv, Unwind
<1>2. /\ stack' \in Seq(StackFrame)
      /\ Len(stack') = Len(stack) - 1
      /\ \A i \in DOMAIN stack' :
            i \in Nat \ {0} /\ i + 1 \in DOMAIN stack /\ stack'[i] = stack[i + 1]
      /\ stack' # <<>> => Top' = stack[2] /\ 2 \in DOMAIN stack
      /\ Len(stack) \in Nat \ {0} /\ sbufs_in_queue \in Nat /\ escaped \in Nat
  BY <1>1, TopGone, TopType, Numbers
<1>3. ASSUME pc' = "catching" PROVE Top'.scanner \in Scanner
  <2>1. stack' # <<>>
    BY <1>1, <1>3
  <2>2. Top' = stack[2] /\ 2 \in DOMAIN stack
    BY <1>2, <2>1
  <2>3. QED  BY <1>1, <2>2 DEF Nested
<1>4. Nested'
  BY <1>1, <1>2 DEF Nested, Depth
<1>5. sbufs_in_queue' \in Nat /\ escaped' \in Nat /\ Balanced'
  BY <1>1, <1>a, <1>2 DEF Balanced, Held
<1>6. QED  BY <1>1, <1>a, <1>2, <1>3, <1>4, <1>5

-----------------------------------------------------------------------------
(* The type of everything, put together from the part that a step changes. *)
LEMMA ShapeAgain ==
    ASSUME Shape,
           stack' \in Seq(StackFrame),
           pc' \in {"idle", "entering", "looping", "scanning", "catching"},
           (pc' = "idle") <=> (stack' = <<>>),
           pc' \in {"entering", "looping"} => Top'.scanner = NoScanner,
           pc' \in {"scanning", "catching"} => Top'.scanner \in Scanner,
           thrown' \in {"none", "DiskWriteError", "exception"},
           (pc' = "catching") <=> (thrown' # "none"),
           previously_processed_counter' \in [Content -> Nat],
           max_depth_seen' \in Nat, dup_bytes_encountered' \in Nat,
           disk_write_errors' \in Nat, alerts' \in Nat, sbufs_in_queue' \in Nat,
           scheduled' \in Nat, escaped' \in Nat,
           disk_full' \in BOOLEAN,
           begun' \subseteq Content, asked' \subseteq Content,
           calls' \in [Content -> [Scanner -> Nat]]
    PROVE  Shape'
BY DEF Shape, StackFrame

LEMMA OthersType ==
    ASSUME Shape
    PROVE  /\ previously_processed_counter \in [Content -> Nat]
           /\ max_depth_seen \in Nat /\ dup_bytes_encountered \in Nat
           /\ disk_write_errors \in Nat /\ alerts \in Nat /\ sbufs_in_queue \in Nat
           /\ scheduled \in Nat /\ escaped \in Nat
           /\ disk_full \in BOOLEAN
           /\ begun \subseteq Content /\ asked \subseteq Content
           /\ calls \in [Content -> [Scanner -> Nat]]
           /\ thrown \in {"none", "DiskWriteError", "exception"}
           /\ (pc = "catching") <=> (thrown # "none")
           /\ pc \in {"idle", "entering", "looping", "scanning", "catching"}
BY DEF Shape

(* An ordinary return, whatever the call wrote to the alert recorder.      *)
LEMMA ReturnStep ==
    ASSUME ScanInv, pc \in {"entering", "looping"}, Return, alerts' \in Nat,
           UNCHANGED <<thrown, escaped, previously_processed_counter, max_depth_seen,
                       dup_bytes_encountered, disk_write_errors, disk_full, scheduled,
                       begun, asked, calls>>
    PROVE  ScanInv'
<1>1. Shape /\ thrown = "none"
  BY OthersType DEF ScanInv
<1>2. /\ stack' \in Seq(StackFrame)
      /\ pc' \in {"idle", "scanning"} /\ ((pc' = "idle") <=> (stack' = <<>>))
      /\ pc' = "scanning" => Top'.scanner \in Scanner
      /\ sbufs_in_queue' \in Nat
      /\ Nested' /\ Balanced'
  BY ReturnKeeps
<1>3. Shape'
  BY <1>1, <1>2, OthersType, ShapeAgain
<1>4. QED  BY <1>2, <1>3 DEF ScanInv

(* An exception on its way out, whatever was counted of it.                *)
LEMMA UnwindStep ==
    ASSUME ScanInv, pc \in {"entering", "catching"}, NEW e \in {"DiskWriteError", "exception"},
           Unwind(e), ~(AlertRecorder /\ ~disk_full), disk_write_errors' \in Nat,
           UNCHANGED <<previously_processed_counter, max_depth_seen, dup_bytes_encountered,
                       alerts, disk_full, scheduled, begun, asked, calls>>
    PROVE  ScanInv'
<1>1. Shape
  BY DEF ScanInv
<1>2. /\ stack' \in Seq(StackFrame)
      /\ pc' \in {"idle", "catching"} /\ ((pc' = "idle") <=> (stack' = <<>>))
      /\ pc' = "catching" => Top'.scanner \in Scanner
      /\ thrown' \in {"none", "DiskWriteError", "exception"}
      /\ (pc' = "catching") <=> (thrown' # "none")
      /\ sbufs_in_queue' \in Nat /\ escaped' \in Nat
      /\ Nested' /\ Balanced'
  BY UnwindKeeps
<1>3. Shape'
  BY <1>1, <1>2, OthersType, ShapeAgain
<1>4. QED  BY <1>2, <1>3 DEF ScanInv

(* The innermost call goes on, with another frame.                         *)
LEMMA TopSetKeeps ==
    ASSUME ScanInv, pc # "idle", pc' \in {"looping", "scanning"},
           NEW f \in StackFrame, SetTop(f), f.path = Top.path,
           pc = "entering" =>
               Depth(Top) < max_depth /\ Depth(Top) <= max_depth_seen',
           max_depth_seen' \in Nat, max_depth_seen <= max_depth_seen',
           begun' = {} => max_depth_seen' = 0,
           begun' # {} => max_depth_seen' < max_depth
    PROVE  /\ stack' \in Seq(StackFrame) /\ stack' # <<>> /\ Top' = f
           /\ Len(stack') = Len(stack) /\ Len(stack) \in Nat
           /\ Nested'
<1>1. /\ Shape /\ Nested
      /\ stack' \in Seq(StackFrame) /\ stack' # <<>> /\ Top' = f /\ stack'[1] = f
      /\ Len(stack') = Len(stack) /\ DOMAIN stack' = DOMAIN stack
      /\ \A i \in DOMAIN stack : i > 1 => stack'[i] = stack[i]
      /\ Top = stack[1] /\ Len(stack) \in Nat /\ DOMAIN stack = 1 .. Len(stack)
      /\ max_depth_seen \in Nat
  BY TopSet, TopType, Numbers DEF ScanInv
<1>2. ASSUME NEW i \in DOMAIN stack', i > 1
      PROVE  /\ Depth(stack'[i]) = Len(stack) - i
             /\ stack'[i].scanner \in Scanner
             /\ Depth(stack'[i]) < max_depth /\ Depth(stack'[i]) <= max_depth_seen
  BY <1>1, <1>2 DEF Nested
<1>3. ASSUME 1 \in DOMAIN stack'
      PROVE  /\ Depth(stack'[1]) = Len(stack) - 1
             /\ Depth(stack'[1]) < max_depth /\ Depth(stack'[1]) <= max_depth_seen'
  <2>1. Depth(stack'[1]) = Depth(Top)
    BY <1>1 DEF Depth
  <2>2. Depth(Top) = Len(stack) - 1
        /\ (pc # "entering" => Depth(Top) < max_depth /\ Depth(Top) <= max_depth_seen)
    BY <1>1, <1>3 DEF Nested
  <2>3. QED  BY <1>1, <2>1, <2>2
<1>4. \A i \in DOMAIN stack' :
          /\ Depth(stack'[i]) = Len(stack') - i
          /\ i > 1 => stack'[i].scanner \in Scanner
          /\ Depth(stack'[i]) < max_depth /\ Depth(stack'[i]) <= max_depth_seen'
  <2> SUFFICES ASSUME NEW i \in DOMAIN stack'
               PROVE  /\ Depth(stack'[i]) = Len(stack') - i
                      /\ i > 1 => stack'[i].scanner \in Scanner
                      /\ Depth(stack'[i]) < max_depth /\ Depth(stack'[i]) <= max_depth_seen'
    OBVIOUS
  <2>1. CASE i = 1
    BY <1>1, <1>3, <2>1
  <2>2. CASE i > 1
    <3>1. Depth(stack'[i]) \in Int
      BY <1>1, <1>2, <2>2
    <3>2. QED  BY <1>1, <1>2, <2>2, <3>1
  <2>3. i = 1 \/ i > 1
    BY <1>1
  <2>4. QED  BY <2>1, <2>2, <2>3
<1>5. Nested'
  BY <1>4 DEF Nested, Depth
<1>6. QED  BY <1>1, <1>5

(* The scanner is over: the loop goes on without the reference for it.     *)
LEMMA BackKeeps ==
    ASSUME ScanInv, pc \in {"scanning", "catching"}, BackInLoop,
           thrown' = "none", disk_write_errors' \in Nat, alerts' \in Nat,
           UNCHANGED <<escaped, previously_processed_counter, max_depth_seen,
                       dup_bytes_encountered, disk_full, scheduled, begun, asked, calls>>
    PROVE  ScanInv'
<1> DEFINE f == [Top EXCEPT !.scanner = NoScanner]
<1>1. Shape /\ Balanced /\ pc # "idle" /\ Top \in StackFrame
      /\ SetTop(f) /\ pc' = "looping" /\ sbufs_in_queue' = sbufs_in_queue - 1
  BY TopType DEF ScanInv, BackInLoop, update_queue_stats
<1>2. f \in StackFrame /\ f.path = Top.path /\ f.scanner = NoScanner
  BY <1>1 DEF StackFrame
<1>3. /\ stack' \in Seq(StackFrame) /\ stack' # <<>> /\ Top' = f
      /\ Len(stack') = Len(stack) /\ Len(stack) \in Nat
      /\ Nested'
  <2>1. /\ begun' = {} => max_depth_seen' = 0
        /\ begun' # {} => max_depth_seen' < max_depth
    BY DEF ScanInv, Nested
  <2>2. max_depth_seen' \in Nat /\ max_depth_seen <= max_depth_seen'
    BY <1>1, Numbers
  <2>3. QED
    <3> HIDE DEF f
    <3> QED  BY <1>1, <1>2, <2>1, <2>2, TopSetKeeps
<1>4. sbufs_in_queue' \in Nat /\ Balanced'
  <2>1. Len(stack) # 0 /\ sbufs_in_queue \in Nat
    BY <1>1, TopType, Numbers
  <2>2. QED  BY <1>1, <1>3, <2>1 DEF Balanced, Held
<1>5. Shape'
  <2> HIDE DEF f
  <2> QED  BY <1>1, <1>2, <1>3, <1>4, OthersType, ShapeAgain
<1>6. QED  BY <1>3, <1>4, <1>5 DEF ScanInv

-----------------------------------------------------------------------------
(* The actions, in the order of the specification.                         *)
LEMMA ScheduleInv == ASSUME ScanInv, NEW c \in Content, Schedule(c) PROVE ScanInv'
<1> DEFINE f == Frame(c, <<>>)
<1>1. /\ Shape /\ Nested /\ Balanced /\ pc = "idle" /\ pc' = "entering" /\ stack = <<>>
      /\ stack' = <<f>> \o stack /\ sbufs_in_queue' = sbufs_in_queue + 1
      /\ UNCHANGED <<thrown, previously_processed_counter, stats, disk_full, history>>
      /\ scheduled' = scheduled + 1
  BY DEF ScanInv, Shape, Schedule, Call, update_queue_stats
<1>2. f \in StackFrame /\ f.path = <<>> /\ f.scanner = NoScanner
  <2>1. <<>> \in Seq(Scanner)
    BY EmptySeq
  <2>2. QED  BY <2>1, BoundAssumption DEF Frame, StackFrame
<1>3. stack \in Seq(StackFrame) /\ Len(stack) = 0 /\ Len(f.path) = 0
  BY <1>1, <1>2, EmptySeq
<1> HIDE DEF f
<1>4. /\ stack' \in Seq(StackFrame) /\ stack' # <<>> /\ stack'[1] = f /\ Top' = f
      /\ Len(stack') = 1 /\ DOMAIN stack' = 1 .. 1
  BY <1>1, <1>2, <1>3, Pushed DEF Top
<1>5. Shape'
  BY <1>1, <1>2, <1>4, OthersType, ShapeAgain DEF stats, history
<1>6. Nested'
  BY <1>1, <1>2, <1>3, <1>4 DEF Nested, Depth, stats, history
<1>7. Balanced'
  BY <1>1, <1>3, <1>4, Numbers DEF Balanced, Held
<1>8. QED  BY <1>5, <1>6, <1>7 DEF ScanInv

LEMMA ReturnEmptyInv == ASSUME ScanInv, ReturnEmpty PROVE ScanInv'
<1>1. /\ pc \in {"entering", "looping"} /\ Return
      /\ UNCHANGED <<thrown, escaped, previously_processed_counter, max_depth_seen, alerts,
                     dup_bytes_encountered, disk_write_errors, disk_full, scheduled,
                     begun, asked, calls>>
  BY DEF ReturnEmpty, stats, history
<1>2. alerts' \in Nat
  BY <1>1, OthersType DEF ScanInv
<1>3. QED  BY <1>1, <1>2, ReturnStep

LEMMA RefuseDeepInv == ASSUME ScanInv, RefuseDeep PROVE ScanInv'
<1>1. /\ pc = "entering"
      /\ UNCHANGED <<previously_processed_counter, max_depth_seen, disk_write_errors,
                     dup_bytes_encountered, disk_full, scheduled, begun, asked, calls>>
      /\ Shape /\ alerts \in Nat /\ disk_write_errors \in Nat
  BY OthersType DEF RefuseDeep, ScanInv
<1>2. CASE AlertRecorder /\ ~disk_full
  <2>1. alerts' = alerts + 1 /\ Return /\ UNCHANGED <<thrown, escaped>>
    BY <1>2 DEF RefuseDeep
  <2>2. QED  BY <1>1, <2>1, ReturnStep
<1>3. CASE ~(AlertRecorder /\ ~disk_full)
  <2> DEFINE e == IF AlertRecorder THEN "DiskWriteError" ELSE "exception"
  <2>1. Unwind(e) /\ UNCHANGED alerts /\ e \in {"DiskWriteError", "exception"}
    BY <1>3 DEF RefuseDeep
  <2> HIDE DEF e
  <2>2. QED  BY <1>1, <1>3, <2>1, UnwindStep
<1>4. QED  BY <1>2, <1>3

(* The frame of a call that goes on to its loop.                           *)
Begun == [Top EXCEPT !.seen_before = SeenBefore(Top.content),
                     !.possibly_has = PossiblyHas(Top.path),
                     !.todo = Scanner]

LEMMA BeginFrame ==
    ASSUME Shape, pc # "idle"
    PROVE  /\ Begun \in StackFrame /\ Begun.path = Top.path /\ Begun.content = Top.content
           /\ Begun.scanner = Top.scanner /\ Begun.seen_before = SeenBefore(Top.content)
<1>1. Top \in StackFrame
  BY TopType
<1>2. PossiblyHas(Top.path) \subseteq {"memory", "filesystems"}
  <2>1. Top.path \in Seq(Scanner)
    BY <1>1 DEF StackFrame
  <2>2. ASSUME Top.path # <<>> PROVE Last(Top.path) \in Scanner
    BY <2>1, <2>2, EmptySeq, LenProperties DEF Last
  <2>3. QED  BY <2>1, <2>2, SetsAssumption DEF PossiblyHas
<1>3. SeenBefore(Top.content) \in BOOLEAN
  BY DEF SeenBefore
<1>4. QED
  <2> HIDE DEF PossiblyHas, SeenBefore
  <2> QED  BY <1>1, <1>2, <1>3 DEF Begun, StackFrame

LEMMA BeginInv == ASSUME ScanInv, Begin PROVE ScanInv'
<1> DEFINE f == Begun
<1>1. /\ Shape /\ Nested /\ Balanced /\ pc = "entering" /\ pc' = "looping"
      /\ SetTop(f) /\ Depth(Top) < max_depth
      /\ max_depth_seen' = Max({max_depth_seen, Depth(Top)})
      /\ begun' = begun \cup {Top.content}
      /\ UNCHANGED <<thrown, disk_write_errors, alerts, sbufs_in_queue, disk_full,
                     scheduled, asked, calls, escaped>>
  <2>1. Depth(Top) \in Nat
    BY TopType DEF Begin, ScanInv
  <2>2. QED  BY <2>1, BoundAssumption DEF ScanInv, Begin, TooDeep, Begun
<1>2. /\ stack # <<>> /\ Top \in StackFrame /\ Depth(Top) \in Nat /\ max_depth_seen \in Nat
      /\ Top.scanner = NoScanner
  BY <1>1, TopType, Numbers DEF Shape
<1>4. f \in StackFrame /\ f.path = Top.path /\ f.scanner = NoScanner
  BY <1>1, <1>2, BeginFrame DEF Begun
<1>5. /\ max_depth_seen' \in Nat /\ max_depth_seen <= max_depth_seen'
      /\ Depth(Top) <= max_depth_seen' /\ max_depth_seen' < max_depth
  <2>1. max_depth_seen < max_depth
    BY <1>1, <1>2, BoundAssumption DEF Nested
  <2>2. QED  BY <1>1, <1>2, <2>1, Greater
<1> HIDE DEF f
<1>6. /\ stack' \in Seq(StackFrame) /\ stack' # <<>> /\ Top' = f
      /\ Len(stack') = Len(stack) /\ Nested'
  <2>1. begun' # {}
    BY <1>1
  <2>2. QED  BY <1>1, <1>2, <1>4, <1>5, <2>1, TopSetKeeps
<1>7. Balanced'
  BY <1>1, <1>6 DEF Balanced, Held
<1>8. /\ previously_processed_counter' \in [Content -> Nat]
      /\ dup_bytes_encountered' \in Nat
      /\ begun' \subseteq Content
  <2>1. Top.content \in Content
    BY <1>2 DEF StackFrame
  <2>2. bufsize[Top.content] \in Nat
    BY <2>1, SetsAssumption
  <2>3. QED  BY <1>1, <2>1, <2>2, OthersType DEF Begin, Count
<1>9. Shape'
  BY <1>1, <1>4, <1>5, <1>6, <1>8, OthersType, ShapeAgain
<1>10. QED  BY <1>6, <1>7, <1>9 DEF ScanInv

LEMMA SkipScannerInv == ASSUME ScanInv, NEW sc \in Scanner, SkipScanner(sc) PROVE ScanInv'
<1> DEFINE f == [Top EXCEPT !.todo = @ \ {sc}]
<1>1. /\ Shape /\ Nested /\ Balanced /\ pc = "looping" /\ pc' = "looping" /\ SetTop(f)
      /\ UNCHANGED <<thrown, previously_processed_counter, stats,
                     sbufs_in_queue, disk_full, scheduled, history>>
  BY DEF ScanInv, SkipScanner
<1>2. /\ stack # <<>> /\ Top \in StackFrame /\ max_depth_seen \in Nat
      /\ Top.scanner = NoScanner
  BY <1>1, TopType, Numbers DEF Shape
<1>3. f \in StackFrame /\ f.path = Top.path /\ f.scanner = NoScanner
  BY <1>2 DEF StackFrame
<1> HIDE DEF f
<1>4. /\ stack' \in Seq(StackFrame) /\ stack' # <<>> /\ Top' = f
      /\ Len(stack') = Len(stack) /\ Nested'
  BY <1>1, <1>2, <1>3, TopSetKeeps DEF Nested, stats, history
<1>5. Balanced'
  BY <1>1, <1>4 DEF Balanced, Held
<1>6. Shape'
  BY <1>1, <1>3, <1>4, OthersType, ShapeAgain DEF stats, history
<1>7. QED  BY <1>4, <1>5, <1>6 DEF ScanInv

LEMMA CallScannerInv == ASSUME ScanInv, NEW sc \in Scanner, CallScanner(sc) PROVE ScanInv'
<1> DEFINE f == [Top EXCEPT !.todo = @ \ {sc}, !.scanner = sc, !.recursions = 0]
<1>1. /\ Shape /\ Nested /\ Balanced /\ pc = "looping" /\ pc' = "scanning" /\ SetTop(f)
      /\ sbufs_in_queue' = sbufs_in_queue + 1
      /\ calls' = [calls EXCEPT ![Top.content][sc] = @ + 1]
      /\ UNCHANGED <<thrown, previously_processed_counter, stats, disk_full,
                     scheduled, begun, asked, escaped>>
  BY DEF ScanInv, CallScanner, update_queue_stats
<1>2. /\ stack # <<>> /\ Top \in StackFrame /\ max_depth_seen \in Nat
      /\ sbufs_in_queue \in Nat /\ Len(stack) \in Nat
  BY <1>1, TopType, Numbers DEF Shape
<1>3. f \in StackFrame /\ f.path = Top.path /\ f.scanner \in Scanner
  <2>1. 0 \in 0 .. MaxRecursions
    BY BoundAssumption
  <2>2. QED  BY <1>2, <2>1 DEF StackFrame
<1> HIDE DEF f
<1>4. /\ stack' \in Seq(StackFrame) /\ stack' # <<>> /\ Top' = f
      /\ Len(stack') = Len(stack) /\ Nested'
  BY <1>1, <1>2, <1>3, TopSetKeeps DEF Nested, stats
<1>5. Balanced' /\ sbufs_in_queue' \in Nat
  BY <1>1, <1>2, <1>4 DEF Balanced, Held
<1>6. calls' \in [Content -> [Scanner -> Nat]]
  <2>1. Top.content \in Content
    BY <1>2 DEF StackFrame
  <2>2. QED  BY <1>1, <2>1, OthersType
<1>7. Shape'
  BY <1>1, <1>3, <1>4, <1>5, <1>6, OthersType, ShapeAgain DEF stats
<1>8. QED  BY <1>4, <1>5, <1>7 DEF ScanInv

LEMMA LoopDoneInv == ASSUME ScanInv, LoopDone PROVE ScanInv'
<1>1. /\ pc \in {"entering", "looping"} /\ Return
      /\ UNCHANGED <<thrown, escaped, previously_processed_counter, max_depth_seen, alerts,
                     dup_bytes_encountered, disk_write_errors, disk_full, scheduled,
                     begun, asked, calls>>
  BY DEF LoopDone, stats, history
<1>2. alerts' \in Nat
  BY <1>1, OthersType DEF ScanInv
<1>3. QED  BY <1>1, <1>2, ReturnStep

LEMMA ScannerReturnsInv == ASSUME ScanInv, ScannerReturns PROVE ScanInv'
<1>1. /\ pc = "scanning" /\ BackInLoop
      /\ UNCHANGED <<thrown, escaped, previously_processed_counter, max_depth_seen, alerts,
                     dup_bytes_encountered, disk_write_errors, disk_full, scheduled,
                     begun, asked, calls>>
  BY DEF ScannerReturns, stats, history
<1>2. thrown' = "none" /\ disk_write_errors' \in Nat /\ alerts' \in Nat
  BY <1>1, OthersType DEF ScanInv
<1>3. QED  BY <1>1, <1>2, BackKeeps

LEMMA RecurseInv == ASSUME ScanInv, NEW c \in Content, Recurse(c) PROVE ScanInv'
<1> DEFINE f == Frame(c, Append(Top.path, Top.scanner))
           g == [Top EXCEPT !.recursions = @ + 1]
           t == Tail(stack)
<1>1. /\ Shape /\ Nested /\ Balanced /\ pc = "scanning" /\ pc' = "entering"
      /\ stack' = <<f, g>> \o t /\ sbufs_in_queue' = sbufs_in_queue + 1
      /\ Top.recursions < MaxRecursions
      /\ UNCHANGED <<thrown, previously_processed_counter, stats, disk_full,
                     scheduled, history>>
  BY DEF ScanInv, Recurse, update_queue_stats
<1>2. /\ stack # <<>> /\ stack \in Seq(StackFrame) /\ Top \in StackFrame /\ Top = stack[1]
      /\ max_depth_seen \in Nat /\ Top.scanner \in Scanner
      /\ sbufs_in_queue \in Nat /\ Len(stack) \in Nat \ {0}
      /\ DOMAIN stack = 1 .. Len(stack) /\ 1 \in DOMAIN stack
  BY <1>1, TopType, Numbers DEF Shape
<1>3a. Len(stack) \in Nat
  BY <1>2
<1>3. /\ f \in StackFrame /\ f.scanner = NoScanner
      /\ Len(f.path) = Len(Top.path) + 1 /\ Len(Top.path) = Len(stack) - 1
  <2>1. Top.path \in Seq(Scanner)
    BY <1>2 DEF StackFrame
  <2>2. /\ Append(Top.path, Top.scanner) \in Seq(Scanner)
        /\ Len(Append(Top.path, Top.scanner)) = Len(Top.path) + 1
    BY <1>2, <2>1, AppendProperties
  <2>3. Len(Top.path) = Len(stack) - 1
    BY <1>1, <1>2 DEF Nested, Depth
  <2>4. f \in StackFrame /\ f.scanner = NoScanner /\ f.path = Append(Top.path, Top.scanner)
    BY <2>2, BoundAssumption DEF Frame, StackFrame
  <2> HIDE DEF f
  <2>5. QED  BY <2>2, <2>3, <2>4
<1>4. g \in StackFrame /\ g.path = Top.path /\ g.scanner = Top.scanner
  <2>1. Top.recursions + 1 \in 0 .. MaxRecursions
    BY <1>1, <1>2, BoundAssumption DEF StackFrame
  <2>2. QED  BY <1>2, <2>1 DEF StackFrame
<1>5. /\ t \in Seq(StackFrame) /\ Len(t) = Len(stack) - 1
      /\ \A i \in 1 .. Len(stack) - 1 : t[i] = stack[i + 1]
  BY <1>2, Popped
<1> HIDE DEF f, g, t
<1>6. /\ stack' \in Seq(StackFrame) /\ stack' # <<>> /\ Top' = f
      /\ Len(stack') = Len(stack) + 1 /\ DOMAIN stack' = 1 .. Len(stack) + 1
      /\ stack'[1] = f /\ stack'[2] = g
      /\ \A i \in 1 .. Len(stack) - 1 : stack'[i + 2] = stack[i + 1]
  <2>1. /\ stack' \in Seq(StackFrame) /\ stack' # <<>> /\ Head(stack') = f
        /\ Len(stack') = Len(t) + 2 /\ DOMAIN stack' = 1 .. Len(t) + 2
        /\ stack'[1] = f /\ stack'[2] = g
        /\ \A i \in 1 .. Len(t) : stack'[i + 2] = t[i]
    BY <1>1, <1>3, <1>4, <1>5, PushedTwo
  <2>2. Top' = f
    BY <2>1 DEF Top
  <2>3. Len(t) + 2 = Len(stack) + 1
    BY <1>2, <1>5
  <2>4. QED  BY <1>5, <2>1, <2>2, <2>3
<1>7. ASSUME NEW i \in DOMAIN stack'
      PROVE  /\ Depth(stack'[i]) = Len(stack') - i
             /\ i > 1 => /\ stack'[i].scanner \in Scanner
                         /\ Depth(stack'[i]) < max_depth
                         /\ Depth(stack'[i]) <= max_depth_seen
  <2>1. i = 1 \/ i = 2 \/ (i > 2 /\ i - 2 \in 1 .. Len(stack) - 1 /\ i - 2 + 2 = i
                           /\ i - 1 \in DOMAIN stack /\ i - 1 > 1 /\ i - 2 + 1 = i - 1)
    BY <1>2, <1>6, <1>7
  <2>2. CASE i = 1
    <3>1. stack'[i] = f
      BY <1>6, <2>2
    <3>2. Depth(stack'[i]) = Len(stack)
      BY <1>3a, <1>3, <3>1 DEF Depth
    <3>3. QED  BY <1>2, <1>6, <2>2, <3>2
  <2>3. CASE i = 2
    <3>1. Depth(stack'[i]) = Depth(stack[1]) /\ stack'[i].scanner = Top.scanner
      BY <1>2, <1>4, <1>6, <2>3 DEF Depth
    <3>2. /\ Depth(stack[1]) = Len(stack) - 1
          /\ Depth(stack[1]) < max_depth /\ Depth(stack[1]) <= max_depth_seen
      BY <1>1, <1>2 DEF Nested
    <3>3. QED  BY <1>2, <1>6, <2>3, <3>1, <3>2
  <2>4. CASE i > 2
    <3>1. stack'[i] = stack[i - 1] /\ i - 1 \in DOMAIN stack /\ i - 1 > 1
      BY <1>6, <2>1, <2>4
    <3>2. /\ Depth(stack[i - 1]) = Len(stack) - (i - 1)
          /\ stack[i - 1].scanner \in Scanner
          /\ Depth(stack[i - 1]) < max_depth /\ Depth(stack[i - 1]) <= max_depth_seen
      BY <1>1, <3>1 DEF Nested
    <3>3. QED  BY <1>2, <1>6, <3>1, <3>2
  <2>5. QED  BY <2>1, <2>2, <2>3, <2>4
<1>8. Nested'
  BY <1>1, <1>7 DEF Nested, Depth, stats, history
<1>9. Balanced' /\ sbufs_in_queue' \in Nat
  <2>1. Held = 2 * Len(stack)
    BY <1>1 DEF Held
  <2>2. Held' = 2 * Len(stack) + 1
    <3>1. Held' = 2 * Len(stack') - 1
      BY <1>1 DEF Held
    <3>2. Len(stack') = Len(stack) + 1
      BY <1>6
    <3>3. QED  BY <1>3a, <3>1, <3>2
  <2>3. /\ sbufs_in_queue' = sbufs_in_queue + 1 /\ sbufs_in_queue \in Nat
        /\ disk_full' = disk_full /\ Balanced
    BY <1>1, <1>2
  <2>4. QED  BY <1>3a, <2>1, <2>2, <2>3 DEF Balanced
<1>10. Shape'
  BY <1>1, <1>3, <1>6, <1>9, OthersType, ShapeAgain DEF stats, history
<1>11. QED  BY <1>8, <1>9, <1>10 DEF ScanInv

LEMMA CheckInv ==
    ASSUME ScanInv, NEW c \in Content, CheckPreviouslyProcessed(c)
    PROVE  ScanInv'
<1> DEFINE f == [Top EXCEPT !.recursions = @ + 1]
<1>1. /\ Shape /\ Nested /\ Balanced /\ pc = "scanning" /\ pc' = "scanning" /\ SetTop(f)
      /\ Top.recursions < MaxRecursions
      /\ previously_processed_counter' = [previously_processed_counter EXCEPT ![c] = @ + 1]
      /\ asked' = asked \cup {c}
      /\ UNCHANGED <<thrown, stats, sbufs_in_queue, disk_full, scheduled,
                     begun, calls, escaped>>
  BY DEF ScanInv, CheckPreviouslyProcessed, Count
<1>2. /\ stack # <<>> /\ Top \in StackFrame /\ max_depth_seen \in Nat
      /\ Top.scanner \in Scanner
  BY <1>1, TopType, Numbers DEF Shape
<1>3. f \in StackFrame /\ f.path = Top.path /\ f.scanner \in Scanner
  <2>1. Top.recursions + 1 \in 0 .. MaxRecursions
    BY <1>1, <1>2, BoundAssumption DEF StackFrame
  <2>2. QED  BY <1>2, <2>1 DEF StackFrame
<1> HIDE DEF f
<1>4. /\ stack' \in Seq(StackFrame) /\ stack' # <<>> /\ Top' = f
      /\ Len(stack') = Len(stack) /\ Nested'
  BY <1>1, <1>2, <1>3, TopSetKeeps DEF Nested, stats
<1>5. Balanced'
  BY <1>1, <1>4 DEF Balanced, Held
<1>6. previously_processed_counter' \in [Content -> Nat]
  BY <1>1, OthersType
<1>7. Shape'
  BY <1>1, <1>3, <1>4, <1>6, OthersType, ShapeAgain DEF stats
<1>8. QED  BY <1>4, <1>5, <1>7 DEF ScanInv

LEMMA ThrowInv ==
    ASSUME ScanInv, NEW e \in {"DiskWriteError", "exception"}, Throw(e)
    PROVE  ScanInv'
<1>1. /\ Shape /\ Nested /\ Balanced /\ pc = "scanning" /\ pc' = "catching" /\ thrown' = e
      /\ UNCHANGED <<stack, previously_processed_counter, stats, sbufs_in_queue,
                     disk_full, scheduled, history>>
  BY DEF ScanInv, Throw
<1>2. stack \in Seq(StackFrame) /\ stack # <<>> /\ Top \in StackFrame /\ Top' = Top
      /\ Top.scanner \in Scanner
  BY <1>1, TopType DEF Top, Shape
<1>3. Shape'
  BY <1>1, <1>2, OthersType, ShapeAgain DEF stats, history
<1>4. Nested'
  BY <1>1 DEF Nested, Depth, stats, history
<1>5. Balanced'
  BY <1>1 DEF Balanced, Held
<1>6. QED  BY <1>3, <1>4, <1>5 DEF ScanInv

LEMMA CatchInv == ASSUME ScanInv, Catch PROVE ScanInv'
<1>1. /\ pc = "catching" /\ Shape
      /\ UNCHANGED <<previously_processed_counter, max_depth_seen,
                     dup_bytes_encountered, disk_full, scheduled, begun, asked, calls>>
  BY DEF Catch, ScanInv
<1>2. disk_write_errors' \in Nat /\ alerts \in Nat
  BY <1>1, OthersType DEF Catch
<1>3. CASE AlertFails
  <2>1. Unwind("DiskWriteError") /\ UNCHANGED alerts /\ ~(AlertRecorder /\ ~disk_full)
    BY <1>3 DEF Catch, AlertFails
  <2>2. QED  BY <1>1, <1>2, <2>1, UnwindStep
<1>4. CASE ~AlertFails
  <2>1. /\ BackInLoop /\ thrown' = "none" /\ UNCHANGED escaped
        /\ alerts' = alerts + IF AlertRecorder THEN 1 ELSE 0
    BY <1>4 DEF Catch
  <2>2. alerts' \in Nat
    BY <1>2, <2>1
  <2>3. QED  BY <1>1, <1>2, <2>1, <2>2, BackKeeps
<1>5. QED  BY <1>3, <1>4

LEMMA DiskFillsInv == ASSUME ScanInv, DiskFills PROVE ScanInv'
<1>1. /\ Shape /\ Nested /\ Balanced /\ disk_full' = TRUE
      /\ UNCHANGED <<stack, pc, thrown, previously_processed_counter, stats,
                     sbufs_in_queue, scheduled, history>>
  BY DEF ScanInv, DiskFills
<1>2. disk_full' \in BOOLEAN
  BY <1>1, Zenon
<1>3. /\ UNCHANGED <<stack, pc, thrown, escaped, previously_processed_counter, max_depth_seen,
                     dup_bytes_encountered, disk_write_errors, alerts, sbufs_in_queue,
                     scheduled, begun, asked, calls>>
      /\ Top' = Top
  BY <1>1 DEF stats, history, Top
<1>4. Shape'
  BY <1>1, <1>2, <1>3 DEF Shape
<1>5. Nested'
  BY <1>1, <1>3 DEF Nested, Depth
<1>6. Balanced'
  <2>1. Held' = Held
    BY <1>3 DEF Held
  <2>2. QED  BY <1>1, <1>3, <2>1 DEF Balanced
<1>7. QED  BY <1>4, <1>5, <1>6 DEF ScanInv

LEMMA SameInv == ASSUME ScanInv, UNCHANGED vars PROVE ScanInv'
BY DEF vars, stats, history, ScanInv, Shape, Nested, Depth, Balanced, Held, Top

LEMMA ScanInvStep == ScanInv /\ [Next]_vars => ScanInv'
<1> SUFFICES ASSUME ScanInv, [Next]_vars PROVE ScanInv'
  OBVIOUS
<1>1. ASSUME Step PROVE ScanInv'
  BY <1>1, ReturnEmptyInv, RefuseDeepInv, BeginInv, SkipScannerInv, CallScannerInv,
     LoopDoneInv, ScannerReturnsInv, CatchInv DEF Step
<1>2. ASSUME NEW c \in Content, Schedule(c) \/ Recurse(c) \/ CheckPreviouslyProcessed(c)
      PROVE  ScanInv'
  BY <1>2, ScheduleInv, RecurseInv, CheckInv
<1>3. ASSUME WriteFails \/ ScannerThrows PROVE ScanInv'
  BY <1>3, ThrowInv DEF WriteFails, ScannerThrows
<1>4. QED  BY <1>1, <1>2, <1>3, DiskFillsInv, SameInv DEF Next, Done

-----------------------------------------------------------------------------
(* The call stack is never deeper than the depth limit allows, on whatever *)
(* path the scanners recurse, and every variable keeps its type.           *)
THEOREM DepthLimited == Spec => []TypeOK
<1>1. ScanInv => TypeOK
  <2> SUFFICES ASSUME ScanInv PROVE TypeOK
    OBVIOUS
  <2>1. Shape /\ Nested
    BY DEF ScanInv
  <2>2. stack \in Seq(StackFrame) /\ Len(stack) \in Nat /\ DOMAIN stack = 1 .. Len(stack)
    <3>1. stack \in Seq(StackFrame)
      BY <2>1 DEF Shape, StackFrame
    <3>2. QED  BY <3>1, LenProperties
  <2>3. Len(stack) <= max_depth + 1
    <3>1. CASE Len(stack) <= 1
      BY <2>2, <3>1, BoundAssumption
    <3>2. CASE Len(stack) >= 2
      <4>1. 2 \in DOMAIN stack
        BY <2>2, <3>2
      <4>2. Depth(stack[2]) = Len(stack) - 2 /\ Depth(stack[2]) < max_depth
        BY <2>1, <4>1 DEF Nested
      <4>3. QED  BY <2>2, <4>2, BoundAssumption
    <3>3. QED  BY <2>2, <3>1, <3>2
  <2>4. ASSUME NEW i \in DOMAIN stack, stack[i].scanner # NoScanner
        PROVE  Depth(stack[i]) <= max_depth_seen
    <3>1. i > 1 \/ pc # "entering"
      <4>1. CASE pc = "entering"
        <5>1. stack[1].scanner = NoScanner
          BY <2>1, <4>1, TopType DEF Shape
        <5>2. QED  BY <2>2, <2>4, <5>1
      <4>2. QED  BY <4>1
    <3>2. QED  BY <2>1, <2>4, <3>1 DEF Nested
  <2>5. begun # {} => max_depth_seen < max_depth
    BY <2>1 DEF Nested
  <2>6. QED  BY <2>1, <2>3, <2>4, <2>5 DEF TypeOK, DepthBound
<1>2. QED  BY <1>1, ScanInvInit, ScanInvStep, PTL DEF Spec

(* Whatever a scanner throws, on whatever stack of calls, the references   *)
(* are all given back, as long as the alert recorder does not throw.       *)
THEOREM AllReleased == Spec => []NothingKept
<1>1. ScanInv => NothingKept
  <2> SUFFICES ASSUME ScanInv, pc = "idle", AlertRecorder, ~disk_full
               PROVE  sbufs_in_queue = 0
    BY DEF NothingKept
  <2>1. stack = <<>>
    BY DEF ScanInv, Shape
  <2>2. Held = 0
    BY <2>1, EmptySeq DEF Held
  <2>3. QED  BY <2>2 DEF ScanInv, Balanced
<1>2. QED  BY <1>1, ScanInvInit, ScanInvStep, PTL DEF Spec

-----------------------------------------------------------------------------
(* The call that met a buffer first still has to give it to the scanner.   *)
Due(i, c, sc) ==
    /\ stack[i].content = c
    /\ ~stack[i].seen_before
    /\ sc \in stack[i].todo

(* There is at most one such call, only where the buffer was counted, and  *)
(* only before the scanner had the buffer.                                 *)
OnceFor(c, sc) ==
    /\ \A i, j \in DOMAIN stack : Due(i, c, sc) /\ Due(j, c, sc) => i = j
    /\ \A i \in DOMAIN stack : Due(i, c, sc) =>
          calls[c][sc] = 0 /\ previously_processed_counter[c] > 0
    /\ previously_processed_counter[c] = 0 => calls[c][sc] = 0
    /\ calls[c][sc] <= 1

OnceInv == \A c \in Content, sc \in Scanner \ scan_seen_before : OnceFor(c, sc)

(* A step after which nothing is due that was not before.                  *)
LEMMA NothingNewDue ==
    ASSUME ScanInv, ScanInv', NEW c \in Content, NEW sc \in Scanner, OnceFor(c, sc),
           NEW d \in {-1, 0, 1},
           \A i \in DOMAIN stack' :
               Due(i, c, sc)' => i + d \in DOMAIN stack /\ Due(i + d, c, sc),
           calls'[c][sc] = calls[c][sc],
           previously_processed_counter'[c] >= previously_processed_counter[c]
    PROVE  OnceFor(c, sc)'
<1>1. /\ previously_processed_counter[c] \in Nat /\ previously_processed_counter'[c] \in Nat
      /\ calls[c][sc] \in Nat
  BY OthersType DEF ScanInv, Shape
<1>2. \A i \in DOMAIN stack' : i \in Int
  <2>1. stack' \in Seq(StackFrame)
    BY DEF ScanInv, Shape, StackFrame
  <2>2. QED  BY <2>1, LenProperties
<1>3. ASSUME NEW i \in DOMAIN stack', NEW j \in DOMAIN stack',
             Due(i, c, sc)', Due(j, c, sc)'
      PROVE  i = j
  <2>1. i + d = j + d
    BY <1>3 DEF OnceFor
  <2>2. QED  BY <1>2, <2>1
<1>4. ASSUME NEW i \in DOMAIN stack', Due(i, c, sc)'
      PROVE  calls'[c][sc] = 0 /\ previously_processed_counter'[c] > 0
  BY <1>1, <1>4 DEF OnceFor
<1>5. (previously_processed_counter'[c] = 0 => calls'[c][sc] = 0) /\ calls'[c][sc] <= 1
  BY <1>1 DEF OnceFor
<1>6. QED  BY <1>3, <1>4, <1>5 DEF OnceFor

(* A call that returns or that an exception leaves.                        *)
LEMMA GoneOnce ==
    ASSUME ScanInv, ScanInv', OnceInv, pc # "idle", stack' = Tail(stack),
           UNCHANGED <<calls, previously_processed_counter>>,
           NEW c \in Content, NEW sc \in Scanner \ scan_seen_before
    PROVE  OnceFor(c, sc)'
<1>1. \A i \in DOMAIN stack' : Due(i, c, sc)' => i + 1 \in DOMAIN stack /\ Due(i + 1, c, sc)
  BY TopGone DEF Due, ScanInv
<1>2. previously_processed_counter[c] \in Nat
  BY OthersType DEF ScanInv
<1>3. OnceFor(c, sc) /\ previously_processed_counter'[c] >= previously_processed_counter[c]
      /\ calls'[c][sc] = calls[c][sc]
  BY <1>2 DEF OnceInv
<1>4. QED  BY <1>1, <1>3, NothingNewDue

(* The innermost call changes, and has no more to do than before.          *)
LEMMA SetOnce ==
    ASSUME ScanInv, ScanInv', OnceInv, pc # "idle", NEW f \in StackFrame, SetTop(f),
           NEW c \in Content, NEW sc \in Scanner \ scan_seen_before,
           f.content = c /\ ~f.seen_before /\ sc \in f.todo => Due(1, c, sc),
           calls'[c][sc] = calls[c][sc],
           previously_processed_counter'[c] >= previously_processed_counter[c]
    PROVE  OnceFor(c, sc)'
<1>1. /\ stack'[1] = f /\ DOMAIN stack' = DOMAIN stack
      /\ \A i \in DOMAIN stack : i > 1 => stack'[i] = stack[i]
      /\ DOMAIN stack = 1 .. Len(stack)
  BY TopSet, TopType DEF ScanInv
<1>2. ASSUME NEW i \in DOMAIN stack', Due(i, c, sc)'
      PROVE  i + 0 \in DOMAIN stack /\ Due(i + 0, c, sc)
  <2>1. i + 0 = i /\ (i = 1 \/ i > 1)
    BY <1>1
  <2>2. CASE i = 1
    BY <1>1, <1>2, <2>1, <2>2 DEF Due
  <2>3. CASE i > 1
    BY <1>1, <1>2, <2>1, <2>3 DEF Due
  <2>4. QED  BY <2>1, <2>2, <2>3
<1>3. OnceFor(c, sc)
  BY DEF OnceInv
<1>4. QED  BY <1>2, <1>3, NothingNewDue

LEMMA ScheduleOnce ==
    ASSUME ScanInv, ScanInv', OnceInv, NEW c0 \in Content, Schedule(c0),
           NEW c \in Content, NEW sc \in Scanner \ scan_seen_before
    PROVE  OnceFor(c, sc)'
<1> DEFINE f == Frame(c0, <<>>)
<1>1. /\ Shape /\ stack = <<>> /\ stack' = <<f>> \o stack
      /\ UNCHANGED <<calls, previously_processed_counter>>
  BY DEF ScanInv, Shape, Schedule, Call, stats, history
<1>2. f \in StackFrame /\ f.todo = {}
  <2>1. <<>> \in Seq(Scanner)
    BY EmptySeq
  <2>2. QED  BY <2>1, BoundAssumption DEF Frame, StackFrame
<1> HIDE DEF f
<1>3. stack'[1] = f /\ DOMAIN stack' = 1 .. 0 + 1
  <2>1. stack \in Seq(StackFrame) /\ Len(stack) = 0
    BY <1>1, EmptySeq
  <2>2. QED  BY <1>1, <1>2, <2>1, Pushed
<1>4. \A i \in DOMAIN stack' : ~Due(i, c, sc)'
  BY <1>2, <1>3 DEF Due
<1>5. OnceFor(c, sc) /\ previously_processed_counter[c] \in Nat
  BY <1>1, OthersType DEF OnceInv
<1>6. \A i \in DOMAIN stack' :
          Due(i, c, sc)' => i + 0 \in DOMAIN stack /\ Due(i + 0, c, sc)
  BY <1>4
<1>7. QED  BY <1>1, <1>5, <1>6, NothingNewDue

(* A buffer that was not counted yet is due, and nowhere else; one that    *)
(* was is not.                                                             *)
LEMMA BeginOnce ==
    ASSUME ScanInv, ScanInv', OnceInv, Begin,
           NEW c \in Content, NEW sc \in Scanner \ scan_seen_before
    PROVE  OnceFor(c, sc)'
<1> DEFINE f == Begun
<1>1. /\ Shape /\ pc # "idle" /\ SetTop(f)
      /\ previously_processed_counter' =
             [previously_processed_counter EXCEPT ![Top.content] = @ + 1]
      /\ UNCHANGED calls
      /\ previously_processed_counter \in [Content -> Nat]
  BY OthersType DEF ScanInv, Begin, Count, Begun
<1>2. Top \in StackFrame /\ Top.content \in Content
  BY <1>1, TopType DEF StackFrame
<1>3. /\ f \in StackFrame /\ f.content = Top.content
      /\ f.seen_before <=> previously_processed_counter[Top.content] > 0
  BY <1>1, BeginFrame DEF SeenBefore
<1> HIDE DEF f
<1>4. /\ stack'[1] = f /\ DOMAIN stack' = DOMAIN stack
      /\ \A i \in DOMAIN stack : i > 1 => stack'[i] = stack[i]
      /\ DOMAIN stack = 1 .. Len(stack)
  BY <1>1, <1>3, TopSet, TopType
<1>5. OnceFor(c, sc)
  BY DEF OnceInv
<1>6. CASE c # Top.content \/ previously_processed_counter[c] > 0
  <2>1. ~(f.content = c /\ ~f.seen_before)
    BY <1>3, <1>6
  <2>2. previously_processed_counter'[c] >= previously_processed_counter[c]
    BY <1>1, <1>2
  <2>3. calls'[c][sc] = calls[c][sc]
    BY <1>1
  <2>4. QED  BY <1>1, <1>3, <2>1, <2>2, <2>3, SetOnce
<1>7. CASE c = Top.content /\ previously_processed_counter[c] = 0
  <2>1. \A i \in DOMAIN stack' : i > 1 => ~Due(i, c, sc)'
    <3>1. \A i \in DOMAIN stack : ~Due(i, c, sc)
      BY <1>5, <1>7 DEF OnceFor
    <3>2. QED  BY <1>4, <3>1 DEF Due
  <2>2. calls'[c][sc] = 0 /\ previously_processed_counter'[c] = 1
    BY <1>1, <1>2, <1>5, <1>7 DEF OnceFor
  <2>3. \A i \in DOMAIN stack' : i = 1 \/ i > 1
    BY <1>4
  <2>4. QED  BY <2>1, <2>2, <2>3 DEF OnceFor
<1>8. QED  BY <1>1, <1>6, <1>7

(* The scanner gets the buffer, and it is no longer due.                   *)
LEMMA CallScannerOnce ==
    ASSUME ScanInv, ScanInv', OnceInv, NEW s \in Scanner, CallScanner(s),
           NEW c \in Content, NEW sc \in Scanner \ scan_seen_before
    PROVE  OnceFor(c, sc)'
<1> DEFINE f == [Top EXCEPT !.todo = @ \ {s}, !.scanner = s, !.recursions = 0]
<1>1. /\ Shape /\ pc # "idle" /\ SetTop(f) /\ s \in Top.todo
      /\ Top.seen_before => s \in scan_seen_before
      /\ calls' = [calls EXCEPT ![Top.content][s] = @ + 1]
      /\ UNCHANGED previously_processed_counter
      /\ previously_processed_counter \in [Content -> Nat]
      /\ calls \in [Content -> [Scanner -> Nat]]
  BY OthersType DEF ScanInv, CallScanner, MayRun
<1>2. Top \in StackFrame /\ Top.content \in Content /\ Top = stack[1] /\ 1 \in DOMAIN stack
  BY <1>1, TopType DEF StackFrame
<1>3. /\ f \in StackFrame /\ f.content = Top.content /\ f.seen_before = Top.seen_before
      /\ f.todo = Top.todo \ {s}
  <2>1. 0 \in 0 .. MaxRecursions
    BY BoundAssumption
  <2>2. QED  BY <1>2, <2>1 DEF StackFrame
<1> HIDE DEF f
<1>4. /\ stack'[1] = f /\ DOMAIN stack' = DOMAIN stack
      /\ \A i \in DOMAIN stack : i > 1 => stack'[i] = stack[i]
      /\ DOMAIN stack = 1 .. Len(stack)
  BY <1>1, <1>3, TopSet, TopType
<1>5. OnceFor(c, sc)
  BY DEF OnceInv
<1>6. CASE c # Top.content \/ sc # s
  <2>1. f.content = c /\ ~f.seen_before /\ sc \in f.todo => Due(1, c, sc)
    BY <1>2, <1>3 DEF Due
  <2>2. previously_processed_counter'[c] >= previously_processed_counter[c]
    BY <1>1
  <2>3. calls'[c][sc] = calls[c][sc]
    BY <1>1, <1>2, <1>6
  <2>4. QED  BY <1>1, <1>3, <2>1, <2>2, <2>3, SetOnce
<1>7. CASE c = Top.content /\ sc = s
  <2>1. Due(1, c, sc)
    BY <1>1, <1>2, <1>7 DEF Due
  <2>2. /\ calls[c][sc] = 0 /\ previously_processed_counter[c] > 0
        /\ \A i \in DOMAIN stack : Due(i, c, sc) => i = 1
    BY <1>2, <1>5, <2>1 DEF OnceFor
  <2>3. \A i \in DOMAIN stack' : ~Due(i, c, sc)'
    <3>1. ~Due(1, c, sc)'
      BY <1>3, <1>4, <1>7 DEF Due
    <3>2. ASSUME NEW i \in DOMAIN stack, i > 1 PROVE ~Due(i, c, sc)'
      <4>1. ~Due(i, c, sc)
        BY <1>4, <2>2, <3>2
      <4>2. QED  BY <1>4, <3>2, <4>1 DEF Due
    <3>3. \A i \in DOMAIN stack' : i = 1 \/ i > 1
      BY <1>4
    <3>4. QED  BY <1>4, <3>1, <3>2, <3>3
  <2>4. calls'[c][sc] = 1 /\ previously_processed_counter'[c] > 0
    BY <1>1, <1>2, <1>7, <2>2
  <2>5. QED  BY <2>3, <2>4 DEF OnceFor
<1>8. QED  BY <1>6, <1>7

(* The new call has nothing to give to scanners before it is counted.      *)
LEMMA RecurseOnce ==
    ASSUME ScanInv, ScanInv', OnceInv, NEW c0 \in Content, Recurse(c0),
           NEW c \in Content, NEW sc \in Scanner \ scan_seen_before
    PROVE  OnceFor(c, sc)'
<1> DEFINE f == Frame(c0, Append(Top.path, Top.scanner))
           g == [Top EXCEPT !.recursions = @ + 1]
           t == Tail(stack)
<1>1. /\ Shape /\ pc = "scanning" /\ stack' = <<f, g>> \o t
      /\ Top.recursions < MaxRecursions
      /\ UNCHANGED <<calls, previously_processed_counter>>
  BY DEF ScanInv, Recurse, stats, history
<1>2. /\ stack # <<>> /\ stack \in Seq(StackFrame) /\ Top \in StackFrame /\ Top = stack[1]
      /\ Top.scanner \in Scanner
      /\ Len(stack) \in Nat \ {0} /\ DOMAIN stack = 1 .. Len(stack)
  BY <1>1, TopType DEF Shape
<1>3. f \in StackFrame /\ f.todo = {}
  <2>1. Top.path \in Seq(Scanner)
    BY <1>2 DEF StackFrame
  <2>2. Append(Top.path, Top.scanner) \in Seq(Scanner)
    BY <1>2, <2>1, AppendProperties
  <2>3. QED  BY <2>2, BoundAssumption DEF Frame, StackFrame
<1>4. /\ g \in StackFrame /\ g.content = Top.content /\ g.seen_before = Top.seen_before
      /\ g.todo = Top.todo
  <2>1. Top.recursions + 1 \in 0 .. MaxRecursions
    BY <1>1, <1>2, BoundAssumption DEF StackFrame
  <2>2. QED  BY <1>2, <2>1 DEF StackFrame
<1>5. /\ t \in Seq(StackFrame) /\ Len(t) = Len(stack) - 1
      /\ \A i \in 1 .. Len(stack) - 1 : t[i] = stack[i + 1]
  BY <1>2, Popped
<1> HIDE DEF f, g, t
<1>6. /\ DOMAIN stack' = 1 .. Len(t) + 2
      /\ stack'[1] = f /\ stack'[2] = g
      /\ \A i \in 1 .. Len(t) : stack'[i + 2] = t[i]
  BY <1>1, <1>3, <1>4, <1>5, PushedTwo
<1>7. ASSUME NEW i \in DOMAIN stack', Due(i, c, sc)'
      PROVE  i + (-1) \in DOMAIN stack /\ Due(i + (-1), c, sc)
  <2>1. i \in Int /\ i + (-1) = i - 1 /\ Len(stack) \in Nat
        /\ (i = 1 \/ i = 2 \/ i > 2)
    BY <1>2, <1>5, <1>6
  <2>2. CASE i = 1
    BY <1>3, <1>6, <1>7, <2>2 DEF Due
  <2>3. CASE i = 2
    BY <1>2, <1>4, <1>6, <1>7, <2>1, <2>3 DEF Due
  <2>4. CASE i > 2
    <3>1. i - 2 \in 1 .. Len(t) /\ i - 2 + 2 = i /\ i - 2 + 1 = i - 1
          /\ i - 2 \in 1 .. Len(stack) - 1 /\ i - 1 \in DOMAIN stack
      BY <1>2, <1>5, <1>6, <2>1, <2>4
    <3>2. stack'[i] = stack[i - 1]
      BY <1>5, <1>6, <3>1
    <3>3. QED  BY <1>7, <2>1, <3>1, <3>2 DEF Due
  <2>5. QED  BY <2>1, <2>2, <2>3, <2>4
<1>8. OnceFor(c, sc) /\ calls'[c][sc] = calls[c][sc]
      /\ previously_processed_counter'[c] >= previously_processed_counter[c]
  <2>1. previously_processed_counter[c] \in Nat
    BY <1>1, OthersType
  <2>2. QED  BY <1>1, <2>1 DEF OnceInv
<1>9. QED  BY <1>7, <1>8, NothingNewDue

LEMMA SkipScannerOnce ==
    ASSUME ScanInv, ScanInv', OnceInv, NEW s \in Scanner, SkipScanner(s),
           NEW c \in Content, NEW sc \in Scanner \ scan_seen_before
    PROVE  OnceFor(c, sc)'
<1> DEFINE f == [Top EXCEPT !.todo = @ \ {s}]
<1>1. /\ Shape /\ pc # "idle" /\ SetTop(f)
      /\ UNCHANGED <<calls, previously_processed_counter>>
  BY DEF ScanInv, SkipScanner, history
<1>2. Top \in StackFrame /\ Top = stack[1] /\ previously_processed_counter[c] \in Nat
  BY <1>1, TopType, OthersType
<1>3. /\ f \in StackFrame /\ f.content = Top.content /\ f.seen_before = Top.seen_before
      /\ f.todo = Top.todo \ {s}
  BY <1>2 DEF StackFrame
<1> HIDE DEF f
<1>4. f.content = c /\ ~f.seen_before /\ sc \in f.todo => Due(1, c, sc)
  BY <1>2, <1>3 DEF Due
<1>5. calls'[c][sc] = calls[c][sc]
      /\ previously_processed_counter'[c] >= previously_processed_counter[c]
  BY <1>1, <1>2
<1>6. QED  BY <1>1, <1>3, <1>4, <1>5, SetOnce

LEMMA BackOnce ==
    ASSUME ScanInv, ScanInv', OnceInv, pc # "idle", BackInLoop,
           UNCHANGED <<calls, previously_processed_counter>>,
           NEW c \in Content, NEW sc \in Scanner \ scan_seen_before
    PROVE  OnceFor(c, sc)'
<1> DEFINE f == [Top EXCEPT !.scanner = NoScanner]
<1>1. Shape /\ SetTop(f)
  BY DEF ScanInv, BackInLoop
<1>2. Top \in StackFrame /\ Top = stack[1] /\ previously_processed_counter[c] \in Nat
  BY <1>1, TopType, OthersType
<1>3. /\ f \in StackFrame /\ f.content = Top.content /\ f.seen_before = Top.seen_before
      /\ f.todo = Top.todo
  BY <1>2 DEF StackFrame
<1> HIDE DEF f
<1>4. f.content = c /\ ~f.seen_before /\ sc \in f.todo => Due(1, c, sc)
  BY <1>2, <1>3 DEF Due
<1>5. calls'[c][sc] = calls[c][sc]
      /\ previously_processed_counter'[c] >= previously_processed_counter[c]
  BY <1>1, <1>2
<1>6. QED  BY <1>1, <1>3, <1>4, <1>5, SetOnce

LEMMA CheckOnce ==
    ASSUME ScanInv, ScanInv', OnceInv, NEW c0 \in Content, CheckPreviouslyProcessed(c0),
           NEW c \in Content, NEW sc \in Scanner \ scan_seen_before
    PROVE  OnceFor(c, sc)'
<1> DEFINE f == [Top EXCEPT !.recursions = @ + 1]
<1>1. /\ Shape /\ pc # "idle" /\ SetTop(f) /\ Top.recursions < MaxRecursions
      /\ previously_processed_counter' = [previously_processed_counter EXCEPT ![c0] = @ + 1]
      /\ UNCHANGED calls
  BY DEF ScanInv, CheckPreviouslyProcessed, Count
<1>2. /\ Top \in StackFrame /\ Top = stack[1]
      /\ previously_processed_counter \in [Content -> Nat]
  BY <1>1, TopType, OthersType
<1>3. /\ f \in StackFrame /\ f.content = Top.content /\ f.seen_before = Top.seen_before
      /\ f.todo = Top.todo
  <2>1. Top.recursions + 1 \in 0 .. MaxRecursions
    BY <1>1, <1>2, BoundAssumption DEF StackFrame
  <2>2. QED  BY <1>2, <2>1 DEF StackFrame
<1> HIDE DEF f
<1>4. f.content = c /\ ~f.seen_before /\ sc \in f.todo => Due(1, c, sc)
  BY <1>2, <1>3 DEF Due
<1>5. calls'[c][sc] = calls[c][sc]
      /\ previously_processed_counter'[c] >= previously_processed_counter[c]
  BY <1>1, <1>2
<1>6. QED  BY <1>1, <1>3, <1>4, <1>5, SetOnce

LEMMA SameOnce ==
    ASSUME OnceInv, UNCHANGED <<stack, calls, previously_processed_counter>>,
           NEW c \in Content, NEW sc \in Scanner \ scan_seen_before
    PROVE  OnceFor(c, sc)'
BY DEF OnceInv, OnceFor, Due

LEMMA OnceInvInit == Init => OnceInv
<1> SUFFICES ASSUME Init, NEW c \in Content, NEW sc \in Scanner PROVE OnceFor(c, sc)
  BY DEF OnceInv
<1>1. DOMAIN stack = {}
  BY DEF Init
<1>2. calls[c][sc] = 0
  BY DEF Init
<1>3. QED  BY <1>1, <1>2 DEF OnceFor

LEMMA OnceInvStep == ScanInv /\ OnceInv /\ [Next]_vars => OnceInv'
<1> SUFFICES ASSUME ScanInv, OnceInv, [Next]_vars,
                    NEW c \in Content, NEW sc \in Scanner \ scan_seen_before
             PROVE  OnceFor(c, sc)'
  BY DEF OnceInv
<1>1. ScanInv'
  BY ScanInvStep
<1>2. ASSUME ReturnEmpty \/ LoopDone PROVE OnceFor(c, sc)'
  <2>1. pc # "idle" /\ stack' = Tail(stack)
        /\ UNCHANGED <<calls, previously_processed_counter>>
    BY <1>2 DEF ReturnEmpty, LoopDone, Return, history
  <2>2. QED  BY <1>1, <2>1, GoneOnce
<1>3. ASSUME RefuseDeep PROVE OnceFor(c, sc)'
  <2>1. pc # "idle" /\ stack' = Tail(stack)
        /\ UNCHANGED <<calls, previously_processed_counter>>
    BY <1>3 DEF RefuseDeep, Return, Unwind
  <2>2. QED  BY <1>1, <2>1, GoneOnce
<1>4. ASSUME ScannerReturns PROVE OnceFor(c, sc)'
  <2>1. pc # "idle" /\ BackInLoop /\ UNCHANGED <<calls, previously_processed_counter>>
    BY <1>4 DEF ScannerReturns, history
  <2>2. QED  BY <1>1, <2>1, BackOnce
<1>5. ASSUME Catch PROVE OnceFor(c, sc)'
  <2>1. pc # "idle" /\ UNCHANGED <<calls, previously_processed_counter>>
    BY <1>5 DEF Catch
  <2>2. CASE AlertFails
    <3>1. stack' = Tail(stack)
      BY <1>5, <2>2 DEF Catch, Unwind
    <3>2. QED  BY <1>1, <2>1, <3>1, GoneOnce
  <2>3. CASE ~AlertFails
    <3>1. BackInLoop
      BY <1>5, <2>3 DEF Catch
    <3>2. QED  BY <1>1, <2>1, <3>1, BackOnce
  <2>4. QED  BY <2>2, <2>3
<1>6. ASSUME Step PROVE OnceFor(c, sc)'
  BY <1>1, <1>2, <1>3, <1>4, <1>5, <1>6, BeginOnce, SkipScannerOnce, CallScannerOnce DEF Step
<1>7. ASSUME NEW c0 \in Content, Schedule(c0) \/ Recurse(c0) \/ CheckPreviouslyProcessed(c0)
      PROVE  OnceFor(c, sc)'
  BY <1>1, <1>7, ScheduleOnce, RecurseOnce, CheckOnce
<1>8. ASSUME WriteFails \/ ScannerThrows \/ DiskFills \/ Done \/ UNCHANGED vars
      PROVE  OnceFor(c, sc)'
  <2>1. UNCHANGED <<stack, calls, previously_processed_counter>>
    BY <1>8 DEF WriteFails, ScannerThrows, Throw, DiskFills, Done, vars, history
  <2>2. QED  BY <2>1, SameOnce
<1>9. QED  BY <1>6, <1>7, <1>8 DEF Next

(* A scanner that does not ask for duplicates gets no bytes twice, however *)
(* the scanners recurse into each other's output and their own.            *)
THEOREM SameBytesOnce == Spec => []ScansOnce
<1>1. ScanInv /\ OnceInv => ScansOnce
  BY DEF OnceInv, OnceFor, ScansOnce
<1>2. Init => ScanInv /\ OnceInv
  BY ScanInvInit, OnceInvInit
<1>3. ScanInv /\ OnceInv /\ [Next]_vars => (ScanInv /\ OnceInv)'
  BY ScanInvStep, OnceInvStep
<1>4. QED  BY <1>1, <1>2, <1>3, PTL DEF Spec

-----------------------------------------------------------------------------
(* An exception of the alert recorder is on its way out, or has been.      *)
Lost == escaped > 0 \/ (pc = "catching" /\ AlertFails)

(* Nothing is lost: a scanner was called on a buffer, or a call on the     *)
(* stack still has to do it.                                               *)
Served(c, sc) == calls[c][sc] >= 1 \/ Lost \/ \E i \in DOMAIN stack : Due(i, c, sc)
ServedInv == \A c \in begun \ asked : \A sc \in Suits[c] \cap ContextFree : Served(c, sc)

(* A call has no scanner to call before it is counted; and what is counted *)
(* was processed or asked about.                                           *)
Fresh == pc = "entering" => Top.todo = {}
Counted ==
    \A c \in Content :
        /\ previously_processed_counter[c] > 0 => c \in begun \cup asked
        /\ c \in begun => previously_processed_counter[c] > 0

SeenInv == Fresh /\ Counted /\ ServedInv /\ DupsExact

(* A step after which all is due that was before.                          *)
LEMMA StillServed ==
    ASSUME ScanInv, ScanInv', NEW c \in Content, NEW sc \in Scanner, Served(c, sc),
           NEW d \in {-1, 0, 1},
           \A i \in DOMAIN stack :
               Due(i, c, sc) => i + d \in DOMAIN stack' /\ Due(i + d, c, sc)',
           calls'[c][sc] >= calls[c][sc],
           Lost => Lost'
    PROVE  Served(c, sc)'
<1>1. calls[c][sc] \in Nat /\ calls'[c][sc] \in Nat
  BY OthersType DEF ScanInv, Shape
<1>2. CASE calls[c][sc] >= 1
  BY <1>1, <1>2 DEF Served
<1>3. CASE Lost
  BY <1>3 DEF Served
<1>4. CASE \E i \in DOMAIN stack : Due(i, c, sc)
  <2>1. PICK i \in DOMAIN stack : Due(i, c, sc)
    BY <1>4
  <2>2. i + d \in DOMAIN stack' /\ Due(i + d, c, sc)'
    BY <2>1
  <2> DEFINE j == i + d
  <2>3. j \in DOMAIN stack' /\ Due(j, c, sc)'
    BY <2>2
  <2> HIDE DEF j
  <2>4. QED  BY <2>3 DEF Served
<1>5. QED  BY <1>2, <1>3, <1>4 DEF Served

(* A call that has nothing more to do returns, or an exception leaves it.  *)
LEMMA GoneServed ==
    ASSUME ScanInv, ScanInv', pc # "idle", stack' = Tail(stack), Top.todo = {},
           UNCHANGED calls, Lost => Lost',
           NEW c \in Content, NEW sc \in Scanner, Served(c, sc)
    PROVE  Served(c, sc)'
<1>1. /\ DOMAIN stack' = 1 .. Len(stack) - 1 /\ Len(stack) \in Nat
      /\ DOMAIN stack = 1 .. Len(stack) /\ Top = stack[1]
      /\ \A i \in DOMAIN stack' : stack'[i] = stack[i + 1]
  BY TopGone, TopType DEF ScanInv
<1>2. ASSUME NEW i \in DOMAIN stack, Due(i, c, sc)
      PROVE  i + (-1) \in DOMAIN stack' /\ Due(i + (-1), c, sc)'
  <2>1. i # 1
    BY <1>1, <1>2 DEF Due
  <2>2. i + (-1) \in DOMAIN stack' /\ i + (-1) + 1 = i
    BY <1>1, <2>1
  <2>3. stack'[i + (-1)] = stack[i]
    BY <1>1, <2>2
  <2>4. QED  BY <1>2, <2>2, <2>3 DEF Due
<1>3. calls'[c][sc] >= calls[c][sc]
  BY OthersType DEF ScanInv
<1>4. QED  BY <1>2, <1>3, StillServed

(* The innermost call changes, and what it had to do it still has to do.   *)
LEMMA SetServed ==
    ASSUME ScanInv, ScanInv', pc # "idle", NEW f \in StackFrame, SetTop(f),
           NEW c \in Content, NEW sc \in Scanner, Served(c, sc),
           Due(1, c, sc) => f.content = c /\ ~f.seen_before /\ sc \in f.todo,
           calls'[c][sc] >= calls[c][sc], Lost => Lost'
    PROVE  Served(c, sc)'
<1>1. /\ stack'[1] = f /\ DOMAIN stack' = DOMAIN stack
      /\ \A i \in DOMAIN stack : i > 1 => stack'[i] = stack[i]
      /\ DOMAIN stack = 1 .. Len(stack)
  BY TopSet, TopType DEF ScanInv
<1>2. ASSUME NEW i \in DOMAIN stack, Due(i, c, sc)
      PROVE  i + 0 \in DOMAIN stack' /\ Due(i + 0, c, sc)'
  <2>1. i + 0 = i /\ (i = 1 \/ i > 1)
    BY <1>1
  <2>2. CASE i = 1
    BY <1>1, <1>2, <2>1, <2>2 DEF Due
  <2>3. CASE i > 1
    BY <1>1, <1>2, <2>1, <2>3 DEF Due
  <2>4. QED  BY <2>1, <2>2, <2>3
<1>3. QED  BY <1>2, StillServed

(* A scanner that looks at the bytes only is not skipped on a first sight. *)
LEMMA SkipScannerServed ==
    ASSUME ScanInv, ScanInv', NEW s \in Scanner, SkipScanner(s),
           NEW c \in Content, NEW sc \in Suits[c] \cap ContextFree, Served(c, sc)
    PROVE  Served(c, sc)'
<1> DEFINE f == [Top EXCEPT !.todo = @ \ {s}]
<1>1. /\ Shape /\ pc # "idle" /\ SetTop(f) /\ ~MayRun(Top, s)
      /\ UNCHANGED <<calls, pc, escaped>> /\ disk_full' = disk_full
  BY DEF ScanInv, SkipScanner, history
<1>2. Top \in StackFrame /\ Top = stack[1] /\ sc \in Scanner
  BY <1>1, TopType DEF ContextFree
<1>3. /\ f \in StackFrame /\ f.content = Top.content /\ f.seen_before = Top.seen_before
      /\ f.todo = Top.todo \ {s}
  BY <1>2 DEF StackFrame
<1> HIDE DEF f
<1>4. ASSUME Due(1, c, sc) PROVE f.content = c /\ ~f.seen_before /\ sc \in f.todo
  <2>1. /\ Top.content = c /\ ~Top.seen_before /\ sc \in Top.todo
    BY <1>2, <1>4 DEF Due
  <2>2. MayRun(Top, sc)
    BY <2>1 DEF MayRun, ContextFree
  <2>3. QED  BY <1>1, <1>3, <2>1, <2>2
<1>5. calls'[c][sc] >= calls[c][sc] /\ (Lost => Lost')
  <2>1. calls[c][sc] \in Nat
    BY <1>1, <1>2, OthersType
  <2>2. QED  BY <1>1, <2>1 DEF Lost, AlertFails
<1>6. QED  BY <1>1, <1>2, <1>3, <1>4, <1>5, SetServed

LEMMA CallScannerServed ==
    ASSUME ScanInv, ScanInv', NEW s \in Scanner, CallScanner(s),
           NEW c \in Content, NEW sc \in Scanner, Served(c, sc)
    PROVE  Served(c, sc)'
<1> DEFINE f == [Top EXCEPT !.todo = @ \ {s}, !.scanner = s, !.recursions = 0]
<1>1. /\ Shape /\ pc = "looping" /\ SetTop(f)
      /\ calls' = [calls EXCEPT ![Top.content][s] = @ + 1]
      /\ UNCHANGED <<escaped, disk_full>>
      /\ calls \in [Content -> [Scanner -> Nat]]
  BY OthersType DEF ScanInv, CallScanner
<1>2. Top \in StackFrame /\ Top.content \in Content /\ Top = stack[1]
  BY <1>1, TopType DEF StackFrame
<1>3. /\ f \in StackFrame /\ f.content = Top.content /\ f.seen_before = Top.seen_before
      /\ f.todo = Top.todo \ {s}
  <2>1. 0 \in 0 .. MaxRecursions
    BY BoundAssumption
  <2>2. QED  BY <1>2, <2>1 DEF StackFrame
<1> HIDE DEF f
<1>4. CASE c = Top.content /\ sc = s
  <2>1. calls'[c][sc] >= 1
    BY <1>1, <1>2, <1>4
  <2>2. QED  BY <2>1 DEF Served
<1>5. CASE c # Top.content \/ sc # s
  <2>1. Due(1, c, sc) => f.content = c /\ ~f.seen_before /\ sc \in f.todo
    BY <1>2, <1>3, <1>5 DEF Due
  <2>2. calls'[c][sc] >= calls[c][sc] /\ (Lost => Lost')
    BY <1>1, <1>2, <1>5 DEF Lost
  <2>3. pc # "idle"
    BY <1>1
  <2>4. QED  BY <1>1, <1>3, <2>1, <2>2, <2>3, SetServed
<1>6. QED  BY <1>4, <1>5

(* The call that is counted has to serve what it is the first to see, and  *)
(* what was seen before was served.                                        *)
LEMMA BeginServed ==
    ASSUME ScanInv, ScanInv', SeenInv, Begin,
           NEW c \in begun' \ asked', NEW sc \in Suits[c] \cap ContextFree
    PROVE  Served(c, sc)'
<1> DEFINE f == Begun
<1>1. /\ Shape /\ pc = "entering" /\ SetTop(f) /\ pc' = "looping"
      /\ begun' = begun \cup {Top.content} /\ UNCHANGED <<asked, calls, escaped, disk_full>>
  BY DEF ScanInv, Begin, Begun
<1>2. /\ Top \in StackFrame /\ Top.content \in Content /\ Top = stack[1]
      /\ Top.todo = {} /\ sc \in Scanner /\ begun \subseteq Content
      /\ calls \in [Content -> [Scanner -> Nat]]
  BY <1>1, TopType, OthersType DEF StackFrame, SeenInv, Fresh, ContextFree
<1>3. /\ f \in StackFrame /\ f.content = Top.content /\ f.todo = Scanner
      /\ f.seen_before <=> previously_processed_counter[Top.content] > 0
  <2>1. f \in StackFrame /\ f.content = Top.content /\ f.seen_before = SeenBefore(Top.content)
    BY <1>1, BeginFrame
  <2>2. f.todo = Scanner
    <3> HIDE DEF PossiblyHas, SeenBefore
    <3> QED  BY <1>2 DEF Begun, StackFrame
  <2>3. QED  BY <2>1, <2>2 DEF SeenBefore
<1> HIDE DEF f
<1>4. CASE c \in begun
  <2>1. Served(c, sc) /\ c \in Content
    BY <1>1, <1>2, <1>4 DEF SeenInv, ServedInv
  <2>2. ~Due(1, c, sc)
    BY <1>2 DEF Due
  <2>3. calls'[c][sc] >= calls[c][sc] /\ (Lost => Lost')
    BY <1>1, <1>2, <2>1 DEF Lost
  <2>4. pc # "idle"
    BY <1>1
  <2>5. QED  BY <1>1, <1>2, <1>3, <2>1, <2>2, <2>3, <2>4, SetServed
<1>5. CASE c \notin begun
  <2>1. c = Top.content /\ c \notin asked
    BY <1>1, <1>5
  <2>2. ~f.seen_before
    BY <1>2, <1>3, <1>5, <2>1 DEF SeenInv, Counted
  <2>3. stack'[1] = f /\ 1 \in DOMAIN stack'
    BY <1>1, <1>3, TopSet, TopType
  <2>4. Due(1, c, sc)'
    BY <1>2, <1>3, <2>1, <2>2, <2>3 DEF Due
  <2>5. QED  BY <2>3, <2>4 DEF Served
<1>6. QED  BY <1>4, <1>5

LEMMA ScheduleServed ==
    ASSUME ScanInv, ScanInv', NEW c0 \in Content, Schedule(c0),
           NEW c \in Content, NEW sc \in Scanner, Served(c, sc)
    PROVE  Served(c, sc)'
<1>1. /\ Shape /\ stack = <<>> /\ pc = "idle" /\ UNCHANGED calls /\ escaped' = escaped
  BY DEF ScanInv, Shape, Schedule, history
<1>2. DOMAIN stack = {}
  BY <1>1
<1>3. calls'[c][sc] >= calls[c][sc] /\ (Lost => Lost')
  <2>1. calls[c][sc] \in Nat
    BY <1>1, OthersType
  <2>2. QED  BY <1>1, <2>1 DEF Lost
<1>4. \A i \in DOMAIN stack :
          Due(i, c, sc) => i + 0 \in DOMAIN stack' /\ Due(i + 0, c, sc)'
  BY <1>2
<1>5. QED  BY <1>3, <1>4, StillServed

LEMMA RecurseServed ==
    ASSUME ScanInv, ScanInv', NEW c0 \in Content, Recurse(c0),
           NEW c \in Content, NEW sc \in Scanner, Served(c, sc)
    PROVE  Served(c, sc)'
<1> DEFINE f == Frame(c0, Append(Top.path, Top.scanner))
           g == [Top EXCEPT !.recursions = @ + 1]
           t == Tail(stack)
<1>1. /\ Shape /\ pc = "scanning" /\ stack' = <<f, g>> \o t
      /\ Top.recursions < MaxRecursions
      /\ UNCHANGED <<calls, escaped>>
  BY DEF ScanInv, Recurse, history
<1>2. /\ stack # <<>> /\ stack \in Seq(StackFrame) /\ Top \in StackFrame /\ Top = stack[1]
      /\ Top.scanner \in Scanner
      /\ Len(stack) \in Nat \ {0} /\ DOMAIN stack = 1 .. Len(stack)
  BY <1>1, TopType DEF Shape
<1>3. f \in StackFrame
  <2>1. Top.path \in Seq(Scanner)
    BY <1>2 DEF StackFrame
  <2>2. Append(Top.path, Top.scanner) \in Seq(Scanner)
    BY <1>2, <2>1, AppendProperties
  <2>3. QED  BY <2>2, BoundAssumption DEF Frame, StackFrame
<1>4. /\ g \in StackFrame /\ g.content = Top.content /\ g.seen_before = Top.seen_before
      /\ g.todo = Top.todo
  <2>1. Top.recursions + 1 \in 0 .. MaxRecursions
    BY <1>1, <1>2, BoundAssumption DEF StackFrame
  <2>2. QED  BY <1>2, <2>1 DEF StackFrame
<1>5. /\ t \in Seq(StackFrame) /\ Len(t) = Len(stack) - 1
      /\ \A i \in 1 .. Len(stack) - 1 : t[i] = stack[i + 1]
  BY <1>2, Popped
<1> HIDE DEF f, g, t
<1>6. /\ DOMAIN stack' = 1 .. Len(t) + 2
      /\ stack'[1] = f /\ stack'[2] = g
      /\ \A i \in 1 .. Len(t) : stack'[i + 2] = t[i]
  BY <1>1, <1>3, <1>4, <1>5, PushedTwo
<1>7. ASSUME NEW i \in DOMAIN stack, Due(i, c, sc)
      PROVE  i + 1 \in DOMAIN stack' /\ Due(i + 1, c, sc)'
  <2>1. i + 1 \in DOMAIN stack' /\ Len(stack) \in Nat /\ (i = 1 \/ i > 1)
    BY <1>2, <1>5, <1>6
  <2>2. CASE i = 1
    <3>1. i + 1 = 2
      BY <2>2
    <3>2. QED  BY <1>2, <1>4, <1>6, <1>7, <2>1, <2>2, <3>1 DEF Due
  <2>3. CASE i > 1
    <3>1. i - 1 \in 1 .. Len(t) /\ i - 1 + 2 = i + 1 /\ i - 1 + 1 = i
          /\ i - 1 \in 1 .. Len(stack) - 1
      BY <1>2, <1>5, <2>3
    <3>2. stack'[i + 1] = stack[i]
      BY <1>5, <1>6, <3>1
    <3>3. QED  BY <1>7, <2>1, <3>2 DEF Due
  <2>4. QED  BY <2>1, <2>2, <2>3
<1>8. calls'[c][sc] >= calls[c][sc] /\ (Lost => Lost')
  <2>1. calls[c][sc] \in Nat
    BY <1>1, OthersType
  <2>2. QED  BY <1>1, <2>1 DEF Lost
<1>9. QED  BY <1>7, <1>8, StillServed

LEMMA BackServed ==
    ASSUME ScanInv, ScanInv', pc # "idle", BackInLoop, UNCHANGED calls, Lost => Lost',
           NEW c \in Content, NEW sc \in Scanner, Served(c, sc)
    PROVE  Served(c, sc)'
<1> DEFINE f == [Top EXCEPT !.scanner = NoScanner]
<1>1. Shape /\ SetTop(f)
  BY DEF ScanInv, BackInLoop
<1>2. Top \in StackFrame /\ Top = stack[1] /\ calls[c][sc] \in Nat
  BY <1>1, TopType, OthersType
<1>3. /\ f \in StackFrame /\ f.content = Top.content /\ f.seen_before = Top.seen_before
      /\ f.todo = Top.todo
  BY <1>2 DEF StackFrame
<1> HIDE DEF f
<1>4. Due(1, c, sc) => f.content = c /\ ~f.seen_before /\ sc \in f.todo
  BY <1>2, <1>3 DEF Due
<1>5. calls'[c][sc] >= calls[c][sc]
  BY <1>2
<1>6. QED  BY <1>1, <1>3, <1>4, <1>5, SetServed

LEMMA CheckServed ==
    ASSUME ScanInv, ScanInv', NEW c0 \in Content, CheckPreviouslyProcessed(c0),
           NEW c \in Content, NEW sc \in Scanner, Served(c, sc)
    PROVE  Served(c, sc)'
<1> DEFINE f == [Top EXCEPT !.recursions = @ + 1]
<1>1. /\ Shape /\ pc # "idle" /\ SetTop(f) /\ Top.recursions < MaxRecursions
      /\ UNCHANGED <<calls, pc, escaped, disk_full>>
  BY DEF ScanInv, CheckPreviouslyProcessed
<1>2. Top \in StackFrame /\ Top = stack[1] /\ calls[c][sc] \in Nat
  BY <1>1, TopType, OthersType
<1>3. /\ f \in StackFrame /\ f.content = Top.content /\ f.seen_before = Top.seen_before
      /\ f.todo = Top.todo
  <2>1. Top.recursions + 1 \in 0 .. MaxRecursions
    BY <1>1, <1>2, BoundAssumption DEF StackFrame
  <2>2. QED  BY <1>2, <2>1 DEF StackFrame
<1> HIDE DEF f
<1>4. Due(1, c, sc) => f.content = c /\ ~f.seen_before /\ sc \in f.todo
  BY <1>2, <1>3 DEF Due
<1>5. calls'[c][sc] >= calls[c][sc] /\ (Lost => Lost')
  BY <1>1, <1>2 DEF Lost, AlertFails
<1>6. QED  BY <1>1, <1>3, <1>4, <1>5, SetServed

(* The stack and the calls stay as they are.                               *)
LEMMA SameServed ==
    ASSUME UNCHANGED <<stack, calls>>, Lost => Lost',
           NEW c \in Content, NEW sc \in Scanner, Served(c, sc)
    PROVE  Served(c, sc)'
<1>1. \A i \in DOMAIN stack : Due(i, c, sc)' <=> Due(i, c, sc)
  BY DEF Due
<1>2. QED  BY <1>1 DEF Served

LEMMA ServedInvStep == ScanInv /\ SeenInv /\ [Next]_vars => ServedInv'
<1> SUFFICES ASSUME ScanInv, SeenInv, [Next]_vars,
                    NEW c \in begun' \ asked', NEW sc \in Suits[c] \cap ContextFree
             PROVE  Served(c, sc)'
  BY DEF ServedInv
<1>1. ScanInv'
  BY ScanInvStep
<1>2. c \in Content /\ sc \in Scanner /\ Shape
  BY <1>1, OthersType DEF ContextFree, ScanInv, Shape
<1>3. ASSUME UNCHANGED begun, asked \subseteq asked' PROVE Served(c, sc)
  BY <1>3 DEF SeenInv, ServedInv
<1>4. ASSUME ReturnEmpty \/ LoopDone PROVE Served(c, sc)'
  <2>1. /\ pc \in {"entering", "looping"} /\ stack' = Tail(stack) /\ Top.todo = {}
        /\ UNCHANGED <<calls, begun, asked, escaped>>
    BY <1>4 DEF ReturnEmpty, LoopDone, Return, history, SeenInv, Fresh
  <2>2. Lost => Lost'
    BY <2>1 DEF Lost
  <2>3. QED  BY <1>1, <1>2, <1>3, <2>1, <2>2, GoneServed
<1>5. ASSUME RefuseDeep PROVE Served(c, sc)'
  <2>1. /\ pc = "entering" /\ stack' = Tail(stack) /\ Top.todo = {}
        /\ UNCHANGED <<calls, begun, asked>> /\ escaped' \in {escaped, escaped + 1}
    BY <1>5 DEF RefuseDeep, Return, Unwind, SeenInv, Fresh
  <2>2. Lost => Lost'
    <3>1. escaped \in Nat
      BY <1>2, OthersType
    <3>2. QED  BY <2>1, <3>1 DEF Lost
  <2>3. QED  BY <1>1, <1>2, <1>3, <2>1, <2>2, GoneServed
<1>6. ASSUME ScannerReturns PROVE Served(c, sc)'
  <2>1. /\ pc = "scanning" /\ BackInLoop /\ UNCHANGED <<calls, begun, asked, escaped>>
    BY <1>6 DEF ScannerReturns, history
  <2>2. Lost => Lost'
    BY <2>1 DEF Lost
  <2>3. QED  BY <1>1, <1>2, <1>3, <2>1, <2>2, BackServed
<1>7. ASSUME Catch PROVE Served(c, sc)'
  <2>1. pc = "catching" /\ UNCHANGED <<calls, begun, asked, disk_full>>
    BY <1>7 DEF Catch
  <2>2. CASE AlertFails
    <3>1. (pc' = "catching" /\ AlertFails') \/ escaped' = escaped + 1
      BY <1>7, <2>1, <2>2 DEF Catch, Unwind, AlertFails
    <3>2. Lost'
      <4>1. escaped \in Nat
        BY <1>2, OthersType
      <4>2. QED  BY <3>1, <4>1 DEF Lost
    <3>3. QED  BY <3>2 DEF Served
  <2>3. CASE ~AlertFails
    <3>1. BackInLoop /\ UNCHANGED escaped
      BY <1>7, <2>3 DEF Catch
    <3>2. Lost => Lost'
      BY <2>3, <3>1 DEF Lost
    <3>3. QED  BY <1>1, <1>2, <1>3, <2>1, <3>1, <3>2, BackServed
  <2>4. QED  BY <2>2, <2>3
<1>8. ASSUME NEW s \in Scanner, SkipScanner(s) PROVE Served(c, sc)'
  <2>1. UNCHANGED <<begun, asked>>
    BY <1>8 DEF SkipScanner, history
  <2>2. QED  BY <1>1, <1>2, <1>3, <1>8, <2>1, SkipScannerServed
<1>9. ASSUME NEW s \in Scanner, CallScanner(s) PROVE Served(c, sc)'
  <2>1. UNCHANGED <<begun, asked>>
    BY <1>9 DEF CallScanner
  <2>2. QED  BY <1>1, <1>2, <1>3, <1>9, <2>1, CallScannerServed
<1>10. ASSUME Step PROVE Served(c, sc)'
  BY <1>1, <1>4, <1>5, <1>6, <1>7, <1>8, <1>9, <1>10, BeginServed DEF Step
<1>11. ASSUME NEW c0 \in Content, Schedule(c0) \/ Recurse(c0) \/ CheckPreviouslyProcessed(c0)
       PROVE  Served(c, sc)'
  <2>1. UNCHANGED begun /\ asked \subseteq asked'
    BY <1>11 DEF Schedule, Recurse, CheckPreviouslyProcessed, history
  <2>2. QED  BY <1>1, <1>2, <1>3, <1>11, <2>1, ScheduleServed, RecurseServed, CheckServed
<1>12. ASSUME WriteFails \/ ScannerThrows \/ DiskFills \/ Done \/ UNCHANGED vars
       PROVE  Served(c, sc)'
  <2>1. /\ UNCHANGED <<stack, calls, begun, asked, escaped>>
        /\ pc = "scanning" \/ ~disk_full \/ UNCHANGED <<pc, disk_full>>
    BY <1>12 DEF WriteFails, ScannerThrows, Throw, DiskFills, Done, vars, history
  <2>2. Lost => Lost'
    BY <2>1 DEF Lost, AlertFails
  <2>3. QED  BY <1>2, <1>3, <2>1, <2>2, SameServed
<1>13. QED  BY <1>10, <1>11, <1>12 DEF Next

LEMMA FreshStep == ScanInv /\ Fresh /\ [Next]_vars => Fresh'
<1> SUFFICES ASSUME ScanInv, Fresh, [Next]_vars, pc' = "entering" PROVE Top'.todo = {}
  BY DEF Fresh
<1>1. Shape
  BY DEF ScanInv
<1>2. ~Step
  BY DEF Step, ReturnEmpty, RefuseDeep, Begin, SkipScanner, CallScanner, LoopDone,
     ScannerReturns, Catch, Return, Unwind, BackInLoop
<1>3. ASSUME NEW c \in Content, Schedule(c) PROVE Top'.todo = {}
  <2> DEFINE f == Frame(c, <<>>)
  <2>1. stack' = <<f>> \o stack /\ stack \in Seq(StackFrame)
    BY <1>1, <1>3 DEF Schedule, Call, Shape, StackFrame
  <2>2. f \in StackFrame /\ f.todo = {}
    <3>1. <<>> \in Seq(Scanner)
      BY EmptySeq
    <3>2. QED  BY <3>1, BoundAssumption DEF Frame, StackFrame
  <2> HIDE DEF f
  <2>3. Top' = f
    BY <2>1, <2>2, Pushed DEF Top
  <2>4. QED  BY <2>2, <2>3
<1>4. ASSUME NEW c \in Content, Recurse(c) PROVE Top'.todo = {}
  <2> DEFINE f == Frame(c, Append(Top.path, Top.scanner))
             g == [Top EXCEPT !.recursions = @ + 1]
             t == Tail(stack)
  <2>1. /\ pc = "scanning" /\ stack' = <<f, g>> \o t /\ Top.recursions < MaxRecursions
    BY <1>4 DEF Recurse
  <2>2. /\ stack # <<>> /\ stack \in Seq(StackFrame) /\ Top \in StackFrame
        /\ Top.scanner \in Scanner
    BY <1>1, <2>1, TopType DEF Shape
  <2>3. f \in StackFrame /\ f.todo = {}
    <3>1. Top.path \in Seq(Scanner)
      BY <2>2 DEF StackFrame
    <3>2. Append(Top.path, Top.scanner) \in Seq(Scanner)
      BY <2>2, <3>1, AppendProperties
    <3>3. QED  BY <3>2, BoundAssumption DEF Frame, StackFrame
  <2>4. g \in StackFrame
    <3>1. Top.recursions + 1 \in 0 .. MaxRecursions
      BY <2>1, <2>2, BoundAssumption DEF StackFrame
    <3>2. QED  BY <2>2, <3>1 DEF StackFrame
  <2>5. t \in Seq(StackFrame)
    BY <2>2, Popped
  <2> HIDE DEF f, g, t
  <2>6. Top' = f
    BY <2>1, <2>3, <2>4, <2>5, PushedTwo DEF Top
  <2>7. QED  BY <2>3, <2>6
<1>5. ASSUME NEW c \in Content PROVE ~CheckPreviouslyProcessed(c)
  BY DEF CheckPreviouslyProcessed
<1>6. ~(WriteFails \/ ScannerThrows \/ Done)
  BY DEF WriteFails, ScannerThrows, Throw, Done, vars
<1>7. ASSUME DiskFills \/ UNCHANGED vars PROVE Top'.todo = {}
  BY <1>7 DEF DiskFills, vars, Fresh, Top
<1>8. QED  BY <1>2, <1>3, <1>4, <1>5, <1>6, <1>7 DEF Next

(* What a step does to the counts.                                         *)
CountsOnce(c) ==
    previously_processed_counter' = [previously_processed_counter EXCEPT ![c] = @ + 1]
LEMMA CountsSteps ==
    ASSUME ScanInv, [Next]_vars
    PROVE  \/ UNCHANGED <<previously_processed_counter, dup_bytes_encountered, begun, asked>>
           \/ \E c \in Content : CountsOnce(c) /\ asked' = asked \cup {c} /\ begun' = begun
           \/ Begin /\ Top.content \in Content
<1>1. ASSUME Step
      PROVE  \/ UNCHANGED <<previously_processed_counter, dup_bytes_encountered, begun, asked>>
             \/ Begin /\ Top.content \in Content
  <2>1. ASSUME Begin PROVE Top.content \in Content
    BY <2>1, TopType DEF Begin, ScanInv, StackFrame
  <2>2. ASSUME ~Begin
        PROVE  UNCHANGED <<previously_processed_counter, dup_bytes_encountered, begun, asked>>
    BY <1>1, <2>2 DEF Step, ReturnEmpty, RefuseDeep, SkipScanner, CallScanner, LoopDone,
       ScannerReturns, Catch, stats, history
  <2>3. QED  BY <2>1, <2>2
<1>2. ASSUME NEW c \in Content, Schedule(c) \/ Recurse(c)
      PROVE  UNCHANGED <<previously_processed_counter, dup_bytes_encountered, begun, asked>>
  BY <1>2 DEF Schedule, Recurse, stats, history
<1>3. ASSUME NEW c \in Content, CheckPreviouslyProcessed(c)
      PROVE  CountsOnce(c) /\ asked' = asked \cup {c} /\ begun' = begun
  BY <1>3 DEF CheckPreviouslyProcessed, Count, CountsOnce
<1>4. ASSUME WriteFails \/ ScannerThrows \/ DiskFills \/ Done \/ UNCHANGED vars
      PROVE  UNCHANGED <<previously_processed_counter, dup_bytes_encountered, begun, asked>>
  BY <1>4 DEF WriteFails, ScannerThrows, Throw, DiskFills, Done, vars, stats, history
<1>5. QED  BY <1>1, <1>2, <1>3, <1>4 DEF Next

LEMMA CountedStep == ScanInv /\ Counted /\ [Next]_vars => Counted'
<1> SUFFICES ASSUME ScanInv, Counted, [Next]_vars PROVE Counted'
  OBVIOUS
<1>1. previously_processed_counter \in [Content -> Nat]
  BY OthersType DEF ScanInv
<1>2. CASE UNCHANGED <<previously_processed_counter, dup_bytes_encountered, begun, asked>>
  BY <1>2 DEF Counted
<1>3. ASSUME NEW c \in Content, CountsOnce(c), asked' = asked \cup {c}, begun' = begun
      PROVE  Counted'
  BY <1>1, <1>3 DEF Counted, CountsOnce
<1>4. CASE Begin /\ Top.content \in Content
  <2> DEFINE c == Top.content
  <2>1. CountsOnce(c) /\ begun' = begun \cup {c} /\ asked' = asked /\ c \in Content
    BY <1>4 DEF Begin, Count, CountsOnce
  <2> HIDE DEF c
  <2>2. QED  BY <1>1, <2>1 DEF Counted, CountsOnce
<1>5. QED  BY <1>2, <1>3, <1>4, CountsSteps

(* One more copy.                                                          *)
LEMMA OneMore ==
    ASSUME NEW a \in Nat, NEW n \in Nat \ {0}
    PROVE  a * (n - 1) \in Nat /\ a * (n + 1 - 1) = a * (n - 1) + a
<1>1. n - 1 \in Nat /\ n + 1 - 1 = (n - 1) + 1
  OBVIOUS
<1>2. ASSUME NEW m \in Nat PROVE a * m \in Nat /\ a * (m + 1) = a * m + a
  OBVIOUS
<1>3. QED  BY <1>1, <1>2

LEMMA CopiesNat ==
    ASSUME NEW counter \in [Content -> Nat], NEW B \in SUBSET Content,
           \A c \in B : counter[c] > 0
    PROVE  \A c \in B : bufsize[c] * (counter[c] - 1) \in Nat
<1>1. ASSUME NEW c \in B PROVE bufsize[c] * (counter[c] - 1) \in Nat
  <2> DEFINE a == bufsize[c]
             n == counter[c]
  <2>1. a \in Nat /\ n \in Nat \ {0}
    BY SetsAssumption
  <2> HIDE DEF a, n
  <2>2. a * (n - 1) \in Nat
    BY <2>1, OneMore
  <2>3. QED  BY <2>2 DEF a, n
<1>2. QED  BY <1>1

LEMMA DupsExactStep == ScanInv /\ Counted /\ DupsExact /\ [Next]_vars => DupsExact'
<1> SUFFICES ASSUME ScanInv, Counted, DupsExact, [Next]_vars, asked' = {}
             PROVE  dup_bytes_encountered' = SumOf(Copies', begun')
  BY DEF DupsExact
<1> DEFINE n == previously_processed_counter
           w == Copies
           v == Copies'
<1>1. /\ n \in [Content -> Nat] /\ dup_bytes_encountered \in Nat /\ begun \in SUBSET Content
      /\ IsFiniteSet(begun) /\ \A c \in begun : n[c] > 0
  <2>1. n \in [Content -> Nat] /\ dup_bytes_encountered \in Nat /\ begun \in SUBSET Content
    BY OthersType DEF ScanInv
  <2>2. IsFiniteSet(begun)
    BY <2>1, SetsAssumption, FS_Subset
  <2>3. QED  BY <2>1, <2>2 DEF Counted
<1>2. CASE UNCHANGED <<previously_processed_counter, dup_bytes_encountered, begun, asked>>
  BY <1>2 DEF DupsExact, Copies
<1>3. CASE \E c \in Content : asked' = asked \cup {c}
  BY <1>3
<1>4. ASSUME Begin, Top.content \in Content
      PROVE  dup_bytes_encountered' = SumOf(Copies', begun')
  <2> DEFINE c == Top.content
             m == n'
             b == bufsize[c]
  <2>1. /\ m = [n EXCEPT ![c] = @ + 1] /\ begun' = begun \cup {c} /\ asked = {}
        /\ dup_bytes_encountered' = dup_bytes_encountered + IF n[c] > 0 THEN b ELSE 0
        /\ c \in Content
    BY <1>4 DEF Begin, Count, SeenBefore
  <2>2. dup_bytes_encountered = SumOf(w, begun)
    BY <2>1 DEF DupsExact
  <2>3. /\ \A x \in begun : w[x] = bufsize[x] * (n[x] - 1)
        /\ \A x \in begun' : v[x] = bufsize[x] * (m[x] - 1)
    BY DEF Copies
  <2>4. n[c] \in Nat /\ b \in Nat /\ m[c] = n[c] + 1
        /\ \A x \in Content \ {c} : m[x] = n[x]
    BY <1>1, <2>1, SetsAssumption
  <2>5. \A x \in begun : w[x] \in Nat
    <3>1. \A x \in begun : bufsize[x] * (n[x] - 1) \in Nat
      BY <1>1, CopiesNat
    <3>2. QED  BY <2>3, <3>1
  <2> HIDE DEF c, m, b, n, w, v
  <2>6. \A x \in begun \ {c} : v[x] = w[x]
    BY <1>1, <2>1, <2>3, <2>4
  <2>7. CASE c \notin begun
    <3>1. n[c] = 0
      BY <2>1, <2>4, <2>7 DEF Counted, n
    <3>2. v[c] = 0
      <4>1. v[c] = b * (0 + 1 - 1)
        BY <2>1, <2>3, <2>4, <3>1 DEF b
      <4>2. QED  BY <2>4, <4>1
    <3>3. \A x \in begun : v[x] = w[x]
      BY <2>6, <2>7
    <3>4. \A x \in begun \cup {c} : v[x] \in Nat
      BY <2>5, <3>2, <3>3
    <3>5. SumOf(v, begun \cup {c}) = SumOf(v, begun) + v[c]
      BY <1>1, <2>7, <3>4, SumAdd
    <3>6. SumOf(v, begun) = SumOf(w, begun)
      BY <1>1, <3>3, SumSame
    <3>7. SumOf(v, begun') = dup_bytes_encountered'
      BY <1>1, <2>1, <2>2, <3>1, <3>2, <3>5, <3>6
    <3>8. QED  BY <3>7 DEF v
  <2>8. CASE c \in begun
    <3>1. n[c] \in Nat \ {0} /\ begun' = begun
      BY <1>1, <2>1, <2>8
    <3>2. v[c] = w[c] + b
      <4> DEFINE k == n[c]
      <4>1. w[c] = b * (k - 1) /\ v[c] = b * (k + 1 - 1) /\ k \in Nat \ {0}
        BY <2>3, <2>4, <2>8, <3>1 DEF b
      <4> HIDE DEF k
      <4>2. b * (k + 1 - 1) = b * (k - 1) + b
        BY <2>4, <4>1, OneMore
      <4>3. QED  BY <4>1, <4>2
    <3> DEFINE R == begun \ {c}
    <3>3. w[c] \in Nat /\ v[c] \in Nat /\ \A x \in begun : v[x] \in Nat
      BY <2>4, <2>5, <2>6, <2>8, <3>2
    <3>4. SumOf(w, begun) = SumOf(w, R) + w[c]
      BY <1>1, <2>5, <2>8, SumRemove
    <3>5. SumOf(v, begun) = SumOf(v, R) + v[c]
      BY <1>1, <2>8, <3>3, SumRemove
    <3>6. IsFiniteSet(R) /\ \A x \in R : v[x] = w[x] /\ w[x] \in Nat
      BY <1>1, <2>5, <2>6, FS_Subset
    <3> HIDE DEF R
    <3>7. SumOf(v, R) = SumOf(w, R)
      BY <3>6, SumSame
    <3>8. SumOf(w, R) \in Nat
      BY <3>6, SumNat
    <3>9. SumOf(v, begun') = dup_bytes_encountered'
      BY <2>1, <2>2, <2>4, <3>1, <3>2, <3>3, <3>4, <3>5, <3>7, <3>8
    <3>10. QED  BY <3>9 DEF v
  <2>9. QED  BY <2>7, <2>8
<1>5. QED  BY <1>2, <1>3, <1>4, CountsSteps

LEMMA SeenInvInit == Init => SeenInv
<1> SUFFICES ASSUME Init PROVE SeenInv
  OBVIOUS
<1>1. Fresh /\ Counted /\ ServedInv
  BY DEF Init, Fresh, Counted, ServedInv
<1>2. DupsExact
  <2>1. begun = {} /\ dup_bytes_encountered = 0
    BY DEF Init
  <2>2. SumOf(Copies, begun) = 0
    BY <2>1, SumEmpty
  <2>3. QED  BY <2>1, <2>2 DEF DupsExact
<1>3. QED  BY <1>1, <1>2 DEF SeenInv

(* Every scanner that looks at the bytes only gets every buffer that is    *)
(* processed, once, whatever the scanners do and however deep they         *)
(* recurse; and what is left out by it is what is reported as duplicate.   *)
THEOREM NothingMissed == Spec => []SeenOnce
<1> DEFINE I == ScanInv /\ OnceInv /\ SeenInv
<1>1. I => SeenOnce
  <2> SUFFICES ASSUME ScanInv, OnceInv, SeenInv PROVE SeenOnce
    OBVIOUS
  <2>1. ScansOnce
    BY DEF OnceInv, OnceFor, ScansOnce
  <2>2. ASSUME pc = "idle", escaped = 0, NEW c \in begun \ asked,
               NEW sc \in Suits[c] \cap ContextFree
        PROVE  calls[c][sc] >= 1
    <3>1. Served(c, sc) /\ stack = <<>>
      BY <2>2 DEF SeenInv, ServedInv, ScanInv, Shape
    <3>2. QED  BY <2>2, <3>1 DEF Served, Lost
  <2>3. DupsExact
    BY DEF SeenInv
  <2>4. QED  BY <2>1, <2>2, <2>3 DEF SeenOnce
<1>2. Init => I
  BY ScanInvInit, OnceInvInit, SeenInvInit
<1>3. I /\ [Next]_vars => I'
  BY ScanInvStep, OnceInvStep, FreshStep, CountedStep, ServedInvStep, DupsExactStep DEF SeenInv
<1>4. QED  BY <1>1, <1>2, <1>3, PTL DEF Spec
=============================================================================
