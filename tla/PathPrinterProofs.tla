------------------------- MODULE PathPrinterProofs --------------------------
(***************************************************************************)
(* Theorems about PathPrinter for every image, every set of scanners and   *)
(* offsets, every path and every option of a client.                       *)
(***************************************************************************)
EXTENDS PathPrinter, SequenceTheorems, FiniteSetTheorems, WellFoundedInduction, TLAPS

Size == 0 .. (Modulus - 1)

-----------------------------------------------------------------------------
(* Sizes are added and subtracted modulo Modulus.                          *)
LEMMA Wraps ==
    ASSUME NEW a \in Size, NEW b \in Size
    PROVE  /\ Modulus \in Nat \ {0} /\ a % Modulus = a
           /\ a + b < Modulus => (a + b) % Modulus = a + b
           /\ a + b >= Modulus => (a + b) % Modulus = a + b - Modulus
           /\ a <= b /\ b < Modulus - 1 => (b - a + 1) % Modulus = b - a + 1
           /\ (b - a + 1) % Modulus \in Size
<1>1. Modulus \in Nat \ {0} /\ a \in Int /\ b \in Int
  BY NumbersAssumption DEF Size
<1>2. a + b < Modulus => (a + b) % Modulus = a + b
  BY <1>1 DEF Size
<1>3. a + b >= Modulus => (a + b) % Modulus = a + b - Modulus
  BY <1>1 DEF Size
<1>4. a <= b /\ b < Modulus - 1 => (b - a + 1) % Modulus = b - a + 1
  <2>1. a <= b /\ b < Modulus - 1 => b - a + 1 \in 0 .. (Modulus - 1)
    BY <1>1 DEF Size
  <2>2. \A x \in 0 .. (Modulus - 1) : x % Modulus = x
    BY <1>1
  <2>3. QED  BY <2>1, <2>2
<1>5. (b - a + 1) % Modulus \in Size
  <2>1. \A x \in Int : x % Modulus \in 0 .. (Modulus - 1)
    BY <1>1
  <2>2. b - a + 1 \in Int
    BY <1>1
  <2>3. QED  BY <2>1, <2>2 DEF Size
<1>6. a % Modulus = a
  BY <1>1 DEF Size
<1>7. QED  BY <1>1, <1>2, <1>3, <1>4, <1>5, <1>6

Options ==
    [print_mode : {"none", "raw", "hex", "http"}, range : RangeHeader \cup {NoRange},
     content_length : Size]

(* The options of a client whose extent is the printer's or a Range that   *)
(* has a first and a last byte.                                            *)
Plain == /\ po.content_length = 0
         /\ po.range # NoRange => /\ po.range[1] <= po.range[2]
                                  /\ po.range[2] < Modulus - 1

LEMMA Extent ==
    ASSUME po \in Options, NEW n \in Size
    PROVE  /\ PrintStart \in Size /\ RangeLength \in Size
           /\ ContentLength(n) \in Size
<1>1. /\ po.range \in RangeHeader \cup {NoRange} /\ po.content_length \in Size
      /\ Modulus \in Nat /\ DEFAULT_CONTENT_LENGTH \in Size
      /\ RangeHeader \subseteq Size \X Size
  BY NumbersAssumption DEF Options, Size, DEFAULT_CONTENT_LENGTH
<1>2. PrintStart \in Size
  <2>1. 0 \in Size
    BY <1>1 DEF Size
  <2>2. po.range # NoRange => po.range[1] \in Size
    BY <1>1
  <2>3. QED  BY <2>1, <2>2 DEF PrintStart
<1>3. RangeLength \in Size
  <2>1. po.range # NoRange => po.range[1] \in Size /\ po.range[2] \in Size
    BY <1>1
  <2>2. QED  BY <1>1, <2>1, Wraps DEF RangeLength
<1>4. Clipped(n) \in Size
  <2>1. 0 \in Size
    BY <1>1 DEF Size
  <2>2. ~(PrintStart > n) => n - PrintStart \in Size
    BY <1>1, <1>2 DEF Size
  <2>3. QED  BY <1>3, <2>1, <2>2 DEF Clipped
<1>5. QED  BY <1>1, <1>2, <1>3, <1>4 DEF ContentLength

(* A dump begins at the first byte and ends where the sbuf or the length   *)
(* does; a sum that wraps around leaves nothing to dump.                   *)
LEMMA Dump ==
    ASSUME NEW n \in Size, NEW first \in Size, NEW length \in Size,
           NEW D, D = {i \in 0 .. (n - 1) : first <= i /\ i < (first + length) % Modulus}
    PROVE  /\ Cardinality(D) \in Nat /\ Cardinality(D) <= length
           /\ first + length <= n => Cardinality(D) = length
<1>1. Modulus \in Nat \ {0} /\ first \in Nat /\ length \in Nat /\ n \in Nat
  BY Wraps DEF Size
<1>2. CASE first + length < Modulus
  <2> DEFINE stop == IF first + length < n THEN first + length ELSE n
  <2>1. (first + length) % Modulus = first + length
    BY <1>2, Wraps
  <2>2. first \in Int /\ stop \in Int /\ stop - 1 \in Int /\ D = first .. (stop - 1)
    BY <1>1, <2>1
  <2>3. Cardinality(D) = IF first > stop - 1 THEN 0 ELSE stop - 1 - first + 1
    BY <2>2, FS_Interval
  <2>4. QED  BY <1>1, <2>2, <2>3
<1>3. CASE first + length >= Modulus
  <2>1. (first + length) % Modulus = first + length - Modulus
    BY <1>3, Wraps
  <2>2. D = {}
    BY <1>1, <2>1 DEF Size
  <2>3. Cardinality(D) = 0 /\ ~(first + length <= n)
    BY <1>1, <1>3, <2>2, FS_EmptySet DEF Size
  <2>4. QED  BY <1>1, <2>3
<1>4. QED  BY <1>1, <1>2, <1>3

(* The bytes that are dumped are no more than the length says, and as many *)
(* for a plain extent.                                                     *)
LEMMA DumpedSize ==
    ASSUME po \in Options, NEW n \in Size
    PROVE  /\ Cardinality(Dumped(n)) \in Nat
           /\ Cardinality(Dumped(n)) <= ContentLength(n)
           /\ Plain => Cardinality(Dumped(n)) = ContentLength(n)
<1>1. /\ PrintStart \in Size /\ RangeLength \in Size /\ ContentLength(n) \in Size
      /\ Modulus \in Nat \ {0} /\ n \in Nat
  BY Extent, Wraps DEF Size
<1>2. /\ Cardinality(Dumped(n)) \in Nat
      /\ Cardinality(Dumped(n)) <= ContentLength(n)
      /\ PrintStart + ContentLength(n) <= n => Cardinality(Dumped(n)) = ContentLength(n)
  BY <1>1, Dump DEF Dumped
<1>3. ASSUME Plain PROVE ContentLength(n) = Clipped(n)
  BY <1>3 DEF Plain, ContentLength
<1>4. ASSUME Plain PROVE (PrintStart + RangeLength) % Modulus = PrintStart + RangeLength
  <2>1. CASE po.range = NoRange
    <3>1. PrintStart = 0 /\ PrintStart + RangeLength = RangeLength
      BY <2>1, <1>1 DEF PrintStart, Size
    <3>2. RangeLength % Modulus = RangeLength
      BY <1>1, Wraps
    <3>3. QED  BY <3>1, <3>2
  <2>2. CASE po.range # NoRange
    <3>1. po.range[1] \in Size /\ po.range[2] \in Size /\ PrintStart = po.range[1]
      BY <2>2, NumbersAssumption DEF Options, Size, PrintStart
    <3>2. po.range[1] <= po.range[2] /\ po.range[2] < Modulus - 1
      BY <1>4, <2>2 DEF Plain
    <3>3. RangeLength = po.range[2] - po.range[1] + 1
      BY <2>2, <3>1, <3>2, Wraps DEF RangeLength
    <3>4. PrintStart + RangeLength < Modulus
      BY <1>1, <3>1, <3>2, <3>3 DEF Size
    <3>5. QED  BY <1>1, <3>4, Wraps
  <2>3. QED  BY <2>1, <2>2
(* Behind the end of the sbuf nothing is announced and nothing is dumped.  *)
<1>5. ASSUME Plain, PrintStart > n PROVE Cardinality(Dumped(n)) = ContentLength(n)
  <2>1. ContentLength(n) = 0
    BY <1>3, <1>5 DEF Clipped
  <2>2. QED  BY <1>1, <1>2, <2>1
<1>6. ASSUME Plain, ~(PrintStart > n) PROVE PrintStart + ContentLength(n) <= n
  <2>1. ContentLength(n) = IF RangeLength > 0 /\ PrintStart + RangeLength > n
                           THEN n - PrintStart ELSE RangeLength
    BY <1>3, <1>4, <1>6 DEF Clipped
  <2>2. QED  BY <1>1, <1>6, <2>1 DEF Size
<1>7. QED  BY <1>2, <1>5, <1>6

-----------------------------------------------------------------------------
(* The parts of a path up to the first PRINT.                              *)
LEMMA Least ==
    ASSUME NEW T \in SUBSET Nat, T # {}
    PROVE  Min(T) \in T /\ \A y \in T : Min(T) <= y
<1>1. PICK x \in T : \A y \in T : ~ (<<y, x>> \in OpToRel(<, Nat))
  BY NatLessThanWellFounded, WFMin
<1>2. ASSUME NEW y \in T PROVE x <= y
  <2>1. ~(y < x)
    BY <1>1 DEF OpToRel
  <2>2. QED  BY <2>1
<1>3. QED  BY <1>2 DEF Min

LEMMA First ==
    ASSUME NEW s \in Seq(Part)
    PROVE  /\ FirstPrint(s) \in 0 .. Len(s)
           /\ FirstPrint(s) = 0 => \A i \in 1 .. Len(s) : s[i] # PRINT
           /\ FirstPrint(s) # 0 => s[FirstPrint(s)] = PRINT
           /\ \A i \in 1 .. FirstPrint(s) - 1 : s[i] # PRINT
<1> DEFINE I == {i \in 1 .. Len(s) : s[i] = PRINT}
<1>1. FirstPrint(s) = IF I # {} THEN Min(I) ELSE 0
  BY DEF FirstPrint, SelectInSeq
<1>2. Len(s) \in Nat /\ I \in SUBSET Nat
  BY LenProperties
<1>3. CASE I = {}
  BY <1>1, <1>2, <1>3
<1>4. CASE I # {}
  <2>1. FirstPrint(s) \in I /\ \A i \in I : FirstPrint(s) <= i
    BY <1>1, <1>2, <1>4, Least
  <2>2. ASSUME NEW i \in 1 .. FirstPrint(s) - 1 PROVE i \notin I
    BY <1>2, <2>1
  <2>3. \A i \in 1 .. FirstPrint(s) - 1 : i \in 1 .. Len(s)
    BY <1>2, <2>1
  <2>4. QED  BY <1>2, <2>1, <2>2, <2>3
<1>5. QED  BY <1>3, <1>4

(* k is the place where the path is cut: that of PRINT, or behind the end. *)
CutAt(s, k) ==
    /\ k \in 1 .. Len(s) + 1
    /\ \A i \in 1 .. k - 1 : s[i] # PRINT
    /\ k <= Len(s) => s[k] = PRINT

LEMMA CutExists ==
    ASSUME NEW s \in Seq(Part)
    PROVE  \E k \in 1 .. Len(s) + 1 : CutAt(s, k)
<1>1. Len(s) \in Nat
  BY LenProperties
<1>2. CASE FirstPrint(s) = 0
  <2>1. Len(s) + 1 \in 1 .. Len(s) + 1 /\ Len(s) + 1 - 1 = Len(s) /\ ~(Len(s) + 1 <= Len(s))
    BY <1>1
  <2>2. CutAt(s, Len(s) + 1)
    BY <1>2, <2>1, First DEF CutAt
  <2>3. QED  BY <2>1, <2>2
<1>3. CASE FirstPrint(s) # 0
  <2>1. FirstPrint(s) \in 1 .. Len(s) + 1
    BY <1>1, <1>3, First
  <2>2. CutAt(s, FirstPrint(s))
    BY <1>3, <2>1, First DEF CutAt
  <2>3. QED  BY <2>1, <2>2
<1>4. QED  BY <1>2, <1>3

LEMMA CutIs ==
    ASSUME NEW s \in Seq(Part), NEW k \in Nat, CutAt(s, k)
    PROVE  /\ UpToPrint(s) = SubSeq(s, 1, k - 1)
           /\ UpToPrint(s) \in Seq(Part) /\ Len(UpToPrint(s)) = k - 1
           /\ \A i \in 1 .. k - 1 : UpToPrint(s)[i] = s[i]
<1>1. Len(s) \in Nat /\ k \in 1 .. Len(s) + 1
  BY LenProperties DEF CutAt
<1>2. UpToPrint(s) = SubSeq(s, 1, k - 1)
  <2>1. CASE FirstPrint(s) = 0
    <3>1. k = Len(s) + 1
      BY <1>1, <2>1, First DEF CutAt
    <3>2. k - 1 = Len(s)
      BY <1>1, <3>1
    <3>3. QED  BY <2>1, <3>2, SubSeqFull DEF UpToPrint
  <2>2. CASE FirstPrint(s) # 0
    <3>1. FirstPrint(s) = k
      BY <1>1, <2>2, First DEF CutAt
    <3>2. QED  BY <2>2, <3>1 DEF UpToPrint
  <2>3. QED  BY <2>1, <2>2
<1>3. \A i \in 1 .. k - 1 : s[i] \in Part
  BY <1>1, ElementOfSeq
<1>4. /\ SubSeq(s, 1, k - 1) \in Seq(Part)
      /\ Len(SubSeq(s, 1, k - 1)) = IF 1 <= k - 1 THEN k - 1 - 1 + 1 ELSE 0
      /\ \A i \in 1 .. k - 1 - 1 + 1 : SubSeq(s, 1, k - 1)[i] = s[1 + i - 1]
  BY <1>1, <1>3, SubSeqProperties
<1>5. QED  BY <1>1, <1>2, <1>4

LEMMA UpToPrintType ==
    ASSUME NEW s \in Seq(Part) PROVE UpToPrint(s) \in Seq(Part)
BY CutExists, CutIs, LenProperties

LEMMA UpToPrintEnd ==
    ASSUME NEW s \in Seq(Part), s = <<>> \/ Head(s) = PRINT
    PROVE  UpToPrint(s) = <<>>
<1>1. Len(s) \in Nat /\ (s # <<>> => s[1] = PRINT /\ Len(s) # 0) /\ (s = <<>> => Len(s) = 0)
  BY LenProperties, EmptySeq
<1>2. CutAt(s, 1)
  BY <1>1 DEF CutAt
<1>3. QED  BY <1>2, CutIs, UpToPrintType, EmptySeq

LEMMA UpToPrintHead ==
    ASSUME NEW s \in Seq(Part), s # <<>>, Head(s) # PRINT
    PROVE  UpToPrint(s) = <<Head(s)>> \o UpToPrint(Tail(s))
<1> DEFINE t == Tail(s)
           u == UpToPrint(t)
           v == <<Head(s)>>
<1>1. /\ Len(s) \in Nat \ {0} /\ Head(s) = s[1] /\ Head(s) \in Part
      /\ t \in Seq(Part) /\ Len(t) = Len(s) - 1
      /\ \A i \in 1 .. Len(s) - 1 : t[i] = s[i + 1]
  BY EmptySeq, HeadTailProperties
<1>2. PICK k \in 1 .. Len(t) + 1 : CutAt(t, k)
  BY <1>1, CutExists
<1>3. CutAt(s, k + 1)
  <2>1. \A i \in 1 .. (k + 1) - 1 : i = 1 \/ (i - 1 \in 1 .. k - 1 /\ s[i] = t[i - 1])
    BY <1>1, <1>2
  <2>2. \A i \in 1 .. (k + 1) - 1 : s[i] # PRINT
    BY <1>1, <1>2, <2>1 DEF CutAt
  <2>3. k + 1 <= Len(s) => s[k + 1] = PRINT
    BY <1>1, <1>2 DEF CutAt
  <2>4. k + 1 \in 1 .. Len(s) + 1
    BY <1>1, <1>2
  <2>5. QED  BY <2>2, <2>3, <2>4 DEF CutAt
<1>4. /\ UpToPrint(s) \in Seq(Part) /\ Len(UpToPrint(s)) = k
      /\ \A i \in 1 .. k : UpToPrint(s)[i] = s[i]
  <2>1. k + 1 \in Nat /\ (k + 1) - 1 = k
    BY <1>1, <1>2
  <2>2. QED  BY <1>3, <2>1, CutIs
<1>5. /\ u \in Seq(Part) /\ Len(u) = k - 1 /\ \A i \in 1 .. k - 1 : u[i] = t[i]
  <2>1. k \in Nat
    BY <1>1, <1>2
  <2>2. QED  BY <1>1, <1>2, <2>1, CutIs
<1>6. v \in Seq(Part) /\ Len(v) = 1 /\ v[1] = s[1]
  BY <1>1
<1> HIDE DEF t, u, v
<1>7. /\ v \o u \in Seq(Part) /\ Len(v \o u) = Len(v) + Len(u)
      /\ \A i \in 1 .. Len(v) + Len(u) :
            (v \o u)[i] = IF i <= Len(v) THEN v[i] ELSE u[i - Len(v)]
  BY <1>5, <1>6, ConcatProperties
<1>8. ASSUME NEW i \in 1 .. k PROVE (v \o u)[i] = s[i]
  <2>1. CASE i = 1
    BY <1>2, <1>5, <1>6, <1>7, <2>1
  <2>2. CASE i # 1
    <3>1. i - 1 \in 1 .. k - 1 /\ i - 1 \in 1 .. Len(s) - 1 /\ i - 1 + 1 = i
      BY <1>1, <1>2, <2>2
    <3>2. (v \o u)[i] = u[i - 1]
      BY <1>2, <1>5, <1>6, <1>7, <2>2
    <3>3. QED  BY <1>1, <1>5, <3>1, <3>2
  <2>3. QED  BY <2>1, <2>2
<1>9. Len(v \o u) = Len(UpToPrint(s))
  BY <1>1, <1>2, <1>4, <1>5, <1>6, <1>7
<1>10. UpToPrint(s) = v \o u
  BY <1>4, <1>7, <1>8, <1>9, SeqEqual
<1>11. QED  BY <1>10 DEF t, u, v

LEMMA UpToPrintAppend ==
    ASSUME NEW s \in Seq(Part)
    PROVE  Append(s, PRINT) \in Seq(Part) /\ UpToPrint(Append(s, PRINT)) = UpToPrint(s)
<1> DEFINE a == Append(s, PRINT)
<1>1. /\ a \in Seq(Part) /\ Len(a) = Len(s) + 1 /\ Len(s) \in Nat
      /\ \A i \in 1 .. Len(s) : a[i] = s[i]
      /\ a[Len(s) + 1] = PRINT
  BY AppendProperties, LenProperties DEF Part
<1>2. PICK k \in 1 .. Len(s) + 1 : CutAt(s, k)
  BY CutExists
<1>3. CutAt(a, k)
  BY <1>1, <1>2 DEF CutAt
<1>4. /\ UpToPrint(a) \in Seq(Part) /\ Len(UpToPrint(a)) = k - 1
      /\ \A i \in 1 .. k - 1 : UpToPrint(a)[i] = a[i]
  <2>1. k \in Nat
    BY <1>1, <1>2
  <2>2. QED  BY <1>1, <1>3, <2>1, CutIs
<1>5. /\ UpToPrint(s) \in Seq(Part) /\ Len(UpToPrint(s)) = k - 1
      /\ \A i \in 1 .. k - 1 : UpToPrint(s)[i] = s[i]
  BY <1>1, <1>2, CutIs
<1>6. \A i \in 1 .. k - 1 : UpToPrint(a)[i] = UpToPrint(s)[i]
  BY <1>1, <1>2, <1>4, <1>5
<1>7. QED  BY <1>1, <1>4, <1>5, <1>6, SeqEqual

-----------------------------------------------------------------------------
(* The invariant.  Every frame is on the way that the request names; what  *)
(* is printed has as many bytes as it says; and a request that has been    *)
(* answered will not be answered again, unless a part follows a scanner.   *)
Applied == Part \cup {0}
Frame ==
    [kind : {"display", "offset", "scanner", "recurse"}, path : Seq(Part),
     trail : Seq(Applied), size : Size, left : 0 .. MaxRecursions]
Answer ==
    {answer \in [request : Nat, announced : Size, sent : Nat,
                 plain : BOOLEAN, further : BOOLEAN] :
        /\ answer.sent <= answer.announced
        /\ answer.plain => answer.sent = answer.announced}

InCall == pc \in {"call", "scanning", "returning", "finished"}
InClient == pc \in {"idle", "serving", "headers", "displayed"}
Shape ==
    /\ InCall \/ InClient \/ pc = "error"
    /\ stack \in Seq(Frame) /\ (InCall => stack # <<>>) /\ (InClient => stack = <<>>)
    /\ po \in Options /\ asked \in Paths
    /\ server \in {"none", "interactive", "http"}
    /\ eof \in {"no", "between", "inside"}
    /\ sbufs \in Nat /\ sbufs >= Len(stack)
    /\ failed = FALSE /\ pc # "error" => sbufs = Len(stack)
    /\ requests \in 0 .. MaxRequests /\ failed \in BOOLEAN
    /\ os \in Seq(Answer) /\ out \in Seq(Answer)

OnPath(path, f) ==
    /\ Named(path) = f.trail \o UpToPrint(f.path)
    /\ f.kind \in {"scanner", "recurse"} =>
          f.trail # <<>> /\ f.trail[Len(f.trail)] \in Scanner
OnWay ==
    /\ \A i \in DOMAIN stack :
          /\ OnPath(asked, stack[i])
          /\ stack[i].kind = "recurse" =>
                /\ i > 1 => DecodesFurther(asked)
                /\ i < Len(stack) => stack[i + 1].kind = "scanner"
    /\ pc = "scanning" => Top.kind = "scanner"

Answered(answer) ==
    /\ answer.request <= requests
    /\ answer.request = requests =>
          /\ pc # "headers"
          /\ InCall =>
                /\ answer.further = DecodesFurther(asked)
                /\ answer.further
                   \/ pc = "finished" \/ (pc = "returning" /\ Top.kind # "recurse")
AnsweredOnce ==
    /\ \A i \in DOMAIN Output : Answered(Output[i])
    /\ \A i, j \in DOMAIN Output :
          Output[i].request = Output[j].request => i = j \/ Output[i].further

PrintInv == Shape /\ OnWay /\ AnsweredOnce

-----------------------------------------------------------------------------
(* Frames on the stack.                                                    *)
LEMMA Popped ==
    ASSUME NEW S, NEW s \in Seq(S), s # <<>>
    PROVE  /\ Len(s) \in Nat \ {0} /\ DOMAIN s = 1 .. Len(s)
           /\ Head(s) = s[1] /\ Head(s) \in S
           /\ Tail(s) \in Seq(S) /\ Len(Tail(s)) = Len(s) - 1
           /\ DOMAIN Tail(s) = 1 .. Len(s) - 1
           /\ Len(s) > 1 => Tail(s) # <<>>
           /\ \A i \in 1 .. Len(s) - 1 : Tail(s)[i] = s[i + 1]
<1>1. Len(s) \in Nat \ {0} /\ DOMAIN s = 1 .. Len(s)
  BY EmptySeq, LenProperties
<1>2. /\ Head(s) \in S /\ Tail(s) \in Seq(S) /\ Len(Tail(s)) = Len(s) - 1
      /\ \A i \in 1 .. Len(Tail(s)) : Tail(s)[i] = s[i + 1]
  BY HeadTailProperties
<1>3. DOMAIN Tail(s) = 1 .. Len(s) - 1
  BY <1>2, LenProperties
<1>4. ASSUME Len(s) > 1 PROVE Tail(s) # <<>>
  <2>1. Len(Tail(s)) # 0
    BY <1>1, <1>2, <1>4
  <2>2. QED  BY <2>1, EmptySeq
<1>5. Head(s) = s[1]
  OBVIOUS
<1>6. QED  BY <1>1, <1>2, <1>3, <1>4, <1>5

LEMMA Pushed ==
    ASSUME NEW S, NEW s \in Seq(S), NEW f \in S
    PROVE  /\ Len(s) \in Nat /\ <<f>> \o s \in Seq(S) /\ <<f>> \o s # <<>>
           /\ Len(<<f>> \o s) = Len(s) + 1 /\ DOMAIN (<<f>> \o s) = 1 .. Len(s) + 1
           /\ (<<f>> \o s)[1] = f /\ Head(<<f>> \o s) = f
           /\ \A i \in 1 .. Len(s) : (<<f>> \o s)[i + 1] = s[i]
<1>1. <<f>> \in Seq(S) /\ Len(<<f>>) = 1 /\ <<f>>[1] = f
  OBVIOUS
<1>2. /\ Len(s) \in Nat
      /\ <<f>> \o s \in Seq(S) /\ Len(<<f>> \o s) = Len(s) + 1
      /\ \A i \in 1 .. Len(s) + 1 : (<<f>> \o s)[i] = IF i <= 1 THEN <<f>>[i] ELSE s[i - 1]
  BY <1>1, ConcatProperties, LenProperties
<1>3. DOMAIN (<<f>> \o s) = 1 .. Len(s) + 1 /\ <<f>> \o s # <<>>
  BY <1>2, LenProperties, EmptySeq
<1>4. (<<f>> \o s)[1] = f
  BY <1>1, <1>2
<1>5. \A i \in 1 .. Len(s) : (<<f>> \o s)[i + 1] = s[i]
  BY <1>2
<1>6. QED  BY <1>2, <1>3, <1>4, <1>5

LEMMA PushedTwo ==
    ASSUME NEW S, NEW s \in Seq(S), NEW f \in S, NEW g \in S
    PROVE  /\ Len(s) \in Nat /\ <<f, g>> \o s \in Seq(S) /\ <<f, g>> \o s # <<>>
           /\ Len(<<f, g>> \o s) = Len(s) + 2 /\ DOMAIN (<<f, g>> \o s) = 1 .. Len(s) + 2
           /\ (<<f, g>> \o s)[1] = f /\ (<<f, g>> \o s)[2] = g
           /\ Head(<<f, g>> \o s) = f
           /\ \A i \in 1 .. Len(s) : (<<f, g>> \o s)[i + 2] = s[i]
<1>1. <<f, g>> \in Seq(S) /\ Len(<<f, g>>) = 2 /\ <<f, g>>[1] = f /\ <<f, g>>[2] = g
  OBVIOUS
<1>2. /\ Len(s) \in Nat
      /\ <<f, g>> \o s \in Seq(S) /\ Len(<<f, g>> \o s) = Len(s) + 2
      /\ \A i \in 1 .. Len(s) + 2 :
            (<<f, g>> \o s)[i] = IF i <= 2 THEN <<f, g>>[i] ELSE s[i - 2]
  BY <1>1, ConcatProperties, LenProperties
<1>3. DOMAIN (<<f, g>> \o s) = 1 .. Len(s) + 2 /\ <<f, g>> \o s # <<>>
  BY <1>2, LenProperties, EmptySeq
<1>4. (<<f, g>> \o s)[1] = f /\ (<<f, g>> \o s)[2] = g
  BY <1>1, <1>2
<1>5. \A i \in 1 .. Len(s) : (<<f, g>> \o s)[i + 2] = s[i]
  BY <1>2
<1>6. QED  BY <1>2, <1>3, <1>4, <1>5

LEMMA TopType ==
    ASSUME Shape, stack # <<>>
    PROVE  /\ Len(stack) \in Nat \ {0} /\ DOMAIN stack = 1 .. Len(stack)
           /\ Top = stack[1] /\ Top \in Frame /\ 1 \in DOMAIN stack
           /\ Top.path \in Seq(Part) /\ Top.trail \in Seq(Applied) /\ Top.size \in Size
           /\ Top.left \in 0 .. MaxRecursions
<1>1. /\ Len(stack) \in Nat \ {0} /\ DOMAIN stack = 1 .. Len(stack)
      /\ Top = stack[1] /\ Top \in Frame
  BY Popped DEF Shape, Top
<1>2. 1 \in DOMAIN stack
  BY <1>1
<1>3. QED  BY <1>1, <1>2 DEF Frame

(* The next part of a path that does not print.                            *)
LEMMA NextPart ==
    ASSUME Shape, stack # <<>>, ~TimeToPrint
    PROVE  /\ Prefix = Head(Top.path) /\ Prefix \in Part /\ Prefix # PRINT
           /\ Top.path # <<>> /\ NewPath = Tail(Top.path) /\ NewPath \in Seq(Part)
           /\ Append(Top.trail, Prefix) \in Seq(Applied)
<1>1. Top.path # <<>> /\ Prefix # PRINT /\ Prefix = Head(Top.path) /\ NewPath = Tail(Top.path)
  BY DEF TimeToPrint, Prefix, FirstToken, NewPath, Rest
<1>2. Prefix \in Part /\ NewPath \in Seq(Part)
  BY <1>1, TopType, HeadTailProperties
<1>3. Append(Top.trail, Prefix) \in Seq(Applied)
  BY <1>2, TopType, AppendProperties DEF Applied
<1>4. QED  BY <1>1, <1>2, <1>3

LEMMA SizesAre ==
    /\ Modulus \in Nat \ {0} /\ 0 \in Size /\ 0 \in Nat /\ Offset \subseteq Size
    /\ DecodedSize \subseteq Size
    /\ MaxRecursions \in Nat /\ MaxRequests \in Nat /\ MaxParts \in Nat
    /\ 0 \in 0 .. MaxRecursions /\ MaxRecursions \in 0 .. MaxRecursions
BY NumbersAssumption DEF Size

(* A request begins on its way, whatever its path is.                      *)
LEMMA Begins ==
    ASSUME NEW path \in Paths
    PROVE  /\ path \in Seq(Part) /\ FirstFrame(path) \in Frame
           /\ Named(path) = FirstFrame(path).trail \o UpToPrint(FirstFrame(path).path)
           /\ FirstFrame(path).kind = "display"
<1> DEFINE number == Number(FirstToken(path))
<1>1. PICK n \in 0 .. MaxParts : path \in [1 .. n -> Part]
  BY DEF Paths
<1>2. n \in Nat /\ path \in Seq(Part)
  BY <1>1, SizesAre
<1>3. number \in Size /\ number \in Applied
  BY SizesAre DEF Number, Applied, Part
<1>4. Rest(path) \in Seq(Part)
  BY <1>2, HeadTailProperties, EmptySeq DEF Rest
<1>5. Reads(number) \in Size
  <2>1. /\ image_size \in Size /\ process_path_bufsize \in Size
    BY NumbersAssumption DEF Size, image_size, process_path_bufsize
  <2>2. ~(number >= image_size) => image_size - number \in Size
    BY <1>3, <2>1, SizesAre DEF Size
  <2>3. QED  BY <2>1, <2>2, SizesAre DEF Reads
<1>6. Append(Rest(path), PRINT) \in Seq(Part)
      /\ UpToPrint(Append(Rest(path), PRINT)) = UpToPrint(Rest(path))
  BY <1>4, UpToPrintAppend
<1>7. <<number>> \in Seq(Applied)
  BY <1>3
<1>8. FirstFrame(path) \in Frame
  BY <1>5, <1>6, <1>7, SizesAre DEF FirstFrame, Frame
<1>9. QED  BY <1>2, <1>6, <1>8 DEF FirstFrame, Named

(* What is printed has the length that is announced with it.               *)
LEMMA AnswerIs ==
    /\ Shape /\ stack # <<>> => Item \in Answer
    /\ requests' \in Nat => ReadError \in Answer
<1>1. ASSUME Shape, stack # <<>> PROVE Item \in Answer
  <2>1. Top.size \in Size /\ po \in Options /\ requests \in Nat
    <3>1. Top.size \in Size
      BY <1>1, TopType
    <3>2. po \in Options /\ requests \in 0 .. MaxRequests
      BY <1>1 DEF Shape
    <3>3. QED  BY <3>1, <3>2, SizesAre
  <2>2. /\ ContentLength(Top.size) \in Size /\ Cardinality(Dumped(Top.size)) \in Nat
        /\ Cardinality(Dumped(Top.size)) <= ContentLength(Top.size)
        /\ Plain => Cardinality(Dumped(Top.size)) = ContentLength(Top.size)
    BY <2>1, DumpedSize, Extent
  <2>3. Item = [request |-> requests, announced |-> ContentLength(Top.size),
                sent |-> Cardinality(Dumped(Top.size)), plain |-> Plain,
                further |-> DecodesFurther(asked)]
    BY DEF Item, Plain
  <2>4. Plain \in BOOLEAN /\ DecodesFurther(asked) \in BOOLEAN
    BY DEF Plain, DecodesFurther
  <2>5. QED  BY <2>1, <2>2, <2>3, <2>4 DEF Answer
<1>2. ASSUME requests' \in Nat PROVE ReadError \in Answer
  BY <1>2, SizesAre DEF ReadError, Answer
<1>3. QED  BY <1>1, <1>2

LEMMA OptionsAre ==
    /\ DefaultOptions \in Options /\ <<>> \in Paths
    /\ \A suffix \in Suffix :
          [DefaultOptions EXCEPT !.print_mode = suffix[1], !.content_length = suffix[2]] \in Options
    /\ [DefaultOptions EXCEPT !.print_mode = "hex"] \in Options
    /\ [DefaultOptions EXCEPT !.print_mode = "http"] \in Options
    /\ \A range \in RangeHeader : po \in Options => [po EXCEPT !.range = range] \in Options
<1>1. DefaultOptions \in Options
  BY SizesAre DEF DefaultOptions, Options
<1>2. <<>> \in Paths
  <2>1. 0 \in 0 .. MaxParts /\ <<>> \in [1 .. 0 -> Part]
    BY SizesAre
  <2>2. QED  BY <2>1 DEF Paths
<1>3. ASSUME NEW suffix \in Suffix
      PROVE  [DefaultOptions EXCEPT !.print_mode = suffix[1], !.content_length = suffix[2]] \in Options
  <2>1. suffix[1] \in {"none", "raw", "hex"} /\ suffix[2] \in Size
    BY NumbersAssumption DEF Size
  <2>2. QED  BY <2>1, SizesAre DEF DefaultOptions, Options
<1>4. /\ [DefaultOptions EXCEPT !.print_mode = "hex"] \in Options
      /\ [DefaultOptions EXCEPT !.print_mode = "http"] \in Options
  BY SizesAre DEF DefaultOptions, Options
<1>5. ASSUME NEW range \in RangeHeader, po \in Options
      PROVE  [po EXCEPT !.range = range] \in Options
  BY <1>5 DEF Options
<1>6. QED  BY <1>1, <1>2, <1>3, <1>4, <1>5

-----------------------------------------------------------------------------
(* Each step keeps the shape.                                              *)
LEMMA ShapeDisplay ==
    ASSUME Shape, stack = <<>>, InClient, NEW path \in Paths, NEW options \in Options,
           DisplayPath(path, options), requests' \in 0 .. MaxRequests,
           server' = server, eof' \in {"no", "between", "inside"}
    PROVE  Shape'
<1>1. /\ asked' \in Paths /\ po' \in Options /\ out' \in Seq(Answer) /\ failed' \in BOOLEAN
      /\ failed' = failed /\ server' \in {"none", "interactive", "http"}
      /\ requests' \in Nat /\ Len(stack) = 0 /\ sbufs \in Nat
  <2>1. /\ asked' \in Paths /\ po' \in Options /\ out' \in Seq(Answer)
        /\ failed' \in BOOLEAN /\ failed' = failed
    BY DEF DisplayPath, Shape
  <2>2. server' \in {"none", "interactive", "http"} /\ sbufs \in Nat
    BY DEF Shape
  <2>3. requests' \in Nat /\ Len(stack) = 0
    BY SizesAre, EmptySeq
  <2>4. QED  BY <2>1, <2>2, <2>3
<1>2. failed = FALSE => sbufs = 0
  <2>1. pc # "error"
    BY DEF InClient
  <2>2. QED  BY <1>1, <2>1 DEF Shape
<1>3. CASE /\ pc' = "call" /\ stack' = <<FirstFrame(path)>>
           /\ sbufs' = sbufs + 1 /\ UNCHANGED os
  <2>1. stack' \in Seq(Frame) /\ Len(stack') = 1
    <3>1. FirstFrame(path) \in Frame
      BY Begins
    <3>2. QED  BY <1>3, <3>1
  <2>2. stack' # <<>>
    BY <2>1, EmptySeq
  <2>3. sbufs' \in Nat /\ sbufs' >= 1 /\ (failed = FALSE => sbufs' = 1)
    BY <1>1, <1>2, <1>3
  <2>4. InCall' /\ ~InClient' /\ pc' # "error" /\ os' \in Seq(Answer)
    BY <1>3 DEF InCall, InClient, Shape
  <2>5. QED  BY <1>1, <2>1, <2>2, <2>3, <2>4 DEF Shape
<1>4. CASE /\ pc' = "displayed" /\ UNCHANGED <<stack, sbufs>> /\ os' = Append(os, ReadError)
  <2>1. os' \in Seq(Answer)
    BY <1>1, <1>4, AnswerIs, AppendProperties DEF Shape
  <2>2. ~InCall' /\ InClient' /\ stack' = <<>> /\ sbufs' = sbufs
    BY <1>4 DEF InCall, InClient
  <2>3. stack' \in Seq(Frame) /\ Len(stack') = 0
    BY <2>2, EmptySeq
  <2>4. sbufs' \in Nat /\ sbufs' >= 0 /\ (failed = FALSE => sbufs' = 0)
    BY <1>1, <1>2, <2>2
  <2>5. QED  BY <1>1, <2>1, <2>2, <2>3, <2>4 DEF Shape
<1>5. CASE /\ pc' = "error" /\ sbufs' = sbufs + 1 /\ UNCHANGED <<stack, os>>
  <2>1. ~InCall' /\ ~InClient' /\ stack' = <<>> /\ os' \in Seq(Answer)
    BY <1>5 DEF InCall, InClient, Shape
  <2>2. stack' \in Seq(Frame) /\ Len(stack') = 0
    BY <2>1, EmptySeq
  <2>3. sbufs' \in Nat /\ sbufs' >= 0
    BY <1>1, <1>5
  <2>4. QED  BY <1>1, <1>5, <2>1, <2>2, <2>3 DEF Shape
<1>6. QED  BY <1>3, <1>4, <1>5 DEF DisplayPath

(* Of the shape only the calls and their sbufs are changed.                *)
LEMMA ShapeKept ==
    ASSUME Shape, UNCHANGED <<os, client>>, InCall' \/ InClient' \/ pc' = "error",
           stack' \in Seq(Frame), InCall' => stack' # <<>>, InClient' => stack' = <<>>,
           sbufs' \in Nat, sbufs' >= Len(stack'),
           failed = FALSE /\ pc' # "error" => sbufs' = Len(stack')
    PROVE  Shape'
<1>1. UNCHANGED <<os, out, po, asked, server, eof, requests, failed>>
  BY DEF client, history
<1>2. QED  BY <1>1 DEF Shape

LEMMA ShapeCall ==
    ASSUME Shape, InCall, NEW f \in Frame, Call(f), sbufs' = sbufs + 1,
           pc' \in {"call", "scanning"}, UNCHANGED <<os, client>>
    PROVE  Shape'
<1>1. stack \in Seq(Frame) /\ stack' = <<f>> \o stack
  BY DEF Shape, Call
<1>2. /\ stack' \in Seq(Frame) /\ stack' # <<>> /\ Len(stack') = Len(stack) + 1
      /\ Len(stack) \in Nat
  BY <1>1, Pushed
<1>3. sbufs \in Nat /\ sbufs >= Len(stack) /\ (failed = FALSE => sbufs = Len(stack))
  BY DEF Shape, InCall
<1>4. sbufs' \in Nat /\ sbufs' >= Len(stack') /\ (failed = FALSE => sbufs' = Len(stack'))
  BY <1>2, <1>3
<1>5. InCall' /\ ~InClient' /\ pc' # "error"
  BY DEF InCall, InClient
<1>6. QED  BY <1>2, <1>4, <1>5, ShapeKept

LEMMA ShapeReturn ==
    ASSUME Shape, InCall, stack' = Tail(stack), sbufs' = sbufs - 1, UNCHANGED <<os, client>>,
           \/ Len(stack) > 1 /\ pc' \in {"scanning", "returning", "finished"}
           \/ Len(stack) = 1 /\ pc' = "displayed"
    PROVE  Shape'
<1>1. stack \in Seq(Frame) /\ stack # <<>>
  BY DEF Shape
<1>2. /\ stack' \in Seq(Frame) /\ Len(stack') = Len(stack) - 1 /\ Len(stack) \in Nat \ {0}
      /\ Len(stack) > 1 => stack' # <<>>
      /\ Len(stack) = 1 => stack' = <<>>
  BY <1>1, Popped, EmptySeq
<1>3. sbufs \in Nat /\ sbufs >= Len(stack) /\ (failed = FALSE => sbufs = Len(stack))
  BY DEF Shape, InCall
<1>4. sbufs' \in Nat /\ sbufs' >= Len(stack') /\ (failed = FALSE => sbufs' = Len(stack'))
  <2>1. \A n, m \in Nat : n >= m /\ m # 0 => n - 1 \in Nat /\ n - 1 >= m - 1
    OBVIOUS
  <2>2. QED  BY <1>2, <1>3, <2>1
<1>5. CASE Len(stack) > 1 /\ pc' \in {"scanning", "returning", "finished"}
  <2>1. InCall' /\ ~InClient'
    BY <1>5 DEF InCall, InClient
  <2>2. QED  BY <1>2, <1>4, <1>5, <2>1, ShapeKept
<1>6. CASE Len(stack) = 1 /\ pc' = "displayed"
  <2>1. ~InCall' /\ InClient'
    BY <1>6 DEF InCall, InClient
  <2>2. QED  BY <1>2, <1>4, <1>6, <2>1, ShapeKept
<1>7. QED  BY <1>5, <1>6

LEMMA ShapeRecurse ==
    ASSUME Shape, NEW size \in DecodedSize, Recurse(size)
    PROVE  /\ Shape' /\ stack # <<>>
           /\ [Top EXCEPT !.kind = "recurse", !.size = size] \in Frame
           /\ [Top EXCEPT !.left = @ - 1] \in Frame
<1>1. InCall /\ stack # <<>> /\ stack \in Seq(Frame)
  BY DEF Recurse, Shape, InCall
<1>2. /\ Tail(stack) \in Seq(Frame) /\ Len(Tail(stack)) = Len(stack) - 1
      /\ Len(stack) \in Nat \ {0}
  BY <1>1, Popped
<1>3. [Top EXCEPT !.kind = "recurse", !.size = size] \in Frame
  BY <1>1, TopType, SizesAre DEF Frame
<1>4. [Top EXCEPT !.left = @ - 1] \in Frame
  <2>1. Top \in Frame /\ Top.left - 1 \in 0 .. MaxRecursions
    BY <1>1, TopType, SizesAre DEF Recurse
  <2>2. QED  BY <2>1 DEF Frame
<1>5. stack' \in Seq(Frame) /\ stack' # <<>> /\ Len(stack') = Len(stack) + 1
  <2>1. stack' = <<[Top EXCEPT !.kind = "recurse", !.size = size],
                   [Top EXCEPT !.left = @ - 1]>> \o Tail(stack)
    BY DEF Recurse
  <2>2. /\ stack' \in Seq(Frame) /\ stack' # <<>> /\ Len(stack') = Len(Tail(stack)) + 2
    BY <1>2, <1>3, <1>4, <2>1, PushedTwo
  <2>3. QED  BY <1>2, <2>2
<1>6. sbufs \in Nat /\ sbufs >= Len(stack) /\ (failed = FALSE => sbufs = Len(stack))
  BY <1>1 DEF Shape, InCall
<1>7. sbufs' \in Nat /\ sbufs' >= Len(stack') /\ (failed = FALSE => sbufs' = Len(stack'))
  <2>1. sbufs' = sbufs + 1
    BY DEF Recurse
  <2>2. Len(stack') = Len(stack) + 1 /\ Len(stack) \in Nat
    BY <1>2, <1>5
  <2>3. \A n, m \in Nat : n >= m => n + 1 \in Nat /\ n + 1 >= m + 1
    OBVIOUS
  <2>4. QED  BY <1>6, <2>1, <2>2, <2>3
<1>8. InCall' /\ ~InClient' /\ UNCHANGED <<os, client>>
  BY DEF Recurse, InCall, InClient
<1>9. QED  BY <1>1, <1>3, <1>4, <1>5, <1>7, <1>8, ShapeKept

(* A step of the client leaves the calls and the printing alone.           *)
LEMMA ShapeClient ==
    ASSUME Shape, stack = <<>>, InClient, InClient', UNCHANGED <<stack, sbufs, failed>>,
           asked' \in Paths, po' \in Options, server' \in {"none", "interactive", "http"},
           eof' \in {"no", "between", "inside"}, requests' \in 0 .. MaxRequests,
           os' \in Seq(Answer), out' \in Seq(Answer)
    PROVE  Shape'
<1>1. sbufs' \in Nat /\ sbufs' >= Len(stack') /\ (failed = FALSE => sbufs' = Len(stack'))
  BY DEF Shape, InClient
<1>2. /\ ~InCall' /\ stack' \in Seq(Frame) /\ failed' \in BOOLEAN
      /\ (failed' = FALSE => failed = FALSE)
  BY DEF Shape, InCall, InClient
<1>3. QED  BY <1>1, <1>2 DEF Shape

LEMMA Counted ==
    ASSUME Shape, CountRequest
    PROVE  /\ requests' \in 0 .. MaxRequests /\ requests' \in Nat
           /\ requests \in Nat /\ requests < requests'
<1>1. requests \in 0 .. MaxRequests /\ requests < MaxRequests /\ requests' = requests + 1
  BY DEF Shape, CountRequest
<1>2. QED  BY <1>1, SizesAre

(* What has been printed: all of it is still there, in its order, and a    *)
(* step adds one answer at the most.                                       *)
LEMMA OutputIs ==
    ASSUME os \in Seq(Answer), out \in Seq(Answer), NEW x \in Answer
    PROVE  /\ Output \in Seq(Answer)
           /\ out \o Append(os, x) = Append(Output, x)
           /\ Flush => Output' = Output /\ os' \in Seq(Answer) /\ out' \in Seq(Answer)
<1>1. Output \in Seq(Answer)
  BY ConcatProperties DEF Output
<1>2. out \o Append(os, x) = Append(Output, x)
  <2>1. Append(os, x) = os \o <<x>> /\ Append(Output, x) = Output \o <<x>> /\ <<x>> \in Seq(Answer)
    BY <1>1, AppendIsConcat
  <2>2. QED  BY <2>1, ConcatAssociative DEF Output
<1>3. ASSUME Flush PROVE Output' = Output /\ os' \in Seq(Answer) /\ out' \in Seq(Answer)
  <2>1. out' = Output /\ os' = <<>>
    BY <1>3 DEF Flush, Output
  <2>2. Output' = out' \o os'
    BY DEF Output
  <2>3. QED  BY <1>1, <2>1, <2>2, ConcatEmptySeq, EmptySeq
<1>4. QED  BY <1>1, <1>2, <1>3

LEMMA ShapeNext == Shape /\ [Next]_vars => Shape'
<1> SUFFICES ASSUME Shape, [Next]_vars PROVE Shape'
  OBVIOUS
<1>1. /\ po \in Options /\ asked \in Paths /\ server \in {"none", "interactive", "http"}
      /\ eof \in {"no", "between", "inside"} /\ requests \in 0 .. MaxRequests
      /\ os \in Seq(Answer) /\ out \in Seq(Answer)
      /\ (InCall => stack # <<>>) /\ (InClient => stack = <<>>)
  BY DEF Shape
<1>2. CASE DisplayPathReturns
  <2>1. InCall /\ Len(stack) = 1 /\ pc' = "displayed" /\ UNCHANGED <<os, client>>
    BY <1>2 DEF DisplayPathReturns, InCall
  <2>2. stack' = Tail(stack) /\ sbufs' = sbufs - 1
    <3>1. stack \in Seq(Frame) /\ stack # <<>>
      BY <1>1, <2>1 DEF Shape
    <3>2. Tail(stack) \in Seq(Frame) /\ Len(Tail(stack)) = 0
      BY <2>1, <3>1, Popped
    <3>3. QED  BY <1>2, <3>2, EmptySeq DEF DisplayPathReturns
  <2>3. QED  BY <2>1, <2>2, ShapeReturn
<1>3. CASE PrintSbuf
  <2>1. stack # <<>> /\ InCall' /\ ~InClient' /\ pc # "error" /\ pc' # "error"
    BY <1>1, <1>3 DEF PrintSbuf, InCall, InClient
  <2>2. os' \in Seq(Answer)
    BY <1>1, <1>3, <2>1, AnswerIs, AppendProperties DEF PrintSbuf
  <2>3. UNCHANGED <<stack, sbufs, out, po, asked, server, eof, requests, failed>>
    BY <1>3 DEF PrintSbuf, client, history
  <2>4. QED  BY <2>1, <2>2, <2>3 DEF Shape
<1>4. CASE SkipToOffset
  <2> DEFINE f == [kind |-> "offset", path |-> NewPath, trail |-> Append(Top.trail, Prefix),
                   size |-> Top.size - Prefix, left |-> 0]
  <2>1. InCall /\ stack # <<>> /\ ~TimeToPrint /\ Prefix \in Offset /\ Prefix <= Top.size
    BY <1>1, <1>4 DEF SkipToOffset, InCall
  <2>2. Top.size - Prefix \in Size
    BY <2>1, TopType, SizesAre DEF Size
  <2>3. f \in Frame
    BY <2>1, <2>2, NextPart, SizesAre DEF Frame
  <2>4. Call(f) /\ sbufs' = sbufs + 1 /\ pc' \in {"call", "scanning"} /\ UNCHANGED <<os, client>>
    BY <1>4 DEF SkipToOffset
  <2>5. QED  BY <2>1, <2>3, <2>4, ShapeCall
<1>5. CASE CallScanner
  <2> DEFINE f == [kind |-> "scanner", path |-> NewPath, trail |-> Append(Top.trail, Prefix),
                   size |-> Top.size, left |-> MaxRecursions]
  <2>1. InCall /\ stack # <<>> /\ ~TimeToPrint
    BY <1>1, <1>5 DEF CallScanner, InCall
  <2>2. f \in Frame
    BY <2>1, TopType, NextPart, SizesAre DEF Frame
  <2>3. Call(f) /\ sbufs' = sbufs + 1 /\ pc' \in {"call", "scanning"} /\ UNCHANGED <<os, client>>
    BY <1>5 DEF CallScanner
  <2>4. QED  BY <2>1, <2>2, <2>3, ShapeCall
<1>6. CASE BadPart \/ ScannerReturns \/ ScannerThrows
  <2>1. /\ stack # <<>> /\ pc # "error" /\ pc' \in {"error", "returning"}
        /\ UNCHANGED <<stack, os, sbufs, client>>
    BY <1>1, <1>6 DEF BadPart, ScannerReturns, ScannerThrows, InCall
  <2>2. (InCall' \/ pc' = "error") /\ ~InClient'
    BY <2>1 DEF InCall, InClient
  <2>3. /\ stack' \in Seq(Frame) /\ stack' # <<>> /\ sbufs' \in Nat /\ sbufs' >= Len(stack')
        /\ (failed = FALSE => sbufs' = Len(stack'))
    BY <2>1 DEF Shape
  <2>4. QED  BY <2>1, <2>2, <2>3, ShapeKept
<1>7. CASE RecurseReturns \/ ProcessSpReturns
  <2>1. /\ InCall /\ Len(stack) > 1 /\ stack' = Tail(stack) /\ sbufs' = sbufs - 1
        /\ pc' \in {"scanning", "returning", "finished"} /\ UNCHANGED <<os, client>>
    BY <1>7 DEF RecurseReturns, ProcessSpReturns, InCall
  <2>2. QED  BY <2>1, ShapeReturn
<1>8. CASE Unwind
  <2>1. /\ pc' = "idle" /\ stack' = <<>> /\ server' = "none" /\ eof' = "no" /\ failed' = TRUE
        /\ po' = DefaultOptions /\ asked' = <<>> /\ UNCHANGED <<os, out, sbufs, requests>>
    BY <1>8 DEF Unwind, Forget
  <2>2. /\ ~InCall' /\ InClient' /\ stack' \in Seq(Frame) /\ Len(stack') = 0
        /\ po' \in Options /\ asked' \in Paths /\ failed' \in BOOLEAN
        /\ ~(failed' = FALSE)
    BY <2>1, OptionsAre, EmptySeq DEF InCall, InClient
  <2>3. sbufs' \in Nat /\ sbufs' >= 0
    BY <2>1 DEF Shape
  <2>4. QED  BY <1>1, <2>1, <2>2, <2>3 DEF Shape
<1>9. CASE ProcessPathReturns
  <2>1. /\ InClient /\ InClient' /\ Flush /\ po' = DefaultOptions /\ asked' = <<>>
        /\ UNCHANGED <<stack, sbufs, failed, server, eof, requests>>
    BY <1>9 DEF ProcessPathReturns, InClient, Forget, history
  <2>2. os' \in Seq(Answer) /\ out' \in Seq(Answer)
    BY <1>1, <2>1, OutputIs, AnswerIs DEF Flush
  <2>3. QED  BY <1>1, <2>1, <2>2, OptionsAre, ShapeClient
<1>10. CASE NextRequest
  <2>1. /\ InClient /\ InClient' /\ po' = DefaultOptions /\ asked' = <<>>
        /\ UNCHANGED <<stack, sbufs, failed, server, eof, requests, os, out>>
    BY <1>10 DEF NextRequest, InClient, Forget, history
  <2>2. QED  BY <1>1, <2>1, OptionsAre, ShapeClient
<1>11. ASSUME NEW size \in DecodedSize, Recurse(size) PROVE Shape'
  BY <1>11, ShapeRecurse
<1>12. ASSUME NEW path \in Paths, InteractiveLine(path) PROVE Shape'
  <2>1. /\ InClient /\ CountRequest /\ server' = server /\ eof' = eof
        /\ DisplayPath(path, [DefaultOptions EXCEPT !.print_mode = "hex"])
    BY <1>12 DEF InteractiveLine, InClient
  <2>2. QED  BY <1>1, <2>1, Counted, OptionsAre, ShapeDisplay
<1>13. ASSUME NEW path \in Paths, NEW suffix \in Suffix, ProcessPath(path, suffix) PROVE Shape'
  <2>1. /\ InClient /\ CountRequest /\ server' = server /\ eof' = eof
        /\ DisplayPath(path, [DefaultOptions EXCEPT !.print_mode = suffix[1],
                                                   !.content_length = suffix[2]])
    BY <1>13 DEF ProcessPath, InClient
  <2>2. QED  BY <1>1, <2>1, Counted, OptionsAre, ShapeDisplay
<1>14. ASSUME NEW end \in {"no", "between"}, HttpDisplay(end) PROVE Shape'
  <2>1. /\ InClient /\ server' = server /\ requests' = requests /\ eof' = end
        /\ DisplayPath(asked, po)
    BY <1>14 DEF HttpDisplay, InClient
  <2>2. QED  BY <1>1, <2>1, ShapeDisplay
<1>15. CASE InteractiveEnd \/ HttpEnd
  <2>1. /\ InClient /\ InClient' /\ server' = "none" /\ eof' = "no"
        /\ UNCHANGED <<stack, po, asked, os, out, sbufs, requests, failed>>
    BY <1>15 DEF InteractiveEnd, HttpEnd, ServerReturns, InClient, history
  <2>2. QED  BY <1>1, <2>1, ShapeClient
<1>16. ASSUME NEW path \in Paths, NEW cut \in BOOLEAN, HttpGet(path, cut) PROVE Shape'
  <2>1. /\ InClient /\ InClient' /\ CountRequest /\ asked' \in Paths
        /\ po' = [DefaultOptions EXCEPT !.print_mode = "http"]
        /\ eof' \in {"no", "between", "inside"}
        /\ UNCHANGED <<stack, server, os, out, sbufs, failed>>
    BY <1>16 DEF HttpGet, InClient
  <2>2. QED  BY <1>1, <2>1, Counted, OptionsAre, ShapeClient
<1>17. ASSUME NEW range \in RangeHeader, NEW cut \in BOOLEAN, HttpHeader(range, cut) PROVE Shape'
  <2>1. /\ InClient /\ InClient' /\ po' = [po EXCEPT !.range = range]
        /\ eof' \in {"no", "between", "inside"}
        /\ UNCHANGED <<stack, asked, server, os, out, sbufs, requests, failed>>
    BY <1>17 DEF HttpHeader, InClient, history
  <2>2. QED  BY <1>1, <2>1, OptionsAre, ShapeClient
<1>18. ASSUME NEW end \in {"no", "between"}, HttpInfo(end) PROVE Shape'
  <2>1. /\ InClient /\ InClient' /\ CountRequest /\ eof' \in {"no", "between", "inside"}
        /\ UNCHANGED <<stack, po, asked, server, os, out, sbufs, failed>>
    BY <1>18 DEF HttpInfo, InClient
  <2>2. QED  BY <1>1, <2>1, Counted, ShapeClient
<1>19. ASSUME NEW kind \in {"interactive", "http"}, StartServer(kind) PROVE Shape'
  <2>1. /\ InClient /\ InClient' /\ server' = kind /\ eof' = "no"
        /\ UNCHANGED <<stack, po, asked, os, out, sbufs, requests, failed>>
    BY <1>19 DEF StartServer, InClient, history
  <2>2. QED  BY <1>1, <2>1, ShapeClient
<1>20. CASE HttpSameLine \/ UNCHANGED vars
  <2>1. UNCHANGED vars
    BY <1>20 DEF HttpSameLine
  <2>2. UNCHANGED <<pc, stack, po, asked, server, eof, os, out, sbufs, requests, failed>>
    BY <2>1 DEF vars, history
  <2>3. QED  BY <2>2 DEF Shape, InCall, InClient
<1>21. QED
  BY <1>2, <1>3, <1>4, <1>5, <1>6, <1>7, <1>8, <1>9, <1>10, <1>11, <1>12, <1>13, <1>14,
     <1>15, <1>16, <1>17, <1>18, <1>19, <1>20
     DEF Next, ProgramStep, ScannerStep, ClientStep

-----------------------------------------------------------------------------
(* Each step keeps to the way: what is left of the path begins with the    *)
(* next part, and a part that follows a scanner is called below it.        *)
LEMMA WayIs ==
    ASSUME Shape, OnWay, stack # <<>>
    PROVE  OnPath(asked, Top)
BY TopType DEF OnWay

LEMMA WayGoesOn ==
    ASSUME Shape, OnWay, stack # <<>>, ~TimeToPrint
    PROVE  /\ Named(asked) = Append(Top.trail, Prefix) \o UpToPrint(NewPath)
           /\ Append(Top.trail, Prefix) # <<>>
           /\ Append(Top.trail, Prefix)[Len(Append(Top.trail, Prefix))] = Prefix
           /\ Top.kind = "recurse" => DecodesFurther(asked)
<1> DEFINE t == Top.trail
           u == UpToPrint(NewPath)
<1>1. /\ t \in Seq(Applied) /\ Top.path \in Seq(Part) /\ Prefix \in Applied
      /\ NewPath \in Seq(Part) /\ Append(t, Prefix) \in Seq(Applied) /\ <<Prefix>> \in Seq(Applied)
  BY TopType, NextPart DEF Applied
<1>2. u \in Seq(Applied)
  <2>1. u \in Seq(Part) /\ Part \subseteq Applied
    BY <1>1, UpToPrintType DEF Applied
  <2>2. QED  BY <2>1, SeqMonotonic
<1>3. Named(asked) = t \o UpToPrint(Top.path) /\ UpToPrint(Top.path) = <<Prefix>> \o u
  BY <1>1, WayIs, NextPart, UpToPrintHead DEF OnPath
<1>4. Append(t, Prefix) = t \o <<Prefix>>
  BY <1>1, AppendIsConcat
<1>5. (t \o <<Prefix>>) \o u = t \o (<<Prefix>> \o u)
  <2> DEFINE p == <<Prefix>>
  <2>1. p \in Seq(Applied)
    BY <1>1
  <2> HIDE DEF p, t, u
  <2>2. (t \o p) \o u = t \o (p \o u)
    BY <1>1, <1>2, <2>1, ConcatAssociative
  <2>3. QED  BY <2>2 DEF p
<1>6. Named(asked) = Append(t, Prefix) \o u
  BY <1>3, <1>4, <1>5
<1>7. /\ Len(t) \in Nat /\ Len(Append(t, Prefix)) = Len(t) + 1 /\ Append(t, Prefix) # <<>>
      /\ Append(t, Prefix)[Len(t) + 1] = Prefix
      /\ \A i \in 1 .. Len(t) : Append(t, Prefix)[i] = t[i]
  BY <1>1, AppendProperties, LenProperties
<1>8. ASSUME Top.kind = "recurse" PROVE DecodesFurther(asked)
  <2> DEFINE n == Named(asked)
             i == Len(t)
  <2>1. t # <<>> /\ t[Len(t)] \in Scanner
    BY <1>8, WayIs DEF OnPath
  <2>2. i \in 1 .. Len(t) /\ i \in Nat \ {0}
    BY <1>1, <2>1, EmptySeq
  <2>3. /\ n \in Seq(Applied) /\ Len(n) = Len(Append(t, Prefix)) + Len(u) /\ Len(u) \in Nat
        /\ \A k \in 1 .. Len(Append(t, Prefix)) + Len(u) :
              n[k] = IF k <= Len(Append(t, Prefix)) THEN Append(t, Prefix)[k]
                     ELSE u[k - Len(Append(t, Prefix))]
    BY <1>1, <1>2, <1>6, ConcatProperties, LenProperties
  <2>4. DOMAIN n = 1 .. Len(n)
    BY <2>3, LenProperties
  <2>5. i \in DOMAIN n /\ i + 1 \in DOMAIN n /\ i < i + 1 /\ n[i] = t[i]
    BY <1>7, <2>2, <2>3, <2>4
  <2>6. n[i] \in Scanner
    BY <2>1, <2>5
  <2> HIDE DEF i, n
  <2>7. \E k, j \in DOMAIN n : k < j /\ n[k] \in Scanner
    BY <2>5, <2>6
  <2>8. QED  BY <2>7 DEF DecodesFurther, n
<1>9. QED  BY <1>6, <1>7, <1>8

LEMMA WayCall ==
    ASSUME Shape, OnWay, stack # <<>>, NEW f \in Frame, Call(f), asked' = asked,
           OnPath(asked, f), f.kind # "recurse", Top.kind = "recurse" => DecodesFurther(asked),
           pc' = "scanning" => f.kind = "scanner"
    PROVE  OnWay'
<1>1. /\ stack \in Seq(Frame) /\ stack' = <<f>> \o stack
      /\ Top = stack[1] /\ DOMAIN stack = 1 .. Len(stack)
  BY TopType DEF Shape, Call
<1>2. /\ Len(stack) \in Nat /\ Len(stack') = Len(stack) + 1 /\ DOMAIN stack' = 1 .. Len(stack) + 1
      /\ stack'[1] = f /\ Top' = f
      /\ \A i \in 1 .. Len(stack) : stack'[i + 1] = stack[i]
  BY <1>1, Pushed DEF Top
<1>3. ASSUME NEW i \in DOMAIN stack'
      PROVE  /\ OnPath(asked, stack'[i])
             /\ stack'[i].kind = "recurse" =>
                   /\ i > 1 => DecodesFurther(asked)
                   /\ i < Len(stack') => stack'[i + 1].kind = "scanner"
  <2>1. CASE i = 1
    BY <1>2, <2>1
  <2>2. CASE i # 1
    <3> DEFINE j == i - 1
    <3>1. j \in DOMAIN stack /\ j + 1 = i /\ stack'[i] = stack[j]
      BY <1>1, <1>2, <2>2
    <3>2. i < Len(stack') => j < Len(stack) /\ stack'[i + 1] = stack[j + 1]
      BY <1>1, <1>2, <3>1
    <3>3. j = 1 \/ j > 1
      BY <1>1, <3>1
    <3> HIDE DEF j
    <3>4. OnPath(asked, stack'[i])
      BY <3>1 DEF OnWay
    <3>5. ASSUME stack[j].kind = "recurse"
          PROVE  DecodesFurther(asked) /\ (j < Len(stack) => stack[j + 1].kind = "scanner")
      <4>1. /\ j > 1 => DecodesFurther(asked)
            /\ j < Len(stack) => stack[j + 1].kind = "scanner"
        BY <3>1, <3>5 DEF OnWay
      <4>2. j = 1 => DecodesFurther(asked)
        BY <1>1, <3>5
      <4>3. QED  BY <3>3, <4>1, <4>2
    <3>6. QED  BY <3>1, <3>2, <3>4, <3>5
  <2>3. QED  BY <2>1, <2>2
<1>4. QED  BY <1>2, <1>3 DEF OnWay

LEMMA WayReturn ==
    ASSUME Shape, OnWay, Len(stack) > 1, stack # <<>>, stack' = Tail(stack), asked' = asked,
           pc' = "scanning" => Top.kind = "recurse"
    PROVE  /\ OnWay'
           /\ Top'.kind = "recurse" => DecodesFurther(asked)
<1>1. /\ stack \in Seq(Frame) /\ Len(stack) \in Nat \ {0} /\ DOMAIN stack = 1 .. Len(stack)
      /\ Top = stack[1]
  BY TopType DEF Shape
<1>2. /\ DOMAIN stack' = 1 .. Len(stack) - 1 /\ Len(stack') = Len(stack) - 1
      /\ \A i \in 1 .. Len(stack) - 1 : stack'[i] = stack[i + 1]
      /\ Top' = stack[2] /\ 2 \in DOMAIN stack
  <2>1. /\ Tail(stack) \in Seq(Frame) /\ Tail(stack) # <<>>
        /\ DOMAIN Tail(stack) = 1 .. Len(stack) - 1 /\ Len(Tail(stack)) = Len(stack) - 1
        /\ \A i \in 1 .. Len(stack) - 1 : Tail(stack)[i] = stack[i + 1]
    BY <1>1, Popped
  <2>2. Head(Tail(stack)) = Tail(stack)[1]
    BY <2>1, Popped
  <2>3. 1 \in 1 .. Len(stack) - 1 /\ 1 + 1 = 2 /\ 2 \in DOMAIN stack
    BY <1>1
  <2>4. Tail(stack)[1] = stack[2]
    BY <2>1, <2>3
  <2>5. QED  BY <2>1, <2>2, <2>3, <2>4 DEF Top
<1>3. ASSUME NEW i \in DOMAIN stack'
      PROVE  /\ OnPath(asked, stack'[i])
             /\ stack'[i].kind = "recurse" =>
                   /\ i > 1 => DecodesFurther(asked)
                   /\ i < Len(stack') => stack'[i + 1].kind = "scanner"
  <2>1. i + 1 \in DOMAIN stack /\ i + 1 > 1 /\ stack'[i] = stack[i + 1]
    BY <1>1, <1>2
  <2>2. i < Len(stack') => i + 1 < Len(stack) /\ stack'[i + 1] = stack[(i + 1) + 1]
    BY <1>1, <1>2
  <2>3. QED  BY <2>1, <2>2 DEF OnWay
<1>4. ASSUME Top.kind = "recurse" PROVE Top'.kind = "scanner"
  <2>1. 1 \in DOMAIN stack /\ 1 + 1 = 2 /\ stack[1].kind = "recurse"
    BY <1>1, <1>4
  <2>2. stack[2].kind = "scanner"
    BY <2>1 DEF OnWay
  <2>3. QED  BY <1>2, <2>2
<1>5. Top'.kind = "recurse" => DecodesFurther(asked)
  <2>1. 2 > 1
    OBVIOUS
  <2>2. QED  BY <1>2, <2>1 DEF OnWay
<1>6. QED  BY <1>3, <1>4, <1>5 DEF OnWay

LEMMA WayRecurse ==
    ASSUME Shape, OnWay, NEW size \in DecodedSize, Recurse(size)
    PROVE  OnWay'
<1> DEFINE f == [Top EXCEPT !.kind = "recurse", !.size = size]
           g == [Top EXCEPT !.left = @ - 1]
<1>1. /\ stack # <<>> /\ f \in Frame /\ g \in Frame /\ Top \in Frame /\ Top.kind = "scanner"
      /\ stack' = <<f, g>> \o Tail(stack) /\ pc' = "call" /\ asked' = asked
  BY ShapeRecurse, TopType DEF Recurse, OnWay, client
<1>2. /\ f.path = Top.path /\ f.trail = Top.trail /\ f.kind = "recurse"
      /\ g.path = Top.path /\ g.trail = Top.trail /\ g.kind = "scanner"
  BY <1>1 DEF Frame
<1>3. OnPath(asked, f) /\ OnPath(asked, g)
  BY <1>1, <1>2, WayIs DEF OnPath
<1>4. /\ stack \in Seq(Frame) /\ Tail(stack) \in Seq(Frame)
      /\ Len(stack) \in Nat \ {0} /\ DOMAIN stack = 1 .. Len(stack)
      /\ Len(Tail(stack)) = Len(stack) - 1
      /\ \A i \in 1 .. Len(stack) - 1 : Tail(stack)[i] = stack[i + 1]
  BY <1>1, Popped DEF Shape
<1> HIDE DEF f, g
<1>5. /\ DOMAIN stack' = 1 .. Len(Tail(stack)) + 2 /\ Len(stack') = Len(Tail(stack)) + 2
      /\ stack'[1] = f /\ stack'[2] = g
      /\ \A i \in 1 .. Len(Tail(stack)) : stack'[i + 2] = Tail(stack)[i]
  BY <1>1, <1>4, PushedTwo
<1>6. ASSUME NEW i \in DOMAIN stack', i > 2
      PROVE  i - 1 \in DOMAIN stack /\ i - 1 > 1 /\ stack'[i] = stack[i - 1]
  <2>1. i - 2 \in 1 .. Len(Tail(stack)) /\ (i - 2) + 2 = i /\ (i - 2) + 1 = i - 1
    BY <1>4, <1>5, <1>6
  <2>2. stack'[i] = Tail(stack)[i - 2] /\ Tail(stack)[i - 2] = stack[i - 1]
    BY <1>4, <1>5, <2>1
  <2>3. QED  BY <1>4, <1>6, <2>1, <2>2
<1>7. ASSUME NEW i \in DOMAIN stack'
      PROVE  /\ OnPath(asked, stack'[i])
             /\ stack'[i].kind = "recurse" =>
                   /\ i > 1 => DecodesFurther(asked)
                   /\ i < Len(stack') => stack'[i + 1].kind = "scanner"
  <2>1. CASE i = 1
    BY <1>2, <1>3, <1>5, <2>1
  <2>2. CASE i = 2
    BY <1>2, <1>3, <1>5, <2>2
  <2>3. CASE i > 2
    <3>1. i - 1 \in DOMAIN stack /\ i - 1 > 1 /\ stack'[i] = stack[i - 1]
      BY <1>6, <2>3
    <3>2. ASSUME i < Len(stack')
          PROVE  i - 1 < Len(stack) /\ stack'[i + 1] = stack[(i - 1) + 1]
      <4>1. i + 1 \in DOMAIN stack' /\ i + 1 > 2 /\ (i + 1) - 1 = (i - 1) + 1
        BY <1>4, <1>5, <2>3, <3>2
      <4>2. QED  BY <1>4, <1>5, <1>6, <3>2, <4>1
    <3>3. QED  BY <3>1, <3>2 DEF OnWay
  <2>4. QED  BY <1>4, <1>5, <2>1, <2>2, <2>3
<1>8. QED  BY <1>1, <1>7 DEF OnWay

(* The steps that change no call, and those that end them all.             *)
LEMMA WaySame ==
    ASSUME OnWay, stack' = stack, asked' = asked, pc' # "scanning"
    PROVE  OnWay'
BY DEF OnWay

LEMMA WayNone ==
    ASSUME stack' = <<>>, pc' # "scanning"
    PROVE  OnWay'
BY DEF OnWay

LEMMA WayDisplay ==
    ASSUME stack = <<>>, NEW path \in Paths, NEW options \in Options, DisplayPath(path, options)
    PROVE  OnWay' /\ pc' \in {"call", "displayed", "error"}
<1>1. CASE pc' = "call" /\ stack' = <<FirstFrame(path)>>
  <2>1. OnPath(path, FirstFrame(path)) /\ FirstFrame(path).kind # "recurse"
    BY Begins DEF OnPath
  <2>2. DOMAIN stack' = {1} /\ stack'[1] = FirstFrame(path)
    BY <1>1
  <2>3. asked' = path
    BY DEF DisplayPath
  <2>4. QED  BY <1>1, <2>1, <2>2, <2>3 DEF OnWay
<1>2. CASE pc' \in {"displayed", "error"} /\ stack' = stack
  BY <1>2, WayNone
<1>3. QED  BY <1>1, <1>2 DEF DisplayPath

LEMMA WayNext == Shape /\ OnWay /\ [Next]_vars => OnWay'
<1> SUFFICES ASSUME Shape, OnWay, [Next]_vars PROVE OnWay'
  OBVIOUS
<1>1. /\ po \in Options /\ asked \in Paths
      /\ (InCall => stack # <<>>) /\ (InClient => stack = <<>>)
  BY DEF Shape
<1>2. CASE DisplayPathReturns \/ Unwind
  BY <1>2, WayNone DEF DisplayPathReturns, Unwind
<1>3. CASE PrintSbuf \/ BadPart \/ ScannerReturns \/ ScannerThrows
  BY <1>3, WaySame DEF PrintSbuf, BadPart, ScannerReturns, ScannerThrows, client
<1>4. CASE SkipToOffset
  <2> DEFINE f == [kind |-> "offset", path |-> NewPath, trail |-> Append(Top.trail, Prefix),
                   size |-> Top.size - Prefix, left |-> 0]
  <2>1. /\ stack # <<>> /\ ~TimeToPrint /\ Prefix \in Offset /\ Prefix <= Top.size
        /\ pc' = "call" /\ asked' = asked /\ Call(f)
    BY <1>1, <1>4 DEF SkipToOffset, InCall, client
  <2>2. Top.size - Prefix \in Size
    BY <2>1, TopType, SizesAre DEF Size
  <2>3. f \in Frame
    BY <2>1, <2>2, NextPart, SizesAre DEF Frame
  <2>4. OnPath(asked, f) /\ f.kind # "recurse"
    BY <2>1, WayGoesOn DEF OnPath
  <2>5. Top.kind = "recurse" => DecodesFurther(asked)
    BY <2>1, WayGoesOn
  <2>6. QED  BY <2>1, <2>3, <2>4, <2>5, WayCall
<1>5. CASE CallScanner
  <2> DEFINE f == [kind |-> "scanner", path |-> NewPath, trail |-> Append(Top.trail, Prefix),
                   size |-> Top.size, left |-> MaxRecursions]
  <2>1. /\ stack # <<>> /\ ~TimeToPrint /\ Prefix \in Scanner
        /\ asked' = asked /\ Call(f)
    BY <1>1, <1>5 DEF CallScanner, InCall, client
  <2>2. f \in Frame
    BY <2>1, TopType, NextPart, SizesAre DEF Frame
  <2>3. OnPath(asked, f) /\ f.kind = "scanner"
    BY <2>1, WayGoesOn DEF OnPath
  <2>4. Top.kind = "recurse" => DecodesFurther(asked)
    BY <2>1, WayGoesOn
  <2>5. QED  BY <2>1, <2>2, <2>3, <2>4, WayCall
<1>6. CASE RecurseReturns \/ ProcessSpReturns
  <2>1. /\ Len(stack) > 1 /\ stack' = Tail(stack) /\ asked' = asked
        /\ (pc' = "scanning" => Top.kind = "recurse")
    BY <1>6 DEF RecurseReturns, ProcessSpReturns, client
  <2>2. stack # <<>>
    BY <1>1, <1>6 DEF RecurseReturns, ProcessSpReturns, InCall
  <2>3. QED  BY <2>1, <2>2, WayReturn
<1>7. ASSUME NEW size \in DecodedSize, Recurse(size) PROVE OnWay'
  BY <1>7, WayRecurse
<1>8. ASSUME NEW path \in Paths, InteractiveLine(path) PROVE OnWay'
  <2>1. InClient /\ DisplayPath(path, [DefaultOptions EXCEPT !.print_mode = "hex"])
    BY <1>8 DEF InteractiveLine, InClient
  <2>2. QED  BY <1>1, <2>1, OptionsAre, WayDisplay
<1>9. ASSUME NEW path \in Paths, NEW suffix \in Suffix, ProcessPath(path, suffix) PROVE OnWay'
  <2>1. /\ InClient
        /\ DisplayPath(path, [DefaultOptions EXCEPT !.print_mode = suffix[1],
                                                   !.content_length = suffix[2]])
    BY <1>9 DEF ProcessPath, InClient
  <2>2. QED  BY <1>1, <2>1, OptionsAre, WayDisplay
<1>10. ASSUME NEW end \in {"no", "between"}, HttpDisplay(end) PROVE OnWay'
  <2>1. InClient /\ DisplayPath(asked, po)
    BY <1>10 DEF HttpDisplay, InClient
  <2>2. QED  BY <1>1, <2>1, WayDisplay
<1>11. CASE ProcessPathReturns \/ NextRequest
  BY <1>1, <1>11, WayNone DEF ProcessPathReturns, NextRequest, InClient
<1>12. CASE InteractiveEnd \/ HttpEnd
  BY <1>1, <1>12, WayNone DEF InteractiveEnd, HttpEnd, ServerReturns, InClient
<1>13. ASSUME NEW path \in Paths, NEW cut \in BOOLEAN, HttpGet(path, cut) PROVE OnWay'
  BY <1>1, <1>13, WayNone DEF HttpGet, InClient
<1>14. ASSUME NEW range \in RangeHeader, NEW cut \in BOOLEAN, HttpHeader(range, cut) PROVE OnWay'
  BY <1>1, <1>14, WayNone DEF HttpHeader, InClient
<1>15. ASSUME NEW end \in {"no", "between"}, HttpInfo(end) PROVE OnWay'
  BY <1>1, <1>15, WayNone DEF HttpInfo, InClient
<1>16. ASSUME NEW kind \in {"interactive", "http"}, StartServer(kind) PROVE OnWay'
  BY <1>1, <1>16, WayNone DEF StartServer, InClient
<1>17. CASE HttpSameLine \/ UNCHANGED vars
  <2>1. UNCHANGED <<pc, stack, asked>>
    BY <1>17 DEF HttpSameLine, vars
  <2>2. QED  BY <2>1 DEF OnWay, Top
<1>18. QED
  BY <1>2, <1>3, <1>4, <1>5, <1>6, <1>7, <1>8, <1>9, <1>10, <1>11, <1>12, <1>13, <1>14,
     <1>15, <1>16, <1>17
     DEF Next, ProgramStep, ScannerStep, ClientStep

-----------------------------------------------------------------------------
(* Each step keeps the answers: those that are there stay, and none comes  *)
(* to a request that has one, unless a part follows a scanner.             *)
LEMMA OnceKept ==
    ASSUME AnsweredOnce, Output' = Output, Output \in Seq(Answer),
           \A a \in Answer : Answered(a) => Answered(a)'
    PROVE  AnsweredOnce'
<1>1. DOMAIN Output' = DOMAIN Output /\ \A i \in DOMAIN Output : Output'[i] = Output[i]
  OBVIOUS
<1>2. \A i \in DOMAIN Output : Output[i] \in Answer
  BY LenProperties, ElementOfSeq
<1>3. QED  BY <1>1, <1>2 DEF AnsweredOnce

LEMMA OnceAdded ==
    ASSUME AnsweredOnce, Output \in Seq(Answer), NEW x \in Answer, Output' = Append(Output, x),
           \A a \in Answer : Answered(a) => Answered(a)', Answered(x)',
           \A i \in DOMAIN Output :
              Output[i].request = x.request => Output[i].further /\ x.further
    PROVE  AnsweredOnce'
<1>1. /\ Len(Output) \in Nat /\ DOMAIN Output = 1 .. Len(Output)
      /\ DOMAIN Output' = 1 .. Len(Output) + 1
      /\ \A i \in 1 .. Len(Output) : Output'[i] = Output[i]
      /\ Output'[Len(Output) + 1] = x
  BY AppendProperties, LenProperties
<1>2. \A i \in DOMAIN Output : Output[i] \in Answer
  BY <1>1, ElementOfSeq
<1>3. \A i \in DOMAIN Output' : i \in DOMAIN Output \/ i = Len(Output) + 1
  BY <1>1
<1>4. \A i \in DOMAIN Output' : Output'[i] \in Answer /\ (i \in DOMAIN Output \/ Output'[i] = x)
  BY <1>1, <1>2, <1>3
<1>5. \A a \in Answer : (\E i \in DOMAIN Output' : Output'[i] = a) => Answered(a)'
  BY <1>1, <1>3 DEF AnsweredOnce
<1>6. ASSUME NEW i \in DOMAIN Output', NEW j \in DOMAIN Output',
             Output'[i].request = Output'[j].request, i # j
      PROVE  Output'[i].further
  <2>1. CASE i \in DOMAIN Output /\ j \in DOMAIN Output
    BY <1>1, <1>6, <2>1 DEF AnsweredOnce
  <2>2. CASE i = Len(Output) + 1 /\ j \in DOMAIN Output
    <3>1. Output'[i] = x /\ Output'[j] = Output[j]
      BY <1>1, <2>2
    <3>2. QED  BY <1>6, <2>2, <3>1
  <2>3. CASE i \in DOMAIN Output /\ j = Len(Output) + 1
    <3>1. Output'[j] = x /\ Output'[i] = Output[i]
      BY <1>1, <2>3
    <3>2. QED  BY <1>6, <2>3, <3>1
  <2>4. QED  BY <1>3, <1>6, <2>1, <2>2, <2>3
<1>7. QED  BY <1>4, <1>5, <1>6 DEF AnsweredOnce

(* A new request has no answer yet.                                        *)
LEMMA OnceCounted ==
    ASSUME Shape, CountRequest, NEW a \in Answer, Answered(a)
    PROVE  a.request # requests' /\ a.request <= requests'
<1>1. a.request \in Nat /\ a.request <= requests
  BY DEF Answer, Answered
<1>2. requests' \in Nat /\ requests \in Nat /\ requests < requests'
  BY Counted
<1>3. QED  BY <1>1, <1>2

LEMMA OnceDisplay ==
    ASSUME Shape, AnsweredOnce, NEW path \in Paths, NEW options \in Options,
           DisplayPath(path, options), requests' \in Nat,
           \A a \in Answer : Answered(a) => a.request # requests' /\ a.request <= requests'
    PROVE  AnsweredOnce'
<1>1. /\ os \in Seq(Answer) /\ out \in Seq(Answer) /\ Output \in Seq(Answer)
      /\ out' = out /\ ReadError \in Answer
      /\ \A x \in Answer : out \o Append(os, x) = Append(Output, x)
  BY AnswerIs, OutputIs DEF Shape, DisplayPath
<1>2. \A a \in Answer : Answered(a) => Answered(a)'
  BY DEF Answered
<1>3. CASE os' = os
  <2>1. Output' = Output
    BY <1>1, <1>3 DEF Output
  <2>2. QED  BY <1>1, <1>2, <2>1, OnceKept
<1>4. CASE os' = Append(os, ReadError) /\ pc' = "displayed"
  <2>0. PICK x \in Answer : x = ReadError
    BY <1>1
  <2>1. x \in Answer /\ x.request = requests'
    BY <2>0 DEF ReadError
  <2>2. Output' = Append(Output, x)
    BY <1>1, <1>4, <2>0 DEF Output
  <2>3. \A i \in DOMAIN Output : Output[i].request # x.request
    <3>1. \A i \in DOMAIN Output : Output[i] \in Answer /\ Answered(Output[i])
      BY <1>1, LenProperties, ElementOfSeq DEF AnsweredOnce
    <3>2. QED  BY <2>1, <3>1
  <2>4. requests' <= requests'
    OBVIOUS
  <2>5. Answered(x)'
    <3>1. pc' # "headers" /\ ~InCall' /\ x.request <= requests'
      BY <1>4, <2>1, <2>4 DEF InCall
    <3>2. QED  BY <3>1 DEF Answered
  <2>6. QED  BY <1>1, <1>2, <2>1, <2>2, <2>3, <2>5, OnceAdded
<1>5. QED  BY <1>3, <1>4 DEF DisplayPath

(* The innermost call prints, and no answer to its request may be printed  *)
(* yet unless a part of the path follows a scanner.                        *)
LEMMA OncePrint ==
    ASSUME Shape, AnsweredOnce, PrintSbuf
    PROVE  AnsweredOnce'
<1>1. /\ pc = "call" /\ pc' = "finished" /\ stack # <<>> /\ requests' = requests
      /\ asked' = asked /\ out' = out
  BY DEF PrintSbuf, client, history, Shape, InCall
<1>2. /\ os \in Seq(Answer) /\ out \in Seq(Answer) /\ Item \in Answer
      /\ requests \in Nat
  <2>1. os \in Seq(Answer) /\ out \in Seq(Answer) /\ requests \in 0 .. MaxRequests
    BY DEF Shape
  <2>2. QED  BY <1>1, <2>1, AnswerIs, SizesAre
<1>3. Output \in Seq(Answer) /\ \A x \in Answer : out \o Append(os, x) = Append(Output, x)
  BY <1>2, OutputIs
<1>4. \A a \in Answer : Answered(a) => Answered(a)'
  BY <1>1 DEF Answered, InCall
<1>5. CASE os' = os
  <2>1. Output' = Output
    BY <1>1, <1>5 DEF Output
  <2>2. QED  BY <1>3, <1>4, <2>1, OnceKept
<1>6. CASE os' = Append(os, Item)
  <2>1. PICK x \in Answer : x = Item
    BY <1>2
  <2>2. Output' = Append(Output, x)
    BY <1>1, <1>3, <1>6, <2>1 DEF Output
  <2>3. x.request = requests /\ x.further = DecodesFurther(asked)
    BY <2>1 DEF Item
  <2>4. requests <= requests
    BY <1>2
  <2>5. Answered(x)'
    BY <1>1, <2>3, <2>4 DEF Answered, InCall
  <2>6. ASSUME NEW i \in DOMAIN Output, Output[i].request = x.request
        PROVE  Output[i].further /\ x.further
    <3>1. Answered(Output[i])
      BY DEF AnsweredOnce
    <3>2. QED  BY <1>1, <2>3, <2>6, <3>1 DEF Answered, InCall
  <2>7. QED  BY <1>3, <1>4, <2>2, <2>5, <2>6, OnceAdded
<1>7. QED  BY <1>5, <1>6 DEF PrintSbuf

LEMMA OnceNext == Shape /\ OnWay /\ AnsweredOnce /\ [Next]_vars => AnsweredOnce'
<1> SUFFICES ASSUME Shape, OnWay, AnsweredOnce, [Next]_vars PROVE AnsweredOnce'
  OBVIOUS
<1>1. /\ po \in Options /\ asked \in Paths
      /\ os \in Seq(Answer) /\ out \in Seq(Answer) /\ Output \in Seq(Answer)
      /\ requests \in Nat /\ (InCall => stack # <<>>)
  <2>1. /\ po \in Options /\ asked \in Paths
        /\ os \in Seq(Answer) /\ out \in Seq(Answer)
        /\ requests \in 0 .. MaxRequests /\ (InCall => stack # <<>>)
    BY DEF Shape
  <2>2. QED  BY <2>1, SizesAre, ConcatProperties DEF Output
<1>2. ASSUME UNCHANGED <<os, out>>, \A a \in Answer : Answered(a) => Answered(a)'
      PROVE  AnsweredOnce'
  <2>1. Output' = Output
    BY <1>2 DEF Output
  <2>2. QED  BY <1>1, <1>2, <2>1, OnceKept
<1>3. CASE PrintSbuf
  BY <1>3, OncePrint
<1>4. CASE DisplayPathReturns \/ Unwind
  <2>1. /\ pc' \in {"displayed", "idle"} /\ UNCHANGED <<os, out>> /\ requests' = requests
    BY <1>4 DEF DisplayPathReturns, Unwind, client, history
  <2>2. \A a \in Answer : Answered(a) => Answered(a)'
    BY <2>1 DEF Answered, InCall
  <2>3. QED  BY <1>2, <2>1, <2>2
<1>5. CASE SkipToOffset \/ CallScanner \/ BadPart \/ ScannerReturns \/ ScannerThrows
           \/ \E size \in DecodedSize : Recurse(size)
  <2>1. /\ pc \in {"call", "scanning"} /\ pc' \in {"call", "scanning", "returning", "error"}
        /\ UNCHANGED <<os, out>> /\ requests' = requests /\ asked' = asked
    BY <1>5 DEF SkipToOffset, CallScanner, BadPart, ScannerReturns, ScannerThrows, Recurse,
                client, history
  <2>2. \A a \in Answer : Answered(a) => Answered(a)'
    BY <2>1 DEF Answered, InCall
  <2>3. QED  BY <1>2, <2>1, <2>2
<1>6. CASE RecurseReturns
  <2>1. /\ \/ pc = "returning" /\ Top.kind = "recurse" /\ pc' = "scanning"
           \/ pc = "finished" /\ pc' = "finished"
        /\ UNCHANGED <<os, out>> /\ requests' = requests /\ asked' = asked
    BY <1>6 DEF RecurseReturns, client, history
  <2>2. \A a \in Answer : Answered(a) => Answered(a)'
    BY <2>1 DEF Answered, InCall
  <2>3. QED  BY <1>2, <2>1, <2>2
<1>7. CASE ProcessSpReturns
  <2>1. /\ pc \in {"returning", "finished"} /\ pc' = "returning" /\ Len(stack) > 1
        /\ stack' = Tail(stack) /\ stack # <<>>
        /\ UNCHANGED <<os, out>> /\ requests' = requests /\ asked' = asked
    BY <1>1, <1>7 DEF ProcessSpReturns, client, history, InCall
  <2>2. Top'.kind = "recurse" => DecodesFurther(asked)
    BY <2>1, WayReturn
  <2>3. \A a \in Answer : Answered(a) => Answered(a)'
    BY <2>1, <2>2 DEF Answered, InCall
  <2>4. QED  BY <1>2, <2>1, <2>3
<1>8. CASE ProcessPathReturns
  <2>1. Flush /\ pc' = "idle" /\ requests' = requests
    BY <1>8 DEF ProcessPathReturns, history
  <2>2. \A a \in Answer : Answered(a) => Answered(a)'
    BY <2>1 DEF Answered, InCall
  <2>3. ReadError \in Answer
    BY <1>1, <2>1, AnswerIs
  <2>4. Output' = Output
    BY <1>1, <2>1, <2>3, OutputIs
  <2>5. QED  BY <1>1, <2>2, <2>4, OnceKept
<1>9. CASE NextRequest \/ InteractiveEnd \/ HttpEnd
           \/ \E kind \in {"interactive", "http"} : StartServer(kind)
  <2>1. /\ pc' \in {"idle", "serving"} /\ UNCHANGED <<os, out>> /\ requests' = requests
    BY <1>9 DEF NextRequest, InteractiveEnd, HttpEnd, ServerReturns, StartServer, history
  <2>2. \A a \in Answer : Answered(a) => Answered(a)'
    BY <2>1 DEF Answered, InCall
  <2>3. QED  BY <1>2, <2>1, <2>2
<1>10. ASSUME NEW path \in Paths, InteractiveLine(path) PROVE AnsweredOnce'
  <2>1. CountRequest /\ DisplayPath(path, [DefaultOptions EXCEPT !.print_mode = "hex"])
    BY <1>10 DEF InteractiveLine
  <2>2. QED  BY <2>1, Counted, OnceCounted, OptionsAre, OnceDisplay
<1>11. ASSUME NEW path \in Paths, NEW suffix \in Suffix, ProcessPath(path, suffix)
       PROVE  AnsweredOnce'
  <2>1. /\ CountRequest
        /\ DisplayPath(path, [DefaultOptions EXCEPT !.print_mode = suffix[1],
                                                   !.content_length = suffix[2]])
    BY <1>11 DEF ProcessPath
  <2>2. QED  BY <2>1, Counted, OnceCounted, OptionsAre, OnceDisplay
<1>12. ASSUME NEW end \in {"no", "between"}, HttpDisplay(end) PROVE AnsweredOnce'
  <2>1. pc = "headers" /\ requests' = requests /\ DisplayPath(asked, po)
    BY <1>12 DEF HttpDisplay
  <2>2. \A a \in Answer : Answered(a) => a.request # requests' /\ a.request <= requests'
    BY <2>1 DEF Answered
  <2>3. QED  BY <1>1, <2>1, <2>2, OnceDisplay
<1>13. CASE \/ \E path \in Paths, cut \in BOOLEAN : HttpGet(path, cut)
            \/ \E end \in {"no", "between"} : HttpInfo(end)
  <2>1. CountRequest /\ UNCHANGED <<os, out>>
    BY <1>13 DEF HttpGet, HttpInfo
  <2>2. \A a \in Answer : Answered(a) => Answered(a)'
    BY <2>1, OnceCounted DEF Answered
  <2>3. QED  BY <1>2, <2>1, <2>2
<1>14. CASE \/ \E range \in RangeHeader, cut \in BOOLEAN : HttpHeader(range, cut)
            \/ HttpSameLine \/ UNCHANGED vars
  <2>1. UNCHANGED <<pc, stack, asked, os, out, requests>>
    BY <1>14 DEF HttpHeader, HttpSameLine, vars, history
  <2>2. \A a \in Answer : Answered(a) => Answered(a)'
    BY <2>1 DEF Answered, InCall, Top
  <2>3. QED  BY <1>2, <2>1, <2>2
<1>15. QED
  BY <1>3, <1>4, <1>5, <1>6, <1>7, <1>8, <1>9, <1>10, <1>11, <1>12, <1>13, <1>14
     DEF Next, ProgramStep, ScannerStep, ClientStep

-----------------------------------------------------------------------------
LEMMA PrintInit == Init => PrintInv
<1> SUFFICES ASSUME Init PROVE PrintInv
  OBVIOUS
<1>1. /\ pc = "idle" /\ stack = <<>> /\ po = DefaultOptions /\ asked = <<>>
      /\ server = "none" /\ eof = "no" /\ os = <<>> /\ out = <<>>
      /\ sbufs = 0 /\ requests = 0 /\ failed = FALSE
  BY DEF Init
<1>2. Shape
  <2>1. /\ ~InCall /\ InClient /\ stack \in Seq(Frame) /\ Len(stack) = 0
        /\ os \in Seq(Answer) /\ out \in Seq(Answer) /\ failed \in BOOLEAN
    BY <1>1, EmptySeq DEF InCall, InClient
  <2>2. requests \in 0 .. MaxRequests /\ sbufs \in Nat /\ sbufs >= 0
    BY <1>1, SizesAre
  <2>3. QED  BY <1>1, <2>1, <2>2, OptionsAre DEF Shape
<1>3. OnWay
  BY <1>1 DEF OnWay
<1>4. AnsweredOnce
  <2>1. Output = <<>>
    BY <1>1, ConcatEmptySeq, EmptySeq DEF Output
  <2>2. QED  BY <2>1 DEF AnsweredOnce
<1>5. QED  BY <1>2, <1>3, <1>4 DEF PrintInv

LEMMA PrintStep == PrintInv /\ [Next]_vars => PrintInv'
BY ShapeNext, WayNext, OnceNext DEF PrintInv

LEMMA PrintCorrect == Spec => []PrintInv
BY PrintInit, PrintStep, PTL DEF Spec

(* Every variable of the printer keeps its type: no size and no count of   *)
(* sbufs ever wraps below zero, whatever the path and the options are.     *)
THEOREM PrinterTyped == Spec => []TypeOK
<1>1. ASSUME Shape PROVE TypeOK
  <2>1. \A i \in DOMAIN stack : stack[i] \in Frame
    BY <1>1, LenProperties, ElementOfSeq DEF Shape
  <2>2. QED  BY <1>1, <2>1 DEF Shape, TypeOK, Frame, Applied, Size, InCall, InClient
<1>2. PrintInv => TypeOK
  BY <1>1 DEF PrintInv
<1>3. QED  BY <1>2, PrintCorrect, PTL

(* Each call of the printer deletes its sbuf, whether it returns or the    *)
(* exception that follows the printing passes it.                          *)
THEOREM PrinterDeletes == Spec => []SbufsDeleted
<1>1. ASSUME Shape PROVE SbufsDeleted
  <2>1. failed \in BOOLEAN
    BY <1>1 DEF Shape
  <2>2. ~failed => failed = FALSE
    BY <2>1, Zenon
  <2>3. QED  BY <1>1, <2>2 DEF Shape, SbufsDeleted
<1>2. PrintInv => SbufsDeleted
  BY <1>1 DEF PrintInv
<1>3. QED  BY <1>2, PrintCorrect, PTL

(* A call that is to print has applied all of the path.                    *)
LEMMA NamedIs ==
    ASSUME Shape, OnWay, pc = "call", TimeToPrint
    PROVE  Named(asked) \in {Top.trail, Append(Top.trail, 0)}
<1>1. stack # <<>>
  BY DEF Shape, InCall
<1>2. /\ Top.trail \in Seq(Applied) /\ Top.path \in Seq(Part)
      /\ Named(asked) = Top.trail \o UpToPrint(Top.path)
  BY <1>1, TopType, WayIs DEF OnPath
<1>3. CASE Top.path = <<>> \/ Prefix = PRINT
  <2>1. UpToPrint(Top.path) = <<>>
    BY <1>2, <1>3, UpToPrintEnd DEF Prefix, FirstToken
  <2>2. QED  BY <1>2, <2>1, ConcatEmptySeq
<1>4. CASE Top.path = <<0, PRINT>> /\ Prefix # PRINT
  <2>1. /\ Top.path # <<>> /\ Head(Top.path) = 0 /\ 0 # PRINT
        /\ Tail(Top.path) = <<PRINT>> /\ Tail(Top.path) \in Seq(Part)
    <3>1. Top.path # <<>> /\ Head(Top.path) = 0 /\ Tail(Top.path) = <<PRINT>>
      BY <1>4
    <3>2. Prefix = 0
      BY <3>1 DEF Prefix, FirstToken
    <3>3. QED  BY <1>2, <1>4, <3>1, <3>2, HeadTailProperties
  <2>2. UpToPrint(Tail(Top.path)) = <<>>
    <3>1. Head(<<PRINT>>) = PRINT
      OBVIOUS
    <3>2. Head(Tail(Top.path)) = PRINT
      BY <2>1, <3>1
    <3>3. QED  BY <2>1, <3>2, UpToPrintEnd
  <2>3. UpToPrint(Top.path) = <<0>> \o <<>>
    BY <1>2, <2>1, <2>2, UpToPrintHead
  <2>4. <<0>> \in Seq(Applied) /\ 0 \in Applied
    BY DEF Applied
  <2>5. UpToPrint(Top.path) = <<0>>
    BY <2>3, <2>4, ConcatEmptySeq
  <2>6. QED  BY <1>2, <2>4, <2>5, AppendIsConcat
<1>5. QED  BY <1>3, <1>4 DEF TimeToPrint

(* What is printed is what the path names, a request prints once unless a  *)
(* part of its path follows a scanner, and as many bytes are sent as were  *)
(* announced.                                                              *)
THEOREM PrinterPrints == Spec => []PrintsAsAsked
<1>1. ASSUME PrintInv PROVE PrintsNamedOnce
  <2>1. pc = "call" /\ TimeToPrint => Named(asked) \in {Top.trail, Append(Top.trail, 0)}
    BY <1>1, NamedIs DEF PrintInv
  <2>2. \A i, j \in DOMAIN Output :
           Output[i].request = Output[j].request => i = j \/ Output[i].further
    BY <1>1 DEF PrintInv, AnsweredOnce
  <2>3. QED  BY <2>1, <2>2 DEF PrintsNamedOnce
<1>2. ASSUME PrintInv PROVE LengthAnnounced
  <2>1. Output \in Seq(Answer)
    BY <1>2, ConcatProperties DEF PrintInv, Shape, Output
  <2>2. \A i \in DOMAIN Output : Output[i] \in Answer
    BY <2>1, LenProperties, ElementOfSeq
  <2>3. QED  BY <2>2 DEF LengthAnnounced, Answer
<1>3. PrintInv => PrintsAsAsked
  BY <1>1, <1>2 DEF PrintsAsAsked
<1>4. QED  BY <1>3, PrintCorrect, PTL
=============================================================================
