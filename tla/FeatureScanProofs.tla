--------------------------- MODULE FeatureScanProofs ---------------------------
(***************************************************************************)
(* Theorems about FeatureScan, for every set of images, scanners and       *)
(* recorders: the types, that the file of a run stops its own lines, that  *)
(* the quotes of a field come off again, that the path of a line leads     *)
(* back to its feature, that no place is recorded twice, that the          *)
(* histogram counts what was written, and that whatever is to be found in  *)
(* the image is found.  The lemmas before each theorem are in the order of *)
(* the code: searches of a buffer, slices and pages, integers, escaping,   *)
(* what a step does to the calls and the file.                             *)
(***************************************************************************)
EXTENDS FeatureScan, FoldingProofs

-----------------------------------------------------------------------------
(* Strings.  What is joined from pieces is bytes, whatever the pieces.     *)
LEMMA KeptBytes ==
  ASSUME NEW n \in Nat, NEW f, DOMAIN f = 1 .. n, f = [i \in 1 .. n |-> f[i]], NEW S
  PROVE  SelectIn(f, S) \in Seq(S \cap {f[i] : i \in 1 .. n})
<1> DEFINE T == {f[i] : i \in 1 .. n}
<1>1. f \in [1 .. n -> T]
  OBVIOUS
<1>2. f \in Seq(T)
  <2> HIDE DEF T
  <2> QED BY <1>1, SeqOfFunction
<1> HIDE DEF T
<1>3. SelectIn(f, S) \in Seq(S \cap T)
  BY <1>2, SelectType
<1> QED BY <1>3 DEF T

NthOf(pieces, k) ==
    LET piece == pieces[(k + 3) \div 4]
        nth == 1 + ((k - 1) % 4)
    IN  IF nth <= Len(piece) THEN piece[nth] ELSE NoByte
BytesOf(pieces) == [k \in 1 .. 4 * Len(pieces) |-> NthOf(pieces, k)]

LEMMA JoinedIs ==
  ASSUME NEW pieces
  PROVE  Joined(pieces) = SelectIn(BytesOf(pieces), Bytes)
BY DEF Joined, Kept, BytesOf, NthOf, Bytes

LEMMA JoinedType ==
  ASSUME NEW pieces, Len(pieces) \in Nat
  PROVE  Joined(pieces) \in Seq(Bytes \cap {NthOf(pieces, k) : k \in 1 .. 4 * Len(pieces)})
<1> DEFINE n == 4 * Len(pieces)
           f == BytesOf(pieces)
<1>1. n \in Nat /\ DOMAIN f = 1 .. n /\ f = [i \in 1 .. n |-> f[i]]
  BY DEF BytesOf
<1>2. {f[i] : i \in 1 .. n} = {NthOf(pieces, k) : k \in 1 .. n}
  BY DEF BytesOf
<1> HIDE DEF n, f
<1>3. SelectIn(f, Bytes) \in Seq(Bytes \cap {f[i] : i \in 1 .. n})
  BY <1>1, KeptBytes
<1> QED BY <1>2, <1>3, JoinedIs DEF n, f

LEMMA JoinedBytes ==
  ASSUME NEW pieces, Len(pieces) \in Nat
  PROVE  Joined(pieces) \in Seq(Bytes)
<1> DEFINE T == {NthOf(pieces, k) : k \in 1 .. 4 * Len(pieces)}
<1>1. Joined(pieces) \in Seq(Bytes \cap T)
  BY JoinedType
<1> HIDE DEF T
<1> QED BY <1>1, SeqMonotonic

(* Quoted or not, a string is bytes.                                       *)
LEMMA EscapedBytes ==
  ASSUME NEW s \in Seq(Bytes), NEW bad, NEW backslash, NEW validate
  PROVE  validateOrEscapeUTF8(s, bad, backslash, validate) \in Seq(Bytes)
<1> DEFINE p == [i \in DOMAIN s |->
                    IF i \in Starts(s) THEN Piece(s, i, backslash) ELSE <<>>]
<1>1. Len(p) = Len(s) /\ Len(p) \in Nat
  BY LenProperties
<1>2. Joined(p) \in Seq(Bytes)
  <2> HIDE DEF p
  <2> QED BY <1>1, JoinedBytes
<1> QED BY <1>2 DEF validateOrEscapeUTF8

LEMMA ConvertedBytes ==
  ASSUME NEW s \in Seq(Bytes), NEW order
  PROVE  convert_utf16_to_utf8(s, order) \in Seq(Bytes)
<1>1. Len(CodeUnits(s, order)) \in Nat /\ DOMAIN CodeUnits(s, order) = 1 .. Len(CodeUnits(s, order))
  <2>1. (Len(s) + 1) \div 2 \in Nat
    BY LenProperties
  <2> QED BY <2>1 DEF CodeUnits
<1>2. utf16to8(CodeUnits(s, order)) \in Seq(Bytes)
  <2> DEFINE u == CodeUnits(s, order)
             p == [k \in DOMAIN u |->
                     CASE IsLead(u[k]) ->
                            Encode(65536 + (u[k] - 55296) * 1024 + (u[k + 1] - 56320))
                       [] IsTrail(u[k]) -> <<>>
                       [] OTHER -> Encode(u[k])]
  <2>1. Len(p) \in Nat
    <3> HIDE DEF u
    <3> QED BY <1>1 DEF u
  <2>2. Joined(p) \in Seq(Bytes)
    <3> HIDE DEF p
    <3> QED BY <2>1, JoinedBytes
  <2> QED BY <2>2 DEF utf16to8
<1>3. SelectIn(utf16to8(CodeUnits(s, order)), 1 .. 255) \in Seq(1 .. 255 \cap Bytes)
  BY <1>2, SelectType
<1>4. SelectIn(utf16to8(CodeUnits(s, order)), 1 .. 255) \in Seq(Bytes)
  BY <1>3, SeqMonotonic
<1> QED BY <1>4 DEF convert_utf16_to_utf8

LEMMA MadeBytes == \A s \in Seq(Bytes) : make_utf8(s) \in Seq(Bytes)
  BY EscapedBytes, ConvertedBytes DEF make_utf8

-----------------------------------------------------------------------------
(* Buffers.  A scanner recurses only once, so that no path is longer than  *)
(* an offset and the name of a decoder.                                    *)
PathSet == {<<>>} \cup (Nat \X Decoders)
Positions == [path : PathSet, offset : Nat]
Buffers == {b \in [pos0 : Positions, buf : Seq(Bytes), pagesize : Nat] :
               b.pagesize <= Len(b.buf)}

LEMMA BufferHas ==
  ASSUME NEW b \in Buffers
  PROVE  /\ b.pos0 \in Positions /\ b.pagesize \in Nat
         /\ b.buf \in Seq(Bytes) /\ DOMAIN b.buf = 1 .. Len(b.buf)
         /\ bufsize(b) \in Nat /\ bufsize(b) = Len(b.buf) /\ b.pagesize <= bufsize(b)
         /\ \A i \in 0 .. bufsize(b) - 1 : At(b, i) \in Bytes
<1>1. b.pos0 \in Positions /\ b.pagesize \in Nat /\ b.buf \in Seq(Bytes) /\ b.pagesize <= Len(b.buf)
  BY DEF Buffers
<1>2. Len(b.buf) \in Nat /\ DOMAIN b.buf = 1 .. Len(b.buf)
  BY <1>1, LenProperties
<1>3. ASSUME NEW i \in 0 .. Len(b.buf) - 1
      PROVE  b.buf[i + 1] \in Bytes
  <2>1. i + 1 \in 1 .. Len(b.buf)
    BY <1>2
  <2> QED BY <1>1, <2>1, ElementOfSeq
<1> QED BY <1>1, <1>2, <1>3 DEF bufsize, At

LEMMA SubstrType ==
  ASSUME NEW b \in Buffers, NEW loc \in Nat, NEW len \in Nat
  PROVE  /\ substr(b, loc, len) \in Seq(Bytes)
         /\ \A i \in 1 .. Len(substr(b, loc, len)) :
               /\ loc + i \in 1 .. bufsize(b) /\ loc + i <= loc + len
               /\ substr(b, loc, len)[i] = b.buf[loc + i]
<1> DEFINE s == b.buf
           n == loc + len
<1>1. s \in Seq(Bytes) /\ n \in Nat /\ bufsize(b) = Len(s)
  BY BufferHas
<1> HIDE DEF s, n
<1>2. /\ SubSeq(s, loc + 1, Min({n, Len(s)})) \in Seq(Bytes)
      /\ \A i \in 1 .. Len(SubSeq(s, loc + 1, Min({n, Len(s)}))) :
            /\ loc + i \in 1 .. Len(s) /\ loc + i <= n
            /\ SubSeq(s, loc + 1, Min({n, Len(s)}))[i] = s[loc + i]
  BY <1>1, CutOut
<1>3. substr(b, loc, len) = SubSeq(s, loc + 1, Min({n, Len(s)}))
  BY <1>1 DEF substr, s, n
<1> QED BY <1>1, <1>2, <1>3 DEF s, n

(* find().                                                                 *)
LEMMA FindType ==
  ASSUME NEW b \in Buffers, NEW ch, NEW start \in Nat
  PROVE  find(b, ch, start) \in Nat \cup {NotFound}
<1> DEFINE locs == {loc \in start .. b.pagesize - 1 : At(b, loc) = ch}
<1>1. b.pagesize \in Nat
  BY BufferHas
<1>2. locs \in SUBSET Nat
  BY <1>1
<1>3. locs # {} => Min(locs) \in Nat
  <2> HIDE DEF locs
  <2> QED BY <1>2, MinOf
<1> QED BY <1>3 DEF find

(* findbin() is recursive; there is a function of its recursion.           *)
FirstByteAt(b, b2, i) == {loc \in i .. bufsize(b) - 1 : At(b, loc) = b2[1]}
SearchStep(b, b2, i, f) ==
    IF i >= b.pagesize \/ FirstByteAt(b, b2, i) = {} THEN NotFound
    ELSE IF Matches(b, b2, Min(FirstByteAt(b, b2, i))) THEN Min(FirstByteAt(b, b2, i))
         ELSE f[Min(FirstByteAt(b, b2, i)) + 2]
Searching(b, b2, m, n, f) == f = [i \in m .. n |-> SearchStep(b, b2, i, f)]
SearchEnd(b, start) == Max({start, bufsize(b)}) + 1
SearchOf(b, b2, start) == CHOOSE f : Searching(b, b2, 0, SearchEnd(b, start), f)

LEMMA FindbinIs ==
  ASSUME NEW b, NEW b2, NEW start
  PROVE  findbin(b, b2, start) = IF b2 = <<>> THEN NotFound ELSE SearchOf(b, b2, start)[start]
BY DEF findbin, SearchOf, Searching, SearchStep, SearchEnd, FirstByteAt

(* The search goes on behind the place that it has looked at.              *)
LEMMA SearchAhead ==
  ASSUME NEW b \in Buffers, NEW b2, NEW i \in Nat, i < b.pagesize, FirstByteAt(b, b2, i) # {}
  PROVE  /\ Min(FirstByteAt(b, b2, i)) \in Nat
         /\ i <= Min(FirstByteAt(b, b2, i)) /\ Min(FirstByteAt(b, b2, i)) < bufsize(b)
         /\ \A l \in FirstByteAt(b, b2, i) : Min(FirstByteAt(b, b2, i)) <= l
<1>1. bufsize(b) \in Nat
  BY BufferHas
<1>2. FirstByteAt(b, b2, i) \in SUBSET Nat
  BY <1>1 DEF FirstByteAt
<1>3. /\ Min(FirstByteAt(b, b2, i)) \in FirstByteAt(b, b2, i)
      /\ \A l \in FirstByteAt(b, b2, i) : Min(FirstByteAt(b, b2, i)) <= l
  BY <1>2, MinOf
<1> QED BY <1>1, <1>3 DEF FirstByteAt

LEMMA SearchExists ==
  ASSUME NEW b \in Buffers, NEW b2, NEW n \in Nat, bufsize(b) < n, NEW j \in 0 .. n
  PROVE  \E f : Searching(b, b2, n - j, n, f)
<1> DEFINE G == {k \in 0 .. n : \E f : Searching(b, b2, n - k, n, f)}
<1>0. bufsize(b) \in Nat /\ b.pagesize \in Nat /\ b.pagesize <= bufsize(b)
  BY BufferHas
<1>1. 0 \in G
  <2> DEFINE f == [i \in n .. n |-> NotFound]
  <2>1. \A i \in n .. n : SearchStep(b, b2, i, f) = NotFound
    BY <1>0 DEF SearchStep
  <2>2. f = [i \in n .. n |-> SearchStep(b, b2, i, f)]
    BY <2>1
  <2>3. Searching(b, b2, n - 0, n, f)
    <3> HIDE DEF f
    <3> QED BY <2>2 DEF Searching
  <2> QED BY <2>3
<1>2. ASSUME NEW k \in 0 .. n - 1, k \in G
      PROVE  k + 1 \in G
  <2>1. PICK g : Searching(b, b2, n - k, n, g)
    BY <1>2
  <2> DEFINE m == n - (k + 1)
             f == [i \in m .. n |-> IF i = m THEN SearchStep(b, b2, m, g) ELSE g[i]]
  <2>2. m \in Nat /\ m + 1 = n - k /\ \A i \in m + 1 .. n : f[i] = g[i]
    OBVIOUS
  <2>3. ASSUME NEW i \in m .. n
        PROVE  SearchStep(b, b2, i, f) = SearchStep(b, b2, i, g)
    <3> HIDE DEF f
    <3>1. CASE i >= b.pagesize \/ FirstByteAt(b, b2, i) = {}
      BY <3>1 DEF SearchStep
    <3>2. CASE ~(i >= b.pagesize \/ FirstByteAt(b, b2, i) = {})
      <4> DEFINE loc == Min(FirstByteAt(b, b2, i))
      <4>1. loc \in Nat /\ i <= loc /\ loc < bufsize(b)
        <5>1. i \in Nat /\ i < b.pagesize
          BY <1>0, <2>2, <3>2
        <5> QED BY <3>2, <5>1, SearchAhead
      <4> HIDE DEF loc
      <4>2. loc + 2 \in m + 1 .. n
        BY <1>0, <2>2, <4>1
      <4>3. f[loc + 2] = g[loc + 2]
        BY <2>2, <4>2
      <4> QED BY <4>3 DEF SearchStep, loc
    <3> QED BY <3>1, <3>2
  <2>4. ASSUME NEW i \in m .. n
        PROVE  f[i] = SearchStep(b, b2, i, g)
    <3>1. CASE i = m
      BY <3>1
    <3>2. CASE i # m
      <4>1. i \in n - k .. n
        BY <2>2, <3>2
      <4>2. g[i] = SearchStep(b, b2, i, g)
        BY <2>1, <4>1 DEF Searching
      <4> QED BY <3>2, <4>2
    <3> QED BY <3>1, <3>2
  <2>5. f = [i \in m .. n |-> SearchStep(b, b2, i, f)]
    <3>1. f = [i \in m .. n |-> f[i]]
      OBVIOUS
    <3> HIDE DEF f, m
    <3> QED BY <2>3, <2>4, <3>1
  <2>6. Searching(b, b2, m, n, f)
    <3> HIDE DEF f, m
    <3> QED BY <2>5 DEF Searching
  <2> QED BY <2>6
<1>3. n - j \in 0 .. n /\ j \in Nat
  OBVIOUS
<1>4. \A k \in 0 .. j - 1 : k \in G => k + 1 \in G
  <2> HIDE DEF G
  <2> QED BY <1>2
<1>5. j \in G
  <2> HIDE DEF G
  <2> QED BY <1>1, <1>3, <1>4, UpTo
<1> QED BY <1>5

(* What findbin() returns is an occurrence, at start or later.             *)
LEMMA FindbinType ==
  ASSUME NEW b \in Buffers, NEW b2, NEW start \in Nat, findbin(b, b2, start) # NotFound
  PROVE  /\ findbin(b, b2, start) \in Nat
         /\ start <= findbin(b, b2, start) /\ findbin(b, b2, start) < bufsize(b)
         /\ Matches(b, b2, findbin(b, b2, start))
<1> DEFINE n == SearchEnd(b, start)
           f == SearchOf(b, b2, start)
           P(i) == f[i] = NotFound \/ (f[i] \in Nat /\ i <= f[i] /\ f[i] < bufsize(b) /\ Matches(b, b2, f[i]))
           G == {k \in 0 .. n : \A i \in n - k .. n : P(i)}
<1>0. bufsize(b) \in Nat /\ b.pagesize \in Nat /\ b.pagesize <= bufsize(b)
  BY BufferHas
<1>1. n \in Nat /\ bufsize(b) < n /\ start < n
  BY <1>0, MaxOfTwo DEF SearchEnd
<1>2. Searching(b, b2, 0, n, f)
  <2>1. n \in 0 .. n /\ n - n = 0
    BY <1>1
  <2>2. \E g : Searching(b, b2, n - n, n, g)
    <3> HIDE DEF n
    <3> QED BY <1>1, <2>1, SearchExists
  <2>3. \E g : Searching(b, b2, 0, n, g)
    <3> HIDE DEF n
    <3> QED BY <2>1, <2>2
  <2> QED BY <2>3 DEF SearchOf
<1> HIDE DEF n
<1>3. ASSUME NEW i \in 0 .. n
      PROVE  f[i] = SearchStep(b, b2, i, f)
  <2> HIDE DEF f
  <2> QED BY <1>2 DEF Searching
<1> HIDE DEF f
<1>4. 0 \in G
  <2>1. f[n] = NotFound
    BY <1>0, <1>1, <1>3 DEF SearchStep
  <2>2. \A i \in n - 0 .. n : i = n
    BY <1>1
  <2>3. P(n)
    BY <2>1
  <2> QED BY <1>1, <2>2, <2>3
<1>5. ASSUME NEW k \in 0 .. n - 1, k \in G
      PROVE  k + 1 \in G
  <2> DEFINE m == n - (k + 1)
  <2>1. m \in 0 .. n /\ m + 1 = n - k /\ \A i \in m + 1 .. n : P(i)
    BY <1>1, <1>5
  <2>2. f[m] = SearchStep(b, b2, m, f)
    BY <1>3, <2>1
  <2> HIDE DEF m
  <2>3. CASE m >= b.pagesize \/ FirstByteAt(b, b2, m) = {}
    <3>1. P(m)
      BY <2>2, <2>3 DEF SearchStep
    <3> QED BY <1>1, <2>1, <3>1 DEF m
  <2>4. CASE ~(m >= b.pagesize \/ FirstByteAt(b, b2, m) = {})
    <3> DEFINE loc == Min(FirstByteAt(b, b2, m))
    <3>1. loc \in Nat /\ m <= loc /\ loc < bufsize(b)
      <4>1. m \in Nat /\ m < b.pagesize
        BY <1>0, <1>1, <2>1, <2>4
      <4> QED BY <2>4, <4>1, SearchAhead
    <3>2. f[m] = IF Matches(b, b2, loc) THEN loc ELSE f[loc + 2]
      BY <2>2, <2>4 DEF SearchStep
    <3> HIDE DEF loc
    <3>3. loc + 2 \in m + 1 .. n
      BY <1>0, <1>1, <2>1, <3>1
    <3>4. P(loc + 2)
      BY <2>1, <3>3
    <3>5. P(m)
      BY <2>1, <3>1, <3>2, <3>4
    <3> QED BY <1>1, <2>1, <3>5 DEF m
  <2> QED BY <2>3, <2>4
<1>6. n \in G
  <2> HIDE DEF G
  <2> QED BY <1>1, <1>4, <1>5, UpTo
<1>7. P(start)
  BY <1>1, <1>6
<1>8. findbin(b, b2, start) = f[start]
  BY FindbinIs DEF f
<1> QED BY <1>7, <1>8

(* Integers.                                                               *)
ByteOf(b, i, width, order, k) ==
    IF order = "little" THEN At(b, i + width - 1 - k) ELSE At(b, i + k)
Adding(b, i, width, order, n, f) ==
    f = [k \in 0 .. n |-> IF k = 0 THEN 0 ELSE f[k - 1] * 256 + ByteOf(b, i, width, order, k - 1)]
AddingOf(b, i, width, order) == CHOOSE f : Adding(b, i, width, order, width, f)

LEMMA GetIs ==
  ASSUME NEW b, NEW i, NEW width, NEW order
  PROVE  get_u(b, i, width, order) = AddingOf(b, i, width, order)[width]
BY DEF get_u, AddingOf, Adding, ByteOf

LEMMA AddingExists ==
  ASSUME NEW b, NEW i, NEW width, NEW order, NEW n \in Nat
  PROVE  \E f : Adding(b, i, width, order, n, f)
<1> DEFINE G == {k \in 0 .. n : \E f : Adding(b, i, width, order, k, f)}
<1>1. 0 \in G
  <2>1. Adding(b, i, width, order, 0, [k \in 0 .. 0 |-> 0])
    BY DEF Adding
  <2> QED BY <2>1
<1>2. ASSUME NEW k \in 0 .. n - 1, k \in G
      PROVE  k + 1 \in G
  <2>1. PICK g : Adding(b, i, width, order, k, g)
    BY <1>2
  <2> DEFINE f == [j \in 0 .. k + 1 |->
                     IF j <= k THEN g[j] ELSE g[k] * 256 + ByteOf(b, i, width, order, k)]
  <2>2. ASSUME NEW j \in 0 .. k + 1
        PROVE  f[j] = IF j = 0 THEN 0 ELSE f[j - 1] * 256 + ByteOf(b, i, width, order, j - 1)
    <3>1. CASE j = 0
      BY <2>1, <3>1 DEF Adding
    <3>2. CASE j \in 1 .. k
      <4>1. j \in 0 .. k /\ j # 0 /\ j - 1 \in 0 .. k
        BY <3>2
      <4>2. g[j] = g[j - 1] * 256 + ByteOf(b, i, width, order, j - 1)
        BY <2>1, <4>1 DEF Adding
      <4>3. f[j] = g[j] /\ f[j - 1] = g[j - 1]
        BY <4>1
      <4> QED BY <4>1, <4>2, <4>3
    <3>3. CASE j = k + 1
      <4>1. f[k + 1] = g[k] * 256 + ByteOf(b, i, width, order, k) /\ f[k] = g[k]
        OBVIOUS
      <4>2. j # 0 /\ j - 1 = k
        BY <3>3
      <4> HIDE DEF f
      <4> QED BY <3>3, <4>1, <4>2
    <3> QED BY <3>1, <3>2, <3>3
  <2>3. f = [j \in 0 .. k + 1 |-> f[j]]
    OBVIOUS
  <2>4. Adding(b, i, width, order, k + 1, f)
    <3> HIDE DEF f
    <3> QED BY <2>2, <2>3 DEF Adding
  <2>5. k + 1 \in 0 .. n
    OBVIOUS
  <2> QED BY <2>4, <2>5
<1>3. \A k \in 0 .. n - 1 : k \in G => k + 1 \in G
  <2> HIDE DEF G
  <2> QED BY <1>2
<1>4. n \in G
  <2> HIDE DEF G
  <2> QED BY <1>1, <1>3, UpTo
<1> QED BY <1>4

LEMMA GetType ==
  ASSUME NEW b \in Buffers, NEW i \in Nat, NEW width \in Nat, NEW order, InRange(b, i, width)
  PROVE  get_u(b, i, width, order) \in Nat
<1> DEFINE f == AddingOf(b, i, width, order)
           G == {k \in 0 .. width : f[k] \in Nat}
<1>1. Adding(b, i, width, order, width, f)
  <2>1. \E g : Adding(b, i, width, order, width, g)
    BY AddingExists
  <2> QED BY <2>1 DEF AddingOf
<1> HIDE DEF f
<1>2. ASSUME NEW k \in 0 .. width - 1
      PROVE  ByteOf(b, i, width, order, k) \in Nat
  <2>1. bufsize(b) \in Nat /\ \A j \in 0 .. bufsize(b) - 1 : At(b, j) \in Bytes
    BY BufferHas
  <2>2. i + width - 1 - k \in 0 .. bufsize(b) - 1 /\ i + k \in 0 .. bufsize(b) - 1
    BY <2>1 DEF InRange
  <2> QED BY <2>1, <2>2 DEF ByteOf, Bytes
<1>3. 0 \in G
  BY <1>1 DEF Adding
<1>4. ASSUME NEW k \in 0 .. width - 1, k \in G
      PROVE  k + 1 \in G
  <2>1. k + 1 \in 0 .. width /\ k + 1 # 0 /\ (k + 1) - 1 = k
    OBVIOUS
  <2>2. f[k + 1] = f[k] * 256 + ByteOf(b, i, width, order, k)
    BY <1>1, <2>1 DEF Adding
  <2>3. f[k] \in Nat /\ ByteOf(b, i, width, order, k) \in Nat
    BY <1>2, <1>4
  <2> QED BY <2>1, <2>2, <2>3
<1>5. \A k \in 0 .. width - 1 : k \in G => k + 1 \in G
  <2> HIDE DEF G
  <2> QED BY <1>4
<1>6. width \in G
  <2> HIDE DEF G
  <2> QED BY <1>3, <1>5, UpTo
<1> QED BY <1>6, GetIs DEF f

(* Strings of UTF-16.                                                      *)
LEMMA WideType ==
  ASSUME NEW b \in Buffers, NEW i \in Nat
  PROVE  getUTF16Length(b, i) \in Nat
<1> DEFINE units == {k \in 0 .. bufsize(b) : InRange(b, i + 2 * k, 2)}
           nulls == {k \in units : get_u(b, i + 2 * k, 2, "little") = 0}
<1>1. bufsize(b) \in Nat
  BY BufferHas
<1>2. IsFiniteSet(0 .. bufsize(b)) /\ units \subseteq 0 .. bufsize(b)
  BY <1>1, FS_Interval
<1>3. Cardinality(units) \in Nat
  <2> HIDE DEF units
  <2> QED BY <1>2, FS_Subset, FS_CardinalityType
<1>4. nulls \in SUBSET Nat
  BY <1>1
<1>5. nulls # {} => Min(nulls) \in Nat
  <2> HIDE DEF nulls
  <2> QED BY <1>4, MinOf
<1>6. getUTF16Length(b, i) = IF nulls = {} THEN Cardinality(units) ELSE Min(nulls)
  BY DEF getUTF16Length
<1> HIDE DEF units, nulls
<1> QED BY <1>3, <1>5, <1>6

LEMMA WideOfType ==
  ASSUME NEW b \in Buffers, NEW i \in Nat, NEW n \in Nat
  PROVE  getUTF16LengthOf(b, i, n) \in Nat
<1> DEFINE units == {k \in 0 .. n - 1 : InRange(b, i + 2 * k, 2)}
<1>1. IsFiniteSet(0 .. n - 1) /\ units \subseteq 0 .. n - 1
  BY FS_Interval
<1>2. Cardinality(units) \in Nat
  <2> HIDE DEF units
  <2> QED BY <1>1, FS_Subset, FS_CardinalityType
<1> QED BY <1>2 DEF getUTF16LengthOf

LEMMA UTF8Type ==
  ASSUME NEW b \in Buffers, NEW i \in Nat
  PROVE  Len(getUTF8(b, i)) \in Nat
<1> DEFINE nulls == {k \in i .. bufsize(b) - 1 : At(b, k) = 0}
           end == IF nulls = {} THEN bufsize(b) ELSE Min(nulls)
<1>1. bufsize(b) \in Nat /\ b.buf \in Seq(Bytes) /\ bufsize(b) = Len(b.buf)
  BY BufferHas
<1>2. nulls \in SUBSET Nat
  BY <1>1
<1>3. end \in Nat
  <2>1. nulls # {} => Min(nulls) \in Nat
    <3> HIDE DEF nulls
    <3> QED BY <1>2, MinOf
  <2> QED BY <1>1, <2>1
<1>4. i + (end - i) \in Nat /\ i + (end - i) = end
  BY <1>3
<1>5. substr(b, i, end - i) = SubSeq(b.buf, i + 1, Min({end, Len(b.buf)}))
  BY <1>1, <1>4 DEF substr
<1>6. SubSeq(b.buf, i + 1, Min({end, Len(b.buf)})) \in Seq(Bytes)
  <2> HIDE DEF end
  <2> QED BY <1>1, <1>3, CutOut
<1>7. getUTF8(b, i) \in Seq(Bytes)
  BY <1>5, <1>6 DEF getUTF8
<1> QED BY <1>7, LenProperties

LEMMA LineType ==
  ASSUME NEW b \in Buffers, NEW i \in Nat, LineStarts(b, i) # {}
  PROVE  /\ Min(LineStarts(b, i)) \in Nat /\ Min(LineStarts(b, i)) < b.pagesize
         /\ i <= Min(LineStarts(b, i))
         /\ LineEnd(b, Min(LineStarts(b, i))) \in Nat
         /\ Min(LineStarts(b, i)) < LineEnd(b, Min(LineStarts(b, i)))
<1> DEFINE start == Min(LineStarts(b, i))
           ends == {p \in start + 1 .. bufsize(b) - 1 : At(b, p) = NEWLINE}
<1>1. bufsize(b) \in Nat /\ b.pagesize \in Nat /\ b.pagesize <= bufsize(b)
  BY BufferHas
<1>2. LineStarts(b, i) \in SUBSET Nat
  BY <1>1 DEF LineStarts
<1>3. start \in LineStarts(b, i)
  BY <1>2, MinOf
<1>4. start \in Nat /\ start < b.pagesize /\ i <= start
  BY <1>1, <1>3 DEF LineStarts
<1> HIDE DEF start
<1>5. ends \in SUBSET Nat
  BY <1>1, <1>4
<1>6. ends # {} => Min(ends) \in ends
  <2> HIDE DEF ends
  <2> QED BY <1>5, MinOf
<1>7. LineEnd(b, start) = IF ends = {} THEN bufsize(b) ELSE Min(ends)
  BY DEF LineEnd
<1>8. LineEnd(b, start) \in Nat /\ start < LineEnd(b, start)
  BY <1>1, <1>4, <1>6, <1>7
<1> QED BY <1>4, <1>8 DEF start

(* Whatever a scanner finds, it is at some place, and it goes on behind    *)
(* some place.                                                             *)
LEMMA SetupHas ==
  ASSUME setup \in Setups
  PROVE  /\ setup.alphabet \subseteq Bytes /\ setup.pagesize \in Nat \ {0}
         /\ setup.length \in Nat /\ setup.margin \in Nat /\ setup.take \in Nat
         /\ setup.max_feature_size \in Nat /\ setup.max_context_size \in Nat
         /\ setup.context_window \in Nat /\ setup.offset_add \in Nat
         /\ setup.kind \in Kinds /\ setup.needle \in Seq(Bytes)
         /\ setup.recurse \in {"no"} \cup Decoders
BY SetupsAssumption

LEMMA HitType ==
  ASSUME setup \in Setups, sbuf \in Buffers, at \in Nat, Hit # NoHit
  PROVE  Hit.pos \in Nat /\ Hit.len \in Nat /\ Hit.next \in Nat
<1>1. setup.take \in Nat
  BY SetupHas
<1>2. ASSUME NEW loc \in Nat \cup {NotFound}, Hit = HitAt(loc)
      PROVE  Hit.pos \in Nat /\ Hit.len \in Nat /\ Hit.next \in Nat
  BY <1>1, <1>2 DEF HitAt, NoHit, NotFound
<1>3. CASE setup.kind = "find"
  <2>1. find(sbuf, setup.needle[1], at) \in Nat \cup {NotFound}
    BY FindType
  <2>2. Hit = HitAt(find(sbuf, setup.needle[1], at))
    BY <1>3 DEF Hit
  <2> QED BY <1>2, <2>1, <2>2
<1>4. CASE setup.kind = "findbin"
  <2>1. findbin(sbuf, setup.needle, at) \in Nat \cup {NotFound}
    BY FindbinType
  <2>2. Hit = HitAt(findbin(sbuf, setup.needle, at))
    BY <1>4 DEF Hit
  <2> QED BY <1>2, <2>1, <2>2
<1>5. CASE setup.kind = "getline"
  <2>1. Hit = LineHit
    BY <1>5 DEF Hit
  <2>2. LineStarts(sbuf, at) # {}
    BY <2>1 DEF LineHit, NoHit
  <2> QED BY <2>1, <2>2, LineType DEF LineHit
<1>6. CASE setup.kind = "strings"
  <2>1. Hit = StringHit /\ InRange(sbuf, at, 1)
    BY <1>6 DEF Hit, StringHit
  <2>2. Len(getUTF8(sbuf, at)) \in Nat
    BY UTF8Type
  <2> QED BY <2>1, <2>2 DEF StringHit, AfterUTF8, AfterInteger
<1>7. CASE setup.kind = "wide"
  <2>1. Hit = WideHit /\ InRange(sbuf, at, 2)
    BY <1>7 DEF Hit, WideHit
  <2>2. getUTF16Length(sbuf, at) \in Nat
    BY WideType
  <2> QED BY <2>1, <2>2 DEF WideHit, AfterUTF16, AfterInteger
<1>8. CASE setup.kind = "records"
  <2>1. Hit = RecordHit /\ InRange(sbuf, at, setup.take)
    BY <1>8 DEF Hit, RecordHit
  <2>2. get_u(sbuf, at, setup.take, setup.order) \in Nat
    BY <1>1, <2>1, GetType
  <2> QED BY <1>1, <2>1, <2>2 DEF RecordHit, AfterInteger
<1>9. CASE setup.kind = "counted"
  <2> DEFINE units == get_u(sbuf, at, setup.take, setup.order)
  <2>1. Hit = CountedHit /\ InRange(sbuf, at, setup.take)
    BY <1>9 DEF Hit, CountedHit
  <2>2. units \in Nat
    BY <1>1, <2>1, GetType
  <2>3. getUTF16LengthOf(sbuf, at + setup.take, units) \in Nat
    <3> HIDE DEF units
    <3>1. at + setup.take \in Nat
      BY <1>1
    <3> QED BY <2>2, <3>1, WideOfType
  <2> QED BY <1>1, <2>1, <2>2, <2>3 DEF CountedHit, AfterInteger, AfterUTF16Of
<1> QED BY <1>3, <1>4, <1>5, <1>6, <1>7, <1>8, <1>9, SetupHas DEF Kinds

-----------------------------------------------------------------------------
(* What recursion gives the scanner, and what the program gives it.        *)
LEMMA DecodeType ==
  ASSUME NEW name, NEW s \in Seq(Bytes)
  PROVE  Decode(name, s) \in Seq(Bytes) /\ Len(Decode(name, s)) = Len(s)
<1>1. Len(s) \in Nat /\ \A i \in 1 .. Len(s) : s[i] \in Bytes
  BY LenProperties, ElementOfSeq
<1>2. ASSUME NEW i \in 1 .. Len(s)
      PROVE  (IF name = "XOR" /\ s[i] \in {97, 98} THEN 195 - s[i] ELSE s[i]) \in Bytes
  <2>1. CASE name = "XOR" /\ s[i] \in {97, 98}
    <3>1. 195 - s[i] \in Bytes
      <4>1. s[i] = 97 \/ s[i] = 98
        BY <2>1
      <4>2. 195 - 97 \in Bytes /\ 195 - 98 \in Bytes
        BY DEF Bytes
      <4> QED BY <4>1, <4>2
    <3> QED BY <2>1, <3>1
  <2>2. CASE ~(name = "XOR" /\ s[i] \in {97, 98})
    BY <1>1, <2>2
  <2> QED BY <2>1, <2>2
<1>3. Decode(name, s) \in [1 .. Len(s) -> Bytes]
  BY <1>2 DEF Decode
<1> QED BY <1>1, <1>3, SeqOfFunction

LEMMA NewBuffer ==
  ASSUME NEW p \in Positions, NEW s \in Seq(Bytes), NEW n \in Nat
  PROVE  sbuf_new(p, s, n) \in Buffers
<1>1. Len(s) \in Nat
  BY LenProperties
<1>2. Min({Len(s), n}) \in Nat /\ Min({Len(s), n}) <= Len(s)
  BY <1>1, MinOfTwo
<1> QED BY <1>2 DEF sbuf_new, sbuf_t, Buffers

ChildPos0(b, pos, name) == PlusSubdir(PlusOffset(b.pos0, pos), name)
ChildOf(b, pos, name) ==
    IF name = "SLICE" THEN new_slice(b, ChildPos0(b, pos, name), pos, bufsize(b) - pos)
    ELSE sbuf_new(ChildPos0(b, pos, name), Decode("XOR", substr(b, pos, bufsize(b) - pos)), bufsize(b) - pos)

LEMMA ChildIs ==
  ASSUME NEW pos, setup.recurse \in Decoders
  PROVE  Child(pos) = ChildOf(sbuf, pos, setup.recurse)
BY DEF Child, ChildOf, ChildPos0, Decoders

LEMMA ChildType ==
  ASSUME NEW b \in Buffers, ~isRecursive(b.pos0), NEW pos \in 0 .. bufsize(b) - 1, NEW name \in Decoders
  PROVE  ChildOf(b, pos, name) \in Buffers /\ isRecursive(ChildOf(b, pos, name).pos0)
<1> DEFINE p == ChildPos0(b, pos, name)
           n == bufsize(b) - pos
<1>1. /\ b.pos0 \in Positions /\ b.buf \in Seq(Bytes) /\ b.pagesize \in Nat
      /\ bufsize(b) \in Nat /\ bufsize(b) = Len(b.buf)
  BY BufferHas
<1>2. pos \in Nat /\ n \in Nat /\ pos + n = Len(b.buf)
  BY <1>1
<1>3. p = [path |-> <<b.pos0.offset + pos, name>>, offset |-> 0]
  <2>1. b.pos0.path = <<>>
    BY DEF isRecursive
  <2>2. <<>> \o <<b.pos0.offset + pos, name>> = <<b.pos0.offset + pos, name>>
    OBVIOUS
  <2> QED BY <2>1, <2>2 DEF ChildPos0, PlusSubdir, PlusOffset, pos0_t
<1>4. p \in Positions /\ isRecursive(p)
  <2>1. b.pos0.offset + pos \in Nat
    BY <1>1, <1>2 DEF Positions
  <2>2. <<b.pos0.offset + pos, name>> \in PathSet /\ <<b.pos0.offset + pos, name>> # <<>>
    BY <2>1 DEF PathSet
  <2> HIDE DEF p
  <2> QED BY <1>3, <2>2 DEF Positions, isRecursive
<1>5. CASE name = "SLICE"
  <2> DEFINE s == SubSeq(b.buf, pos + 1, pos + n)
             m == PageOfSlice(b, pos, n)
  <2>1. s \in Seq(Bytes) /\ Len(s) = n
    <3> DEFINE first == pos + 1
               last == pos + n
    <3>1. first \in Int /\ last \in Int /\ first >= 1 /\ last = Len(b.buf)
      BY <1>2
    <3>2. \A i \in first .. last : b.buf[i] \in Bytes
      <4>1. \A i \in 1 .. Len(b.buf) : b.buf[i] \in Bytes
        BY <1>1, ElementOfSeq
      <4> HIDE DEF first, last
      <4> QED BY <1>1, <3>1, <4>1
    <3>3. /\ SubSeq(b.buf, first, last) \in Seq(Bytes)
          /\ Len(SubSeq(b.buf, first, last)) = IF first <= last THEN last - first + 1 ELSE 0
      <4> HIDE DEF first, last
      <4> QED BY <3>1, <3>2, SubSeqProperties
    <3>4. (IF first <= last THEN last - first + 1 ELSE 0) = n
      BY <1>2
    <3> QED BY <3>3, <3>4
  <2>2. m \in Nat /\ m <= n
    <3>1. b.pagesize \in Nat /\ n \in Nat
      BY <1>1, <1>2
    <3>2. Min({b.pagesize, n}) \in Nat /\ Min({b.pagesize, n}) <= n
      <4> HIDE DEF n
      <4> QED BY <3>1, MinOfTwo
    <3> QED BY <3>1, <3>2 DEF PageOfSlice
  <2>3. ChildOf(b, pos, name) = [pos0 |-> p, buf |-> s, pagesize |-> m]
    BY <1>5 DEF ChildOf, new_slice, sbuf_t
  <2> HIDE DEF p, s, m
  <2> QED BY <1>4, <2>1, <2>2, <2>3 DEF Buffers
<1>6. CASE name # "SLICE"
  <2> DEFINE s == Decode("XOR", substr(b, pos, n))
  <2>1. s \in Seq(Bytes)
    BY <1>2, SubstrType, DecodeType
  <2>2. ChildOf(b, pos, name) = sbuf_new(p, s, n)
    BY <1>6 DEF ChildOf
  <2>3. ChildOf(b, pos, name).pos0 = p
    BY <2>2 DEF sbuf_new, sbuf_t
  <2> HIDE DEF p, s, n
  <2> QED BY <1>2, <1>4, <2>1, <2>2, <2>3, NewBuffer
<1> QED BY <1>5, <1>6

LEMMA PageType ==
  ASSUME setup \in Setups, image \in Seq(Bytes), NEW k \in Nat
  PROVE  PageAt(k) \in Buffers /\ ~isRecursive(PageAt(k).pos0)
<1> DEFINE first == k * setup.pagesize
           n == first + setup.pagesize + setup.margin
           s == SubSeq(image, first + 1, Min({n, Len(image)}))
           p == pos0_t(<<>>, first)
<1>1. first \in Nat /\ n \in Nat /\ setup.pagesize \in Nat
  <2>1. setup.pagesize \in Nat /\ setup.margin \in Nat
    BY SetupHas
  <2>2. first \in Nat
    BY <2>1
  <2> HIDE DEF first
  <2> QED BY <2>1, <2>2
<1>2. PageAt(k) = sbuf_new(p, s, setup.pagesize)
  BY DEF PageAt
<1>3. s \in Seq(Bytes)
  <2> HIDE DEF first, n
  <2> QED BY <1>1, CutOut
<1>4. p \in Positions /\ ~isRecursive(p)
  <2> HIDE DEF first
  <2> QED BY <1>1 DEF pos0_t, Positions, PathSet, isRecursive
<1>5. sbuf_new(p, s, setup.pagesize) \in Buffers
  <2> HIDE DEF p, s
  <2> QED BY <1>1, <1>3, <1>4, NewBuffer
<1>6. PageAt(k).pos0 = p
  BY <1>2 DEF sbuf_new, sbuf_t
<1> HIDE DEF p, s
<1> QED BY <1>2, <1>4, <1>5, <1>6

(* The fields of a line.                                                   *)
Texts(max) == {s \in Seq(Bytes) : Len(s) \in 1 .. max}
LinesFor(su) ==
    {<<p, f>> : p \in Positions, f \in Texts(su.max_feature_size)}
      \cup {<<p, f, c>> : p \in Positions, f \in Texts(su.max_feature_size),
                          c \in Texts(su.max_context_size)}

LEMMA ResizeType ==
  ASSUME NEW s \in Seq(Bytes), NEW max \in Nat
  PROVE  /\ Resize(s, max) \in Seq(Bytes) /\ Len(Resize(s, max)) <= max
         /\ Resize(s, max) # <<>> => Resize(s, max) \in Texts(max)
<1> DEFINE r == SubSeq(s, 1, Min({max, Len(s)}))
<1>1. Resize(s, max) = r
  <2>1. {Len(s), max} = {max, Len(s)}
    OBVIOUS
  <2> QED BY <2>1 DEF Resize
<1>2. /\ r \in Seq(Bytes)
      /\ \A i \in 1 .. Len(r) : i <= max
  <2>1. /\ SubSeq(s, 0 + 1, Min({max, Len(s)})) \in Seq(Bytes)
        /\ \A i \in 1 .. Len(SubSeq(s, 0 + 1, Min({max, Len(s)}))) : 0 + i <= max
    BY CutOut
  <2>2. SubSeq(s, 0 + 1, Min({max, Len(s)})) = r
    OBVIOUS
  <2>3. ASSUME NEW i \in 1 .. Len(r)
        PROVE  i <= max
    <3>1. i \in 1 .. Len(SubSeq(s, 0 + 1, Min({max, Len(s)}))) /\ i \in Int
      BY <2>1, <2>2, LenProperties
    <3>2. 0 + i <= max
      BY <2>1, <3>1, Zenon
    <3> HIDE DEF r
    <3> QED BY <3>1, <3>2
  <2> HIDE DEF r
  <2> QED BY <2>1, <2>2, <2>3
<1> HIDE DEF r
<1>3. Len(r) \in Nat /\ (r # <<>> => Len(r) \in Nat \ {0})
  BY <1>2, LenProperties, EmptySeq
<1>4. Len(r) <= max
  <2>1. CASE Len(r) = 0
    BY <2>1
  <2>2. CASE Len(r) # 0
    <3>1. Len(r) \in 1 .. Len(r)
      BY <1>3, <2>2
    <3> QED BY <1>2, <3>1
  <2> QED BY <2>1, <2>2
<1> QED BY <1>1, <1>2, <1>3, <1>4 DEF Texts

LEMMA ShiftType ==
  ASSUME NEW p \in Positions, NEW s \in Nat
  PROVE  shift(p, s) \in Positions
<1>1. p = [path |-> p.path, offset |-> p.offset] /\ p.path \in PathSet /\ p.offset \in Nat
  BY DEF Positions
<1>2. CASE s = 0
  BY <1>2 DEF shift
<1>3. CASE s # 0 /\ ~isRecursive(p)
  BY <1>1, <1>3 DEF shift, pos0_t, Positions, PathSet
<1>4. CASE s # 0 /\ isRecursive(p)
  <2> DEFINE n == ShiftBase(p.path) + s
             q == [p.path EXCEPT ![1] = n]
  <2>1. p.path \in Nat \X Decoders
    BY <1>1, <1>4 DEF PathSet, isRecursive
  <2>2. n \in Nat
    <3>1. p.path[1] \in Nat
      BY <2>1
    <3> QED BY <3>1 DEF ShiftBase
  <2>3. shift(p, s) = pos0_t(q, p.offset)
    BY <1>4 DEF shift
  <2> HIDE DEF n
  <2>4. q \in Nat \X Decoders
    BY <2>1, <2>2
  <2> QED BY <1>1, <2>3, <2>4 DEF pos0_t, Positions, PathSet
<1> QED BY <1>2, <1>3, <1>4

-----------------------------------------------------------------------------
(* The types, for the proof: the pages and the calls are buffers, a call   *)
(* recurses only if it was not recursed into, and the program takes a page *)
(* only when all calls have ended.                                         *)
Calls == [sbuf : Buffers, at : Nat]
Finds == [feature : Seq(Bytes), context : Seq(Bytes)]

ImageTyped == setup \in Setups /\ image \in Seq(Bytes) /\ Len(image) = setup.length
PagesTyped ==
    /\ pc \in {"client", "scan", "done", "terminated"}
    /\ page \in 0 .. Len(image)
    /\ pc # "scan" => callers = <<>>
CallsTyped ==
    /\ sbuf \in Buffers /\ at \in Nat
    /\ \/ callers = <<>> /\ ~isRecursive(sbuf.pos0)
       \/ isRecursive(sbuf.pos0) /\ \E c \in Calls : callers = <<c>> /\ ~isRecursive(c.sbuf.pos0)
LinesTyped ==
    /\ file \in Seq(LinesFor(setup)) /\ raw \in Seq(Finds) /\ Len(raw) = Len(file)
    /\ alerts \in Seq(Positions)

Typed == ImageTyped /\ PagesTyped /\ CallsTyped /\ LinesTyped

LEMMA InitTyped == Init => Typed
<1> SUFFICES ASSUME Init PROVE Typed
  OBVIOUS
<1>1. setup \in Setups /\ setup.length \in Nat /\ setup.alphabet \subseteq Bytes
  BY SetupHas DEF Init
<1>2. image \in Seq(Bytes) /\ Len(image) = setup.length
  <2>1. image \in [1 .. setup.length -> Bytes]
    BY <1>1 DEF Init
  <2> QED BY <1>1, <2>1, SeqOfFunction
<1>3. ImageTyped
  BY <1>1, <1>2 DEF ImageTyped
<1>4. PagesTyped
  BY <1>1, <1>2 DEF PagesTyped, Init
<1>5. CallsTyped
  <2>1. <<>> \in Seq(Bytes) /\ Len(<<>>) = 0
    OBVIOUS
  <2>2. NoBuffer \in Buffers /\ NoBuffer.pos0.path = <<>>
    BY <2>1 DEF NoBuffer, sbuf_t, pos0_t, Buffers, Positions, PathSet
  <2> QED BY <2>2 DEF Init, CallsTyped, isRecursive
<1>6. LinesTyped
  BY DEF LinesTyped, Init
<1> QED BY <1>3, <1>4, <1>5, <1>6 DEF Typed

(* The end of a call.                                                      *)
LEMMA ReturnsTyped ==
  ASSUME Typed, pc = "scan", ScannerReturns
  PROVE  ImageTyped' /\ PagesTyped' /\ CallsTyped'
<1>1. ImageTyped'
  BY DEF Typed, ImageTyped, ScannerReturns
<1>2. CASE callers = <<>> /\ pc' = "client" /\ UNCHANGED <<sbuf, at, callers>>
  <2>1. PagesTyped'
    BY <1>2 DEF Typed, PagesTyped, ScannerReturns
  <2>2. CallsTyped'
    BY <1>2 DEF Typed, CallsTyped
  <2> QED BY <1>1, <2>1, <2>2
<1>3. CASE /\ callers # <<>>
           /\ sbuf' = Head(callers).sbuf
           /\ at' = Head(callers).at
           /\ callers' = Tail(callers)
           /\ UNCHANGED pc
  <2>1. PICK c \in Calls : callers = <<c>> /\ ~isRecursive(c.sbuf.pos0)
    BY <1>3 DEF Typed, CallsTyped
  <2>2. Head(callers) = c /\ Tail(callers) = <<>>
    BY <2>1
  <2>3. PagesTyped'
    BY <1>3 DEF Typed, PagesTyped, ScannerReturns
  <2>4. c.sbuf \in Buffers /\ c.at \in Nat
    BY DEF Calls
  <2>5. CallsTyped'
    BY <1>3, <2>1, <2>2, <2>4 DEF CallsTyped
  <2> QED BY <1>1, <2>3, <2>5
<1> QED BY <1>2, <1>3 DEF ScannerReturns

LEMMA FeatureType ==
  ASSUME Typed, Hit # NoHit
  PROVE  /\ Hit.pos \in Nat /\ Hit.len \in Nat /\ Hit.next \in Nat
         /\ Feature(Hit.pos, Hit.len) \in Seq(Bytes)
         /\ Context(Hit.pos, Hit.len) \in Seq(Bytes)
<1>1. setup \in Setups /\ sbuf \in Buffers /\ at \in Nat
  BY DEF Typed, ImageTyped, CallsTyped
<1>2. Hit.pos \in Nat /\ Hit.len \in Nat /\ Hit.next \in Nat
  BY <1>1, HitType
<1>3. Feature(Hit.pos, Hit.len) \in Seq(Bytes)
  BY <1>1, <1>2, SubstrType DEF Feature
<1> DEFINE pos == Hit.pos
           len == Hit.len
           p0 == IF setup.context_window < pos THEN pos - setup.context_window ELSE 0
           p1 == Min({Min({pos + len, bufsize(sbuf)}) + setup.context_window, bufsize(sbuf)})
<1>4. setup.context_window \in Nat /\ bufsize(sbuf) \in Nat /\ sbuf.buf \in Seq(Bytes) /\ bufsize(sbuf) = Len(sbuf.buf)
  BY <1>1, SetupHas, BufferHas
<1>5. pos \in Nat /\ len \in Nat
  BY <1>2
<1> HIDE DEF pos, len
<1>6. p0 \in Nat
  BY <1>4, <1>5
<1>7. p1 \in Nat
  <2> DEFINE e == Min({pos + len, bufsize(sbuf)})
  <2>1. e \in Nat
    BY <1>4, <1>5, MinOfTwo
  <2> HIDE DEF e
  <2>2. e + setup.context_window \in Nat
    BY <1>4, <2>1
  <2>3. Min({e + setup.context_window, bufsize(sbuf)}) \in Nat
    BY <1>4, <2>2, MinOfTwo
  <2> QED BY <2>3 DEF e
<1>8. Context(pos, len) = IF setup.no_context THEN <<>> ELSE substr(sbuf, p0, p1 - p0)
  BY DEF Context
<1> HIDE DEF p0, p1
<1>9. substr(sbuf, p0, p1 - p0) \in Seq(Bytes)
  <2>1. p0 + (p1 - p0) = p1
    BY <1>6, <1>7
  <2>2. substr(sbuf, p0, p1 - p0) =
           SubSeq(sbuf.buf, p0 + 1, Min({p0 + (p1 - p0), bufsize(sbuf)}))
    BY DEF substr
  <2>3. substr(sbuf, p0, p1 - p0) = SubSeq(sbuf.buf, p0 + 1, Min({p1, Len(sbuf.buf)}))
    BY <1>4, <2>1, <2>2
  <2>4. SubSeq(sbuf.buf, p0 + 1, Min({p1, Len(sbuf.buf)})) \in Seq(Bytes)
    BY <1>4, <1>6, <1>7, CutOut
  <2> QED BY <2>3, <2>4
<1>10. Context(pos, len) \in Seq(Bytes)
  BY <1>8, <1>9
<1> QED BY <1>2, <1>3, <1>10 DEF pos, len

(* A line is written.                                                      *)
LEMMA LineTyped ==
  ASSUME Typed, Found, Quotable, ~IsEmpty
  PROVE  /\ Line(FeaturePos0(Hit.pos), QuotedFeature(Feature(Hit.pos, Hit.len)),
                 QuotedContext(Context(Hit.pos, Hit.len))) \in LinesFor(setup)
         /\ [feature |-> Feature(Hit.pos, Hit.len), context |-> Context(Hit.pos, Hit.len)] \in Finds
<1> DEFINE f == Feature(Hit.pos, Hit.len)
           c == Context(Hit.pos, Hit.len)
           qf == QuotedFeature(f)
           qc == QuotedContext(c)
           p == FeaturePos0(Hit.pos)
<1>1. Hit.pos \in Nat /\ f \in Seq(Bytes) /\ c \in Seq(Bytes)
  BY FeatureType DEF Found
<1>2. setup \in Setups /\ sbuf \in Buffers
  BY DEF Typed, ImageTyped, CallsTyped
<1>3. /\ setup.max_feature_size \in Nat /\ setup.max_context_size \in Nat
      /\ setup.offset_add \in Nat
  BY <1>2, SetupHas
<1>4. p \in Positions
  <2>1. sbuf.pos0 \in Positions
    BY <1>2, BufferHas
  <2> QED BY <1>1, <2>1 DEF FeaturePos0, PlusOffset, pos0_t, Positions
<1>5. shift(p, setup.offset_add) \in Positions
  <2> HIDE DEF p
  <2> QED BY <1>3, <1>4, ShiftType
<1> HIDE DEF f, c, p
<1>6. qf # <<>>
  BY DEF IsEmpty, f
<1>7. qf \in Texts(setup.max_feature_size)
  <2>1. Quote(make_utf8(f)) \in Seq(Bytes)
    <3>1. make_utf8(f) \in Seq(Bytes)
      BY <1>1, MadeBytes
    <3> QED BY <3>1, EscapedBytes DEF Quote
  <2>2. qf = Resize(Quote(make_utf8(f)), setup.max_feature_size)
    BY DEF QuotedFeature, QuoteToSize
  <2> HIDE DEF qf
  <2> QED BY <1>3, <1>6, <2>1, <2>2, ResizeType
<1>8. qc # <<>> => qc \in Texts(setup.max_context_size)
  <2>1. Quote(c) \in Seq(Bytes)
    BY <1>1, EscapedBytes DEF Quote
  <2>2. qc = IF setup.no_context THEN <<>> ELSE Resize(Quote(c), setup.max_context_size)
    BY DEF QuotedContext, QuoteToSize
  <2> HIDE DEF qc
  <2> QED BY <1>3, <2>1, <2>2, ResizeType
<1> HIDE DEF qf, qc
<1> DEFINE q == shift(p, setup.offset_add)
<1>9. Line(p, qf, qc) = IF setup.no_context \/ qc = <<>> THEN <<q, qf>> ELSE <<q, qf, qc>>
  <2>1. Line(p, qf, qc) = <<q, qf>> \o (IF setup.no_context \/ qc = <<>> THEN <<>> ELSE <<qc>>)
    BY DEF Line
  <2>2. <<q, qf>> \o <<>> = <<q, qf>> /\ <<q, qf>> \o <<qc>> = <<q, qf, qc>>
    <3> HIDE DEF q
    <3> QED BY PairAnd
  <2> QED BY <2>1, <2>2
<1> HIDE DEF q
<1>10. Line(p, qf, qc) \in LinesFor(setup)
  BY <1>5, <1>7, <1>8, <1>9 DEF LinesFor, q
<1>11. [feature |-> f, context |-> c] \in Finds
  BY <1>1 DEF Finds
<1> QED BY <1>10, <1>11 DEF f, c, p, qf, qc

LEMMA WrittenTyped ==
  ASSUME Typed, Found, Quotable, ~IsEmpty, WriteLine, setup' = setup
  PROVE  file' \in Seq(LinesFor(setup')) /\ raw' \in Seq(Finds) /\ Len(raw') = Len(file')
<1> DEFINE l == Line(FeaturePos0(Hit.pos), QuotedFeature(Feature(Hit.pos, Hit.len)),
                 QuotedContext(Context(Hit.pos, Hit.len)))
           r == [feature |-> Feature(Hit.pos, Hit.len), context |-> Context(Hit.pos, Hit.len)]
<1>1. l \in LinesFor(setup) /\ r \in Finds
  BY LineTyped
<1>2. file' = Append(file, l) /\ raw' = Append(raw, r)
  BY DEF WriteLine
<1>3. file \in Seq(LinesFor(setup)) /\ raw \in Seq(Finds) /\ Len(raw) = Len(file)
  BY DEF Typed, LinesTyped
<1> HIDE DEF l, r
<1>4. file' \in Seq(LinesFor(setup)) /\ raw' \in Seq(Finds) /\ Len(raw') = Len(file')
  BY <1>1, <1>2, <1>3, AppendProperties
<1> QED BY <1>4

(* What the actions with an alert have in common.                          *)
LEMMA AlertTyped ==
  ASSUME Typed, Alert
  PROVE  alerts' \in Seq(Positions)
<1>1. alerts \in Seq(Positions) /\ sbuf.pos0 \in Positions
  BY BufferHas DEF Typed, LinesTyped, CallsTyped
<1> QED BY <1>1, AppendProperties DEF Alert

LEMMA SameLinesTyped ==
  ASSUME Typed, UNCHANGED <<file, raw>>, alerts' \in Seq(Positions), setup' = setup
  PROVE  LinesTyped'
BY DEF Typed, LinesTyped

LEMMA SameCallsTyped ==
  ASSUME Typed, UNCHANGED <<setup, image, page, sbuf, callers>>, at' \in Nat, pc' = pc
  PROVE  ImageTyped' /\ PagesTyped' /\ CallsTyped'
BY DEF Typed, ImageTyped, PagesTyped, CallsTyped

LEMMA StepTyped == Typed /\ [Next]_vars => Typed'
<1> SUFFICES ASSUME Typed, [Next]_vars PROVE Typed'
  OBVIOUS
<1>1. CASE NextPage
  <2>1. setup \in Setups /\ image \in Seq(Bytes) /\ page \in 0 .. Len(image) /\ callers = <<>>
    BY <1>1 DEF NextPage, Typed, ImageTyped, PagesTyped
  <2>2. page \in Nat /\ Len(image) \in Nat
    BY <2>1, LenProperties
  <2>3. page + 1 <= Len(image)
    <3>1. setup.pagesize \in Nat \ {0}
      BY <2>1, SetupHas
    <3>2. page * setup.pagesize < Len(image)
      BY <1>1 DEF NextPage, MorePages
    <3>3. page <= page * setup.pagesize
      <4> DEFINE d == setup.pagesize - 1
      <4>1. d \in Nat /\ setup.pagesize = d + 1
        BY <3>1
      <4> HIDE DEF d
      <4>2. page * (d + 1) = page * d + page /\ page * d \in Nat
        BY <2>2, <4>1
      <4> QED BY <2>2, <4>1, <4>2
    <3> DEFINE m == page * setup.pagesize
    <3>4. m \in Nat
      BY <2>2, <3>1
    <3> HIDE DEF m
    <3>5. m < Len(image) /\ page <= m
      BY <3>2, <3>3 DEF m
    <3> QED BY <2>2, <3>4, <3>5
  <2>4. PageAt(page) \in Buffers /\ ~isRecursive(PageAt(page).pos0)
    BY <2>1, <2>2, PageType
  <2>5. ImageTyped'
    BY <1>1 DEF NextPage, Typed, ImageTyped
  <2>6. PagesTyped'
    BY <1>1, <2>2, <2>3 DEF NextPage, PagesTyped
  <2>7. CallsTyped'
    <3>1. sbuf' = PageAt(page) /\ at' = 0 /\ callers' = <<>>
      BY <1>1, <2>1 DEF NextPage
    <3> QED BY <2>4, <3>1 DEF CallsTyped
  <2>8. LinesTyped'
    BY <1>1 DEF NextPage, Typed, LinesTyped
  <2> QED BY <2>5, <2>6, <2>7, <2>8 DEF Typed
<1>2. CASE SkipScanner
  <2>1. ImageTyped' /\ PagesTyped' /\ CallsTyped'
    BY <1>2, ReturnsTyped DEF SkipScanner
  <2>2. LinesTyped'
    BY <1>2 DEF SkipScanner, ScannerReturns, Typed, LinesTyped
  <2> QED BY <2>1, <2>2 DEF Typed
<1>3. CASE FindNothing
  <2>1. ImageTyped' /\ PagesTyped' /\ CallsTyped'
    BY <1>3, ReturnsTyped DEF FindNothing, Scanning
  <2>2. LinesTyped'
    BY <1>3 DEF FindNothing, ScannerReturns, Typed, LinesTyped
  <2> QED BY <2>1, <2>2 DEF Typed
<1>4. CASE WriteNothing
  <2>1. Hit.next \in Nat
    BY <1>4, FeatureType DEF WriteNothing, Found
  <2>2. ImageTyped' /\ PagesTyped' /\ CallsTyped'
    BY <1>4, <2>1, SameCallsTyped DEF WriteNothing
  <2>3. LinesTyped'
    BY <1>4 DEF WriteNothing, Typed, LinesTyped
  <2> QED BY <2>2, <2>3 DEF Typed
<1>5. CASE WriteFeature
  <2>1. Found /\ Quotable /\ ~IsEmpty /\ WriteLine /\ UNCHANGED <<setup, image, pc, page, alerts>>
    BY <1>5 DEF WriteFeature, InPage
  <2>2. LinesTyped'
    <3>1. file' \in Seq(LinesFor(setup')) /\ raw' \in Seq(Finds) /\ Len(raw') = Len(file')
      BY <2>1, WrittenTyped
    <3>2. alerts' \in Seq(Positions)
      BY <2>1 DEF Typed, LinesTyped
    <3> QED BY <3>1, <3>2 DEF LinesTyped
  <2>3. Hit.next \in Nat /\ Hit.pos \in Nat
    BY <2>1, FeatureType DEF Found
  <2>4. CASE ~Recurses /\ at' = Hit.next /\ UNCHANGED <<sbuf, callers>>
    <3>1. ImageTyped' /\ PagesTyped' /\ CallsTyped'
      BY <2>1, <2>3, <2>4, SameCallsTyped
    <3> QED BY <2>2, <3>1 DEF Typed
  <2>5. CASE Recurses /\ RecurseInto(Child(Hit.pos))
    <3> DEFINE c == [sbuf |-> sbuf, at |-> Hit.next]
               new == ChildOf(sbuf, Hit.pos, setup.recurse)
    <3>1. sbuf \in Buffers /\ setup \in Setups /\ setup.recurse \in Decoders /\ ~isRecursive(sbuf.pos0)
      BY <2>5, SetupHas DEF Typed, CallsTyped, ImageTyped, Recurses
    <3>2. callers = <<>>
      BY <3>1 DEF Typed, CallsTyped
    <3>3. Hit.pos \in 0 .. bufsize(sbuf) - 1
      <4>1. ~(Hit.pos >= bufsize(sbuf)) /\ bufsize(sbuf) \in Nat
        BY <2>1, <3>1, BufferHas DEF Found, OutsideBuffer
      <4> QED BY <2>3, <4>1
    <3>4. new \in Buffers /\ isRecursive(new.pos0)
      BY <3>1, <3>3, ChildType
    <3>5. Child(Hit.pos) = new
      BY <3>1, ChildIs
    <3> HIDE DEF new
    <3>6. sbuf' = new /\ at' = 0 /\ callers' = <<c>>
      BY <2>5, <3>2, <3>5 DEF RecurseInto
    <3>7. c \in Calls /\ c.sbuf = sbuf
      BY <2>3, <3>1 DEF Calls
    <3> HIDE DEF c
    <3>8. CallsTyped'
      BY <3>1, <3>4, <3>6, <3>7 DEF CallsTyped
    <3>9. ImageTyped'
      BY <2>1 DEF Typed, ImageTyped
    <3>10. PagesTyped'
      BY <1>5, <2>1 DEF Typed, PagesTyped, WriteFeature, InPage, Found, Scanning
    <3> QED BY <2>2, <3>8, <3>9, <3>10 DEF Typed
  <2> QED BY <1>5, <2>4, <2>5 DEF WriteFeature
<1>6. CASE ThrowOutside
  <2>1. ImageTyped' /\ PagesTyped' /\ CallsTyped'
    BY <1>6, ReturnsTyped DEF ThrowOutside, Scanning, Alert
  <2>2. alerts' \in Seq(Positions)
    BY <1>6, AlertTyped DEF ThrowOutside
  <2>3. LinesTyped'
    BY <1>6, <2>2, SameLinesTyped DEF ThrowOutside, Alert, ScannerReturns
  <2> QED BY <2>1, <2>3 DEF Typed
<1>7. CASE ThrowBeforeLine
  <2>1. ImageTyped' /\ PagesTyped' /\ CallsTyped'
    BY <1>7, ReturnsTyped DEF ThrowBeforeLine, InPage, Found, Scanning, Alert
  <2>2. alerts' \in Seq(Positions)
    BY <1>7, AlertTyped DEF ThrowBeforeLine
  <2>3. LinesTyped'
    BY <1>7, <2>2, SameLinesTyped DEF ThrowBeforeLine, Alert, ScannerReturns
  <2> QED BY <2>1, <2>3 DEF Typed
<1>8. CASE ThrowAfterLine
  <2>1. ImageTyped' /\ PagesTyped' /\ CallsTyped'
    BY <1>8, ReturnsTyped DEF ThrowAfterLine, InPage, Found, Scanning, Alert
  <2>2. alerts' \in Seq(Positions)
    BY <1>8, AlertTyped DEF ThrowAfterLine
  <2>3. file' \in Seq(LinesFor(setup')) /\ raw' \in Seq(Finds) /\ Len(raw') = Len(file')
    <3>1. Found /\ Quotable /\ ~IsEmpty /\ WriteLine /\ setup' = setup
      BY <1>8 DEF ThrowAfterLine, InPage, Alert, ScannerReturns
    <3> QED BY <3>1, WrittenTyped
  <2> QED BY <2>1, <2>2, <2>3 DEF Typed, LinesTyped
<1>9. CASE Shutdown
  BY <1>9 DEF Shutdown, Typed, ImageTyped, PagesTyped, CallsTyped, LinesTyped
<1>10. CASE ShutdownThrows
  BY <1>10 DEF ShutdownThrows, Typed, ImageTyped, PagesTyped, CallsTyped, LinesTyped
<1>11. CASE Done \/ UNCHANGED vars
  BY <1>11 DEF Done, vars, Typed, ImageTyped, PagesTyped, CallsTyped, LinesTyped
<1> QED BY <1>1, <1>2, <1>3, <1>4, <1>5, <1>6, <1>7, <1>8, <1>9, <1>10, <1>11 DEF Next

(* What is typed is of the types that the model states.                    *)
LEMMA LineHas ==
  ASSUME NEW su, NEW l \in LinesFor(su), su.max_feature_size \in Nat, su.max_context_size \in Nat
  PROVE  /\ l[1] \in Positions /\ l[2] \in Texts(su.max_feature_size)
         /\ Len(l) \in {2, 3} /\ (Len(l) = 3 => l[3] \in Texts(su.max_context_size))
         /\ \A field \in ToSet(FieldsOf(l)) : field = l[2] \/ (Len(l) = 3 /\ field = l[3])
<1>1. CASE \E p \in Positions, f \in Texts(su.max_feature_size) : l = <<p, f>>
  <2>1. PICK p \in Positions, f \in Texts(su.max_feature_size) : l = <<p, f>>
    BY <1>1
  <2>2. Len(l) = 2 /\ l[1] = p /\ l[2] = f
    BY <2>1
  <2>3. \A i \in 2 .. 2 : l[i] \in {f}
    BY <2>2
  <2>4. SubSeq(l, 2, 2) \in Seq({f})
    BY <2>3, SubSeqProperties
  <2>5. \A field \in ToSet(FieldsOf(l)) : field = l[2]
    BY <2>2, <2>4, LenProperties DEF ToSet, FieldsOf
  <2> QED BY <2>2, <2>5
<1>2. CASE \E p \in Positions, f \in Texts(su.max_feature_size), c \in Texts(su.max_context_size) :
             l = <<p, f, c>>
  <2>1. PICK p \in Positions, f \in Texts(su.max_feature_size), c \in Texts(su.max_context_size) :
             l = <<p, f, c>>
    BY <1>2
  <2>2. Len(l) = 3 /\ l[1] = p /\ l[2] = f /\ l[3] = c
    BY <2>1
  <2>3. \A i \in 2 .. 3 : l[i] \in {f, c}
    BY <2>2
  <2>4. SubSeq(l, 2, 3) \in Seq({f, c})
    BY <2>3, SubSeqProperties
  <2>5. \A field \in ToSet(FieldsOf(l)) : field = l[2] \/ field = l[3]
    BY <2>2, <2>4, LenProperties DEF ToSet, FieldsOf
  <2> QED BY <2>2, <2>5
<1> QED BY <1>1, <1>2 DEF LinesFor

LEMMA TypedTypes == Typed => TypeOK
<1> SUFFICES ASSUME Typed PROVE TypeOK
  OBVIOUS
<1>1. setup \in Setups /\ Len(image) = setup.length /\ pc \in {"client", "scan", "done", "terminated"}
      /\ page \in 0 .. Len(image) /\ at \in Nat /\ Len(raw) = Len(file)
  BY DEF Typed, ImageTyped, PagesTyped, CallsTyped, LinesTyped
<1>2. sbuf \in Buffers /\ sbuf.pagesize <= bufsize(sbuf)
  BY BufferHas DEF Typed, CallsTyped
<1>3. depth(sbuf.pos0) = Len(callers)
  <2>1. sbuf.pos0.path \in PathSet
    BY <1>2, BufferHas DEF Positions
  <2>2. CASE isRecursive(sbuf.pos0)
    <3>1. sbuf.pos0.path \in Nat \X Decoders
      BY <2>1, <2>2 DEF PathSet, isRecursive
    <3>2. Len(sbuf.pos0.path) = 2
      BY <3>1
    <3>3. Len(callers) = 1
      BY <2>2 DEF Typed, CallsTyped
    <3> QED BY <3>2, <3>3 DEF depth
  <2>3. CASE ~isRecursive(sbuf.pos0)
    <3>1. sbuf.pos0.path = <<>> /\ callers = <<>>
      BY <2>3 DEF Typed, CallsTyped, isRecursive
    <3> QED BY <3>1 DEF depth
  <2> QED BY <2>2, <2>3
<1>4. ASSUME NEW i \in Written
      PROVE  /\ \A field \in ToSet(FieldsOf(file[i])) : ToSet(field) \subseteq Bytes
             /\ Len(file[i][2]) \in 1 .. setup.max_feature_size
             /\ Len(file[i]) = 3 => Len(file[i][3]) \in 1 .. setup.max_context_size
  <2>1. file \in Seq(LinesFor(setup))
    BY DEF Typed, LinesTyped
  <2>2. file[i] \in LinesFor(setup)
    BY <2>1, ElementOfSeq DEF Written
  <2>3. setup.max_feature_size \in Nat /\ setup.max_context_size \in Nat
    BY <1>1, SetupHas
  <2> DEFINE l == file[i]
  <2>4. /\ l[2] \in Texts(setup.max_feature_size)
        /\ Len(l) = 3 => l[3] \in Texts(setup.max_context_size)
        /\ \A field \in ToSet(FieldsOf(l)) : field = l[2] \/ (Len(l) = 3 /\ field = l[3])
    <3> HIDE DEF l
    <3> QED BY <2>2, <2>3, LineHas DEF l
  <2> HIDE DEF l
  <2>5. ASSUME NEW s \in Seq(Bytes)
        PROVE  ToSet(s) \subseteq Bytes
    BY <2>5, LenProperties, ElementOfSeq DEF ToSet
  <2>6. ASSUME NEW field \in ToSet(FieldsOf(l))
        PROVE  ToSet(field) \subseteq Bytes
    <3>1. field \in Seq(Bytes)
      BY <2>4, <2>6 DEF Texts
    <3> QED BY <2>5, <3>1
  <2>7. /\ Len(l[2]) \in 1 .. setup.max_feature_size
        /\ Len(l) = 3 => Len(l[3]) \in 1 .. setup.max_context_size
    BY <2>4 DEF Texts
  <2> QED BY <2>6, <2>7 DEF l
<1> QED BY <1>1, <1>2, <1>3, <1>4 DEF TypeOK

(* Everything has its type: the page is a part of its buffer, the path of  *)
(* a buffer is as deep as the calls that have led to it, and the fields of *)
(* a line are bytes, not empty and not longer than they may be.            *)
THEOREM ScanTypes == Spec => []TypeOK
<1>1. Spec => []Typed
  BY InitTyped, StepTyped, PTL DEF Spec
<1> QED BY <1>1, TypedTypes, PTL

-----------------------------------------------------------------------------
(* The stop list.  readfile() folds over the sets of positions, whose      *)
(* largest is taken first; there is a function of that recursion.          *)
Reading(lines, n, g) ==
    g = [s \in SUBSET (1 .. n) |->
           IF s = {} THEN EmptyList ELSE ReadLine(g[s \ {Max(s)}], lines[Max(s)])]
ReadingOf(lines, n) == CHOOSE g : Reading(lines, n, g)

LEMMA ReadfileIs ==
  ASSUME NEW T, NEW lines \in Seq(T)
  PROVE  readfile(lines) = ReadingOf(lines, Len(lines))[1 .. Len(lines)]
<1>1. DOMAIN lines = 1 .. Len(lines)
  BY LenProperties
<1>2. readfile(lines) =
        (CHOOSE g : g = [s \in SUBSET DOMAIN lines |->
           IF s = {} THEN EmptyList ELSE ReadLine(g[s \ {Max(s)}], lines[Max(s)])])[DOMAIN lines]
  BY DEF readfile, FoldLeft, MapThenFoldSet
<1> QED BY <1>1, <1>2 DEF ReadingOf, Reading

LEMMA ReadingExists ==
  ASSUME NEW lines, NEW n \in Nat
  PROVE  Reading(lines, n, ReadingOf(lines, n))
<1> DEFINE G == {m \in 0 .. n : \E g : Reading(lines, m, g)}
<1>1. 0 \in G
  <2>1. SUBSET (1 .. 0) = {{}}
    OBVIOUS
  <2>2. Reading(lines, 0, [s \in SUBSET (1 .. 0) |-> EmptyList])
    BY <2>1 DEF Reading
  <2> QED BY <2>2
<1>2. ASSUME NEW m \in 0 .. n - 1, m \in G
      PROVE  m + 1 \in G
  <2>1. PICK g : Reading(lines, m, g)
    BY <1>2
  <2> DEFINE H(s) == IF m + 1 \in s THEN ReadLine(g[s \ {m + 1}], lines[m + 1]) ELSE g[s]
             h == [s \in SUBSET (1 .. m + 1) |-> H(s)]
  <2>2. ASSUME NEW s \in SUBSET (1 .. m)
        PROVE  s \in SUBSET (1 .. m + 1) /\ h[s] = g[s]
    <3>1. s \in SUBSET (1 .. m + 1) /\ m + 1 \notin s
      OBVIOUS
    <3> QED BY <3>1
  <2>3. ASSUME NEW s \in SUBSET (1 .. m + 1)
        PROVE  h[s] = IF s = {} THEN EmptyList ELSE ReadLine(h[s \ {Max(s)}], lines[Max(s)])
    <3>1. CASE m + 1 \in s
      <4>1. Max(s) = m + 1
        <5>1. m + 1 \in Nat /\ s # {}
          BY <3>1
        <5>2. Max(s) \in s /\ \A y \in s : y <= Max(s)
          BY <5>1, LargestIn
        <5>3. Max(s) \in 1 .. m + 1
          BY <5>2
        <5>4. m + 1 <= Max(s)
          BY <3>1, <5>2
        <5> HIDE DEF h
        <5> QED BY <5>3, <5>4
      <4>2. s \ {m + 1} \in SUBSET (1 .. m)
        OBVIOUS
      <4>3. h[s \ {m + 1}] = g[s \ {m + 1}]
        <5> HIDE DEF h
        <5> QED BY <2>2, <4>2
      <4>4. h[s] = ReadLine(g[s \ {m + 1}], lines[m + 1])
        BY <3>1
      <4> HIDE DEF h
      <4> QED BY <3>1, <4>1, <4>3, <4>4
    <3>2. CASE m + 1 \notin s
      <4>1. s \in SUBSET (1 .. m)
        BY <3>2
      <4>2. h[s] = g[s]
        <5> HIDE DEF h
        <5> QED BY <2>2, <4>1
      <4>3. g[s] = IF s = {} THEN EmptyList ELSE ReadLine(g[s \ {Max(s)}], lines[Max(s)])
        BY <2>1, <4>1 DEF Reading
      <4>4. s \ {Max(s)} \in SUBSET (1 .. m)
        BY <4>1
      <4>5. h[s \ {Max(s)}] = g[s \ {Max(s)}]
        <5> HIDE DEF h
        <5> QED BY <2>2, <4>4
      <4> HIDE DEF h
      <4> QED BY <4>2, <4>3, <4>5
    <3> QED BY <3>1, <3>2
  <2>4. h = [s \in SUBSET (1 .. m + 1) |-> h[s]]
    OBVIOUS
  <2>5. Reading(lines, m + 1, h)
    <3> HIDE DEF h
    <3> QED BY <2>3, <2>4 DEF Reading
  <2>6. m + 1 \in 0 .. n
    OBVIOUS
  <2> HIDE DEF h
  <2> QED BY <2>5, <2>6
<1>3. \A m \in 0 .. n - 1 : m \in G => m + 1 \in G
  <2> HIDE DEF G
  <2> QED BY <1>2
<1>4. n \in G
  <2> HIDE DEF G
  <2> QED BY <1>1, <1>3, UpTo
<1> QED BY <1>4 DEF ReadingOf

(* The list after the first k lines.                                       *)
LEMMA ReadNext ==
  ASSUME NEW lines, NEW n \in Nat, NEW k \in 1 .. n
  PROVE  ReadingOf(lines, n)[1 .. k] = ReadLine(ReadingOf(lines, n)[1 .. k - 1], lines[k])
<1> DEFINE g == ReadingOf(lines, n)
           s == 1 .. k
<1>1. Reading(lines, n, g)
  BY ReadingExists
<1>2. s \in SUBSET (1 .. n) /\ s # {} /\ k \in s
  OBVIOUS
<1>3. Max(s) = k
  <2>1. Max(s) \in s /\ \A y \in s : y <= Max(s)
    <3> HIDE DEF s
    <3> QED BY <1>2, LargestIn
  <2> QED BY <1>2, <2>1
<1>4. s \ {k} = 1 .. k - 1
  OBVIOUS
<1>5. g[s] = ReadLine(g[s \ {Max(s)}], lines[Max(s)])
  <2> HIDE DEF g, s
  <2> QED BY <1>1, <1>2 DEF Reading
<1> HIDE DEF g
<1> QED BY <1>3, <1>4, <1>5 DEF g

LEMMA ReadNothing ==
  ASSUME NEW lines, NEW n \in Nat
  PROVE  ReadingOf(lines, n)[1 .. 0] = EmptyList
<1>1. Reading(lines, n, ReadingOf(lines, n))
  BY ReadingExists
<1>2. (1 .. 0) = {} /\ {} \in SUBSET (1 .. n)
  OBVIOUS
<1> QED BY <1>1, <1>2 DEF Reading

(* A line of the file, and the entry that it stands for.                   *)
EntryOf(line) == context(line[2], ContextField(line))

LEMMA ReadLineIs ==
  ASSUME NEW list, NEW line, Len(line) \in {2, 3}
  PROVE  ReadLine(list, line) = add_fc(list, line[2], ContextField(line))
BY DEF ReadLine, ContextField

(* Each line's entry is in the list, or that of an earlier line with its   *)
(* context; and each context in the list is that of a line whose entry is. *)
LEMMA ReadEntries ==
  ASSUME NEW T, NEW lines \in Seq(T), \A i \in 1 .. Len(lines) : Len(lines[i]) \in {2, 3},
         NEW i \in 1 .. Len(lines)
  PROVE  \/ EntryOf(lines[i]) \in readfile(lines).fcmap
         \/ \E j \in 1 .. i - 1 : /\ ContextField(lines[j]) = ContextField(lines[i])
                                  /\ ContextField(lines[i]) # <<>>
                                  /\ EntryOf(lines[j]) \in readfile(lines).fcmap
<1> DEFINE n == Len(lines)
           L(k) == ReadingOf(lines, n)[1 .. k]
           C(j) == ContextField(lines[j])
           E(j) == EntryOf(lines[j])
           Known(k, m) == \/ E(m) \in L(k).fcmap
                          \/ \E j \in 1 .. m - 1 : C(j) = C(m) /\ C(m) # <<>> /\ E(j) \in L(k).fcmap
           Backed(k, c) == \E j \in 1 .. k : C(j) = c /\ E(j) \in L(k).fcmap
           G == {k \in 0 .. n : /\ \A m \in 1 .. k : Known(k, m)
                                /\ \A c \in L(k).context_set : c # <<>> => Backed(k, c)}
<1>1. n \in Nat
  BY LenProperties
<1> HIDE DEF n
<1>2. 0 \in G
  <2>1. L(0) = EmptyList
    BY <1>1, ReadNothing
  <2> QED BY <1>1, <2>1 DEF EmptyList
<1>3. ASSUME NEW k \in 0 .. n - 1, k \in G
      PROVE  k + 1 \in G
  <2>1. k + 1 \in 1 .. n /\ k + 1 \in 0 .. n /\ (k + 1) - 1 = k
    BY <1>1
  <2>2. L(k + 1) = add_fc(L(k), lines[k + 1][2], C(k + 1))
    <3>1. ReadingOf(lines, n)[1 .. (k + 1)] = ReadLine(ReadingOf(lines, n)[1 .. (k + 1) - 1], lines[k + 1])
      BY <1>1, <2>1, ReadNext
    <3>2. L(k + 1) = ReadLine(L(k), lines[k + 1])
      BY <2>1, <3>1
    <3>3. Len(lines[k + 1]) \in {2, 3}
      BY <2>1 DEF n
    <3> QED BY <3>2, <3>3, ReadLineIs
  <2>3. E(k + 1) = context(lines[k + 1][2], C(k + 1))
    BY DEF EntryOf
  <2> HIDE DEF L, C, E
  <2>4. /\ \A m \in 1 .. k : Known(k, m)
        /\ \A c \in L(k).context_set : c # <<>> => Backed(k, c)
    BY <1>3
  <2>5. CASE C(k + 1) # <<>> /\ C(k + 1) \in L(k).context_set
    <3>1. L(k + 1) = L(k)
      BY <2>2, <2>5 DEF add_fc
    <3>2. PICK j \in 1 .. k : C(j) = C(k + 1) /\ E(j) \in L(k).fcmap
      BY <2>4, <2>5
    <3>3. Known(k + 1, k + 1)
      BY <2>1, <2>5, <3>1, <3>2
    <3>4. \A m \in 1 .. k + 1 : m \in 1 .. k \/ m = k + 1
      OBVIOUS
    <3>5. \A m \in 1 .. k + 1 : Known(k + 1, m)
      BY <2>4, <3>1, <3>3, <3>4
    <3>6. \A c \in L(k + 1).context_set : c # <<>> => Backed(k + 1, c)
      <4>1. \A c : Backed(k, c) => Backed(k + 1, c)
        BY <3>1
      <4> HIDE DEF Backed, Known
      <4> QED BY <2>4, <3>1, <4>1
    <3> HIDE DEF Backed, Known
    <3> QED BY <2>1, <3>5, <3>6
  <2>6. CASE ~(C(k + 1) # <<>> /\ C(k + 1) \in L(k).context_set)
    <3>1. /\ L(k + 1).fcmap = L(k).fcmap \cup {E(k + 1)}
          /\ L(k + 1).context_set = L(k).context_set \cup {C(k + 1)}
      BY <2>2, <2>3, <2>6 DEF add_fc
    <3>2. Known(k + 1, k + 1) /\ Backed(k + 1, C(k + 1))
      <4>1. E(k + 1) \in L(k + 1).fcmap /\ k + 1 \in 1 .. k + 1
        BY <2>1, <3>1
      <4> QED BY <4>1
    <3>3. \A m \in 1 .. k + 1 : m \in 1 .. k \/ m = k + 1
      OBVIOUS
    <3>4. \A m \in 1 .. k : Known(k, m) => Known(k + 1, m)
      BY <3>1
    <3>5. \A c : Backed(k, c) => Backed(k + 1, c)
      BY <3>1
    <3> HIDE DEF Backed, Known
    <3>6. \A m \in 1 .. k + 1 : Known(k + 1, m)
      BY <2>4, <3>2, <3>3, <3>4
    <3>7. \A c \in L(k + 1).context_set : c # <<>> => Backed(k + 1, c)
      BY <2>4, <3>1, <3>2, <3>5
    <3> QED BY <2>1, <3>6, <3>7
  <2> QED BY <2>5, <2>6
<1>4. \A k \in 0 .. n - 1 : k \in G => k + 1 \in G
  <2> HIDE DEF G
  <2> QED BY <1>3
<1>5. n \in G
  <2> HIDE DEF G
  <2> QED BY <1>1, <1>2, <1>4, UpTo
<1>6. i \in 1 .. n
  BY DEF n
<1>7. Known(n, i)
  <2> HIDE DEF Known, Backed
  <2> QED BY <1>5, <1>6
<1>8. L(n) = readfile(lines)
  BY ReadfileIs DEF n
<1> HIDE DEF L
<1> QED BY <1>7, <1>8

(* What surrounds a feature is the same string both times.                 *)
LEMMA SameEndItself ==
  ASSUME NEW s, Len(s) \in Nat
  PROVE  SameEnd(s, s)
<1> DEFINE r == Reverse(s)
<1>1. Len(r) = Len(s)
  BY DEF Reverse
<1>2. IsPrefix(r, r)
  <2> HIDE DEF r
  <2> QED BY <1>1 DEF IsPrefix
<1> QED BY <1>2 DEF SameEnd, IsSuffix

LEMMA SurroundingsFinite ==
  ASSUME NEW f \in Seq(Bytes), NEW c \in Seq(Bytes)
  PROVE  Len(context(f, c).before) \in Nat /\ Len(context(f, c).after) \in Nat
<1> DEFINE places == Places(f, c)
           first == CHOOSE i \in places : \A j \in places : i <= j
<1>1. Len(f) \in Nat /\ Len(c) \in Nat /\ \A i \in 1 .. Len(c) : c[i] \in Bytes
  BY LenProperties, ElementOfSeq
<1>2. CASE places = {}
  BY <1>2 DEF context
<1>3. CASE places # {}
  <2>1. places \in SUBSET Nat /\ \A i \in places : i < Len(c)
    BY <1>1 DEF Places
  <2>2. \E x \in places : \A y \in places : x <= y
    <3> HIDE DEF places
    <3> QED BY <1>3, <2>1, LeastNatural
  <2>3. first \in places
    BY <2>2
  <2>4. first \in Nat /\ first < Len(c)
    <3> HIDE DEF first
    <3> QED BY <2>1, <2>3
  <2> HIDE DEF first
  <2>5. Len(SubSeq(c, 1, first)) \in Nat
    <3>1. \A i \in 1 .. first : c[i] \in Bytes
      BY <1>1, <2>4
    <3>2. SubSeq(c, 1, first) \in Seq(Bytes)
      BY <2>4, <3>1, SubSeqProperties
    <3> QED BY <3>2, LenProperties
  <2>6. Len(SubSeq(c, first + Len(f) + 1, Len(c))) \in Nat
    <3> DEFINE m == first + Len(f) + 1
    <3>1. m \in Int /\ \A i \in m .. Len(c) : c[i] \in Bytes
      BY <1>1, <2>4
    <3>2. SubSeq(c, m, Len(c)) \in Seq(Bytes)
      <4> HIDE DEF m
      <4> QED BY <1>1, <3>1, SubSeqProperties
    <3> QED BY <3>2, LenProperties
  <2>7. /\ context(f, c).before = SubSeq(c, 1, first)
        /\ context(f, c).after = SubSeq(c, first + Len(f) + 1, Len(c))
    BY <1>3 DEF context, first
  <2> QED BY <2>5, <2>6, <2>7
<1> QED BY <1>2, <1>3

(* A feature whose entry is in the list is stopped in its context.         *)
LEMMA ListedIsStopped ==
  ASSUME NEW list, NEW f \in Seq(Bytes), NEW c \in Seq(Bytes), context(f, c) \in list.fcmap
  PROVE  check_feature_context(list, f, c)
<1> DEFINE e == context(f, c)
<1>1. e.feature = f
  BY DEF context
<1>2. SameEnd(e.before, e.before) /\ SameEnd(e.after, e.after)
  <2>1. Len(e.before) \in Nat /\ Len(e.after) \in Nat
    BY SurroundingsFinite
  <2> HIDE DEF e
  <2> QED BY <2>1, SameEndItself
<1>3. e \in list.fcmap
  OBVIOUS
<1>4. check_feature_context(list, f, c) <=> check(list, f, e.before, e.after)
  BY DEF check_feature_context
<1> HIDE DEF e
<1> QED BY <1>1, <1>2, <1>3, <1>4 DEF check

LEMMA TypedStops == Typed => StopsAgain
<1> SUFFICES ASSUME Typed PROVE StopsAgain
  OBVIOUS
<1>1. file \in Seq(LinesFor(setup)) /\ setup \in Setups
  BY DEF Typed, LinesTyped, ImageTyped
<1>2. ASSUME NEW i \in Written
      PROVE  /\ Len(file[i]) \in {2, 3}
             /\ file[i][2] \in Seq(Bytes) /\ ContextField(file[i]) \in Seq(Bytes)
  <2>1. setup.max_feature_size \in Nat /\ setup.max_context_size \in Nat
    BY <1>1, SetupHas
  <2>2. file[i] \in LinesFor(setup)
    BY <1>1, ElementOfSeq DEF Written
  <2> DEFINE l == file[i]
  <2>3. /\ l[2] \in Texts(setup.max_feature_size)
        /\ Len(l) \in {2, 3} /\ (Len(l) = 3 => l[3] \in Texts(setup.max_context_size))
    <3> HIDE DEF l
    <3> QED BY <2>1, <2>2, LineHas DEF l
  <2> HIDE DEF l
  <2>4. l[2] \in Seq(Bytes) /\ ContextField(l) \in Seq(Bytes)
    BY <2>3 DEF Texts, ContextField
  <2> QED BY <2>3, <2>4 DEF l
<1> DEFINE list == readfile(file)
           C(i) == ContextField(file[i])
<1>3. ASSUME NEW i \in Written
      PROVE  \/ check_feature_context(list, file[i][2], C(i))
             \/ \E j \in 1 .. i - 1 : /\ C(j) = C(i) /\ C(i) # <<>>
                                      /\ file[j][2] # file[i][2]
  <2>1. \/ EntryOf(file[i]) \in list.fcmap
        \/ \E j \in 1 .. i - 1 : C(j) = C(i) /\ C(i) # <<>> /\ EntryOf(file[j]) \in list.fcmap
    BY <1>1, <1>2, ReadEntries DEF Written
  <2>2. CASE EntryOf(file[i]) \in list.fcmap
    <3>1. context(file[i][2], C(i)) \in list.fcmap
      BY <2>2 DEF EntryOf
    <3>2. file[i][2] \in Seq(Bytes) /\ C(i) \in Seq(Bytes)
      BY <1>2
    <3> HIDE DEF list, C
    <3> QED BY <3>1, <3>2, ListedIsStopped
  <2>3. CASE \E j \in 1 .. i - 1 : C(j) = C(i) /\ C(i) # <<>> /\ EntryOf(file[j]) \in list.fcmap
    <3>1. PICK j \in 1 .. i - 1 : C(j) = C(i) /\ C(i) # <<>> /\ EntryOf(file[j]) \in list.fcmap
      BY <2>3
    <3>2. CASE file[j][2] # file[i][2]
      BY <3>1, <3>2
    <3>3. CASE file[j][2] = file[i][2]
      <4>1. context(file[i][2], C(i)) \in list.fcmap
        BY <3>1, <3>3 DEF EntryOf
      <4>2. file[i][2] \in Seq(Bytes) /\ C(i) \in Seq(Bytes)
        BY <1>2
      <4>3. check_feature_context(list, file[i][2], C(i))
        <5> HIDE DEF list, C
        <5> QED BY <4>1, <4>2, ListedIsStopped
      <4> QED BY <4>3
    <3> QED BY <3>2, <3>3
  <2> QED BY <2>1, <2>2, <2>3
<1> QED BY <1>3 DEF StopsAgain

(* The feature file of a run, taken as a stop list, stops each of its      *)
(* lines again, unless an earlier line took the context for another        *)
(* feature.                                                                *)
THEOREM FileStopsAgain == Spec => []StopsAgain
<1>1. Spec => []Typed
  BY InitTyped, StepTyped, PTL DEF Spec
<1> QED BY <1>1, TypedStops, PTL

-----------------------------------------------------------------------------
(* A string is joined from its pieces one after the other.                 *)
Chars == 0 .. 256
Padded(x) == [k \in 1 .. 4 |-> IF k <= Len(x) THEN x[k] ELSE NoByte]

LEMMA PaddedSelects ==
  ASSUME NEW x \in Seq(Bytes), Len(x) <= 4
  PROVE  Padded(x) \in Seq(Chars) /\ Len(Padded(x)) = 4 /\ SelectIn(Padded(x), Bytes) = x
<1> DEFINE n == 4 - Len(x)
           pad == [k \in 1 .. n |-> NoByte]
<1>1. Len(x) \in Nat /\ n \in Nat /\ \A k \in 1 .. Len(x) : x[k] \in Bytes
  BY LenProperties, ElementOfSeq
<1>2. x \in Seq(Chars)
  <2>1. Bytes \subseteq Chars
    BY DEF Bytes, Chars
  <2> QED BY <2>1, SeqMonotonic
<1>3. pad \in Seq(Chars) /\ Len(pad) = n
  <2>1. pad \in [1 .. n -> Chars]
    BY DEF NoByte, Chars
  <2> QED BY <1>1, <2>1, SeqOfFunction
<1>4. SelectIn(pad, Bytes) = <<>>
  <2>1. \A i \in 1 .. n : pad[i] = NoByte
    OBVIOUS
  <2>2. NoByte \notin Bytes
    BY DEF NoByte, Bytes
  <2>3. \A i \in 1 .. Len(pad) : pad[i] \notin Bytes
    <3> HIDE DEF pad
    <3> QED BY <1>3, <2>1, <2>2
  <2> HIDE DEF pad
  <2> QED BY <1>3, <2>3, SelectNone
<1>5. Padded(x) \in Seq(Chars) /\ Len(Padded(x)) = 4
  <2>1. \A k \in 1 .. 4 : (IF k <= Len(x) THEN x[k] ELSE NoByte) \in Chars
    <3> TAKE k \in 1 .. 4
    <3>1. CASE k <= Len(x)
      <4>1. k \in 1 .. Len(x)
        BY <1>1, <3>1
      <4>2. x[k] \in Bytes
        BY <1>1, <4>1
      <4> QED BY <3>1, <4>2 DEF Chars, Bytes
    <3>2. CASE ~(k <= Len(x))
      BY <3>2 DEF NoByte, Chars
    <3> QED BY <3>1, <3>2
  <2>2. Padded(x) \in [1 .. 4 -> Chars]
    BY <2>1 DEF Padded
  <2> QED BY <2>2, SeqOfFunction
<1>6. Padded(x) = x \o pad
  <2>1. \A i \in 1 .. n : pad[i] = NoByte
    OBVIOUS
  <2> HIDE DEF pad
  <2>2. /\ x \o pad \in Seq(Chars) /\ Len(x \o pad) = Len(x) + Len(pad)
        /\ \A i \in 1 .. Len(x) + Len(pad) : (x \o pad)[i] = IF i <= Len(x) THEN x[i] ELSE pad[i - Len(x)]
    BY <1>2, <1>3, ConcatProperties
  <2>3. Len(x) + Len(pad) = 4
    BY <1>1, <1>3
  <2>4. ASSUME NEW i \in 1 .. 4
        PROVE  Padded(x)[i] = (x \o pad)[i]
    <3>1. (x \o pad)[i] = IF i <= Len(x) THEN x[i] ELSE pad[i - Len(x)]
      BY <2>2, <2>3
    <3>2. i > Len(x) => i - Len(x) \in 1 .. n
      BY <1>1
    <3>3. Padded(x)[i] = IF i <= Len(x) THEN x[i] ELSE NoByte
      BY DEF Padded
    <3> QED BY <1>1, <2>1, <3>1, <3>2, <3>3
  <2> QED BY <1>5, <2>2, <2>3, <2>4, SeqEqual
<1>7. SelectIn(x \o pad, Bytes) = SelectIn(x, Bytes) \o SelectIn(pad, Bytes)
  <2> HIDE DEF pad
  <2> QED BY <1>2, <1>3, SelectConcat
<1>8. SelectIn(x, Bytes) = x /\ x \o <<>> = x
  BY SelectAll, ConcatEmptySeq
<1> HIDE DEF pad
<1> QED BY <1>4, <1>5, <1>6, <1>7, <1>8

LEMMA BytesOfType ==
  ASSUME NEW p \in Seq(Seq(Bytes))
  PROVE  BytesOf(p) \in Seq(Chars) /\ Len(BytesOf(p)) = 4 * Len(p) /\ Len(p) \in Nat
<1>1. Len(p) \in Nat
  BY LenProperties
<1>2. ASSUME NEW k \in 1 .. 4 * Len(p)
      PROVE  NthOf(p, k) \in Chars
  <2> DEFINE piece == p[(k + 3) \div 4]
             nth == 1 + ((k - 1) % 4)
  <2>1. (k + 3) \div 4 \in 1 .. Len(p)
    BY <1>1
  <2>2. piece \in Seq(Bytes)
    BY <2>1, ElementOfSeq
  <2>3. nth \in 1 .. 4
    BY <1>1
  <2> HIDE DEF piece, nth
  <2>4. nth <= Len(piece) => piece[nth] \in Bytes
    BY <2>2, <2>3, LenProperties, ElementOfSeq
  <2>5. NthOf(p, k) = IF nth <= Len(piece) THEN piece[nth] ELSE NoByte
    BY DEF NthOf, piece, nth
  <2> QED BY <2>4, <2>5 DEF NoByte, Chars, Bytes
<1>3. BytesOf(p) \in [1 .. 4 * Len(p) -> Chars]
  BY <1>2 DEF BytesOf
<1>4. 4 * Len(p) \in Nat
  BY <1>1
<1> QED BY <1>1, <1>3, <1>4, SeqOfFunction

LEMMA BytesOfAppend ==
  ASSUME NEW p \in Seq(Seq(Bytes)), NEW x \in Seq(Bytes), Len(x) <= 4
  PROVE  BytesOf(Append(p, x)) = BytesOf(p) \o Padded(x)
<1> DEFINE a == Append(p, x)
           n == Len(p)
           b == BytesOf(p)
           d == Padded(x)
<1>1. /\ a \in Seq(Seq(Bytes)) /\ Len(a) = n + 1 /\ n \in Nat
      /\ \A i \in 1 .. n : a[i] = p[i]
      /\ a[n + 1] = x
  BY AppendProperties, LenProperties
<1>2. /\ BytesOf(a) \in Seq(Chars) /\ Len(BytesOf(a)) = 4 * (n + 1)
      /\ b \in Seq(Chars) /\ Len(b) = 4 * n
      /\ d \in Seq(Chars) /\ Len(d) = 4
  <2> HIDE DEF a
  <2> QED BY <1>1, BytesOfType, PaddedSelects
<1>3. /\ b \o d \in Seq(Chars) /\ Len(b \o d) = 4 * n + 4
      /\ \A i \in 1 .. 4 * n + 4 : (b \o d)[i] = IF i <= 4 * n THEN b[i] ELSE d[i - 4 * n]
  <2>1. /\ b \o d \in Seq(Chars) /\ Len(b \o d) = Len(b) + Len(d)
        /\ \A i \in 1 .. Len(b) + Len(d) : (b \o d)[i] = IF i <= Len(b) THEN b[i] ELSE d[i - Len(b)]
    <3> HIDE DEF b, d
    <3> QED BY <1>2, ConcatProperties
  <2> HIDE DEF b, d
  <2> QED BY <1>2, <2>1
<1>4. \A k \in 1 .. 4 * (n + 1) : BytesOf(a)[k] = NthOf(a, k)
  <2> HIDE DEF a
  <2> QED BY <1>1 DEF BytesOf
<1>5. \A k \in 1 .. 4 * n : b[k] = NthOf(p, k)
  BY DEF BytesOf
<1>6. \A k \in 1 .. 4 : d[k] = IF k <= Len(x) THEN x[k] ELSE NoByte
  BY DEF Padded
<1> HIDE DEF a, b, d, n
<1>7. ASSUME NEW k \in 1 .. 4 * n + 4
      PROVE  BytesOf(a)[k] = (b \o d)[k]
  <2> DEFINE i == (k + 3) \div 4
             j == 1 + ((k - 1) % 4)
  <2>0. k \in Int /\ k >= 1 /\ k <= 4 * n + 4 /\ k \in 1 .. 4 * (n + 1)
    BY <1>1
  <2>1. BytesOf(a)[k] = NthOf(a, k)
    BY <1>4, <2>0
  <2>2. NthOf(a, k) = (IF j <= Len(a[i]) THEN a[i][j] ELSE NoByte)
    BY DEF NthOf
  <2>3. CASE k <= 4 * n
    <3>1. i \in 1 .. n /\ k \in 1 .. 4 * n
      BY <1>1, <2>0, <2>3
    <3>2. a[i] = p[i]
      <4> HIDE DEF i
      <4> QED BY <1>1, <3>1
    <3>3. NthOf(p, k) = (IF j <= Len(p[i]) THEN p[i][j] ELSE NoByte)
      BY DEF NthOf
    <3>4. (b \o d)[k] = b[k] /\ b[k] = NthOf(p, k)
      BY <1>3, <1>5, <2>3, <3>1
    <3> HIDE DEF i, j
    <3> QED BY <2>1, <2>2, <3>2, <3>3, <3>4
  <2>4. CASE k > 4 * n
    <3>1. i = n + 1 /\ j = k - 4 * n /\ k - 4 * n \in 1 .. 4
      <4>1. n \in Nat
        BY <1>1
      <4> QED BY <2>0, <2>4, <4>1, QuarterOf
    <3>2. (b \o d)[k] = d[k - 4 * n]
      BY <1>1, <1>3, <2>0, <2>4
    <3> HIDE DEF i, j
    <3>3. a[i] = x
      BY <1>1, <3>1
    <3>4. d[k - 4 * n] = IF j <= Len(x) THEN x[j] ELSE NoByte
      BY <1>6, <3>1
    <3> QED BY <2>1, <2>2, <3>2, <3>3, <3>4
  <2>5. k <= 4 * n \/ k > 4 * n
    <3>1. n \in Nat
      BY <1>1
    <3> QED BY <2>0, <3>1
  <2> QED BY <2>3, <2>4, <2>5
<1>8. Len(BytesOf(a)) = 4 * n + 4
  BY <1>1, <1>2
<1>9. BytesOf(a) = b \o d
  BY <1>2, <1>3, <1>7, <1>8, SeqEqual
<1> QED BY <1>9 DEF a, b, d

LEMMA JoinedAppend ==
  ASSUME NEW p \in Seq(Seq(Bytes)), NEW x \in Seq(Bytes), Len(x) <= 4
  PROVE  Joined(Append(p, x)) = Joined(p) \o x
<1> DEFINE b == BytesOf(p)
           d == Padded(x)
<1>1. Joined(Append(p, x)) = SelectIn(BytesOf(Append(p, x)), Bytes) /\ Joined(p) = SelectIn(b, Bytes)
  BY JoinedIs
<1>2. BytesOf(Append(p, x)) = b \o d
  BY BytesOfAppend
<1>3. b \in Seq(Chars) /\ d \in Seq(Chars) /\ SelectIn(d, Bytes) = x
  BY BytesOfType, PaddedSelects
<1> HIDE DEF b, d
<1>4. SelectIn(b \o d, Bytes) = SelectIn(b, Bytes) \o SelectIn(d, Bytes)
  BY <1>3, SelectConcat
<1> QED BY <1>1, <1>2, <1>3, <1>4

LEMMA JoinedNothing == Joined(<<>>) = <<>>
<1>1. BytesOf(<<>>) = <<>>
  BY DEF BytesOf
<1> QED BY <1>1, JoinedIs, SelectEmpty

-----------------------------------------------------------------------------
(* Quotes come off one part after the other, when no code is cut in two.   *)
Coded(s, i) ==
    /\ i \in 1 .. Len(s) - 3 /\ s[i] = BACKSLASH
    /\ \A k \in 1 .. 3 : IsOctalDigit(s[i + k])
CodeAt(s, i) == ((s[i + 1] - 48) * 64 + (s[i + 2] - 48) * 8 + (s[i + 3] - 48)) % 256
DecodedAt(s, i) == CASE Coded(s, i) -> CodeAt(s, i)
                     [] \E k \in 1 .. 3 : Coded(s, i - k) -> NoByte
                     [] OTHER -> s[i]
Decoded(s) == [i \in DOMAIN s |-> DecodedAt(s, i)]

LEMMA UnquoteIs ==
  ASSUME NEW s
  PROVE  unquote_string(s) = SelectIn(Decoded(s), Bytes)
BY DEF unquote_string, Kept, Decoded, DecodedAt, Coded, CodeAt, Bytes

LEMMA DecodedType ==
  ASSUME NEW s \in Seq(Bytes)
  PROVE  Decoded(s) \in Seq(Chars) /\ Len(Decoded(s)) = Len(s)
<1>1. Len(s) \in Nat /\ DOMAIN s = 1 .. Len(s) /\ \A i \in 1 .. Len(s) : s[i] \in Bytes
  BY LenProperties, ElementOfSeq
<1>2. ASSUME NEW i \in 1 .. Len(s)
      PROVE  DecodedAt(s, i) \in Chars
  <2>1. s[i] \in Chars /\ NoByte \in Chars
    BY <1>1 DEF Bytes, Chars, NoByte
  <2>2. Coded(s, i) => CodeAt(s, i) \in Chars
    <3> SUFFICES ASSUME Coded(s, i) PROVE CodeAt(s, i) \in Chars
      OBVIOUS
    <3>0. i \in 1 .. Len(s) - 3
      BY DEF Coded
    <3>1. i + 1 \in 1 .. Len(s) /\ i + 2 \in 1 .. Len(s) /\ i + 3 \in 1 .. Len(s)
      <4> DEFINE m == Len(s)
      <4>1. m \in Nat /\ i \in 1 .. m - 3
        BY <1>1, <3>0
      <4> HIDE DEF m
      <4>2. i + 1 \in 1 .. m /\ i + 2 \in 1 .. m /\ i + 3 \in 1 .. m
        BY <4>1
      <4> QED BY <4>2 DEF m
    <3> DEFINE x == s[i + 1]
               y == s[i + 2]
               z == s[i + 3]
               n == (x - 48) * 64 + (y - 48) * 8 + (z - 48)
    <3>2. x \in Bytes /\ y \in Bytes /\ z \in Bytes
      <4>1. \A j \in 1 .. Len(s) : s[j] \in Bytes
        BY <1>1
      <4> QED BY <3>1, <4>1
    <3> HIDE DEF x, y, z
    <3>3. n \in Int
      BY <3>2 DEF Bytes
    <3> HIDE DEF n
    <3>4. n % 256 \in 0 .. 255
      BY <3>3
    <3> QED BY <3>4 DEF CodeAt, Chars, n, x, y, z
  <2> QED BY <2>1, <2>2 DEF DecodedAt
<1>3. Decoded(s) \in [1 .. Len(s) -> Chars]
  BY <1>1, <1>2 DEF Decoded
<1> QED BY <1>1, <1>3, SeqOfFunction

Closed(s) == \A i \in 1 .. Len(s) : s[i] = BACKSLASH => Coded(s, i)

LEMMA ConcatHas ==
  ASSUME NEW a \in Seq(Bytes), NEW b \in Seq(Bytes)
  PROVE  /\ a \o b \in Seq(Bytes) /\ Len(a) \in Nat /\ Len(b) \in Nat
         /\ Len(a \o b) = Len(a) + Len(b)
         /\ \A i \in 1 .. Len(a) : (a \o b)[i] = a[i]
         /\ \A i \in Len(a) + 1 .. Len(a) + Len(b) : (a \o b)[i] = b[i - Len(a)]
<1>1. Len(a) \in Nat /\ Len(b) \in Nat
  BY LenProperties
<1>2. /\ a \o b \in Seq(Bytes) /\ Len(a \o b) = Len(a) + Len(b)
      /\ \A i \in 1 .. Len(a) + Len(b) : (a \o b)[i] = IF i <= Len(a) THEN a[i] ELSE b[i - Len(a)]
  BY ConcatProperties
<1> QED BY <1>1, <1>2

LEMMA CodedBefore ==
  ASSUME NEW a \in Seq(Bytes), NEW b \in Seq(Bytes), Closed(a), NEW i \in Int, i <= Len(a)
  PROVE  /\ Coded(a \o b, i) <=> Coded(a, i)
         /\ Coded(a, i) => CodeAt(a \o b, i) = CodeAt(a, i)
<1> DEFINE c == a \o b
<1>1. /\ Len(a) \in Nat /\ Len(b) \in Nat /\ Len(c) = Len(a) + Len(b)
      /\ \A j \in 1 .. Len(a) : c[j] = a[j]
  BY ConcatHas
<1> HIDE DEF c
<1>2. ASSUME Coded(a, i)
      PROVE  Coded(c, i) /\ CodeAt(c, i) = CodeAt(a, i)
  <2>1. i \in 1 .. Len(a) - 3 /\ a[i] = BACKSLASH /\ \A k \in 1 .. 3 : IsOctalDigit(a[i + k])
    BY <1>2 DEF Coded
  <2>2. c[i] = a[i] /\ \A k \in 1 .. 3 : c[i + k] = a[i + k]
    BY <1>1, <2>1
  <2>3. c[i + 1] = a[i + 1] /\ c[i + 2] = a[i + 2] /\ c[i + 3] = a[i + 3]
    BY <2>2
  <2>4. Coded(c, i)
    BY <1>1, <2>1, <2>2 DEF Coded
  <2> QED BY <2>3, <2>4 DEF CodeAt
<1>3. ASSUME Coded(c, i)
      PROVE  Coded(a, i)
  <2>1. i \in 1 .. Len(a) /\ c[i] = BACKSLASH
    BY <1>1, <1>3 DEF Coded
  <2>2. a[i] = BACKSLASH
    BY <1>1, <2>1
  <2> QED BY <2>1, <2>2 DEF Closed
<1> QED BY <1>2, <1>3 DEF c

LEMMA CodedBehind ==
  ASSUME NEW a \in Seq(Bytes), NEW b \in Seq(Bytes), NEW i \in Int, i > Len(a)
  PROVE  /\ Coded(a \o b, i) <=> Coded(b, i - Len(a))
         /\ Coded(b, i - Len(a)) => CodeAt(a \o b, i) = CodeAt(b, i - Len(a))
<1> DEFINE c == a \o b
           n == Len(a)
           j == i - n
<1>1. /\ n \in Nat /\ Len(b) \in Nat /\ Len(c) = n + Len(b)
      /\ \A m \in n + 1 .. n + Len(b) : c[m] = b[m - n]
  BY ConcatHas
<1> HIDE DEF c, n
<1>2. i > n
  BY DEF n
<1>3. i \in 1 .. Len(c) - 3 <=> j \in 1 .. Len(b) - 3
  BY <1>1, <1>2
<1>4. ASSUME j \in 1 .. Len(b) - 3
      PROVE  c[i] = b[j] /\ \A k \in 1 .. 3 : c[i + k] = b[j + k]
  <2>1. i \in n + 1 .. n + Len(b) /\ \A k \in 1 .. 3 : i + k \in n + 1 .. n + Len(b) /\ i + k - n = j + k
    BY <1>1, <1>2, <1>4
  <2>2. \A k \in 1 .. 3 : c[i + k] = b[i + k - n]
    BY <1>1, <2>1
  <2> QED BY <1>1, <2>1, <2>2
<1>5. Coded(c, i) <=> Coded(b, j)
  <2> HIDE DEF j
  <2> QED BY <1>3, <1>4 DEF Coded
<1>6. ASSUME Coded(b, j)
      PROVE  CodeAt(c, i) = CodeAt(b, j)
  <2>1. j \in 1 .. Len(b) - 3
    BY <1>6 DEF Coded
  <2>2. c[i + 1] = b[j + 1] /\ c[i + 2] = b[j + 2] /\ c[i + 3] = b[j + 3]
    <3> HIDE DEF j
    <3> QED BY <1>4, <2>1
  <2> HIDE DEF j
  <2> QED BY <2>2 DEF CodeAt
<1> QED BY <1>5, <1>6 DEF c, n

LEMMA DecodedConcat ==
  ASSUME NEW a \in Seq(Bytes), NEW b \in Seq(Bytes), Closed(a)
  PROVE  Decoded(a \o b) = Decoded(a) \o Decoded(b)
<1> DEFINE c == a \o b
           n == Len(a)
           m == Len(b)
<1>1. /\ c \in Seq(Bytes) /\ n \in Nat /\ m \in Nat /\ Len(c) = n + m
      /\ \A i \in 1 .. n : c[i] = a[i]
      /\ \A i \in n + 1 .. n + m : c[i] = b[i - n]
  BY ConcatHas
<1>2. /\ Decoded(a) \in Seq(Chars) /\ Len(Decoded(a)) = n
      /\ Decoded(b) \in Seq(Chars) /\ Len(Decoded(b)) = m
      /\ Decoded(c) \in Seq(Chars) /\ Len(Decoded(c)) = n + m
  <2> HIDE DEF c
  <2> QED BY <1>1, DecodedType
<1>3. /\ Decoded(a) \o Decoded(b) \in Seq(Chars) /\ Len(Decoded(a) \o Decoded(b)) = n + m
      /\ \A i \in 1 .. n + m : (Decoded(a) \o Decoded(b))[i] =
             IF i <= n THEN Decoded(a)[i] ELSE Decoded(b)[i - n]
  <2>1. /\ Decoded(a) \o Decoded(b) \in Seq(Chars)
        /\ Len(Decoded(a) \o Decoded(b)) = Len(Decoded(a)) + Len(Decoded(b))
        /\ \A i \in 1 .. Len(Decoded(a)) + Len(Decoded(b)) : (Decoded(a) \o Decoded(b))[i] =
             IF i <= Len(Decoded(a)) THEN Decoded(a)[i] ELSE Decoded(b)[i - Len(Decoded(a))]
    <3> DEFINE da == Decoded(a)
               db == Decoded(b)
    <3>1. da \in Seq(Chars) /\ db \in Seq(Chars)
      BY <1>2
    <3> HIDE DEF da, db
    <3>2. /\ da \o db \in Seq(Chars) /\ Len(da \o db) = Len(da) + Len(db)
          /\ \A i \in 1 .. Len(da) + Len(db) : (da \o db)[i] =
               IF i <= Len(da) THEN da[i] ELSE db[i - Len(da)]
      BY <3>1, ConcatProperties
    <3> QED BY <3>2 DEF da, db
  <2> QED BY <1>2, <2>1
<1>4. /\ \A i \in 1 .. n + m : Decoded(c)[i] = DecodedAt(c, i)
      /\ \A i \in 1 .. n : Decoded(a)[i] = DecodedAt(a, i)
      /\ \A i \in 1 .. m : Decoded(b)[i] = DecodedAt(b, i)
  <2>1. DOMAIN c = 1 .. n + m /\ DOMAIN a = 1 .. n /\ DOMAIN b = 1 .. m
    <3> HIDE DEF c
    <3> QED BY <1>1, LenProperties
  <2> HIDE DEF c, n, m
  <2> QED BY <2>1 DEF Decoded
<1>5. ASSUME NEW i \in 1 .. n
      PROVE  DecodedAt(c, i) = DecodedAt(a, i)
  <2>1. i \in Int /\ i <= Len(a) /\ \A k \in 1 .. 3 : i - k \in Int /\ i - k <= Len(a)
    BY <1>1
  <2>2. (Coded(c, i) <=> Coded(a, i)) /\ (Coded(a, i) => CodeAt(c, i) = CodeAt(a, i))
    BY <2>1, CodedBefore
  <2>3. \A k \in 1 .. 3 : Coded(c, i - k) <=> Coded(a, i - k)
    BY <2>1, CodedBefore
  <2>4. c[i] = a[i]
    BY <1>1
  <2> HIDE DEF c
  <2>5. (\E k \in 1 .. 3 : Coded(c, i - k)) <=> (\E k \in 1 .. 3 : Coded(a, i - k))
    BY <2>3
  <2> QED BY <2>2, <2>4, <2>5 DEF DecodedAt
<1>6. ASSUME NEW i \in n + 1 .. n + m
      PROVE  DecodedAt(c, i) = DecodedAt(b, i - n)
  <2> DEFINE j == i - n
  <2>1. i \in Int /\ i > Len(a) /\ j \in 1 .. m
    BY <1>1
  <2>2. (Coded(c, i) <=> Coded(b, j)) /\ (Coded(b, j) => CodeAt(c, i) = CodeAt(b, j))
    BY <2>1, CodedBehind
  <2>3. ASSUME NEW k \in 1 .. 3
        PROVE  Coded(c, i - k) <=> Coded(b, j - k)
    <3>1. CASE i - k > n
      <4>1. i - k \in Int /\ i - k > Len(a) /\ i - k - Len(a) = j - k
        BY <1>1, <3>1
      <4>2. Coded(c, i - k) <=> Coded(b, i - k - Len(a))
        <5> DEFINE l == i - k
        <5>1. l \in Int /\ l > Len(a)
          BY <4>1
        <5> HIDE DEF l
        <5>2. Coded(c, l) <=> Coded(b, l - Len(a))
          BY <5>1, CodedBehind
        <5> QED BY <5>2 DEF l
      <4> QED BY <4>1, <4>2
    <3>2. CASE i - k <= n
      <4>1. i - k \in Int /\ i - k <= Len(a) /\ i - k > n - 3 /\ j - k < 1
        BY <1>1, <3>2
      <4>2. Coded(c, i - k) <=> Coded(a, i - k)
        <5> DEFINE l == i - k
        <5>1. l \in Int /\ l <= Len(a)
          BY <4>1
        <5> HIDE DEF l
        <5>2. Coded(c, l) <=> Coded(a, l)
          BY <5>1, CodedBefore
        <5> QED BY <5>2 DEF l
      <4>3. i - k \notin 1 .. Len(a) - 3 /\ j - k \notin 1 .. Len(b) - 3
        BY <1>1, <4>1
      <4>4. ~Coded(a, i - k) /\ ~Coded(b, j - k)
        BY <4>3 DEF Coded
      <4> QED BY <4>2, <4>4
    <3> QED BY <1>1, <3>1, <3>2
  <2>4. c[i] = b[j]
    BY <1>1
  <2> HIDE DEF c, j
  <2>5. (\E k \in 1 .. 3 : Coded(c, i - k)) <=> (\E k \in 1 .. 3 : Coded(b, j - k))
    BY <2>3
  <2>6. DecodedAt(c, i) = DecodedAt(b, j)
    BY <2>2, <2>4, <2>5 DEF DecodedAt
  <2> QED BY <2>6 DEF j
<1> HIDE DEF c, n, m
<1>7. ASSUME NEW i \in 1 .. n + m
      PROVE  Decoded(c)[i] = (Decoded(a) \o Decoded(b))[i]
  <2>1. CASE i <= n
    <3>1. i \in 1 .. n
      BY <1>1, <2>1
    <3> QED BY <1>3, <1>4, <1>5, <2>1, <3>1
  <2>2. CASE i > n
    <3>1. i \in n + 1 .. n + m /\ i - n \in 1 .. m /\ ~(i <= n)
      BY <1>1, <2>2
    <3>2. Decoded(c)[i] = DecodedAt(b, i - n) /\ Decoded(b)[i - n] = DecodedAt(b, i - n)
      BY <1>4, <1>6, <3>1
    <3>3. (Decoded(a) \o Decoded(b))[i] = Decoded(b)[i - n]
      <4> DEFINE ab == Decoded(a) \o Decoded(b)
                 da == Decoded(a)
                 db == Decoded(b)
      <4>1. \A j \in 1 .. n + m : ab[j] = IF j <= n THEN da[j] ELSE db[j - n]
        BY <1>3
      <4> HIDE DEF ab, da, db
      <4>2. ab[i] = db[i - n]
        BY <3>1, <4>1
      <4> QED BY <4>2 DEF ab, db
    <3> QED BY <3>2, <3>3
  <2>3. i <= n \/ i > n
    BY <1>1
  <2> QED BY <2>1, <2>2, <2>3
<1>8. Decoded(c) = Decoded(a) \o Decoded(b)
  <2> DEFINE x == Decoded(c)
             y == Decoded(a) \o Decoded(b)
  <2>1. /\ x \in Seq(Chars) /\ y \in Seq(Chars) /\ Len(x) = Len(y)
        /\ \A i \in 1 .. Len(x) : x[i] = y[i]
    BY <1>2, <1>3, <1>7
  <2> HIDE DEF x, y
  <2>2. x = y
    BY <2>1, SeqEqual
  <2> QED BY <2>2 DEF x, y
<1> QED BY <1>8 DEF c

LEMMA UnquoteConcat ==
  ASSUME NEW a \in Seq(Bytes), NEW b \in Seq(Bytes), Closed(a)
  PROVE  unquote_string(a \o b) = unquote_string(a) \o unquote_string(b)
<1>1. Decoded(a) \in Seq(Chars) /\ Decoded(b) \in Seq(Chars)
  BY DecodedType
<1>2. SelectIn(Decoded(a) \o Decoded(b), Bytes) = SelectIn(Decoded(a), Bytes) \o SelectIn(Decoded(b), Bytes)
  BY <1>1, SelectConcat
<1>3. Decoded(a \o b) = Decoded(a) \o Decoded(b)
  BY DecodedConcat
<1> QED BY <1>2, <1>3, UnquoteIs

LEMMA ClosedConcat ==
  ASSUME NEW a \in Seq(Bytes), NEW b \in Seq(Bytes), Closed(a), Closed(b)
  PROVE  Closed(a \o b)
<1> DEFINE c == a \o b
           n == Len(a)
           m == Len(b)
<1>1. /\ n \in Nat /\ m \in Nat /\ Len(c) = n + m
      /\ \A i \in 1 .. n : c[i] = a[i]
      /\ \A i \in n + 1 .. n + m : c[i] = b[i - n]
  BY ConcatHas
<1> SUFFICES ASSUME NEW i \in 1 .. n + m, c[i] = BACKSLASH
             PROVE  Coded(c, i)
  BY <1>1 DEF Closed
<1>2. CASE i <= n
  <2>1. i \in 1 .. n /\ i \in Int /\ i <= Len(a)
    BY <1>1, <1>2
  <2>2. a[i] = BACKSLASH
    BY <1>1, <2>1
  <2>3. Coded(a, i)
    BY <2>1, <2>2 DEF Closed
  <2> QED BY <2>1, <2>3, CodedBefore
<1>3. CASE i > n
  <2>1. i \in n + 1 .. n + m /\ i - n \in 1 .. m /\ i \in Int /\ i > Len(a)
    BY <1>1, <1>3
  <2>2. b[i - n] = BACKSLASH
    BY <1>1, <2>1
  <2>3. Coded(b, i - n)
    BY <2>1, <2>2 DEF Closed
  <2> QED BY <2>1, <2>3, CodedBehind
<1> QED BY <1>1, <1>2, <1>3

-----------------------------------------------------------------------------
(* The size of a character by its first byte, if the others follow.        *)
Follow(s, i, n) == i + n <= Len(s) /\ \A k \in 1 .. n : utf8cont(s[i + k])

LEMMA CharSizeIs ==
  ASSUME NEW s \in Seq(Bytes), NEW i \in 1 .. Len(s)
  PROVE  \/ CharSize(s, i) = 1 /\ s[i] < 128
         \/ CharSize(s, i) = 2 /\ s[i] \in 192 .. 223 /\ Follow(s, i, 1)
         \/ CharSize(s, i) = 3 /\ s[i] \in 224 .. 239 /\ Follow(s, i, 2)
         \/ CharSize(s, i) = 4 /\ s[i] \in 240 .. 247 /\ Follow(s, i, 3)
         \/ /\ CharSize(s, i) = 0 /\ ~(s[i] < 128)
            /\ ~(s[i] \in 192 .. 223 /\ Follow(s, i, 1))
            /\ ~(s[i] \in 224 .. 239 /\ Follow(s, i, 2))
            /\ ~(s[i] \in 240 .. 247 /\ Follow(s, i, 3))
<1> DEFINE b == s[i]
           two == Follow(s, i, 1)
           three == Follow(s, i, 2)
           four == Follow(s, i, 3)
           size == CharSize(s, i)
<1>1. size = CASE b < 128 -> 1
               [] b \in 192 .. 223 /\ two -> 2
               [] b \in 224 .. 239 /\ three -> 3
               [] b \in 240 .. 247 /\ four -> 4
               [] OTHER -> 0
  BY DEF CharSize, Follow
<1>2. b \in 0 .. 255
  BY ElementOfSeq DEF Bytes
<1> HIDE DEF b, two, three, four, size
<1>3. CASE b < 128
  <2>1. b \notin 192 .. 223 /\ b \notin 224 .. 239 /\ b \notin 240 .. 247
    BY <1>2, <1>3
  <2>2. size = 1
    BY <1>1, <1>3, <2>1
  <2> QED BY <1>3, <2>2 DEF size, b
<1>4. CASE b \in 192 .. 223 /\ two
  <2>1. ~(b < 128) /\ b \notin 224 .. 239 /\ b \notin 240 .. 247
    BY <1>2, <1>4
  <2>2. size = 2
    BY <1>1, <1>4, <2>1
  <2> QED BY <1>4, <2>2 DEF size, b, two
<1>5. CASE b \in 224 .. 239 /\ three
  <2>1. ~(b < 128) /\ b \notin 192 .. 223 /\ b \notin 240 .. 247
    BY <1>2, <1>5
  <2>2. size = 3
    BY <1>1, <1>5, <2>1
  <2> QED BY <1>5, <2>2 DEF size, b, three
<1>6. CASE b \in 240 .. 247 /\ four
  <2>1. ~(b < 128) /\ b \notin 192 .. 223 /\ b \notin 224 .. 239
    BY <1>2, <1>6
  <2>2. size = 4
    BY <1>1, <1>6, <2>1
  <2> QED BY <1>6, <2>2 DEF size, b, four
<1>7. CASE /\ ~(b < 128) /\ ~(b \in 192 .. 223 /\ two)
           /\ ~(b \in 224 .. 239 /\ three) /\ ~(b \in 240 .. 247 /\ four)
  <2>1. size = 0
    BY <1>1, <1>7
  <2> QED BY <1>7, <2>1 DEF size, b, two, three, four
<1> QED BY <1>3, <1>4, <1>5, <1>6, <1>7

(* A valid character is a byte and the bytes that continue it.             *)
LEMMA SizeIs ==
  ASSUME NEW s \in Seq(Bytes), NEW i \in 1 .. Len(s)
  PROVE  /\ ValidSize(s, i) \in 0 .. 4
         /\ i + ValidSize(s, i) - 1 <= Len(s)
         /\ \A k \in 1 .. ValidSize(s, i) - 1 : utf8cont(s[i + k])
         /\ s[i] < 128 => ValidSize(s, i) = 1
         /\ utf8cont(s[i]) => ValidSize(s, i) = 0
<1> DEFINE size == CharSize(s, i)
           b == s[i]
<1>1. Len(s) \in Nat /\ i \in Nat /\ i <= Len(s)
  BY LenProperties
<1>2. b \in 0 .. 255 /\ (utf8cont(s[i]) <=> b \in 128 .. 191)
  BY ElementOfSeq DEF utf8cont, Bytes
<1>3. \/ size = 1 /\ b < 128
      \/ size = 2 /\ b >= 192 /\ Follow(s, i, 1)
      \/ size = 3 /\ b >= 192 /\ Follow(s, i, 2)
      \/ size = 4 /\ b >= 192 /\ Follow(s, i, 3)
      \/ size = 0 /\ b >= 128
  <2>1. \/ size = 1 /\ b < 128
        \/ size = 2 /\ b \in 192 .. 223 /\ Follow(s, i, 1)
        \/ size = 3 /\ b \in 224 .. 239 /\ Follow(s, i, 2)
        \/ size = 4 /\ b \in 240 .. 247 /\ Follow(s, i, 3)
        \/ size = 0 /\ ~(b < 128)
    BY CharSizeIs
  <2> HIDE DEF size, b
  <2>2. /\ b \in 192 .. 223 => b >= 192
        /\ b \in 224 .. 239 => b >= 192
        /\ b \in 240 .. 247 => b >= 192
        /\ ~(b < 128) => b >= 128
    BY <1>2
  <2> QED BY <2>1, <2>2
<1>4. ValidSize(s, i) \in {size, 0} /\ (size = 1 => ValidSize(s, i) = 1)
  BY DEF ValidSize
<1>5. /\ size \in 0 .. 4 /\ (b < 128 => size = 1) /\ (utf8cont(s[i]) => size = 0)
      /\ i + size - 1 <= Len(s) /\ \A k \in 1 .. size - 1 : utf8cont(s[i + k])
  <2> HIDE DEF size, b
  <2>1. size \in 0 .. 4 /\ (b < 128 => size = 1) /\ (utf8cont(s[i]) => size = 0)
    BY <1>2, <1>3
  <2>2. CASE size = 2 /\ Follow(s, i, 1)
    BY <1>1, <2>1, <2>2 DEF Follow
  <2>3. CASE size = 3 /\ Follow(s, i, 2)
    BY <1>1, <2>1, <2>3 DEF Follow
  <2>4. CASE size = 4 /\ Follow(s, i, 3)
    BY <1>1, <2>1, <2>4 DEF Follow
  <2>5. CASE size \in {0, 1}
    BY <1>1, <2>1, <2>5
  <2> QED BY <1>3, <2>2, <2>3, <2>4, <2>5
<1> HIDE DEF size
<1>6. CASE ValidSize(s, i) = 0
  BY <1>1, <1>4, <1>5, <1>6
<1>7. CASE ValidSize(s, i) = size
  BY <1>1, <1>4, <1>5, <1>7
<1> QED BY <1>4, <1>6, <1>7

(* A byte as three octal digits, and back.                                 *)
LEMMA OctalDigits ==
  ASSUME NEW b \in Bytes
  PROVE  /\ b \div 64 \in 0 .. 3 /\ (b \div 8) % 8 \in 0 .. 7 /\ b % 8 \in 0 .. 7
         /\ (b \div 64) * 64 + ((b \div 8) % 8) * 8 + (b % 8) = b
<1>1. b \in 0 .. 255
  BY DEF Bytes
<1>2. b \in Int /\ b \div 64 \in 0 .. 3 /\ b \div 8 \in Int
  BY <1>1
<1>3. \A n \in Int : n % 8 \in 0 .. 7 /\ n = (n \div 8) * 8 + (n % 8)
  OBVIOUS
<1>4. (b \div 8) \div 8 = b \div 64
  BY <1>2
<1> DEFINE m == b \div 8
<1>5. m \in Int
  BY <1>2
<1>6. b % 8 \in 0 .. 7 /\ b = m * 8 + (b % 8)
  BY <1>2, <1>3
<1>7. m \div 8 = b \div 64
  BY <1>4
<1> HIDE DEF m
<1>8. m % 8 \in 0 .. 7 /\ m = (m \div 8) * 8 + (m % 8)
  BY <1>3, <1>5
<1> DEFINE x == b \div 64
           y == m % 8
           z == b % 8
<1>9. x \in 0 .. 3 /\ y \in 0 .. 7 /\ z \in 0 .. 7 /\ b = m * 8 + z /\ m = x * 8 + y
  BY <1>2, <1>6, <1>7, <1>8
<1> HIDE DEF x, y, z
<1>10. x * 64 + y * 8 + z = b
  BY <1>9
<1> QED BY <1>9, <1>10 DEF x, y, z, m

LEMMA OctalEscape ==
  ASSUME NEW b \in Bytes
  PROVE  /\ octal_escape(b) \in Seq(Bytes) /\ Len(octal_escape(b)) = 4
         /\ octal_escape(b)[1] = BACKSLASH
         /\ \A k \in 1 .. 3 : IsOctalDigit(octal_escape(b)[1 + k])
         /\ CodeAt(octal_escape(b), 1) = b
<1> DEFINE x == b \div 64
           y == (b \div 8) % 8
           z == b % 8
<1>1. x \in 0 .. 3 /\ y \in 0 .. 7 /\ z \in 0 .. 7 /\ x * 64 + y * 8 + z = b
  BY OctalDigits
<1>2. octal_escape(b) = <<92, 48 + x, 48 + y, 48 + z>>
  BY DEF octal_escape, BACKSLASH, Digit
<1> HIDE DEF x, y, z
<1> DEFINE e == <<92, 48 + x, 48 + y, 48 + z>>
<1>3. e \in Seq(Bytes) /\ Len(e) = 4 /\ e[1] = 92 /\ e[2] = 48 + x /\ e[3] = 48 + y /\ e[4] = 48 + z
  BY <1>1 DEF Bytes
<1> HIDE DEF e
<1>4. \A k \in 1 .. 3 : IsOctalDigit(e[1 + k])
  <2>1. \A k \in 1 .. 3 : e[1 + k] \in {48 + x, 48 + y, 48 + z}
    BY <1>3
  <2> QED BY <1>1, <2>1 DEF IsOctalDigit
<1>5. CodeAt(e, 1) = b
  <2>1. e[1 + 1] - 48 = x /\ e[1 + 2] - 48 = y /\ e[1 + 3] - 48 = z
    BY <1>1, <1>3
  <2>2. CodeAt(e, 1) = (x * 64 + y * 8 + z) % 256
    BY <2>1 DEF CodeAt
  <2> QED BY <1>1, <2>2 DEF Bytes
<1>6. octal_escape(b) = e
  BY <1>2 DEF e
<1> QED BY <1>3, <1>4, <1>5, <1>6 DEF BACKSLASH

LEMMA OctalBack ==
  ASSUME NEW b \in Bytes
  PROVE  Closed(octal_escape(b)) /\ unquote_string(octal_escape(b)) = <<b>>
<1> DEFINE e == octal_escape(b)
<1>1. /\ e \in Seq(Bytes) /\ Len(e) = 4 /\ e[1] = BACKSLASH
      /\ \A k \in 1 .. 3 : IsOctalDigit(e[1 + k])
      /\ CodeAt(e, 1) = b
  BY OctalEscape
<1> HIDE DEF e
<1>2. Coded(e, 1)
  BY <1>1 DEF Coded
<1>3. \A i \in 2 .. 4 : e[i] # BACKSLASH
  <2> TAKE i \in 2 .. 4
  <2>1. i - 1 \in 1 .. 3 /\ 1 + (i - 1) = i
    OBVIOUS
  <2>2. IsOctalDigit(e[i])
    BY <1>1, <2>1
  <2> QED BY <2>2 DEF IsOctalDigit, BACKSLASH
<1>4. Closed(e)
  <2> SUFFICES ASSUME NEW i \in 1 .. 4, e[i] = BACKSLASH PROVE Coded(e, i)
    BY <1>1 DEF Closed
  <2>1. i = 1
    BY <1>3
  <2> QED BY <1>2, <2>1
<1>5. \A i \in 2 .. 4 : ~Coded(e, i) /\ \E k \in 1 .. 3 : Coded(e, i - k)
  <2> TAKE i \in 2 .. 4
  <2>1. ~Coded(e, i)
    BY <1>1, <1>3 DEF Coded
  <2>2. i - 1 \in 1 .. 3 /\ i - (i - 1) = 1
    OBVIOUS
  <2>3. \E k \in 1 .. 3 : Coded(e, i - k)
    <3>1. Coded(e, i - (i - 1))
      BY <1>2, <2>2
    <3> DEFINE k == i - 1
    <3>2. k \in 1 .. 3 /\ Coded(e, i - k)
      BY <2>2, <3>1
    <3> HIDE DEF k
    <3> QED BY <3>2
  <2> QED BY <2>1, <2>3
<1>6. DecodedAt(e, 1) = b /\ \A i \in 2 .. 4 : DecodedAt(e, i) = NoByte
  <2>1. \A k \in 1 .. 3 : ~Coded(e, 1 - k)
    <3>1. \A k \in 1 .. 3 : 1 - k \notin 1 .. Len(e) - 3
      BY <1>1
    <3> QED BY <3>1 DEF Coded
  <2>2. DecodedAt(e, 1) = CodeAt(e, 1)
    BY <1>2, <2>1 DEF DecodedAt
  <2>3. \A i \in 2 .. 4 : DecodedAt(e, i) = NoByte
    BY <1>5 DEF DecodedAt
  <2> QED BY <1>1, <2>2, <2>3
<1>7. Decoded(e) \in Seq(Chars) /\ Len(Decoded(e)) = 4
  BY <1>1, DecodedType
<1>8. DOMAIN e = 1 .. 4
  BY <1>1
<1>9. Decoded(e)[1] = b /\ \A i \in 2 .. 4 : Decoded(e)[i] = NoByte
  BY <1>6, <1>8 DEF Decoded
<1> DEFINE pad == <<NoByte, NoByte, NoByte>>
<1>10. pad \in Seq(Chars) /\ Len(pad) = 3 /\ \A i \in 1 .. 3 : pad[i] = NoByte
  BY DEF NoByte, Chars
<1>11. <<b>> \in Seq(Chars) /\ Len(<<b>>) = 1 /\ <<b>>[1] = b /\ <<b>> \in Seq(Bytes)
  BY DEF Bytes, Chars
<1>12. Decoded(e) = <<b>> \o pad
  <2> DEFINE d == Decoded(e)
             p == <<b>>
             c == p \o pad
  <2>1. d \in Seq(Chars) /\ Len(d) = 4 /\ d[1] = b /\ \A i \in 2 .. 4 : d[i] = NoByte
    BY <1>7, <1>9
  <2>2. p \in Seq(Chars) /\ Len(p) = 1 /\ p[1] = b
    BY <1>11
  <2> HIDE DEF d, p, pad
  <2>3. /\ c \in Seq(Chars) /\ Len(c) = 4
        /\ \A i \in 1 .. 4 : c[i] = IF i <= 1 THEN p[i] ELSE pad[i - 1]
    BY <1>10, <2>2, ConcatProperties
  <2> HIDE DEF c
  <2>4. \A i \in 1 .. 4 : d[i] = c[i]
    <3> TAKE i \in 1 .. 4
    <3>1. CASE i = 1
      BY <2>1, <2>2, <2>3, <3>1
    <3>2. CASE i # 1
      <4>1. i \in 2 .. 4 /\ i - 1 \in 1 .. 3 /\ ~(i <= 1)
        BY <3>2
      <4> QED BY <1>10, <2>1, <2>3, <4>1
    <3> QED BY <3>1, <3>2
  <2>5. d = c
    BY <2>1, <2>3, <2>4, SeqEqual
  <2> QED BY <2>5 DEF d, c, p
<1>13. SelectIn(Decoded(e), Bytes) = SelectIn(<<b>>, Bytes) \o SelectIn(pad, Bytes)
  <2> DEFINE p == <<b>>
  <2> HIDE DEF pad, p
  <2>1. SelectIn(p \o pad, Bytes) = SelectIn(p, Bytes) \o SelectIn(pad, Bytes)
    <3>1. p \in Seq(Chars)
      BY <1>11 DEF p
    <3> QED BY <1>10, <3>1, SelectConcat
  <2> QED BY <1>12, <2>1 DEF p
<1>14. SelectIn(<<b>>, Bytes) = <<b>>
  <2>1. <<b>> \in Seq(Bytes)
    OBVIOUS
  <2> QED BY <2>1, SelectAll
<1>15. SelectIn(pad, Bytes) = <<>>
  <2> HIDE DEF pad
  <2>1. \A i \in 1 .. Len(pad) : pad[i] \notin Bytes
    <3>1. Len(pad) = 3 /\ \A i \in 1 .. 3 : pad[i] = NoByte
      BY <1>10
    <3>2. NoByte \notin Bytes
      BY DEF NoByte, Bytes
    <3> QED BY <3>1, <3>2
  <2> QED BY <1>10, <2>1, SelectNone
<1>16. unquote_string(e) = <<b>>
  <2>1. <<b>> \o <<>> = <<b>>
    OBVIOUS
  <2> HIDE DEF pad
  <2> QED BY <1>13, <1>14, <1>15, <2>1, UnquoteIs
<1> QED BY <1>4, <1>16 DEF e

-----------------------------------------------------------------------------
(* What is written for the character or the bad byte at i, and how many    *)
(* bytes of the string it stands for.                                      *)
Reach(s, i) == IF ValidSize(s, i) = 0 THEN 1 ELSE ValidSize(s, i)

LEMMA ReachIs ==
  ASSUME NEW s \in Seq(Bytes), NEW i \in 1 .. Len(s)
  PROVE  /\ Reach(s, i) \in 1 .. 4 /\ i + Reach(s, i) - 1 \in i .. Len(s)
         /\ SubSeq(s, i, i + Reach(s, i) - 1) \in Seq(Bytes)
         /\ Len(SubSeq(s, i, i + Reach(s, i) - 1)) = Reach(s, i)
         /\ \A k \in 1 .. Reach(s, i) :
               /\ SubSeq(s, i, i + Reach(s, i) - 1)[k] = s[i + k - 1]
               /\ i + k - 1 \in 1 .. Len(s)
<1> DEFINE n == Reach(s, i)
<1>1. Len(s) \in Nat /\ i \in Nat /\ 1 <= i /\ i <= Len(s) /\ \A j \in 1 .. Len(s) : s[j] \in Bytes
  BY LenProperties, ElementOfSeq
<1>2. n \in 1 .. 4 /\ i + n - 1 \in i .. Len(s)
  <2>1. ValidSize(s, i) \in 0 .. 4 /\ i + ValidSize(s, i) - 1 <= Len(s)
    BY SizeIs
  <2> QED BY <1>1, <2>1 DEF Reach
<1> HIDE DEF n
<1>3. /\ SubSeq(s, i, i + n - 1) \in Seq(Bytes)
      /\ Len(SubSeq(s, i, i + n - 1)) = n
      /\ \A k \in 1 .. n : SubSeq(s, i, i + n - 1)[k] = s[i + k - 1]
  <2> DEFINE e == i + n - 1
  <2>1. i \in Int /\ e \in Int /\ \A j \in i .. e : s[j] \in Bytes
    BY <1>1, <1>2
  <2>2. i <= e /\ e - i + 1 = n
    BY <1>1, <1>2
  <2> HIDE DEF e
  <2>3. /\ SubSeq(s, i, e) \in Seq(Bytes)
        /\ Len(SubSeq(s, i, e)) = IF i <= e THEN e - i + 1 ELSE 0
        /\ \A k \in 1 .. e - i + 1 : SubSeq(s, i, e)[k] = s[i + k - 1]
    BY <2>1, SubSeqProperties
  <2>4. /\ SubSeq(s, i, e) \in Seq(Bytes) /\ Len(SubSeq(s, i, e)) = n
        /\ \A k \in 1 .. n : SubSeq(s, i, e)[k] = s[i + k - 1]
    BY <2>2, <2>3
  <2> QED BY <2>4 DEF e
<1>4. \A k \in 1 .. n : i + k - 1 \in 1 .. Len(s)
  BY <1>1, <1>2
<1> QED BY <1>2, <1>3, <1>4 DEF n

(* A valid character of several bytes has none below 128 behind its first, *)
(* so that it holds no control character and no backslash unless it is one.*)
LEMMA Plain ==
  ASSUME NEW s \in Seq(Bytes), NEW i \in 1 .. Len(s), ValidSize(s, i) # 0,
         NEW k \in 1 .. Reach(s, i)
  PROVE  SubSeq(s, i, i + Reach(s, i) - 1)[k] = s[i] \/
         SubSeq(s, i, i + Reach(s, i) - 1)[k] >= 128
<1>1. Reach(s, i) = ValidSize(s, i) /\ Reach(s, i) \in 1 .. 4
  BY ReachIs DEF Reach
<1>2. SubSeq(s, i, i + Reach(s, i) - 1)[k] = s[i + k - 1]
  BY ReachIs
<1>3. i \in Int /\ k \in Int /\ k >= 1 /\ k <= Reach(s, i)
  BY <1>1, LenProperties
<1>4. CASE k = 1
  <2>1. i + k - 1 = i
    BY <1>3, <1>4
  <2> QED BY <1>2, <2>1
<1>5. CASE k # 1
  <2> DEFINE m == k - 1
  <2>1. m \in 1 .. ValidSize(s, i) - 1 /\ i + m = i + k - 1
    BY <1>1, <1>3, <1>5
  <2> HIDE DEF m
  <2>2. \A j \in 1 .. ValidSize(s, i) - 1 : utf8cont(s[i + j])
    BY SizeIs
  <2>3. s[i + k - 1] \in 128 .. 191
    BY <2>1, <2>2 DEF utf8cont
  <2> DEFINE x == s[i + k - 1]
  <2>4. x \in 128 .. 191 /\ SubSeq(s, i, i + Reach(s, i) - 1)[k] = x
    BY <1>2, <2>3
  <2> HIDE DEF x
  <2>5. x >= 128
    BY <2>4
  <2> QED BY <2>4, <2>5
<1> QED BY <1>4, <1>5

LEMMA PieceIs ==
  ASSUME NEW s \in Seq(Bytes), NEW i \in 1 .. Len(s), NEW backslash \in BOOLEAN
  PROVE  \/ /\ Piece(s, i, backslash) = octal_escape(s[i]) /\ s[i] \in Bytes
            /\ Reach(s, i) = 1
         \/ /\ Piece(s, i, backslash) = SubSeq(s, i, i + Reach(s, i) - 1)
            /\ ValidSize(s, i) # 0 /\ s[i] \in Bytes /\ s[i] >= 32
            /\ backslash => s[i] # BACKSLASH
<1>1. s[i] \in Bytes /\ (s[i] < 128 => ValidSize(s, i) = 1)
  BY SizeIs, ElementOfSeq
<1> DEFINE b == s[i]
<1>2. b \in 0 .. 255
  BY <1>1 DEF Bytes
<1>3. CASE b < 32 \/ (b = BACKSLASH /\ backslash) \/ ValidSize(s, i) = 0
  <2>1. Piece(s, i, backslash) = octal_escape(s[i])
    BY <1>3 DEF Piece
  <2>2. Reach(s, i) = 1
    <3>0. b < 128 \/ ValidSize(s, i) = 0
      <4> HIDE DEF b
      <4> QED BY <1>2, <1>3 DEF BACKSLASH
    <3>1. ValidSize(s, i) \in {0, 1}
      BY <1>1, <3>0
    <3> QED BY <3>1 DEF Reach
  <2> QED BY <1>1, <2>1, <2>2
<1>4. CASE ~(b < 32 \/ (b = BACKSLASH /\ backslash) \/ ValidSize(s, i) = 0)
  <2>0. ValidSize(s, i) # 0 /\ Reach(s, i) = ValidSize(s, i)
    BY <1>4 DEF Reach
  <2>1. Piece(s, i, backslash) = SubSeq(s, i, i + Reach(s, i) - 1)
    BY <1>4, <2>0 DEF Piece
  <2>2. b >= 32
    <3> HIDE DEF b
    <3>1. ~(b < 32)
      BY <1>4
    <3> QED BY <1>2, <3>1
  <2> QED BY <1>1, <1>4, <2>1, <2>2
<1> QED BY <1>3, <1>4

LEMMA PieceBytes ==
  ASSUME NEW s \in Seq(Bytes), NEW i \in 1 .. Len(s), NEW backslash \in BOOLEAN
  PROVE  /\ Piece(s, i, backslash) \in Seq(Bytes) /\ Len(Piece(s, i, backslash)) <= 4
         /\ \A k \in 1 .. Len(Piece(s, i, backslash)) : Piece(s, i, backslash)[k] >= 32
<1> DEFINE p == Piece(s, i, backslash)
<1>1. CASE p = octal_escape(s[i]) /\ s[i] \in Bytes
  <2>1. /\ p \in Seq(Bytes) /\ Len(p) = 4 /\ p[1] = BACKSLASH
        /\ \A k \in 1 .. 3 : IsOctalDigit(p[1 + k])
    BY <1>1, OctalEscape
  <2> HIDE DEF p
  <2>2. ASSUME NEW k \in 1 .. 4
        PROVE  p[k] >= 32
    <3>1. CASE k = 1
      BY <2>1, <3>1 DEF BACKSLASH
    <3>2. CASE k # 1
      <4>1. k - 1 \in 1 .. 3 /\ 1 + (k - 1) = k
        BY <3>2
      <4>2. IsOctalDigit(p[k])
        BY <2>1, <4>1
      <4> QED BY <4>2 DEF IsOctalDigit
    <3> QED BY <3>1, <3>2
  <2>3. p \in Seq(Bytes) /\ Len(p) <= 4 /\ \A k \in 1 .. Len(p) : p[k] >= 32
    BY <2>1, <2>2
  <2> QED BY <2>3 DEF p
<1>2. CASE p = SubSeq(s, i, i + Reach(s, i) - 1) /\ ValidSize(s, i) # 0 /\ s[i] >= 32 /\ s[i] \in Bytes
  <2>1. p \in Seq(Bytes) /\ Len(p) = Reach(s, i) /\ Reach(s, i) \in 1 .. 4
    BY <1>2, ReachIs
  <2>2. ASSUME NEW k \in 1 .. Reach(s, i)
        PROVE  p[k] >= 32
    <3>1. SubSeq(s, i, i + Reach(s, i) - 1)[k] = s[i] \/
          SubSeq(s, i, i + Reach(s, i) - 1)[k] >= 128
      BY <1>2, Plain
    <3>2. p[k] \in Bytes
      <4> HIDE DEF p
      <4>1. k \in 1 .. Len(p)
        BY <2>1
      <4> QED BY <2>1, <4>1, ElementOfSeq
    <3> DEFINE t == SubSeq(s, i, i + Reach(s, i) - 1)
    <3>3. p = t /\ (t[k] = s[i] \/ t[k] >= 128)
      BY <1>2, <3>1
    <3> DEFINE b == s[i]
               c == p[k]
    <3>4. c \in Bytes /\ b >= 32 /\ (c = b \/ c >= 128)
      BY <1>2, <3>2, <3>3
    <3> HIDE DEF p, t, b, c
    <3>5. c >= 32
      BY <3>4 DEF Bytes
    <3> QED BY <3>5 DEF c
  <2> HIDE DEF p
  <2>3. p \in Seq(Bytes) /\ Len(p) <= 4 /\ \A k \in 1 .. Len(p) : p[k] >= 32
    BY <2>1, <2>2
  <2> QED BY <2>3 DEF p
<1>3. \/ p = octal_escape(s[i]) /\ s[i] \in Bytes
      \/ p = SubSeq(s, i, i + Reach(s, i) - 1) /\ ValidSize(s, i) # 0 /\ s[i] >= 32 /\ s[i] \in Bytes
  BY PieceIs
<1> QED BY <1>1, <1>2, <1>3

(* Taking off the quotes of a piece gives the bytes that it stands for.    *)
LEMMA NothingQuoted ==
  ASSUME NEW p \in Seq(Bytes), \A k \in 1 .. Len(p) : p[k] # BACKSLASH
  PROVE  Closed(p) /\ unquote_string(p) = p
<1>1. Len(p) \in Nat /\ \A i \in 1 .. Len(p) : p[i] \in Bytes
  BY LenProperties, ElementOfSeq
<1>2. ASSUME NEW i, Coded(p, i)
      PROVE  FALSE
  <2>1. i \in 1 .. Len(p) - 3 /\ p[i] = BACKSLASH
    BY <1>2 DEF Coded
  <2>2. i \in 1 .. Len(p)
    BY <1>1, <2>1
  <2> QED BY <2>1, <2>2
<1>3. \A i \in 1 .. Len(p) : DecodedAt(p, i) = p[i]
  <2> TAKE i \in 1 .. Len(p)
  <2>1. ~Coded(p, i) /\ \A k \in 1 .. 3 : ~Coded(p, i - k)
    BY <1>2
  <2> QED BY <2>1 DEF DecodedAt
<1>4. Decoded(p) = p
  <2>1. Decoded(p) = [i \in 1 .. Len(p) |-> p[i]]
    BY <1>1, <1>3, LenProperties DEF Decoded
  <2>2. p = [i \in 1 .. Len(p) |-> p[i]]
    BY LenProperties
  <2> QED BY <2>1, <2>2
<1>5. unquote_string(p) = p
  BY <1>4, UnquoteIs, SelectAll
<1> QED BY <1>2, <1>5 DEF Closed

LEMMA PieceBack ==
  ASSUME NEW s \in Seq(Bytes), NEW i \in 1 .. Len(s)
  PROVE  /\ Closed(Piece(s, i, TRUE))
         /\ unquote_string(Piece(s, i, TRUE)) = SubSeq(s, i, i + Reach(s, i) - 1)
<1> DEFINE p == Piece(s, i, TRUE)
           t == SubSeq(s, i, i + Reach(s, i) - 1)
<1>1. CASE p = octal_escape(s[i]) /\ s[i] \in Bytes /\ Reach(s, i) = 1
  <2>1. Closed(p) /\ unquote_string(p) = <<s[i]>>
    BY <1>1, OctalBack
  <2>2. t = <<s[i]>>
    <3>1. t \in Seq(Bytes) /\ Len(t) = 1 /\ t[1] = s[i + 1 - 1]
      <4>1. 1 \in 1 .. Reach(s, i)
        BY <1>1
      <4> QED BY <1>1, <4>1, ReachIs
    <3>2. i + 1 - 1 = i
      BY LenProperties
    <3> DEFINE b == s[i]
    <3> HIDE DEF t
    <3>3. t[1] = b /\ b \in Bytes
      BY <1>1, <3>1, <3>2
    <3> HIDE DEF b
    <3>4. <<b>> \in Seq(Bytes) /\ Len(<<b>>) = 1 /\ <<b>>[1] = b
      BY <3>3
    <3>5. \A k \in 1 .. 1 : t[k] = <<b>>[k]
      BY <3>3, <3>4
    <3>6. t = <<b>>
      BY <3>1, <3>4, <3>5, SeqEqual
    <3> QED BY <3>6 DEF b
  <2> QED BY <2>1, <2>2
<1>2. CASE p = t /\ ValidSize(s, i) # 0 /\ s[i] \in Bytes /\ s[i] # BACKSLASH
  <2>1. t \in Seq(Bytes) /\ Len(t) = Reach(s, i)
    BY ReachIs
  <2>2. ASSUME NEW k \in 1 .. Len(t)
        PROVE  t[k] # BACKSLASH
    <3>1. t[k] = s[i] \/ t[k] >= 128
      <4>1. k \in 1 .. Reach(s, i)
        BY <2>1
      <4> QED BY <1>2, <4>1, Plain
    <3>2. t[k] \in Bytes
      <4> HIDE DEF t
      <4> QED BY <2>1, ElementOfSeq
    <3> HIDE DEF t
    <3> QED BY <1>2, <3>1, <3>2 DEF BACKSLASH, Bytes
  <2>3. Closed(t) /\ unquote_string(t) = t
    <3> HIDE DEF t
    <3> QED BY <2>1, <2>2, NothingQuoted
  <2> HIDE DEF t
  <2>4. Closed(p) /\ unquote_string(p) = t
    BY <1>2, <2>3
  <2> QED BY <2>4 DEF t
<1>3. \/ p = octal_escape(s[i]) /\ s[i] \in Bytes /\ Reach(s, i) = 1
      \/ p = t /\ ValidSize(s, i) # 0 /\ s[i] \in Bytes /\ s[i] # BACKSLASH
  BY PieceIs
<1> QED BY <1>1, <1>2, <1>3

-----------------------------------------------------------------------------
(* What validateOrEscapeUTF8() makes of a string, piece after piece.       *)
Pieces(s, backslash) ==
    [i \in DOMAIN s |-> IF i \in Starts(s) THEN Piece(s, i, backslash) ELSE <<>>]
Made(s, backslash, k) == Joined(SubSeq(Pieces(s, backslash), 1, k))
Printable == 32 .. 255

LEMMA PiecesType ==
  ASSUME NEW s \in Seq(Bytes), NEW backslash \in BOOLEAN
  PROVE  /\ Pieces(s, backslash) \in Seq(Seq(Bytes)) /\ Len(Pieces(s, backslash)) = Len(s)
         /\ \A i \in 1 .. Len(s) :
               /\ Pieces(s, backslash)[i] = IF i \in Starts(s) THEN Piece(s, i, backslash) ELSE <<>>
               /\ Pieces(s, backslash)[i] \in Seq(Printable) /\ Len(Pieces(s, backslash)[i]) <= 4
<1> DEFINE P == Pieces(s, backslash)
<1>1. Len(s) \in Nat /\ DOMAIN s = 1 .. Len(s)
  BY LenProperties
<1>2. \A i \in 1 .. Len(s) : P[i] = IF i \in Starts(s) THEN Piece(s, i, backslash) ELSE <<>>
  BY <1>1 DEF Pieces
<1>3. P = [i \in 1 .. Len(s) |-> P[i]]
  BY <1>1 DEF Pieces
<1> HIDE DEF P
<1>4. ASSUME NEW i \in 1 .. Len(s)
      PROVE  P[i] \in Seq(Printable) /\ P[i] \in Seq(Bytes) /\ Len(P[i]) <= 4
  <2>1. CASE i \in Starts(s)
    <3> DEFINE p == Piece(s, i, backslash)
    <3>1. p \in Seq(Bytes) /\ Len(p) <= 4 /\ \A k \in 1 .. Len(p) : p[k] >= 32
      BY PieceBytes
    <3> HIDE DEF p
    <3>2. Len(p) \in Nat /\ p = [k \in 1 .. Len(p) |-> p[k]] /\ \A k \in 1 .. Len(p) : p[k] \in Bytes
      BY <3>1, LenProperties, ElementOfSeq
    <3>3. ASSUME NEW k \in 1 .. Len(p)
          PROVE  p[k] \in Printable
      <4> DEFINE c == p[k]
      <4>1. c \in Bytes /\ c >= 32
        BY <3>1, <3>2
      <4> HIDE DEF c
      <4>2. c \in Printable
        BY <4>1 DEF Bytes, Printable
      <4> QED BY <4>2 DEF c
    <3>4. p \in [1 .. Len(p) -> Printable]
      BY <3>2, <3>3
    <3>5. p \in Seq(Printable)
      BY <3>2, <3>4, SeqOfFunction
    <3>6. P[i] = p
      BY <1>2, <2>1 DEF p
    <3> QED BY <3>1, <3>5, <3>6
  <2>2. CASE i \notin Starts(s)
    <3>1. P[i] = <<>>
      BY <1>2, <2>2
    <3> QED BY <3>1
  <2> QED BY <2>1, <2>2
<1>5. P \in Seq(Seq(Bytes)) /\ Len(P) = Len(s)
  <2>1. P \in [1 .. Len(s) -> Seq(Bytes)]
    BY <1>3, <1>4
  <2> QED BY <1>1, <2>1, SeqOfFunction
<1> QED BY <1>2, <1>4, <1>5 DEF P

LEMMA MadeStep ==
  ASSUME NEW s \in Seq(Bytes), NEW backslash \in BOOLEAN, NEW k \in 0 .. Len(s) - 1
  PROVE  Made(s, backslash, k + 1) = Made(s, backslash, k) \o Pieces(s, backslash)[k + 1]
<1> DEFINE P == Pieces(s, backslash)
           a == SubSeq(P, 1, k)
           x == P[k + 1]
<1>1. P \in Seq(Seq(Bytes)) /\ Len(P) = Len(s) /\ Len(P) \in Nat /\ \A i \in 1 .. Len(P) : Len(P[i]) <= 4
  BY PiecesType, LenProperties
<1> HIDE DEF P
<1>2. k \in Nat /\ k + 1 \in 1 .. Len(P) /\ k <= Len(P)
  BY <1>1
<1>3. x \in Seq(Bytes) /\ Len(x) <= 4
  BY <1>1, <1>2, ElementOfSeq
<1>4. a \in Seq(Seq(Bytes)) /\ SubSeq(P, 1, k + 1) = Append(a, x)
  <2>1. SubSeq(P, 1, k + 1) = Append(SubSeq(P, 1, k), P[k + 1])
    BY <1>1, <1>2
  <2>2. SubSeq(P, 1, k) \in Seq(Seq(Bytes))
    BY <1>1, <1>2
  <2> QED BY <2>1, <2>2
<1> HIDE DEF a, x
<1>5. Joined(Append(a, x)) = Joined(a) \o x
  BY <1>3, <1>4, JoinedAppend
<1> QED BY <1>4, <1>5 DEF Made, P, a, x

LEMMA MadeNothing ==
  ASSUME NEW s \in Seq(Bytes), NEW backslash \in BOOLEAN
  PROVE  Made(s, backslash, 0) = <<>>
<1>1. SubSeq(Pieces(s, backslash), 1, 0) = <<>>
  BY PiecesType
<1> QED BY <1>1, JoinedNothing DEF Made

LEMMA MadeAll ==
  ASSUME NEW s \in Seq(Bytes), NEW bad \in BOOLEAN, NEW backslash \in BOOLEAN, NEW validate \in BOOLEAN,
         bad \/ validate
  PROVE  validateOrEscapeUTF8(s, bad, backslash, validate) = Made(s, backslash, Len(s))
<1> DEFINE P == Pieces(s, backslash)
<1>1. P \in Seq(Seq(Bytes)) /\ Len(P) = Len(s)
  BY PiecesType
<1>2. validateOrEscapeUTF8(s, bad, backslash, validate) = Joined(P)
  BY DEF validateOrEscapeUTF8, Pieces
<1> HIDE DEF P
<1>3. SubSeq(P, 1, Len(P)) = P
  BY <1>1
<1> QED BY <1>1, <1>2, <1>3 DEF Made, P

(* No escaped string holds a control character.                            *)
LEMMA MadePrintable ==
  ASSUME NEW s \in Seq(Bytes), NEW backslash \in BOOLEAN
  PROVE  Made(s, backslash, Len(s)) \in Seq(Printable)
<1> DEFINE M(k) == Made(s, backslash, k) \in Seq(Printable)
           G == {k \in 0 .. Len(s) : M(k)}
<1>1. Len(s) \in Nat
  BY LenProperties
<1>2. M(0)
  <2>1. <<>> \in Seq(Printable)
    OBVIOUS
  <2> QED BY <2>1, MadeNothing
<1>3. ASSUME NEW k \in 0 .. Len(s) - 1, M(k)
      PROVE  M(k + 1)
  <2> DEFINE a == Made(s, backslash, k)
             x == Pieces(s, backslash)[k + 1]
  <2>1. k + 1 \in 1 .. Len(s)
    BY <1>1
  <2>2. a \in Seq(Printable)
    BY <1>3
  <2>3. x \in Seq(Printable)
    BY <2>1, PiecesType
  <2>4. Made(s, backslash, k + 1) = a \o x
    BY MadeStep
  <2> HIDE DEF a, x
  <2>5. a \o x \in Seq(Printable)
    BY <2>2, <2>3, ConcatProperties
  <2> QED BY <2>4, <2>5
<1> HIDE DEF M
<1>4. 0 \in G /\ \A k \in 0 .. Len(s) - 1 : k \in G => k + 1 \in G
  BY <1>1, <1>2, <1>3
<1> HIDE DEF G
<1>5. Len(s) \in G
  BY <1>1, <1>4, UpTo
<1> QED BY <1>5 DEF G, M

-----------------------------------------------------------------------------
(* After k bytes the loop has dealt with the first r: those up to the end  *)
(* of the last character.                                                  *)
FrontAt(s, k, r) ==
    /\ r \in k .. Len(s)
    /\ r = k \/ \E j \in 1 .. k : j + ValidSize(s, j) = r + 1
    /\ \A j \in 1 .. k : j + ValidSize(s, j) <= r + 1

LEMMA FrontStart ==
  ASSUME NEW s \in Seq(Bytes), NEW k \in 0 .. Len(s) - 1, NEW r, FrontAt(s, k, r),
         k + 1 \in Starts(s)
  PROVE  r = k /\ FrontAt(s, k + 1, k + Reach(s, k + 1))
<1> DEFINE i == k + 1
           n == Reach(s, i)
<1>1. Len(s) \in Nat /\ k \in Nat /\ i \in 1 .. Len(s)
  BY LenProperties
<1>2. \A j \in 1 .. Len(s) : ValidSize(s, j) \in 0 .. 4
  BY SizeIs
<1>3. \A j \in 1 .. k : j + ValidSize(s, j) <= i
  BY <1>1 DEF Starts
<1>4. r = k
  <2>1. r \in k .. Len(s) /\ (r = k \/ \E j \in 1 .. k : j + ValidSize(s, j) = r + 1)
    BY DEF FrontAt
  <2>2. ASSUME NEW j \in 1 .. k, j + ValidSize(s, j) = r + 1
        PROVE  r = k
    <3>1. r + 1 <= k + 1
      BY <1>3, <2>2
    <3> QED BY <1>1, <2>1, <3>1
  <2> QED BY <2>1, <2>2
<1>8. n \in 1 .. 4 /\ i + n - 1 \in i .. Len(s)
  BY <1>1, ReachIs
<1>9. i + n - 1 = k + n /\ k + n \in i .. Len(s)
  BY <1>1, <1>8
<1>12. k + n = i \/ \E j \in 1 .. i : j + ValidSize(s, j) = k + n + 1
  <2>1. CASE ValidSize(s, i) = 0
    <3>1. n = 1
      BY <2>1 DEF Reach
    <3> QED BY <1>1, <3>1
  <2>2. CASE ValidSize(s, i) # 0
    <3>1. n = ValidSize(s, i)
      BY <2>2 DEF Reach
    <3>2. i + ValidSize(s, i) = k + n + 1
      BY <1>1, <1>8, <3>1
    <3>3. i \in 1 .. i
      BY <1>1
    <3> HIDE DEF i, n
    <3> QED BY <3>2, <3>3
  <2> QED BY <2>1, <2>2
<1>13. \A j \in 1 .. i : j + ValidSize(s, j) <= k + n + 1
  <2> TAKE j \in 1 .. i
  <2>1. CASE j \in 1 .. k
    <3>1. j + ValidSize(s, j) <= i /\ ValidSize(s, j) \in 0 .. 4
      BY <1>1, <1>2, <1>3, <2>1
    <3> HIDE DEF n
    <3> QED BY <1>1, <1>8, <2>1, <3>1
  <2>2. CASE j = i
    <3>1. ValidSize(s, i) <= n
      BY <1>1, <1>2 DEF Reach
    <3>2. ValidSize(s, i) \in 0 .. 4
      BY <1>1, <1>2
    <3> HIDE DEF n
    <3>3. i + ValidSize(s, i) <= k + n + 1
      BY <1>1, <1>8, <3>1, <3>2
    <3> QED BY <2>2, <3>3
  <2> QED BY <1>1, <2>1, <2>2
<1> HIDE DEF n
<1>14. FrontAt(s, i, k + n)
  <2> HIDE DEF i
  <2> QED BY <1>9, <1>12, <1>13 DEF FrontAt
<1> QED BY <1>4, <1>14 DEF n

LEMMA FrontInside ==
  ASSUME NEW s \in Seq(Bytes), NEW k \in 0 .. Len(s) - 1, NEW r, FrontAt(s, k, r),
         k + 1 \notin Starts(s)
  PROVE  FrontAt(s, k + 1, r)
<1> DEFINE i == k + 1
<1>1. Len(s) \in Nat /\ k \in Nat /\ i \in 1 .. Len(s) /\ DOMAIN s = 1 .. Len(s)
  BY LenProperties
<1>2. \A j \in 1 .. Len(s) : ValidSize(s, j) \in 0 .. 4
  BY SizeIs
<1>3. /\ r \in k .. Len(s)
      /\ r = k \/ \E j \in 1 .. k : j + ValidSize(s, j) = r + 1
      /\ \A j \in 1 .. k : j + ValidSize(s, j) <= r + 1
  BY DEF FrontAt
<1>4. PICK l \in 1 .. k : ~(l + ValidSize(s, l) <= i)
  <2>1. \E l \in 1 .. i - 1 : ~(l + ValidSize(s, l) <= i)
    BY <1>1 DEF Starts
  <2>2. i - 1 = k
    BY <1>1
  <2> QED BY <2>1, <2>2
<1>5. r >= i
  <2>1. ValidSize(s, l) \in 0 .. 4 /\ l + ValidSize(s, l) <= r + 1
    BY <1>1, <1>2, <1>3
  <2> QED BY <1>1, <1>3, <1>4, <2>1
<1>6. PICK j \in 1 .. k : j + ValidSize(s, j) = r + 1
  BY <1>1, <1>3, <1>5
<1>7. ValidSize(s, i) = 0
  <2> DEFINE d == i - j
  <2>1. d \in 1 .. ValidSize(s, j) - 1 /\ j + d = i /\ j \in 1 .. Len(s)
    <3>1. ValidSize(s, j) \in 0 .. 4
      BY <1>1, <1>2
    <3> QED BY <1>1, <1>3, <1>5, <1>6, <3>1
  <2> HIDE DEF d
  <2>2. \A x \in 1 .. ValidSize(s, j) - 1 : utf8cont(s[j + x])
    BY <2>1, SizeIs
  <2>3. utf8cont(s[i])
    BY <2>1, <2>2
  <2> QED BY <1>1, <2>3, SizeIs
<1>9. \A x \in 1 .. i : x + ValidSize(s, x) <= r + 1
  <2> TAKE x \in 1 .. i
  <2>1. CASE x \in 1 .. k
    BY <1>3, <2>1
  <2>2. CASE x = i
    BY <1>1, <1>3, <1>5, <1>7, <2>2
  <2> QED BY <1>1, <2>1, <2>2
<1>10. r \in i .. Len(s) /\ j \in 1 .. i
  BY <1>1, <1>3, <1>5
<1>11. \E x \in 1 .. i : x + ValidSize(s, x) = r + 1
  BY <1>6, <1>10
<1>12. FrontAt(s, i, r)
  <2> HIDE DEF i
  <2> QED BY <1>3, <1>9, <1>10, <1>11 DEF FrontAt
<1> QED BY <1>12

(* What the loop writes, one position later.                               *)
LEMMA MadeAtStart ==
  ASSUME NEW s \in Seq(Bytes), NEW backslash \in BOOLEAN, NEW k \in 0 .. Len(s) - 1,
         k + 1 \in Starts(s)
  PROVE  Made(s, backslash, k + 1) = Made(s, backslash, k) \o Piece(s, k + 1, backslash)
<1>1. k + 1 \in 1 .. Len(s)
  BY LenProperties
<1>2. Pieces(s, backslash)[k + 1] = Piece(s, k + 1, backslash)
  BY <1>1, PiecesType
<1> QED BY <1>2, MadeStep

LEMMA MadeInside ==
  ASSUME NEW s \in Seq(Bytes), NEW backslash \in BOOLEAN, NEW k \in 0 .. Len(s) - 1,
         k + 1 \notin Starts(s), Made(s, backslash, k) \in Seq(Bytes)
  PROVE  Made(s, backslash, k + 1) = Made(s, backslash, k)
<1>1. k + 1 \in 1 .. Len(s)
  BY LenProperties
<1>2. Pieces(s, backslash)[k + 1] = <<>>
  BY <1>1, PiecesType
<1> DEFINE m == Made(s, backslash, k)
<1>3. m \in Seq(Bytes)
  OBVIOUS
<1> HIDE DEF m
<1>4. m \o <<>> = m
  BY <1>3, ConcatEmptySeq
<1>5. Made(s, backslash, k + 1) = m \o Pieces(s, backslash)[k + 1]
  BY MadeStep DEF m
<1> QED BY <1>2, <1>4, <1>5 DEF m

(* The first k bytes and the next n.                                       *)
LEMMA TwoParts ==
  ASSUME NEW s \in Seq(Bytes), NEW k \in 0 .. Len(s) - 1
  PROVE  /\ k + Reach(s, k + 1) \in k + 1 .. Len(s)
         /\ SubSeq(s, 1, k) \o SubSeq(s, k + 1, k + 1 + Reach(s, k + 1) - 1)
               = SubSeq(s, 1, k + Reach(s, k + 1))
<1> DEFINE n == Reach(s, k + 1)
           i == k + 1
<1>1. Len(s) \in Nat /\ k \in Nat /\ i \in 1 .. Len(s)
  BY LenProperties
<1>2. n \in 1 .. 4 /\ i + n - 1 \in i .. Len(s)
  BY <1>1, ReachIs
<1>3. i + n - 1 = k + n /\ k + n \in i .. Len(s)
  BY <1>1, <1>2
<1>4. SubSeq(s, 1, k) \o SubSeq(s, i, k + n) = SubSeq(s, 1, k + n)
  <2> HIDE DEF n
  <2> QED BY <1>1, <1>2, <1>3
<1> HIDE DEF n, i
<1>5. SubSeq(s, 1, k) \o SubSeq(s, i, i + n - 1) = SubSeq(s, 1, k + n)
  BY <1>3, <1>4
<1> QED BY <1>3, <1>5 DEF n, i

-----------------------------------------------------------------------------
(* Taking the quotes off what has been written gives what was dealt with.  *)
Reached(s, k, r) ==
    /\ FrontAt(s, k, r)
    /\ unquote_string(Made(s, TRUE, k)) = SubSeq(s, 1, r)
    /\ Made(s, TRUE, k) \in Seq(Bytes) /\ Closed(Made(s, TRUE, k))

LEMMA ReachedNothing ==
  ASSUME NEW s \in Seq(Bytes)
  PROVE  Reached(s, 0, 0)
<1>1. Made(s, TRUE, 0) = <<>>
  BY MadeNothing
<1>2. <<>> \in Seq(Bytes) /\ Len(<<>>) = 0 /\ SubSeq(s, 1, 0) = <<>> /\ Len(s) \in Nat
  BY LenProperties
<1>3. Closed(<<>>) /\ unquote_string(<<>>) = <<>>
  <2>1. \A i \in 1 .. Len(<<>>) : <<>>[i] # BACKSLASH
    BY <1>2
  <2> QED BY <1>2, <2>1, NothingQuoted
<1> DEFINE m == Made(s, TRUE, 0)
<1>4. m \in Seq(Bytes) /\ Closed(m) /\ unquote_string(m) = SubSeq(s, 1, 0)
  BY <1>1, <1>2, <1>3
<1>5. FrontAt(s, 0, 0)
  <2>1. 0 \in 0 .. Len(s) /\ \A j \in 1 .. 0 : FALSE
    BY <1>2
  <2> QED BY <2>1 DEF FrontAt
<1> QED BY <1>4, <1>5 DEF Reached

LEMMA ReachedNext ==
  ASSUME NEW s \in Seq(Bytes), NEW k \in 0 .. Len(s) - 1, NEW r, Reached(s, k, r)
  PROVE  \E q : Reached(s, k + 1, q)
<1> DEFINE m == Made(s, TRUE, k)
           i == k + 1
           n == Reach(s, i)
           p == Piece(s, i, TRUE)
<1>1. i \in 1 .. Len(s)
  BY LenProperties
<1>2. FrontAt(s, k, r) /\ unquote_string(m) = SubSeq(s, 1, r) /\ m \in Seq(Bytes) /\ Closed(m)
  BY DEF Reached
<1>3. CASE i \in Starts(s)
  <2>1. r = k /\ FrontAt(s, i, k + n)
    BY <1>2, <1>3, FrontStart
  <2>2. /\ p \in Seq(Bytes) /\ Closed(p)
        /\ unquote_string(p) = SubSeq(s, i, i + n - 1)
    BY <1>1, PieceBytes, PieceBack
  <2>3. Made(s, TRUE, i) = m \o p
    BY <1>3, MadeAtStart
  <2>4. SubSeq(s, 1, k) \o SubSeq(s, i, i + n - 1) = SubSeq(s, 1, k + n)
    BY TwoParts
  <2> HIDE DEF m, i, n, p
  <2>5. m \o p \in Seq(Bytes) /\ Closed(m \o p)
    BY <1>2, <2>2, ConcatHas, ClosedConcat
  <2>6. unquote_string(m \o p) = unquote_string(m) \o unquote_string(p)
    BY <1>2, <2>2, UnquoteConcat
  <2>7. Reached(s, i, k + n)
    BY <1>2, <2>1, <2>2, <2>3, <2>4, <2>5, <2>6 DEF Reached
  <2> QED BY <2>7 DEF i
<1>4. CASE i \notin Starts(s)
  <2>1. FrontAt(s, i, r)
    BY <1>2, <1>4, FrontInside
  <2>2. Made(s, TRUE, i) = m
    BY <1>2, <1>4, MadeInside
  <2> HIDE DEF m, i
  <2>3. Reached(s, i, r)
    BY <1>2, <2>1, <2>2 DEF Reached
  <2> QED BY <2>3 DEF i
<1> QED BY <1>3, <1>4

LEMMA FrontEnd ==
  ASSUME NEW s \in Seq(Bytes), NEW r, FrontAt(s, Len(s), r)
  PROVE  r = Len(s) /\ SubSeq(s, 1, r) = s
<1> DEFINE n == Len(s)
<1>1. n \in Nat /\ r \in n .. n
  BY LenProperties DEF FrontAt
<1> HIDE DEF n
<1>2. r = n
  BY <1>1
<1>3. SubSeq(s, 1, Len(s)) = s
  OBVIOUS
<1> QED BY <1>2, <1>3 DEF n

(* Every string comes back from its quoted form: nothing that the escaping *)
(* writes can be taken for another string.                                 *)
THEOREM QuotesComeOff ==
  ASSUME NEW s \in Seq(Bytes), NEW validate \in BOOLEAN
  PROVE  unquote_string(validateOrEscapeUTF8(s, TRUE, TRUE, validate)) = s
<1> DEFINE G == {k \in 0 .. Len(s) : \E r : Reached(s, k, r)}
<1>1. Len(s) \in Nat
  BY LenProperties
<1>2. 0 \in G
  BY <1>1, ReachedNothing
<1>3. ASSUME NEW k \in 0 .. Len(s) - 1, k \in G
      PROVE  k + 1 \in G
  <2>1. PICK r : Reached(s, k, r)
    BY <1>3
  <2>2. \E q : Reached(s, k + 1, q)
    BY <2>1, ReachedNext
  <2>3. k + 1 \in 0 .. Len(s)
    BY <1>1
  <2> QED BY <2>2, <2>3
<1> HIDE DEF G
<1>4. Len(s) \in G
  BY <1>1, <1>2, <1>3, UpTo
<1>5. PICK r : Reached(s, Len(s), r)
  BY <1>4 DEF G
<1>6. FrontAt(s, Len(s), r) /\ unquote_string(Made(s, TRUE, Len(s))) = SubSeq(s, 1, r)
  BY <1>5 DEF Reached
<1>7. SubSeq(s, 1, r) = s
  BY <1>6, FrontEnd
<1>8. validateOrEscapeUTF8(s, TRUE, TRUE, validate) = Made(s, TRUE, Len(s))
  BY MadeAll
<1> QED BY <1>6, <1>7, <1>8

-----------------------------------------------------------------------------
(* The quotes of a string, taken off once or twice.                        *)
TakenOff(s, n) ==
    [k \in 0 .. n |-> CASE k = 0 -> s [] k = 1 -> unquote_string(s)
                        [] k = 2 -> unquote_string(unquote_string(s))]

LEMMA UnquoteTimes ==
  ASSUME NEW s, NEW n \in 0 .. 2
  PROVE  Unquote(s, n) = TakenOff(s, n)[n]
<1> DEFINE R(times) == times = [k \in 0 .. n |-> IF k = 0 THEN s ELSE unquote_string(times[k - 1])]
           t == TakenOff(s, n)
           c == CHOOSE times : R(times)
<1>1. R(t)
  <2> DEFINE once == unquote_string(s)
             twice == unquote_string(once)
  <2>1. \A k \in 0 .. n : t[k] = CASE k = 0 -> s [] k = 1 -> once [] k = 2 -> twice
    BY DEF TakenOff
  <2>2. t = [k \in 0 .. n |-> t[k]]
    BY DEF TakenOff
  <2> HIDE DEF t
  <2>3. ASSUME NEW k \in 0 .. n
        PROVE  t[k] = IF k = 0 THEN s ELSE unquote_string(t[k - 1])
    <3>1. CASE k = 0
      BY <2>1, <3>1
    <3>2. CASE k = 1
      <4>1. k - 1 = 0 /\ 0 \in 0 .. n
        BY <3>2
      <4>2. t[0] = s /\ t[k] = once
        BY <2>1, <3>2, <4>1
      <4> QED BY <3>2, <4>1, <4>2
    <3>3. CASE k = 2
      <4>1. k - 1 = 1 /\ 1 \in 0 .. n
        BY <3>3
      <4>2. t[1] = once /\ t[k] = twice
        <5> HIDE DEF once, twice
        <5> QED BY <2>1, <3>3, <4>1
      <4> QED BY <3>3, <4>1, <4>2
    <3> QED BY <3>1, <3>2, <3>3
  <2> QED BY <2>2, <2>3
<1> HIDE DEF t
<1>2. R(c)
  BY <1>1
<1>3. Unquote(s, n) = c[n]
  BY DEF Unquote
<1> HIDE DEF c
<1>4. c[0] = s
  BY <1>2
<1>5. n >= 1 => c[1] = unquote_string(s)
  <2> SUFFICES ASSUME n >= 1 PROVE c[1] = unquote_string(s)
    OBVIOUS
  <2>1. 1 \in 0 .. n /\ 1 # 0 /\ 1 - 1 = 0
    OBVIOUS
  <2>2. c[1] = unquote_string(c[1 - 1])
    BY <1>2, <2>1
  <2> QED BY <1>4, <2>1, <2>2
<1>6. n = 2 => c[2] = unquote_string(unquote_string(s))
  <2> SUFFICES ASSUME n = 2 PROVE c[2] = unquote_string(unquote_string(s))
    OBVIOUS
  <2>1. 2 \in 0 .. n /\ 2 # 0 /\ 2 - 1 = 1 /\ n >= 1
    OBVIOUS
  <2>2. c[2] = unquote_string(c[2 - 1])
    BY <1>2, <2>1
  <2> QED BY <1>5, <2>1, <2>2
<1>7. t[n] = CASE n = 0 -> s [] n = 1 -> unquote_string(s) [] n = 2 -> unquote_string(unquote_string(s))
  BY DEF t, TakenOff
<1>8. CASE n = 0
  BY <1>3, <1>4, <1>7, <1>8 DEF t
<1>9. CASE n = 1
  BY <1>3, <1>5, <1>7, <1>9 DEF t
<1>10. CASE n = 2
  BY <1>3, <1>6, <1>7, <1>10 DEF t
<1> QED BY <1>8, <1>9, <1>10

LEMMA UnquoteOnceTwice ==
  ASSUME NEW s
  PROVE  /\ Unquote(s, 0) = s
         /\ Unquote(s, 1) = unquote_string(s)
         /\ Unquote(s, 2) = unquote_string(unquote_string(s))
<1>1. Unquote(s, 0) = TakenOff(s, 0)[0] /\ Unquote(s, 1) = TakenOff(s, 1)[1] /\ Unquote(s, 2) = TakenOff(s, 2)[2]
  BY UnquoteTimes
<1> QED BY <1>1 DEF TakenOff

-----------------------------------------------------------------------------
(* A string of characters that are all valid.                              *)
Whole(s) == \A i \in 1 .. Len(s) :
                ValidSize(s, i) > 0 \/ \E j \in 1 .. i - 1 : j + ValidSize(s, j) > i

LEMMA WholeIsNotBad ==
  ASSUME NEW s \in Seq(Bytes)
  PROVE  Whole(s) <=> ~HasBadUTF8(s)
<1>1. DOMAIN s = 1 .. Len(s) /\ Len(s) \in Nat /\ \A i \in 1 .. Len(s) : ValidSize(s, i) \in 0 .. 4
  BY LenProperties, SizeIs
<1>2. ASSUME NEW i \in 1 .. Len(s)
      PROVE  /\ ValidSize(s, i) > 0 <=> ValidSize(s, i) # 0
             /\ i \in Starts(s) <=> ~(\E j \in 1 .. i - 1 : j + ValidSize(s, j) > i)
  <2>1. ASSUME NEW j \in 1 .. i - 1
        PROVE  j + ValidSize(s, j) <= i <=> ~(j + ValidSize(s, j) > i)
    <3>1. ValidSize(s, j) \in 0 .. 4
      BY <1>1
    <3> QED BY <1>1, <3>1
  <2>2. i \in Starts(s) <=> \A j \in 1 .. i - 1 : j + ValidSize(s, j) <= i
    BY <1>1 DEF Starts
  <2> QED BY <1>1, <2>1, <2>2
<1>3. Starts(s) \subseteq 1 .. Len(s)
  BY <1>1 DEF Starts
<1> QED BY <1>2, <1>3 DEF Whole, HasBadUTF8

(* A valid character is one wherever its bytes are.                        *)
LEMMA SameSize ==
  ASSUME NEW s \in Seq(Bytes), NEW t \in Seq(Bytes), NEW i \in 1 .. Len(s), NEW p \in 1 .. Len(t),
         ValidSize(s, i) > 0, p + ValidSize(s, i) - 1 <= Len(t),
         \A k \in 0 .. ValidSize(s, i) - 1 : t[p + k] = s[i + k]
  PROVE  ValidSize(t, p) = ValidSize(s, i)
<1> DEFINE c == CharSize(s, i)
<1>0. ValidSize(s, i) = c /\ c > 0
  <2>1. ValidSize(s, i) = c \/ ValidSize(s, i) = 0
    BY DEF ValidSize
  <2> QED BY <2>1
<1>1. /\ Len(s) \in Nat /\ Len(t) \in Nat /\ i \in Nat /\ p \in Nat /\ t[p] = s[i]
  <2>1. /\ Len(s) \in Nat /\ Len(t) \in Nat /\ i \in Nat /\ p \in Nat
    BY LenProperties
  <2>2. 0 \in 0 .. ValidSize(s, i) - 1
    BY SizeIs
  <2>3. t[p + 0] = s[i + 0]
    BY <2>2
  <2> QED BY <2>1, <2>3
<1>3. ASSUME NEW n \in 1 .. 3, Follow(s, i, n), c = n + 1
      PROVE  /\ Follow(t, p, n)
             /\ \A k \in 1 .. n : t[p + k] = s[i + k]
  <2>1. i + n <= Len(s) /\ \A k \in 1 .. n : utf8cont(s[i + k])
    BY <1>3 DEF Follow
  <2>2. ValidSize(s, i) = n + 1
    BY <1>0, <1>3
  <2>3. \A k \in 1 .. n : t[p + k] = s[i + k]
    BY <2>2
  <2>4. p + n <= Len(t)
    BY <1>1, <2>2
  <2> QED BY <2>1, <2>3, <2>4 DEF Follow
<1>5. c \in 1 .. 4 /\ CharSize(t, p) = c /\ \A k \in 1 .. c - 1 : t[p + k] = s[i + k]
  <2> DEFINE b == s[i]
             e == CharSize(t, p)
  <2>1. \/ c = 1 /\ b < 128
        \/ c = 2 /\ b \in 192 .. 223 /\ Follow(s, i, 1)
        \/ c = 3 /\ b \in 224 .. 239 /\ Follow(s, i, 2)
        \/ c = 4 /\ b \in 240 .. 247 /\ Follow(s, i, 3)
    BY <1>0, CharSizeIs
  <2>2. \/ e = 1 /\ b < 128
        \/ e = 2 /\ b \in 192 .. 223 /\ Follow(t, p, 1)
        \/ e = 3 /\ b \in 224 .. 239 /\ Follow(t, p, 2)
        \/ e = 4 /\ b \in 240 .. 247 /\ Follow(t, p, 3)
        \/ /\ e = 0 /\ ~(b < 128)
           /\ ~(b \in 192 .. 223 /\ Follow(t, p, 1))
           /\ ~(b \in 224 .. 239 /\ Follow(t, p, 2))
           /\ ~(b \in 240 .. 247 /\ Follow(t, p, 3))
    <3>1. p \in 1 .. Len(t) /\ t[p] = b
      BY <1>1
    <3> DEFINE a == t[p]
    <3>2. \/ e = 1 /\ a < 128
          \/ e = 2 /\ a \in 192 .. 223 /\ Follow(t, p, 1)
          \/ e = 3 /\ a \in 224 .. 239 /\ Follow(t, p, 2)
          \/ e = 4 /\ a \in 240 .. 247 /\ Follow(t, p, 3)
          \/ /\ e = 0 /\ ~(a < 128)
             /\ ~(a \in 192 .. 223 /\ Follow(t, p, 1))
             /\ ~(a \in 224 .. 239 /\ Follow(t, p, 2))
             /\ ~(a \in 240 .. 247 /\ Follow(t, p, 3))
      BY <3>1, CharSizeIs
    <3>3. a = b
      BY <3>1
    <3> HIDE DEF a, b, c, e
    <3> QED BY <3>2, <3>3
  <2>3. b \in 0 .. 255
    BY ElementOfSeq DEF Bytes
  <2> HIDE DEF b, c, e
  <2>4. CASE c = 1 /\ b < 128
    <3>1. b \notin 192 .. 223 /\ b \notin 224 .. 239 /\ b \notin 240 .. 247
      BY <2>3, <2>4
    <3>2. e = 1
      BY <2>2, <2>4, <3>1
    <3> QED BY <2>4, <3>2 DEF e
  <2>5. CASE c = 2 /\ b \in 192 .. 223 /\ Follow(s, i, 1)
    <3>1. ~(b < 128) /\ b \notin 224 .. 239 /\ b \notin 240 .. 247
      BY <2>3, <2>5
    <3>2. Follow(t, p, 1) /\ \A k \in 1 .. 1 : t[p + k] = s[i + k]
      BY <1>3, <2>5
    <3>3. e = 2
      BY <2>2, <2>5, <3>1, <3>2
    <3> QED BY <2>5, <3>2, <3>3 DEF e
  <2>6. CASE c = 3 /\ b \in 224 .. 239 /\ Follow(s, i, 2)
    <3>1. ~(b < 128) /\ b \notin 192 .. 223 /\ b \notin 240 .. 247
      <4>1. b \in 224 .. 239
        BY <2>6
      <4> QED BY <4>1
    <3>2. Follow(t, p, 2) /\ \A k \in 1 .. 2 : t[p + k] = s[i + k]
      BY <1>3, <2>6
    <3>3. e = 3
      BY <2>2, <2>6, <3>1, <3>2
    <3> QED BY <2>6, <3>2, <3>3 DEF e
  <2>7. CASE c = 4 /\ b \in 240 .. 247 /\ Follow(s, i, 3)
    <3>1. ~(b < 128) /\ b \notin 192 .. 223 /\ b \notin 224 .. 239
      <4>1. b \in 240 .. 247
        BY <2>7
      <4> QED BY <4>1
    <3>2. Follow(t, p, 3) /\ \A k \in 1 .. 3 : t[p + k] = s[i + k]
      BY <1>3, <2>7
    <3>3. e = 4
      BY <2>2, <2>7, <3>1, <3>2
    <3> QED BY <2>7, <3>2, <3>3 DEF e
  <2> QED BY <2>1, <2>4, <2>5, <2>6, <2>7
<1> HIDE DEF c
<1>6. CodePoint(t, p, c) = CodePoint(s, i, c)
  <2>1. CASE c = 1
    BY <1>1, <2>1 DEF CodePoint
  <2>2. CASE c = 2
    <3>1. t[p + 1] = s[i + 1]
      BY <1>5, <2>2
    <3> QED BY <1>1, <2>2, <3>1 DEF CodePoint
  <2>3. CASE c = 3
    <3>1. t[p + 1] = s[i + 1] /\ t[p + 2] = s[i + 2]
      BY <1>5, <2>3
    <3> QED BY <1>1, <2>3, <3>1 DEF CodePoint
  <2>4. CASE c = 4
    <3>1. t[p + 1] = s[i + 1] /\ t[p + 2] = s[i + 2] /\ t[p + 3] = s[i + 3]
      BY <1>5, <2>4
    <3> QED BY <1>1, <2>4, <3>1 DEF CodePoint
  <2> QED BY <1>5, <2>1, <2>2, <2>3, <2>4
<1>7. ValidSize(t, p) = ValidSize(s, i)
  <2>1. CharSize(t, p) = CharSize(s, i) /\ CodePoint(t, p, CharSize(t, p)) = CodePoint(s, i, CharSize(s, i))
    BY <1>5, <1>6 DEF c
  <2> QED BY <2>1 DEF ValidSize
<1> QED BY <1>7

LEMMA WholeConcat ==
  ASSUME NEW a \in Seq(Bytes), NEW b \in Seq(Bytes), Whole(a), Whole(b)
  PROVE  Whole(a \o b)
<1> DEFINE c == a \o b
           n == Len(a)
           m == Len(b)
<1>1. /\ c \in Seq(Bytes) /\ n \in Nat /\ m \in Nat /\ Len(c) = n + m
      /\ \A i \in 1 .. n : c[i] = a[i]
      /\ \A i \in n + 1 .. n + m : c[i] = b[i - n]
  BY ConcatHas
<1> HIDE DEF c
<1>2. ASSUME NEW i \in 1 .. n, ValidSize(a, i) > 0
      PROVE  ValidSize(c, i) = ValidSize(a, i)
  <2> DEFINE v == ValidSize(a, i)
  <2>1. v \in 0 .. 4 /\ i + v - 1 <= n
    BY SizeIs
  <2> HIDE DEF v
  <2>2. i \in 1 .. Len(c) /\ i + v - 1 <= Len(c)
    BY <1>1, <2>1
  <2>3. \A k \in 0 .. v - 1 : i + k \in 1 .. n
    BY <1>1, <2>1
  <2>4. \A k \in 0 .. v - 1 : c[i + k] = a[i + k]
    BY <1>1, <2>3
  <2> QED BY <1>1, <1>2, <2>2, <2>4, SameSize DEF v
<1>3. ASSUME NEW i \in 1 .. m, ValidSize(b, i) > 0
      PROVE  ValidSize(c, n + i) = ValidSize(b, i)
  <2> DEFINE v == ValidSize(b, i)
             p == n + i
  <2>1. v \in 0 .. 4 /\ i + v - 1 <= m
    BY SizeIs
  <2> HIDE DEF v, n, m
  <2>2. p \in 1 .. Len(c) /\ p + v - 1 <= Len(c)
    BY <1>1, <2>1
  <2>3. \A k \in 0 .. v - 1 : p + k \in n + 1 .. n + m /\ p + k - n = i + k
    BY <1>1, <2>1
  <2>4. \A k \in 0 .. v - 1 : c[p + k] = b[i + k]
    BY <1>1, <2>3
  <2> HIDE DEF p
  <2>5. i \in 1 .. Len(b)
    BY DEF m
  <2>6. ValidSize(c, p) = ValidSize(b, i)
    BY <1>1, <1>3, <2>2, <2>4, <2>5, SameSize DEF v
  <2> QED BY <2>6 DEF p
<1> SUFFICES ASSUME NEW i \in 1 .. n + m
             PROVE  ValidSize(c, i) > 0 \/ \E j \in 1 .. i - 1 : j + ValidSize(c, j) > i
  BY <1>1 DEF Whole, c
<1>4. CASE i \in 1 .. n
  <2>1. CASE ValidSize(a, i) > 0
    BY <1>2, <1>4, <2>1
  <2>2. CASE \E j \in 1 .. i - 1 : j + ValidSize(a, j) > i
    <3>1. PICK j \in 1 .. i - 1 : j + ValidSize(a, j) > i
      BY <2>2
    <3>2. j \in 1 .. n
      BY <1>1, <1>4
    <3>3. ValidSize(a, j) > 0
      <4>1. ValidSize(a, j) \in 0 .. 4
        BY <3>2, SizeIs
      <4> QED BY <1>1, <1>4, <3>1, <4>1
    <3>4. ValidSize(c, j) = ValidSize(a, j)
      BY <1>2, <3>2, <3>3
    <3> QED BY <3>1, <3>4
  <2> QED BY <1>4, <2>1, <2>2 DEF Whole
<1>5. CASE i \in n + 1 .. n + m
  <2> DEFINE q == i - n
  <2>1. q \in 1 .. m /\ n + q = i
    BY <1>1, <1>5
  <2>2. CASE ValidSize(b, q) > 0
    <3> HIDE DEF q
    <3>1. ValidSize(c, n + q) = ValidSize(b, q)
      BY <1>3, <2>1, <2>2
    <3> QED BY <2>1, <2>2, <3>1
  <2>3. CASE \E j \in 1 .. q - 1 : j + ValidSize(b, j) > q
    <3>1. PICK j \in 1 .. q - 1 : j + ValidSize(b, j) > q
      BY <2>3
    <3> HIDE DEF q
    <3>2. j \in 1 .. m
      BY <1>1, <2>1
    <3>3. ValidSize(b, j) \in 0 .. 4
      BY <3>2, SizeIs
    <3>4. ValidSize(b, j) > 0
      BY <1>1, <2>1, <3>1, <3>3
    <3>5. ValidSize(c, n + j) = ValidSize(b, j)
      BY <1>3, <3>2, <3>4
    <3> DEFINE l == n + j
    <3>6. l \in 1 .. i - 1 /\ l + ValidSize(b, j) > i
      BY <1>1, <2>1, <3>1, <3>2, <3>3
    <3>7. l + ValidSize(c, l) > i
      BY <3>5, <3>6
    <3> HIDE DEF l
    <3> QED BY <3>6, <3>7
  <2> HIDE DEF q
  <2> QED BY <2>1, <2>2, <2>3 DEF Whole
<1> QED BY <1>1, <1>4, <1>5

LEMMA PieceWhole ==
  ASSUME NEW s \in Seq(Bytes), NEW i \in 1 .. Len(s), NEW backslash \in BOOLEAN
  PROVE  Whole(Piece(s, i, backslash))
<1> DEFINE p == Piece(s, i, backslash)
           t == SubSeq(s, i, i + Reach(s, i) - 1)
<1>1. CASE p = octal_escape(s[i]) /\ s[i] \in Bytes
  <2>1. /\ p \in Seq(Bytes) /\ Len(p) = 4 /\ p[1] = BACKSLASH
        /\ \A k \in 1 .. 3 : IsOctalDigit(p[1 + k])
    BY <1>1, OctalEscape
  <2> HIDE DEF p
  <2>2. ASSUME NEW k \in 1 .. 4
        PROVE  p[k] < 128
    <3>1. CASE k = 1
      BY <2>1, <3>1 DEF BACKSLASH
    <3>2. CASE k # 1
      <4>1. k - 1 \in 1 .. 3 /\ 1 + (k - 1) = k
        BY <3>2
      <4>2. IsOctalDigit(p[k])
        BY <2>1, <4>1
      <4> QED BY <4>2 DEF IsOctalDigit
    <3> QED BY <3>1, <3>2
  <2>3. \A k \in 1 .. Len(p) : ValidSize(p, k) = 1
    BY <2>1, <2>2, SizeIs
  <2>4. Whole(p)
    BY <2>3 DEF Whole
  <2> QED BY <2>4 DEF p
<1>2. CASE p = t /\ ValidSize(s, i) # 0
  <2> DEFINE v == ValidSize(s, i)
  <2>1. v \in 1 .. 4 /\ Reach(s, i) = v
    BY <1>2, SizeIs DEF Reach
  <2>2. /\ t \in Seq(Bytes) /\ Len(t) = v
        /\ \A k \in 1 .. v : t[k] = s[i + k - 1]
    BY <2>1, ReachIs
  <2> HIDE DEF t, v
  <2>3. \A k \in 0 .. v - 1 : t[1 + k] = s[i + k]
    <3> TAKE k \in 0 .. v - 1
    <3> DEFINE l == k + 1
    <3>1. l \in 1 .. v /\ 1 + k = l /\ i + l - 1 = i + k
      BY <2>1, LenProperties
    <3> HIDE DEF l
    <3> QED BY <2>2, <3>1
  <2>4. 1 \in 1 .. Len(t) /\ 1 + v - 1 <= Len(t) /\ v > 0
    BY <2>1, <2>2
  <2>5. ValidSize(t, 1) = v
    BY <2>2, <2>3, <2>4, SameSize DEF v
  <2>6. ASSUME NEW k \in 1 .. Len(t)
        PROVE  ValidSize(t, k) > 0 \/ \E j \in 1 .. k - 1 : j + ValidSize(t, j) > k
    <3>1. CASE k = 1
      BY <2>1, <2>5, <3>1
    <3>2. CASE k # 1
      <4>1. 1 \in 1 .. k - 1 /\ 1 + ValidSize(t, 1) > k
        BY <2>1, <2>2, <2>5, <3>2
      <4> QED BY <4>1
    <3> QED BY <3>1, <3>2
  <2>7. Whole(t)
    BY <2>6 DEF Whole
  <2> QED BY <1>2, <2>7
<1>3. \/ p = octal_escape(s[i]) /\ s[i] \in Bytes
      \/ p = t /\ ValidSize(s, i) # 0
  BY PieceIs
<1> QED BY <1>1, <1>2, <1>3

(* What has been escaped needs no escaping but of its backslashes.         *)
LEMMA MadeClean ==
  ASSUME NEW s \in Seq(Bytes), NEW backslash \in BOOLEAN
  PROVE  /\ Made(s, backslash, Len(s)) \in Seq(Bytes)
         /\ Clean(Made(s, backslash, Len(s)))
<1> DEFINE M(k) == Made(s, backslash, k) \in Seq(Bytes) /\ Whole(Made(s, backslash, k))
           G == {k \in 0 .. Len(s) : M(k)}
<1>1. Len(s) \in Nat
  BY LenProperties
<1>2. M(0)
  <2>1. <<>> \in Seq(Bytes) /\ Len(<<>>) = 0
    OBVIOUS
  <2>2. Whole(<<>>)
    BY <2>1 DEF Whole
  <2> QED BY <2>1, <2>2, MadeNothing
<1>3. ASSUME NEW k \in 0 .. Len(s) - 1, M(k)
      PROVE  M(k + 1)
  <2> DEFINE m == Made(s, backslash, k)
             i == k + 1
             p == Piece(s, i, backslash)
  <2>1. i \in 1 .. Len(s)
    BY <1>1
  <2>2. CASE i \in Starts(s)
    <3>1. p \in Seq(Bytes) /\ Whole(p)
      BY <2>1, PieceBytes, PieceWhole
    <3>2. Made(s, backslash, i) = m \o p
      BY <2>2, MadeAtStart
    <3>3. m \in Seq(Bytes) /\ Whole(m)
      BY <1>3
    <3> HIDE DEF m, p, i
    <3>4. m \o p \in Seq(Bytes) /\ Whole(m \o p)
      BY <3>1, <3>3, ConcatHas, WholeConcat
    <3> QED BY <3>2, <3>4 DEF i
  <2>3. CASE i \notin Starts(s)
    <3>1. Made(s, backslash, i) = m
      BY <1>3, <2>3, MadeInside
    <3> QED BY <1>3, <3>1
  <2> QED BY <2>2, <2>3
<1> HIDE DEF M
<1>4. 0 \in G /\ \A k \in 0 .. Len(s) - 1 : k \in G => k + 1 \in G
  BY <1>1, <1>2, <1>3
<1> HIDE DEF G
<1>5. Len(s) \in G
  BY <1>1, <1>4, UpTo
<1> DEFINE t == Made(s, backslash, Len(s))
<1>6. t \in Seq(Bytes) /\ Whole(t) /\ t \in Seq(Printable)
  BY <1>5, MadePrintable DEF G, M
<1> HIDE DEF t
<1>7. \A k \in DOMAIN t : t[k] >= 32
  <2> TAKE k \in DOMAIN t
  <2> DEFINE c == t[k]
  <2>1. c \in Printable
    BY <1>6, LenProperties, ElementOfSeq
  <2> HIDE DEF c
  <2>2. c >= 32
    BY <2>1 DEF Printable
  <2> QED BY <2>2 DEF c
<1>8. ~HasBadUTF8(t)
  BY <1>6, WholeIsNotBad
<1> QED BY <1>6, <1>7, <1>8 DEF Clean, t

(* A string without control characters and bad bytes is not changed when   *)
(* its backslashes are left as they are.                                   *)
LEMMA CleanStays ==
  ASSUME NEW s \in Seq(Bytes), Clean(s)
  PROVE  Made(s, FALSE, Len(s)) = s
<1> DEFINE C(k, r) == FrontAt(s, k, r) /\ Made(s, FALSE, k) = SubSeq(s, 1, r)
           G == {k \in 0 .. Len(s) : \E r : C(k, r)}
<1>1. Len(s) \in Nat /\ DOMAIN s = 1 .. Len(s)
  BY LenProperties
<1>2. C(0, 0)
  <2>1. Made(s, FALSE, 0) = SubSeq(s, 1, 0)
    <3>1. SubSeq(s, 1, 0) = <<>>
      OBVIOUS
    <3> QED BY <3>1, MadeNothing
  <2>2. FrontAt(s, 0, 0)
    <3>1. 0 \in 0 .. Len(s) /\ \A j \in 1 .. 0 : FALSE
      BY <1>1
    <3> QED BY <3>1 DEF FrontAt
  <2> QED BY <2>1, <2>2
<1>3. ASSUME NEW k \in 0 .. Len(s) - 1, NEW r, C(k, r)
      PROVE  \E q : C(k + 1, q)
  <2> DEFINE m == Made(s, FALSE, k)
             i == k + 1
             n == Reach(s, i)
  <2>1. i \in 1 .. Len(s)
    BY <1>1
  <2>2. CASE i \in Starts(s)
    <3>1. r = k /\ FrontAt(s, i, k + n)
      BY <1>3, <2>2, FrontStart
    <3>2. ValidSize(s, i) # 0 /\ s[i] >= 32
      BY <1>1, <2>1, <2>2 DEF Clean, HasBadUTF8
    <3>3. Piece(s, i, FALSE) = SubSeq(s, i, i + n - 1)
      <4>1. n = ValidSize(s, i)
        BY <3>2 DEF Reach
      <4>2. ~(s[i] < 32)
        <5> DEFINE b == s[i]
        <5>1. b \in Bytes /\ b >= 32
          BY <2>1, <3>2, ElementOfSeq
        <5> HIDE DEF b
        <5>2. ~(b < 32)
          BY <5>1 DEF Bytes
        <5> QED BY <5>2 DEF b
      <4> HIDE DEF n
      <4> QED BY <3>2, <4>1, <4>2 DEF Piece
    <3>4. Made(s, FALSE, i) = m \o Piece(s, i, FALSE)
      BY <2>2, MadeAtStart
    <3>5. SubSeq(s, 1, k) \o SubSeq(s, i, i + n - 1) = SubSeq(s, 1, k + n)
      BY TwoParts
    <3>6. C(i, k + n)
      <4>1. m = SubSeq(s, 1, k)
        BY <1>3, <3>1
      <4> HIDE DEF m, n, i
      <4> QED BY <3>1, <3>3, <3>4, <3>5, <4>1
    <3> HIDE DEF C
    <3> QED BY <3>6
  <2>3. CASE i \notin Starts(s)
    <3>1. FrontAt(s, i, r)
      BY <1>3, <2>3, FrontInside
    <3>2. m \in Seq(Bytes)
      <4>0. r \in k .. Len(s) /\ m = SubSeq(s, 1, r)
        BY <1>3 DEF FrontAt
      <4>1. m = SubSeq(s, 1, r)
        BY <4>0
      <4>2. r \in Int /\ r <= Len(s)
        <5> DEFINE l == Len(s)
        <5>1. l \in Nat /\ k \in 0 .. l - 1 /\ r \in k .. l
          BY <1>1, <4>0
        <5> HIDE DEF l
        <5>2. r \in Int /\ r <= l
          BY <5>1
        <5> QED BY <5>2 DEF l
      <4> HIDE DEF m
      <4> QED BY <1>1, <4>1, <4>2
    <3>3. Made(s, FALSE, i) = m
      BY <2>3, <3>2, MadeInside
    <3>4. C(i, r)
      BY <1>3, <3>1, <3>3
    <3> HIDE DEF C
    <3> QED BY <3>4
  <2> QED BY <2>2, <2>3
<1> HIDE DEF C
<1>4. 0 \in G /\ \A k \in 0 .. Len(s) - 1 : k \in G => k + 1 \in G
  <2>1. 0 \in G
    BY <1>1, <1>2
  <2>2. ASSUME NEW k \in 0 .. Len(s) - 1, k \in G
        PROVE  k + 1 \in G
    <3>1. PICK r : C(k, r)
      BY <2>2
    <3>2. \E q : C(k + 1, q)
      BY <1>3, <3>1
    <3>3. k + 1 \in 0 .. Len(s)
      BY <1>1
    <3> QED BY <3>2, <3>3
  <2> HIDE DEF G
  <2> QED BY <2>1, <2>2
<1> HIDE DEF G
<1>5. Len(s) \in G
  BY <1>1, <1>4, UpTo
<1>6. PICK r : C(Len(s), r)
  BY <1>5 DEF G
<1>7. FrontAt(s, Len(s), r) /\ Made(s, FALSE, Len(s)) = SubSeq(s, 1, r)
  BY <1>6 DEF C
<1> QED BY <1>7, FrontEnd

-----------------------------------------------------------------------------
(* Where the bytes come from: the image, or what the scanner has decoded   *)
(* of it.                                                                  *)
Inside(f, s, offset) == \A i \in 1 .. Len(f) : offset + i \in 1 .. Len(s) /\ f[i] = s[offset + i]
Source(im, p) == IF isRecursive(p) THEN Decode(p.path[2], Behind(im, p.path[1])) ELSE im

LEMMA BehindIs ==
  ASSUME NEW s \in Seq(Bytes), NEW offset \in Nat
  PROVE  /\ Behind(s, offset) \in Seq(Bytes)
         /\ Len(Behind(s, offset)) = IF offset <= Len(s) THEN Len(s) - offset ELSE 0
         /\ \A i \in 1 .. Len(Behind(s, offset)) :
               offset + i \in 1 .. Len(s) /\ Behind(s, offset)[i] = s[offset + i]
<1> DEFINE l == Len(s)
           m == offset + 1
           r == SubSeq(s, m, l)
<1>1. l \in Nat /\ m \in Int /\ m >= 1
  BY LenProperties
<1>2. \A i \in m .. l : s[i] \in Bytes
  <2> TAKE i \in m .. l
  <2>1. i \in 1 .. Len(s)
    BY <1>1
  <2> QED BY <2>1, ElementOfSeq
<1> HIDE DEF l
<1>3. /\ r \in Seq(Bytes)
      /\ Len(r) = IF m <= l THEN l - m + 1 ELSE 0
      /\ \A i \in 1 .. l - m + 1 : r[i] = s[m + i - 1]
  <2> HIDE DEF m
  <2> QED BY <1>1, <1>2, SubSeqProperties
<1>4. Behind(s, offset) = r
  BY DEF Behind, l
<1> HIDE DEF r
<1>5. Len(r) = IF offset <= l THEN l - offset ELSE 0
  BY <1>1, <1>3
<1>6. ASSUME NEW i \in 1 .. Len(r)
      PROVE  offset + i \in 1 .. l /\ r[i] = s[offset + i]
  <2>1. i \in 1 .. l - m + 1 /\ m + i - 1 = offset + i /\ offset + i \in 1 .. l
    BY <1>1, <1>5, <1>6
  <2>2. r[i] = s[m + i - 1]
    BY <1>3, <2>1
  <2> QED BY <2>1, <2>2
<1> QED BY <1>3, <1>4, <1>5, <1>6 DEF l

LEMMA InsideIsPrefix ==
  ASSUME NEW f \in Seq(Bytes), NEW s \in Seq(Bytes), NEW offset \in Nat, Inside(f, s, offset)
  PROVE  IsPrefix(f, Behind(s, offset))
<1> DEFINE b == Behind(s, offset)
           n == Len(f)
           l == Len(s)
<1>1. n \in Nat /\ l \in Nat /\ DOMAIN f = 1 .. n
  BY LenProperties
<1>2. /\ b \in Seq(Bytes) /\ Len(b) = IF offset <= l THEN l - offset ELSE 0
      /\ \A i \in 1 .. Len(b) : b[i] = s[offset + i]
  BY BehindIs
<1>3. \A i \in 1 .. n : offset + i <= l /\ f[i] = s[offset + i]
  BY DEF Inside
<1> HIDE DEF b, n, l
<1>4. n <= Len(b)
  <2>1. CASE n = 0
    BY <1>1, <1>2, <2>1
  <2>2. CASE n # 0
    <3>1. n \in 1 .. n
      BY <1>1, <2>2
    <3>2. offset + n <= l
      BY <1>3, <3>1
    <3> QED BY <1>1, <1>2, <3>2
  <2> QED BY <2>1, <2>2
<1>5. \A i \in 1 .. n : f[i] = b[i]
  <2> TAKE i \in 1 .. n
  <2>1. i \in 1 .. Len(b)
    BY <1>1, <1>2, <1>4
  <2> QED BY <1>2, <1>3, <2>1
<1>6. SubSeq(f, 1, n) = f
  BY <1>1, SubSeqFull DEF n
<1>7. /\ SubSeq(b, 1, n) \in Seq(Bytes) /\ Len(SubSeq(b, 1, n)) = n
      /\ \A i \in 1 .. n : SubSeq(b, 1, n)[i] = b[i]
  <2>1. \A i \in 1 .. n : b[i] \in Bytes
    <3> TAKE i \in 1 .. n
    <3>1. i \in 1 .. Len(b)
      BY <1>1, <1>2, <1>4
    <3> QED BY <1>2, <3>1, ElementOfSeq
  <2>2. /\ SubSeq(b, 1, n) \in Seq(Bytes)
        /\ Len(SubSeq(b, 1, n)) = IF 1 <= n THEN n - 1 + 1 ELSE 0
        /\ \A i \in 1 .. n - 1 + 1 : SubSeq(b, 1, n)[i] = b[1 + i - 1]
    BY <1>1, <2>1, SubSeqProperties
  <2> DEFINE r == SubSeq(b, 1, n)
  <2> HIDE DEF r
  <2>3. r \in Seq(Bytes) /\ Len(r) = n
    BY <1>1, <2>2 DEF r
  <2>4. ASSUME NEW i \in 1 .. n
        PROVE  r[i] = b[i]
    <3>1. i \in 1 .. n - 1 + 1 /\ 1 + i - 1 = i
      BY <1>1
    <3>2. r[i] = b[1 + i - 1]
      BY <2>2, <3>1 DEF r
    <3> QED BY <3>1, <3>2
  <2> QED BY <2>3, <2>4 DEF r
<1>8. f = SubSeq(b, 1, n)
  <2> DEFINE r == SubSeq(b, 1, n)
  <2> HIDE DEF r
  <2>1. r \in Seq(Bytes) /\ Len(r) = n /\ \A i \in 1 .. n : r[i] = f[i]
    BY <1>5, <1>7 DEF r
  <2>2. f = r
    BY <2>1, SeqEqual DEF n
  <2> QED BY <2>2 DEF r
<1>9. Len(f) <= Len(b) /\ SubSeq(f, 1, Len(f)) = SubSeq(b, 1, Len(f))
  BY <1>4, <1>6, <1>8 DEF n
<1> QED BY <1>9 DEF IsPrefix, b

LEMMA PartInside ==
  ASSUME NEW b \in Buffers, NEW s, NEW offset \in Nat, NEW loc \in Nat, NEW len \in Nat,
         Inside(b.buf, s, offset)
  PROVE  Inside(substr(b, loc, len), s, offset + loc)
<1> DEFINE f == substr(b, loc, len)
<1>1. /\ f \in Seq(Bytes)
      /\ \A i \in 1 .. Len(f) : loc + i \in 1 .. bufsize(b) /\ f[i] = b.buf[loc + i]
  BY SubstrType
<1>2. bufsize(b) = Len(b.buf)
  BY BufferHas
<1> HIDE DEF f
<1>3. ASSUME NEW i \in 1 .. Len(f)
      PROVE  offset + loc + i \in 1 .. Len(s) /\ f[i] = s[offset + loc + i]
  <2> DEFINE j == loc + i
  <2>1. i \in Int
    BY <1>1, LenProperties
  <2>2. j \in 1 .. Len(b.buf) /\ f[i] = b.buf[j]
    BY <1>1, <1>2
  <2>3. offset + j = offset + loc + i
    BY <2>1
  <2> HIDE DEF j
  <2>4. offset + j \in 1 .. Len(s) /\ b.buf[j] = s[offset + j]
    BY <2>2 DEF Inside
  <2> QED BY <2>2, <2>3, <2>4
<1>4. Inside(f, s, offset + loc)
  BY <1>3 DEF Inside
<1> QED BY <1>4 DEF f

(* A buffer holds what is at its place.                                    *)
Holds(im, recurse, b) ==
    /\ Inside(b.buf, Source(im, b.pos0), b.pos0.offset)
    /\ isRecursive(b.pos0) => recurse # "no"

LEMMA ChildHolds ==
  ASSUME NEW im \in Seq(Bytes), NEW b \in Buffers, ~isRecursive(b.pos0),
         NEW pos \in 0 .. bufsize(b) - 1, NEW name \in Decoders, Holds(im, name, b)
  PROVE  Holds(im, name, ChildOf(b, pos, name))
<1> DEFINE n == bufsize(b) - pos
           c == ChildOf(b, pos, name)
           from == b.pos0.offset + pos
           part == substr(b, pos, n)
           rest == Behind(im, from)
<1>1. /\ b.pos0 \in Positions /\ b.buf \in Seq(Bytes) /\ bufsize(b) \in Nat /\ bufsize(b) = Len(b.buf)
      /\ b.pos0.offset \in Nat
  BY BufferHas DEF Positions
<1>2. pos \in Nat /\ n \in Nat /\ pos + n = bufsize(b) /\ from \in Nat
  BY <1>1
<1>3. c.pos0 = [path |-> <<from, name>>, offset |-> 0]
  <2>1. <<>> \o <<from, name>> = <<from, name>>
    OBVIOUS
  <2>2. ChildPos0(b, pos, name) = [path |-> <<from, name>>, offset |-> 0]
    BY <2>1 DEF isRecursive, ChildPos0, PlusSubdir, PlusOffset, pos0_t
  <2>3. c.pos0 = ChildPos0(b, pos, name)
    BY DEF ChildOf, new_slice, sbuf_new, sbuf_t
  <2> QED BY <2>2, <2>3
<1>4. Inside(part, im, from)
  <2>1. Inside(b.buf, im, b.pos0.offset)
    BY DEF Holds, Source
  <2> HIDE DEF n
  <2> QED BY <1>1, <1>2, <2>1, PartInside
<1>5. /\ rest \in Seq(Bytes) /\ Len(rest) = IF from <= Len(im) THEN Len(im) - from ELSE 0
      /\ \A i \in 1 .. Len(rest) : rest[i] = im[from + i]
  <2> HIDE DEF from
  <2> QED BY <1>2, BehindIs
<1>6. part \in Seq(Bytes) /\ Len(part) \in Nat /\ Len(im) \in Nat
  BY <1>2, SubstrType, LenProperties
<1> HIDE DEF n, part, rest, from
<1>7. ASSUME NEW i \in 1 .. Len(part)
      PROVE  i \in 1 .. Len(rest) /\ part[i] = rest[i]
  <2>1. from + i \in 1 .. Len(im) /\ part[i] = im[from + i]
    BY <1>4 DEF Inside
  <2>2. i \in 1 .. Len(rest)
    BY <1>2, <1>5, <1>6, <2>1
  <2> QED BY <1>5, <2>1, <2>2
<1>8. c.buf = Decode(name, part)
  <2>1. CASE name = "SLICE"
    <3>1. Min({pos + n, bufsize(b)}) = pos + n
      BY <1>1, <1>2, MinOfTwo
    <3>2. part = SubSeq(b.buf, pos + 1, pos + n)
      BY <3>1 DEF part, substr
    <3>3. c.buf = SubSeq(b.buf, pos + 1, pos + n)
      BY <2>1 DEF ChildOf, new_slice, sbuf_t, n
    <3>4. Decode(name, part) = part
      <4>1. Decode(name, part) = [i \in 1 .. Len(part) |-> part[i]]
        BY <2>1 DEF Decode
      <4>2. part = [i \in 1 .. Len(part) |-> part[i]]
        BY <1>6
      <4> QED BY <4>1, <4>2
    <3> QED BY <3>2, <3>3, <3>4
  <2>2. CASE name = "XOR"
    BY <2>2 DEF ChildOf, sbuf_new, sbuf_t, n, part
  <2> QED BY <2>1, <2>2 DEF Decoders
<1>9. Source(im, c.pos0) = Decode(name, rest) /\ c.pos0.offset = 0 /\ name # "no"
  BY <1>3 DEF Source, isRecursive, rest, Decoders
<1>10. Inside(Decode(name, part), Decode(name, rest), 0)
  <2>1. Len(Decode(name, part)) = Len(part) /\ Len(Decode(name, rest)) = Len(rest)
    BY <1>5, <1>6, DecodeType
  <2>2. ASSUME NEW i \in 1 .. Len(part)
        PROVE  0 + i \in 1 .. Len(rest) /\ Decode(name, part)[i] = Decode(name, rest)[0 + i]
    <3>1. i \in 1 .. Len(rest) /\ part[i] = rest[i] /\ 0 + i = i
      BY <1>6, <1>7
    <3>2. Decode(name, part)[i] = Decode(name, rest)[i]
      BY <3>1 DEF Decode
    <3> QED BY <3>1, <3>2
  <2> QED BY <2>1, <2>2 DEF Inside
<1> HIDE DEF c
<1>11. Holds(im, name, c)
  BY <1>8, <1>9, <1>10 DEF Holds
<1> QED BY <1>11 DEF c

LEMMA PageHolds ==
  ASSUME setup \in Setups, image \in Seq(Bytes), NEW k \in Nat
  PROVE  Holds(image, setup.recurse, PageAt(k))
<1> DEFINE first == k * setup.pagesize
           n == first + setup.pagesize + setup.margin
           s == SubSeq(image, first + 1, Min({n, Len(image)}))
<1>1. first \in Nat /\ n \in Nat
  <2>1. setup.pagesize \in Nat /\ setup.margin \in Nat
    BY SetupHas
  <2>2. first \in Nat
    BY <2>1
  <2> HIDE DEF first
  <2> QED BY <2>1, <2>2
<1>2. PageAt(k).buf = s /\ PageAt(k).pos0 = [path |-> <<>>, offset |-> first]
  BY DEF PageAt, sbuf_new, sbuf_t, pos0_t
<1>3. \A i \in 1 .. Len(s) : first + i \in 1 .. Len(image) /\ s[i] = image[first + i]
  <2> HIDE DEF first, n
  <2> QED BY <1>1, CutOut
<1> HIDE DEF s, first
<1>4. Inside(s, image, first)
  BY <1>3 DEF Inside
<1> QED BY <1>2, <1>4 DEF Holds, Source, isRecursive

(* The lines that there are, and those whose feature was at its place.     *)
Lines == [x \in Positions \X Finds |-> Line(x[1], QuotedFeature(x[2].feature), QuotedContext(x[2].context))]

LineOf(lines, im, recurse, l, r) ==
    \E p \in Positions :
        /\ l = lines[<<p, r>>]
        /\ Inside(r.feature, Source(im, p), p.offset)
        /\ isRecursive(p) => recurse # "no"

BuffersHold ==
    /\ Holds(image, setup.recurse, sbuf)
    /\ \A i \in 1 .. Len(callers) : Holds(image, setup.recurse, callers[i].sbuf)
LinesHold == \A i \in Written : LineOf(Lines, image, setup.recurse, file[i], raw[i])

LEMMA SameLines ==
  ASSUME setup' = setup
  PROVE  Lines' = Lines
<1>1. ASSUME NEW f, NEW c, NEW p
      PROVE  Line(p, QuotedFeature(f), QuotedContext(c))' = Line(p, QuotedFeature(f), QuotedContext(c))
  BY DEF Line, QuotedFeature, QuotedContext, QuoteToSize, Quote, EscapeBadUTF8, EscapeBackslash
<1>2. ASSUME NEW x
      PROVE  Line(x[1], QuotedFeature(x[2].feature), QuotedContext(x[2].context))'
                = Line(x[1], QuotedFeature(x[2].feature), QuotedContext(x[2].context))
  BY DEF Line, QuotedFeature, QuotedContext, QuoteToSize, Quote, EscapeBadUTF8, EscapeBackslash
<1> QED BY <1>2 DEF Lines

LEMMA InitHolds == Init => BuffersHold /\ LinesHold
<1> SUFFICES ASSUME Init PROVE BuffersHold /\ LinesHold
  OBVIOUS
<1>1. sbuf = NoBuffer /\ callers = <<>> /\ file = <<>>
  BY DEF Init
<1>2. Len(<<>>) = 0 /\ \A i \in 1 .. 0 : FALSE
  OBVIOUS
<1>3. Holds(image, setup.recurse, sbuf)
  BY <1>1, <1>2 DEF Holds, Inside, NoBuffer, sbuf_t, pos0_t, isRecursive
<1> QED BY <1>1, <1>2, <1>3 DEF BuffersHold, LinesHold, Written

LEMMA ReturnsHold ==
  ASSUME Typed, BuffersHold, ScannerReturns
  PROVE  BuffersHold'
<1>1. UNCHANGED <<setup, image>>
  BY DEF ScannerReturns
<1>2. CASE UNCHANGED <<sbuf, callers>>
  BY <1>1, <1>2 DEF BuffersHold
<1>3. CASE callers # <<>> /\ sbuf' = Head(callers).sbuf /\ callers' = Tail(callers)
  <2>1. PICK c \in Calls : callers = <<c>>
    BY <1>3 DEF Typed, CallsTyped
  <2>2. Head(callers) = c /\ Tail(callers) = <<>> /\ callers[1] = c /\ Len(callers) = 1
    BY <2>1
  <2>3. Holds(image, setup.recurse, c.sbuf)
    BY <2>2 DEF BuffersHold
  <2>4. sbuf' = c.sbuf /\ callers' = <<>> /\ Len(<<>>) = 0 /\ \A i \in 1 .. 0 : FALSE
    BY <1>3, <2>2
  <2> QED BY <1>1, <2>3, <2>4 DEF BuffersHold
<1> QED BY <1>2, <1>3 DEF ScannerReturns

LEMMA WrittenHolds ==
  ASSUME Typed, BuffersHold, LinesHold, Found, WriteLine, UNCHANGED <<setup, image>>
  PROVE  LinesHold'
<1> DEFINE f == Feature(Hit.pos, Hit.len)
           c == Context(Hit.pos, Hit.len)
           p == FeaturePos0(Hit.pos)
           r == [feature |-> f, context |-> c]
           l == Line(p, QuotedFeature(f), QuotedContext(c))
           offset == sbuf.pos0.offset
           s == Source(image, sbuf.pos0)
<1>1. /\ sbuf \in Buffers /\ sbuf.pos0 \in Positions /\ offset \in Nat
      /\ Hit.pos \in Nat /\ Hit.len \in Nat
  BY FeatureType, BufferHas DEF Found, Typed, CallsTyped, Positions
<1>2. p = [path |-> sbuf.pos0.path, offset |-> offset + Hit.pos]
  BY DEF FeaturePos0, PlusOffset, pos0_t
<1>3. p \in Positions /\ Source(image, p) = s /\ (isRecursive(p) <=> isRecursive(sbuf.pos0))
  <2>1. offset + Hit.pos \in Nat /\ sbuf.pos0.path \in PathSet
    BY <1>1 DEF Positions
  <2> HIDE DEF offset, p, s
  <2>2. p.path = sbuf.pos0.path /\ p \in Positions
    BY <1>2, <2>1 DEF Positions
  <2> QED BY <2>2 DEF Source, isRecursive, s
<1>4. Inside(f, s, offset + Hit.pos)
  <2>1. Inside(sbuf.buf, s, offset)
    BY DEF BuffersHold, Holds
  <2> HIDE DEF offset, s
  <2> QED BY <1>1, <2>1, PartInside DEF Feature
<1>5. isRecursive(sbuf.pos0) => setup.recurse # "no"
  BY DEF BuffersHold, Holds
<1> HIDE DEF f, c, s, offset
<1>6. LineOf(Lines, image, setup.recurse, l, r)
  <2>1. r.feature = f /\ r.context = c /\ p.offset = offset + Hit.pos
    BY <1>2
  <2>2. r \in Finds
    BY FeatureType DEF Found, Finds, f, c
  <2> HIDE DEF p, r
  <2>3. <<p, r>> \in Positions \X Finds
    BY <1>3, <2>2
  <2>4. Lines[<<p, r>>] = l
    BY <2>1, <2>3 DEF Lines
  <2> HIDE DEF l
  <2> QED BY <1>3, <1>4, <1>5, <2>1, <2>4 DEF LineOf
<1> HIDE DEF p, l, r
<1>7. file' = Append(file, l) /\ raw' = Append(raw, r)
  BY DEF WriteLine, f, c, p, l, r
<1>8. file \in Seq(LinesFor(setup)) /\ raw \in Seq(Finds) /\ Len(raw) = Len(file) /\ Len(file) \in Nat
  BY LenProperties DEF Typed, LinesTyped
<1>9. /\ Len(file') = Len(file) + 1 /\ file'[Len(file) + 1] = l /\ raw'[Len(file) + 1] = r
      /\ \A i \in 1 .. Len(file) : file'[i] = file[i] /\ raw'[i] = raw[i]
  <2> DEFINE T == LinesFor(setup) \cup {l}
             U == Finds \cup {r}
  <2>1. file \in Seq(T) /\ raw \in Seq(U) /\ l \in T /\ r \in U
    BY <1>8
  <2> HIDE DEF T, U
  <2>2. /\ Len(Append(file, l)) = Len(file) + 1 /\ Append(file, l)[Len(file) + 1] = l
        /\ \A i \in 1 .. Len(file) : Append(file, l)[i] = file[i]
    BY <2>1, AppendProperties
  <2>3. /\ Append(raw, r)[Len(raw) + 1] = r
        /\ \A i \in 1 .. Len(raw) : Append(raw, r)[i] = raw[i]
    BY <2>1, AppendProperties
  <2> QED BY <1>7, <1>8, <2>2, <2>3
<1>10. ASSUME NEW i \in 1 .. Len(file) + 1
       PROVE  LineOf(Lines, image, setup.recurse, file'[i], raw'[i])
  <2>1. CASE i = Len(file) + 1
    BY <1>6, <1>9, <2>1
  <2>2. CASE i # Len(file) + 1
    <3>1. i \in 1 .. Len(file)
      BY <1>8, <2>2
    <3>2. LineOf(Lines, image, setup.recurse, file[i], raw[i])
      BY <3>1 DEF LinesHold, Written
    <3> QED BY <1>9, <3>1, <3>2
  <2> QED BY <2>1, <2>2
<1>11. Lines' = Lines /\ image' = image /\ setup' = setup
  BY SameLines
<1> QED BY <1>9, <1>10, <1>11 DEF LinesHold, Written

LEMMA SameLinesHold ==
  ASSUME LinesHold, UNCHANGED <<setup, image, file, raw>>
  PROVE  LinesHold'
<1>1. Lines' = Lines
  BY SameLines
<1> QED BY <1>1 DEF LinesHold, Written

LEMMA StepHolds == Typed /\ BuffersHold /\ LinesHold /\ [Next]_vars => BuffersHold' /\ LinesHold'
<1> SUFFICES ASSUME Typed, BuffersHold, LinesHold, [Next]_vars PROVE BuffersHold' /\ LinesHold'
  OBVIOUS
<1>1. CASE NextPage
  <2>1. setup \in Setups /\ image \in Seq(Bytes) /\ page \in Nat /\ callers = <<>>
    BY <1>1, LenProperties DEF NextPage, Typed, ImageTyped, PagesTyped
  <2>2. Holds(image, setup.recurse, PageAt(page))
    BY <2>1, PageHolds
  <2>3. Len(<<>>) = 0 /\ \A i \in 1 .. 0 : FALSE
    OBVIOUS
  <2>4. BuffersHold'
    <3>1. sbuf' = PageAt(page) /\ callers' = <<>> /\ setup' = setup /\ image' = image
      BY <1>1, <2>1 DEF NextPage
    <3> QED BY <2>2, <2>3, <3>1 DEF BuffersHold
  <2> QED BY <1>1, <2>4, SameLinesHold DEF NextPage
<1>2. CASE SkipScanner \/ FindNothing \/ ThrowOutside \/ ThrowBeforeLine
  <2>1. ScannerReturns /\ UNCHANGED <<setup, image, file, raw>>
    BY <1>2 DEF SkipScanner, FindNothing, ThrowOutside, ThrowBeforeLine, Alert, ScannerReturns
  <2> QED BY <2>1, ReturnsHold, SameLinesHold
<1>3. CASE WriteNothing \/ Shutdown \/ ShutdownThrows \/ Done \/ UNCHANGED vars
  <2>1. UNCHANGED <<setup, image, sbuf, callers, file, raw>>
    BY <1>3 DEF WriteNothing, Shutdown, ShutdownThrows, Done, vars
  <2>2. BuffersHold'
    BY <2>1 DEF BuffersHold
  <2> QED BY <2>1, <2>2, SameLinesHold
<1>4. CASE ThrowAfterLine
  <2>1. Found /\ WriteLine /\ ScannerReturns /\ UNCHANGED <<setup, image>>
    BY <1>4 DEF ThrowAfterLine, InPage, Alert, ScannerReturns
  <2> QED BY <2>1, ReturnsHold, WrittenHolds
<1>5. CASE WriteFeature
  <2>1. Found /\ WriteLine /\ UNCHANGED <<setup, image>>
    BY <1>5 DEF WriteFeature, InPage
  <2>2. LinesHold'
    BY <2>1, WrittenHolds
  <2>3. CASE UNCHANGED <<sbuf, callers>>
    BY <2>1, <2>2, <2>3 DEF BuffersHold
  <2>4. CASE Recurses /\ RecurseInto(Child(Hit.pos))
    <3> DEFINE c == [sbuf |-> sbuf, at |-> Hit.next]
               new == ChildOf(sbuf, Hit.pos, setup.recurse)
    <3>1. /\ sbuf \in Buffers /\ setup.recurse \in Decoders /\ ~isRecursive(sbuf.pos0)
          /\ image \in Seq(Bytes)
      BY <2>4, SetupHas DEF Typed, CallsTyped, ImageTyped, Recurses
    <3>2. callers = <<>>
      BY <3>1 DEF Typed, CallsTyped
    <3>3. Hit.pos \in 0 .. bufsize(sbuf) - 1
      <4>1. ~(Hit.pos >= bufsize(sbuf)) /\ bufsize(sbuf) \in Nat /\ Hit.pos \in Nat
        BY <2>1, <3>1, BufferHas, FeatureType DEF Found, OutsideBuffer
      <4> QED BY <4>1
    <3>4. Holds(image, setup.recurse, sbuf)
      BY DEF BuffersHold
    <3>5. Holds(image, setup.recurse, new)
      BY <3>1, <3>3, <3>4, ChildHolds
    <3>6. Child(Hit.pos) = new
      BY <3>1, ChildIs
    <3> HIDE DEF new
    <3>7. sbuf' = new /\ callers' = <<c>> /\ c.sbuf = sbuf
      BY <2>4, <3>2, <3>6 DEF RecurseInto
    <3> HIDE DEF c
    <3>8. \A i \in 1 .. Len(callers') : callers'[i].sbuf = sbuf
      <4>1. Len(<<c>>) = 1 /\ <<c>>[1] = c
        OBVIOUS
      <4>2. \A i \in 1 .. 1 : <<c>>[i] = c
        BY <4>1
      <4> QED BY <3>7, <4>1, <4>2
    <3>9. BuffersHold'
      BY <2>1, <3>4, <3>5, <3>7, <3>8 DEF BuffersHold
    <3> QED BY <2>2, <3>9
  <2> QED BY <1>5, <2>3, <2>4 DEF WriteFeature
<1> QED BY <1>1, <1>2, <1>3, <1>4, <1>5 DEF Next

-----------------------------------------------------------------------------
(* The fields of a line: what quoting and cutting leave.                   *)
LEMMA ResizeIs ==
  ASSUME NEW S, NEW s \in Seq(S), NEW max \in Nat
  PROVE  /\ Resize(s, max) \in Seq(S)
         /\ Len(s) <= max => Resize(s, max) = s
<1> DEFINE l == Len(s)
           m == Min({l, max})
<1>1. l \in Nat /\ m \in Nat /\ m <= l
  <2>1. l \in Nat
    BY LenProperties
  <2> HIDE DEF l
  <2> QED BY <2>1, MinOfTwo
<1>2. Resize(s, max) = SubSeq(s, 1, m)
  BY DEF Resize
<1>3. \A i \in 1 .. m : s[i] \in S
  <2> TAKE i \in 1 .. m
  <2> HIDE DEF m
  <2>1. i \in 1 .. Len(s)
    BY <1>1 DEF l
  <2> QED BY <2>1, ElementOfSeq
<1>4. SubSeq(s, 1, m) \in Seq(S)
  <2> HIDE DEF m
  <2> QED BY <1>1, <1>3, SubSeqProperties
<1>5. Len(s) <= max => m = l
  <2> HIDE DEF l
  <2>1. l <= max => m = l
    BY <1>1, MinOfTwo
  <2> QED BY <2>1 DEF l
<1>6. SubSeq(s, 1, l) = s
  BY SubSeqFull
<1> QED BY <1>2, <1>4, <1>5, <1>6

LEMMA QuoteIs ==
  ASSUME setup \in Setups, NEW s \in Seq(Bytes)
  PROVE  /\ EscapeBackslash \in BOOLEAN
         /\ Quote(s) = Made(s, EscapeBackslash, Len(s))
         /\ Quote(s) \in Seq(Printable) /\ Quote(s) \in Seq(Bytes)
<1>1. EscapeBadUTF8 \in BOOLEAN /\ EscapeBackslash \in BOOLEAN
  BY DEF EscapeBadUTF8, EscapeBackslash
<1> DEFINE bad == EscapeBadUTF8
           backslash == EscapeBackslash
<1>2. Quote(s) = validateOrEscapeUTF8(s, bad, backslash, TRUE)
  BY DEF Quote
<1>3. bad \in BOOLEAN /\ backslash \in BOOLEAN
  BY <1>1
<1> HIDE DEF bad, backslash
<1>4. validateOrEscapeUTF8(s, bad, backslash, TRUE) = Made(s, backslash, Len(s))
  BY <1>3, MadeAll
<1>5. Made(s, backslash, Len(s)) \in Seq(Printable) /\ Made(s, backslash, Len(s)) \in Seq(Bytes)
  BY <1>3, MadePrintable, MadeClean
<1> QED BY <1>2, <1>3, <1>4, <1>5 DEF backslash

(* The quotes come off: as many as a feature was given, if there were any, *)
(* or if there was nothing to quote.                                       *)
LEMMA FeatureBack ==
  ASSUME setup \in Setups, NEW f \in Seq(Bytes),
         QuotesOf(f) > 0 \/ Clean(UTF8Of(f))
  PROVE  Unquote(Quote(make_utf8(f)), QuotesOf(f)) = UTF8Of(f)
<1> DEFINE u == make_utf8(f)
           q == Quote(u)
<1>1. u \in Seq(Bytes)
  BY MadeBytes
<1> HIDE DEF u
<1>2. q = Made(u, EscapeBackslash, Len(u)) /\ EscapeBackslash \in BOOLEAN
  BY <1>1, QuoteIs
<1>3. EscapeBackslash => unquote_string(q) = u
  <2> HAVE EscapeBackslash
  <2>1. q = validateOrEscapeUTF8(u, TRUE, TRUE, TRUE)
    BY DEF Quote, EscapeBackslash, EscapeBadUTF8
  <2> QED BY <1>1, <2>1, QuotesComeOff
<1>4. ~EscapeBackslash /\ Clean(u) => q = u
  BY <1>1, <1>2, CleanStays
<1> HIDE DEF q
<1>5. CASE IsUTF16(f)
  <2>1. UTF8Of(f) = u
    BY <1>5 DEF UTF8Of, u
  <2>2. CASE EscapeBackslash
    <3>1. QuotesOf(f) = 1
      BY <1>5, <2>2 DEF QuotesOf
    <3> QED BY <1>3, <2>1, <2>2, <3>1, UnquoteOnceTwice DEF q, u
  <2>3. CASE ~EscapeBackslash
    <3>1. QuotesOf(f) = 0
      BY <1>5, <2>3 DEF QuotesOf
    <3>2. Clean(u)
      BY <2>1, <3>1
    <3> QED BY <1>4, <2>1, <2>3, <3>1, <3>2, UnquoteOnceTwice DEF q, u
  <2> QED BY <2>2, <2>3
<1>6. CASE ~IsUTF16(f)
  <2>1. UTF8Of(f) = f
    BY <1>6 DEF UTF8Of
  <2>2. u = validateOrEscapeUTF8(f, TRUE, TRUE, TRUE)
    BY <1>6 DEF u, make_utf8, IsUTF16
  <2>3. unquote_string(u) = f
    BY <2>2, QuotesComeOff
  <2>4. Clean(u)
    <3>1. u = Made(f, TRUE, Len(f))
      BY <2>2, MadeAll
    <3> QED BY <3>1, MadeClean
  <2>5. CASE EscapeBackslash
    <3>1. QuotesOf(f) = 2
      BY <1>6, <2>5 DEF QuotesOf
    <3> QED BY <1>3, <2>1, <2>3, <2>5, <3>1, UnquoteOnceTwice DEF q, u
  <2>6. CASE ~EscapeBackslash
    <3>1. QuotesOf(f) = 1
      BY <1>6, <2>6 DEF QuotesOf
    <3>2. q = u
      BY <1>4, <2>4, <2>6
    <3> QED BY <2>1, <2>3, <3>1, <3>2, UnquoteOnceTwice DEF q, u
  <2> QED BY <2>5, <2>6
<1> QED BY <1>5, <1>6

LEMMA ContextBack ==
  ASSUME setup \in Setups, NEW c \in Seq(Bytes), EscapeBackslash
  PROVE  unquote_string(Quote(c)) = c
<1>1. Quote(c) = validateOrEscapeUTF8(c, TRUE, TRUE, TRUE)
  BY DEF Quote, EscapeBackslash, EscapeBadUTF8
<1> QED BY <1>1, QuotesComeOff

LEMMA LineHasFields ==
  ASSUME NEW p, NEW f, NEW c
  PROVE  LET l == Line(p, f, c)
         IN  /\ l[1] = shift(p, setup.offset_add) /\ l[2] = f
             /\ Len(l) = 3 => l[3] = c
             /\ Len(l) = IF setup.no_context \/ c = <<>> THEN 2 ELSE 3
<1> DEFINE q == shift(p, setup.offset_add)
           l == Line(p, f, c)
<1>1. l = IF setup.no_context \/ c = <<>> THEN <<q, f>> ELSE <<q, f, c>>
  <2>1. l = <<q, f>> \o (IF setup.no_context \/ c = <<>> THEN <<>> ELSE <<c>>)
    BY DEF Line
  <2> HIDE DEF q, l
  <2>2. <<q, f>> \o <<>> = <<q, f>> /\ <<q, f>> \o <<c>> = <<q, f, c>>
    BY PairAnd
  <2> QED BY <2>1, <2>2
<1> HIDE DEF q, l
<1>2. /\ l[1] = q /\ l[2] = f /\ (Len(l) = 3 => l[3] = c)
      /\ Len(l) = IF setup.no_context \/ c = <<>> THEN 2 ELSE 3
  <2>1. CASE setup.no_context \/ c = <<>>
    BY <1>1, <2>1
  <2>2. CASE ~(setup.no_context \/ c = <<>>)
    BY <1>1, <2>2
  <2> QED BY <2>1, <2>2
<1> QED BY <1>2 DEF q, l

LEMMA BytesAtPlace ==
  ASSUME setup \in Setups, NEW p \in Positions, isRecursive(p) => setup.recurse # "no",
         setup.recurse = "no" \/ setup.offset_add = 0
  PROVE  BytesAt(shift(p, setup.offset_add)) = Behind(Source(image, p), p.offset)
<1>1. p.path \in PathSet /\ p.offset \in Nat /\ setup.offset_add \in Nat
  BY SetupHas DEF Positions
<1>2. CASE isRecursive(p)
  <2>1. shift(p, setup.offset_add) = p
    BY <1>2 DEF shift
  <2> QED BY <1>2, <2>1 DEF BytesAt, Source, imageOffset
<1>3. CASE ~isRecursive(p)
  <2> DEFINE q == shift(p, setup.offset_add)
  <2>1. ~isRecursive(q) /\ q.offset - setup.offset_add = p.offset
    <3>1. CASE setup.offset_add = 0
      <4>1. q = p
        BY <3>1 DEF shift
      <4> HIDE DEF q
      <4> QED BY <1>1, <1>3, <3>1, <4>1
    <3>2. CASE setup.offset_add # 0
      <4>1. q = [path |-> <<>>, offset |-> p.offset + setup.offset_add]
        BY <1>3, <3>2 DEF shift, pos0_t
      <4> HIDE DEF q
      <4> QED BY <1>1, <4>1 DEF isRecursive
    <3> QED BY <3>1, <3>2
  <2> HIDE DEF q
  <2>2. BytesAt(q) = Behind(image, p.offset) /\ Source(image, p) = image
    BY <1>3, <2>1 DEF BytesAt, Source
  <2> QED BY <2>2 DEF q
<1> QED BY <1>2, <1>3

LEMMA SourceType ==
  ASSUME NEW im \in Seq(Bytes), NEW p \in Positions
  PROVE  Source(im, p) \in Seq(Bytes)
<1>1. CASE isRecursive(p)
  <2>1. p.path \in Nat \X Decoders
    BY <1>1 DEF isRecursive, Positions, PathSet
  <2> DEFINE n == p.path[1]
             name == p.path[2]
  <2>2. n \in Nat
    BY <2>1
  <2> HIDE DEF n, name
  <2>3. Behind(im, n) \in Seq(Bytes)
    BY <2>2, BehindIs
  <2>4. Decode(name, Behind(im, n)) \in Seq(Bytes)
    BY <2>3, DecodeType
  <2> QED BY <1>1, <2>4 DEF Source, n, name
<1>2. CASE ~isRecursive(p)
  BY <1>2 DEF Source
<1> QED BY <1>1, <1>2

LEMMA HeldLeadBack ==
  ASSUME Typed, LinesHold, setup.recurse = "no" \/ setup.offset_add = 0
  PROVE  LeadsBack
<1> SUFFICES ASSUME NEW i \in Written
             PROVE  PathLeadsBack(i) /\ FieldsReadBack(i)
  BY DEF LeadsBack
<1> DEFINE l == file[i]
           r == raw[i]
           f == r.feature
           c == r.context
           qf == QuotedFeature(f)
           qc == QuotedContext(c)
           u == make_utf8(f)
<1>1. setup \in Setups /\ image \in Seq(Bytes)
  BY DEF Typed, ImageTyped
<1>2. setup.max_feature_size \in Nat /\ setup.max_context_size \in Nat
  BY <1>1, SetupHas
<1>3. l \in LinesFor(setup) /\ r \in Finds
  <2>1. file \in Seq(LinesFor(setup)) /\ raw \in Seq(Finds) /\ Len(raw) = Len(file)
    BY DEF Typed, LinesTyped
  <2>2. i \in 1 .. Len(file) /\ i \in 1 .. Len(raw)
    BY <2>1 DEF Written
  <2> QED BY <2>1, <2>2, ElementOfSeq
<1>4. LineOf(Lines, image, setup.recurse, l, r)
  BY DEF LinesHold
<1> HIDE DEF l, r
<1>5. f \in Seq(Bytes) /\ c \in Seq(Bytes)
  BY <1>3 DEF Finds
<1> HIDE DEF f, c
<1>6. PICK p \in Positions : /\ l = Lines[<<p, r>>]
                             /\ Inside(f, Source(image, p), p.offset)
                             /\ isRecursive(p) => setup.recurse # "no"
  BY <1>4 DEF LineOf, f
<1>7. l = Line(p, qf, qc)
  <2>1. <<p, r>> \in Positions \X Finds
    BY <1>3
  <2>2. Lines[<<p, r>>] = Line(p, qf, qc)
    BY <2>1 DEF Lines, f, c
  <2> QED BY <1>6, <2>2
<1>8. /\ l[1] = shift(p, setup.offset_add) /\ l[2] = qf /\ (Len(l) = 3 => l[3] = qc)
      /\ Len(l) = 3 => ~setup.no_context
  <2> HIDE DEF qf, qc
  <2> QED BY <1>7, LineHasFields
<1>9. PathLeadsBack(i)
  <2>1. Source(image, p) \in Seq(Bytes) /\ p.offset \in Nat
    BY <1>1, SourceType DEF Positions
  <2>2. IsPrefix(f, Behind(Source(image, p), p.offset))
    BY <1>5, <1>6, <2>1, InsideIsPrefix
  <2>3. BytesAt(l[1]) = Behind(Source(image, p), p.offset)
    BY <1>1, <1>6, <1>8, BytesAtPlace
  <2> QED BY <2>2, <2>3 DEF PathLeadsBack, f, l, r
<1>10. u \in Seq(Bytes)
  BY <1>5, MadeBytes
<1> HIDE DEF u
<1>11. /\ qf = Resize(Quote(u), setup.max_feature_size)
       /\ ~setup.no_context => qc = Resize(Quote(c), setup.max_context_size)
  BY DEF QuotedFeature, QuotedContext, QuoteToSize, u
<1>12. Quote(u) \in Seq(Printable) /\ Quote(c) \in Seq(Printable)
  BY <1>1, <1>5, <1>10, QuoteIs
<1> HIDE DEF qf, qc
<1>13. /\ qf \in Seq(Printable) /\ (~setup.no_context => qc \in Seq(Printable))
       /\ Len(Quote(u)) <= setup.max_feature_size => qf = Quote(u)
       /\ ~setup.no_context /\ Len(Quote(c)) <= setup.max_context_size => qc = Quote(c)
  BY <1>2, <1>11, <1>12, ResizeIs
<1>14. ASSUME NEW field \in ToSet(FieldsOf(l)), NEW k \in DOMAIN field
       PROVE  field[k] >= 32
  <2>1. field = l[2] \/ (Len(l) = 3 /\ field = l[3])
    BY <1>2, <1>3, LineHas
  <2>2. field \in Seq(Printable)
    BY <1>8, <1>13, <2>1
  <2>3. field[k] \in Printable
    BY <2>2, LenProperties, ElementOfSeq
  <2> DEFINE b == field[k]
  <2> HIDE DEF b
  <2>4. b \in Printable
    BY <2>3 DEF b
  <2>5. b >= 32
    BY <2>4 DEF Printable
  <2> QED BY <2>5 DEF b
<1>15. ASSUME Uncut(i)
       PROVE  /\ QuotesOf(f) > 0 \/ Clean(UTF8Of(f)) =>
                    Unquote(l[2], QuotesOf(f)) = UTF8Of(f)
              /\ Len(l) = 3 /\ EscapeBackslash => unquote_string(l[3]) = c
  <2>1. Len(Quote(u)) <= setup.max_feature_size /\ Len(Quote(c)) <= setup.max_context_size
    BY <1>15 DEF Uncut, u, f, c, r
  <2>2. l[2] = Quote(u) /\ (Len(l) = 3 => l[3] = Quote(c))
    BY <1>8, <1>13, <2>1
  <2>3. QuotesOf(f) > 0 \/ Clean(UTF8Of(f)) => Unquote(Quote(u), QuotesOf(f)) = UTF8Of(f)
    BY <1>1, <1>5, FeatureBack DEF u
  <2>4. EscapeBackslash => unquote_string(Quote(c)) = c
    BY <1>1, <1>5, ContextBack
  <2> QED BY <2>2, <2>3, <2>4
<1>16. FieldsReadBack(i)
  BY <1>14, <1>15 DEF FieldsReadBack, l, f, c, r
<1> QED BY <1>9, <1>16

(* For every image and recorder: the path of a line leads back to the      *)
(* feature, in the image or in what was decoded of it; no byte of a field  *)
(* can end it or its line; and the quotes come off again.  A path that the *)
(* scanner has recursed into must not be shifted too, which shift() does   *)
(* to its first digits only.                                               *)
THEOREM LinesLeadBack ==
  Spec => [](setup.recurse = "no" \/ setup.offset_add = 0 => LeadsBack)
<1>1. Init => Typed /\ BuffersHold /\ LinesHold
  BY InitTyped, InitHolds
<1>2. Typed /\ BuffersHold /\ LinesHold /\ [Next]_vars => (Typed /\ BuffersHold /\ LinesHold)'
  BY StepTyped, StepHolds
<1>3. Typed /\ BuffersHold /\ LinesHold => (setup.recurse = "no" \/ setup.offset_add = 0 => LeadsBack)
  BY HeldLeadBack
<1> QED BY <1>1, <1>2, <1>3, PTL DEF Spec

-----------------------------------------------------------------------------
(* Tallies of the finds in a sequence rs that are in the set counted: key  *)
(* is a function to their keys, and wide are those of UTF-16.              *)
Tallied(key, counted, wide, rs, h) ==
    \A k : /\ k \in DOMAIN h <=> FindsOf(key, counted, rs, k) # {}
           /\ Tally(h, k).count = Cardinality(FindsOf(key, counted, rs, k))
           /\ Tally(h, k).count16 = Cardinality(WideOf(key, counted, wide, rs, k))

AddedTo(key, wide, h, r) ==
    [k \in DOMAIN h \cup {key[r]} |->
        IF k # key[r] THEN h[k]
        ELSE [count |-> Tally(h, key[r]).count + 1,
              count16 |-> Tally(h, key[r]).count16 + (IF r \in wide THEN 1 ELSE 0)]]

(* One more find.                                                          *)
LEMMA TalliedNext ==
  ASSUME NEW key, NEW counted, NEW wide, NEW T, NEW rs \in Seq(T), NEW r \in T, NEW h, NEW g,
         Tallied(key, counted, wide, rs, h),
         r \notin counted => g = h,
         r \in counted => g = AddedTo(key, wide, h, r)
  PROVE  Tallied(key, counted, wide, Append(rs, r), g)
<1> SUFFICES ASSUME NEW k
             PROVE  /\ k \in DOMAIN g <=> FindsOf(key, counted, Append(rs, r), k) # {}
                    /\ Tally(g, k).count = Cardinality(FindsOf(key, counted, Append(rs, r), k))
                    /\ Tally(g, k).count16 = Cardinality(WideOf(key, counted, wide, Append(rs, r), k))
  BY DEF Tallied
<1> DEFINE old == FindsOf(key, counted, rs, k)
           new == FindsOf(key, counted, Append(rs, r), k)
           oldWide == WideOf(key, counted, wide, rs, k)
           newWide == WideOf(key, counted, wide, Append(rs, r), k)
           n == Len(rs)
<1>1. /\ new = IF r \in counted /\ key[r] = k THEN old \cup {n + 1} ELSE old
      /\ newWide = IF r \in counted /\ key[r] = k /\ r \in wide THEN oldWide \cup {n + 1} ELSE oldWide
  <2>1. rs \in Seq(T) /\ r \in T
    OBVIOUS
  <2> QED BY ONLY <2>1, AppendedFinds
<1>2. /\ k \in DOMAIN h <=> old # {}
      /\ Tally(h, k).count = Cardinality(old) /\ Tally(h, k).count16 = Cardinality(oldWide)
  BY DEF Tallied
<1>3. IsFiniteSet(old) /\ IsFiniteSet(oldWide) /\ Cardinality(old) \in Nat /\ Cardinality(oldWide) \in Nat
  BY FindsFinite
<1>4. n + 1 \notin old /\ n + 1 \notin oldWide
  <2>1. n \in Nat
    BY LenProperties
  <2>2. old \subseteq 1 .. n /\ oldWide \subseteq 1 .. n
    BY DEF FindsOf, WideOf
  <2> HIDE DEF n, old, oldWide
  <2> QED BY <2>1, <2>2
<1> HIDE DEF old, new, oldWide, newWide, n
<1>5. CASE r \in counted /\ key[r] = k
  <2> DEFINE tally == [count |-> Tally(h, k).count + 1,
                       count16 |-> Tally(h, k).count16 + (IF r \in wide THEN 1 ELSE 0)]
  <2>1. DOMAIN g = DOMAIN h \cup {k} /\ g[k] = tally
    BY <1>5 DEF AddedTo
  <2>2. Tally(g, k) = tally
    BY <2>1 DEF Tally
  <2>3. tally.count = Cardinality(old) + 1
        /\ tally.count16 = Cardinality(oldWide) + (IF r \in wide THEN 1 ELSE 0)
    BY <1>2
  <2> HIDE DEF tally
  <2>4. new = old \cup {n + 1} /\ new # {} /\ Cardinality(new) = Cardinality(old) + 1
    BY <1>1, <1>3, <1>4, <1>5, FS_AddElement
  <2>5. Cardinality(newWide) = Cardinality(oldWide) + (IF r \in wide THEN 1 ELSE 0)
    <3>1. CASE r \in wide
      BY <1>1, <1>3, <1>4, <1>5, <3>1, FS_AddElement
    <3>2. CASE r \notin wide
      BY <1>1, <1>3, <3>2
    <3> QED BY <3>1, <3>2
  <2> QED BY <2>1, <2>2, <2>3, <2>4, <2>5 DEF new, newWide
<1>6. CASE ~(r \in counted /\ key[r] = k)
  <2>1. new = old /\ newWide = oldWide
    BY <1>1, <1>6
  <2>2. (k \in DOMAIN g <=> k \in DOMAIN h) /\ Tally(g, k) = Tally(h, k)
    <3>1. CASE r \notin counted
      BY <3>1
    <3>2. CASE r \in counted /\ key[r] # k
      <4>1. DOMAIN g = DOMAIN h \cup {key[r]}
        BY <3>2 DEF AddedTo
      <4>2. k \in DOMAIN h => g[k] = h[k]
        BY <3>2 DEF AddedTo
      <4> QED BY <3>2, <4>1, <4>2 DEF Tally
    <3> QED BY <1>6, <3>1, <3>2
  <2> QED BY <1>2, <2>1, <2>2 DEF new, newWide
<1> QED BY <1>5, <1>6

(* The finds that are counted, their keys, and those of UTF-16.            *)
CountedFinds == {r \in Finds : ~HistogramThrows(r.feature) /\ Match(UTF8Of(r.feature), r.context)}
Keys == [r \in Finds |-> Key(UTF8Of(r.feature))]
WideFinds == {r \in Finds : IsUTF16(r.feature)}

HistogramHolds == setup.incremental => Tallied(Keys, CountedFinds, WideFinds, raw, histogram)

LEMMA SameFinds ==
  ASSUME setup' = setup
  PROVE  Keys' = Keys /\ CountedFinds' = CountedFinds /\ WideFinds' = WideFinds
<1>1. ASSUME NEW r
      PROVE  Key(UTF8Of(r.feature))' = Key(UTF8Of(r.feature))
  BY DEF Key, Text, UTF8Of, IsUTF16
<1>2. Keys' = Keys
  BY <1>1 DEF Keys
<1>3. ASSUME NEW r
      PROVE  /\ HistogramThrows(r.feature)' <=> HistogramThrows(r.feature)
             /\ Match(UTF8Of(r.feature), r.context)' <=> Match(UTF8Of(r.feature), r.context)
  BY DEF HistogramThrows, Match, Text, UTF8Of, IsUTF16
<1>4. CountedFinds' = CountedFinds
  BY <1>3 DEF CountedFinds
<1>5. WideFinds' = WideFinds
  BY DEF WideFinds, IsUTF16
<1> QED BY <1>2, <1>4, <1>5

LEMMA AddIs ==
  ASSUME setup.incremental, NEW r \in Finds, ~HistogramThrows(r.feature), NEW h, NEW g,
         g = add_feature_context(h, r.feature, r.context)
  PROVE  /\ r \notin CountedFinds => g = h
         /\ r \in CountedFinds => g = AddedTo(Keys, WideFinds, h, r)
<1> DEFINE f == r.feature
           c == r.context
           u == UTF8Of(f)
           order == looks_like_utf16(f)
<1>1. r \in Finds /\ r.feature = f /\ r.context = c
  OBVIOUS
<1> HIDE DEF f, c
<1>0. g = add_feature_context(h, f, c) /\ ~HistogramThrows(f)
  BY DEF f, c
<1>2. Keys[r] = Key(u) /\ (r \in WideFinds <=> order # "none")
  BY <1>1 DEF Keys, WideFinds, IsUTF16
<1>3. r \in CountedFinds <=> Match(u, c)
  BY <1>1 DEF CountedFinds
<1>4. g = add0(h, u, c, order # "none")
  <2>1. CASE order = "none"
    <3>1. u = f
      BY <2>1 DEF UTF8Of, IsUTF16
    <3> QED BY <1>0, <2>1, <3>1 DEF add_feature_context
  <2>2. CASE order # "none"
    <3>1. ~ConvertThrows(f, order)
      BY <1>0, <2>2 DEF HistogramThrows
    <3>2. u = convert_utf16_to_utf8(f, order)
      BY <2>2, <3>1 DEF UTF8Of, IsUTF16, make_utf8
    <3> QED BY <1>0, <2>2, <3>2 DEF add_feature_context
  <2> QED BY <2>1, <2>2
<1> DEFINE k0 == Key(u)
<1>5. g = IF ~Match(u, c) THEN h
          ELSE [k \in DOMAIN h \cup {k0} |->
                  IF k # k0 THEN h[k]
                  ELSE [count |-> Tally(h, k0).count + 1,
                        count16 |-> Tally(h, k0).count16 + (IF order # "none" THEN 1 ELSE 0)]]
  BY <1>4 DEF add0
<1> HIDE DEF k0, u, order
<1>6. Keys[r] = k0
  BY <1>2 DEF k0
<1>7. (IF order # "none" THEN 1 ELSE 0) = IF r \in WideFinds THEN 1 ELSE 0
  BY <1>2
<1> QED BY <1>3, <1>5, <1>6, <1>7 DEF AddedTo

LEMMA InitTallied == Init => HistogramHolds
<1> SUFFICES ASSUME Init PROVE HistogramHolds
  OBVIOUS
<1> DEFINE e == <<>>
<1>1. raw = e /\ histogram = e /\ DOMAIN e = {} /\ Len(e) = 0 /\ 1 .. 0 = {}
  BY DEF Init
<1> HIDE DEF e
<1>2. ASSUME NEW key, NEW counted, NEW wide
      PROVE  Tallied(key, counted, wide, e, e)
  <2>1. ASSUME NEW k
        PROVE  FindsOf(key, counted, e, k) = {} /\ WideOf(key, counted, wide, e, k) = {}
    BY <1>1 DEF FindsOf, WideOf
  <2>2. Cardinality({}) = 0
    BY FS_EmptySet
  <2> QED BY <1>1, <2>1, <2>2 DEF Tallied, Tally
<1> QED BY <1>1, <1>2 DEF HistogramHolds

LEMMA StepTallied == Typed /\ HistogramHolds /\ [Next]_vars => HistogramHolds'
<1> SUFFICES ASSUME Typed, HistogramHolds, [Next]_vars, setup'.incremental PROVE HistogramHolds'
  BY DEF HistogramHolds
<1> DEFINE f == Feature(Hit.pos, Hit.len)
           c == Context(Hit.pos, Hit.len)
           r == [feature |-> f, context |-> c]
<1>1. setup' = setup /\ setup.incremental
  BY DEF Next, vars, NextPage, SkipScanner, FindNothing, WriteNothing, WriteFeature, ThrowOutside,
         ThrowBeforeLine, ThrowAfterLine, Alert, ScannerReturns, Shutdown, ShutdownThrows, Done
<1>2. Keys' = Keys /\ CountedFinds' = CountedFinds /\ WideFinds' = WideFinds
  BY <1>1, SameFinds
<1>3. Tallied(Keys, CountedFinds, WideFinds, raw, histogram) /\ raw \in Seq(Finds)
  BY <1>1 DEF HistogramHolds, Typed, LinesTyped
<1>4. CASE UNCHANGED <<raw, histogram>>
  BY <1>1, <1>2, <1>3, <1>4 DEF HistogramHolds
<1>5. CASE WriteFeature \/ ThrowAfterLine
  <2>1. f \in Seq(Bytes) /\ c \in Seq(Bytes) /\ raw' = Append(raw, r)
    BY <1>5, FeatureType DEF WriteFeature, ThrowAfterLine, WriteLine, InPage, Found
  <2> HIDE DEF f, c
  <2>2. r \in Finds /\ r.feature = f
    BY <2>1 DEF Finds
  <2>3. CASE WriteFeature
    <3>1. histogram' = add_feature_context(histogram, f, c) /\ ~HistogramThrows(f)
      BY <2>3 DEF WriteFeature, f, c
    <3> DEFINE h == histogram
               g == add_feature_context(histogram, f, c)
    <3>2. r.context = c
      OBVIOUS
    <3>3. g = add_feature_context(h, r.feature, r.context) /\ ~HistogramThrows(r.feature)
      <4> HIDE DEF r
      <4> QED BY <2>2, <3>1, <3>2
    <3> HIDE DEF r, h, g
    <3>4. /\ r \notin CountedFinds => g = h
          /\ r \in CountedFinds => g = AddedTo(Keys, WideFinds, h, r)
      BY <1>1, <2>2, <3>3, AddIs
    <3>5. Tallied(Keys, CountedFinds, WideFinds, Append(raw, r), g)
      BY <1>3, <2>2, <3>4, TalliedNext DEF h
    <3> QED BY <1>2, <2>1, <3>1, <3>5 DEF HistogramHolds, g, h
  <2>4. CASE ThrowAfterLine
    <3>1. histogram' = histogram /\ HistogramThrows(f)
      BY <2>4 DEF ThrowAfterLine, f
    <3>2. r \notin CountedFinds
      BY <2>2, <3>1 DEF CountedFinds
    <3> HIDE DEF r
    <3>3. Tallied(Keys, CountedFinds, WideFinds, Append(raw, r), histogram)
      BY <1>3, <2>2, <3>2, TalliedNext
    <3> QED BY <1>2, <2>1, <3>1, <3>3 DEF HistogramHolds
  <2> QED BY <1>5, <2>3, <2>4
<1>6. CASE Shutdown
  <2>1. UNCHANGED <<raw, histogram>>
    BY <1>1, <1>6 DEF Shutdown, Report
  <2> QED BY <1>4, <2>1
<1>7. CASE NextPage \/ SkipScanner \/ FindNothing \/ WriteNothing \/ ThrowOutside
           \/ ThrowBeforeLine \/ ShutdownThrows \/ Done \/ UNCHANGED vars
  <2>1. UNCHANGED <<raw, histogram>>
    BY <1>7 DEF NextPage, SkipScanner, FindNothing, WriteNothing, ThrowOutside,
                ThrowBeforeLine, ShutdownThrows, Done, vars
  <2> QED BY <1>4, <2>1
<1> QED BY <1>5, <1>6, <1>7 DEF Next

(* The key of a text leads back to it.                                     *)
KeyOf(text) == validateOrEscapeUTF8(text, TRUE, TRUE, FALSE)

LEMMA KeyBack ==
  ASSUME NEW text \in Seq(Bytes)
  PROVE  unquote_string(KeyOf(text)) = text /\ KeyOf(text) \in Seq(Printable)
<1>1. unquote_string(KeyOf(text)) = text
  BY QuotesComeOff DEF KeyOf
<1>2. KeyOf(text) = Made(text, TRUE, Len(text))
  BY MadeAll DEF KeyOf
<1> QED BY <1>1, <1>2, MadePrintable

LEMMA TextType ==
  ASSUME NEW s \in Seq(Bytes)
  PROVE  Text(s) \in Seq(Bytes)
<1> DEFINE lower == IF setup.lowercase THEN Lowercase(s) ELSE s
<1>1. lower \in Seq(Bytes)
  <2>1. Len(s) \in Nat /\ \A i \in 1 .. Len(s) : s[i] \in Bytes
    BY LenProperties, ElementOfSeq
  <2>2. ASSUME NEW i \in 1 .. Len(s)
        PROVE  (IF s[i] \in 65 .. 90 THEN s[i] + 32 ELSE s[i]) \in Bytes
    <3> DEFINE b == s[i]
    <3>1. b \in Bytes
      BY <2>1
    <3> HIDE DEF b
    <3>2. (IF b \in 65 .. 90 THEN b + 32 ELSE b) \in Bytes
      BY <3>1 DEF Bytes
    <3> QED BY <3>2 DEF b
  <2>3. Lowercase(s) \in [1 .. Len(s) -> Bytes]
    BY <2>2 DEF Lowercase
  <2>4. Lowercase(s) \in Seq(Bytes)
    BY <2>1, <2>3, SeqOfFunction
  <2> QED BY <2>4
<1>2. Text(s) = IF setup.numeric THEN SelectIn(lower, 48 .. 57) ELSE lower
  BY DEF Text, ExtractNumeric
<1> HIDE DEF lower
<1>3. SelectIn(lower, 48 .. 57) \in Seq(Bytes)
  <2> DEFINE digits == 48 .. 57
             T == digits \cap Bytes
             r == SelectIn(lower, digits)
  <2> HIDE DEF digits
  <2>1. r \in Seq(T)
    BY <1>1, SelectType
  <2>2. \A b \in T : b \in Bytes
    OBVIOUS
  <2> HIDE DEF T, r
  <2>3. Len(r) \in Nat /\ r \in [1 .. Len(r) -> Bytes]
    <3>1. Len(r) \in Nat /\ r \in [1 .. Len(r) -> T]
      BY <2>1, LenProperties
    <3> QED BY <2>2, <3>1
  <2>4. r \in Seq(Bytes)
    BY <2>3, SeqOfFunction
  <2> QED BY <2>4 DEF r, digits
<1> QED BY <1>1, <1>2, <1>3

LEMMA CountedIs ==
  ASSUME Typed, setup.incremental, NEW i \in Written
  PROVE  /\ raw[i] \in Finds /\ TextOf(i) \in Seq(Bytes)
         /\ Keys[raw[i]] = KeyOf(TextOf(i))
         /\ raw[i] \in CountedFinds <=> IsCounted(i)
         /\ raw[i] \in WideFinds <=> IsUTF16(raw[i].feature)
<1> DEFINE r == raw[i]
           u == UTF8Of(r.feature)
<1>1. r \in Finds
  <2>1. raw \in Seq(Finds) /\ Len(raw) = Len(file)
    BY DEF Typed, LinesTyped
  <2>2. i \in 1 .. Len(raw)
    BY <2>1 DEF Written
  <2> QED BY <2>1, <2>2, ElementOfSeq
<1>2. r.feature \in Seq(Bytes) /\ u \in Seq(Bytes)
  <2>1. r.feature \in Seq(Bytes)
    BY <1>1 DEF Finds
  <2>2. make_utf8(r.feature) \in Seq(Bytes)
    BY <2>1, MadeBytes
  <2> QED BY <2>1, <2>2 DEF UTF8Of
<1>3. TextOf(i) = Text(u)
  BY DEF TextOf, Text, ExtractNumeric
<1> HIDE DEF r, u
<1>4. TextOf(i) \in Seq(Bytes)
  BY <1>2, <1>3, TextType
<1>5. Keys[r] = KeyOf(TextOf(i))
  <2>1. Keys[r] = Key(u)
    BY <1>1 DEF Keys, u
  <2> QED BY <1>3, <2>1 DEF Key, KeyOf
<1>6. r \in CountedFinds <=> IsCounted(i)
  <2>1. r \in CountedFinds <=> ~HistogramThrows(r.feature) /\ Match(u, r.context)
    BY <1>1 DEF CountedFinds, u
  <2>2. IsCounted(i) <=> ~HistogramThrows(r.feature) /\ Match(u, r.context)
    BY <1>3 DEF IsCounted, Match, r
  <2> QED BY <2>1, <2>2
<1>7. r \in WideFinds <=> IsUTF16(r.feature)
  BY <1>1 DEF WideFinds
<1> QED BY <1>1, <1>4, <1>5, <1>6, <1>7 DEF r

(* Keys that are different have different texts.                           *)
LEMMA TalliedAgree ==
  ASSUME Typed, HistogramHolds, setup.incremental
  PROVE  HistogramsAgree
<1> DEFINE Counted(t) == {i \in Written : IsCounted(i) /\ TextOf(i) = t}
           Of(k) == FindsOf(Keys, CountedFinds, raw, k)
<1>1. Tallied(Keys, CountedFinds, WideFinds, raw, histogram) /\ 1 .. Len(raw) = Written
  BY DEF HistogramHolds, Typed, LinesTyped, Written
<1>2. \A k : KeyText(k) = unquote_string(k)
  BY UnquoteOnceTwice DEF KeyText
<1>3. \A i \in Written : /\ TextOf(i) \in Seq(Bytes)
                         /\ Keys[raw[i]] = KeyOf(TextOf(i))
                         /\ raw[i] \in CountedFinds <=> IsCounted(i)
                         /\ raw[i] \in WideFinds <=> IsUTF16(raw[i].feature)
  BY CountedIs
<1>4. ASSUME NEW k, NEW i \in Of(k)
      PROVE  /\ i \in Written /\ IsCounted(i) /\ KeyText(k) = TextOf(i)
             /\ k = KeyOf(TextOf(i)) /\ k \in Seq(Printable)
  <2>1. i \in Written /\ raw[i] \in CountedFinds /\ Keys[raw[i]] = k
    BY <1>1 DEF FindsOf
  <2>2. k = KeyOf(TextOf(i)) /\ IsCounted(i) /\ TextOf(i) \in Seq(Bytes)
    BY <1>3, <2>1
  <2>3. unquote_string(k) = TextOf(i) /\ k \in Seq(Printable)
    BY <2>2, KeyBack
  <2> QED BY <1>2, <2>1, <2>2, <2>3
<1>5. ASSUME NEW i \in Written, IsCounted(i)
      PROVE  i \in Of(KeyOf(TextOf(i)))
  BY <1>1, <1>3, <1>5 DEF FindsOf
<1>6. ASSUME NEW k, Of(k) # {}
      PROVE  Of(k) = Counted(KeyText(k))
  <2>1. PICK j : j \in Of(k)
    BY <1>6
  <2>2. KeyText(k) = TextOf(j) /\ k = KeyOf(TextOf(j))
    BY <1>4, <2>1
  <2>3. \A i \in Counted(KeyText(k)) : i \in Of(k)
    BY <1>5, <2>2
  <2>4. \A i \in Of(k) : i \in Counted(KeyText(k))
    BY <1>4
  <2> QED BY <2>3, <2>4
<1>7. ASSUME NEW k
      PROVE  /\ k \in DOMAIN histogram <=> Of(k) # {}
             /\ Tally(histogram, k).count = Cardinality(Of(k))
             /\ Tally(histogram, k).count16 = Cardinality({i \in Of(k) : raw[i] \in WideFinds})
  BY <1>1 DEF Tallied, WideOf
<1>8. {KeyText(k) : k \in DOMAIN histogram} = {TextOf(i) : i \in {j \in Written : IsCounted(j)}}
  <2>1. ASSUME NEW k \in DOMAIN histogram
        PROVE  \E i \in {j \in Written : IsCounted(j)} : KeyText(k) = TextOf(i)
    <3>1. PICK i : i \in Of(k)
      BY <1>7
    <3> QED BY <1>4, <3>1
  <2>2. ASSUME NEW i \in Written, IsCounted(i)
        PROVE  \E k \in DOMAIN histogram : KeyText(k) = TextOf(i)
    <3> DEFINE k == KeyOf(TextOf(i))
    <3>1. i \in Of(k)
      BY <1>5, <2>2
    <3> HIDE DEF k
    <3>2. k \in DOMAIN histogram /\ KeyText(k) = TextOf(i)
      BY <1>4, <1>7, <3>1
    <3> QED BY <3>2
  <2> QED BY <2>1, <2>2
<1>9. ASSUME NEW k \in DOMAIN histogram
      PROVE  /\ \A i \in DOMAIN k : k[i] >= 32
             /\ histogram[k].count = Cardinality(Counted(KeyText(k)))
             /\ histogram[k].count16 =
                  Cardinality({i \in Counted(KeyText(k)) : IsUTF16(raw[i].feature)})
  <2>1. Tally(histogram, k) = histogram[k]
    BY DEF Tally
  <2>2. PICK j : j \in Of(k)
    BY <1>7
  <2>3. Of(k) = Counted(KeyText(k))
    BY <1>6, <2>2
  <2>4. \A i \in Counted(KeyText(k)) : raw[i] \in WideFinds <=> IsUTF16(raw[i].feature)
    BY <1>3
  <2>5. k \in Seq(Printable)
    BY <1>4, <2>2
  <2>6. \A i \in DOMAIN k : k[i] >= 32
    <3> TAKE i \in DOMAIN k
    <3> DEFINE b == k[i]
    <3>1. b \in Printable
      BY <2>5, LenProperties, ElementOfSeq
    <3> HIDE DEF b
    <3>2. b >= 32
      BY <3>1 DEF Printable
    <3> QED BY <3>2 DEF b
  <2> HIDE DEF Of, Counted
  <2>7. {i \in Of(k) : raw[i] \in WideFinds} = {i \in Counted(KeyText(k)) : IsUTF16(raw[i].feature)}
    BY <2>3, <2>4
  <2> QED BY <1>7, <2>1, <2>3, <2>6, <2>7
<1> QED BY <1>8, <1>9 DEF HistogramsAgree

(* For every image, scanner and definition of a histogram: that in memory  *)
(* counts each text as often as there are lines of it, apart by whether it *)
(* was UTF-16, and each key leads back to its text.                        *)
THEOREM MemoryCounts ==
  Spec => [](setup.incremental => HistogramsAgree)
<1>1. Init => Typed /\ HistogramHolds
  BY InitTyped, InitTallied
<1>2. Typed /\ HistogramHolds /\ [Next]_vars => (Typed /\ HistogramHolds)'
  BY StepTyped, StepTallied
<1>3. Typed /\ HistogramHolds => (setup.incremental => HistogramsAgree)
  BY TalliedAgree
<1> QED BY <1>1, <1>2, <1>3, PTL DEF Spec

-----------------------------------------------------------------------------
(* The histogram from the file, which is a fold as readfile() is one.      *)
Tallying(lines, n, g) ==
    g = [s \in SUBSET (1 .. n) |->
           IF s = {} THEN <<>> ELSE add_line(g[s \ {Max(s)}], lines[Max(s)])]
TallyingOf(lines, n) == CHOOSE g : Tallying(lines, n, g)

LEMMA ReportIs ==
  ASSUME NEW T, file \in Seq(T), ~setup.incremental
  PROVE  Report = TallyingOf(file, Len(file))[1 .. Len(file)]
<1>1. DOMAIN file = 1 .. Len(file)
  BY LenProperties
<1>2. Report =
        (CHOOSE g : g = [s \in SUBSET DOMAIN file |->
           IF s = {} THEN <<>> ELSE add_line(g[s \ {Max(s)}], file[Max(s)])])[DOMAIN file]
  BY DEF Report, FoldLeft, MapThenFoldSet
<1> QED BY <1>1, <1>2 DEF TallyingOf, Tallying

LEMMA TallyingExists ==
  ASSUME NEW lines, NEW n \in Nat
  PROVE  Tallying(lines, n, TallyingOf(lines, n))
<1> DEFINE G == {m \in 0 .. n : \E g : Tallying(lines, m, g)}
<1>1. 0 \in G
  <2>1. SUBSET (1 .. 0) = {{}}
    OBVIOUS
  <2>2. Tallying(lines, 0, [s \in SUBSET (1 .. 0) |-> <<>>])
    BY <2>1 DEF Tallying
  <2> QED BY <2>2
<1>2. ASSUME NEW m \in 0 .. n - 1, m \in G
      PROVE  m + 1 \in G
  <2>1. PICK g : Tallying(lines, m, g)
    BY <1>2
  <2> DEFINE H(s) == IF m + 1 \in s THEN add_line(g[s \ {m + 1}], lines[m + 1]) ELSE g[s]
             h == [s \in SUBSET (1 .. m + 1) |-> H(s)]
  <2>2. ASSUME NEW s \in SUBSET (1 .. m)
        PROVE  s \in SUBSET (1 .. m + 1) /\ h[s] = g[s]
    <3>1. s \in SUBSET (1 .. m + 1) /\ m + 1 \notin s
      OBVIOUS
    <3> QED BY <3>1
  <2>3. ASSUME NEW s \in SUBSET (1 .. m + 1)
        PROVE  h[s] = IF s = {} THEN <<>> ELSE add_line(h[s \ {Max(s)}], lines[Max(s)])
    <3>1. CASE m + 1 \in s
      <4>1. Max(s) = m + 1
        <5>1. m + 1 \in Nat /\ s # {}
          BY <3>1
        <5>2. Max(s) \in s /\ \A y \in s : y <= Max(s)
          BY <5>1, LargestIn
        <5>3. Max(s) \in 1 .. m + 1
          BY <5>2
        <5>4. m + 1 <= Max(s)
          BY <3>1, <5>2
        <5> HIDE DEF h
        <5> QED BY <5>3, <5>4
      <4>2. s \ {m + 1} \in SUBSET (1 .. m)
        OBVIOUS
      <4>3. h[s \ {m + 1}] = g[s \ {m + 1}]
        <5> HIDE DEF h
        <5> QED BY <2>2, <4>2
      <4>4. h[s] = add_line(g[s \ {m + 1}], lines[m + 1])
        BY <3>1
      <4> HIDE DEF h
      <4> QED BY <3>1, <4>1, <4>3, <4>4
    <3>2. CASE m + 1 \notin s
      <4>1. s \in SUBSET (1 .. m)
        BY <3>2
      <4>2. h[s] = g[s]
        <5> HIDE DEF h
        <5> QED BY <2>2, <4>1
      <4>3. g[s] = IF s = {} THEN <<>> ELSE add_line(g[s \ {Max(s)}], lines[Max(s)])
        BY <2>1, <4>1 DEF Tallying
      <4>4. s \ {Max(s)} \in SUBSET (1 .. m)
        BY <4>1
      <4>5. h[s \ {Max(s)}] = g[s \ {Max(s)}]
        <5> HIDE DEF h
        <5> QED BY <2>2, <4>4
      <4> HIDE DEF h
      <4> QED BY <4>2, <4>3, <4>5
    <3> QED BY <3>1, <3>2
  <2>4. h = [s \in SUBSET (1 .. m + 1) |-> h[s]]
    OBVIOUS
  <2>5. Tallying(lines, m + 1, h)
    <3> HIDE DEF h
    <3> QED BY <2>3, <2>4 DEF Tallying
  <2>6. m + 1 \in 0 .. n
    OBVIOUS
  <2> HIDE DEF h
  <2> QED BY <2>5, <2>6
<1>3. \A m \in 0 .. n - 1 : m \in G => m + 1 \in G
  <2> HIDE DEF G
  <2> QED BY <1>2
<1>4. n \in G
  <2> HIDE DEF G
  <2> QED BY <1>1, <1>3, UpTo
<1> QED BY <1>4 DEF TallyingOf

(* The histogram after the first k lines.                                  *)
LEMMA TallyNext ==
  ASSUME NEW lines, NEW n \in Nat, NEW k \in 1 .. n
  PROVE  TallyingOf(lines, n)[1 .. k] = add_line(TallyingOf(lines, n)[1 .. k - 1], lines[k])
<1> DEFINE g == TallyingOf(lines, n)
           s == 1 .. k
<1>1. Tallying(lines, n, g)
  BY TallyingExists
<1>2. s \in SUBSET (1 .. n) /\ s # {} /\ k \in s
  OBVIOUS
<1>3. Max(s) = k
  <2>1. Max(s) \in s /\ \A y \in s : y <= Max(s)
    <3> HIDE DEF s
    <3> QED BY <1>2, LargestIn
  <2> QED BY <1>2, <2>1
<1>4. s \ {k} = 1 .. k - 1
  OBVIOUS
<1>5. g[s] = add_line(g[s \ {Max(s)}], lines[Max(s)])
  <2> HIDE DEF g, s
  <2> QED BY <1>1, <1>2 DEF Tallying
<1> HIDE DEF g
<1> QED BY <1>3, <1>4, <1>5 DEF g

LEMMA TallyNothing ==
  ASSUME NEW lines, NEW n \in Nat
  PROVE  TallyingOf(lines, n)[1 .. 0] = <<>>
<1>1. Tallying(lines, n, TallyingOf(lines, n))
  BY TallyingExists
<1>2. (1 .. 0) = {} /\ {} \in SUBSET (1 .. n)
  OBVIOUS
<1> QED BY <1>1, <1>2 DEF Tallying

(* The lines that are counted, and their keys.                             *)
LineKeys == [l \in LinesFor(setup) |-> Key(l[2])]
CountedLines == {l \in LinesFor(setup) : Len(l) = 3 /\ Match(l[2], unquote_string(l[3]))}
WideLines == {l \in LinesFor(setup) : ~ContainsString(unquote_string(l[3]), l[2])}

LEMMA AddLineIs ==
  ASSUME setup \in Setups, NEW l \in LinesFor(setup), NEW h
  PROVE  /\ l \notin CountedLines => add_line(h, l) = h
         /\ l \in CountedLines => add_line(h, l) = AddedTo(LineKeys, WideLines, h, l)
<1> DEFINE u == l[2]
           c == unquote_string(l[3])
           k0 == Key(u)
           wide == ~ContainsString(c, u)
<1>1. Len(l) \in {2, 3}
  BY DEF LinesFor
<1>2. HasFeatureAndContext(l) <=> Len(l) = 3
  BY <1>1 DEF HasFeatureAndContext
<1>3. add_line(h, l) = IF Len(l) = 3 THEN add0(h, u, c, wide) ELSE h
  BY <1>2 DEF add_line
<1>4. add0(h, u, c, wide) =
        IF ~Match(u, c) THEN h
        ELSE [k \in DOMAIN h \cup {k0} |->
                IF k # k0 THEN h[k]
                ELSE [count |-> Tally(h, k0).count + 1,
                      count16 |-> Tally(h, k0).count16 + (IF wide THEN 1 ELSE 0)]]
  BY DEF add0
<1>5. (l \in CountedLines <=> Len(l) = 3 /\ Match(u, c)) /\ (l \in WideLines <=> wide) /\ LineKeys[l] = k0
  BY DEF CountedLines, WideLines, LineKeys
<1> HIDE DEF u, c, k0, wide
<1>6. l \notin CountedLines => add_line(h, l) = h
  BY <1>3, <1>4, <1>5
<1>7. l \in CountedLines => add_line(h, l) = AddedTo(LineKeys, WideLines, h, l)
  BY <1>3, <1>4, <1>5 DEF AddedTo
<1> QED BY <1>6, <1>7

LEMMA ReportTallied ==
  ASSUME Typed, ~setup.incremental
  PROVE  Tallied(LineKeys, CountedLines, WideLines, file, Report)
<1> DEFINE n == Len(file)
           g == TallyingOf(file, n)
           T == LinesFor(setup)
           front(k) == SubSeq(file, 1, k)
           G == {k \in 0 .. n : Tallied(LineKeys, CountedLines, WideLines, front(k), g[1 .. k])}
<1>1. file \in Seq(T) /\ n \in Nat /\ setup \in Setups
  <2>1. file \in Seq(T)
    BY DEF Typed, LinesTyped
  <2> QED BY <2>1, LenProperties DEF Typed, ImageTyped
<1>2. 0 \in G
  <2>1. front(0) = <<>> /\ g[1 .. 0] = <<>>
    BY <1>1, TallyNothing
  <2> DEFINE key == LineKeys
             counted == CountedLines
             wide == WideLines
             e == front(0)
  <2>2. e = <<>> /\ Len(e) = 0 /\ \A i \in 1 .. 0 : FALSE
    BY <2>1
  <2> HIDE DEF key, counted, wide, e
  <2>3. \A k : FindsOf(key, counted, e, k) = {} /\ WideOf(key, counted, wide, e, k) = {}
    BY <2>2 DEF FindsOf, WideOf
  <2>4. Cardinality({}) = 0
    BY FS_EmptySet
  <2>5. Tallied(key, counted, wide, e, <<>>)
    BY <2>3, <2>4 DEF Tallied, Tally
  <2> QED BY <1>1, <2>1, <2>5 DEF key, counted, wide, e
<1>3. ASSUME NEW k \in 0 .. n - 1, k \in G
      PROVE  k + 1 \in G
  <2> DEFINE l == file[k + 1]
             h == g[1 .. k]
             j == g[1 .. k + 1]
             rs == front(k)
  <2>1. k + 1 \in 1 .. n /\ k \in Nat /\ (k + 1) - 1 = k
    BY <1>1
  <2>2. l \in T
    BY <1>1, <2>1, ElementOfSeq
  <2>3. j = add_line(h, l)
    BY <1>1, <2>1, TallyNext
  <2>4. rs \in Seq(T) /\ front(k + 1) = Append(rs, l)
    <3> HIDE DEF T
    <3> QED BY <1>1, <2>1
  <2>5. Tallied(LineKeys, CountedLines, WideLines, rs, h)
    BY <1>3
  <2> HIDE DEF l, h, j, rs
  <2>6. /\ l \notin CountedLines => j = h
        /\ l \in CountedLines => j = AddedTo(LineKeys, WideLines, h, l)
    BY <1>1, <2>2, <2>3, AddLineIs
  <2>7. Tallied(LineKeys, CountedLines, WideLines, Append(rs, l), j)
    <3> HIDE DEF T
    <3> QED BY <2>2, <2>4, <2>5, <2>6, TalliedNext
  <2>8. k + 1 \in 0 .. n
    BY <1>1
  <2> QED BY <2>4, <2>7, <2>8 DEF j
<1> HIDE DEF G
<1>4. n \in G
  BY <1>1, <1>2, <1>3, UpTo
<1>5. front(n) = file
  BY <1>1
<1>6. Report = g[1 .. n]
  BY <1>1, ReportIs
<1> QED BY <1>4, <1>5, <1>6 DEF G

-----------------------------------------------------------------------------
(* Lower case before and after escaping is the same: letters are in no     *)
(* escape and in no character of several bytes.                            *)
LowerByte(b) == IF b \in 65 .. 90 THEN b + 32 ELSE b

LEMMA LowerByteIs ==
  ASSUME NEW b \in Bytes
  PROVE  /\ LowerByte(b) \in Bytes
         /\ b < 65 \/ b > 90 => LowerByte(b) = b
         /\ LowerByte(b) < 128 <=> b < 128
         /\ LowerByte(b) >= 128 => b = LowerByte(b)
         /\ LowerByte(b) < 32 <=> b < 32
         /\ LowerByte(b) = BACKSLASH <=> b = BACKSLASH
BY DEF LowerByte, Bytes, BACKSLASH

LEMMA LowerIs ==
  ASSUME NEW s \in Seq(Bytes)
  PROVE  /\ Lowercase(s) \in Seq(Bytes) /\ Len(Lowercase(s)) = Len(s) /\ Len(s) \in Nat
         /\ \A i \in 1 .. Len(s) : s[i] \in Bytes /\ Lowercase(s)[i] = LowerByte(s[i])
<1>1. Len(s) \in Nat /\ \A i \in 1 .. Len(s) : s[i] \in Bytes
  BY LenProperties, ElementOfSeq
<1>2. Lowercase(s) = [i \in 1 .. Len(s) |-> LowerByte(s[i])]
  BY DEF Lowercase, LowerByte
<1>3. \A i \in 1 .. Len(s) : LowerByte(s[i]) \in Bytes
  BY <1>1, LowerByteIs
<1>4. Lowercase(s) \in [1 .. Len(s) -> Bytes]
  BY <1>2, <1>3
<1>5. Lowercase(s) \in Seq(Bytes) /\ Len(Lowercase(s)) = Len(s)
  BY <1>1, <1>4, SeqOfFunction
<1> QED BY <1>1, <1>2, <1>5

LEMMA LowerConcat ==
  ASSUME NEW a \in Seq(Bytes), NEW b \in Seq(Bytes)
  PROVE  Lowercase(a \o b) = Lowercase(a) \o Lowercase(b)
<1> DEFINE c == a \o b
           x == Lowercase(c)
           la == Lowercase(a)
           lb == Lowercase(b)
           y == la \o lb
           n == Len(a)
           m == Len(b)
<1>1. /\ c \in Seq(Bytes) /\ n \in Nat /\ m \in Nat /\ Len(c) = n + m
      /\ \A i \in 1 .. n : c[i] = a[i]
      /\ \A i \in n + 1 .. n + m : c[i] = b[i - n]
  BY ConcatHas
<1>2. /\ x \in Seq(Bytes) /\ Len(x) = n + m
      /\ \A i \in 1 .. n + m : x[i] = LowerByte(c[i])
  <2> HIDE DEF c, n, m
  <2>1. Len(x) = Len(c) /\ x \in Seq(Bytes) /\ \A i \in 1 .. Len(c) : x[i] = LowerByte(c[i])
    BY <1>1, LowerIs
  <2> QED BY <1>1, <2>1
<1>3. /\ la \in Seq(Bytes) /\ Len(la) = n /\ lb \in Seq(Bytes) /\ Len(lb) = m
      /\ \A i \in 1 .. n : la[i] = LowerByte(a[i])
      /\ \A i \in 1 .. m : lb[i] = LowerByte(b[i])
  BY LowerIs
<1> HIDE DEF c, x, la, lb
<1>4. /\ y \in Seq(Bytes) /\ Len(y) = n + m
      /\ \A i \in 1 .. n : y[i] = la[i]
      /\ \A i \in n + 1 .. n + m : y[i] = lb[i - n]
  <2>1. /\ y \in Seq(Bytes) /\ Len(y) = Len(la) + Len(lb)
        /\ \A i \in 1 .. Len(la) : y[i] = la[i]
        /\ \A i \in Len(la) + 1 .. Len(la) + Len(lb) : y[i] = lb[i - Len(la)]
    BY <1>3, ConcatHas
  <2> HIDE DEF y, n, m
  <2> QED BY <1>3, <2>1
<1> HIDE DEF y, n, m
<1>5. ASSUME NEW i \in 1 .. n + m
      PROVE  x[i] = y[i]
  <2>1. CASE i <= n
    <3>1. i \in 1 .. n
      BY <1>1, <2>1
    <3> QED BY <1>1, <1>2, <1>3, <1>4, <3>1
  <2>2. CASE i > n
    <3>1. i \in n + 1 .. n + m /\ i - n \in 1 .. m
      BY <1>1, <2>2
    <3> QED BY <1>1, <1>2, <1>3, <1>4, <3>1
  <2> QED BY <1>1, <2>1, <2>2
<1>6. x = y
  BY <1>2, <1>4, <1>5, SeqEqual
<1> QED BY <1>6 DEF x, y, c, la, lb

LEMMA SameLower ==
  ASSUME NEW s \in Seq(Bytes), NEW t \in Seq(Bytes), NEW i \in 1 .. Len(s), Len(t) = Len(s),
         ValidSize(s, i) > 0, ~(s[i] < 128), t[i] = s[i],
         \A j \in 1 .. Len(s) : ~(s[j] < 128) => t[j] = s[j]
  PROVE  ValidSize(t, i) = ValidSize(s, i)
<1> DEFINE n == ValidSize(s, i)
<1>1. n \in 0 .. 4 /\ i + n - 1 <= Len(s) /\ \A k \in 1 .. n - 1 : utf8cont(s[i + k])
  BY SizeIs
<1>2. Len(s) \in Nat /\ i \in Nat /\ i \in 1 .. Len(t)
  BY LenProperties
<1>3. ASSUME NEW k \in 0 .. n - 1
      PROVE  t[i + k] = s[i + k]
  <2>1. CASE k = 0
    <3>1. i + k = i
      BY <1>2, <2>1
    <3> QED BY <3>1
  <2>2. CASE k # 0
    <3> DEFINE j == i + k
    <3> HIDE DEF n
    <3>1. k \in 1 .. n - 1 /\ j \in 1 .. Len(s)
      BY <1>1, <1>2, <2>2
    <3>2. s[j] \in 128 .. 191
      BY <1>1, <3>1 DEF utf8cont
    <3> DEFINE b == s[j]
    <3>3. b \in 128 .. 191
      BY <3>2
    <3> HIDE DEF b
    <3>4. ~(b < 128)
      BY <3>3
    <3> HIDE DEF j
    <3>5. t[j] = s[j]
      BY <3>1, <3>4 DEF b
    <3> QED BY <3>5 DEF j
  <2> QED BY <2>1, <2>2
<1>4. i + n - 1 <= Len(t)
  BY <1>1
<1> QED BY <1>2, <1>3, <1>4, SameSize

LEMMA LowerSize ==
  ASSUME NEW s \in Seq(Bytes), NEW i \in 1 .. Len(s)
  PROVE  ValidSize(Lowercase(s), i) = ValidSize(s, i)
<1> DEFINE t == Lowercase(s)
<1>1. /\ t \in Seq(Bytes) /\ Len(t) = Len(s) /\ i \in 1 .. Len(t)
      /\ \A j \in 1 .. Len(s) : s[j] \in Bytes /\ t[j] = LowerByte(s[j])
  BY LowerIs
<1> HIDE DEF t
<1>2. \A j \in 1 .. Len(s) : /\ ~(s[j] < 128) => t[j] = s[j]
                             /\ ~(t[j] < 128) => s[j] = t[j]
                             /\ s[j] < 128 <=> t[j] < 128
  <2> TAKE j \in 1 .. Len(s)
  <2> DEFINE b == s[j]
             c == LowerByte(b)
  <2>1. b \in Bytes
    BY <1>1
  <2> HIDE DEF b
  <2>2. (c < 128 <=> b < 128) /\ (c >= 128 => b = c) /\ c \in Bytes
    BY <2>1, LowerByteIs
  <2> HIDE DEF c
  <2>3. ~(b < 128) => c = b
    BY <2>1, <2>2 DEF Bytes
  <2>4. t[j] = c
    BY <1>1 DEF b, c
  <2> QED BY <2>2, <2>3, <2>4 DEF b
<1>3. ValidSize(s, i) \in 0 .. 4 /\ ValidSize(t, i) \in 0 .. 4
  BY <1>1, SizeIs
<1>4. CASE s[i] < 128
  <2>1. ValidSize(s, i) = 1 /\ ValidSize(t, i) = 1
    BY <1>1, <1>2, <1>4, SizeIs
  <2> QED BY <2>1 DEF t
<1>5. CASE ~(s[i] < 128)
  <2>0. t[i] = s[i] /\ ~(t[i] < 128)
    BY <1>2, <1>5
  <2>1. CASE ValidSize(s, i) > 0
    <3>1. ValidSize(t, i) = ValidSize(s, i)
      BY <1>1, <1>2, <1>5, <2>0, <2>1, SameLower
    <3> QED BY <3>1 DEF t
  <2>2. CASE ValidSize(t, i) > 0
    <3>1. \A j \in 1 .. Len(t) : ~(t[j] < 128) => s[j] = t[j]
      BY <1>1, <1>2
    <3>2. s \in Seq(Bytes) /\ t \in Seq(Bytes) /\ i \in 1 .. Len(t) /\ Len(s) = Len(t) /\ s[i] = t[i]
      BY <1>1, <2>0
    <3>3. ValidSize(s, i) = ValidSize(t, i)
      BY <2>0, <2>2, <3>1, <3>2, SameLower
    <3> QED BY <3>3 DEF t
  <2>3. CASE ~(ValidSize(s, i) > 0) /\ ~(ValidSize(t, i) > 0)
    <3>1. ValidSize(s, i) = ValidSize(t, i)
      BY <1>3, <2>3
    <3> QED BY <3>1 DEF t
  <2> QED BY <2>1, <2>2, <2>3
<1> QED BY <1>4, <1>5

LEMMA LowerStarts ==
  ASSUME NEW s \in Seq(Bytes)
  PROVE  Starts(Lowercase(s)) = Starts(s)
<1> DEFINE t == Lowercase(s)
<1>1. t \in Seq(Bytes) /\ Len(t) = Len(s) /\ Len(s) \in Nat
  BY LowerIs
<1>2. \A i \in 1 .. Len(s) : ValidSize(t, i) = ValidSize(s, i)
  BY LowerSize
<1> HIDE DEF t
<1>3. DOMAIN s = 1 .. Len(s) /\ DOMAIN t = 1 .. Len(s)
  BY <1>1, LenProperties
<1>4. ASSUME NEW i \in 1 .. Len(s)
      PROVE  (\A j \in 1 .. i - 1 : j + ValidSize(t, j) <= i) <=> (\A j \in 1 .. i - 1 : j + ValidSize(s, j) <= i)
  <2>1. \A j \in 1 .. i - 1 : j \in 1 .. Len(s)
    BY <1>1
  <2> QED BY <1>2, <2>1
<1>5. Starts(t) = {i \in 1 .. Len(s) : \A j \in 1 .. i - 1 : j + ValidSize(t, j) <= i}
  BY <1>3 DEF Starts
<1>6. Starts(s) = {i \in 1 .. Len(s) : \A j \in 1 .. i - 1 : j + ValidSize(s, j) <= i}
  BY <1>3 DEF Starts
<1> QED BY <1>4, <1>5, <1>6 DEF t

LEMMA LowerOctal ==
  ASSUME NEW b \in Bytes
  PROVE  Lowercase(octal_escape(b)) = octal_escape(b)
<1> DEFINE e == octal_escape(b)
           t == Lowercase(e)
<1>1. /\ e \in Seq(Bytes) /\ Len(e) = 4 /\ e[1] = BACKSLASH
      /\ \A k \in 1 .. 3 : IsOctalDigit(e[1 + k])
  BY OctalEscape
<1> HIDE DEF e
<1>2. t \in Seq(Bytes) /\ Len(t) = Len(e) /\ \A i \in 1 .. Len(e) : e[i] \in Bytes /\ t[i] = LowerByte(e[i])
  BY <1>1, LowerIs
<1> HIDE DEF t
<1>3. ASSUME NEW i \in 1 .. Len(e)
      PROVE  t[i] = e[i]
  <2> DEFINE c == e[i]
  <2>1. c = 92 \/ c \in 48 .. 55
    <3>1. CASE i = 1
      BY <1>1, <3>1 DEF BACKSLASH
    <3>2. CASE i # 1
      <4> DEFINE k == i - 1
      <4>1. k \in 1 .. 3 /\ 1 + k = i
        BY <1>1, <3>2
      <4> HIDE DEF k
      <4>2. IsOctalDigit(e[1 + k])
        BY <1>1, <4>1
      <4> QED BY <4>1, <4>2 DEF IsOctalDigit
    <3> QED BY <3>1, <3>2
  <2>2. t[i] = LowerByte(c) /\ c \in Bytes
    BY <1>2
  <2> HIDE DEF c
  <2>3. LowerByte(c) = c
    <3>1. c < 65 \/ c > 90
      BY <2>1
    <3> QED BY <2>2, <3>1, LowerByteIs
  <2> QED BY <2>2, <2>3 DEF c
<1>4. t = e
  BY <1>1, <1>2, <1>3, SeqEqual
<1> QED BY <1>4 DEF t, e

LEMMA LowerPiece ==
  ASSUME NEW s \in Seq(Bytes), NEW i \in 1 .. Len(s), NEW backslash \in BOOLEAN
  PROVE  Piece(Lowercase(s), i, backslash) = Lowercase(Piece(s, i, backslash))
<1> DEFINE t == Lowercase(s)
           b == s[i]
           v == ValidSize(s, i)
           w == SubSeq(s, i, i + v - 1)
           x == SubSeq(t, i, i + v - 1)
           escaped == b < 32 \/ (b = BACKSLASH /\ backslash) \/ v = 0
<1>1. /\ t \in Seq(Bytes) /\ Len(t) = Len(s) /\ b \in Bytes /\ t[i] = LowerByte(b)
      /\ \A j \in 1 .. Len(s) : t[j] = LowerByte(s[j])
  BY LowerIs
<1>2. ValidSize(t, i) = v
  BY LowerSize
<1> HIDE DEF t
<1>3. (t[i] < 32 <=> b < 32) /\ (t[i] = BACKSLASH <=> b = BACKSLASH)
  <2> HIDE DEF b
  <2> QED BY <1>1, LowerByteIs
<1>4. /\ Piece(s, i, backslash) = IF escaped THEN octal_escape(b) ELSE w
      /\ Piece(t, i, backslash) = IF escaped THEN octal_escape(t[i]) ELSE x
  BY <1>2, <1>3 DEF Piece
<1>5. CASE escaped
  <2>1. t[i] = b
    <3>1. b < 128 => v = 1
      BY SizeIs
    <3> HIDE DEF b, v
    <3>2. b < 65 \/ b > 90
      BY <1>1, <1>5, <3>1 DEF Bytes, BACKSLASH
    <3> QED BY <1>1, <3>2, LowerByteIs
  <2>2. Lowercase(octal_escape(b)) = octal_escape(b)
    BY <1>1, LowerOctal
  <2> QED BY <1>4, <1>5, <2>1, <2>2 DEF t
<1>6. CASE ~escaped
  <2>1. v = Reach(s, i) /\ v \in 1 .. 4
    BY <1>6, ReachIs DEF Reach
  <2>2. /\ w \in Seq(Bytes) /\ Len(w) = v
        /\ \A k \in 1 .. v : w[k] = s[i + k - 1] /\ i + k - 1 \in 1 .. Len(s)
    BY <2>1, ReachIs
  <2>3. v = Reach(t, i) /\ i \in 1 .. Len(t)
    BY <1>1, <1>2, <2>1 DEF Reach
  <2>4. /\ x \in Seq(Bytes) /\ Len(x) = v
        /\ \A k \in 1 .. v : x[k] = t[i + k - 1]
    <3> DEFINE m == Reach(t, i)
               y == SubSeq(t, i, i + m - 1)
    <3>1. t \in Seq(Bytes) /\ i \in 1 .. Len(t)
      BY <1>1, <2>3
    <3>2. y \in Seq(Bytes) /\ Len(y) = m /\ \A k \in 1 .. m : y[k] = t[i + k - 1]
      BY ONLY <3>1, ReachIs
    <3>3. v = m /\ y = x
      BY <2>3
    <3> HIDE DEF m, y, v, x
    <3> QED BY <3>2, <3>3
  <2> HIDE DEF v, w, x
  <2>5. /\ Lowercase(w) \in Seq(Bytes) /\ Len(Lowercase(w)) = v
        /\ \A k \in 1 .. v : Lowercase(w)[k] = LowerByte(w[k])
    BY <2>2, LowerIs
  <2>6. \A k \in 1 .. v : Lowercase(w)[k] = x[k]
    BY <1>1, <2>2, <2>4, <2>5
  <2>7. Lowercase(w) = x
    BY <2>4, <2>5, <2>6, SeqEqual
  <2> QED BY <1>4, <1>6, <2>7 DEF t
<1> QED BY <1>5, <1>6

LEMMA LowerMade ==
  ASSUME NEW s \in Seq(Bytes), NEW backslash \in BOOLEAN
  PROVE  Lowercase(Made(s, backslash, Len(s))) = Made(Lowercase(s), backslash, Len(s))
<1> DEFINE t == Lowercase(s)
           m(k) == Made(s, backslash, k)
           n(k) == Made(t, backslash, k)
           M(k) == m(k) \in Seq(Bytes) /\ Lowercase(m(k)) = n(k)
           G == {k \in 0 .. Len(s) : M(k)}
<1>1. Len(s) \in Nat /\ t \in Seq(Bytes) /\ Len(t) = Len(s) /\ Starts(t) = Starts(s)
  BY LowerIs, LowerStarts
<1>2. M(0)
  <2>1. m(0) = <<>> /\ n(0) = <<>>
    BY <1>1, MadeNothing
  <2>2. <<>> \in Seq(Bytes) /\ Len(<<>>) = 0
    OBVIOUS
  <2> DEFINE x == Lowercase(<<>>)
  <2>3. x \in Seq(Bytes) /\ Len(x) = 0
    BY <2>2, LowerIs
  <2> HIDE DEF x
  <2>4. x = <<>>
    BY <2>3, EmptySeq
  <2> QED BY <2>1, <2>2, <2>4 DEF x
<1>3. ASSUME NEW k \in 0 .. Len(s) - 1, M(k)
      PROVE  M(k + 1)
  <2> DEFINE i == k + 1
             a == m(k)
             x == Pieces(s, backslash)[i]
             y == Pieces(t, backslash)[i]
  <2>1. i \in 1 .. Len(s) /\ i \in 1 .. Len(t)
    BY <1>1
  <2>2. m(i) = a \o x
    BY MadeStep
  <2>3. n(i) = n(k) \o y
    <3> HIDE DEF t
    <3> QED BY <1>1, MadeStep
  <2>4. a \in Seq(Bytes) /\ Lowercase(a) = n(k)
    BY <1>3
  <2>5. x \in Seq(Bytes) /\ y = Lowercase(x)
    <3>1. x = IF i \in Starts(s) THEN Piece(s, i, backslash) ELSE <<>>
      <4> HIDE DEF i
      <4> QED BY <2>1, PiecesType
    <3>2. y = IF i \in Starts(s) THEN Piece(t, i, backslash) ELSE <<>>
      <4> HIDE DEF i, t
      <4> QED BY <1>1, <2>1, PiecesType
    <3>3. CASE i \in Starts(s)
      <4>1. Piece(t, i, backslash) = Lowercase(Piece(s, i, backslash))
        <5> HIDE DEF i
        <5> QED BY <2>1, LowerPiece
      <4>2. Piece(s, i, backslash) \in Seq(Bytes)
        <5> HIDE DEF i
        <5> QED BY <2>1, PieceBytes
      <4> HIDE DEF x, y
      <4> QED BY <3>1, <3>2, <3>3, <4>1, <4>2
    <3>4. CASE i \notin Starts(s)
      <4>1. x = <<>> /\ y = <<>>
        BY <3>1, <3>2, <3>4
      <4>2. <<>> \in Seq(Bytes) /\ Len(<<>>) = 0
        OBVIOUS
      <4> DEFINE z == Lowercase(<<>>)
      <4>3. z \in Seq(Bytes) /\ Len(z) = 0
        BY <4>2, LowerIs
      <4> HIDE DEF z
      <4>4. z = <<>>
        BY <4>3, EmptySeq
      <4> HIDE DEF x, y
      <4> QED BY <4>1, <4>2, <4>4 DEF z
    <3> QED BY <3>3, <3>4
  <2> HIDE DEF a, x, y, m, n
  <2>6. a \o x \in Seq(Bytes)
    BY <2>4, <2>5, ConcatHas
  <2>7. Lowercase(a \o x) = Lowercase(a) \o Lowercase(x)
    BY <2>4, <2>5, LowerConcat
  <2> QED BY <2>2, <2>3, <2>4, <2>5, <2>6, <2>7
<1> HIDE DEF M
<1>4. 0 \in G /\ \A k \in 0 .. Len(s) - 1 : k \in G => k + 1 \in G
  BY <1>1, <1>2, <1>3
<1> HIDE DEF G
<1>5. Len(s) \in G
  BY <1>1, <1>4, UpTo
<1> QED BY <1>5 DEF G, M, m, n, t

-----------------------------------------------------------------------------
(* A feature that is no UTF-16 is quoted twice on its way to the file.     *)
OnceQuoted(f) == validateOrEscapeUTF8(f, TRUE, TRUE, TRUE)
TwiceQuoted(f) == Quote(OnceQuoted(f))

LEMMA OnceIs ==
  ASSUME NEW f \in Seq(Bytes)
  PROVE  /\ OnceQuoted(f) = Made(f, TRUE, Len(f)) /\ OnceQuoted(f) \in Seq(Bytes)
         /\ Clean(OnceQuoted(f)) /\ unquote_string(OnceQuoted(f)) = f
<1>1. OnceQuoted(f) = Made(f, TRUE, Len(f))
  BY MadeAll DEF OnceQuoted
<1>2. unquote_string(OnceQuoted(f)) = f
  BY QuotesComeOff DEF OnceQuoted
<1> QED BY <1>1, <1>2, MadeClean

LEMMA UnquoteThrice ==
  ASSUME NEW s
  PROVE  Unquote(s, 3) = unquote_string(unquote_string(unquote_string(s)))
<1> DEFINE R(times) == times = [k \in 0 .. 3 |-> IF k = 0 THEN s ELSE unquote_string(times[k - 1])]
           one == unquote_string(s)
           two == unquote_string(one)
           three == unquote_string(two)
           t == [k \in 0 .. 3 |-> CASE k = 0 -> s [] k = 1 -> one [] k = 2 -> two [] k = 3 -> three]
           c == CHOOSE times : R(times)
<1>0. one = unquote_string(s) /\ two = unquote_string(one) /\ three = unquote_string(two)
  OBVIOUS
<1> HIDE DEF one, two, three
<1>1. R(t)
  <2>1. t[0] = s /\ t[1] = one /\ t[2] = two /\ t[3] = three /\ t = [k \in 0 .. 3 |-> t[k]]
    OBVIOUS
  <2> HIDE DEF t
  <2>2. ASSUME NEW k \in 0 .. 3
        PROVE  t[k] = IF k = 0 THEN s ELSE unquote_string(t[k - 1])
    <3>1. k = 0 \/ (k = 1 /\ k - 1 = 0) \/ (k = 2 /\ k - 1 = 1) \/ (k = 3 /\ k - 1 = 2)
      OBVIOUS
    <3> QED BY <1>0, <2>1, <3>1
  <2> QED BY <2>1, <2>2
<1> HIDE DEF t
<1>2. R(c)
  BY <1>1
<1>3. Unquote(s, 3) = c[3]
  BY DEF Unquote
<1> HIDE DEF c
<1>4. \A k \in 0 .. 3 : c[k] = IF k = 0 THEN s ELSE unquote_string(c[k - 1])
  BY <1>2
<1>5. c[0] = s
  BY <1>4
<1>6. c[1] = unquote_string(c[1 - 1]) /\ c[2] = unquote_string(c[2 - 1]) /\ c[3] = unquote_string(c[3 - 1])
  BY <1>4
<1>7. c[1 - 1] = c[0] /\ c[2 - 1] = c[1] /\ c[3 - 1] = c[2]
  OBVIOUS
<1> QED BY <1>0, <1>3, <1>5, <1>6, <1>7

LEMMA TwiceIs ==
  ASSUME setup \in Setups, NEW f \in Seq(Bytes)
  PROVE  /\ TwiceQuoted(f) \in Seq(Bytes)
         /\ EscapeBackslash => unquote_string(TwiceQuoted(f)) = OnceQuoted(f)
         /\ ~EscapeBackslash => TwiceQuoted(f) = OnceQuoted(f)
         /\ Lowercase(TwiceQuoted(f)) = TwiceQuoted(Lowercase(f))
<1> DEFINE u == OnceQuoted(f)
           lf == Lowercase(f)
           lu == OnceQuoted(lf)
<1>1. u = Made(f, TRUE, Len(f)) /\ u \in Seq(Bytes) /\ Clean(u)
  BY OnceIs
<1>2. lf \in Seq(Bytes) /\ Len(lf) = Len(f)
  BY LowerIs
<1>3. lu = Made(lf, TRUE, Len(lf)) /\ lu \in Seq(Bytes)
  <2> HIDE DEF lf
  <2> QED BY <1>2, OnceIs
<1>4. Lowercase(u) = lu
  BY <1>1, <1>2, <1>3, LowerMade
<1> HIDE DEF u, lf, lu
<1>5. EscapeBackslash \in BOOLEAN /\ Quote(u) = Made(u, EscapeBackslash, Len(u)) /\ Quote(u) \in Seq(Bytes)
  BY <1>1, QuoteIs
<1>6. Quote(lu) = Made(lu, EscapeBackslash, Len(lu))
  BY <1>3, QuoteIs
<1>7. Len(Lowercase(u)) = Len(u)
  BY <1>1, LowerIs
<1>8. Lowercase(Quote(u)) = Quote(lu)
  <2> DEFINE backslash == EscapeBackslash
  <2>1. backslash \in BOOLEAN
    BY <1>5
  <2>2. Quote(u) = Made(u, backslash, Len(u)) /\ Quote(lu) = Made(lu, backslash, Len(lu))
    BY <1>5, <1>6
  <2> HIDE DEF backslash
  <2>3. Lowercase(Made(u, backslash, Len(u))) = Made(Lowercase(u), backslash, Len(u))
    BY <1>1, <2>1, LowerMade
  <2> QED BY <1>4, <1>7, <2>2, <2>3
<1>9. EscapeBackslash => unquote_string(Quote(u)) = u
  BY <1>1, ContextBack
<1>10. ~EscapeBackslash => Quote(u) = u
  BY <1>1, <1>5, CleanStays
<1> QED BY <1>5, <1>8, <1>9, <1>10 DEF TwiceQuoted, u, lf, lu

(* The key of a feature in the file leads back to the feature.             *)
LEMMA FileKeyBack ==
  ASSUME setup \in Setups, ~setup.incremental, NEW f \in Seq(Bytes)
  PROVE  KeyText(KeyOf(TwiceQuoted(f))) = f /\ KeyOf(TwiceQuoted(f)) \in Seq(Printable)
<1> DEFINE w == TwiceQuoted(f)
           u == OnceQuoted(f)
           k == KeyOf(w)
<1>1. /\ w \in Seq(Bytes)
      /\ EscapeBackslash => unquote_string(w) = u
      /\ ~EscapeBackslash => w = u
  BY TwiceIs
<1>2. unquote_string(u) = f
  BY OnceIs
<1> HIDE DEF w, u
<1>3. unquote_string(k) = w /\ k \in Seq(Printable)
  BY <1>1, KeyBack
<1> HIDE DEF k
<1>4. KeyText(k) = IF EscapeBackslash THEN Unquote(k, 3) ELSE Unquote(k, 2)
  BY DEF KeyText
<1>5. KeyText(k) = f
  <2>1. Unquote(k, 3) = unquote_string(unquote_string(unquote_string(k)))
    BY UnquoteThrice
  <2>2. Unquote(k, 2) = unquote_string(unquote_string(k))
    BY UnquoteOnceTwice
  <2>3. CASE EscapeBackslash
    BY <1>1, <1>2, <1>3, <1>4, <2>1, <2>3
  <2>4. CASE ~EscapeBackslash
    BY <1>1, <1>2, <1>3, <1>4, <2>2, <2>4
  <2> QED BY <2>3, <2>4
<1> QED BY <1>3, <1>5 DEF k, w

(* When the histogram is made from the file, it tallies its lines.         *)
FileTallied ==
    pc = "done" /\ ~setup.incremental => Tallied(LineKeys, CountedLines, WideLines, file, histogram)

LEMMA SameLineKeys ==
  ASSUME setup' = setup
  PROVE  LineKeys' = LineKeys /\ CountedLines' = CountedLines /\ WideLines' = WideLines
<1>1. LinesFor(setup)' = LinesFor(setup)
  BY DEF LinesFor
<1>2. ASSUME NEW l
      PROVE  /\ Key(l[2])' = Key(l[2])
             /\ Match(l[2], unquote_string(l[3]))' <=> Match(l[2], unquote_string(l[3]))
  BY DEF Key, Match, Text
<1>3. LineKeys' = LineKeys
  BY <1>1, <1>2 DEF LineKeys
<1>4. CountedLines' = CountedLines
  BY <1>1, <1>2 DEF CountedLines
<1>5. WideLines' = WideLines
  BY <1>1 DEF WideLines
<1> QED BY <1>3, <1>4, <1>5

LEMMA StepFileTallied == Typed /\ FileTallied /\ [Next]_vars => FileTallied'
<1> SUFFICES ASSUME Typed, FileTallied, [Next]_vars, pc' = "done", ~setup'.incremental
             PROVE  FileTallied'
  BY DEF FileTallied
<1>1. setup' = setup /\ ~setup.incremental
  BY DEF Next, vars, NextPage, SkipScanner, FindNothing, WriteNothing, WriteFeature, ThrowOutside,
         ThrowBeforeLine, ThrowAfterLine, Alert, ScannerReturns, Shutdown, ShutdownThrows, Done
<1>2. LineKeys' = LineKeys /\ CountedLines' = CountedLines /\ WideLines' = WideLines
  BY <1>1, SameLineKeys
<1>3. \/ Shutdown
      \/ UNCHANGED <<pc, file, histogram>>
  <2>1. ASSUME pc = "scan", pc' = pc \/ pc' = "client"
        PROVE  FALSE
    BY <2>1
  <2>2. CASE WriteNothing \/ WriteFeature
    BY <2>1, <2>2 DEF WriteNothing, WriteFeature, InPage, Found, Scanning
  <2>3. CASE SkipScanner \/ FindNothing \/ ThrowOutside \/ ThrowBeforeLine \/ ThrowAfterLine
    <3>1. pc = "scan" /\ ScannerReturns
      BY <2>3 DEF SkipScanner, FindNothing, ThrowOutside, ThrowBeforeLine, ThrowAfterLine, Alert,
                  InPage, Found, Scanning
    <3> QED BY <2>1, <3>1 DEF ScannerReturns
  <2>4. CASE NextPage \/ ShutdownThrows
    BY <2>4 DEF NextPage, ShutdownThrows
  <2>5. CASE Done \/ UNCHANGED vars
    BY <2>5 DEF Done, vars
  <2> QED BY <2>2, <2>3, <2>4, <2>5 DEF Next
<1>4. CASE Shutdown
  <2>1. histogram' = Report /\ file' = file
    BY <1>4 DEF Shutdown
  <2>2. Tallied(LineKeys, CountedLines, WideLines, file, Report)
    BY <1>1, ReportTallied
  <2>3. Tallied(LineKeys', CountedLines', WideLines', file', histogram')
    BY <1>2, <2>1, <2>2
  <2> QED BY <2>3 DEF FileTallied, Tallied, FindsOf, WideOf, Tally
<1>5. CASE UNCHANGED <<pc, file, histogram>>
  <2>1. Tallied(LineKeys, CountedLines, WideLines, file, histogram)
    BY <1>1, <1>5 DEF FileTallied
  <2>2. Tallied(LineKeys', CountedLines', WideLines', file', histogram')
    BY <1>2, <1>5, <2>1
  <2> QED BY <2>2 DEF FileTallied, Tallied, FindsOf, WideOf, Tally
<1> QED BY <1>3, <1>4, <1>5

(* The fields of a line whose feature is no UTF-16, if they were not cut.  *)
LEMMA UncutFields ==
  ASSUME Typed, LinesHold, NEW i \in Written, Uncut(i), ~IsUTF16(raw[i].feature)
  PROVE  /\ raw[i].feature \in Seq(Bytes) /\ raw[i].context \in Seq(Bytes)
         /\ file[i] \in LinesFor(setup)
         /\ file[i][2] = TwiceQuoted(raw[i].feature)
         /\ Len(file[i]) = 3 => file[i][3] = Quote(raw[i].context)
<1> DEFINE l == file[i]
           r == raw[i]
           f == r.feature
           c == r.context
           qf == QuotedFeature(f)
           qc == QuotedContext(c)
           u == make_utf8(f)
<1>1. setup \in Setups
  BY DEF Typed, ImageTyped
<1>2. setup.max_feature_size \in Nat /\ setup.max_context_size \in Nat
  BY <1>1, SetupHas
<1>3. l \in LinesFor(setup) /\ r \in Finds
  <2>1. file \in Seq(LinesFor(setup)) /\ raw \in Seq(Finds) /\ Len(raw) = Len(file)
    BY DEF Typed, LinesTyped
  <2>2. i \in 1 .. Len(file) /\ i \in 1 .. Len(raw)
    BY <2>1 DEF Written
  <2> QED BY <2>1, <2>2, ElementOfSeq
<1>4. LineOf(Lines, image, setup.recurse, l, r)
  BY DEF LinesHold
<1> HIDE DEF l, r
<1>5. f \in Seq(Bytes) /\ c \in Seq(Bytes)
  BY <1>3 DEF Finds
<1> HIDE DEF f, c
<1>6. PICK p \in Positions : l = Lines[<<p, r>>]
  BY <1>4 DEF LineOf
<1>7. l = Line(p, qf, qc)
  <2>1. <<p, r>> \in Positions \X Finds
    BY <1>3
  <2>2. Lines[<<p, r>>] = Line(p, qf, qc)
    BY <2>1 DEF Lines, f, c
  <2> QED BY <1>6, <2>2
<1>8. l[2] = qf /\ (Len(l) = 3 => l[3] = qc) /\ (Len(l) = 3 => ~setup.no_context)
  <2> HIDE DEF qf, qc
  <2> QED BY <1>7, LineHasFields
<1>9. u \in Seq(Bytes) /\ u = OnceQuoted(f)
  <2>1. looks_like_utf16(f) = "none"
    BY DEF IsUTF16, f, r
  <2> QED BY <1>5, <2>1, MadeBytes DEF make_utf8, OnceQuoted
<1> HIDE DEF u
<1>10. /\ qf = Resize(Quote(u), setup.max_feature_size)
       /\ ~setup.no_context => qc = Resize(Quote(c), setup.max_context_size)
  BY DEF QuotedFeature, QuotedContext, QuoteToSize, u
<1>11. Quote(u) \in Seq(Printable) /\ Quote(c) \in Seq(Printable)
  BY <1>1, <1>5, <1>9, QuoteIs
<1>12. Len(Quote(u)) <= setup.max_feature_size /\ Len(Quote(c)) <= setup.max_context_size
  BY DEF Uncut, u, f, c, r
<1> HIDE DEF qf, qc
<1>13. qf = Quote(u) /\ (~setup.no_context => qc = Quote(c))
  BY <1>2, <1>10, <1>11, <1>12, ResizeIs
<1>14. l[2] = TwiceQuoted(f) /\ (Len(l) = 3 => l[3] = Quote(c))
  BY <1>8, <1>9, <1>13 DEF TwiceQuoted
<1> QED BY <1>3, <1>5, <1>14 DEF f, c, l, r

(* What the histogram of the file does not miscount: no digits and no text *)
(* of a feature are looked for, which might be those of an escape, and no  *)
(* feature is UTF-16, which is quoted once less than the others.           *)
ReadAlike ==
    /\ ~setup.numeric
    /\ setup.require # <<>> => ~setup.require_feature /\ (setup.require_context => EscapeBackslash)
    /\ \A i \in Written : ~IsUTF16(raw[i].feature)

LEMMA FileCountedIs ==
  ASSUME Typed, LinesHold, ~setup.incremental, ReadAlike, NEW i \in Written, Uncut(i)
  PROVE  /\ TextOf(i) \in Seq(Bytes)
         /\ LineKeys[file[i]] = KeyOf(TwiceQuoted(TextOf(i)))
         /\ file[i] \in CountedLines <=> IsCounted(i)
<1> DEFINE f == raw[i].feature
           c == raw[i].context
           l == file[i]
           w == TwiceQuoted(f)
<1>0. setup \in Setups /\ ~setup.numeric /\ ~IsUTF16(f)
  BY DEF Typed, ImageTyped, ReadAlike
<1>1. /\ f \in Seq(Bytes) /\ c \in Seq(Bytes) /\ l \in LinesFor(setup) /\ l[2] = w
      /\ Len(l) = 3 => l[3] = Quote(c)
  BY <1>0, UncutFields
<1>2. TextOf(i) = IF setup.lowercase THEN Lowercase(f) ELSE f
  BY <1>0 DEF TextOf, UTF8Of
<1>3. LineKeys[l] = Key(w)
  BY <1>1 DEF LineKeys
<1>4. w \in Seq(Bytes) /\ Lowercase(w) = TwiceQuoted(Lowercase(f)) /\ Lowercase(f) \in Seq(Bytes)
  BY <1>0, <1>1, TwiceIs, LowerIs
<1>5. Text(w) = TwiceQuoted(TextOf(i)) /\ TextOf(i) \in Seq(Bytes)
  BY <1>0, <1>1, <1>2, <1>4 DEF Text
<1>6. Key(w) = KeyOf(Text(w))
  BY DEF Key, KeyOf
<1>7. l \in CountedLines <=> Len(l) = 3 /\ Match(w, unquote_string(l[3]))
  BY <1>1 DEF CountedLines
<1>8. EscapeBackslash => unquote_string(Quote(c)) = c
  BY <1>0, <1>1, ContextBack
<1>9. IsCounted(i) <=> /\ Len(l) = 3
                       /\ setup.require # <<>> =>
                            /\ setup.require_feature => ContainsString(TextOf(i), setup.require)
                            /\ setup.require_context => ContainsString(c, setup.require)
  BY DEF IsCounted
<1> HIDE DEF f, c, l, w
<1>10. l \in CountedLines <=> IsCounted(i)
  <2>1. CASE setup.require = <<>>
    BY <1>7, <1>9, <2>1 DEF Match
  <2>2. CASE setup.require # <<>>
    <3>1. ~setup.require_feature /\ (setup.require_context => EscapeBackslash)
      BY <2>2 DEF ReadAlike
    <3> QED BY <1>1, <1>7, <1>8, <1>9, <2>2, <3>1 DEF Match
  <2> QED BY <2>1, <2>2
<1> QED BY <1>3, <1>5, <1>6, <1>10 DEF l

LEMMA FileAgrees ==
  ASSUME Typed, LinesHold, FileTallied, ~setup.incremental, ReadAlike
  PROVE  HistogramsAgree
<1> DEFINE Counted(t) == {i \in Written : IsCounted(i) /\ TextOf(i) = t}
           Of(k) == FindsOf(LineKeys, CountedLines, file, k)
<1> SUFFICES ASSUME pc = "done", \A i \in Written : Uncut(i)
             PROVE  /\ {KeyText(k) : k \in DOMAIN histogram} = {TextOf(i) : i \in {j \in Written : IsCounted(j)}}
                    /\ \A k \in DOMAIN histogram :
                          /\ \A i \in DOMAIN k : k[i] >= 32
                          /\ histogram[k].count = Cardinality(Counted(KeyText(k)))
  BY DEF HistogramsAgree
<1>0. setup \in Setups
  BY DEF Typed, ImageTyped
<1>1. Tallied(LineKeys, CountedLines, WideLines, file, histogram) /\ 1 .. Len(file) = Written
  BY DEF FileTallied, Written
<1>2. \A i \in Written : /\ TextOf(i) \in Seq(Bytes)
                         /\ LineKeys[file[i]] = KeyOf(TwiceQuoted(TextOf(i)))
                         /\ file[i] \in CountedLines <=> IsCounted(i)
  BY FileCountedIs
<1>3. ASSUME NEW t \in Seq(Bytes)
      PROVE  KeyText(KeyOf(TwiceQuoted(t))) = t /\ KeyOf(TwiceQuoted(t)) \in Seq(Printable)
  BY <1>0, FileKeyBack
<1>4. ASSUME NEW k, NEW i \in Of(k)
      PROVE  /\ i \in Written /\ IsCounted(i) /\ KeyText(k) = TextOf(i)
             /\ k = KeyOf(TwiceQuoted(TextOf(i))) /\ k \in Seq(Printable)
  <2>1. i \in Written /\ file[i] \in CountedLines /\ LineKeys[file[i]] = k
    BY <1>1 DEF FindsOf
  <2>2. k = KeyOf(TwiceQuoted(TextOf(i))) /\ IsCounted(i) /\ TextOf(i) \in Seq(Bytes)
    BY <1>2, <2>1
  <2>3. KeyText(k) = TextOf(i) /\ k \in Seq(Printable)
    BY <1>3, <2>2
  <2> QED BY <2>1, <2>2, <2>3
<1>5. ASSUME NEW i \in Written, IsCounted(i)
      PROVE  i \in Of(KeyOf(TwiceQuoted(TextOf(i))))
  BY <1>1, <1>2, <1>5 DEF FindsOf
<1>6. ASSUME NEW k, Of(k) # {}
      PROVE  Of(k) = Counted(KeyText(k))
  <2>1. PICK j : j \in Of(k)
    BY <1>6
  <2>2. KeyText(k) = TextOf(j) /\ k = KeyOf(TwiceQuoted(TextOf(j)))
    BY <1>4, <2>1
  <2>3. \A i \in Counted(KeyText(k)) : i \in Of(k)
    BY <1>5, <2>2
  <2>4. \A i \in Of(k) : i \in Counted(KeyText(k))
    BY <1>4
  <2> QED BY <2>3, <2>4
<1>7. ASSUME NEW k
      PROVE  /\ k \in DOMAIN histogram <=> Of(k) # {}
             /\ Tally(histogram, k).count = Cardinality(Of(k))
  BY <1>1 DEF Tallied
<1>8. {KeyText(k) : k \in DOMAIN histogram} = {TextOf(i) : i \in {j \in Written : IsCounted(j)}}
  <2>1. ASSUME NEW k \in DOMAIN histogram
        PROVE  \E i \in {j \in Written : IsCounted(j)} : KeyText(k) = TextOf(i)
    <3>1. PICK i : i \in Of(k)
      BY <1>7
    <3> QED BY <1>4, <3>1
  <2>2. ASSUME NEW i \in Written, IsCounted(i)
        PROVE  \E k \in DOMAIN histogram : KeyText(k) = TextOf(i)
    <3> DEFINE k == KeyOf(TwiceQuoted(TextOf(i)))
    <3>1. i \in Of(k)
      BY <1>5, <2>2
    <3> HIDE DEF k
    <3>2. k \in DOMAIN histogram /\ KeyText(k) = TextOf(i)
      BY <1>4, <1>7, <3>1
    <3> QED BY <3>2
  <2> QED BY <2>1, <2>2
<1>9. ASSUME NEW k \in DOMAIN histogram
      PROVE  /\ \A i \in DOMAIN k : k[i] >= 32
             /\ histogram[k].count = Cardinality(Counted(KeyText(k)))
  <2>1. Tally(histogram, k) = histogram[k]
    BY DEF Tally
  <2>2. PICK j : j \in Of(k)
    BY <1>7
  <2>3. Of(k) = Counted(KeyText(k))
    BY <1>6, <2>2
  <2>4. k \in Seq(Printable)
    BY <1>4, <2>2
  <2>5. \A i \in DOMAIN k : k[i] >= 32
    <3> TAKE i \in DOMAIN k
    <3> DEFINE b == k[i]
    <3>1. b \in Printable
      BY <2>4, LenProperties, ElementOfSeq
    <3> HIDE DEF b
    <3>2. b >= 32
      BY <3>1 DEF Printable
    <3> QED BY <3>2 DEF b
  <2> HIDE DEF Of, Counted
  <2> QED BY <1>7, <2>1, <2>3, <2>5
<1> QED BY <1>8, <1>9

(* For every image and scanner: the histogram that is made from the file   *)
(* counts each text, in lower case if it is asked for, as often as there   *)
(* are lines of it with a context, no key has two texts and none ends its  *)
(* line: see ReadAlike.                                                    *)
THEOREM FileCounts ==
  Spec => [](~setup.incremental /\ ReadAlike => HistogramsAgree)
<1> DEFINE Inv == Typed /\ BuffersHold /\ LinesHold /\ FileTallied
<1>1. Init => Inv
  <2>1. Init => FileTallied
    BY DEF Init, FileTallied
  <2> QED BY <2>1, InitTyped, InitHolds
<1>2. Inv /\ [Next]_vars => Inv'
  BY StepTyped, StepHolds, StepFileTallied
<1>3. Inv => (~setup.incremental /\ ReadAlike => HistogramsAgree)
  BY FileAgrees
<1> QED BY <1>1, <1>2, <1>3, PTL DEF Spec

-----------------------------------------------------------------------------
(* The scanner goes forward: nothing is found before the place where it    *)
(* went on, and it goes on behind what it found, unless that is empty.     *)
LEMMA FindAhead ==
  ASSUME NEW b \in Buffers, NEW ch, NEW start \in Nat, find(b, ch, start) # NotFound
  PROVE  /\ find(b, ch, start) \in start .. b.pagesize - 1 /\ At(b, find(b, ch, start)) = ch
         /\ \A loc \in start .. b.pagesize - 1 : At(b, loc) = ch => find(b, ch, start) <= loc
<1> DEFINE locs == {loc \in start .. b.pagesize - 1 : At(b, loc) = ch}
<1>1. b.pagesize \in Nat
  BY BufferHas
<1>2. locs \in SUBSET Nat
  BY <1>1
<1>3. locs # {} /\ find(b, ch, start) = Min(locs)
  BY DEF find
<1>4. Min(locs) \in locs /\ \A loc \in locs : Min(locs) <= loc
  <2> HIDE DEF locs
  <2> QED BY <1>2, <1>3, MinOf
<1> QED BY <1>3, <1>4

Forward(hit, start) ==
    /\ start <= hit.pos /\ hit.pos <= hit.next
    /\ hit.pos < hit.next \/ hit.len = 0

LEMMA HitAhead ==
  ASSUME setup \in Setups, sbuf \in Buffers, at \in Nat, Hit # NoHit
  PROVE  Forward(Hit, at)
<1>1. setup.take \in Nat
  BY SetupHas
<1>2. CASE setup.kind = "find"
  <2> DEFINE loc == find(sbuf, setup.needle[1], at)
  <2>1. Hit = HitAt(loc)
    BY <1>2 DEF Hit
  <2>2. loc # NotFound
    BY <2>1 DEF HitAt
  <2>3. loc \in Nat /\ at <= loc
    <3>1. loc \in Nat \cup {NotFound} /\ loc \in at .. sbuf.pagesize - 1
      BY <2>2, FindType, FindAhead
    <3> HIDE DEF loc
    <3> QED BY <2>2, <3>1
  <2> HIDE DEF loc
  <2> QED BY <2>1, <2>2, <2>3 DEF HitAt, Forward
<1>3. CASE setup.kind = "findbin"
  <2> DEFINE loc == findbin(sbuf, setup.needle, at)
  <2>1. Hit = HitAt(loc)
    BY <1>3 DEF Hit
  <2>2. loc # NotFound
    BY <2>1 DEF HitAt
  <2>3. loc \in Nat /\ at <= loc
    BY <2>2, FindbinType
  <2> HIDE DEF loc
  <2> QED BY <2>1, <2>2, <2>3 DEF HitAt, Forward
<1>4. CASE setup.kind = "getline"
  <2>1. Hit = LineHit
    BY <1>4 DEF Hit
  <2>2. LineStarts(sbuf, at) # {}
    BY <2>1 DEF LineHit, NoHit
  <2> DEFINE start == Min(LineStarts(sbuf, at))
             end == LineEnd(sbuf, start)
  <2>3. start \in Nat /\ at <= start /\ end \in Nat /\ start < end
    BY <2>2, LineType
  <2>4. Hit.pos = start /\ Hit.next = end
    BY <2>1, <2>2 DEF LineHit
  <2> HIDE DEF start, end
  <2> QED BY <2>3, <2>4 DEF Forward
<1>5. CASE setup.kind = "strings"
  <2> DEFINE n == Len(getUTF8(sbuf, at))
  <2>1. Hit = StringHit /\ InRange(sbuf, at, 1)
    BY <1>5 DEF Hit, StringHit
  <2>2. n \in Nat
    BY UTF8Type
  <2>3. Hit.pos = at /\ Hit.len = n /\ Hit.next = IF n = 0 THEN at + n + 1 ELSE at + n + 1
    <3>1. AfterUTF8(sbuf, at) = at + n + (IF n > 0 THEN 1 ELSE 0)
      BY DEF AfterUTF8
    <3>2. Hit.pos = at /\ Hit.len = n
          /\ Hit.next = IF n = 0 THEN AfterUTF8(sbuf, at) + 1 ELSE AfterUTF8(sbuf, at)
      BY <2>1 DEF StringHit, AfterInteger
    <3> HIDE DEF n
    <3> QED BY <2>2, <3>1, <3>2
  <2> HIDE DEF n
  <2> QED BY <2>2, <2>3 DEF Forward
<1>6. CASE setup.kind = "wide"
  <2> DEFINE n == getUTF16Length(sbuf, at)
  <2>1. Hit = WideHit /\ InRange(sbuf, at, 2)
    BY <1>6 DEF Hit, WideHit
  <2>2. n \in Nat
    BY WideType
  <2>3. Hit.pos = at /\ Hit.len = 2 * n /\ Hit.next >= at + 2
    <3> DEFINE m == 2 * n
               after == AfterUTF16(sbuf, at)
    <3>1. after = at + m + (IF m > 0 THEN 2 ELSE 0)
      BY DEF AfterUTF16
    <3>2. Hit.pos = at /\ Hit.len = m /\ Hit.next = IF m = 0 THEN after + 2 ELSE after
      BY <2>1 DEF WideHit, AfterInteger
    <3>3. m \in Nat
      <4> HIDE DEF n
      <4> QED BY <2>2
    <3> HIDE DEF n, m, after
    <3>4. Hit.next >= at + 2
      BY <3>1, <3>2, <3>3
    <3> QED BY <3>2, <3>4 DEF m
  <2>4. Hit.next \in Nat
    BY HitType
  <2> HIDE DEF n
  <2> QED BY <2>2, <2>3, <2>4 DEF Forward
<1>7. CASE setup.kind = "records"
  <2> DEFINE n == get_u(sbuf, at, setup.take, setup.order)
  <2>1. Hit = RecordHit /\ InRange(sbuf, at, setup.take)
    BY <1>7 DEF Hit, RecordHit
  <2>2. n \in Nat
    BY <1>1, <2>1, GetType
  <2>3. Hit.pos = at + setup.take /\ Hit.len = n /\ Hit.next = at + setup.take + n
    BY <2>1 DEF RecordHit, AfterInteger
  <2> HIDE DEF n
  <2> QED BY <1>1, <2>2, <2>3 DEF Forward
<1>8. CASE setup.kind = "counted"
  <2> DEFINE units == get_u(sbuf, at, setup.take, setup.order)
             n == getUTF16LengthOf(sbuf, at + setup.take, units)
  <2>1. Hit = CountedHit /\ InRange(sbuf, at, setup.take)
    BY <1>8 DEF Hit, CountedHit
  <2>2. units \in Nat
    BY <1>1, <2>1, GetType
  <2>3. Hit.pos = at + setup.take /\ Hit.len = 2 * n /\ Hit.next = at + setup.take + 2 * n
    BY <2>1 DEF CountedHit, AfterInteger, AfterUTF16Of
  <2>4. n \in Nat
    <3> HIDE DEF units
    <3>1. at + setup.take \in Nat
      BY <1>1
    <3> QED BY <2>2, <3>1, WideOfType
  <2> HIDE DEF n
  <2> QED BY <1>1, <2>3, <2>4 DEF Forward
<1> QED BY <1>2, <1>3, <1>4, <1>5, <1>6, <1>7, <1>8, SetupHas DEF Kinds

(* Nothing is written of an empty feature.                                 *)
LEMMA MadeOfNothing ==
  ASSUME NEW bad \in BOOLEAN, NEW backslash \in BOOLEAN
  PROVE  validateOrEscapeUTF8(<<>>, bad, backslash, TRUE) = <<>>
<1> DEFINE e == <<>>
<1>1. e \in Seq(Bytes) /\ Len(e) = 0
  OBVIOUS
<1>2. validateOrEscapeUTF8(e, bad, backslash, TRUE) = Made(e, backslash, 0)
  <2> HIDE DEF e
  <2> QED BY <1>1, MadeAll
<1>3. Made(e, backslash, 0) = <<>>
  BY <1>1, MadeNothing
<1> QED BY <1>2, <1>3

LEMMA NothingMade == make_utf8(<<>>) = <<>>
<1> DEFINE e == <<>>
<1>1. Len(e) = 0 /\ Len(<<255, 254>>) = 2 /\ Len(<<254, 255>>) = 2
  OBVIOUS
<1>2. ~IsPrefix(<<255, 254>>, e) /\ ~IsPrefix(<<254, 255>>, e)
  BY <1>1 DEF IsPrefix
<1>3. Nulls(e, 1) = {} /\ Nulls(e, 0) = {}
  <2>1. 1 .. 2 * (Len(e) \div 2) = {}
    BY <1>1
  <2> QED BY <2>1 DEF Nulls
<1>4. Cardinality(Nulls(e, 1)) = 0 /\ Cardinality(Nulls(e, 0)) = 0
  BY <1>3, FS_EmptySet
<1> HIDE DEF e
<1>5. looks_like_utf16(e) = "none"
  BY <1>2, <1>4 DEF looks_like_utf16
<1>6. make_utf8(e) = validateOrEscapeUTF8(e, TRUE, TRUE, TRUE)
  BY <1>5 DEF make_utf8
<1> QED BY <1>6, MadeOfNothing DEF e

LEMMA NothingIsEmpty ==
  ASSUME setup \in Setups
  PROVE  QuotedFeature(<<>>) = <<>>
<1>1. EscapeBadUTF8 \in BOOLEAN /\ EscapeBackslash \in BOOLEAN
  BY DEF EscapeBadUTF8, EscapeBackslash
<1>2. Quote(<<>>) = <<>>
  <2> DEFINE bad == EscapeBadUTF8
             backslash == EscapeBackslash
  <2>1. bad \in BOOLEAN /\ backslash \in BOOLEAN
    BY <1>1
  <2>2. Quote(<<>>) = validateOrEscapeUTF8(<<>>, bad, backslash, TRUE)
    BY DEF Quote
  <2> HIDE DEF bad, backslash
  <2> QED BY <2>1, <2>2, MadeOfNothing
<1>3. Resize(<<>>, setup.max_feature_size) = <<>>
  <2>1. <<>> \in Seq(Bytes) /\ Len(<<>>) = 0 /\ setup.max_feature_size \in Nat
    BY SetupHas
  <2>2. Len(<<>>) <= setup.max_feature_size
    BY <2>1
  <2> QED BY <2>1, <2>2, ResizeIs
<1> QED BY <1>2, <1>3, NothingMade DEF QuotedFeature, QuoteToSize

LEMMA WrittenAhead ==
  ASSUME Typed, Found, ~IsEmpty
  PROVE  /\ Hit.pos \in Nat /\ Hit.next \in Nat
         /\ at <= Hit.pos /\ Hit.pos < Hit.next /\ Hit.pos < bufsize(sbuf)
<1>1. setup \in Setups /\ sbuf \in Buffers /\ at \in Nat /\ Hit # NoHit
  BY DEF Typed, ImageTyped, CallsTyped, Found
<1>2. Hit.pos \in Nat /\ Hit.len \in Nat /\ Hit.next \in Nat /\ Forward(Hit, at)
  BY <1>1, HitType, HitAhead
<1>3. bufsize(sbuf) \in Nat /\ Hit.pos < bufsize(sbuf) /\ sbuf.buf \in Seq(Bytes)
  BY <1>1, <1>2, BufferHas DEF Found, OutsideBuffer
<1>4. Hit.len # 0
  <2> SUFFICES ASSUME Hit.len = 0 PROVE FALSE
    OBVIOUS
  <2> DEFINE pos == Hit.pos
  <2>1. pos + 0 = pos /\ Min({pos, bufsize(sbuf)}) = pos
    BY <1>2, <1>3, MinOfTwo
  <2>2. Feature(pos, 0) = SubSeq(sbuf.buf, pos + 1, pos)
    BY <2>1 DEF Feature, substr
  <2>3. SubSeq(sbuf.buf, pos + 1, pos) = <<>>
    <3> DEFINE m == pos + 1
    <3>1. m \in Int /\ pos \in Int /\ m >= 1 /\ m > pos
      BY <1>2
    <3> HIDE DEF m, pos
    <3>2. \A i \in m .. pos : sbuf.buf[i] \in Bytes
      BY <3>1
    <3>3. SubSeq(sbuf.buf, m, pos) \in Seq(Bytes) /\ Len(SubSeq(sbuf.buf, m, pos)) = 0
      BY <1>3, <3>1, <3>2, SubSeqProperties
    <3>4. SubSeq(sbuf.buf, m, pos) = <<>>
      BY <3>3, EmptySeq
    <3> QED BY <3>4 DEF m
  <2>4. QuotedFeature(Feature(Hit.pos, Hit.len)) = <<>>
    BY <1>1, <2>2, <2>3, NothingIsEmpty
  <2> QED BY <2>4 DEF IsEmpty
<1> QED BY <1>2, <1>3, <1>4 DEF Forward

-----------------------------------------------------------------------------
(* The lines of one place.  What was written from the image lies before    *)
(* the place where the scanner goes on in its page, and what was written   *)
(* from inside lies in what was recursed into before there, or in the      *)
(* buffer of the innermost call before the place where that goes on.       *)
Outer == IF callers = <<>> THEN [sbuf |-> sbuf, at |-> at] ELSE callers[1]

Below(l, n, add) == IF isRecursive(l[1]) THEN l[1].path[1] < n ELSE l[1].offset < n + add
AllBelow(lines, n, add) == \A i \in 1 .. Len(lines) : Below(lines[i], n, add)
BelowIn(lines, path, n) == \A i \in 1 .. Len(lines) : lines[i][1].path = path => lines[i][1].offset < n
NoneTwice(lines) == \A i, j \in 1 .. Len(lines) : lines[i][1] = lines[j][1] => i = j

ShiftKeeps == setup.recurse = "no" \/ setup.offset_add = 0

InPageOf(outer, b, start, lines, end, size, add) ==
    /\ outer.sbuf.pos0.offset + size = end
    /\ outer.sbuf.pagesize <= size
    /\ AllBelow(lines, outer.sbuf.pos0.offset + outer.at, add)
    /\ isRecursive(b.pos0) =>
          /\ b.pos0.offset = 0
          /\ b.pos0.path[1] < outer.sbuf.pos0.offset + outer.at
          /\ b.pos0.path[1] < end
          /\ BelowIn(lines, b.pos0.path, start)

Apart ==
    /\ AllBelow(file, page * setup.pagesize, setup.offset_add)
    /\ pc = "scan" =>
          InPageOf(Outer, sbuf, at, file, page * setup.pagesize, setup.pagesize, setup.offset_add)
    /\ NoneTwice(file)

LEMMA PlaceHas ==
  ASSUME NEW su, su.max_feature_size \in Nat, su.max_context_size \in Nat,
         NEW lines \in Seq(LinesFor(su)), NEW i \in 1 .. Len(lines)
  PROVE  /\ lines[i][1] \in Positions /\ lines[i][1].offset \in Nat
         /\ isRecursive(lines[i][1]) => lines[i][1].path[1] \in Nat
<1> DEFINE l == lines[i]
<1>1. l \in LinesFor(su)
  BY ElementOfSeq
<1> HIDE DEF l
<1>2. l[1] \in Positions
  BY <1>1, LineHas
<1>3. l[1].offset \in Nat /\ l[1].path \in PathSet
  BY <1>2 DEF Positions
<1>4. ASSUME isRecursive(l[1])
      PROVE  l[1].path[1] \in Nat
  <2>1. l[1].path \in Nat \X Decoders
    BY <1>3, <1>4 DEF PathSet, isRecursive
  <2> QED BY <2>1
<1> QED BY <1>2, <1>3, <1>4 DEF l

LEMMA BelowMore ==
  ASSUME NEW su, su.max_feature_size \in Nat, su.max_context_size \in Nat,
         NEW lines \in Seq(LinesFor(su)), NEW n \in Nat, NEW m \in Nat, n <= m, NEW add \in Nat
  PROVE  /\ AllBelow(lines, n, add) => AllBelow(lines, m, add)
         /\ \A path : BelowIn(lines, path, n) => BelowIn(lines, path, m)
<1>1. ASSUME NEW i \in 1 .. Len(lines)
      PROVE  /\ Below(lines[i], n, add) => Below(lines[i], m, add)
             /\ lines[i][1].offset < n => lines[i][1].offset < m
  <2> DEFINE p == lines[i][1]
  <2>1. p.offset \in Nat /\ (isRecursive(p) => p.path[1] \in Nat)
    BY PlaceHas
  <2>2. CASE isRecursive(p)
    <3> DEFINE x == p.path[1]
               y == p.offset
    <3>1. x \in Nat /\ y \in Nat
      BY <2>1, <2>2
    <3>2. Below(lines[i], n, add) = (x < n) /\ Below(lines[i], m, add) = (x < m)
      BY <2>2 DEF Below
    <3> HIDE DEF x, y
    <3>3. (x < n => x < m) /\ (y < n => y < m)
      BY <3>1
    <3> QED BY <3>2, <3>3 DEF y
  <2>3. CASE ~isRecursive(p)
    <3> DEFINE y == p.offset
    <3>1. y \in Nat
      BY <2>1
    <3>2. Below(lines[i], n, add) = (y < n + add) /\ Below(lines[i], m, add) = (y < m + add)
      BY <2>3 DEF Below
    <3> HIDE DEF y
    <3>3. (y < n + add => y < m + add) /\ (y < n => y < m)
      BY <3>1
    <3> QED BY <3>2, <3>3 DEF y
  <2> QED BY <2>2, <2>3
<1> QED BY <1>1 DEF AllBelow, BelowIn

LEMMA OneMoreLine ==
  ASSUME NEW T, NEW lines \in Seq(T), NEW l, NEW n, NEW add
  PROVE  /\ AllBelow(lines, n, add) /\ Below(l, n, add) => AllBelow(Append(lines, l), n, add)
         /\ \A path : BelowIn(lines, path, n) /\ (l[1].path = path => l[1].offset < n)
                         => BelowIn(Append(lines, l), path, n)
         /\ NoneTwice(lines) /\ (\A i \in 1 .. Len(lines) : lines[i][1] # l[1])
               => NoneTwice(Append(lines, l))
<1> DEFINE k == Len(lines)
           new == Append(lines, l)
<1>1. /\ k \in Nat /\ Len(new) = k + 1 /\ new[k + 1] = l
      /\ \A i \in 1 .. k : new[i] = lines[i]
      /\ \A i \in 1 .. k + 1 : i = k + 1 \/ i \in 1 .. k
  BY AppendHas
<1> HIDE DEF k, new
<1>2. AllBelow(lines, n, add) /\ Below(l, n, add) => AllBelow(new, n, add)
  BY <1>1 DEF AllBelow, k
<1>3. ASSUME NEW path
      PROVE  BelowIn(lines, path, n) /\ (l[1].path = path => l[1].offset < n) => BelowIn(new, path, n)
  BY <1>1 DEF BelowIn, k
<1>4. ASSUME NoneTwice(lines), \A i \in 1 .. k : lines[i][1] # l[1]
      PROVE  NoneTwice(new)
  BY <1>1, <1>4 DEF NoneTwice, k
<1> QED BY <1>2, <1>3, <1>4 DEF new, k

(* The place of the line that is written.                                  *)
PlaceIn(p, pos, add) ==
    IF isRecursive(p) THEN [path |-> p.path, offset |-> pos]
    ELSE [path |-> <<>>, offset |-> p.offset + pos + add]

LEMMA PlaceWritten ==
  ASSUME Typed, BuffersHold, ShiftKeeps, Found,
         isRecursive(sbuf.pos0) => sbuf.pos0.offset = 0
  PROVE  shift(FeaturePos0(Hit.pos), setup.offset_add) = PlaceIn(sbuf.pos0, Hit.pos, setup.offset_add)
<1> DEFINE base == sbuf.pos0.offset
           pos == Hit.pos
           add == setup.offset_add
           p == FeaturePos0(pos)
<1>1. base \in Nat /\ pos \in Nat /\ add \in Nat
  <2>1. sbuf \in Buffers /\ setup \in Setups
    BY DEF Typed, CallsTyped, ImageTyped
  <2>2. sbuf.pos0 \in Positions
    BY <2>1, BufferHas
  <2> QED BY <2>1, <2>2, FeatureType, SetupHas DEF Found, Positions
<1>2. p = [path |-> sbuf.pos0.path, offset |-> base + pos]
  BY DEF FeaturePos0, PlusOffset, pos0_t
<1> HIDE DEF p
<1>3. p.path = sbuf.pos0.path /\ p.offset = base + pos /\ (isRecursive(p) <=> isRecursive(sbuf.pos0))
  BY <1>2 DEF isRecursive
<1>4. CASE isRecursive(sbuf.pos0)
  <2>1. add = 0 /\ base = 0
    BY <1>4 DEF ShiftKeeps, BuffersHold, Holds
  <2>2. shift(p, add) = p
    BY <2>1 DEF shift
  <2> HIDE DEF base, pos, add
  <2>3. base + pos = pos
    BY <1>1, <2>1
  <2> QED BY <1>2, <1>4, <2>2, <2>3 DEF p, pos, add, PlaceIn
<1>5. CASE ~isRecursive(sbuf.pos0)
  <2>1. p.path = <<>>
    BY <1>3, <1>5 DEF isRecursive
  <2>2. shift(p, add) = [path |-> <<>>, offset |-> base + pos + add]
    <3>1. CASE add = 0
      <4>1. shift(p, add) = p
        BY <3>1 DEF shift
      <4> HIDE DEF base, pos, add
      <4>2. base + pos + add = base + pos
        BY <1>1, <3>1
      <4> QED BY <1>2, <1>3, <2>1, <4>1, <4>2
    <3>2. CASE add # 0
      <4> HIDE DEF base, pos, add
      <4> QED BY <1>3, <1>5, <3>2 DEF shift, pos0_t
    <3> QED BY <3>1, <3>2
  <2> QED BY <1>5, <2>2 DEF p, pos, add, base, PlaceIn
<1> QED BY <1>4, <1>5

(* A line from the page, and a line from inside.                           *)
LEMMA PageLine ==
  ASSUME NEW su, su.max_feature_size \in Nat, su.max_context_size \in Nat,
         NEW lines \in Seq(LinesFor(su)), NEW l, NEW base \in Nat, NEW start \in Nat,
         NEW pos \in Nat, NEW next \in Nat, NEW add \in Nat, start <= pos, pos < next,
         NoneTwice(lines), AllBelow(lines, base + start, add),
         l[1] = [path |-> <<>>, offset |-> base + pos + add]
  PROVE  /\ NoneTwice(Append(lines, l)) /\ AllBelow(Append(lines, l), base + next, add)
         /\ \A end \in Nat : AllBelow(lines, end, add) /\ base + pos < end
                                => AllBelow(Append(lines, l), end, add)
         /\ \A name : BelowIn(Append(lines, l), <<base + pos, name>>, 0)
<1> DEFINE n == base + start
           m == base + next
           o == base + pos
<1>1. n \in Nat /\ m \in Nat /\ o \in Nat /\ n <= m /\ n <= o /\ o < m
  OBVIOUS
<1>2. l[1].path = <<>> /\ l[1].offset = o + add /\ ~isRecursive(l[1])
  BY DEF isRecursive
<1> HIDE DEF n, m, o
<1>3. AllBelow(lines, n, add)
  BY DEF n
<1>4. ASSUME NEW e \in Nat, o < e
      PROVE  Below(l, e, add)
  <2>1. o + add < e + add
    BY <1>1, <1>4
  <2> QED BY <1>2, <2>1 DEF Below
<1>5. AllBelow(Append(lines, l), m, add)
  <2>1. AllBelow(lines, m, add)
    BY <1>1, <1>3, BelowMore
  <2> QED BY <1>1, <1>4, <2>1, OneMoreLine
<1>6. ASSUME NEW e \in Nat, AllBelow(lines, e, add), o < e
      PROVE  AllBelow(Append(lines, l), e, add)
  BY <1>4, <1>6, OneMoreLine
<1>7. ASSUME NEW i \in 1 .. Len(lines)
      PROVE  /\ lines[i][1] # l[1]
             /\ \A name : lines[i][1].path # <<o, name>>
  <2> DEFINE p == lines[i][1]
  <2>1. p \in Positions /\ p.offset \in Nat /\ (isRecursive(p) => p.path[1] \in Nat)
    BY PlaceHas
  <2>2. Below(lines[i], n, add)
    BY <1>3 DEF AllBelow
  <2>3. CASE isRecursive(p)
    <3>1. p.path # <<>> /\ p.path[1] < n /\ p.path[1] \in Nat
      BY <2>1, <2>2, <2>3 DEF isRecursive, Below
    <3>2. p.path[1] # o
      BY <1>1, <3>1
    <3>3. \A name : <<o, name>>[1] = o
      OBVIOUS
    <3> QED BY <1>2, <3>1, <3>2, <3>3
  <2>4. CASE ~isRecursive(p)
    <3>1. p.path = <<>> /\ p.offset < n + add
      BY <2>2, <2>4 DEF isRecursive, Below
    <3>2. p.offset # o + add
      BY <1>1, <2>1, <3>1
    <3>3. \A name : <<o, name>> # <<>>
      OBVIOUS
    <3> QED BY <1>2, <3>1, <3>2, <3>3
  <2> QED BY <2>3, <2>4
<1>8. NoneTwice(Append(lines, l))
  BY <1>7, OneMoreLine
<1>9. ASSUME NEW name
      PROVE  BelowIn(Append(lines, l), <<o, name>>, 0)
  <2> DEFINE q == <<o, name>>
  <2>1. BelowIn(lines, q, 0)
    BY <1>7 DEF BelowIn
  <2>2. l[1].path # q
    BY <1>2
  <2> HIDE DEF q
  <2>3. BelowIn(Append(lines, l), q, 0)
    BY <2>1, <2>2, OneMoreLine
  <2> QED BY <2>3 DEF q
<1> QED BY <1>5, <1>6, <1>8, <1>9 DEF m, o

LEMMA InsideLine ==
  ASSUME NEW su, su.max_feature_size \in Nat, su.max_context_size \in Nat,
         NEW lines \in Seq(LinesFor(su)), NEW l, NEW q, q # <<>>, NEW start \in Nat,
         NEW pos \in Nat, NEW next \in Nat, NEW add \in Nat, start <= pos, pos < next,
         NoneTwice(lines), BelowIn(lines, q, start), l[1] = [path |-> q, offset |-> pos]
  PROVE  /\ NoneTwice(Append(lines, l)) /\ BelowIn(Append(lines, l), q, next)
         /\ \A n : AllBelow(lines, n, add) /\ q[1] < n => AllBelow(Append(lines, l), n, add)
<1>1. l[1].path = q /\ l[1].offset = pos /\ isRecursive(l[1])
  BY DEF isRecursive
<1>2. BelowIn(lines, q, next)
  BY BelowMore
<1>3. BelowIn(Append(lines, l), q, next)
  BY <1>1, <1>2, OneMoreLine
<1>4. ASSUME NEW i \in 1 .. Len(lines)
      PROVE  lines[i][1] # l[1]
  <2>1. lines[i][1].path = q => lines[i][1].offset < start
    BY DEF BelowIn
  <2>2. lines[i][1].offset \in Nat
    BY PlaceHas
  <2> QED BY <1>1, <2>1, <2>2
<1>5. NoneTwice(Append(lines, l))
  BY <1>4, OneMoreLine
<1>6. ASSUME NEW n, AllBelow(lines, n, add), q[1] < n
      PROVE  AllBelow(Append(lines, l), n, add)
  <2>1. Below(l, n, add)
    BY <1>1, <1>6 DEF Below
  <2> QED BY <1>6, <2>1, OneMoreLine
<1> QED BY <1>3, <1>5, <1>6

(* What an action finds, when a scanner is called.                         *)
LEMMA ScanHas ==
  ASSUME Typed, Apart, pc = "scan"
  PROVE  /\ sbuf \in Buffers /\ at \in Nat /\ sbuf.pos0.offset \in Nat
         /\ setup.pagesize \in Nat /\ page * setup.pagesize \in Nat /\ setup.offset_add \in Nat
         /\ setup.max_feature_size \in Nat /\ setup.max_context_size \in Nat
         /\ file \in Seq(LinesFor(setup))
         /\ InPageOf(Outer, sbuf, at, file, page * setup.pagesize, setup.pagesize, setup.offset_add)
         /\ \/ callers = <<>> /\ ~isRecursive(sbuf.pos0) /\ Outer = [sbuf |-> sbuf, at |-> at]
            \/ /\ isRecursive(sbuf.pos0) /\ sbuf.pos0.offset = 0
               /\ \E c \in Calls : callers = <<c>> /\ ~isRecursive(c.sbuf.pos0) /\ Outer = c
<1>1. setup.pagesize \in Nat /\ setup.offset_add \in Nat /\ setup.max_feature_size \in Nat
      /\ setup.max_context_size \in Nat
  BY SetupHas DEF Typed, ImageTyped
<1>2. sbuf \in Buffers /\ at \in Nat /\ sbuf.pos0.offset \in Nat
  BY BufferHas DEF Typed, CallsTyped, Positions
<1>3. page \in Nat
  BY LenProperties DEF Typed, PagesTyped, ImageTyped
<1>4. page * setup.pagesize \in Nat
  BY <1>1, <1>3
<1>5. InPageOf(Outer, sbuf, at, file, page * setup.pagesize, setup.pagesize, setup.offset_add)
  BY DEF Apart
<1>6. CASE callers = <<>> /\ ~isRecursive(sbuf.pos0)
  <2>1. Outer = [sbuf |-> sbuf, at |-> at]
    BY <1>6 DEF Outer
  <2> QED BY <1>1, <1>2, <1>4, <1>5, <1>6, <2>1 DEF Typed, LinesTyped
<1>7. CASE isRecursive(sbuf.pos0) /\ \E c \in Calls : callers = <<c>> /\ ~isRecursive(c.sbuf.pos0)
  <2>1. PICK c \in Calls : callers = <<c>> /\ ~isRecursive(c.sbuf.pos0)
    BY <1>7
  <2>2. Outer = c
    BY <2>1 DEF Outer
  <2>3. sbuf.pos0.offset = 0
    BY <1>5, <1>7 DEF InPageOf
  <2> QED BY <1>1, <1>2, <1>4, <1>5, <1>7, <2>1, <2>2, <2>3 DEF Typed, LinesTyped
<1> QED BY <1>6, <1>7 DEF Typed, CallsTyped

(* A line is written.                                                      *)
LEMMA WrittenApart ==
  ASSUME Typed, BuffersHold, ShiftKeeps, Apart, InPage, ~IsEmpty, WriteLine
  PROVE  /\ NoneTwice(file') /\ AllBelow(file', page * setup.pagesize, setup.offset_add)
         /\ callers = <<>> =>
               /\ AllBelow(file', sbuf.pos0.offset + Hit.next, setup.offset_add)
               /\ sbuf.pos0.offset + Hit.pos < sbuf.pos0.offset + Hit.next
               /\ sbuf.pos0.offset + Hit.pos < page * setup.pagesize
               /\ \A name : BelowIn(file', <<sbuf.pos0.offset + Hit.pos, name>>, 0)
         /\ callers # <<>> =>
               /\ AllBelow(file', Outer.sbuf.pos0.offset + Outer.at, setup.offset_add)
               /\ BelowIn(file', sbuf.pos0.path, Hit.next)
<1> DEFINE l == Line(FeaturePos0(Hit.pos), QuotedFeature(Feature(Hit.pos, Hit.len)),
                     QuotedContext(Context(Hit.pos, Hit.len)))
           add == setup.offset_add
           end == page * setup.pagesize
           base == sbuf.pos0.offset
           pos == Hit.pos
           next == Hit.next
           q == sbuf.pos0.path
<1>1. Found /\ pc = "scan"
  BY DEF InPage, Found, Scanning
<1>2. /\ sbuf \in Buffers /\ at \in Nat /\ base \in Nat
      /\ setup.pagesize \in Nat /\ end \in Nat /\ add \in Nat
      /\ setup.max_feature_size \in Nat /\ setup.max_context_size \in Nat
      /\ file \in Seq(LinesFor(setup))
      /\ InPageOf(Outer, sbuf, at, file, end, setup.pagesize, add)
      /\ \/ callers = <<>> /\ ~isRecursive(sbuf.pos0) /\ Outer = [sbuf |-> sbuf, at |-> at]
         \/ /\ isRecursive(sbuf.pos0) /\ sbuf.pos0.offset = 0
            /\ \E c \in Calls : callers = <<c>> /\ ~isRecursive(c.sbuf.pos0) /\ Outer = c
  BY <1>1, ScanHas
<1>3. pos \in Nat /\ next \in Nat /\ at <= pos /\ pos < next /\ pos < bufsize(sbuf)
  BY <1>1, WrittenAhead
<1>4. pos < sbuf.pagesize
  <2>1. sbuf.pagesize \in Nat /\ bufsize(sbuf) \in Nat
    BY <1>2, BufferHas
  <2> QED BY <1>3, <2>1 DEF InPage, InMargin
<1>5. shift(FeaturePos0(pos), add) = PlaceIn(sbuf.pos0, pos, add)
  BY <1>1, <1>2, PlaceWritten
<1>6. l[1] = PlaceIn(sbuf.pos0, pos, add)
  <2> DEFINE p == shift(FeaturePos0(pos), add)
             f == QuotedFeature(Feature(Hit.pos, Hit.len))
             c == QuotedContext(Context(Hit.pos, Hit.len))
  <2>1. l = <<p, f>> \o (IF setup.no_context \/ c = <<>> THEN <<>> ELSE <<c>>)
    BY DEF Line
  <2> HIDE DEF p, f, c, l
  <2>2. <<p, f>> \o <<>> = <<p, f>> /\ <<p, f>> \o <<c>> = <<p, f, c>>
    BY PairAnd
  <2>3. l[1] = p
    BY <2>1, <2>2
  <2> QED BY <1>5, <2>3 DEF p
<1>7. file' = Append(file, l) /\ NoneTwice(file) /\ AllBelow(file, end, add)
  BY DEF WriteLine, Apart
<1> HIDE DEF l
<1>8. CASE callers = <<>>
  <2>1. /\ ~isRecursive(sbuf.pos0) /\ Outer.sbuf = sbuf /\ Outer.at = at
        /\ AllBelow(file, base + at, add)
        /\ base + setup.pagesize = end /\ sbuf.pagesize <= setup.pagesize
    <3>1. ~isRecursive(sbuf.pos0) /\ Outer.sbuf = sbuf /\ Outer.at = at
      BY <1>2, <1>8
    <3> QED BY <1>2, <3>1 DEF InPageOf
  <2>2. l[1] = [path |-> <<>>, offset |-> base + pos + add]
    BY <1>6, <2>1 DEF PlaceIn
  <2>3. sbuf.pagesize \in Nat
    BY <1>2, BufferHas
  <2> HIDE DEF base, pos, next, add, end
  <2>4. base + pos < end /\ base + pos < base + next
    BY <1>2, <1>3, <1>4, <2>1, <2>3
  <2>5. /\ NoneTwice(Append(file, l)) /\ AllBelow(Append(file, l), base + next, add)
        /\ \A e \in Nat : AllBelow(file, e, add) /\ base + pos < e
                             => AllBelow(Append(file, l), e, add)
        /\ \A name : BelowIn(Append(file, l), <<base + pos, name>>, 0)
    BY <1>2, <1>3, <1>7, <2>1, <2>2, PageLine
  <2> QED BY <1>2, <1>7, <1>8, <2>4, <2>5 DEF base, pos, next, add, end
<1>9. CASE callers # <<>>
  <2>1. isRecursive(sbuf.pos0) /\ q # <<>>
    BY <1>2, <1>9 DEF isRecursive
  <2>2. /\ AllBelow(file, Outer.sbuf.pos0.offset + Outer.at, add)
        /\ q[1] < Outer.sbuf.pos0.offset + Outer.at /\ q[1] < end
        /\ BelowIn(file, q, at)
    BY <1>2, <2>1 DEF InPageOf
  <2>3. l[1] = [path |-> q, offset |-> pos]
    BY <1>6, <2>1 DEF PlaceIn
  <2> HIDE DEF q, pos, next, add, end
  <2>4. /\ NoneTwice(Append(file, l)) /\ BelowIn(Append(file, l), q, next)
        /\ \A n : AllBelow(file, n, add) /\ q[1] < n => AllBelow(Append(file, l), n, add)
    BY <1>2, <1>3, <1>7, <2>1, <2>2, <2>3, InsideLine
  <2> QED BY <1>7, <1>9, <2>2, <2>4 DEF q, next, add, end
<1> QED BY <1>8, <1>9

(* The end of a call: where nothing is recursed into, nothing is asked of  *)
(* the buffer, and behind a call that recursed is what it says of itself.  *)
LEMMA ReturnsApart ==
  ASSUME Typed, BuffersHold, pc = "scan", ScannerReturns,
         NoneTwice(file'), AllBelow(file', page * setup.pagesize, setup.offset_add),
         callers # <<>> =>
            /\ AllBelow(file', Outer.sbuf.pos0.offset + Outer.at, setup.offset_add)
            /\ Outer.sbuf.pos0.offset + setup.pagesize = page * setup.pagesize
            /\ Outer.sbuf.pagesize <= setup.pagesize
  PROVE  Apart'
<1>1. UNCHANGED <<setup, page>>
  BY DEF ScannerReturns
<1>2. CASE callers = <<>>
  <2>1. pc' = "client"
    BY <1>2 DEF ScannerReturns
  <2> QED BY <1>1, <2>1 DEF Apart
<1>3. CASE callers # <<>>
  <2>1. PICK c \in Calls : callers = <<c>> /\ ~isRecursive(c.sbuf.pos0)
    BY <1>3 DEF Typed, CallsTyped
  <2>2. Head(callers) = c /\ Tail(callers) = <<>> /\ callers[1] = c
    BY <2>1
  <2>3. Outer = c
    BY <1>3, <2>2 DEF Outer
  <2>4. sbuf' = c.sbuf /\ at' = c.at /\ callers' = <<>>
    BY <1>3, <2>2 DEF ScannerReturns
  <2>5. Outer'.sbuf = c.sbuf /\ Outer'.at = c.at
    BY <2>4 DEF Outer
  <2>6. InPageOf(Outer, sbuf, at, file, page * setup.pagesize, setup.pagesize, setup.offset_add)'
    BY <1>1, <1>3, <2>1, <2>3, <2>4, <2>5 DEF InPageOf
  <2> QED BY <1>1, <2>6 DEF Apart
<1> QED BY <1>2, <1>3

LEMMA NextPageApart ==
  ASSUME Typed, Apart, NextPage
  PROVE  Apart'
<1> DEFINE ps == setup.pagesize
           add == setup.offset_add
           first == page * ps
           b == PageAt(page)
<1>1. /\ setup \in Setups /\ image \in Seq(Bytes) /\ page \in Nat
      /\ ps \in Nat /\ add \in Nat /\ setup.max_feature_size \in Nat /\ setup.max_context_size \in Nat
      /\ file \in Seq(LinesFor(setup))
  BY SetupHas, LenProperties DEF Typed, ImageTyped, PagesTyped, LinesTyped
<1>2. /\ pc' = "scan" /\ page' = page + 1 /\ sbuf' = b /\ at' = 0 /\ callers' = <<>>
      /\ UNCHANGED <<setup, file>>
  BY DEF NextPage, Typed, PagesTyped
<1>3. first \in Nat /\ (page + 1) * ps = first + ps
  <2>1. \A n, m \in Nat : n * m \in Nat /\ (n + 1) * m = n * m + m
    OBVIOUS
  <2> HIDE DEF ps
  <2> QED BY <1>1, <2>1
<1>4. b.pos0 = [path |-> <<>>, offset |-> first] /\ b.pagesize <= ps
  <2> DEFINE s == SubSeq(image, first + 1, Min({first + ps + setup.margin, Len(image)}))
             p == pos0_t(<<>>, first)
  <2>1. b = sbuf_new(p, s, ps)
    BY DEF PageAt
  <2>2. s \in Seq(Bytes)
    <3>1. first + ps + setup.margin \in Nat
      <4>1. setup.margin \in Nat
        BY <1>1, SetupHas
      <4> HIDE DEF first, ps
      <4> QED BY <1>1, <1>3, <4>1
    <3> HIDE DEF first, ps
    <3> QED BY <1>1, <1>3, <3>1, CutOut
  <2>3. Len(s) \in Nat
    BY <2>2, LenProperties
  <2> HIDE DEF s, p
  <2>4. b.pos0 = p /\ b.pagesize = Min({Len(s), ps})
    BY <2>1 DEF sbuf_new, sbuf_t
  <2> HIDE DEF b, ps
  <2>5. Min({Len(s), ps}) <= ps
    BY <1>1, <2>3, MinOfTwo
  <2> QED BY <2>4, <2>5 DEF p, pos0_t
<1>5. AllBelow(file, first, add) /\ NoneTwice(file)
  BY DEF Apart
<1> DEFINE end == (page + 1) * ps
<1> HIDE DEF b, first
<1>6. AllBelow(file, end, add)
  <2> HIDE DEF ps, add
  <2>1. end \in Nat /\ first <= end
    BY <1>1, <1>3
  <2> HIDE DEF end
  <2> QED BY <1>1, <1>3, <1>5, <2>1, BelowMore DEF ps, add
<1>7. Outer' = [sbuf |-> b, at |-> 0]
  BY <1>2 DEF Outer
<1>8. InPageOf([sbuf |-> b, at |-> 0], b, 0, file, end, ps, add)
  <2>1. first + 0 = first
    BY <1>3
  <2> HIDE DEF ps, add, end
  <2>2. end = first + ps
    BY <1>3 DEF end
  <2> QED BY <1>4, <1>5, <2>1, <2>2 DEF InPageOf, isRecursive
<1> QED BY <1>2, <1>5, <1>6, <1>7, <1>8 DEF Apart

(* The place of what is recursed into.                                     *)
LEMMA ChildPlace ==
  ASSUME NEW b, NEW pos, NEW name, ~isRecursive(b.pos0)
  PROVE  ChildOf(b, pos, name).pos0 = [path |-> <<b.pos0.offset + pos, name>>, offset |-> 0]
<1>1. <<>> \o <<b.pos0.offset + pos, name>> = <<b.pos0.offset + pos, name>>
  OBVIOUS
<1>2. ChildPos0(b, pos, name) = [path |-> <<b.pos0.offset + pos, name>>, offset |-> 0]
  BY <1>1 DEF isRecursive, ChildPos0, PlusSubdir, PlusOffset, pos0_t
<1>3. ChildOf(b, pos, name).pos0 = ChildPos0(b, pos, name)
  BY DEF ChildOf, new_slice, sbuf_new, sbuf_t
<1> QED BY <1>2, <1>3

LEMMA WriteApart ==
  ASSUME Typed, BuffersHold, ShiftKeeps, Apart, WriteFeature
  PROVE  Apart'
<1> DEFINE add == setup.offset_add
           end == page * setup.pagesize
           size == setup.pagesize
           base == sbuf.pos0.offset
           pos == Hit.pos
           next == Hit.next
<1>1. InPage /\ ~IsEmpty /\ WriteLine /\ pc = "scan" /\ pc' = "scan" /\ UNCHANGED <<setup, page>> /\ Found
  BY DEF WriteFeature, InPage, Found, Scanning
<1>2. /\ NoneTwice(file') /\ AllBelow(file', end, add)
      /\ callers = <<>> =>
            /\ AllBelow(file', base + next, add)
            /\ base + pos < base + next
            /\ base + pos < end
            /\ \A name : BelowIn(file', <<base + pos, name>>, 0)
      /\ callers # <<>> =>
            /\ AllBelow(file', Outer.sbuf.pos0.offset + Outer.at, add)
            /\ BelowIn(file', sbuf.pos0.path, next)
  BY <1>1, WrittenApart
<1>3. /\ sbuf \in Buffers /\ InPageOf(Outer, sbuf, at, file, end, size, add)
      /\ \/ callers = <<>> /\ ~isRecursive(sbuf.pos0) /\ Outer = [sbuf |-> sbuf, at |-> at]
         \/ isRecursive(sbuf.pos0) /\ \E c \in Calls : callers = <<c>> /\ ~isRecursive(c.sbuf.pos0) /\ Outer = c
  BY <1>1, ScanHas
<1>4. ASSUME InPageOf(Outer', sbuf', at', file', end, size, add)
      PROVE  Apart'
  BY <1>1, <1>2, <1>4 DEF Apart
<1> HIDE DEF end, size, add
<1>5. CASE UNCHANGED <<sbuf, callers>> /\ at' = next
  <2>1. CASE callers = <<>>
    <3>1. Outer.sbuf = sbuf /\ ~isRecursive(sbuf.pos0)
      BY <1>3, <2>1
    <3>2. Outer' = [sbuf |-> sbuf, at |-> next]
      BY <1>5, <2>1 DEF Outer
    <3>3. InPageOf([sbuf |-> sbuf, at |-> next], sbuf, next, file', end, size, add)
      BY <1>2, <1>3, <2>1, <3>1 DEF InPageOf
    <3> QED BY <1>4, <1>5, <3>2, <3>3
  <2>2. CASE callers # <<>>
    <3>1. Outer' = Outer
      BY <1>5, <2>2 DEF Outer
    <3>2. InPageOf(Outer, sbuf, next, file', end, size, add)
      BY <1>2, <1>3, <2>2 DEF InPageOf
    <3> QED BY <1>4, <1>5, <3>1, <3>2
  <2> QED BY <2>1, <2>2
<1>6. CASE Recurses /\ RecurseInto(Child(pos))
  <2> DEFINE new == ChildOf(sbuf, pos, setup.recurse)
             c == [sbuf |-> sbuf, at |-> next]
  <2>1. ~isRecursive(sbuf.pos0) /\ setup.recurse \in Decoders
    BY <1>6, SetupHas DEF Recurses, Typed, ImageTyped
  <2>2. callers = <<>> /\ Outer.sbuf = sbuf
    BY <1>3, <2>1
  <2>3. new.pos0 = [path |-> <<base + pos, setup.recurse>>, offset |-> 0]
    BY <2>1, ChildPlace
  <2>4. Child(pos) = new
    BY <2>1, ChildIs
  <2> HIDE DEF new
  <2>5. sbuf' = new /\ callers' = <<c>> /\ at' = 0
    BY <1>6, <2>2, <2>4 DEF RecurseInto
  <2>6. Outer' = c
    <3> HIDE DEF c
    <3>1. <<c>> # <<>> /\ <<c>>[1] = c
      OBVIOUS
    <3> QED BY <2>5, <3>1 DEF Outer
  <2>7. InPageOf(c, new, 0, file', end, size, add)
    <3> DEFINE q == <<base + pos, setup.recurse>>
    <3>1. q[1] = base + pos /\ new.pos0.path = q /\ new.pos0.offset = 0
      BY <2>3
    <3>2. BelowIn(file', q, 0)
      BY <1>2, <2>2
    <3> HIDE DEF q
    <3> QED BY <1>2, <1>3, <2>2, <3>1, <3>2 DEF InPageOf
  <2> QED BY <1>4, <2>5, <2>6, <2>7
<1> QED BY <1>5, <1>6 DEF WriteFeature

LEMMA StepApart ==
  ASSUME Typed, BuffersHold, ShiftKeeps, Apart, [Next]_vars
  PROVE  Apart'
<1>1. CASE NextPage
  BY <1>1, NextPageApart
<1>2. ASSUME pc = "scan", ScannerReturns, file' = file
      PROVE  Apart'
  <2>1. callers # <<>> =>
            /\ AllBelow(file', Outer.sbuf.pos0.offset + Outer.at, setup.offset_add)
            /\ Outer.sbuf.pos0.offset + setup.pagesize = page * setup.pagesize
            /\ Outer.sbuf.pagesize <= setup.pagesize
    BY <1>2 DEF Apart, InPageOf
  <2>2. NoneTwice(file') /\ AllBelow(file', page * setup.pagesize, setup.offset_add)
    BY <1>2 DEF Apart
  <2> QED BY <1>2, <2>1, <2>2, ReturnsApart
<1>3. CASE SkipScanner \/ FindNothing \/ ThrowOutside \/ ThrowBeforeLine
  <2>1. pc = "scan" /\ ScannerReturns /\ file' = file
    BY <1>3 DEF SkipScanner, FindNothing, ThrowOutside, ThrowBeforeLine, Alert, Scanning, InPage, Found
  <2> QED BY <1>2, <2>1
<1>4. CASE WriteNothing
  <2>1. UNCHANGED <<setup, page, sbuf, callers, file>> /\ pc' = pc /\ pc = "scan" /\ at' = Hit.next /\ Found
    BY <1>4 DEF WriteNothing, Found, Scanning
  <2> DEFINE add == setup.offset_add
             end == page * setup.pagesize
             size == setup.pagesize
             base == sbuf.pos0.offset
             next == Hit.next
  <2>2. /\ base \in Nat /\ at \in Nat /\ next \in Nat /\ at <= next
        /\ add \in Nat /\ file \in Seq(LinesFor(setup))
        /\ setup.max_feature_size \in Nat /\ setup.max_context_size \in Nat
        /\ InPageOf(Outer, sbuf, at, file, end, size, add)
    <3>1. Hit.pos \in Nat /\ next \in Nat
      BY <2>1, FeatureType DEF Found
    <3>2. Forward(Hit, at)
      BY <2>1, HitAhead DEF Found, Typed, ImageTyped, CallsTyped
    <3>3. at \in Nat
      BY DEF Typed, CallsTyped
    <3>4. at <= next
      BY <3>1, <3>2, <3>3 DEF Forward
    <3> QED BY <2>1, <3>1, <3>4, ScanHas
  <2>3. ASSUME InPageOf(Outer', sbuf', at', file', end, size, add)
        PROVE  Apart'
    BY <2>1, <2>3 DEF Apart
  <2> HIDE DEF add, end, size
  <2>4. InPageOf(Outer, sbuf, next, file, end, size, add)
    <3> HIDE DEF next
    <3>1. \A path : BelowIn(file, path, at) => BelowIn(file, path, next)
      BY <2>2, BelowMore
    <3> QED BY <2>2, <3>1 DEF InPageOf
  <2>5. CASE callers # <<>>
    <3>1. Outer' = Outer
      BY <2>1, <2>5 DEF Outer
    <3> QED BY <2>1, <2>3, <2>4, <3>1
  <2>6. CASE callers = <<>>
    <3>1. Outer.sbuf = sbuf /\ Outer.at = at /\ Outer' = [sbuf |-> sbuf, at |-> next]
      BY <2>1, <2>6 DEF Outer
    <3>2. AllBelow(file, base + next, add)
      <4>1. AllBelow(file, base + at, add)
        BY <2>2, <3>1 DEF InPageOf
      <4> DEFINE n == base + at
                 m == base + next
      <4> HIDE DEF next, base
      <4>2. n \in Nat /\ m \in Nat /\ n <= m
        BY <2>2
      <4>3. AllBelow(file, n, add)
        BY <4>1
      <4> HIDE DEF n, m
      <4>4. AllBelow(file, m, add)
        BY <2>2, <4>2, <4>3, BelowMore
      <4> QED BY <4>4 DEF m
    <3>3. ~isRecursive(sbuf.pos0)
      BY <2>1, <2>6 DEF Typed, CallsTyped
    <3>4. InPageOf([sbuf |-> sbuf, at |-> next], sbuf, next, file, end, size, add)
      BY <2>2, <3>1, <3>2, <3>3 DEF InPageOf
    <3> QED BY <2>1, <2>3, <3>1, <3>4
  <2> QED BY <2>5, <2>6
<1>5. CASE WriteFeature
  BY <1>5, WriteApart
<1>6. CASE ThrowAfterLine
  <2>1. pc = "scan" /\ ScannerReturns /\ InPage /\ ~IsEmpty /\ WriteLine
    BY <1>6 DEF ThrowAfterLine, Alert, InPage, Found, Scanning
  <2>2. /\ NoneTwice(file') /\ AllBelow(file', page * setup.pagesize, setup.offset_add)
        /\ callers # <<>> => AllBelow(file', Outer.sbuf.pos0.offset + Outer.at, setup.offset_add)
    BY <2>1, WrittenApart
  <2>3. /\ Outer.sbuf.pos0.offset + setup.pagesize = page * setup.pagesize
        /\ Outer.sbuf.pagesize <= setup.pagesize
    BY <2>1 DEF Apart, InPageOf
  <2> QED BY <2>1, <2>2, <2>3, ReturnsApart
<1>7. CASE Shutdown \/ ShutdownThrows
  <2>1. pc' # "scan" /\ UNCHANGED <<setup, page, file>>
    BY <1>7 DEF Shutdown, ShutdownThrows
  <2> QED BY <2>1 DEF Apart
<1>8. CASE Done \/ UNCHANGED vars
  BY <1>8 DEF Done, vars, Apart, Outer, InPageOf
<1> QED BY <1>1, <1>3, <1>4, <1>5, <1>6, <1>7, <1>8 DEF Next

(* No place of the image, nor of what is decoded of it, is recorded twice, *)
(* wherever the pages part it, in however many calls: see OncePerPlace.    *)
(* Where the recorder shifts a path that was recursed into, shift() drops  *)
(* the last digit of its offset, and two places may come to look alike.    *)
THEOREM LinesApart ==
  Spec => [](setup.recurse = "no" \/ setup.offset_add = 0 => OncePerPlace)
<1> DEFINE Once == ShiftKeeps => OncePerPlace
           Inv == Typed /\ BuffersHold /\ LinesHold /\ (ShiftKeeps => Apart)
<1>1. Init => Inv
  <2> SUFFICES ASSUME Init PROVE Inv
    OBVIOUS
  <2>1. file = <<>> /\ pc = "client" /\ Len(<<>>) = 0 /\ \A i \in 1 .. 0 : FALSE
    BY DEF Init
  <2>2. Apart
    BY <2>1 DEF Apart, AllBelow, NoneTwice
  <2> QED BY <2>2, InitTyped, InitHolds
<1>2. Inv /\ [Next]_vars => Inv'
  <2> SUFFICES ASSUME Inv, [Next]_vars PROVE Inv'
    OBVIOUS
  <2>1. Typed' /\ BuffersHold' /\ LinesHold'
    BY StepTyped, StepHolds
  <2>2. setup' = setup
    BY DEF Next, vars, NextPage, SkipScanner, FindNothing, WriteNothing, WriteFeature, ThrowOutside,
           ThrowBeforeLine, ThrowAfterLine, Shutdown, ShutdownThrows, Done, Alert, ScannerReturns
  <2>3. ASSUME ShiftKeeps'
        PROVE  Apart'
    <3>1. ShiftKeeps
      BY <2>2, <2>3 DEF ShiftKeeps
    <3> QED BY <3>1, StepApart
  <2> QED BY <2>1, <2>3
<1>3. Inv => Once
  <2>1. Apart => OncePerPlace
    BY DEF Apart, NoneTwice, OncePerPlace, Written
  <2> QED BY <2>1
<1>4. Spec => []Once
  BY <1>1, <1>2, <1>3, PTL DEF Spec
<1> QED BY <1>4 DEF ShiftKeeps

-----------------------------------------------------------------------------
(* A feature that is not empty is not quoted away, unless it begins like   *)
(* UTF-16 with a byte order mark.                                          *)
LEMMA JoinedSome ==
  ASSUME NEW P \in Seq(Seq(Bytes)), \A i \in 1 .. Len(P) : Len(P[i]) <= 4,
         NEW k \in 1 .. Len(P), P[k] # <<>>
  PROVE  Joined(P) # <<>>
<1> DEFINE G == {n \in 0 .. Len(P) : n >= k => Joined(SubSeq(P, 1, n)) # <<>>}
<1>1. Len(P) \in Nat /\ k \in Nat /\ k >= 1 /\ k <= Len(P)
  BY LenProperties
<1>2. 0 \in G
  BY <1>1
<1>3. ASSUME NEW n \in 0 .. Len(P) - 1, n \in G
      PROVE  n + 1 \in G
  <2> DEFINE a == SubSeq(P, 1, n)
             x == P[n + 1]
  <2>1. a \in Seq(Seq(Bytes)) /\ x \in Seq(Bytes) /\ SubSeq(P, 1, n + 1) = Append(a, x)
    BY FirstAndNext
  <2>2. Len(x) <= 4
    BY <1>1
  <2> HIDE DEF a, x
  <2>3. Joined(Append(a, x)) = Joined(a) \o x
    BY <2>1, <2>2, JoinedAppend
  <2>4. Joined(a) \in Seq(Bytes)
    BY <2>1, LenProperties, JoinedBytes
  <2>5. Joined(a) # <<>> \/ x # <<>> => Joined(a) \o x # <<>>
    BY <2>1, <2>4, LongerConcat
  <2>6. n + 1 >= k => n >= k \/ n + 1 = k
    BY <1>1
  <2>7. n + 1 >= k => Joined(a) # <<>> \/ x # <<>>
    BY <1>3, <2>6 DEF a, x
  <2>8. n + 1 >= k => Joined(SubSeq(P, 1, n + 1)) # <<>>
    BY <2>1, <2>3, <2>5, <2>7
  <2> QED BY <1>1, <2>8
<1> HIDE DEF G
<1>4. Len(P) \in G
  BY <1>1, <1>2, <1>3, UpTo
<1>5. SubSeq(P, 1, Len(P)) = P
  OBVIOUS
<1> QED BY <1>1, <1>4, <1>5 DEF G

LEMMA EscapedSome ==
  ASSUME NEW s \in Seq(Bytes), s # <<>>, NEW bad \in BOOLEAN, NEW backslash \in BOOLEAN
  PROVE  validateOrEscapeUTF8(s, bad, backslash, TRUE) # <<>>
<1> DEFINE P == Pieces(s, backslash)
<1>1. /\ P \in Seq(Seq(Bytes)) /\ Len(P) = Len(s) /\ \A i \in 1 .. Len(P) : Len(P[i]) <= 4
  BY PiecesType
<1>2. Len(s) \in Nat /\ Len(s) # 0 /\ DOMAIN s = 1 .. Len(s)
  BY LenProperties, EmptySeq
<1>3. 1 \in 1 .. Len(s) /\ 1 \in Starts(s)
  BY <1>2 DEF Starts
<1>4. P[1] = Piece(s, 1, backslash)
  BY <1>2, <1>3 DEF Pieces
<1>5. Piece(s, 1, backslash) # <<>>
  <2>1. CASE Piece(s, 1, backslash) = octal_escape(s[1])
    <3>1. \A a, b, c, d : <<a, b, c, d>> # <<>>
      OBVIOUS
    <3> QED BY <2>1, <3>1 DEF octal_escape
  <2>2. CASE /\ Piece(s, 1, backslash) = SubSeq(s, 1, 1 + Reach(s, 1) - 1)
             /\ ValidSize(s, 1) # 0
    <3>1. Reach(s, 1) \in Nat /\ Reach(s, 1) >= 1 /\ 1 + Reach(s, 1) - 1 <= Len(s)
      BY <1>3, <2>2, ReachIs
    <3> DEFINE r == 1 + Reach(s, 1) - 1
    <3>2. r \in 1 .. Len(s)
      BY <1>2, <3>1
    <3> HIDE DEF r
    <3>3. Len(SubSeq(s, 1, r)) = r
      BY <1>2, <3>2
    <3>4. Len(<<>>) = 0
      OBVIOUS
    <3> QED BY <2>2, <3>2, <3>3, <3>4 DEF r
  <2> QED BY <1>3, <2>1, <2>2, PieceIs
<1>6. validateOrEscapeUTF8(s, bad, backslash, TRUE) = Joined(P)
  BY DEF validateOrEscapeUTF8, Pieces
<1> HIDE DEF P
<1>7. Joined(P) # <<>>
  BY <1>1, <1>3, <1>4, <1>5, JoinedSome
<1> QED BY <1>6, <1>7

(* What looks like UTF-16, but has no mark, begins with a character.       *)
LEMMA EncodedFirst ==
  ASSUME NEW u \in Nat, u > 0, u < 1114112
  PROVE  Len(Encode(u)) >= 1 /\ Encode(u)[1] \in 1 .. 255
<1> DEFINE b1 == 128 + ((u \div 1) % 64)
           b2 == 128 + ((u \div 64) % 64)
           b3 == 128 + ((u \div 4096) % 64)
           q2 == u \div 64
           q3 == u \div 4096
           q4 == u \div 262144
           a2 == 192 + q2
           a3 == 224 + q3
           a4 == 240 + q4
           P == u < 128
           Q == u \in 128 .. 2047
           R == u \in 2048 .. 65535
<1>0. /\ P => u < 128
      /\ Q => u >= 128 /\ u <= 2047
      /\ R => u >= 2048 /\ u <= 65535
  <2>1. R => u >= 2048
    BY SMT
  <2>2. R => u <= 65535
    BY SMT
  <2>3. Q => u >= 128 /\ u <= 2047
    BY SMT
  <2> HIDE DEF R, Q
  <2> QED BY <2>1, <2>2, <2>3, SMT
<1>1. /\ q2 \in Nat /\ 64 * q2 <= u
      /\ q3 \in Nat /\ 4096 * q3 <= u
      /\ q4 \in Nat /\ 262144 * q4 <= u
  BY SMT
<1>3. Encode(u) = CASE P -> <<u>> [] Q -> <<a2, b1>> [] R -> <<a3, b2, b1>>
                    [] OTHER -> <<a4, b3, b2, b1>>
  BY SMT DEF Encode
<1> HIDE DEF q2, q3, q4, P, Q, R
<1>2. ~(P /\ Q) /\ ~(P /\ R) /\ ~(Q /\ R)
  BY <1>0, SMT
<1>a. /\ P => u \in 1 .. 255
      /\ Q => a2 \in 1 .. 255
      /\ R => a3 \in 1 .. 255
      /\ a4 \in 1 .. 255
  BY <1>0, <1>1, SMT
<1> HIDE DEF a2, a3, a4, b1, b2, b3
<1>4. \/ P /\ Encode(u) = <<u>>
      \/ Q /\ Encode(u) = <<a2, b1>>
      \/ R /\ Encode(u) = <<a3, b2, b1>>
      \/ Encode(u) = <<a4, b3, b2, b1>>
  BY ONLY <1>2, <1>3, Zenon
<1>5. \A a, b, c, d :
         /\ Len(<<a>>) = 1 /\ <<a>>[1] = a
         /\ Len(<<a, b>>) = 2 /\ <<a, b>>[1] = a
         /\ Len(<<a, b, c>>) = 3 /\ <<a, b, c>>[1] = a
         /\ Len(<<a, b, c, d>>) = 4 /\ <<a, b, c, d>>[1] = a
  BY SMT
<1>6. CASE P /\ Encode(u) = <<u>>
  BY <1>a, <1>5, <1>6, SMT
<1>7. CASE Q /\ Encode(u) = <<a2, b1>>
  BY <1>a, <1>5, <1>7, SMT
<1>8. CASE R /\ Encode(u) = <<a3, b2, b1>>
  BY <1>a, <1>5, <1>8, SMT
<1>9. CASE Encode(u) = <<a4, b3, b2, b1>>
  BY <1>a, <1>5, <1>9, SMT
<1> QED BY <1>4, <1>6, <1>7, <1>8, <1>9, SMT

LEMMA FirstPiece ==
  ASSUME NEW p, Len(p) \in Nat, Len(p) >= 1, Len(p[1]) >= 1, p[1][1] \in 1 .. 255
  PROVE  SelectIn(Joined(p), 1 .. 255) # <<>>
<1> DEFINE f == BytesOf(p)
           n == 4 * Len(p)
           T == {NthOf(p, k) : k \in 1 .. n}
<1>1. n \in Nat /\ 1 \in 1 .. n
  OBVIOUS
<1>2. f \in [1 .. n -> T]
  BY DEF BytesOf
<1>3. f[1] = p[1][1]
  <2>1. (1 + 3) \div 4 = 1 /\ 1 + ((1 - 1) % 4) = 1
    OBVIOUS
  <2>2. f[1] = NthOf(p, 1)
    BY <1>1 DEF BytesOf
  <2> QED BY <2>1, <2>2 DEF NthOf
<1> HIDE DEF f, T
<1>4. f \in Seq(T) /\ Len(f) = n
  <2> HIDE DEF n
  <2> QED BY <1>1, <1>2, SeqOfFunction
<1>5. f # <<>>
  BY <1>1, <1>4, EmptySeq
<1>6. f[1] \in Bytes
  BY <1>3 DEF Bytes
<1>7. SelectIn(f, Bytes) # <<>> /\ SelectIn(f, Bytes)[1] = f[1]
  BY <1>4, <1>5, <1>6, SelectFirst
<1>8. SelectIn(f, Bytes) \in Seq(Bytes \cap T)
  BY <1>4, SelectType
<1>9. SelectIn(SelectIn(f, Bytes), 1 .. 255) # <<>>
  BY <1>3, <1>7, <1>8, SelectFirst
<1> QED BY <1>9, JoinedIs DEF f

(* The byte order mark of UTF-16.                                          *)
Marked(f) == IsPrefix(<<255, 254>>, f) \/ IsPrefix(<<254, 255>>, f)

LEMMA WordIs ==
  ASSUME NEW low \in Bytes, low # 0, NEW high \in Bytes
  PROVE  Unit(low, high) \in Nat /\ Unit(low, high) > 0 /\ Unit(low, high) < 65536
<1>1. low \in Nat /\ low > 0 /\ low < 256 /\ high \in Nat /\ high < 256
  BY SMT DEF Bytes
<1>2. CASE low < 128
  <2> DEFINE u == high * 256 + low
  <2>1. u \in Nat /\ u > 0 /\ u < 65536
    BY <1>1, SMT
  <2>2. Unit(low, high) = u
    BY <1>2, SMT DEF Unit
  <2> HIDE DEF u
  <2> QED BY ONLY <2>1, <2>2, SMT
<1>3. CASE ~(low < 128)
  <2> DEFINE u == 65280 + low
  <2>1. u \in Nat /\ u > 0 /\ u < 65536
    BY <1>1, SMT
  <2>2. Unit(low, high) = u
    BY <1>3, SMT DEF Unit
  <2> HIDE DEF u
  <2> QED BY ONLY <2>1, <2>2, SMT
<1> QED BY <1>2, <1>3, SMT

(* The first code unit is not a null.                                      *)
LEMMA FirstWord ==
  ASSUME NEW f \in Seq(Bytes), f # <<>>, ~Marked(f), looks_like_utf16(f) # "none"
  PROVE  LET order == looks_like_utf16(f)
         IN  /\ CodeUnits(f, order)[1] \in Nat /\ CodeUnits(f, order)[1] > 0
             /\ CodeUnits(f, order)[1] < 65536
             /\ Len(CodeUnits(f, order)) \in Nat /\ Len(CodeUnits(f, order)) >= 1
<1> DEFINE order == looks_like_utf16(f)
           even == Cardinality(Nulls(f, 1))
           odd == Cardinality(Nulls(f, 0))
           l == Len(f)
           u == CodeUnits(f, order)
<1>1. l \in Nat /\ l >= 1 /\ \A i \in 1 .. l : f[i] \in Bytes
  BY LenProperties, EmptySeq
<1>2. ~IsPrefix(<<255, 254>>, f) /\ ~IsPrefix(<<254, 255>>, f)
  BY DEF Marked
<1>3. \/ order = "little" /\ even = 0 /\ odd > 1
      \/ order = "big" /\ odd = 0 /\ even > 1
  BY <1>2 DEF looks_like_utf16
<1>4. ASSUME NEW parity
      PROVE  IsFiniteSet(Nulls(f, parity))
  <2>1. 2 * (l \div 2) \in Int
    BY <1>1
  <2>2. IsFiniteSet(1 .. 2 * (l \div 2))
    BY <2>1, FS_Interval
  <2> QED BY <2>2, FS_Subset DEF Nulls
<1>5. /\ order = "little" => Nulls(f, 1) = {} /\ Nulls(f, 0) # {}
      /\ order = "big" => Nulls(f, 0) = {} /\ Nulls(f, 1) # {}
  <2>1. (even = 0 <=> Nulls(f, 1) = {}) /\ (odd = 0 <=> Nulls(f, 0) = {})
    BY <1>4, FS_EmptySet
  <2> QED BY <1>3, <2>1
<1>6. l >= 2 /\ 1 \in 1 .. 2 * (l \div 2) /\ 2 \in 1 .. 2 * (l \div 2)
  <2>1. PICK parity : Nulls(f, parity) # {}
    BY <1>3, <1>5
  <2>2. 1 .. 2 * (l \div 2) # {}
    BY <2>1 DEF Nulls
  <2> DEFINE h == l \div 2
  <2>3. h \in Nat /\ 2 * h <= l
    BY <1>1
  <2> HIDE DEF h, l
  <2>4. h >= 1
    BY <2>2, <2>3 DEF h
  <2> QED BY <1>1, <2>3, <2>4 DEF h
<1>7. f[1] \in Bytes /\ f[2] \in Bytes /\ (order = "little" => f[1] # 0) /\ (order = "big" => f[2] # 0)
  <2>1. 1 % 2 = 1 /\ 2 % 2 = 0
    OBVIOUS
  <2> QED BY <1>1, <1>5, <1>6, <2>1 DEF Nulls
<1> DEFINE n == (l + 1) \div 2
<1>8. n \in Nat /\ n >= 1
  BY <1>1
<1>9. Len(u) = n /\ u[1] = IF order = "little" THEN Unit(f[1], f[2]) ELSE Unit(f[2], f[1])
  <2>1. 2 * 1 - 1 = 1 /\ 2 * 1 = 2 /\ 1 <= l /\ 2 <= l /\ 1 \in 1 .. n
    BY <1>1, <1>6, <1>8
  <2> HIDE DEF n
  <2> QED BY <1>8, <2>1 DEF CodeUnits, n
<1> HIDE DEF n, u, l, order
<1>10. u[1] \in Nat /\ u[1] > 0 /\ u[1] < 65536
  <2>1. CASE order = "little"
    <3>1. /\ Unit(f[1], f[2]) \in Nat /\ Unit(f[1], f[2]) > 0 /\ Unit(f[1], f[2]) < 65536
      BY ONLY <1>7, <2>1, WordIs, SMT
    <3> QED BY ONLY <1>9, <2>1, <3>1, SMT
  <2>2. CASE order = "big"
    <3>1. /\ Unit(f[2], f[1]) \in Nat /\ Unit(f[2], f[1]) > 0 /\ Unit(f[2], f[1]) < 65536
      BY ONLY <1>7, <2>2, WordIs, SMT
    <3> QED BY ONLY <1>9, <2>2, <3>1, SMT
  <2> QED BY ONLY <1>3, <2>1, <2>2, SMT
<1> QED BY ONLY <1>8, <1>9, <1>10, SMT DEF u, order

LEMMA WordsType ==
  ASSUME NEW f \in Seq(Bytes), NEW order, NEW k \in 1 .. Len(CodeUnits(f, order))
  PROVE  CodeUnits(f, order)[k] \in Nat
<1> DEFINE byte(i) == IF i <= Len(f) THEN f[i] ELSE 0
           n == (Len(f) + 1) \div 2
<1>1. n \in Nat /\ Len(f) \in Nat
  BY LenProperties
<1>2. Len(CodeUnits(f, order)) = n
  BY <1>1 DEF CodeUnits
<1>3. k \in Nat /\ k >= 1
  BY <1>1, <1>2
<1>4. ASSUME NEW i \in Nat, i >= 1
      PROVE  byte(i) \in Bytes
  <2>1. CASE i <= Len(f)
    <3>1. i \in 1 .. Len(f)
      BY <1>1, <1>4, <2>1
    <3> QED BY <2>1, <3>1, ElementOfSeq
  <2>2. CASE ~(i <= Len(f))
    BY <2>2 DEF Bytes
  <2> QED BY <2>1, <2>2
<1>5. CodeUnits(f, order)[k] = IF order = "little" THEN Unit(byte(2 * k - 1), byte(2 * k))
                               ELSE Unit(byte(2 * k), byte(2 * k - 1))
  BY <1>1, <1>2 DEF CodeUnits
<1> HIDE DEF byte
<1>6. 2 * k \in Nat /\ 2 * k >= 1 /\ 2 * k - 1 \in Nat /\ 2 * k - 1 >= 1
  BY <1>3
<1>7. byte(2 * k) \in Bytes /\ byte(2 * k - 1) \in Bytes
  BY <1>4, <1>6
<1>8. ASSUME NEW low \in Bytes, NEW high \in Bytes
      PROVE  Unit(low, high) \in Nat
  BY SMT DEF Unit, Bytes
<1> QED BY <1>5, <1>7, <1>8

LEMMA PairIs ==
  ASSUME NEW v \in Nat, NEW w \in Nat, IsLead(v), IsTrail(w)
  PROVE  LET u == 65536 + (v - 55296) * 1024 + (w - 56320)
         IN  u \in Nat /\ u > 0 /\ u < 1114112
<1> DEFINE a == v - 55296
           c == w - 56320
           u == 65536 + a * 1024 + c
<1>1. a \in Nat /\ a <= 1023
  BY SMT DEF IsLead
<1>2. c \in Nat /\ c <= 1023
  BY SMT DEF IsTrail
<1> HIDE DEF a, c
<1>3. u \in Nat
  BY <1>1, <1>2, SMT
<1>4. u > 0
  BY <1>1, <1>2, SMT
<1>5. u < 1114112
  BY <1>1, <1>2, SMT
<1> HIDE DEF u
<1>6. u \in Nat /\ u > 0 /\ u < 1114112
  BY <1>3, <1>4, <1>5
<1> QED BY <1>6 DEF u, a, c

LEMMA ConvertedSome ==
  ASSUME NEW f \in Seq(Bytes), f # <<>>, ~Marked(f), looks_like_utf16(f) # "none",
         ~ConvertThrows(f, looks_like_utf16(f))
  PROVE  convert_utf16_to_utf8(f, looks_like_utf16(f)) # <<>>
<1> DEFINE order == looks_like_utf16(f)
           u == CodeUnits(f, order)
           high == 65536 + (u[1] - 55296) * 1024 + (u[2] - 56320)
           p == [k \in DOMAIN u |->
                     CASE IsLead(u[k]) ->
                            Encode(65536 + (u[k] - 55296) * 1024 + (u[k + 1] - 56320))
                       [] IsTrail(u[k]) -> <<>>
                       [] OTHER -> Encode(u[k])]
<1>1. u[1] \in Nat /\ u[1] > 0 /\ u[1] < 65536 /\ Len(u) \in Nat /\ Len(u) >= 1
  BY FirstWord, SMT
<1>2. DOMAIN u = 1 .. Len(u)
  <2>1. (Len(f) + 1) \div 2 \in Nat
    BY LenProperties
  <2> QED BY <2>1 DEF CodeUnits
<1>3. convert_utf16_to_utf8(f, order) = SelectIn(Joined(p), 1 .. 255)
  BY DEF convert_utf16_to_utf8, utf16to8
<1>4. 1 \in 1 .. Len(u) /\ ~BadUTF16(u)
  BY <1>1, SMT DEF ConvertThrows
<1> HIDE DEF u
<1>5. ~IsTrail(u[1]) /\ (IsLead(u[1]) => IsTrail(u[2]))
  <2>1. \A k \in 1 .. Len(u) : /\ ~(IsLead(u[k]) /\ ~(k < Len(u) /\ IsTrail(u[k + 1])))
                               /\ ~(IsTrail(u[k]) /\ ~(k > 1 /\ IsLead(u[k - 1])))
    BY <1>4 DEF BadUTF16
  <2>2. ~(1 > 1) /\ 1 + 1 = 2
    OBVIOUS
  <2> QED BY <1>4, <2>1, <2>2
<1>6. Len(p) \in Nat /\ Len(p) >= 1
  BY <1>1, <1>2, SMT
<1>7. p[1] = IF IsLead(u[1]) THEN Encode(high) ELSE Encode(u[1])
  <2> DEFINE next == 1 + 1
  <2>1. next = 2
    OBVIOUS
  <2>2. p[1] = CASE IsLead(u[1]) -> Encode(65536 + (u[1] - 55296) * 1024 + (u[next] - 56320))
                 [] IsTrail(u[1]) -> <<>>
                 [] OTHER -> Encode(u[1])
    BY <1>2, <1>4, SMT
  <2> HIDE DEF next, p
  <2>3. Encode(65536 + (u[1] - 55296) * 1024 + (u[next] - 56320)) = Encode(high)
    BY <2>1, SMT
  <2> HIDE DEF high
  <2> QED BY <1>5, <2>2, <2>3, SMT
<1>8. IsLead(u[1]) => high \in Nat /\ high > 0 /\ high < 1114112
  <2>1. IsLead(u[1]) => 1 < Len(u)
    <3>1. \A k \in 1 .. Len(u) : ~(IsLead(u[k]) /\ ~(k < Len(u)))
      BY <1>4, SMT DEF BadUTF16
    <3> QED BY <1>4, <3>1, SMT
  <2>2. 1 < Len(u) => 2 \in 1 .. Len(u)
    BY <1>1, SMT
  <2>3. \A k \in 1 .. Len(u) : u[k] \in Nat
    BY WordsType, SMT DEF u
  <2>4. IsLead(u[1]) => u[1] \in Nat /\ u[2] \in Nat
    BY <1>1, <2>1, <2>2, <2>3
  <2> DEFINE v == u[1]
             w == u[2]
  <2>5. IsLead(v) => v \in Nat /\ w \in Nat /\ IsLead(v) /\ IsTrail(w)
    BY <1>5, <2>4
  <2> HIDE DEF v, w
  <2> DEFINE x == 65536 + (v - 55296) * 1024 + (w - 56320)
  <2>6. IsLead(v) => x \in Nat /\ x > 0 /\ x < 1114112
    BY <2>5, PairIs
  <2>7. high = x
    BY DEF v, w
  <2> HIDE DEF high, x
  <2>8. IsLead(v) => high \in Nat /\ high > 0 /\ high < 1114112
    BY <2>6, <2>7
  <2> QED BY <2>8 DEF v
<1> HIDE DEF p, high
<1>9. Len(p[1]) >= 1 /\ p[1][1] \in 1 .. 255
  <2>1. CASE IsLead(u[1])
    <3>0. high \in Nat /\ high > 0 /\ high < 1114112
      BY <1>8, <2>1
    <3>1. Len(Encode(high)) >= 1 /\ Encode(high)[1] \in 1 .. 255
      BY ONLY <3>0, EncodedFirst
    <3> QED BY ONLY <1>7, <2>1, <3>1
  <2>2. CASE ~IsLead(u[1])
    <3> DEFINE v == u[1]
    <3>1. v \in Nat /\ v > 0 /\ v < 1114112
      BY <1>1, SMT
    <3> HIDE DEF v
    <3>2. Len(Encode(v)) >= 1 /\ Encode(v)[1] \in 1 .. 255
      BY ONLY <3>1, EncodedFirst, SMT
    <3> QED BY ONLY <1>7, <2>2, <3>2 DEF v
  <2> QED BY <2>1, <2>2
<1>10. SelectIn(Joined(p), 1 .. 255) # <<>>
  BY ONLY <1>6, <1>9, FirstPiece
<1> QED BY <1>3, <1>10 DEF p, u

LEMMA NotQuotedAway ==
  ASSUME setup \in Setups, setup.max_feature_size > 0,
         NEW f \in Seq(Bytes), f # <<>>, ~Marked(f)
  PROVE  QuotedFeature(f) # <<>>
<1> DEFINE m == make_utf8(f)
           q == Quote(m)
<1>1. m \in Seq(Bytes) /\ m # <<>>
  <2>1. m \in Seq(Bytes)
    BY MadeBytes
  <2>2. validateOrEscapeUTF8(f, TRUE, TRUE, TRUE) # <<>>
    BY EscapedSome
  <2>3. looks_like_utf16(f) # "none" /\ ~ConvertThrows(f, looks_like_utf16(f))
           => convert_utf16_to_utf8(f, looks_like_utf16(f)) # <<>>
    BY ConvertedSome
  <2> QED BY <2>1, <2>2, <2>3 DEF make_utf8
<1> HIDE DEF m
<1>2. q \in Seq(Bytes) /\ q # <<>>
  <2> DEFINE bad == EscapeBadUTF8
             backslash == EscapeBackslash
  <2>1. bad \in BOOLEAN /\ backslash \in BOOLEAN
    BY DEF EscapeBadUTF8, EscapeBackslash
  <2> HIDE DEF bad, backslash
  <2>2. validateOrEscapeUTF8(m, bad, backslash, TRUE) # <<>>
    BY <1>1, <2>1, EscapedSome
  <2>3. validateOrEscapeUTF8(m, bad, backslash, TRUE) \in Seq(Bytes)
    BY <1>1, EscapedBytes
  <2> QED BY <2>2, <2>3 DEF Quote, bad, backslash
<1> HIDE DEF q
<1>3. QuotedFeature(f) = Resize(q, setup.max_feature_size)
  BY DEF QuotedFeature, QuoteToSize, q, m
<1> DEFINE n == Min({Len(q), setup.max_feature_size})
<1>4. Len(q) \in Nat /\ Len(q) >= 1 /\ setup.max_feature_size \in Nat
  BY <1>2, SetupHas, LenProperties, EmptySeq
<1>5. n \in Nat /\ n >= 1 /\ n <= Len(q)
  BY <1>4, MinOfTwo
<1> HIDE DEF n
<1>6. Len(SubSeq(q, 1, n)) = n
  BY <1>2, <1>5
<1>7. Len(<<>>) = 0
  OBVIOUS
<1> QED BY <1>3, <1>5, <1>6, <1>7 DEF Resize, n

-----------------------------------------------------------------------------
(* What is found.  The scanner of these proofs looks for strings, lines or *)
(* strings that end in nulls; a string fits into the margin and a byte, so *)
(* that a page has what begins in it; and nothing it finds begins with the *)
(* mark of UTF-16, which is all that can be quoted away.  What it recurses *)
(* into is not skipped.                                                    *)
Marks == {254, 255}
MarkFree(s) == \A i \in 1 .. Len(s) - 1 : s[i] \notin Marks \/ s[i + 1] \notin Marks

Searches(su) ==
    /\ su.kind \in {"find", "findbin"}
    /\ su.needle # <<>> /\ Len(su.needle) <= su.margin + 1
    /\ su.kind = "find" => Len(su.needle) = 1
    /\ su.take > 0
    /\ su.needle[1] \in Marks => Len(su.needle) > 1 /\ su.needle[2] \notin Marks
Reads(su, im) ==
    /\ su.kind \in {"getline", "strings"}
    /\ su.recurse = "no"
    /\ MarkFree(im)
ScansAll(su) ==
    /\ su.min_sbuf_size <= 1 /\ su.min_distinct_chars <= 1
    /\ su.scan_ngram_buffer \/ su.max_ngram <= 1
SoughtIn(su, im) ==
    /\ Searches(su) \/ Reads(su, im)
    /\ su.max_feature_size > 0
    /\ su.recurse # "no" => su.offset_add = 0 /\ ScansAll(su)
Sought == SoughtIn(setup, image)

(* Of the image, and of a buffer: where there is something to be found,    *)
(* and what the search is to find of it.                                   *)
OccursAt(su, im, p) ==
    CASE su.kind = "getline" -> p = 0 \/ im[p] = NEWLINE
      [] su.kind = "strings" -> im[p + 1] # 0 /\ (p = 0 \/ im[p] = 0)
      [] OTHER -> Inside(su.needle, im, p)
HiddenAt(su, im, p) ==
    \/ su.kind = "findbin" /\ p > 0 /\ im[p] = su.needle[1]
    \/ /\ su.kind = "getline" /\ p > 0 /\ im[p + 1] # NEWLINE
       /\ OccursAt(su, im, p - 1) \/ (p - 1) % su.pagesize = 0
WantedAt(su, im, p) == OccursAt(su, im, p) /\ ~HiddenAt(su, im, p)

HiddenIn(su, b, q) ==
    \/ su.kind = "findbin" /\ q > 0 /\ b.buf[q] = su.needle[1]
    \/ su.kind = "getline" /\ q > 0 /\ b.buf[q + 1] # NEWLINE /\ OccursAt(su, b.buf, q - 1)
WantedIn(su, b, q) == OccursAt(su, b.buf, q) /\ ~HiddenIn(su, b, q)

(* A stream of strings is read from the beginning of one to the next.      *)
Aligned(su, b, n) == su.kind = "strings" => n = 0 \/ n > bufsize(b) \/ b.buf[n] = 0

(* What is written, and what has ended in an exception.                    *)
PlacesOf(lines) == {lines[i][1] : i \in 1 .. Len(lines)}
FoundAt(su, P, p) == \E x \in P : ~isRecursive(x) /\ x.offset - su.offset_add = p
PageAlert(su, A, p) == \E a \in A : ~isRecursive(a) /\ a.offset \div su.pagesize = p \div su.pagesize

PageOf(su, im, k) ==
    sbuf_new(pos0_t(<<>>, k * su.pagesize),
             SubSeq(im, k * su.pagesize + 1, Min({k * su.pagesize + su.pagesize + su.margin, Len(im)})),
             su.pagesize)
SuitsOf(su, b) ==
    /\ bufsize(b) >= su.min_sbuf_size
    /\ su.scan_ngram_buffer \/ find_ngram_size(b, su.max_ngram) = 0
    /\ get_distinct_character_count(b) >= su.min_distinct_chars

(* What the scanner has passed is found, unless its page was not scanned   *)
(* to the end.                                                             *)
Swept(su, im, P, A, n, m) ==
    \A p \in 0 .. Len(im) - 1 :
        p < n /\ p < m /\ WantedAt(su, im, p) =>
            \/ FoundAt(su, P, p)
            \/ PageAlert(su, A, p)
            \/ ~SuitsOf(su, PageOf(su, im, p \div su.pagesize))

(* The same of what the scanner has recursed into at a place: b is the     *)
(* buffer of the innermost call, and n where it goes on.                   *)
InsidePath(su, from) == <<from, su.recurse>>
InsideAt(su, im, from, q) ==
    LET bytes == Decode(su.recurse, Behind(im, from))
    IN  /\ q < Len(bytes)
        /\ (from + q) \div su.pagesize = from \div su.pagesize
        /\ Inside(su.needle, bytes, q)
        /\ ~(q > 0 /\ bytes[q] = su.needle[1])
SweptAt(su, im, P, A, b, n, from) ==
    \/ PageAlert(su, A, from)
    \/ pos0_t(InsidePath(su, from), 0) \in A
    \/ \A q \in 0 .. Len(im) - 1 :
          InsideAt(su, im, from, q) =>
              \/ pos0_t(InsidePath(su, from), q) \in P
              \/ b.pos0.path = InsidePath(su, from) /\ q >= n
SweptInside(su, im, P, A, b, n) ==
    su.recurse # "no" => \A x \in P : ~isRecursive(x) => SweptAt(su, im, P, A, b, n, x.offset)

(* What is found is there.                                                 *)
OnlyThere(su, im, P) ==
    \A x \in P : ~isRecursive(x) =>
        /\ x.offset - su.offset_add \in 0 .. Len(im) - 1
        /\ \/ OccursAt(su, im, x.offset - su.offset_add)
           \/ su.kind \in {"getline", "strings"} /\ (x.offset - su.offset_add) % su.pagesize = 0

OnPage(su, im, k, c) ==
    /\ k * su.pagesize < Len(im)
    /\ c.sbuf = PageOf(su, im, k)
    /\ Aligned(su, c.sbuf, c.at)
Recursed(su, c, b) == \E pos \in 0 .. c.sbuf.pagesize - 1 : b = ChildOf(c.sbuf, pos, su.recurse)

Sweep ==
    /\ OnlyThere(setup, image, PlacesOf(file))
    /\ SweptInside(setup, image, PlacesOf(file), ToSet(alerts), sbuf, at)
    /\ pc # "scan" => Swept(setup, image, PlacesOf(file), ToSet(alerts), page * setup.pagesize, page * setup.pagesize)
    /\ pc = "done" => Len(image) <= page * setup.pagesize
    /\ pc = "scan" =>
          /\ page > 0 /\ OnPage(setup, image, page - 1, Outer)
          /\ Swept(setup, image, PlacesOf(file), ToSet(alerts),
                   Outer.sbuf.pos0.offset + Outer.at, page * setup.pagesize)
          /\ callers # <<>> => Recursed(setup, Outer, sbuf)

-----------------------------------------------------------------------------
(* The searches of a buffer.  Nothing that is wanted is passed over before *)
(* what is found.                                                          *)
LEMMA MatchesIs ==
  ASSUME NEW b \in Buffers, NEW s \in Seq(Bytes), NEW loc \in Nat
  PROVE  Matches(b, s, loc) <=> Inside(s, b.buf, loc)
<1> DEFINE t == b.buf
           n == Len(s)
           m == Len(t)
           r == substr(b, loc, n)
<1>1. t \in Seq(Bytes) /\ m \in Nat /\ n \in Nat /\ bufsize(b) = m
  BY BufferHas, LenProperties
<1>2. /\ r \in Seq(Bytes)
      /\ \A i \in 1 .. Len(r) : loc + i \in 1 .. m /\ r[i] = t[loc + i]
  <2> HIDE DEF t, n, r
  <2>1. /\ substr(b, loc, n) \in Seq(Bytes)
        /\ \A i \in 1 .. Len(substr(b, loc, n)) :
              loc + i \in 1 .. bufsize(b) /\ substr(b, loc, n)[i] = b.buf[loc + i]
    BY <1>1, SubstrType
  <2> QED BY <1>1, <2>1 DEF r, t
<1>3. ASSUME r = s
      PROVE  Inside(s, t, loc)
  <2> HIDE DEF r, t
  <2> QED BY <1>2, <1>3 DEF Inside, m
<1>4. ASSUME Inside(s, t, loc)
      PROVE  r = s
  <2>1. loc + n <= m \/ n = 0
    <3>1. CASE n # 0
      <4>1. n \in 1 .. n
        BY <1>1, <3>1
      <4>2. loc + n \in 1 .. m
        BY <1>4, <4>1 DEF Inside
      <4> QED BY <4>2
    <3> QED BY <3>1
  <2> DEFINE e == Min({loc + n, m})
  <2>2. n # 0 => e = loc + n
    <3> HIDE DEF n, m
    <3>1. loc + n \in Nat
      BY <1>1
    <3> QED BY <1>1, <2>1, <3>1, MinOfTwo
  <2>3. e \in Nat /\ e <= loc + n /\ e <= m
    <3> HIDE DEF n, m
    <3>1. loc + n \in Nat
      BY <1>1
    <3> QED BY <1>1, <3>1, MinOfTwo
  <2>4. r = SubSeq(t, loc + 1, e)
    BY <1>1 DEF substr
  <2> HIDE DEF e, r
  <2>5. Len(r) = IF loc + 1 <= e THEN e - (loc + 1) + 1 ELSE 0
    <3>1. loc + 1 \in Int /\ e \in Int /\ \A i \in loc + 1 .. e : t[i] \in Bytes
      <4>1. \A i \in 1 .. m : t[i] \in Bytes
        BY <1>1, ElementOfSeq
      <4> HIDE DEF t, m
      <4> QED BY <1>1, <2>3, <4>1
    <3> HIDE DEF t
    <3>2. Len(SubSeq(t, loc + 1, e)) = IF loc + 1 <= e THEN e - (loc + 1) + 1 ELSE 0
      BY <3>1, SubSeqProperties
    <3> QED BY <2>4, <3>2
  <2>6. Len(r) = n
    <3> HIDE DEF n, m
    <3> QED BY <1>1, <2>2, <2>3, <2>5
  <2>7. \A i \in 1 .. n : r[i] = s[i]
    <3> HIDE DEF t
    <3> QED BY <1>2, <1>4, <2>6 DEF Inside
  <2> HIDE DEF t
  <2> QED BY <1>2, <2>6, <2>7, SeqEqual
<1> QED BY <1>3, <1>4 DEF Matches

LEMMA InsideFirst ==
  ASSUME NEW b \in Buffers, NEW s \in Seq(Bytes), s # <<>>, NEW q \in Nat, Inside(s, b.buf, q)
  PROVE  q < bufsize(b) /\ At(b, q) = s[1] /\ s[1] = b.buf[q + 1]
<1>1. 1 \in 1 .. Len(s) /\ bufsize(b) = Len(b.buf) /\ bufsize(b) \in Nat
  <2>1. Len(s) \in Nat /\ Len(s) # 0
    BY LenProperties, EmptySeq
  <2> QED BY <2>1, BufferHas
<1>2. q + 1 \in 1 .. Len(b.buf) /\ s[1] = b.buf[q + 1]
  BY <1>1 DEF Inside
<1> QED BY <1>1, <1>2 DEF At

(* findbin() passes over an occurrence only behind a byte like its first.  *)
LEMMA FindbinFinds ==
  ASSUME NEW b \in Buffers, NEW s \in Seq(Bytes), s # <<>>, NEW start \in Nat,
         NEW q \in Nat, start <= q, q < b.pagesize, Inside(s, b.buf, q),
         ~(q > 0 /\ b.buf[q] = s[1])
  PROVE  findbin(b, s, start) # NotFound /\ findbin(b, s, start) <= q
<1> DEFINE n == SearchEnd(b, start)
           f == SearchOf(b, s, start)
           P(i) == i <= q => f[i] # NotFound /\ f[i] <= q
           G == {k \in 0 .. n : \A i \in n - k .. n : P(i)}
<1>0. bufsize(b) \in Nat /\ b.pagesize \in Nat /\ b.pagesize <= bufsize(b) /\ bufsize(b) = Len(b.buf)
  BY BufferHas
<1>1. n \in Nat /\ bufsize(b) < n /\ start < n
  BY <1>0, MaxOfTwo DEF SearchEnd
<1>2. Searching(b, s, 0, n, f)
  <2>1. n \in 0 .. n /\ n - n = 0
    BY <1>1
  <2>2. \E g : Searching(b, s, n - n, n, g)
    <3> HIDE DEF n
    <3> QED BY <1>1, <2>1, SearchExists
  <2>3. \E g : Searching(b, s, 0, n, g)
    <3> HIDE DEF n
    <3> QED BY <2>1, <2>2
  <2> QED BY <2>3 DEF SearchOf
<1> HIDE DEF n
<1>3. ASSUME NEW i \in 0 .. n
      PROVE  f[i] = SearchStep(b, s, i, f)
  <2> HIDE DEF f
  <2> QED BY <1>2 DEF Searching
<1> HIDE DEF f
<1>a. q < bufsize(b) /\ At(b, q) = s[1]
  BY InsideFirst
<1>4. 0 \in G
  <2>1. \A i \in n - 0 .. n : ~(i <= q)
    BY <1>0, <1>1
  <2> QED BY <1>1, <2>1
<1>5. ASSUME NEW k \in 0 .. n - 1, k \in G
      PROVE  k + 1 \in G
  <2> DEFINE m == n - (k + 1)
  <2>1. m \in 0 .. n /\ m + 1 = n - k /\ \A i \in m + 1 .. n : P(i)
    BY <1>1, <1>5
  <2>2. f[m] = SearchStep(b, s, m, f)
    BY <1>3, <2>1
  <2> HIDE DEF m
  <2>3. ASSUME m <= q
        PROVE  f[m] # NotFound /\ f[m] <= q
    <3> DEFINE loc == Min(FirstByteAt(b, s, m))
    <3>1. q \in FirstByteAt(b, s, m)
      BY <1>0, <1>a, <2>1, <2>3 DEF FirstByteAt
    <3>2. m \in Nat /\ m < b.pagesize /\ FirstByteAt(b, s, m) # {}
      BY <1>0, <1>1, <2>1, <2>3, <3>1
    <3>3. loc \in Nat /\ m <= loc /\ loc < bufsize(b) /\ loc <= q /\ At(b, loc) = s[1]
      <4>1. /\ loc \in Nat /\ m <= loc /\ loc < bufsize(b)
            /\ \A l \in FirstByteAt(b, s, m) : loc <= l
        BY <3>2, SearchAhead
      <4>2. loc \in FirstByteAt(b, s, m)
        <5>1. FirstByteAt(b, s, m) \in SUBSET Nat
          BY <1>0, <3>2 DEF FirstByteAt
        <5> QED BY <3>2, <5>1, MinOf
      <4> HIDE DEF loc
      <4>3. At(b, loc) = s[1]
        BY <4>2 DEF FirstByteAt
      <4> QED BY <3>1, <4>1, <4>3
    <3>4. f[m] = IF Matches(b, s, loc) THEN loc ELSE f[loc + 2]
      BY <1>0, <2>2, <3>2 DEF SearchStep
    <3> HIDE DEF loc
    <3>5. CASE Matches(b, s, loc)
      BY <3>3, <3>4, <3>5 DEF NotFound
    <3>6. CASE ~Matches(b, s, loc)
      <4>1. loc # q
        BY <3>6, MatchesIs
      <4>2. q # loc + 1
        <5> SUFFICES ASSUME q = loc + 1 PROVE FALSE
          OBVIOUS
        <5>1. b.buf[q] = s[1] /\ q > 0
          BY <3>3 DEF At
        <5> QED BY <5>1
      <4>3. loc + 2 <= q /\ loc + 2 \in m + 1 .. n
        BY <1>0, <1>1, <1>a, <2>1, <3>3, <4>1, <4>2
      <4>4. P(loc + 2)
        BY <2>1, <4>3
      <4> QED BY <3>4, <3>6, <4>3, <4>4
    <3> QED BY <3>5, <3>6
  <2>4. P(m)
    BY <2>3
  <2> QED BY <1>1, <2>1, <2>4 DEF m
<1>6. n \in G
  <2> HIDE DEF G
  <2> QED BY <1>1, <1>4, <1>5, UpTo
<1>7. P(start)
  BY <1>1, <1>6
<1>8. findbin(b, s, start) = f[start]
  BY FindbinIs DEF f
<1> QED BY <1>7, <1>8

(* From n on, the search passes nothing that is wanted but what it finds,  *)
(* and that is as long as there is something.                              *)
Promises(su, b, n, h) ==
    /\ h = NoHit => \A q \in n .. b.pagesize - 1 : ~WantedIn(su, b, q)
    /\ h # NoHit =>
          /\ \A q \in n .. b.pagesize - 1 : WantedIn(su, b, q) => q = h.pos \/ q >= h.next
          /\ h.pos < b.pagesize => (OccursAt(su, b.buf, h.pos) <=> h.len > 0)
          /\ Aligned(su, b, h.next)

Looks(su) == Searches(su) \/ su.kind \in {"getline", "strings"}

LEMMA NeedlePromises ==
  ASSUME NEW su, su.kind \in {"find", "findbin"}, NEW b \in Buffers, NEW n \in Nat, NEW take \in Nat,
         take > 0, NEW loc \in Nat \cup {NotFound},
         NEW h, h = IF loc = NotFound THEN NoHit ELSE [pos |-> loc, len |-> take, next |-> loc + 1],
         loc # NotFound => OccursAt(su, b.buf, loc),
         \A q \in n .. b.pagesize - 1 : WantedIn(su, b, q) => loc # NotFound /\ loc <= q
  PROVE  Promises(su, b, n, h)
<1>1. b.pagesize \in Nat
  BY BufferHas
<1>2. CASE loc = NotFound
  <2>1. h = NoHit
    BY <1>2
  <2> QED BY <1>2, <2>1 DEF Promises
<1>3. CASE loc # NotFound
  <2>1. loc \in Nat /\ h.pos = loc /\ h.len = take /\ h.next = loc + 1
    BY <1>3
  <2>2. h # NoHit
    BY <1>3, <2>1 DEF NoHit
  <2>3. \A q \in n .. b.pagesize - 1 : WantedIn(su, b, q) => q = h.pos \/ q >= h.next
    <3> TAKE q \in n .. b.pagesize - 1
    <3> HAVE WantedIn(su, b, q)
    <3>1. loc <= q /\ q \in Nat
      BY <1>1
    <3> QED BY <2>1, <3>1
  <2>4. Aligned(su, b, h.next)
    BY DEF Aligned
  <2> QED BY <1>3, <2>1, <2>2, <2>3, <2>4 DEF Promises
<1> QED BY <1>2, <1>3

LEMMA LinePromises ==
  ASSUME NEW su, su.kind = "getline", NEW b \in Buffers, NEW n \in Nat, LineStarts(b, n) # {},
         NEW start, start = Min(LineStarts(b, n)), NEW end, end = LineEnd(b, start),
         NEW q \in n .. b.pagesize - 1, WantedIn(su, b, q)
  PROVE  q = start \/ q >= end
<1>1. bufsize(b) \in Nat /\ b.pagesize \in Nat /\ b.pagesize <= bufsize(b)
  BY BufferHas
<1>2. LineStarts(b, n) \in SUBSET Nat
  BY <1>1 DEF LineStarts
<1>3. start \in LineStarts(b, n) /\ \A p \in LineStarts(b, n) : start <= p
  BY <1>2, MinOf
<1>4. start \in Nat /\ end \in Nat
  BY LineType
<1>5. \A p : OccursAt(su, b.buf, p) <=> (p = 0 \/ b.buf[p] = NEWLINE)
  BY DEF OccursAt
<1>6. q \in Nat /\ q < b.pagesize /\ (q = 0 \/ b.buf[q] = NEWLINE)
  BY <1>1, <1>5 DEF WantedIn
<1>7. start <= q
  <2>1. q - 1 + 1 = q
    BY <1>6
  <2>2. q \in LineStarts(b, n)
    BY <1>6, <2>1 DEF LineStarts, At
  <2> QED BY <1>3, <2>2
<1> DEFINE ends == {p \in start + 1 .. bufsize(b) - 1 : At(b, p) = NEWLINE}
<1>8. end = IF ends = {} THEN bufsize(b) ELSE Min(ends)
  BY DEF LineEnd
<1>9. ends # {} => \A p \in ends : end <= p
  <2>1. ends \in SUBSET Nat
    BY <1>1, <1>4
  <2> HIDE DEF ends
  <2> QED BY <1>8, <2>1, MinOf
<1>10. ASSUME NEW p \in Nat, start < p, p < end, p < bufsize(b)
       PROVE  At(b, p) # NEWLINE
  <2>1. p \in start + 1 .. bufsize(b) - 1
    BY <1>1, <1>4, <1>10
  <2> QED BY <1>4, <1>9, <1>10, <2>1
<1> HIDE DEF ends
<1> SUFFICES ASSUME start < q, q < end PROVE FALSE
  BY <1>4, <1>6, <1>7
<1>11. At(b, q) # NEWLINE
  BY <1>1, <1>6, <1>10
<1>12. q > 0 /\ q - 1 \in Nat /\ At(b, q - 1) = NEWLINE
  <2>1. q > 0 /\ q - 1 \in Nat /\ q - 1 + 1 = q
    BY <1>4, <1>6
  <2> QED BY <1>6, <2>1 DEF At
<1>13. q - 1 = start
  <2>1. q - 1 > start => At(b, q - 1) # NEWLINE
    <3>1. q - 1 < end /\ q - 1 < bufsize(b)
      BY <1>1, <1>4, <1>6, <1>12
    <3> QED BY <1>4, <1>10, <1>12, <3>1
  <2> QED BY <1>4, <1>6, <1>12, <2>1
<1>14. OccursAt(su, b.buf, q - 1)
  <2>1. start = 0 \/ At(b, start - 1) = NEWLINE
    BY <1>3 DEF LineStarts
  <2>2. start # 0 => start - 1 + 1 = start
    BY <1>4
  <2> QED BY <1>5, <1>13, <2>1, <2>2 DEF At
<1>15. HiddenIn(su, b, q)
  BY <1>11, <1>12, <1>14 DEF HiddenIn, At
<1> QED BY <1>15 DEF WantedIn

LEMMA StringPromises ==
  ASSUME NEW su, su.kind = "strings", NEW b \in Buffers, NEW n \in Nat, n < bufsize(b), Aligned(su, b, n),
         NEW len, len = Len(getUTF8(b, n)), NEW next, next = n + len + 1
  PROVE  /\ len \in Nat
         /\ OccursAt(su, b.buf, n) <=> len > 0
         /\ \A q \in n .. b.pagesize - 1 : WantedIn(su, b, q) => q = n \/ q >= next
         /\ Aligned(su, b, next)
<1> DEFINE nulls == {k \in n .. bufsize(b) - 1 : At(b, k) = 0}
           end == IF nulls = {} THEN bufsize(b) ELSE Min(nulls)
<1>1. /\ bufsize(b) \in Nat /\ b.pagesize \in Nat /\ b.pagesize <= bufsize(b)
      /\ b.buf \in Seq(Bytes) /\ bufsize(b) = Len(b.buf)
  BY BufferHas
<1>2. nulls \in SUBSET Nat
  BY <1>1
<1>3. nulls # {} => Min(nulls) \in nulls /\ \A k \in nulls : Min(nulls) <= k
  <2> HIDE DEF nulls
  <2> QED BY <1>2, MinOf
<1>4. /\ end \in Nat /\ n <= end /\ end <= bufsize(b)
      /\ end < bufsize(b) => At(b, end) = 0
      /\ \A k \in n .. bufsize(b) - 1 : At(b, k) = 0 => end <= k
  BY <1>1, <1>3
<1>5. getUTF8(b, n) = SubSeq(b.buf, n + 1, end)
  <2>1. getUTF8(b, n) = substr(b, n, end - n)
    BY DEF getUTF8
  <2> HIDE DEF end
  <2>2. n + (end - n) = end
    BY <1>4
  <2>3. Min({end, bufsize(b)}) = end
    BY <1>1, <1>4, MinOfTwo
  <2> QED BY <2>1, <2>2, <2>3 DEF substr
<1> HIDE DEF end, nulls
<1>6. len = end - n
  <2>1. n + 1 \in Int /\ end \in Int /\ \A i \in n + 1 .. end : b.buf[i] \in Bytes
    <3>1. \A i \in 1 .. Len(b.buf) : b.buf[i] \in Bytes
      BY <1>1, ElementOfSeq
    <3> QED BY <1>1, <1>4, <3>1
  <2>2. Len(SubSeq(b.buf, n + 1, end)) = IF n + 1 <= end THEN end - (n + 1) + 1 ELSE 0
    BY <2>1, SubSeqProperties
  <2> QED BY <1>4, <1>5, <2>2
<1>7. len \in Nat /\ next = end + 1
  BY <1>4, <1>6
<1>8. \A p : OccursAt(su, b.buf, p) <=> (b.buf[p + 1] # 0 /\ (p = 0 \/ b.buf[p] = 0))
  BY DEF OccursAt
<1>9. OccursAt(su, b.buf, n) <=> len > 0
  <2>1. n = 0 \/ b.buf[n] = 0
    BY <1>1 DEF Aligned
  <2>2. b.buf[n + 1] # 0 <=> end # n
    <3>1. n \in n .. bufsize(b) - 1
      BY <1>1
    <3> QED BY <1>1, <1>4, <3>1 DEF At
  <2>3. end # n <=> len > 0
    BY <1>4, <1>6
  <2> QED BY <1>8, <2>1, <2>2, <2>3
<1>10. ASSUME NEW q \in n .. b.pagesize - 1, WantedIn(su, b, q), q # n
       PROVE  q >= next
  <2>1. q \in Nat /\ q > n /\ q < bufsize(b)
    BY <1>1, <1>10
  <2>2. b.buf[q] = 0
    BY <1>8, <1>10, <2>1 DEF WantedIn
  <2>3. q - 1 \in n .. bufsize(b) - 1 /\ q - 1 + 1 = q
    BY <1>1, <2>1
  <2>4. end <= q - 1
    BY <1>4, <2>2, <2>3 DEF At
  <2> QED BY <1>4, <1>7, <2>1, <2>4
<1>11. Aligned(su, b, next)
  <2>1. next > bufsize(b) \/ At(b, end) = 0
    BY <1>1, <1>4, <1>7
  <2> QED BY <1>7, <2>1 DEF Aligned, At
<1> QED BY <1>7, <1>9, <1>10, <1>11

LEMMA HitPromises ==
  ASSUME setup \in Setups, Looks(setup), sbuf \in Buffers, at \in Nat, Aligned(setup, sbuf, at)
  PROVE  Promises(setup, sbuf, at, Hit)
<1>1. setup.take \in Nat /\ setup.needle \in Seq(Bytes) /\ sbuf.pagesize \in Nat
      /\ bufsize(sbuf) \in Nat /\ bufsize(sbuf) = Len(sbuf.buf) /\ sbuf.pagesize <= bufsize(sbuf)
  BY SetupHas, BufferHas
<1>2. setup.kind \in {"find", "findbin"} =>
          \A p : /\ OccursAt(setup, sbuf.buf, p) <=> Inside(setup.needle, sbuf.buf, p)
                 /\ setup.needle # <<>> /\ setup.take > 0
  BY DEF OccursAt, Looks, Searches
<1>3. CASE setup.kind = "find"
  <2> DEFINE loc == find(sbuf, setup.needle[1], at)
  <2>1. loc \in Nat \cup {NotFound}
    BY FindType
  <2>2. Len(setup.needle) = 1
    BY <1>3 DEF Looks, Searches
  <2>3. \A p \in Nat : Inside(setup.needle, sbuf.buf, p) <=> p < bufsize(sbuf) /\ At(sbuf, p) = setup.needle[1]
    <3> TAKE p \in Nat
    <3>1. \A i \in 1 .. 1 : i = 1
      OBVIOUS
    <3>2. 1 \in 1 .. 1 /\ (p + 1 \in 1 .. Len(sbuf.buf) <=> p < bufsize(sbuf))
      BY <1>1
    <3> QED BY <2>2, <3>1, <3>2 DEF Inside, At
  <2>4. ASSUME loc # NotFound
        PROVE  OccursAt(setup, sbuf.buf, loc)
    <3>1. loc \in at .. sbuf.pagesize - 1 /\ At(sbuf, loc) = setup.needle[1]
      BY <2>4, FindAhead
    <3> HIDE DEF loc
    <3>2. loc \in Nat /\ loc < bufsize(sbuf)
      BY <1>1, <2>1, <2>4, <3>1
    <3> QED BY <1>2, <1>3, <2>3, <3>1, <3>2
  <2>5. ASSUME NEW q \in at .. sbuf.pagesize - 1, WantedIn(setup, sbuf, q)
        PROVE  loc # NotFound /\ loc <= q
    <3>1. q \in Nat /\ At(sbuf, q) = setup.needle[1]
      BY <1>1, <1>2, <1>3, <2>3, <2>5 DEF WantedIn
    <3>2. loc # NotFound
      <4>1. q \in {l \in at .. sbuf.pagesize - 1 : At(sbuf, l) = setup.needle[1]}
        BY <3>1
      <4>2. loc = Min({l \in at .. sbuf.pagesize - 1 : At(sbuf, l) = setup.needle[1]})
        BY <4>1 DEF find
      <4>3. Min({l \in at .. sbuf.pagesize - 1 : At(sbuf, l) = setup.needle[1]}) \in Nat
        <5> DEFINE locs == {l \in at .. sbuf.pagesize - 1 : At(sbuf, l) = setup.needle[1]}
        <5>1. locs \in SUBSET Nat /\ locs # {}
          BY <1>1, <4>1
        <5> HIDE DEF locs
        <5>2. Min(locs) \in Nat
          BY <5>1, MinOf
        <5> QED BY <5>2 DEF locs
      <4> QED BY <4>2, <4>3 DEF NotFound
    <3> QED BY <3>1, <3>2, FindAhead
  <2>6. Hit = IF loc = NotFound THEN NoHit ELSE [pos |-> loc, len |-> setup.take, next |-> loc + 1]
    BY <1>3 DEF Hit, HitAt
  <2> HIDE DEF loc
  <2> QED BY <1>1, <1>2, <1>3, <2>1, <2>4, <2>5, <2>6, NeedlePromises
<1>4. CASE setup.kind = "findbin"
  <2> DEFINE loc == findbin(sbuf, setup.needle, at)
  <2>1. loc \in Nat \cup {NotFound}
    BY FindbinType
  <2>2. ASSUME loc # NotFound
        PROVE  OccursAt(setup, sbuf.buf, loc)
    <3>1. Matches(sbuf, setup.needle, loc) /\ loc \in Nat
      BY <2>2, FindbinType
    <3> HIDE DEF loc
    <3> QED BY <1>1, <1>2, <1>4, <3>1, MatchesIs
  <2>3. ASSUME NEW q \in at .. sbuf.pagesize - 1, WantedIn(setup, sbuf, q)
        PROVE  loc # NotFound /\ loc <= q
    <3>1. q \in Nat /\ at <= q /\ q < sbuf.pagesize
      BY <1>1
    <3>2. Inside(setup.needle, sbuf.buf, q) /\ ~(q > 0 /\ sbuf.buf[q] = setup.needle[1])
      BY <1>2, <1>4, <2>3 DEF WantedIn, HiddenIn
    <3>3. setup.needle # <<>>
      BY <1>2, <1>4
    <3> QED BY <1>1, <3>1, <3>2, <3>3, FindbinFinds
  <2>4. Hit = IF loc = NotFound THEN NoHit ELSE [pos |-> loc, len |-> setup.take, next |-> loc + 1]
    BY <1>4 DEF Hit, HitAt
  <2> HIDE DEF loc
  <2> QED BY <1>1, <1>2, <1>4, <2>1, <2>2, <2>3, <2>4, NeedlePromises
<1>5. CASE setup.kind = "getline"
  <2>1. Hit = LineHit
    BY <1>5 DEF Hit
  <2>2. \A p : OccursAt(setup, sbuf.buf, p) <=> (p = 0 \/ sbuf.buf[p] = NEWLINE)
    BY <1>5 DEF OccursAt
  <2>3. CASE LineStarts(sbuf, at) = {}
    <3>1. Hit = NoHit
      BY <2>1, <2>3 DEF LineHit
    <3>2. ASSUME NEW q \in at .. sbuf.pagesize - 1
          PROVE  ~WantedIn(setup, sbuf, q)
      <4>1. q - 1 + 1 = q
        BY <1>1
      <4>2. ~(q = 0 \/ sbuf.buf[q] = NEWLINE)
        BY <2>3, <4>1 DEF LineStarts, At
      <4> QED BY <2>2, <4>2 DEF WantedIn
    <3> QED BY <3>1, <3>2 DEF Promises
  <2>4. CASE LineStarts(sbuf, at) # {}
    <3> DEFINE start == Min(LineStarts(sbuf, at))
               end == LineEnd(sbuf, start)
    <3>1. start \in Nat /\ end \in Nat /\ start < end
      BY <2>4, LineType
    <3>2. Hit.pos = start /\ Hit.len = end - start /\ Hit.next = end
      BY <2>1, <2>4 DEF LineHit
    <3>3. start \in LineStarts(sbuf, at)
      <4>1. LineStarts(sbuf, at) \in SUBSET Nat
        BY <1>1 DEF LineStarts
      <4> QED BY <2>4, <4>1, MinOf
    <3>4. \A q \in at .. sbuf.pagesize - 1 : WantedIn(setup, sbuf, q) => q = start \/ q >= end
      BY <1>5, <2>4, LinePromises
    <3> HIDE DEF start, end
    <3>5. OccursAt(setup, sbuf.buf, start)
      <4>1. start - 1 + 1 = start
        BY <3>1
      <4> QED BY <2>2, <3>3, <4>1 DEF LineStarts, At
    <3>6. Hit.len > 0
      BY <3>1, <3>2
    <3>7. Aligned(setup, sbuf, Hit.next)
      BY <1>5 DEF Aligned
    <3>8. Hit # NoHit
      BY <3>6 DEF NoHit
    <3> QED BY <3>2, <3>4, <3>5, <3>6, <3>7, <3>8 DEF Promises
  <2> QED BY <2>3, <2>4
<1>6. CASE setup.kind = "strings"
  <2>1. Hit = StringHit
    BY <1>6 DEF Hit
  <2>2. InRange(sbuf, at, 1) <=> at < bufsize(sbuf)
    BY <1>1 DEF InRange
  <2>3. CASE ~(at < bufsize(sbuf))
    <3>1. Hit = NoHit
      BY <2>1, <2>2, <2>3 DEF StringHit
    <3>2. at .. sbuf.pagesize - 1 = {}
      BY <1>1, <2>3
    <3> QED BY <3>1, <3>2 DEF Promises
  <2>4. CASE at < bufsize(sbuf)
    <3> DEFINE len == Len(getUTF8(sbuf, at))
               next == at + len + 1
    <3>1. /\ len \in Nat
          /\ OccursAt(setup, sbuf.buf, at) <=> len > 0
          /\ \A q \in at .. sbuf.pagesize - 1 : WantedIn(setup, sbuf, q) => q = at \/ q >= next
          /\ Aligned(setup, sbuf, next)
      BY <1>6, <2>4, StringPromises
    <3>2. /\ Hit.pos = at /\ Hit.len = len
          /\ Hit.next = IF len = 0 THEN AfterUTF8(sbuf, at) + 1 ELSE AfterUTF8(sbuf, at)
      BY <2>1, <2>2, <2>4 DEF StringHit, AfterInteger
    <3>3. AfterUTF8(sbuf, at) = at + len + (IF len > 0 THEN 1 ELSE 0)
      BY DEF AfterUTF8
    <3> HIDE DEF len
    <3>4. Hit.next = next
      BY <3>1, <3>2, <3>3
    <3>5. Hit # NoHit
      <4>1. at # NotFound
        BY DEF NotFound
      <4> QED BY <3>2, <4>1 DEF NoHit
    <3> HIDE DEF next
    <3> QED BY <3>1, <3>2, <3>4, <3>5 DEF Promises
  <2> QED BY <2>3, <2>4
<1> QED BY <1>3, <1>4, <1>5, <1>6 DEF Looks, Searches

(* What occurs in a page is not quoted away.                               *)
LEMMA SomeBytes ==
  ASSUME NEW b \in Buffers, NEW pos \in Nat, pos < bufsize(b), NEW len \in Nat, len > 0
  PROVE  substr(b, pos, len) # <<>>
<1> DEFINE e == Min({pos + len, bufsize(b)})
           m == pos + 1
<1>1. b.buf \in Seq(Bytes) /\ bufsize(b) \in Nat /\ bufsize(b) = Len(b.buf)
  BY BufferHas
<1>2. e \in Nat /\ pos + 1 <= e /\ e <= bufsize(b)
  <2>1. pos + len \in Nat
    OBVIOUS
  <2> QED BY <1>1, <2>1, MinOfTwo
<1>3. substr(b, pos, len) = SubSeq(b.buf, m, e)
  BY DEF substr
<1> HIDE DEF e
<1>4. m \in Int /\ e \in Int /\ \A i \in m .. e : b.buf[i] \in Bytes
  <2>1. \A i \in 1 .. Len(b.buf) : b.buf[i] \in Bytes
    BY <1>1, ElementOfSeq
  <2> QED BY <1>1, <1>2, <2>1
<1>5. m <= e
  BY <1>2
<1> HIDE DEF m
<1>6. Len(SubSeq(b.buf, m, e)) = e - m + 1
  BY <1>4, <1>5, SubSeqProperties
<1>7. e - m + 1 # 0
  BY <1>4, <1>5
<1> DEFINE r == SubSeq(b.buf, m, e)
<1>8. Len(r) # 0
  BY <1>6, <1>7
<1> HIDE DEF r
<1>9. r # <<>>
  BY <1>8
<1> QED BY <1>3, <1>9 DEF r

LEMMA MarkedHas ==
  ASSUME NEW f \in Seq(Bytes), Marked(f)
  PROVE  1 \in 1 .. Len(f) /\ 2 \in 1 .. Len(f) /\ f[1] \in Marks /\ f[2] \in Marks
<1>1. \A x, y : Len(<<x, y>>) = 2 /\ <<x, y>>[1] = x /\ <<x, y>>[2] = y
  OBVIOUS
<1>2. \A p : IsPrefix(p, f) => Len(p) <= Len(f) /\ \A i \in 1 .. Len(p) : p[i] = f[i]
  BY DEF IsPrefix
<1>3. PICK x \in Marks, y \in Marks : IsPrefix(<<x, y>>, f)
  <2>1. 255 \in Marks /\ 254 \in Marks
    BY DEF Marks
  <2> QED BY <2>1 DEF Marked
<1>4. Len(f) \in Nat /\ Len(f) >= 2 /\ f[1] = x /\ f[2] = y
  <2>1. 1 \in 1 .. 2 /\ 2 \in 1 .. 2 /\ Len(f) \in Nat
    BY LenProperties
  <2> QED BY <1>1, <1>2, <1>3, <2>1
<1> QED BY <1>3, <1>4

Unmarked(su, b) == su.kind \in {"getline", "strings"} => MarkFree(b.buf)

LEMMA FeatureUnmarked ==
  ASSUME NEW su, su.needle \in Seq(Bytes), Looks(su), NEW b \in Buffers, Unmarked(su, b),
         NEW pos \in Nat, NEW len \in Nat, OccursAt(su, b.buf, pos)
  PROVE  ~Marked(substr(b, pos, len))
<1> DEFINE f == substr(b, pos, len)
<1>1. /\ f \in Seq(Bytes)
      /\ \A i \in 1 .. Len(f) : pos + i \in 1 .. bufsize(b) /\ f[i] = b.buf[pos + i]
      /\ bufsize(b) \in Nat /\ bufsize(b) = Len(b.buf)
  BY SubstrType, BufferHas
<1> HIDE DEF f
<1> SUFFICES ASSUME Marked(f) PROVE FALSE
  BY DEF f
<1>2. 1 \in 1 .. Len(f) /\ 2 \in 1 .. Len(f) /\ f[1] \in Marks /\ f[2] \in Marks
  BY <1>1, MarkedHas
<1>3. /\ pos + 2 \in 1 .. Len(b.buf) /\ b.buf[pos + 1] \in Marks /\ b.buf[pos + 2] \in Marks
  BY <1>1, <1>2
<1>4. CASE su.kind \in {"getline", "strings"}
  <2>1. pos + 1 \in 1 .. Len(b.buf) - 1 /\ (pos + 1) + 1 = pos + 2
    BY <1>1, <1>3
  <2> QED BY <1>3, <1>4, <2>1 DEF Unmarked, MarkFree
<1>5. CASE Searches(su)
  <2>1. Inside(su.needle, b.buf, pos)
    BY <1>5 DEF OccursAt, Searches
  <2>2. Len(su.needle) \in Nat /\ Len(su.needle) # 0
    BY <1>5, LenProperties, EmptySeq DEF Searches
  <2>3. su.needle[1] \in Marks
    <3>1. 1 \in 1 .. Len(su.needle)
      BY <2>2
    <3> QED BY <1>3, <2>1, <3>1 DEF Inside
  <2>4. Len(su.needle) > 1 /\ su.needle[2] \notin Marks
    BY <1>5, <2>3 DEF Searches
  <2>5. 2 \in 1 .. Len(su.needle)
    BY <2>2, <2>4
  <2> QED BY <1>3, <2>1, <2>4, <2>5 DEF Inside
<1> QED BY <1>4, <1>5 DEF Looks

LEMMA OccurringIsWritten ==
  ASSUME setup \in Setups, Looks(setup), setup.max_feature_size > 0, sbuf \in Buffers, Unmarked(setup, sbuf),
         Hit.pos \in Nat, Hit.pos < bufsize(sbuf), Hit.len \in Nat, Hit.len > 0, OccursAt(setup, sbuf.buf, Hit.pos)
  PROVE  ~IsEmpty
<1> DEFINE f == Feature(Hit.pos, Hit.len)
<1>1. f \in Seq(Bytes) /\ f # <<>>
  BY SubstrType, SomeBytes DEF Feature
<1>2. ~Marked(f)
  BY SetupHas, FeatureUnmarked DEF Feature
<1> HIDE DEF f
<1>3. QuotedFeature(f) # <<>>
  BY <1>1, <1>2, NotQuotedAway
<1> QED BY <1>3 DEF IsEmpty, f

LEMMA SomeLength ==
  ASSUME setup \in Setups, sbuf \in Buffers, Hit.pos \in Nat, Hit.pos < bufsize(sbuf), Hit.len \in Nat, ~IsEmpty
  PROVE  Hit.len > 0
<1>1. bufsize(sbuf) \in Nat /\ sbuf.buf \in Seq(Bytes)
  BY BufferHas
<1> SUFFICES ASSUME Hit.len = 0 PROVE FALSE
  OBVIOUS
<1> DEFINE pos == Hit.pos
<1>2. pos + 0 = pos /\ Min({pos, bufsize(sbuf)}) = pos
  BY <1>1, MinOfTwo
<1>3. Feature(pos, 0) = SubSeq(sbuf.buf, pos + 1, pos)
  BY <1>2 DEF Feature, substr
<1>4. SubSeq(sbuf.buf, pos + 1, pos) = <<>>
  <2> DEFINE m == pos + 1
  <2>1. m \in Int /\ pos \in Int /\ m >= 1 /\ m > pos
    OBVIOUS
  <2> HIDE DEF m, pos
  <2>2. \A i \in m .. pos : sbuf.buf[i] \in Bytes
    BY <2>1
  <2>3. SubSeq(sbuf.buf, m, pos) \in Seq(Bytes) /\ Len(SubSeq(sbuf.buf, m, pos)) = 0
    BY <1>1, <2>1, <2>2, SubSeqProperties
  <2>4. SubSeq(sbuf.buf, m, pos) = <<>>
    BY <2>3, EmptySeq
  <2> QED BY <2>4 DEF m
<1>5. QuotedFeature(Feature(Hit.pos, Hit.len)) = <<>>
  BY <1>3, <1>4, NothingIsEmpty
<1> QED BY <1>5 DEF IsEmpty

LEMMA PageIs ==
  ASSUME NEW su, su.pagesize \in Nat \ {0}, su.margin \in Nat, NEW im \in Seq(Bytes), NEW k \in Nat,
         k * su.pagesize < Len(im)
  PROVE  /\ k * su.pagesize \in Nat /\ PageOf(su, im, k) \in Buffers
         /\ PageOf(su, im, k).pos0 = [path |-> <<>>, offset |-> k * su.pagesize]
         /\ Inside(PageOf(su, im, k).buf, im, k * su.pagesize)
         /\ k * su.pagesize + bufsize(PageOf(su, im, k)) <= Len(im)
         /\ bufsize(PageOf(su, im, k)) <= su.pagesize + su.margin
         /\ \A j \in Nat : j < su.pagesize + su.margin /\ k * su.pagesize + j < Len(im) =>
               j < bufsize(PageOf(su, im, k)) /\ PageOf(su, im, k).buf[j + 1] = im[k * su.pagesize + j + 1]
         /\ \A j \in Nat : j < PageOf(su, im, k).pagesize <=> j < su.pagesize /\ k * su.pagesize + j < Len(im)
         /\ PageOf(su, im, k).pagesize > 0 /\ PageOf(su, im, k).pagesize <= su.pagesize
<1> DEFINE ps == su.pagesize
           first == k * ps
           l == Len(im)
           n == first + ps + su.margin
           e == Min({n, l})
           s == SubSeq(im, first + 1, e)
           p == pos0_t(<<>>, first)
           b == PageOf(su, im, k)
<1>1. first \in Nat /\ ps \in Nat \ {0} /\ su.margin \in Nat /\ l \in Nat /\ first < l
  BY LenProperties
<1>2. b = sbuf_new(p, s, ps)
  BY DEF PageOf
<1> HIDE DEF first, b, l
<1>3. n \in Nat
  BY <1>1
<1>4. e \in Nat /\ e <= n /\ e <= l /\ (e = n \/ e = l)
  <2> HIDE DEF n
  <2> QED BY <1>1, <1>3, MinOfTwo
<1>5. first < e
  BY <1>1, <1>4
<1> HIDE DEF e
<1>6. /\ s \in Seq(Bytes) /\ Len(s) = e - first
      /\ \A i \in 1 .. e - first : s[i] = im[first + i]
  <2> DEFINE m == first + 1
  <2>1. m \in Int /\ e \in Int /\ m <= e /\ e - m + 1 = e - first
    BY <1>1, <1>4, <1>5
  <2>2. \A i \in m .. e : im[i] \in Bytes
    <3>1. \A i \in 1 .. Len(im) : im[i] \in Bytes
      BY ElementOfSeq
    <3> QED BY <1>1, <1>4, <3>1 DEF l
  <2>3. \A i \in 1 .. e - first : m + i - 1 = first + i
    BY <1>1, <1>4
  <2> HIDE DEF m
  <2>4. /\ SubSeq(im, m, e) \in Seq(Bytes) /\ Len(SubSeq(im, m, e)) = e - m + 1
        /\ \A i \in 1 .. e - m + 1 : SubSeq(im, m, e)[i] = im[m + i - 1]
    BY <2>1, <2>2, SubSeqProperties
  <2> QED BY <2>1, <2>3, <2>4 DEF m
<1> HIDE DEF s
<1>7. p \in Positions /\ p = [path |-> <<>>, offset |-> first]
  BY <1>1 DEF pos0_t, Positions, PathSet
<1> HIDE DEF p
<1>8. b \in Buffers
  BY <1>1, <1>2, <1>6, <1>7, NewBuffer
<1>9. b.pos0 = p /\ b.buf = s /\ b.pagesize = Min({e - first, ps}) /\ bufsize(b) = e - first
  BY <1>2, <1>6 DEF sbuf_new, sbuf_t, bufsize
<1>10. /\ e - first \in Nat /\ b.pagesize \in Nat /\ b.pagesize <= e - first /\ b.pagesize <= ps
       /\ b.pagesize = e - first \/ b.pagesize = ps
  <2> DEFINE x == e - first
  <2>1. x \in Nat
    BY <1>1, <1>4, <1>5
  <2> HIDE DEF x
  <2>2. Min({x, ps}) \in Nat /\ Min({x, ps}) <= x /\ Min({x, ps}) <= ps /\ (Min({x, ps}) = x \/ Min({x, ps}) = ps)
    BY <1>1, <2>1, MinOfTwo
  <2> QED BY <1>9, <2>1, <2>2 DEF x
<1>11. Inside(b.buf, im, first)
  <2>1. \A i \in 1 .. e - first : first + i \in 1 .. l
    BY <1>1, <1>4
  <2> QED BY <1>6, <1>9, <2>1 DEF Inside, l
<1>12. first + bufsize(b) <= l /\ bufsize(b) <= ps + su.margin
  BY <1>1, <1>4, <1>9
<1>13. ASSUME NEW j \in Nat, j < ps + su.margin, first + j < l
       PROVE  j < bufsize(b) /\ b.buf[j + 1] = im[first + j + 1]
  <2>1. j < e - first /\ j + 1 \in 1 .. e - first /\ first + (j + 1) = first + j + 1
    BY <1>1, <1>4, <1>13
  <2> QED BY <1>6, <1>9, <2>1
<1>14. ASSUME NEW j \in Nat
       PROVE  j < b.pagesize <=> j < ps /\ first + j < l
  <2>1. j < e - first /\ j < ps <=> j < ps /\ first + j < l
    BY <1>1, <1>4
  <2> QED BY <1>1, <1>10, <2>1
<1>15. b.pagesize > 0
  BY <1>1, <1>4, <1>5, <1>10
<1> QED BY <1>1, <1>7, <1>8, <1>9, <1>10, <1>11, <1>12, <1>13, <1>14, <1>15 DEF first, l, b

Cut(su) == su.pagesize \in Nat \ {0} /\ su.margin \in Nat /\ su.needle \in Seq(Bytes)

(* What is wanted of the image is wanted of its page, and what occurs in   *)
(* a page does in the image.                                               *)
LEMMA BytesOfPage ==
  ASSUME NEW su, Cut(su), NEW im \in Seq(Bytes), NEW k \in Nat, k * su.pagesize < Len(im)
  PROVE  /\ k * su.pagesize \in Nat /\ PageOf(su, im, k) \in Buffers /\ PageOf(su, im, k).pagesize \in Nat
         /\ PageOf(su, im, k).pos0 = [path |-> <<>>, offset |-> k * su.pagesize]
         /\ Inside(PageOf(su, im, k).buf, im, k * su.pagesize)
         /\ k * su.pagesize + bufsize(PageOf(su, im, k)) <= Len(im)
         /\ bufsize(PageOf(su, im, k)) <= su.pagesize + su.margin
         /\ \A j \in Nat : j < su.pagesize + su.margin /\ k * su.pagesize + j < Len(im) =>
               j < bufsize(PageOf(su, im, k)) /\ PageOf(su, im, k).buf[j + 1] = im[k * su.pagesize + j + 1]
         /\ \A j \in Nat : j < PageOf(su, im, k).pagesize <=> j < su.pagesize /\ k * su.pagesize + j < Len(im)
         /\ PageOf(su, im, k).pagesize > 0 /\ PageOf(su, im, k).pagesize <= su.pagesize
         /\ Len(im) \in Nat
         /\ bufsize(PageOf(su, im, k)) = Len(PageOf(su, im, k).buf) /\ bufsize(PageOf(su, im, k)) \in Nat
         /\ PageOf(su, im, k).pagesize <= bufsize(PageOf(su, im, k))
<1>1. su.pagesize \in Nat \ {0} /\ su.margin \in Nat
  BY DEF Cut
<1>2. Len(im) \in Nat
  BY LenProperties
<1> DEFINE b == PageOf(su, im, k)
<1>3. b \in Buffers
  BY <1>1, PageIs
<1> HIDE DEF b
<1>4. b.pagesize \in Nat /\ bufsize(b) = Len(b.buf) /\ bufsize(b) \in Nat /\ b.pagesize <= bufsize(b)
  BY <1>3, BufferHas
<1>5. /\ k * su.pagesize \in Nat
      /\ PageOf(su, im, k).pos0 = [path |-> <<>>, offset |-> k * su.pagesize]
      /\ Inside(PageOf(su, im, k).buf, im, k * su.pagesize)
      /\ k * su.pagesize + bufsize(PageOf(su, im, k)) <= Len(im)
      /\ bufsize(PageOf(su, im, k)) <= su.pagesize + su.margin
      /\ PageOf(su, im, k).pagesize > 0 /\ PageOf(su, im, k).pagesize <= su.pagesize
  BY <1>1, PageIs
<1>6. \A j \in Nat : j < su.pagesize + su.margin /\ k * su.pagesize + j < Len(im) =>
               j < bufsize(PageOf(su, im, k)) /\ PageOf(su, im, k).buf[j + 1] = im[k * su.pagesize + j + 1]
  BY <1>1, PageIs
<1>7. \A j \in Nat : j < PageOf(su, im, k).pagesize <=> j < su.pagesize /\ k * su.pagesize + j < Len(im)
  BY <1>1, PageIs
<1> QED BY <1>2, <1>3, <1>4, <1>5, <1>6, <1>7 DEF b

LEMMA PageBegins ==
  ASSUME NEW n \in Nat \ {0}, NEW k \in Nat
  PROVE  (k * n) \div n = k /\ (k * n) % n = 0
<1> DEFINE p == k * n
<1>1. p \in Nat
  OBVIOUS
<1>2. p <= p /\ p < p + n
  <2> HIDE DEF p
  <2> QED BY <1>1
<1>3. /\ k * n <= p /\ p < k * n + n <=> p \div n = k
      /\ p % n = p - (p \div n) * n
  BY <1>1, PageOfPlace
<1>4. p \div n = k
  BY <1>2, <1>3
<1>5. p % n = p - p
  BY <1>3, <1>4
<1>6. p - p = 0
  <2> HIDE DEF p
  <2> QED BY <1>1
<1> HIDE DEF p
<1>7. p \div n = k /\ p % n = 0
  BY <1>4, <1>5, <1>6
<1> QED BY <1>7 DEF p

LEMMA PageWants ==
  ASSUME NEW su, Cut(su), Looks(su), NEW im \in Seq(Bytes), NEW k \in Nat, k * su.pagesize < Len(im),
         NEW p \in 0 .. Len(im) - 1, k * su.pagesize <= p, p < k * su.pagesize + su.pagesize,
         WantedAt(su, im, p)
  PROVE  /\ p - k * su.pagesize \in 0 .. PageOf(su, im, k).pagesize - 1
         /\ WantedIn(su, PageOf(su, im, k), p - k * su.pagesize)
<1> DEFINE ps == su.pagesize
           l == Len(im)
           b == PageOf(su, im, k)
           base == k * ps
           q == p - base
<1>1. ps \in Nat \ {0} /\ su.margin \in Nat /\ su.needle \in Seq(Bytes)
  BY DEF Cut
<1>2. /\ base \in Nat /\ b \in Buffers /\ b.pagesize \in Nat
      /\ \A j \in Nat : j < ps + su.margin /\ base + j < l =>
            j < bufsize(b) /\ b.buf[j + 1] = im[base + j + 1]
      /\ \A j \in Nat : j < b.pagesize <=> j < ps /\ base + j < l
      /\ l \in Nat /\ bufsize(b) = Len(b.buf) /\ bufsize(b) \in Nat
  BY BytesOfPage
<1>3. p \in Nat /\ p < l /\ base <= p /\ p < base + ps
  BY <1>2
<1> HIDE DEF base, b, l
<1>4. q \in Nat /\ q < ps /\ base + q = p
  BY <1>1, <1>2, <1>3
<1> HIDE DEF q
<1>5. q < b.pagesize
  BY <1>1, <1>2, <1>3, <1>4
<1>6. b.buf[q + 1] = im[p + 1] /\ (q > 0 => b.buf[q] = im[p])
  <2>1. b.buf[q + 1] = im[base + q + 1]
    <3>1. q < ps + su.margin /\ base + q < l
      BY <1>1, <1>2, <1>3, <1>4
    <3> QED BY <1>2, <1>4, <3>1
  <2>2. q > 0 => b.buf[q] = im[p]
    <3> SUFFICES ASSUME q > 0 PROVE b.buf[q] = im[p]
      OBVIOUS
    <3> DEFINE j == q - 1
    <3>1. j \in Nat /\ j < ps + su.margin /\ base + j < l /\ j + 1 = q /\ base + j + 1 = p
      BY <1>1, <1>2, <1>3, <1>4
    <3> HIDE DEF j
    <3> QED BY <1>2, <3>1
  <2> QED BY <1>4, <2>1, <2>2
<1>7. q > 1 => b.buf[q - 1] = im[p - 1]
  <2> SUFFICES ASSUME q > 1 PROVE b.buf[q - 1] = im[p - 1]
    OBVIOUS
  <2> DEFINE j == q - 2
  <2>1. j \in Nat /\ j < ps + su.margin /\ base + j < l /\ j + 1 = q - 1 /\ base + j + 1 = p - 1
    BY <1>1, <1>2, <1>3, <1>4
  <2> HIDE DEF j
  <2> QED BY <1>2, <2>1
<1>8. WantedIn(su, b, q)
  <2>1. OccursAt(su, im, p) /\ ~HiddenAt(su, im, p)
    BY DEF WantedAt
  <2>2. CASE Searches(su)
    <3>1. /\ OccursAt(su, im, p) <=> Inside(su.needle, im, p)
          /\ OccursAt(su, b.buf, q) <=> Inside(su.needle, b.buf, q)
          /\ Len(su.needle) <= su.margin + 1 /\ su.kind # "getline"
      BY <2>2 DEF OccursAt, Searches
    <3>2. Inside(su.needle, b.buf, q)
      <4> SUFFICES ASSUME NEW i \in 1 .. Len(su.needle)
                   PROVE  q + i \in 1 .. Len(b.buf) /\ su.needle[i] = b.buf[q + i]
        BY DEF Inside
      <4>1. p + i \in 1 .. Len(im) /\ su.needle[i] = im[p + i]
        BY <2>1, <3>1 DEF Inside
      <4> DEFINE j == q + i - 1
      <4>2. Len(su.needle) \in Nat /\ i \in Nat /\ i >= 1 /\ i <= su.margin + 1
        BY <1>1, <3>1, LenProperties
      <4>3. j \in Nat /\ j < ps + su.margin /\ base + j < l /\ j + 1 = q + i /\ base + j + 1 = p + i
        <5>1. p + i <= l
          BY <1>2, <1>3, <4>1, <4>2 DEF l
        <5> DEFINE n == su.margin
        <5>2. i <= n + 1 /\ n \in Nat
          BY <1>1, <4>2
        <5> HIDE DEF n, ps
        <5>3. j \in Nat /\ j < ps + n /\ base + j < l /\ j + 1 = q + i /\ base + j + 1 = p + i
          BY <1>1, <1>2, <1>3, <1>4, <4>2, <5>1, <5>2
        <5> QED BY <5>3 DEF n
      <4> HIDE DEF j
      <4>4. j < bufsize(b) /\ b.buf[j + 1] = im[base + j + 1]
        BY <1>2, <4>3
      <4>5. q + i \in 1 .. Len(b.buf)
        BY <1>2, <4>3, <4>4
      <4> QED BY <4>1, <4>3, <4>4, <4>5
    <3>3. ~HiddenIn(su, b, q)
      <4>1. q > 0 => p > 0
        BY <1>2, <1>4
      <4> QED BY <1>6, <2>1, <3>1, <4>1 DEF HiddenIn, HiddenAt
    <3> QED BY <3>1, <3>2, <3>3 DEF WantedIn
  <2>3. CASE su.kind = "getline"
    <3>1. \A s, i : OccursAt(su, s, i) <=> (i = 0 \/ s[i] = NEWLINE)
      BY <2>3 DEF OccursAt
    <3>2. OccursAt(su, b.buf, q)
      <4>1. p = 0 => q = 0
        BY <1>2, <1>4
      <4>2. q = 0 \/ q > 0
        BY <1>4
      <4> QED BY <1>6, <2>1, <3>1, <4>1, <4>2
    <3>3. ~HiddenIn(su, b, q)
      <4> SUFFICES ASSUME q > 0, b.buf[q + 1] # NEWLINE, OccursAt(su, b.buf, q - 1) PROVE FALSE
        BY <2>3 DEF HiddenIn
      <4>1. p > 0 /\ im[p + 1] # NEWLINE
        BY <1>2, <1>4, <1>6
      <4>2. CASE q = 1
        <5>1. p - 1 = base
          BY <1>2, <1>4, <4>2
        <5>2. base % ps = 0
          BY <1>1, <1>2, PageBegins DEF base
        <5> QED BY <2>1, <2>3, <4>1, <5>1, <5>2 DEF HiddenAt
      <4>3. CASE q # 1
        <5>1. q > 1 /\ q - 1 # 0
          BY <1>4, <4>3
        <5>2. im[p - 1] = NEWLINE
          BY <1>7, <3>1, <5>1
        <5>3. OccursAt(su, im, p - 1)
          BY <3>1, <5>2
        <5> QED BY <2>1, <2>3, <4>1, <5>3 DEF HiddenAt
      <4> QED BY <4>2, <4>3
    <3> QED BY <3>2, <3>3 DEF WantedIn
  <2>4. CASE su.kind = "strings"
    <3>1. \A s, i : OccursAt(su, s, i) <=> (s[i + 1] # 0 /\ (i = 0 \/ s[i] = 0))
      BY <2>4 DEF OccursAt
    <3>2. OccursAt(su, b.buf, q)
      <4>1. p = 0 => q = 0
        BY <1>2, <1>4
      <4>2. q = 0 \/ q > 0
        BY <1>4
      <4> QED BY <1>6, <2>1, <3>1, <4>1, <4>2
    <3>3. ~HiddenIn(su, b, q)
      BY <2>4 DEF HiddenIn
    <3> QED BY <3>2, <3>3 DEF WantedIn
  <2> QED BY <2>2, <2>3, <2>4 DEF Looks
<1>9. q \in 0 .. b.pagesize - 1
  BY <1>2, <1>4, <1>5
<1> QED BY <1>8, <1>9 DEF q, base, b

LEMMA PageFinds ==
  ASSUME NEW su, Cut(su), Looks(su), NEW im \in Seq(Bytes), NEW k \in Nat, k * su.pagesize < Len(im),
         NEW q \in Nat, q < PageOf(su, im, k).pagesize, OccursAt(su, PageOf(su, im, k).buf, q)
  PROVE  /\ k * su.pagesize + q \in 0 .. Len(im) - 1
         /\ \/ OccursAt(su, im, k * su.pagesize + q)
            \/ su.kind \in {"getline", "strings"} /\ (k * su.pagesize + q) % su.pagesize = 0
<1> DEFINE ps == su.pagesize
           l == Len(im)
           b == PageOf(su, im, k)
           base == k * ps
           p == base + q
<1>1. ps \in Nat \ {0} /\ su.margin \in Nat /\ su.needle \in Seq(Bytes)
  BY DEF Cut
<1>2. /\ base \in Nat /\ b \in Buffers /\ b.pagesize \in Nat /\ Inside(b.buf, im, base)
      /\ \A j \in Nat : j < b.pagesize <=> j < ps /\ base + j < l
      /\ l \in Nat /\ bufsize(b) = Len(b.buf) /\ bufsize(b) \in Nat /\ b.pagesize <= bufsize(b)
  BY BytesOfPage
<1>a. base % ps = 0
  BY <1>1, <1>2, PageBegins
<1>3. q < b.pagesize /\ OccursAt(su, b.buf, q)
  OBVIOUS
<1> HIDE DEF b, l, base
<1>4. p \in 0 .. l - 1
  BY <1>2, <1>3
<1>5. /\ b.buf[q + 1] = im[p + 1]
      /\ q > 0 => b.buf[q] = im[p]
  <2>1. q + 1 \in 1 .. Len(b.buf) /\ base + (q + 1) = p + 1 /\ (q > 0 => q \in 1 .. Len(b.buf))
    BY <1>2, <1>3
  <2> QED BY <1>2, <2>1 DEF Inside
<1>6. \/ OccursAt(su, im, p)
      \/ su.kind \in {"getline", "strings"} /\ p % ps = 0
  <2>1. CASE Searches(su)
    <3>1. /\ OccursAt(su, im, p) <=> Inside(su.needle, im, p)
          /\ OccursAt(su, b.buf, q) <=> Inside(su.needle, b.buf, q)
      BY <2>1 DEF OccursAt, Searches
    <3>2. Inside(su.needle, im, p)
      <4> SUFFICES ASSUME NEW i \in 1 .. Len(su.needle)
                   PROVE  p + i \in 1 .. Len(im) /\ su.needle[i] = im[p + i]
        BY DEF Inside
      <4>1. q + i \in 1 .. Len(b.buf) /\ su.needle[i] = b.buf[q + i]
        BY <1>3, <3>1 DEF Inside
      <4>2. i \in Nat
        BY <1>1, LenProperties
      <4>3. base + (q + i) = p + i
        BY <1>2, <4>2
      <4> QED BY <1>2, <4>1, <4>3 DEF Inside
    <3> QED BY <3>1, <3>2
  <2>2. CASE su.kind \in {"getline", "strings"} /\ q = 0
    <3>1. p = base
      BY <1>2, <2>2
    <3> QED BY <1>a, <2>2, <3>1
  <2>3. CASE su.kind = "getline" /\ q # 0
    <3>1. \A s, i : OccursAt(su, s, i) <=> (i = 0 \/ s[i] = NEWLINE)
      BY <2>3 DEF OccursAt
    <3>2. q > 0
      BY <2>3
    <3> QED BY <1>3, <1>5, <2>3, <3>1, <3>2
  <2>4. CASE su.kind = "strings" /\ q # 0
    <3>1. \A s, i : OccursAt(su, s, i) <=> (s[i + 1] # 0 /\ (i = 0 \/ s[i] = 0))
      BY <2>4 DEF OccursAt
    <3>2. q > 0
      BY <2>4
    <3> QED BY <1>3, <1>5, <2>4, <3>1, <3>2
  <2> QED BY <2>1, <2>2, <2>3, <2>4 DEF Looks
<1> QED BY <1>4, <1>6 DEF p, base, l

(* What is inside, in the rest of the page, is wanted of what is recursed  *)
(* into.                                                                   *)
LEMMA ChildBytes ==
  ASSUME NEW b \in Buffers, NEW pos \in 0 .. bufsize(b) - 1, NEW name \in Decoders
  PROVE  bufsize(ChildOf(b, pos, name)) = bufsize(b) - pos
<1> DEFINE n == bufsize(b) - pos
           c == ChildOf(b, pos, name)
<1>1. bufsize(b) \in Nat /\ b.buf \in Seq(Bytes) /\ bufsize(b) = Len(b.buf)
  BY BufferHas
<1>2. pos \in Nat /\ n \in Nat /\ n > 0 /\ pos + n = bufsize(b)
  BY <1>1
<1> DEFINE m == pos + 1
           e == pos + n
<1>3. m \in Int /\ e \in Int /\ m <= e /\ e - m + 1 = n /\ e = bufsize(b)
  BY <1>2
<1>4. \A i \in m .. e : b.buf[i] \in Bytes
  <2>1. \A i \in 1 .. Len(b.buf) : b.buf[i] \in Bytes
    BY <1>1, ElementOfSeq
  <2>2. m >= 1 /\ e <= Len(b.buf)
    BY <1>1, <1>2
  <2> HIDE DEF m, e
  <2> QED BY <1>1, <1>3, <2>1, <2>2
<1>5. SubSeq(b.buf, m, e) \in Seq(Bytes) /\ Len(SubSeq(b.buf, m, e)) = n
  <2> HIDE DEF m, e, n
  <2> QED BY <1>3, <1>4, SubSeqProperties
<1>6. CASE name = "SLICE"
  <2>1. c.buf = SubSeq(b.buf, m, e)
    BY <1>6 DEF ChildOf, new_slice, sbuf_t
  <2> QED BY <1>5, <2>1 DEF bufsize
<1>7. CASE name # "SLICE"
  <2>1. Min({e, bufsize(b)}) = e
    <3> HIDE DEF e
    <3> QED BY <1>1, <1>2, <1>3, MinOfTwo
  <2>2. substr(b, pos, n) = SubSeq(b.buf, m, e)
    BY <2>1 DEF substr
  <2>3. Len(Decode("XOR", substr(b, pos, n))) = n
    <3> HIDE DEF m, e, n
    <3>1. substr(b, pos, n) \in Seq(Bytes) /\ Len(substr(b, pos, n)) = n
      BY <1>5, <2>2
    <3> QED BY <3>1, DecodeType
  <2>4. c.buf = Decode("XOR", substr(b, pos, n))
    BY <1>7 DEF ChildOf, sbuf_new, sbuf_t
  <2> QED BY <2>3, <2>4 DEF bufsize
<1> QED BY <1>6, <1>7

LEMMA ChildPage ==
  ASSUME NEW b \in Buffers, NEW pos \in 0 .. b.pagesize - 1, NEW name \in Decoders, NEW q \in Nat,
         pos + q < b.pagesize
  PROVE  q < ChildOf(b, pos, name).pagesize
<1> DEFINE n == bufsize(b) - pos
           c == ChildOf(b, pos, name)
<1>1. bufsize(b) \in Nat /\ b.pagesize \in Nat /\ b.pagesize <= bufsize(b)
  BY BufferHas
<1>2. pos \in 0 .. bufsize(b) - 1 /\ n \in Nat /\ q < n /\ q < b.pagesize /\ ~(pos > b.pagesize)
  BY <1>1
<1>3. CASE name = "SLICE"
  <2>1. c.pagesize = Min({b.pagesize, n})
    BY <1>2, <1>3 DEF ChildOf, new_slice, sbuf_t, PageOfSlice
  <2> HIDE DEF n
  <2>2. Min({b.pagesize, n}) = IF b.pagesize <= n THEN b.pagesize ELSE n
    BY <1>1, <1>2, MinOfTwo
  <2> QED BY <1>2, <2>1, <2>2
<1>4. CASE name # "SLICE"
  <2>1. c = sbuf_new(ChildPos0(b, pos, name), Decode("XOR", substr(b, pos, n)), n)
    BY <1>4 DEF ChildOf
  <2>2. c.pagesize = Min({Len(c.buf), n})
    BY <2>1 DEF sbuf_new, sbuf_t
  <2>3. Len(c.buf) = n
    BY <1>2, ChildBytes DEF bufsize
  <2> HIDE DEF n, c
  <2>4. Min({n, n}) = n
    BY <1>2, MinOfTwo
  <2> QED BY <1>2, <2>2, <2>3, <2>4 DEF c
<1> QED BY <1>3, <1>4

LEMMA ChildWants ==
  ASSUME NEW su, Cut(su), Searches(su), su.recurse \in Decoders, NEW im \in Seq(Bytes),
         NEW k \in Nat, k * su.pagesize < Len(im), NEW pos \in 0 .. PageOf(su, im, k).pagesize - 1,
         NEW q \in Nat, InsideAt(su, im, k * su.pagesize + pos, q)
  PROVE  /\ q < ChildOf(PageOf(su, im, k), pos, su.recurse).pagesize
         /\ WantedIn(su, ChildOf(PageOf(su, im, k), pos, su.recurse), q)
<1> DEFINE ps == su.pagesize
           l == Len(im)
           b == PageOf(su, im, k)
           base == k * ps
           from == base + pos
           name == su.recurse
           c == ChildOf(b, pos, name)
           bytes == Decode(name, Behind(im, from))
<1>1. ps \in Nat \ {0} /\ su.margin \in Nat /\ su.needle \in Seq(Bytes)
  BY DEF Cut
<1>2. /\ base \in Nat /\ b \in Buffers /\ b.pagesize \in Nat /\ Inside(b.buf, im, base)
      /\ b.pos0 = [path |-> <<>>, offset |-> base]
      /\ \A j \in Nat : j < ps + su.margin /\ base + j < l => j < bufsize(b)
      /\ \A j \in Nat : j < b.pagesize <=> j < ps /\ base + j < l
      /\ l \in Nat /\ bufsize(b) \in Nat /\ b.pagesize <= bufsize(b) /\ base + bufsize(b) <= l
  BY BytesOfPage
<1>3. /\ q < Len(bytes) /\ (from + q) \div ps = from \div ps /\ Inside(su.needle, bytes, q)
      /\ ~(q > 0 /\ bytes[q] = su.needle[1])
  BY DEF InsideAt
<1>4. name \in Decoders
  OBVIOUS
<1>5. c \in Buffers /\ Inside(c.buf, bytes, 0) /\ bufsize(c) = bufsize(b) - pos
  <2>1. ~isRecursive(b.pos0) /\ b.pos0.offset = base
    BY <1>2 DEF isRecursive
  <2>2. pos \in 0 .. bufsize(b) - 1
    BY <1>2
  <2> HIDE DEF b
  <2>3. Source(im, b.pos0) = im
    BY <2>1 DEF Source
  <2>4. Holds(im, name, b)
    BY <1>2, <2>1, <2>3 DEF Holds
  <2>5. Holds(im, name, c) /\ c \in Buffers /\ isRecursive(c.pos0)
    BY <1>2, <1>4, <2>1, <2>2, <2>4, ChildHolds, ChildType
  <2>6. c.pos0 = [path |-> <<from, name>>, offset |-> 0]
    BY <2>1, ChildPlace
  <2>7. Source(im, c.pos0) = bytes
    BY <2>5, <2>6 DEF Source
  <2>8. bufsize(c) = bufsize(b) - pos
    BY <1>2, <1>4, <2>2, ChildBytes
  <2> QED BY <2>5, <2>6, <2>7, <2>8 DEF Holds
<1>6. pos \in Nat /\ pos < b.pagesize /\ pos < ps
  BY <1>2
<1> HIDE DEF b, base, l
<1>7. ps \in Nat \ {0} /\ from \in Nat /\ from < base + ps /\ base <= from
  <2>1. ps \in Nat \ {0} /\ base \in Nat /\ pos \in Nat /\ pos < ps
    BY <1>1, <1>2, <1>6
  <2> HIDE DEF ps
  <2> QED BY ONLY <2>1 DEF from
<1>8. from \div ps = k
  <2>1. base = k * ps
    BY DEF base
  <2> HIDE DEF from, ps
  <2> QED BY <1>7, <2>1, PlaceOnPage
<1>9. from + q < base + ps
  <2> DEFINE p == from + q
  <2>1. p \in Nat /\ p \div ps = k
    BY <1>3, <1>7, <1>8
  <2> HIDE DEF p
  <2>2. p < k * ps + ps
    BY <1>1, <2>1, PageOfPlace
  <2> QED BY <2>2 DEF p, base
<1>10. from + q < l
  <2>1. Len(bytes) = IF from <= Len(im) THEN Len(im) - from ELSE 0
    <3> HIDE DEF from
    <3>1. Behind(im, from) \in Seq(Bytes) /\ Len(Behind(im, from)) = IF from <= Len(im) THEN Len(im) - from ELSE 0
      BY <1>7, BehindIs
    <3> QED BY <3>1, DecodeType
  <2> HIDE DEF bytes
  <2> QED BY <1>2, <1>3, <1>7, <2>1 DEF l
<1>11. pos + q < b.pagesize
  <2>1. pos + q \in Nat /\ pos + q < ps /\ base + (pos + q) < l
    BY <1>1, <1>2, <1>6, <1>9, <1>10
  <2> QED BY <1>2, <2>1
<1>12. q < c.pagesize
  <2>1. pos \in 0 .. b.pagesize - 1
    BY <1>2, <1>6
  <2>2. q < ChildOf(b, pos, name).pagesize
    BY <1>2, <1>4, <1>11, <2>1, ChildPage
  <2> QED BY <2>2
<1> HIDE DEF c, bytes
<1>13. bufsize(c) = Len(c.buf) /\ bufsize(c) \in Nat
  BY <1>5, BufferHas
<1>14. ASSUME NEW i \in 1 .. Len(c.buf)
       PROVE  c.buf[i] = bytes[i]
  <2>1. i \in Int /\ 0 + i = i
    BY <1>13
  <2> QED BY <1>5, <2>1 DEF Inside
<1>15. Inside(su.needle, c.buf, q)
  <2> SUFFICES ASSUME NEW i \in 1 .. Len(su.needle)
               PROVE  q + i \in 1 .. Len(c.buf) /\ su.needle[i] = c.buf[q + i]
    BY DEF Inside
  <2>1. q + i \in 1 .. Len(bytes) /\ su.needle[i] = bytes[q + i]
    BY <1>3 DEF Inside
  <2>2. Len(su.needle) \in Nat /\ i \in Nat /\ i >= 1 /\ i <= su.margin + 1
    BY <1>1, LenProperties DEF Searches
  <2>3. q + i <= Len(bytes) /\ Len(bytes) = l - from /\ from <= l
    <3>1. Len(bytes) = IF from <= Len(im) THEN Len(im) - from ELSE 0
      <4> HIDE DEF from
      <4>1. Behind(im, from) \in Seq(Bytes) /\ Len(Behind(im, from)) = IF from <= Len(im) THEN Len(im) - from ELSE 0
        BY <1>7, BehindIs
      <4> QED BY <4>1, DecodeType DEF bytes
    <3>2. from <= Len(im) /\ Len(im) = l
      BY <1>2, <1>7, <1>10 DEF l
    <3>3. Len(bytes) = l - from
      BY <3>1, <3>2
    <3>4. l - from \in Nat
      BY <1>2, <1>7, <3>2
    <3> QED BY <2>1, <3>2, <3>3, <3>4
  <2> DEFINE j == pos + q + i - 1
  <2>4. j \in Nat /\ j < ps + su.margin /\ base + j < l
    <3>1. pos + q \in Nat /\ pos + q < ps
      BY <1>1, <1>2, <1>6, <1>9
    <3>2. pos + q + i - 1 \in Nat /\ pos + q + i - 1 < ps + su.margin
      BY <1>1, <1>6, <2>2, <3>1
    <3>3. base + (pos + q + i - 1) < l
      BY <1>2, <1>6, <1>7, <2>2, <2>3
    <3> QED BY <3>2, <3>3
  <2>5. j < bufsize(b)
    BY <1>2, <2>4
  <2>6. q + i \in 1 .. Len(c.buf)
    BY <1>2, <1>5, <1>6, <1>13, <2>2, <2>5
  <2> QED BY <1>14, <2>1, <2>6
<1>16. ~HiddenIn(su, c, q)
  <2> SUFFICES ASSUME q > 0, c.buf[q] = su.needle[1] PROVE FALSE
    BY DEF HiddenIn, Searches
  <2>1. q \in 1 .. Len(c.buf)
    <3>1. Len(su.needle) # 0 /\ Len(su.needle) \in Nat
      BY <1>1, LenProperties, EmptySeq DEF Searches
    <3>2. q + 1 \in 1 .. Len(c.buf)
      BY <1>15, <3>1 DEF Inside
    <3> QED BY <1>13, <3>2
  <2> QED BY <1>3, <1>14, <2>1
<1>17. WantedIn(su, c, q)
  <2>1. OccursAt(su, c.buf, q) <=> Inside(su.needle, c.buf, q)
    BY DEF OccursAt, Searches
  <2> QED BY <1>15, <1>16, <2>1 DEF WantedIn
<1> QED BY <1>12, <1>17 DEF c, b

(* It is not skipped.                                                      *)
LEMMA ScansAllSuits ==
  ASSUME NEW su, ScansAll(su), su.min_sbuf_size \in Nat, su.max_ngram \in Nat, su.min_distinct_chars \in Nat,
         NEW b \in Buffers, bufsize(b) > 0
  PROVE  SuitsOf(su, b)
<1>1. bufsize(b) \in Nat /\ DOMAIN b.buf = 1 .. Len(b.buf) /\ bufsize(b) = Len(b.buf)
  BY BufferHas
<1>2. su.max_ngram <= 1 => find_ngram_size(b, su.max_ngram) = 0
  <2> SUFFICES ASSUME su.max_ngram <= 1 PROVE find_ngram_size(b, su.max_ngram) = 0
    OBVIOUS
  <2>1. {n \in 1 .. su.max_ngram - 1 : Repeats(b, n)} = {}
    OBVIOUS
  <2> QED BY <2>1 DEF find_ngram_size
<1>3. get_distinct_character_count(b) \in Nat /\ get_distinct_character_count(b) >= 1
  <2> DEFINE f == b.buf
             n == Len(b.buf)
             T == {f[i] : i \in 1 .. n}
  <2>1. IsFiniteSet(1 .. n) /\ n \in Nat
    BY <1>1, FS_Interval
  <2>2. IsFiniteSet(T)
    <3>1. T \subseteq 0 .. 255
      <4>1. b.buf \in Seq(Bytes)
        BY BufferHas
      <4>2. \A i \in 1 .. n : f[i] \in Bytes
        BY <4>1, ElementOfSeq
      <4> HIDE DEF f, n
      <4> QED BY <4>2 DEF Bytes
    <3>2. IsFiniteSet(0 .. 255)
      <4>1. 0 \in Int /\ 255 \in Int
        OBVIOUS
      <4> QED BY <4>1, FS_Interval
    <3> HIDE DEF T
    <3> QED BY <3>1, <3>2, FS_Subset
  <2>3. f[1] \in T
    BY <1>1
  <2> HIDE DEF T
  <2>4. Cardinality(T) \in Nat /\ Cardinality(T) # 0
    BY <2>2, <2>3, FS_CardinalityType, FS_EmptySet
  <2>5. get_distinct_character_count(b) = Cardinality(T)
    BY <1>1 DEF get_distinct_character_count, T
  <2> QED BY <2>4, <2>5
<1> QED BY <1>1, <1>2, <1>3 DEF SuitsOf, ScansAll

LEMMA FrontOf ==
  ASSUME NEW im \in Seq(Bytes), NEW base \in Nat, base <= Len(im), NEW n \in Nat
  PROVE  LET s == SubSeq(Behind(im, base), 1, Min({n, Len(im) - base}))
         IN  /\ s \in Seq(Bytes)
             /\ Len(s) = IF n <= Len(im) - base THEN n ELSE Len(im) - base
             /\ \A i \in 1 .. Len(s) : s[i] = im[base + i]
<1> DEFINE t == Behind(im, base)
           m == Len(im) - base
           e == Min({n, m})
           s == SubSeq(t, 1, e)
<1>1. /\ t \in Seq(Bytes) /\ Len(t) = m /\ m \in Nat
      /\ \A i \in 1 .. Len(t) : t[i] = im[base + i]
  <2>1. Len(im) \in Nat
    BY LenProperties
  <2> QED BY <2>1, BehindIs
<1> HIDE DEF t, m
<1>2. e = (IF n <= m THEN n ELSE m) /\ e \in Nat /\ e <= m
  BY <1>1, MinOfTwo
<1> HIDE DEF e
<1>3. \A i \in 1 .. e : t[i] \in Bytes
  <2>1. \A i \in 1 .. Len(t) : t[i] \in Bytes
    BY <1>1, ElementOfSeq
  <2> QED BY <1>1, <1>2, <2>1
<1>4. s \in Seq(Bytes) /\ Len(s) = e /\ \A i \in 1 .. e : s[i] = t[i]
  <2>1. /\ SubSeq(t, 1, e) \in Seq(Bytes) /\ Len(SubSeq(t, 1, e)) = IF 1 <= e THEN e - 1 + 1 ELSE 0
        /\ \A i \in 1 .. e - 1 + 1 : SubSeq(t, 1, e)[i] = t[1 + i - 1]
    BY <1>2, <1>3, SubSeqProperties
  <2> HIDE DEF s
  <2>2. s = SubSeq(t, 1, e)
    BY DEF s
  <2>3. Len(s) = e
    BY <1>2, <2>1, <2>2
  <2>4. ASSUME NEW i \in 1 .. e
        PROVE  s[i] = t[i]
    <3>1. i \in 1 .. e - 1 + 1 /\ 1 + i - 1 = i
      BY <1>2
    <3> QED BY <2>1, <2>2, <3>1
  <2> QED BY <2>1, <2>2, <2>3, <2>4
<1>5. \A i \in 1 .. e : s[i] = im[base + i]
  <2> HIDE DEF s
  <2> QED BY <1>1, <1>2, <1>4
<1> HIDE DEF s
<1> QED BY <1>2, <1>4, <1>5 DEF s, t, m, e

(* A page that the scanner is not called on is one of those that are       *)
(* skipped.                                                                *)
LEMMA SkippedIs ==
  ASSUME setup \in Setups, image \in Seq(Bytes), NEW k \in Nat, k * setup.pagesize < Len(image),
         ~SuitsOf(setup, PageOf(setup, image, k))
  PROVE  k \in SkippedPages
<1> DEFINE ps == setup.pagesize
           base == k * ps
           l == Len(image)
           b == PageOf(setup, image, k)
           bytes(n) == SubSeq(Behind(image, base), 1, Min({n, l - base}))
           both == bytes(ps + setup.margin)
           page1 == bytes(ps)
<1>1. /\ ps \in Nat \ {0} /\ setup.margin \in Nat /\ Cut(setup)
      /\ setup.max_ngram \in Nat
  BY SetupHas, SetupsAssumption DEF Cut
<1>2. /\ base \in Nat /\ b \in Buffers /\ b.pagesize \in Nat /\ Inside(b.buf, image, base)
      /\ base + bufsize(b) <= l /\ bufsize(b) <= ps + setup.margin
      /\ \A j \in Nat : j < ps + setup.margin /\ base + j < l => j < bufsize(b)
      /\ \A j \in Nat : j < b.pagesize <=> j < ps /\ base + j < l
      /\ l \in Nat /\ bufsize(b) = Len(b.buf) /\ bufsize(b) \in Nat /\ b.pagesize <= bufsize(b)
      /\ b.pagesize <= ps
  BY <1>1, BytesOfPage
<1>3. b.buf \in Seq(Bytes) /\ DOMAIN b.buf = 1 .. Len(b.buf)
  BY <1>2, BufferHas
<1>4. k \in {p \div ps : p \in PageStarts}
  <2>1. base \div ps = k /\ base % ps = 0
    BY <1>1, PageBegins
  <2>2. base \in 0 .. l - 1
    BY <1>2
  <2> QED BY <2>1, <2>2 DEF PageStarts, ImagePositions
<1>5. ~SuitsOf(setup, b)
  OBVIOUS
<1>6. k \in SkippedPages <=>
          \/ Len(both) < setup.min_sbuf_size
          \/ Cardinality(ToSet(both)) < setup.min_distinct_chars
          \/ /\ ~setup.scan_ngram_buffer
             /\ \E n \in 1 .. setup.max_ngram - 1 : HasPeriod(page1, n)
  <2> HIDE DEF both, page1
  <2>1. both = SubSeq(Behind(image, k * setup.pagesize), 1,
                      Min({setup.pagesize + setup.margin, Len(image) - k * setup.pagesize}))
    BY DEF both
  <2>2. page1 = SubSeq(Behind(image, k * setup.pagesize), 1,
                       Min({setup.pagesize, Len(image) - k * setup.pagesize}))
    BY DEF page1
  <2> QED BY <1>4, <2>1, <2>2, Zenon DEF SkippedPages
<1>7. /\ both \in Seq(Bytes)
      /\ Len(both) = IF ps + setup.margin <= l - base THEN ps + setup.margin ELSE l - base
      /\ \A i \in 1 .. Len(both) : both[i] = image[base + i]
  <2>1. base <= Len(image) /\ ps + setup.margin \in Nat
    BY <1>1, <1>2
  <2> HIDE DEF base, ps
  <2> QED BY <1>2, <2>1, FrontOf
<1>8. /\ page1 \in Seq(Bytes)
      /\ Len(page1) = IF ps <= l - base THEN ps ELSE l - base
      /\ \A i \in 1 .. Len(page1) : page1[i] = image[base + i]
  <2>1. base <= Len(image)
    BY <1>1, <1>2
  <2> HIDE DEF base, ps
  <2> QED BY <1>1, <1>2, <2>1, FrontOf
<1> HIDE DEF b, both, page1, base, l
<1>9. bufsize(b) = Len(both)
  <2> DEFINE n == bufsize(b)
  <2>1. n \in Nat /\ n <= ps + setup.margin /\ n <= l - base /\ ~(n < ps + setup.margin /\ base + n < l)
    BY <1>2
  <2> HIDE DEF n
  <2>2. n = IF ps + setup.margin <= l - base THEN ps + setup.margin ELSE l - base
    BY <1>1, <1>2, <2>1
  <2> QED BY <1>7, <2>2 DEF n
<1>10. \A i \in 1 .. Len(b.buf) : b.buf[i] = image[base + i]
  BY <1>2 DEF Inside
<1>11. both = b.buf
  <2>1. Len(both) = Len(b.buf)
    BY <1>2, <1>9
  <2>2. ASSUME NEW i \in 1 .. Len(both)
        PROVE  both[i] = b.buf[i]
    BY <1>7, <1>10, <2>1
  <2> QED BY <1>3, <1>7, <2>1, <2>2, SeqEqual
<1>12. CASE ~(bufsize(b) >= setup.min_sbuf_size)
  <2>1. setup.min_sbuf_size \in Nat
    BY SetupsAssumption
  <2> QED BY <1>2, <1>6, <1>9, <1>12, <2>1
<1>13. CASE ~(get_distinct_character_count(b) >= setup.min_distinct_chars)
  <2>1. setup.min_distinct_chars \in Nat
    BY SetupsAssumption
  <2>2. get_distinct_character_count(b) = Cardinality(ToSet(both))
    BY <1>11 DEF get_distinct_character_count, ToSet
  <2>3. get_distinct_character_count(b) \in Nat
    <3> DEFINE f == b.buf
               n == Len(f)
               T == {f[i] : i \in 1 .. n}
    <3>1. T \subseteq 0 .. 255
      <4>1. \A i \in 1 .. n : f[i] \in Bytes
        BY <1>3, ElementOfSeq
      <4> HIDE DEF f, n
      <4>2. \A i \in 1 .. n : f[i] \in 0 .. 255
        BY <4>1 DEF Bytes
      <4> QED BY <4>2
    <3>2. IsFiniteSet(0 .. 255)
      <4>1. 0 \in Int /\ 255 \in Int
        OBVIOUS
      <4> QED BY <4>1, FS_Interval
    <3> HIDE DEF T
    <3>3. IsFiniteSet(T)
      BY <3>1, <3>2, FS_Subset
    <3>4. Cardinality(T) \in Nat
      BY <3>3, FS_CardinalityType
    <3>5. get_distinct_character_count(b) = Cardinality(T)
      BY <1>3 DEF get_distinct_character_count, T
    <3> QED BY <3>4, <3>5
  <2> QED BY <1>6, <1>13, <2>1, <2>2, <2>3
<1>14. CASE ~(setup.scan_ngram_buffer \/ find_ngram_size(b, setup.max_ngram) = 0)
  <2>1. PICK n \in 1 .. setup.max_ngram - 1 : Repeats(b, n)
    BY <1>14 DEF find_ngram_size
  <2>2. n \in Nat \ {0} /\ n * 2 < b.pagesize /\ \A i \in n .. b.pagesize - 1 : At(b, i % n) = At(b, i)
    BY <1>1, <2>1 DEF Repeats
  <2>3. Len(page1) = b.pagesize
    <3> DEFINE m == b.pagesize
    <3>1. m \in Nat /\ m <= ps /\ m <= l - base /\ ~(m < ps /\ base + m < l)
      BY <1>2
    <3> HIDE DEF m
    <3>2. m = IF ps <= l - base THEN ps ELSE l - base
      BY <1>1, <1>2, <3>1
    <3> QED BY <1>8, <3>2 DEF m
  <2>4. ASSUME NEW j \in Nat, j < b.pagesize
        PROVE  At(b, j) = page1[j + 1]
    <3>1. j + 1 \in 1 .. Len(page1) /\ j + 1 \in 1 .. Len(b.buf)
      BY <1>2, <2>3, <2>4
    <3> QED BY <1>8, <1>10, <3>1 DEF At
  <2>5. ASSUME NEW i \in 1 .. Len(page1) - n
        PROVE  page1[i] = page1[i + n]
    <3> DEFINE j == i - 1
    <3>1. j \in Nat /\ j < b.pagesize /\ j + n \in Nat /\ j + n < b.pagesize /\ j + 1 = i /\ (j + n) + 1 = i + n
      BY <1>2, <2>2, <2>3
    <3> HIDE DEF j
    <3>2. At(b, (j + n) % n) = At(b, j + n)
      <4>1. j + n \in n .. b.pagesize - 1
        BY <1>2, <2>2, <3>1
      <4> QED BY <2>2, <4>1
    <3>3. At(b, j % n) = At(b, j)
      <4>1. CASE j < n
        BY <2>2, <3>1, <4>1, NextModulus
      <4>2. CASE ~(j < n)
        <5>1. j \in n .. b.pagesize - 1
          BY <1>2, <2>2, <3>1, <4>2
        <5> QED BY <2>2, <5>1
      <4> QED BY <4>1, <4>2
    <3>4. (j + n) % n = j % n
      BY <2>2, <3>1, NextModulus
    <3>5. At(b, j) = At(b, j + n)
      BY <3>2, <3>3, <3>4
    <3>6. At(b, j) = page1[j + 1] /\ At(b, j + n) = page1[(j + n) + 1]
      BY <2>4, <3>1
    <3> QED BY <3>1, <3>5, <3>6
  <2>6. HasPeriod(page1, n)
    <3>1. 2 * n < Len(page1)
      BY <2>2, <2>3
    <3> QED BY <2>5, <3>1 DEF HasPeriod
  <2> QED BY <1>6, <1>14, <2>6
<1> QED BY <1>5, <1>12, <1>13, <1>14 DEF SuitsOf

(* What an action leaves of what was passed and found before.              *)
LEMMA SweptMore ==
  ASSUME NEW su, NEW im, NEW P, NEW A, NEW Q, NEW B, P \subseteq Q, A \subseteq B,
         NEW n \in Nat, NEW n2 \in Nat, NEW m \in Nat, Swept(su, im, P, A, n, m),
         \A p \in 0 .. Len(im) - 1 :
            n <= p /\ p < n2 /\ p < m /\ WantedAt(su, im, p) =>
               \/ FoundAt(su, Q, p)
               \/ PageAlert(su, B, p)
               \/ ~SuitsOf(su, PageOf(su, im, p \div su.pagesize))
  PROVE  Swept(su, im, Q, B, n2, m)
<1> SUFFICES ASSUME NEW p \in 0 .. Len(im) - 1, p < n2, p < m, WantedAt(su, im, p)
             PROVE  \/ FoundAt(su, Q, p)
                    \/ PageAlert(su, B, p)
                    \/ ~SuitsOf(su, PageOf(su, im, p \div su.pagesize))
  BY DEF Swept
<1>1. p \in Int
  OBVIOUS
<1>2. CASE p < n
  <2>1. \/ FoundAt(su, P, p)
        \/ PageAlert(su, A, p)
        \/ ~SuitsOf(su, PageOf(su, im, p \div su.pagesize))
    BY <1>2 DEF Swept
  <2>2. FoundAt(su, P, p) => FoundAt(su, Q, p)
    BY DEF FoundAt
  <2>3. PageAlert(su, A, p) => PageAlert(su, B, p)
    BY DEF PageAlert
  <2> QED BY <2>1, <2>2, <2>3
<1>3. CASE ~(p < n)
  <2>1. n <= p
    BY <1>1, <1>3
  <2> QED BY <2>1
<1> QED BY <1>2, <1>3

LEMMA InsideMore ==
  ASSUME NEW su, NEW im, NEW P, NEW A, NEW Q, NEW B, P \subseteq Q, A \subseteq B,
         NEW b, NEW n, NEW b2, NEW n2, SweptInside(su, im, P, A, b, n),
         su.recurse # "no" => \A x \in Q : x \in P \/ isRecursive(x) \/ SweptAt(su, im, Q, B, b2, n2, x.offset),
         su.recurse # "no" =>
            \A from : \A q \in 0 .. Len(im) - 1 :
               InsideAt(su, im, from, q) /\ b.pos0.path = InsidePath(su, from) /\ q >= n =>
                  \/ pos0_t(InsidePath(su, from), 0) \in B
                  \/ pos0_t(InsidePath(su, from), q) \in Q
                  \/ b2.pos0.path = InsidePath(su, from) /\ q >= n2
  PROVE  SweptInside(su, im, Q, B, b2, n2)
<1> SUFFICES ASSUME su.recurse # "no", NEW x \in Q, ~isRecursive(x)
             PROVE  SweptAt(su, im, Q, B, b2, n2, x.offset)
  BY DEF SweptInside
<1> SUFFICES ASSUME x \in P
             PROVE  SweptAt(su, im, Q, B, b2, n2, x.offset)
  OBVIOUS
<1> DEFINE from == x.offset
<1>1. SweptAt(su, im, P, A, b, n, from)
  BY DEF SweptInside
<1> SUFFICES SweptAt(su, im, Q, B, b2, n2, from)
  OBVIOUS
<1> HIDE DEF from
<1>2. CASE PageAlert(su, A, from)
  BY <1>2 DEF SweptAt, PageAlert
<1>3. CASE pos0_t(InsidePath(su, from), 0) \in B
  BY <1>3 DEF SweptAt
<1>4. CASE ~PageAlert(su, A, from) /\ pos0_t(InsidePath(su, from), 0) \notin B
  <2>1. ASSUME NEW q \in 0 .. Len(im) - 1, InsideAt(su, im, from, q)
        PROVE  \/ pos0_t(InsidePath(su, from), q) \in Q
               \/ b2.pos0.path = InsidePath(su, from) /\ q >= n2
    <3>1. \/ pos0_t(InsidePath(su, from), q) \in P
          \/ b.pos0.path = InsidePath(su, from) /\ q >= n
      BY <1>1, <1>4, <2>1 DEF SweptAt
    <3> QED BY <1>4, <2>1, <3>1
  <2> QED BY <2>1 DEF SweptAt
<1> QED BY <1>2, <1>3, <1>4

(* The page that is scanned.                                               *)
LEMMA OuterPage ==
  ASSUME Typed, Sought, Sweep, pc = "scan"
  PROVE  /\ Cut(setup) /\ Looks(setup) /\ image \in Seq(Bytes) /\ Len(image) \in Nat
         /\ page - 1 \in Nat /\ (page - 1) * setup.pagesize \in Nat
         /\ (page - 1) * setup.pagesize < Len(image)
         /\ Outer.sbuf = PageOf(setup, image, page - 1)
         /\ Outer.sbuf.pos0 = [path |-> <<>>, offset |-> (page - 1) * setup.pagesize]
         /\ page * setup.pagesize = (page - 1) * setup.pagesize + setup.pagesize
         /\ page * setup.pagesize \in Nat
         /\ Aligned(setup, Outer.sbuf, Outer.at)
         /\ Outer.at \in Nat /\ Outer.sbuf \in Buffers
<1>1. setup \in Setups /\ image \in Seq(Bytes)
  BY DEF Typed, ImageTyped
<1>2. Cut(setup) /\ setup.pagesize \in Nat \ {0}
  BY <1>1, SetupHas DEF Cut
<1>3. Looks(setup)
  BY DEF Sought, SoughtIn, Looks, Reads
<1>4. Len(image) \in Nat
  BY <1>1, LenProperties
<1>5. page \in Nat /\ page > 0 /\ OnPage(setup, image, page - 1, Outer)
  BY <1>4 DEF Typed, PagesTyped, Sweep
<1> DEFINE k == page - 1
<1>6. k \in Nat /\ page = k + 1
  BY <1>5
<1>7. page * setup.pagesize = k * setup.pagesize + setup.pagesize
  <2> HIDE DEF k
  <2> QED BY <1>2, <1>6
<1>8. k * setup.pagesize < Len(image) /\ Outer.sbuf = PageOf(setup, image, k) /\ Aligned(setup, Outer.sbuf, Outer.at)
  BY <1>5 DEF OnPage
<1>9. Outer.at \in Nat /\ Outer.sbuf \in Buffers
  <2>1. CASE callers = <<>>
    BY <2>1 DEF Outer, Typed, CallsTyped
  <2>2. CASE callers # <<>>
    <3>1. PICK c \in Calls : callers = <<c>>
      BY <2>2 DEF Typed, CallsTyped
    <3>2. Outer = c
      BY <3>1 DEF Outer
    <3> QED BY <3>2 DEF Calls
  <2> QED BY <2>1, <2>2
<1>10. PageOf(setup, image, k).pos0 = [path |-> <<>>, offset |-> k * setup.pagesize] /\ k * setup.pagesize \in Nat
  <2> HIDE DEF k
  <2> QED BY <1>1, <1>2, <1>6, <1>8, BytesOfPage
<1>11. page * setup.pagesize \in Nat
  BY <1>2, <1>5
<1> QED BY <1>1, <1>2, <1>3, <1>4, <1>6, <1>7, <1>8, <1>9, <1>10, <1>11

LEMMA OuterWants ==
  ASSUME Typed, Sought, Sweep, pc = "scan", callers = <<>>, NEW p \in 0 .. Len(image) - 1,
         Outer.sbuf.pos0.offset + at <= p, p < page * setup.pagesize, WantedAt(setup, image, p)
  PROVE  /\ p - Outer.sbuf.pos0.offset \in at .. sbuf.pagesize - 1
         /\ WantedIn(setup, sbuf, p - Outer.sbuf.pos0.offset)
         /\ p \div setup.pagesize = page - 1
<1> DEFINE k == page - 1
           base == k * setup.pagesize
<1>1. /\ Cut(setup) /\ Looks(setup) /\ image \in Seq(Bytes) /\ Len(image) \in Nat
      /\ k \in Nat /\ base \in Nat /\ base < Len(image) /\ Outer.sbuf = PageOf(setup, image, k)
      /\ Outer.sbuf.pos0 = [path |-> <<>>, offset |-> base]
      /\ page * setup.pagesize = base + setup.pagesize
  BY OuterPage
<1>2. Outer.sbuf = sbuf /\ at \in Nat
  BY DEF Outer, Typed, CallsTyped
<1>3. Outer.sbuf.pos0.offset = base
  BY <1>1
<1> HIDE DEF base
<1>4. p \in Nat /\ base + at <= p /\ p < base + setup.pagesize /\ base <= p
  BY <1>1, <1>2, <1>3
<1> HIDE DEF k
<1>5. p - base \in 0 .. sbuf.pagesize - 1 /\ WantedIn(setup, sbuf, p - base)
  <2>1. p - k * setup.pagesize \in 0 .. PageOf(setup, image, k).pagesize - 1
        /\ WantedIn(setup, PageOf(setup, image, k), p - k * setup.pagesize)
    BY <1>1, <1>4, PageWants DEF base
  <2> QED BY <1>1, <1>2, <2>1 DEF base
<1>6. p \div setup.pagesize = k
  BY <1>1, <1>4, PageOfPlace DEF Cut, base
<1>7. p - base >= at
  BY <1>2, <1>4, <1>1
<1>8. p - base \in at .. sbuf.pagesize - 1
  BY <1>1, <1>2, <1>4, <1>5, <1>7
<1> QED BY <1>3, <1>5, <1>6, <1>8 DEF k

(* The buffer of an inner call.                                            *)
LEMMA InnerBuffer ==
  ASSUME Typed, BuffersHold, Sought, Sweep, pc = "scan", callers # <<>>
  PROVE  /\ setup.recurse \in Decoders /\ Searches(setup) /\ ScansAll(setup) /\ setup.offset_add = 0
         /\ isRecursive(sbuf.pos0)
         /\ \E pos \in 0 .. Outer.sbuf.pagesize - 1 :
               /\ sbuf = ChildOf(Outer.sbuf, pos, setup.recurse)
               /\ sbuf.pos0 = [path |-> InsidePath(setup, Outer.sbuf.pos0.offset + pos), offset |-> 0]
         /\ bufsize(sbuf) > 0
<1>1. isRecursive(sbuf.pos0)
  BY DEF Typed, CallsTyped
<1>2. setup.recurse # "no"
  BY <1>1 DEF BuffersHold, Holds
<1>3. setup.recurse \in Decoders
  BY <1>2, SetupHas DEF Typed, ImageTyped
<1>4. Searches(setup) /\ ScansAll(setup) /\ setup.offset_add = 0
  BY <1>2 DEF Sought, SoughtIn, Reads
<1>5. PICK pos \in 0 .. Outer.sbuf.pagesize - 1 : sbuf = ChildOf(Outer.sbuf, pos, setup.recurse)
  BY DEF Sweep, Recursed
<1>6. ~isRecursive(Outer.sbuf.pos0) /\ Outer.sbuf \in Buffers
  BY OuterPage DEF isRecursive
<1>7. sbuf.pos0 = [path |-> InsidePath(setup, Outer.sbuf.pos0.offset + pos), offset |-> 0]
  BY <1>5, <1>6, ChildPlace DEF InsidePath
<1>8. bufsize(sbuf) > 0
  <2> DEFINE b == Outer.sbuf
  <2>1. b \in Buffers /\ bufsize(b) \in Nat /\ b.pagesize \in Nat /\ b.pagesize <= bufsize(b)
    BY <1>6, BufferHas
  <2>2. pos \in 0 .. b.pagesize - 1 /\ sbuf = ChildOf(b, pos, setup.recurse)
    BY <1>5
  <2> HIDE DEF b
  <2>3. pos \in 0 .. bufsize(b) - 1
    BY <2>1, <2>2
  <2>4. bufsize(ChildOf(b, pos, setup.recurse)) = bufsize(b) - pos
    BY <1>3, <2>1, <2>3, ChildBytes
  <2> QED BY <2>1, <2>2, <2>3, <2>4
<1> QED BY <1>1, <1>3, <1>4, <1>5, <1>7, <1>8

LEMMA InnerWants ==
  ASSUME Typed, BuffersHold, Sought, Sweep, pc = "scan", callers # <<>>, NEW from, NEW q \in Nat,
         InsideAt(setup, image, from, q), sbuf.pos0.path = InsidePath(setup, from)
  PROVE  q < sbuf.pagesize /\ WantedIn(setup, sbuf, q)
<1> DEFINE k == page - 1
           base == k * setup.pagesize
           b == PageOf(setup, image, k)
<1>1. /\ Cut(setup) /\ image \in Seq(Bytes) /\ k \in Nat /\ base < Len(image) /\ base \in Nat
      /\ Outer.sbuf = b /\ Outer.sbuf.pos0 = [path |-> <<>>, offset |-> base]
  BY OuterPage
<1>2. setup.recurse \in Decoders /\ Searches(setup)
  BY InnerBuffer
<1>3. PICK pos \in 0 .. Outer.sbuf.pagesize - 1 :
         /\ sbuf = ChildOf(Outer.sbuf, pos, setup.recurse)
         /\ sbuf.pos0 = [path |-> InsidePath(setup, Outer.sbuf.pos0.offset + pos), offset |-> 0]
  BY InnerBuffer
<1>4. from = base + pos
  <2>1. InsidePath(setup, from) = InsidePath(setup, base + pos)
    BY <1>1, <1>3
  <2> HIDE DEF base
  <2> QED BY <2>1 DEF InsidePath
<1>5. pos \in 0 .. b.pagesize - 1 /\ sbuf = ChildOf(b, pos, setup.recurse)
  BY <1>1, <1>3
<1>6. InsideAt(setup, image, k * setup.pagesize + pos, q) /\ k * setup.pagesize < Len(image)
  BY <1>1, <1>4
<1> HIDE DEF k
<1>7. /\ q < ChildOf(PageOf(setup, image, k), pos, setup.recurse).pagesize
      /\ WantedIn(setup, ChildOf(PageOf(setup, image, k), pos, setup.recurse), q)
  BY <1>1, <1>2, <1>5, <1>6, ChildWants
<1> QED BY <1>5, <1>7

(* What the scanner finds in the buffer that it is called on.              *)
LEMMA PageUnmarked ==
  ASSUME NEW su, Cut(su), NEW im \in Seq(Bytes), MarkFree(im), NEW k \in Nat, k * su.pagesize < Len(im)
  PROVE  MarkFree(PageOf(su, im, k).buf)
<1> DEFINE base == k * su.pagesize
           b == PageOf(su, im, k)
<1>1. base \in Nat /\ Inside(b.buf, im, base) /\ b \in Buffers
  BY BytesOfPage
<1>2. Len(b.buf) \in Nat /\ Len(im) \in Nat
  BY <1>1, BufferHas, LenProperties
<1> HIDE DEF base, b
<1>3. \A i \in 1 .. Len(b.buf) : base + i \in 1 .. Len(im) /\ b.buf[i] = im[base + i]
  BY <1>1 DEF Inside
<1>4. ASSUME NEW i \in 1 .. Len(b.buf) - 1
      PROVE  b.buf[i] \notin Marks \/ b.buf[i + 1] \notin Marks
  <2>1. i \in 1 .. Len(b.buf) /\ i + 1 \in 1 .. Len(b.buf) /\ base + (i + 1) = (base + i) + 1
    BY <1>1, <1>2
  <2>2. base + i \in 1 .. Len(im) - 1
    <3>1. base + (i + 1) \in 1 .. Len(im) /\ base + i \in 1 .. Len(im)
      BY <1>3, <2>1
    <3> QED BY <1>1, <1>2, <2>1, <3>1
  <2>3. im[base + i] \notin Marks \/ im[(base + i) + 1] \notin Marks
    BY <2>2 DEF MarkFree
  <2>4. b.buf[i] = im[base + i] /\ b.buf[i + 1] = im[(base + i) + 1]
    BY <1>3, <2>1
  <2> QED BY <2>3, <2>4
<1>5. MarkFree(b.buf)
  BY <1>4 DEF MarkFree
<1> QED BY <1>5 DEF b

LEMMA Scanned ==
  ASSUME Typed, BuffersHold, Sought, Sweep, pc = "scan"
  PROVE  /\ setup \in Setups /\ Looks(setup) /\ setup.max_feature_size > 0
         /\ sbuf \in Buffers /\ at \in Nat /\ Unmarked(setup, sbuf)
         /\ Promises(setup, sbuf, at, Hit)
<1>1. setup \in Setups /\ sbuf \in Buffers /\ at \in Nat /\ setup.max_feature_size > 0 /\ Looks(setup)
  BY OuterPage DEF Typed, ImageTyped, CallsTyped, Sought, SoughtIn
<1>2. Unmarked(setup, sbuf) /\ Aligned(setup, sbuf, at)
  <2>1. CASE callers = <<>>
    <3>1. Outer.sbuf = sbuf /\ Outer.at = at
      BY <2>1 DEF Outer
    <3>2. ASSUME setup.kind \in {"getline", "strings"}
          PROVE  MarkFree(sbuf.buf)
      <4>1. MarkFree(image)
        BY <3>2 DEF Sought, SoughtIn, Searches, Reads
      <4> DEFINE k == page - 1
      <4>2. k \in Nat /\ Cut(setup) /\ image \in Seq(Bytes) /\ k * setup.pagesize < Len(image)
            /\ sbuf = PageOf(setup, image, k)
        BY <3>1, OuterPage
      <4> HIDE DEF k
      <4> QED BY <4>1, <4>2, PageUnmarked
    <3> QED BY <3>1, <3>2, OuterPage DEF Unmarked
  <2>2. CASE callers # <<>>
    BY <2>2, InnerBuffer DEF Searches, Unmarked, Aligned
  <2> QED BY <2>1, <2>2
<1>3. Promises(setup, sbuf, at, Hit)
  BY <1>1, <1>2, HitPromises
<1> QED BY <1>1, <1>2, <1>3

LEMMA InnerSuits ==
  ASSUME Typed, BuffersHold, Sought, Sweep, pc = "scan", callers # <<>>
  PROVE  Suits
<1>1. ScansAll(setup) /\ bufsize(sbuf) > 0
  BY InnerBuffer
<1>2. setup \in Setups /\ sbuf \in Buffers
  BY DEF Typed, ImageTyped, CallsTyped
<1>3. setup.min_sbuf_size \in Nat /\ setup.max_ngram \in Nat /\ setup.min_distinct_chars \in Nat
  BY <1>2, SetupsAssumption
<1>4. SuitsOf(setup, sbuf)
  BY <1>1, <1>2, <1>3, ScansAllSuits
<1> QED BY <1>4 DEF SuitsOf, Suits

(* What was found begins in the page of the buffer, when it was written;   *)
(* and what is wanted is not passed.                                       *)
LEMMA InPageHas ==
  ASSUME Typed, InPage
  PROVE  /\ Hit.pos \in Nat /\ Hit.len \in Nat /\ Hit.next \in Nat
         /\ Hit # NoHit /\ pc = "scan" /\ Hit.pos < sbuf.pagesize /\ Hit.pos < bufsize(sbuf)
<1>1. Hit # NoHit /\ pc = "scan" /\ ~OutsideBuffer(Hit.pos) /\ ~InMargin(Hit.pos)
  BY DEF InPage, Found, Scanning
<1>2. Hit.pos \in Nat /\ Hit.len \in Nat /\ Hit.next \in Nat
  BY <1>1, FeatureType
<1>3. sbuf.pagesize \in Nat /\ bufsize(sbuf) \in Nat
  BY BufferHas DEF Typed, CallsTyped
<1> QED BY <1>1, <1>2, <1>3 DEF OutsideBuffer, InMargin

LEMMA WantedIsFound ==
  ASSUME Typed, BuffersHold, Sought, Sweep, pc = "scan",
         NEW q \in at .. sbuf.pagesize - 1, WantedIn(setup, sbuf, q)
  PROVE  /\ Hit # NoHit
         /\ q = Hit.pos \/ q >= Hit.next
         /\ WriteNothing => q >= Hit.next
<1>1. Promises(setup, sbuf, at, Hit)
  BY Scanned
<1>2. Hit # NoHit
  BY <1>1 DEF Promises
<1>3. q = Hit.pos \/ q >= Hit.next
  BY <1>1, <1>2 DEF Promises
<1>4. ASSUME WriteNothing, q = Hit.pos
      PROVE  FALSE
  <2>1. at \in Nat /\ sbuf.pagesize \in Nat /\ sbuf \in Buffers /\ bufsize(sbuf) \in Nat
        /\ sbuf.pagesize <= bufsize(sbuf)
    BY BufferHas DEF Typed, CallsTyped
  <2>2. Hit.pos \in Nat /\ Hit.pos < sbuf.pagesize /\ Hit.pos < bufsize(sbuf)
    BY <1>4, <2>1
  <2>3. ~InMargin(Hit.pos)
    BY <2>1, <2>2 DEF InMargin
  <2>4. IsEmpty
    BY <1>4, <2>3 DEF WriteNothing
  <2>5. OccursAt(setup, sbuf.buf, Hit.pos)
    BY <1>4 DEF WantedIn
  <2>6. Hit.len > 0
    BY <1>1, <1>2, <2>2, <2>5 DEF Promises
  <2>7. Hit.len \in Nat
    BY <1>2, FeatureType
  <2>8. ~IsEmpty
    BY <2>2, <2>5, <2>6, <2>7, Scanned, OccurringIsWritten
  <2> QED BY <2>4, <2>8
<1> QED BY <1>2, <1>3, <1>4

(* The place of a line.                                                    *)
Place == PlaceIn(sbuf.pos0, Hit.pos, setup.offset_add)

LEMMA PlacesAppend ==
  ASSUME NEW T, NEW lines \in Seq(T), NEW l
  PROVE  PlacesOf(Append(lines, l)) = PlacesOf(lines) \cup {l[1]}
<1> DEFINE n == Len(lines)
           s == Append(lines, l)
<1>1. n \in Nat /\ Len(s) = n + 1 /\ s[n + 1] = l /\ \A i \in 1 .. n : s[i] = lines[i]
  BY AppendHas
<1> HIDE DEF s
<1>2. PlacesOf(s) = {s[i][1] : i \in 1 .. n + 1}
  BY <1>1 DEF PlacesOf
<1>3. PlacesOf(lines) = {lines[i][1] : i \in 1 .. n}
  BY DEF PlacesOf
<1> HIDE DEF n
<1>4. ASSUME NEW i \in 1 .. n + 1
      PROVE  s[i][1] \in {lines[j][1] : j \in 1 .. n} \cup {l[1]}
  <2>1. i = n + 1 \/ i \in 1 .. n
    BY <1>1
  <2> QED BY <1>1, <2>1
<1>5. l[1] \in {s[i][1] : i \in 1 .. n + 1}
  <2>1. n + 1 \in 1 .. n + 1
    BY <1>1
  <2> QED BY <1>1, <2>1
<1>6. ASSUME NEW j \in 1 .. n
      PROVE  lines[j][1] \in {s[i][1] : i \in 1 .. n + 1}
  <2>1. j \in 1 .. n + 1
    BY <1>1
  <2> QED BY <1>1, <2>1
<1> QED BY <1>2, <1>3, <1>4, <1>5, <1>6 DEF s

LEMMA SetAppend ==
  ASSUME NEW T, NEW s \in Seq(T), NEW x
  PROVE  ToSet(Append(s, x)) = ToSet(s) \cup {x}
<1> DEFINE n == Len(s)
           r == Append(s, x)
<1>1. n \in Nat /\ Len(r) = n + 1 /\ r[n + 1] = x /\ \A i \in 1 .. n : r[i] = s[i]
  BY AppendHas
<1>2. DOMAIN s = 1 .. n /\ DOMAIN r = 1 .. n + 1
  BY <1>1
<1> HIDE DEF r
<1>3. ToSet(r) = {r[i] : i \in 1 .. n + 1} /\ ToSet(s) = {s[i] : i \in 1 .. n}
  BY <1>2 DEF ToSet
<1> HIDE DEF n
<1>4. ASSUME NEW i \in 1 .. n + 1
      PROVE  r[i] \in {s[j] : j \in 1 .. n} \cup {x}
  <2>1. i = n + 1 \/ i \in 1 .. n
    BY <1>1
  <2> QED BY <1>1, <2>1
<1>5. x \in {r[i] : i \in 1 .. n + 1}
  <2>1. n + 1 \in 1 .. n + 1
    BY <1>1
  <2> QED BY <1>1, <2>1
<1>6. ASSUME NEW j \in 1 .. n
      PROVE  s[j] \in {r[i] : i \in 1 .. n + 1}
  <2>1. j \in 1 .. n + 1
    BY <1>1
  <2> QED BY <1>1, <2>1
<1> QED BY <1>3, <1>4, <1>5, <1>6 DEF r

LEMMA WrittenPlace ==
  ASSUME Typed, BuffersHold, Sought, Sweep, InPage, WriteLine
  PROVE  PlacesOf(file') = PlacesOf(file) \cup {Place}
<1>1. Found /\ pc = "scan" /\ ShiftKeeps
  BY DEF InPage, Found, Scanning, ShiftKeeps, Sought, SoughtIn
<1>2. isRecursive(sbuf.pos0) => sbuf.pos0.offset = 0
  <2>1. CASE callers = <<>>
    BY <2>1 DEF Typed, CallsTyped
  <2>2. CASE callers # <<>>
    <3>1. PICK pos \in 0 .. Outer.sbuf.pagesize - 1 :
             sbuf.pos0 = [path |-> InsidePath(setup, Outer.sbuf.pos0.offset + pos), offset |-> 0]
      BY <1>1, <2>2, InnerBuffer
    <3> QED BY <3>1
  <2> QED BY <2>1, <2>2
<1>3. shift(FeaturePos0(Hit.pos), setup.offset_add) = Place
  BY <1>1, <1>2, PlaceWritten DEF Place
<1> DEFINE l == Line(FeaturePos0(Hit.pos), QuotedFeature(Feature(Hit.pos, Hit.len)),
                     QuotedContext(Context(Hit.pos, Hit.len)))
<1>4. l[1] = Place
  BY <1>3, LineHasFields
<1>5. file' = Append(file, l)
  BY DEF WriteLine
<1> HIDE DEF l
<1>6. file \in Seq(LinesFor(setup))
  BY DEF Typed, LinesTyped
<1> QED BY <1>4, <1>5, <1>6, PlacesAppend

LEMMA WrittenThere ==
  ASSUME Typed, BuffersHold, Sought, Sweep, InPage, ~IsEmpty, WriteLine
  PROVE  OnlyThere(setup, image, PlacesOf(file'))
<1>1. PlacesOf(file') = PlacesOf(file) \cup {Place}
  BY WrittenPlace
<1>2. OnlyThere(setup, image, PlacesOf(file))
  BY DEF Sweep
<1>3. /\ Hit.pos \in Nat /\ Hit.len \in Nat /\ Hit # NoHit /\ pc = "scan" /\ Hit.pos < sbuf.pagesize
      /\ Hit.pos < bufsize(sbuf)
  BY InPageHas
<1>4. CASE callers # <<>>
  <2>1. isRecursive(Place)
    BY <1>3, <1>4, InnerBuffer DEF Place, PlaceIn, isRecursive
  <2> QED BY <1>1, <1>2, <2>1 DEF OnlyThere
<1>5. CASE callers = <<>>
  <2> DEFINE k == page - 1
             base == k * setup.pagesize
  <2>1. ~isRecursive(sbuf.pos0) /\ Outer.sbuf = sbuf
    BY <1>5 DEF Typed, CallsTyped, Outer
  <2>2. /\ sbuf.pos0 = [path |-> <<>>, offset |-> base] /\ k \in Nat /\ base \in Nat /\ base < Len(image)
        /\ sbuf = PageOf(setup, image, k) /\ Cut(setup) /\ Looks(setup) /\ image \in Seq(Bytes)
    BY <1>3, <2>1, OuterPage
  <2>3. setup.offset_add \in Nat
    BY SetupHas DEF Typed, ImageTyped
  <2>4. Place.offset = base + Hit.pos + setup.offset_add
    BY <2>1, <2>2 DEF Place, PlaceIn
  <2>5. Place.offset - setup.offset_add = base + Hit.pos
    <3> HIDE DEF base
    <3> QED BY <1>3, <2>2, <2>3, <2>4
  <2>6. OccursAt(setup, sbuf.buf, Hit.pos)
    <3>1. Hit.len > 0
      BY <1>3, Scanned, SomeLength
    <3>2. Promises(setup, sbuf, at, Hit)
      BY <1>3, Scanned
    <3> QED BY <1>3, <3>1, <3>2 DEF Promises
  <2>7. k * setup.pagesize < Len(image)
    BY <2>2
  <2> HIDE DEF k
  <2>8. /\ k * setup.pagesize + Hit.pos \in 0 .. Len(image) - 1
        /\ \/ OccursAt(setup, image, k * setup.pagesize + Hit.pos)
           \/ setup.kind \in {"getline", "strings"} /\ (k * setup.pagesize + Hit.pos) % setup.pagesize = 0
    BY <1>3, <2>2, <2>6, <2>7, PageFinds
  <2> QED BY <1>1, <1>2, <2>5, <2>8 DEF OnlyThere
<1> QED BY <1>4, <1>5

(* A call ends: what it has not passed was skipped, or is not there, or    *)
(* there was an exception.                                                 *)
LEMMA PageHasAlert ==
  ASSUME Typed, Sought, Sweep, pc = "scan", callers = <<>>, NEW A, sbuf.pos0 \in A,
         NEW p, p \div setup.pagesize = page - 1
  PROVE  PageAlert(setup, A, p)
<1> DEFINE k == page - 1
           base == k * setup.pagesize
<1>1. sbuf.pos0 = [path |-> <<>>, offset |-> base] /\ k \in Nat /\ setup.pagesize \in Nat \ {0}
  BY OuterPage DEF Outer, Cut
<1>2. base \div setup.pagesize = k
  <2> HIDE DEF k
  <2> QED BY <1>1, PageBegins
<1>3. ~isRecursive(sbuf.pos0) /\ sbuf.pos0.offset \div setup.pagesize = p \div setup.pagesize
  BY <1>1, <1>2 DEF isRecursive
<1> QED BY <1>3 DEF PageAlert

LEMMA EndedOuter ==
  ASSUME Typed, BuffersHold, Sought, Sweep, pc = "scan", callers = <<>>, NEW P, NEW A,
         PlacesOf(file) \subseteq P, ToSet(alerts) \subseteq A,
         sbuf.pos0 \in A \/ ~Suits \/ Hit = NoHit
  PROVE  Swept(setup, image, P, A, page * setup.pagesize, page * setup.pagesize)
<1> DEFINE end == page * setup.pagesize
           n == Outer.sbuf.pos0.offset + Outer.at
<1>1. end \in Nat /\ n \in Nat /\ image \in Seq(Bytes) /\ Outer.sbuf = sbuf /\ Outer.at = at
  <2>1. Outer.sbuf = sbuf /\ Outer.at = at
    BY DEF Outer
  <2>2. sbuf.pos0.offset \in Nat /\ at \in Nat
    BY BufferHas DEF Typed, CallsTyped, Positions
  <2> QED BY <2>1, <2>2, OuterPage
<1>2. Swept(setup, image, PlacesOf(file), ToSet(alerts), n, end)
  BY DEF Sweep
<1>3. ASSUME NEW p \in 0 .. Len(image) - 1, n <= p, p < end, WantedAt(setup, image, p)
      PROVE  \/ FoundAt(setup, P, p)
             \/ PageAlert(setup, A, p)
             \/ ~SuitsOf(setup, PageOf(setup, image, p \div setup.pagesize))
  <2> DEFINE q == p - Outer.sbuf.pos0.offset
  <2>1. q \in at .. sbuf.pagesize - 1 /\ WantedIn(setup, sbuf, q) /\ p \div setup.pagesize = page - 1
    BY <1>1, <1>3, OuterWants
  <2> HIDE DEF q
  <2>2. Hit # NoHit
    BY <2>1, WantedIsFound
  <2>3. CASE ~Suits
    <3>1. sbuf = PageOf(setup, image, p \div setup.pagesize)
      BY <1>1, <2>1, OuterPage
    <3> QED BY <2>3, <3>1 DEF Suits, SuitsOf
  <2>4. CASE sbuf.pos0 \in A
    BY <2>1, <2>4, PageHasAlert
  <2> QED BY <2>2, <2>3, <2>4
<1> HIDE DEF end, n
<1>4. Swept(setup, image, P, A, end, end)
  BY <1>1, <1>2, <1>3, SweptMore
<1> QED BY <1>4 DEF end

LEMMA EndedInside ==
  ASSUME Typed, BuffersHold, Sought, Sweep, pc = "scan", NEW P, NEW A, NEW b, NEW n,
         PlacesOf(file) \subseteq P, ToSet(alerts) \subseteq A,
         setup.recurse # "no" =>
            \A x \in P : x \in PlacesOf(file) \/ isRecursive(x) \/ PageAlert(setup, A, x.offset),
         sbuf.pos0 \in A \/ ~Suits \/ Hit = NoHit
  PROVE  SweptInside(setup, image, P, A, b, n)
<1>1. SweptInside(setup, image, PlacesOf(file), ToSet(alerts), sbuf, at)
  BY DEF Sweep
<1>2. setup.recurse # "no" =>
         \A x \in P : x \in PlacesOf(file) \/ isRecursive(x) \/ SweptAt(setup, image, P, A, b, n, x.offset)
  BY DEF SweptAt
<1>3. ASSUME NEW from, NEW q \in 0 .. Len(image) - 1, InsideAt(setup, image, from, q),
             sbuf.pos0.path = InsidePath(setup, from), q >= at
      PROVE  pos0_t(InsidePath(setup, from), 0) \in A
  <2>1. callers # <<>>
    <3>1. isRecursive(sbuf.pos0)
      BY <1>3 DEF isRecursive, InsidePath
    <3>2. PICK c \in Calls : callers = <<c>>
      BY <3>1 DEF Typed, CallsTyped
    <3> QED BY <3>2
  <2>2. q \in Nat /\ at \in Nat /\ sbuf.pagesize \in Nat
    BY BufferHas, OuterPage DEF Typed, CallsTyped
  <2>3. q < sbuf.pagesize /\ WantedIn(setup, sbuf, q)
    BY <1>3, <2>1, <2>2, InnerWants
  <2>4. q \in at .. sbuf.pagesize - 1
    BY <1>3, <2>2, <2>3
  <2>5. Hit # NoHit
    BY <2>3, <2>4, WantedIsFound
  <2>6. Suits
    BY <2>1, InnerSuits
  <2>7. PICK pos \in 0 .. Outer.sbuf.pagesize - 1 :
           sbuf.pos0 = [path |-> InsidePath(setup, Outer.sbuf.pos0.offset + pos), offset |-> 0]
    BY <2>1, InnerBuffer
  <2>8. sbuf.pos0 = pos0_t(InsidePath(setup, from), 0)
    BY <1>3, <2>7 DEF pos0_t
  <2> QED BY <2>5, <2>6, <2>8
<1> QED BY <1>1, <1>2, <1>3, InsideMore

LEMMA EndedSweep ==
  ASSUME Typed, BuffersHold, Sought, Sweep, pc = "scan", ScannerReturns,
         PlacesOf(file) \subseteq PlacesOf(file'), ToSet(alerts) \subseteq ToSet(alerts'),
         OnlyThere(setup, image, PlacesOf(file')),
         setup.recurse # "no" =>
            \A x \in PlacesOf(file') :
               x \in PlacesOf(file) \/ isRecursive(x) \/ PageAlert(setup, ToSet(alerts'), x.offset),
         sbuf.pos0 \in ToSet(alerts') \/ ~Suits \/ Hit = NoHit
  PROVE  Sweep'
<1>1. setup' = setup /\ image' = image /\ page' = page
  BY DEF ScannerReturns
<1> DEFINE P == PlacesOf(file')
           A == ToSet(alerts')
           b == sbuf'
           n == at'
<1>2. SweptInside(setup, image, P, A, b, n)
  <2> HIDE DEF P, A, b, n
  <2>1. /\ PlacesOf(file) \subseteq P /\ ToSet(alerts) \subseteq A
        /\ setup.recurse # "no" =>
              \A x \in P : x \in PlacesOf(file) \/ isRecursive(x) \/ PageAlert(setup, A, x.offset)
        /\ sbuf.pos0 \in A \/ ~Suits \/ Hit = NoHit
    BY DEF P, A
  <2> QED BY <2>1, EndedInside
<1>3. CASE callers = <<>>
  <2>1. pc' = "client"
    BY <1>3 DEF ScannerReturns
  <2>2. Swept(setup, image, P, A, page * setup.pagesize, page * setup.pagesize)
    <3> HIDE DEF P, A
    <3>1. /\ PlacesOf(file) \subseteq P /\ ToSet(alerts) \subseteq A
          /\ sbuf.pos0 \in A \/ ~Suits \/ Hit = NoHit
      BY DEF P, A
    <3> QED BY <1>3, <3>1, EndedOuter
  <2> QED BY <1>1, <1>2, <2>1, <2>2 DEF Sweep
<1>4. CASE callers # <<>>
  <2>1. PICK c \in Calls : callers = <<c>>
    BY <1>4 DEF Typed, CallsTyped
  <2>2. pc' = "scan" /\ sbuf' = c.sbuf /\ at' = c.at /\ callers' = <<>>
    BY <1>4, <2>1 DEF ScannerReturns
  <2>3. Outer' = Outer
    <3>1. Outer = c /\ Outer' = [sbuf |-> sbuf', at |-> at']
      BY <2>1, <2>2 DEF Outer
    <3> QED BY <2>2, <3>1 DEF Calls
  <2>4. Swept(setup, image, P, A, Outer.sbuf.pos0.offset + Outer.at, page * setup.pagesize)
    <3> DEFINE k == Outer.sbuf.pos0.offset + Outer.at
               end == page * setup.pagesize
    <3>1. k \in Nat /\ end \in Nat
      BY OuterPage
    <3>2. Swept(setup, image, PlacesOf(file), ToSet(alerts), k, end)
      BY DEF Sweep
    <3>3. PlacesOf(file) \subseteq P /\ ToSet(alerts) \subseteq A
      OBVIOUS
    <3> HIDE DEF k, end, P, A
    <3>4. \A p \in 0 .. Len(image) - 1 : ~(k <= p /\ p < k)
      BY <3>1, OuterPage
    <3>5. Swept(setup, image, P, A, k, end)
      BY <3>1, <3>2, <3>3, <3>4, SweptMore
    <3> QED BY <3>5 DEF k, end
  <2>5. page > 0 /\ OnPage(setup, image, page - 1, Outer)
    BY DEF Sweep
  <2> QED BY <1>1, <1>2, <2>2, <2>3, <2>4, <2>5 DEF Sweep
<1> QED BY <1>3, <1>4

(* A call goes on: what it passes has been found.                          *)
LEMMA GoesOnOuter ==
  ASSUME Typed, BuffersHold, Sought, Sweep, pc = "scan", callers = <<>>, NEW P,
         PlacesOf(file) \subseteq P, NEW next \in Nat,
         \A q \in at .. sbuf.pagesize - 1 :
            WantedIn(setup, sbuf, q) => q >= next \/ FoundAt(setup, P, sbuf.pos0.offset + q)
  PROVE  Swept(setup, image, P, ToSet(alerts), sbuf.pos0.offset + next, page * setup.pagesize)
<1> DEFINE base == sbuf.pos0.offset
           end == page * setup.pagesize
           n == base + at
           n2 == base + next
           A == ToSet(alerts)
<1>1. Outer.sbuf = sbuf /\ Outer.at = at
  BY DEF Outer
<1>2. base \in Nat /\ at \in Nat
  BY BufferHas DEF Typed, CallsTyped, Positions
<1>3. end \in Nat /\ image \in Seq(Bytes) /\ Len(image) \in Nat
  BY OuterPage
<1>4. Swept(setup, image, PlacesOf(file), A, n, end)
  BY <1>1 DEF Sweep
<1> HIDE DEF A, base, end
<1>5. n \in Nat /\ n2 \in Nat
  BY <1>2
<1>6. ASSUME NEW p \in 0 .. Len(image) - 1, n <= p, p < n2, p < end, WantedAt(setup, image, p)
      PROVE  FoundAt(setup, P, p)
  <2> DEFINE q == p - base
  <2>1. q \in at .. sbuf.pagesize - 1 /\ WantedIn(setup, sbuf, q)
    BY <1>1, <1>6, OuterWants DEF base, end
  <2>2. ~(q >= next) /\ base + q = p
    BY <1>2, <1>6
  <2> HIDE DEF q
  <2>3. FoundAt(setup, P, base + q)
    BY <2>1, <2>2 DEF base
  <2> QED BY <2>2, <2>3
<1> HIDE DEF n, n2
<1>7. Swept(setup, image, P, A, n2, end)
  BY <1>3, <1>4, <1>5, <1>6, SweptMore
<1> QED BY <1>7 DEF n2, end, A, base

LEMMA GoesOnInside ==
  ASSUME Typed, BuffersHold, Sought, Sweep, pc = "scan", NEW P, NEW b, NEW n,
         PlacesOf(file) \subseteq P,
         setup.recurse # "no" =>
            \A x \in P : \/ x \in PlacesOf(file) \/ isRecursive(x)
                         \/ b.pos0.path = InsidePath(setup, x.offset) /\ n = 0,
         callers # <<>> =>
            /\ b = sbuf
            /\ \A q \in at .. sbuf.pagesize - 1 :
                  WantedIn(setup, sbuf, q) => q >= n \/ [path |-> sbuf.pos0.path, offset |-> q] \in P
  PROVE  SweptInside(setup, image, P, ToSet(alerts), b, n)
<1>1. SweptInside(setup, image, PlacesOf(file), ToSet(alerts), sbuf, at)
  BY DEF Sweep
<1>2. ASSUME setup.recurse # "no", NEW x \in P, x \notin PlacesOf(file), ~isRecursive(x)
      PROVE  SweptAt(setup, image, P, ToSet(alerts), b, n, x.offset)
  <2>1. b.pos0.path = InsidePath(setup, x.offset) /\ n = 0
    BY <1>2
  <2>2. \A q \in 0 .. Len(image) - 1 : q >= n
    BY <2>1, OuterPage
  <2> QED BY <2>1, <2>2 DEF SweptAt
<1>3. ASSUME NEW from, NEW q \in 0 .. Len(image) - 1, InsideAt(setup, image, from, q),
             sbuf.pos0.path = InsidePath(setup, from), q >= at
      PROVE  \/ pos0_t(InsidePath(setup, from), q) \in P
             \/ b.pos0.path = InsidePath(setup, from) /\ q >= n
  <2>1. callers # <<>>
    <3>1. isRecursive(sbuf.pos0)
      BY <1>3 DEF isRecursive, InsidePath
    <3>2. PICK c \in Calls : callers = <<c>>
      BY <3>1 DEF Typed, CallsTyped
    <3> QED BY <3>2
  <2>2. q \in Nat /\ at \in Nat /\ sbuf.pagesize \in Nat
    BY BufferHas, OuterPage DEF Typed, CallsTyped
  <2>3. q < sbuf.pagesize /\ WantedIn(setup, sbuf, q)
    BY <1>3, <2>1, <2>2, InnerWants
  <2>4. q \in at .. sbuf.pagesize - 1
    BY <1>3, <2>2, <2>3
  <2>5. q >= n \/ [path |-> sbuf.pos0.path, offset |-> q] \in P
    BY <2>1, <2>3, <2>4
  <2> QED BY <1>3, <2>1, <2>5 DEF pos0_t
<1>4. setup.recurse # "no" =>
         \A x \in P : x \in PlacesOf(file) \/ isRecursive(x)
                         \/ SweptAt(setup, image, P, ToSet(alerts), b, n, x.offset)
  BY <1>2
<1> QED BY <1>1, <1>3, <1>4, InsideMore

LEMMA NothingSweep ==
  ASSUME Typed, BuffersHold, Sought, Sweep, WriteNothing
  PROVE  Sweep'
<1>1. pc = "scan" /\ Hit # NoHit
  BY DEF WriteNothing, Found, Scanning
<1>2. /\ UNCHANGED <<setup, image, pc, page, sbuf, callers, file, alerts>>
      /\ at' = Hit.next
  BY DEF WriteNothing
<1> DEFINE P == PlacesOf(file)
           A == ToSet(alerts)
           next == Hit.next
<1>3. next \in Nat
  BY <1>1, FeatureType
<1>4. \A q \in at .. sbuf.pagesize - 1 : WantedIn(setup, sbuf, q) => q >= next
  BY <1>1, WantedIsFound
<1>5. Aligned(setup, sbuf, next)
  BY <1>1, Scanned DEF Promises
<1>6. SweptInside(setup, image, P, A, sbuf, next)
  <2> HIDE DEF next
  <2> QED BY <1>1, <1>4, GoesOnInside
<1>7. /\ OnlyThere(setup, image, P) /\ page > 0 /\ OnPage(setup, image, page - 1, Outer)
      /\ Swept(setup, image, P, A, Outer.sbuf.pos0.offset + Outer.at, page * setup.pagesize)
      /\ callers # <<>> => Recursed(setup, Outer, sbuf)
  BY <1>1 DEF Sweep
<1>8. CASE callers # <<>>
  <2>1. Outer' = Outer
    BY <1>2, <1>8 DEF Outer
  <2> HIDE DEF next
  <2> QED BY <1>1, <1>2, <1>6, <1>7, <2>1 DEF Sweep, next
<1>9. CASE callers = <<>>
  <2>1. Outer' = [sbuf |-> sbuf, at |-> next] /\ Outer.sbuf = sbuf
    BY <1>2, <1>9 DEF Outer
  <2> HIDE DEF next
  <2>2. Swept(setup, image, P, A, sbuf.pos0.offset + next, page * setup.pagesize)
    BY <1>1, <1>3, <1>4, <1>9, GoesOnOuter
  <2>3. OnPage(setup, image, page - 1, Outer')
    BY <1>5, <1>7, <2>1 DEF OnPage
  <2> QED BY <1>1, <1>2, <1>6, <1>7, <1>9, <2>1, <2>2, <2>3 DEF Sweep, next
<1> QED BY <1>8, <1>9

(* A line is written: at the place of what was found, which has then been  *)
(* found, or is in the buffer that the scanner recurses into.              *)
LEMMA PlaceIs ==
  ASSUME Typed, BuffersHold, Sought, Sweep, InPage
  PROVE  /\ callers = <<>> =>
               /\ ~isRecursive(Place) /\ ~isRecursive(sbuf.pos0)
               /\ Place.offset = sbuf.pos0.offset + Hit.pos + setup.offset_add
               /\ Place.offset - setup.offset_add = sbuf.pos0.offset + Hit.pos
               /\ (sbuf.pos0.offset + Hit.pos) \div setup.pagesize = page - 1
         /\ callers # <<>> =>
               isRecursive(Place) /\ isRecursive(sbuf.pos0) /\ Place = [path |-> sbuf.pos0.path, offset |-> Hit.pos]
<1>1. Hit.pos \in Nat /\ pc = "scan" /\ Hit.pos < sbuf.pagesize
  BY InPageHas
<1>2. CASE callers # <<>>
  <2>1. isRecursive(sbuf.pos0)
    BY <1>1, <1>2, InnerBuffer
  <2> QED BY <1>2, <2>1 DEF Place, PlaceIn, isRecursive
<1>3. CASE callers = <<>>
  <2> DEFINE k == page - 1
             base == sbuf.pos0.offset
             add == setup.offset_add
  <2>1. ~isRecursive(sbuf.pos0) /\ Outer.sbuf = sbuf
    BY <1>3 DEF Typed, CallsTyped, Outer
  <2>2. /\ base = k * setup.pagesize /\ k \in Nat /\ base \in Nat /\ k * setup.pagesize < Len(image)
        /\ sbuf = PageOf(setup, image, k) /\ Cut(setup) /\ image \in Seq(Bytes)
    BY <1>1, <2>1, OuterPage
  <2>3. add \in Nat
    BY SetupHas DEF Typed, ImageTyped
  <2>4. Place.offset = base + Hit.pos + add /\ ~isRecursive(Place)
    BY <2>1 DEF Place, PlaceIn, isRecursive
  <2> HIDE DEF base, add
  <2>5. Place.offset - add = base + Hit.pos
    BY <1>1, <2>2, <2>3, <2>4
  <2>6. (base + Hit.pos) \div setup.pagesize = k
    <3> HIDE DEF k
    <3>1. sbuf.pagesize <= setup.pagesize /\ sbuf.pagesize \in Nat /\ setup.pagesize \in Nat \ {0}
      BY <2>2, BytesOfPage DEF Cut
    <3> DEFINE p == base + Hit.pos
    <3>2. p \in Nat /\ k * setup.pagesize <= p /\ p < k * setup.pagesize + setup.pagesize
      BY <1>1, <2>2, <3>1
    <3> HIDE DEF p
    <3>3. p \div setup.pagesize = k
      BY <2>2, <3>1, <3>2, PageOfPlace
    <3> QED BY <3>3 DEF p
  <2> QED BY <1>3, <2>1, <2>4, <2>5, <2>6 DEF base, add
<1> QED BY <1>2, <1>3

LEMMA WriteSweep ==
  ASSUME Typed, BuffersHold, Sought, Sweep, WriteFeature
  PROVE  Sweep'
<1>1. InPage /\ ~IsEmpty /\ WriteLine /\ pc = "scan" /\ UNCHANGED <<setup, image, pc, page, alerts>>
  BY DEF WriteFeature, InPage, Found, Scanning
<1>2. Hit.pos \in Nat /\ Hit.next \in Nat /\ Hit # NoHit
  BY <1>1, InPageHas
<1> DEFINE P == PlacesOf(file')
           A == ToSet(alerts)
           next == Hit.next
           pos == Hit.pos
<1>3. P = PlacesOf(file) \cup {Place} /\ OnlyThere(setup, image, P)
  BY <1>1, WrittenPlace, WrittenThere
<1>4. \A q \in at .. sbuf.pagesize - 1 : WantedIn(setup, sbuf, q) => q = pos \/ q >= next
  BY <1>1, WantedIsFound
<1>5. Aligned(setup, sbuf, next)
  BY <1>1, <1>2, Scanned DEF Promises
<1>6. /\ page > 0 /\ OnPage(setup, image, page - 1, Outer)
      /\ Swept(setup, image, PlacesOf(file), A, Outer.sbuf.pos0.offset + Outer.at, page * setup.pagesize)
      /\ callers # <<>> => Recursed(setup, Outer, sbuf)
  BY <1>1 DEF Sweep
<1>7. CASE callers # <<>>
  <2>1. ~Recurses /\ Place = [path |-> sbuf.pos0.path, offset |-> pos] /\ isRecursive(Place)
    BY <1>1, <1>7, PlaceIs DEF Recurses
  <2>2. at' = next /\ sbuf' = sbuf /\ callers' = callers /\ Outer' = Outer
    BY <1>7, <2>1 DEF WriteFeature, Outer
  <2> HIDE DEF P, next, pos
  <2>3. SweptInside(setup, image, P, A, sbuf, next)
    BY <1>1, <1>3, <1>4, <2>1, GoesOnInside
  <2>4. Swept(setup, image, P, A, Outer.sbuf.pos0.offset + Outer.at, page * setup.pagesize)
    <3> DEFINE n == Outer.sbuf.pos0.offset + Outer.at
               end == page * setup.pagesize
    <3>1. n \in Nat /\ end \in Nat /\ Swept(setup, image, PlacesOf(file), A, n, end) /\ Len(image) \in Nat
      BY <1>1, <1>6, OuterPage
    <3> HIDE DEF n, end, A
    <3>2. \A p \in 0 .. Len(image) - 1 : ~(n <= p /\ p < n)
      BY <3>1
    <3>3. Swept(setup, image, P, A, n, end)
      BY <1>3, <3>1, <3>2, SweptMore
    <3> QED BY <3>3 DEF n, end
  <2> QED BY <1>1, <1>3, <1>6, <1>7, <2>2, <2>3, <2>4 DEF Sweep, P
<1>8. CASE callers = <<>>
  <2>1. /\ ~isRecursive(Place) /\ ~isRecursive(sbuf.pos0) /\ Outer.sbuf = sbuf
        /\ Place.offset = sbuf.pos0.offset + pos + setup.offset_add
        /\ Place.offset - setup.offset_add = sbuf.pos0.offset + pos
    BY <1>1, <1>8, PlaceIs DEF Outer
  <2>2. FoundAt(setup, P, sbuf.pos0.offset + pos)
    BY <1>3, <2>1 DEF FoundAt
  <2>3. Swept(setup, image, P, A, sbuf.pos0.offset + next, page * setup.pagesize)
    <3> HIDE DEF P
    <3> QED BY <1>1, <1>2, <1>3, <1>4, <1>8, <2>2, GoesOnOuter
  <2>4. ASSUME Outer' = [sbuf |-> sbuf, at |-> next], SweptInside(setup, image, P, A, sbuf', at'),
               callers' # <<>> => Recursed(setup, Outer', sbuf')
        PROVE  Sweep'
    <3>1. OnPage(setup, image, page - 1, Outer')
      BY <1>5, <1>6, <2>1, <2>4 DEF OnPage
    <3>2. Swept(setup, image, P, A, Outer'.sbuf.pos0.offset + Outer'.at, page * setup.pagesize)
      BY <2>3, <2>4
    <3> HIDE DEF P
    <3> QED BY <1>1, <1>3, <1>6, <2>4, <3>1, <3>2 DEF Sweep, P
  <2>5. CASE ~Recurses
    <3>1. setup.recurse = "no"
      BY <2>1, <2>5 DEF Recurses
    <3>2. at' = next /\ sbuf' = sbuf /\ callers' = <<>> /\ Outer' = [sbuf |-> sbuf, at |-> next]
      BY <1>8, <2>5 DEF WriteFeature, Outer
    <3>3. SweptInside(setup, image, P, A, sbuf, next)
      BY <3>1 DEF SweptInside
    <3> QED BY <2>4, <3>2, <3>3
  <2>6. CASE Recurses
    <3> DEFINE b == ChildOf(sbuf, pos, setup.recurse)
    <3>1. setup.recurse \in Decoders /\ setup.recurse # "no" /\ setup.offset_add = 0
      BY <2>6, SetupHas DEF Recurses, Typed, ImageTyped, Sought, SoughtIn
    <3>2. RecurseInto(Child(pos))
      BY <2>6 DEF WriteFeature
    <3>3. Child(pos) = b
      BY <3>1, ChildIs
    <3>4. callers' = <<[sbuf |-> sbuf, at |-> next]>> /\ sbuf' = b /\ at' = 0
      BY <1>8, <3>2, <3>3 DEF RecurseInto
    <3>5. Outer' = [sbuf |-> sbuf, at |-> next]
      BY <3>4 DEF Outer
    <3>6. b.pos0.path = InsidePath(setup, Place.offset)
      <4>1. sbuf.pos0.offset \in Nat
        BY BufferHas DEF Typed, CallsTyped, Positions
      <4>2. Place.offset = sbuf.pos0.offset + pos
        BY <1>2, <2>1, <3>1, <4>1
      <4>3. b.pos0 = [path |-> <<sbuf.pos0.offset + pos, setup.recurse>>, offset |-> 0]
        BY <2>1, ChildPlace
      <4>4. b.pos0.path = <<sbuf.pos0.offset + pos, setup.recurse>>
        BY <4>3
      <4> QED BY <4>2, <4>4 DEF InsidePath
    <3>7. SweptInside(setup, image, P, A, b, 0)
      <4> HIDE DEF P, b
      <4> QED BY <1>1, <1>3, <1>8, <3>6, GoesOnInside
    <3>8. Recursed(setup, Outer', sbuf')
      <4>1. pos \in 0 .. sbuf.pagesize - 1
        BY <1>1, InPageHas, BufferHas DEF Typed, CallsTyped
      <4> QED BY <3>4, <3>5, <4>1 DEF Recursed
    <3> QED BY <2>4, <3>4, <3>5, <3>7, <3>8
  <2> QED BY <2>5, <2>6
<1> QED BY <1>7, <1>8

LEMMA ThrowSweep ==
  ASSUME Typed, BuffersHold, Sought, Sweep, pc = "scan", Alert,
         PlacesOf(file') = PlacesOf(file) \/ (InPage /\ ~IsEmpty /\ WriteLine)
  PROVE  Sweep'
<1>1. ToSet(alerts') = ToSet(alerts) \cup {sbuf.pos0} /\ ScannerReturns
  <2>1. alerts \in Seq(Positions)
    BY DEF Typed, LinesTyped
  <2> QED BY <2>1, SetAppend DEF Alert
<1>2. CASE PlacesOf(file') = PlacesOf(file)
  <2>1. OnlyThere(setup, image, PlacesOf(file'))
    BY <1>2 DEF Sweep
  <2> QED BY <1>1, <1>2, <2>1, EndedSweep
<1>3. CASE InPage /\ ~IsEmpty /\ WriteLine
  <2>1. PlacesOf(file') = PlacesOf(file) \cup {Place} /\ OnlyThere(setup, image, PlacesOf(file'))
    BY <1>3, WrittenPlace, WrittenThere
  <2>2. setup.recurse # "no" => isRecursive(Place) \/ PageAlert(setup, ToSet(alerts'), Place.offset)
    <3>1. CASE callers # <<>>
      BY <1>3, <3>1, PlaceIs
    <3>2. CASE callers = <<>>
      <4> SUFFICES ASSUME setup.recurse # "no"
                   PROVE  PageAlert(setup, ToSet(alerts'), Place.offset)
        OBVIOUS
      <4>1. setup.offset_add = 0
        BY DEF Sought, SoughtIn
      <4>2. /\ Place.offset = sbuf.pos0.offset + Hit.pos + setup.offset_add
            /\ (sbuf.pos0.offset + Hit.pos) \div setup.pagesize = page - 1
        BY <1>3, <3>2, PlaceIs
      <4>3. sbuf.pos0.offset \in Nat /\ Hit.pos \in Nat
        BY <1>3, BufferHas, InPageHas DEF Typed, CallsTyped, Positions
      <4>4. Place.offset = sbuf.pos0.offset + Hit.pos
        BY <4>1, <4>2, <4>3
      <4>5. Place.offset \div setup.pagesize = page - 1
        BY <4>2, <4>4
      <4> DEFINE A == ToSet(alerts')
                 p == Place.offset
      <4>6. sbuf.pos0 \in A /\ p \div setup.pagesize = page - 1
        BY <1>1, <4>5
      <4> HIDE DEF A, p
      <4>7. PageAlert(setup, A, p)
        BY <3>2, <4>6, PageHasAlert
      <4> QED BY <4>7 DEF A, p
    <3> QED BY <3>1, <3>2
  <2>3. setup.recurse # "no" =>
           \A x \in PlacesOf(file') :
              x \in PlacesOf(file) \/ isRecursive(x) \/ PageAlert(setup, ToSet(alerts'), x.offset)
    BY <2>1, <2>2
  <2> QED BY <1>1, <2>1, <2>3, EndedSweep
<1> QED BY <1>2, <1>3

(* The first page, the next one, and all the steps.                        *)
LEMMA InitSweep == Init => Sweep
<1> SUFFICES ASSUME Init PROVE Sweep
  OBVIOUS
<1>1. file = <<>> /\ alerts = <<>> /\ pc = "client" /\ page = 0 /\ setup \in Setups
  BY DEF Init
<1>2. PlacesOf(file) = {}
  <2>1. \A i \in 1 .. Len(<<>>) : FALSE
    OBVIOUS
  <2> QED BY <1>1, <2>1 DEF PlacesOf
<1>3. page * setup.pagesize = 0
  <2>1. setup.pagesize \in Nat
    BY <1>1, SetupHas
  <2> QED BY <1>1, <2>1
<1>4. Swept(setup, image, PlacesOf(file), ToSet(alerts), page * setup.pagesize, page * setup.pagesize)
  <2>1. \A p \in 0 .. Len(image) - 1 : ~(p < 0)
    OBVIOUS
  <2> QED BY <1>3, <2>1 DEF Swept
<1> QED BY <1>1, <1>2, <1>4 DEF Sweep, OnlyThere, SweptInside

LEMMA NextPageSweep ==
  ASSUME Typed, Sought, Sweep, NextPage
  PROVE  Sweep'
<1>1. /\ pc = "client" /\ pc' = "scan" /\ page' = page + 1 /\ sbuf' = PageAt(page) /\ at' = 0
      /\ UNCHANGED <<setup, image, callers, file, alerts>>
      /\ page * setup.pagesize < Len(image)
  BY DEF NextPage, MorePages
<1>2. callers = <<>> /\ ~isRecursive(sbuf.pos0)
  BY <1>1 DEF Typed, PagesTyped, CallsTyped
<1>3. page \in Nat /\ image \in Seq(Bytes) /\ Cut(setup) /\ setup.pagesize \in Nat
  BY SetupHas, LenProperties DEF Typed, PagesTyped, ImageTyped, Cut
<1> DEFINE b == PageOf(setup, image, page)
           P == PlacesOf(file)
           A == ToSet(alerts)
<1>4. sbuf' = b /\ Outer' = [sbuf |-> b, at |-> 0]
  <2>1. PageAt(page) = b
    BY DEF PageAt, PageOf
  <2> QED BY <1>1, <1>2, <2>1 DEF Outer
<1>5. b.pos0 = [path |-> <<>>, offset |-> page * setup.pagesize] /\ page * setup.pagesize \in Nat
  BY <1>1, <1>3, BytesOfPage
<1>6. OnPage(setup, image, page, [sbuf |-> b, at |-> 0])
  <2> HIDE DEF b
  <2> QED BY <1>1 DEF OnPage, Aligned, b
<1>7. SweptInside(setup, image, P, A, b, 0)
  <2>1. SweptInside(setup, image, P, A, sbuf, at)
    BY DEF Sweep
  <2>2. ASSUME NEW from, sbuf.pos0.path = InsidePath(setup, from)
        PROVE  FALSE
    <3>1. isRecursive(sbuf.pos0)
      BY <2>2 DEF isRecursive, InsidePath
    <3> QED BY <1>2, <3>1
  <2> HIDE DEF P, A, b
  <2>3. setup.recurse # "no" =>
           \A x \in P : x \in P \/ isRecursive(x) \/ SweptAt(setup, image, P, A, b, 0, x.offset)
    OBVIOUS
  <2>4. setup.recurse # "no" =>
           \A from : \A q \in 0 .. Len(image) - 1 :
              InsideAt(setup, image, from, q) /\ sbuf.pos0.path = InsidePath(setup, from) /\ q >= at =>
                 \/ pos0_t(InsidePath(setup, from), 0) \in A
                 \/ pos0_t(InsidePath(setup, from), q) \in P
                 \/ b.pos0.path = InsidePath(setup, from) /\ q >= 0
    BY <2>2
  <2> QED BY <2>1, <2>3, <2>4, InsideMore
<1>8. Swept(setup, image, P, A, b.pos0.offset + 0, (page + 1) * setup.pagesize)
  <2> DEFINE n == page * setup.pagesize
  <2>1. Swept(setup, image, P, A, n, n)
    BY <1>1 DEF Sweep
  <2>2. n \in Nat /\ b.pos0.offset + 0 = n
    BY <1>5
  <2>3. \A p \in 0 .. Len(image) - 1 : p < b.pos0.offset + 0 <=> p < n
    BY <2>2
  <2> HIDE DEF n, P, A, b
  <2> QED BY <2>1, <2>3 DEF Swept
<1>9. page' > 0 /\ page' - 1 = page
  BY <1>1, <1>3
<1> HIDE DEF b
<1>10. Outer'.sbuf.pos0.offset + Outer'.at = b.pos0.offset + 0
  BY <1>4
<1>11. OnPage(setup', image', page' - 1, Outer')
  BY <1>1, <1>4, <1>6, <1>9
<1>12. Swept(setup', image', PlacesOf(file'), ToSet(alerts'),
             Outer'.sbuf.pos0.offset + Outer'.at, page' * setup'.pagesize)
  BY <1>1, <1>8, <1>10
<1>13. SweptInside(setup', image', PlacesOf(file'), ToSet(alerts'), sbuf', at')
  BY <1>1, <1>4, <1>7
<1>14. OnlyThere(setup', image', PlacesOf(file'))
  BY <1>1 DEF Sweep
<1> QED BY <1>1, <1>2, <1>9, <1>11, <1>12, <1>13, <1>14 DEF Sweep

LEMMA StepSweep ==
  ASSUME Typed, BuffersHold, Sought, Sweep, [Next]_vars
  PROVE  Sweep'
<1>1. CASE NextPage
  BY <1>1, NextPageSweep
<1>2. CASE SkipScanner \/ FindNothing
  <2>1. pc = "scan" /\ ScannerReturns /\ UNCHANGED <<file, alerts>> /\ (~Suits \/ Hit = NoHit)
    BY <1>2 DEF SkipScanner, FindNothing, Scanning
  <2>2. OnlyThere(setup, image, PlacesOf(file'))
    BY <2>1 DEF Sweep
  <2> QED BY <2>1, <2>2, EndedSweep
<1>3. CASE WriteNothing
  BY <1>3, NothingSweep
<1>4. CASE WriteFeature
  BY <1>4, WriteSweep
<1>5. CASE ThrowOutside \/ ThrowBeforeLine
  <2>1. pc = "scan" /\ Alert /\ file' = file
    BY <1>5 DEF ThrowOutside, ThrowBeforeLine, Scanning, InPage, Found
  <2> QED BY <2>1, ThrowSweep
<1>6. CASE ThrowAfterLine
  <2>1. pc = "scan" /\ Alert /\ InPage /\ ~IsEmpty /\ WriteLine
    BY <1>6 DEF ThrowAfterLine, Scanning, InPage, Found
  <2> QED BY <2>1, ThrowSweep
<1>7. CASE Shutdown \/ ShutdownThrows
  <2>1. /\ pc = "client" /\ pc' \in {"done", "terminated"} /\ ~MorePages
        /\ UNCHANGED <<setup, image, page, sbuf, at, callers, file, alerts>>
    BY <1>7 DEF Shutdown, ShutdownThrows
  <2>2. Len(image) <= page * setup.pagesize
    <3>1. Len(image) \in Nat /\ page \in Nat /\ setup.pagesize \in Nat
      BY SetupHas, LenProperties DEF Typed, PagesTyped, ImageTyped
    <3>2. page * setup.pagesize \in Nat
      BY <3>1
    <3> QED BY <2>1, <3>1, <3>2 DEF MorePages
  <2> QED BY <2>1, <2>2 DEF Sweep
<1>8. CASE Done \/ UNCHANGED vars
  BY <1>8 DEF Done, vars, Sweep, Outer
<1> QED BY <1>1, <1>2, <1>3, <1>4, <1>5, <1>6, <1>7, <1>8 DEF Next

(* What was swept is what there is to be found in the image.               *)
LEMMA PrefixIsInside ==
  ASSUME NEW f \in Seq(Bytes), NEW s \in Seq(Bytes), NEW offset \in Nat, offset < Len(s),
         IsPrefix(f, Behind(s, offset))
  PROVE  Inside(f, s, offset)
<1> DEFINE b == Behind(s, offset)
           n == Len(f)
           l == Len(s)
<1>1. n \in Nat /\ l \in Nat /\ DOMAIN f = 1 .. n
  BY LenProperties
<1>2. /\ b \in Seq(Bytes) /\ Len(b) = IF offset <= l THEN l - offset ELSE 0
      /\ \A i \in 1 .. Len(b) : offset + i \in 1 .. l /\ b[i] = s[offset + i]
  BY BehindIs
<1>3. n <= Len(b) /\ SubSeq(f, 1, n) = SubSeq(b, 1, n)
  BY DEF IsPrefix
<1>4. SubSeq(f, 1, n) = f
  BY <1>1, SubSeqFull
<1> HIDE DEF b, n, l
<1>5. ASSUME NEW i \in 1 .. n
      PROVE  f[i] = b[i] /\ i \in 1 .. Len(b)
  <2>1. Len(b) \in Nat
    BY <1>2, LenProperties
  <2>2. i \in 1 .. Len(b)
    BY <1>1, <1>3, <2>1
  <2>3. \A j \in 1 .. n : b[j] \in Bytes
    <3> TAKE j \in 1 .. n
    <3>1. j \in 1 .. Len(b)
      BY <1>1, <1>3, <2>1
    <3> QED BY <1>2, <3>1, ElementOfSeq
  <2>4. \A j \in 1 .. n - 1 + 1 : SubSeq(b, 1, n)[j] = b[1 + j - 1]
    BY <1>1, <2>3, SubSeqProperties
  <2> DEFINE r == SubSeq(b, 1, n)
  <2> HIDE DEF r
  <2>5. i \in 1 .. n - 1 + 1 /\ 1 + i - 1 = i
    BY <1>1
  <2>6. r[i] = b[1 + i - 1]
    BY <2>4, <2>5 DEF r
  <2>7. f = r
    BY <1>3, <1>4 DEF r
  <2> QED BY <2>2, <2>5, <2>6, <2>7
<1>6. \A i \in 1 .. n : offset + i \in 1 .. l /\ f[i] = s[offset + i]
  BY <1>2, <1>5
<1> QED BY <1>6 DEF Inside, n, l

LEMMA OccurrencesAre ==
  ASSUME setup \in Setups, Looks(setup), image \in Seq(Bytes), NEW p \in 0 .. Len(image) - 1
  PROVE  /\ p \in ImagePositions /\ p \in Nat /\ p < Len(image) /\ Len(image) \in Nat
         /\ p \in Occurrences <=> OccursAt(setup, image, p)
<1>1. Len(image) \in Nat
  BY LenProperties
<1>2. p \in ImagePositions /\ p \in Nat /\ p < Len(image)
  BY <1>1 DEF ImagePositions
<1>3. ImageAt(p) = image[p + 1] /\ ImageAt(p - 1) = image[p]
  <2>1. (p - 1) + 1 = p
    BY <1>2
  <2> QED BY <2>1 DEF ImageAt
<1>4. CASE setup.kind = "getline"
  BY <1>2, <1>3, <1>4 DEF Occurrences, ImageLines, OccursAt
<1>5. CASE setup.kind = "strings"
  BY <1>2, <1>3, <1>5 DEF Occurrences, ImageStrings, OccursAt
<1>6. CASE setup.kind \in {"find", "findbin"}
  <2>1. setup.needle \in Seq(Bytes)
    BY SetupHas
  <2>2. p \in Occurrences <=> IsPrefix(setup.needle, Behind(image, p))
    BY <1>2, <1>6 DEF Occurrences
  <2>3. OccursAt(setup, image, p) <=> Inside(setup.needle, image, p)
    BY <1>6 DEF OccursAt
  <2> QED BY <1>2, <2>1, <2>2, <2>3, PrefixIsInside, InsideIsPrefix
<1> QED BY <1>1, <1>2, <1>4, <1>5, <1>6 DEF Looks, Searches

LEMMA WantedAre ==
  ASSUME setup \in Setups, Looks(setup), image \in Seq(Bytes), NEW p \in Occurrences \ Hidden
  PROVE  p \in 0 .. Len(image) - 1 /\ WantedAt(setup, image, p)
<1>1. p \in 0 .. Len(image) - 1
  BY DEF Looks, Searches, Occurrences, ImageLines, ImageStrings, ImagePositions
<1>2. /\ p \in ImagePositions /\ p \in Nat /\ p < Len(image) /\ OccursAt(setup, image, p) /\ Len(image) \in Nat
  BY <1>1, OccurrencesAre
<1>3. ImageAt(p) = image[p + 1] /\ ImageAt(p - 1) = image[p]
  <2>1. (p - 1) + 1 = p
    BY <1>2
  <2> QED BY <2>1 DEF ImageAt
<1>4. ASSUME HiddenAt(setup, image, p)
      PROVE  p \in Hidden
  <2>1. CASE setup.kind = "findbin" /\ p > 0 /\ image[p] = setup.needle[1]
    BY <1>3, <2>1 DEF Hidden
  <2>2. CASE /\ setup.kind = "getline" /\ p > 0 /\ image[p + 1] # NEWLINE
             /\ OccursAt(setup, image, p - 1) \/ (p - 1) % setup.pagesize = 0
    <3>1. p - 1 \in 0 .. Len(image) - 1
      BY <1>2, <2>2
    <3>2. p - 1 \in ImagePositions /\ (p - 1 \in Occurrences <=> OccursAt(setup, image, p - 1))
      BY <3>1, OccurrencesAre
    <3>3. Occurrences = ImageLines
      BY <2>2 DEF Occurrences
    <3>4. p - 1 \in ImageLines \cup PageStarts
      BY <2>2, <3>2, <3>3 DEF PageStarts
    <3> QED BY <1>3, <2>2, <3>4 DEF Hidden
  <2> QED BY <1>4, <2>1, <2>2 DEF HiddenAt
<1> QED BY <1>1, <1>2, <1>4 DEF WantedAt

LEMMA AlertsAre ==
  ASSUME NEW p \in ImagePositions, PageAlert(setup, ToSet(alerts), p)
  PROVE  p \in PagesOf(AlertPages)
<1>1. PICK a \in ToSet(alerts) : ~isRecursive(a) /\ a.offset \div setup.pagesize = p \div setup.pagesize
  BY DEF PageAlert
<1>2. PICK i \in DOMAIN alerts : alerts[i] = a
  BY DEF ToSet
<1>3. p \div setup.pagesize \in AlertPages
  BY <1>1, <1>2 DEF AlertPages
<1> QED BY <1>3 DEF PagesOf

LEMMA PlacesAre ==
  ASSUME NEW x \in PlacesOf(file)
  PROVE  \E i \in Written : file[i][1] = x
BY DEF PlacesOf, Written

LEMMA SweepOnly ==
  ASSUME Typed, Sought, Sweep
  PROVE  OnlyOccurrences
<1>1. setup \in Setups /\ Looks(setup) /\ image \in Seq(Bytes)
  BY DEF Typed, ImageTyped, Sought, SoughtIn, Looks, Reads
<1>2. ASSUME NEW i \in FromImage
      PROVE  ImageOffset(i) \in Occurrences \cup Rests
  <2> DEFINE p == ImageOffset(i)
  <2>1. file[i][1] \in PlacesOf(file) /\ ~isRecursive(file[i][1])
    BY <1>2 DEF FromImage, Written, PlacesOf
  <2>2. /\ p \in 0 .. Len(image) - 1
        /\ \/ OccursAt(setup, image, p)
           \/ setup.kind \in {"getline", "strings"} /\ p % setup.pagesize = 0
    BY <2>1 DEF Sweep, OnlyThere, ImageOffset
  <2> HIDE DEF p
  <2>3. p \in ImagePositions /\ (p \in Occurrences <=> OccursAt(setup, image, p))
    BY <1>1, <2>2, OccurrencesAre
  <2>4. p \in Occurrences \cup Rests
    BY <2>2, <2>3 DEF Rests, PageStarts
  <2> QED BY <2>4 DEF p
<1> QED BY <1>2 DEF OnlyOccurrences

LEMMA SweepEvery ==
  ASSUME Typed, Sought, Sweep
  PROVE  EveryOccurrence
<1> SUFFICES ASSUME pc = "done",
                    NEW p \in Occurrences \ (Hidden \cup PagesOf(AlertPages \cup SkippedPages))
             PROVE  p \in {ImageOffset(i) : i \in FromImage}
  BY DEF EveryOccurrence
<1>1. setup \in Setups /\ Looks(setup) /\ image \in Seq(Bytes) /\ setup.pagesize \in Nat \ {0}
  BY SetupHas DEF Typed, ImageTyped, Sought, SoughtIn, Looks, Reads
<1>2. p \in 0 .. Len(image) - 1 /\ WantedAt(setup, image, p)
  BY <1>1, WantedAre
<1>3. p \in ImagePositions /\ p \in Nat /\ p < Len(image) /\ Len(image) \in Nat
  BY <1>1, <1>2, OccurrencesAre
<1> DEFINE end == page * setup.pagesize
           k == p \div setup.pagesize
<1>4. end \in Nat /\ Len(image) <= end /\ Swept(setup, image, PlacesOf(file), ToSet(alerts), end, end)
  <2>1. page \in Nat
    BY <1>3 DEF Typed, PagesTyped
  <2> QED BY <1>1, <2>1 DEF Sweep
<1> HIDE DEF end
<1>5. p < end
  BY <1>3, <1>4
<1>6. \/ FoundAt(setup, PlacesOf(file), p)
      \/ PageAlert(setup, ToSet(alerts), p)
      \/ ~SuitsOf(setup, PageOf(setup, image, k))
  BY <1>2, <1>4, <1>5 DEF Swept
<1>7. ~PageAlert(setup, ToSet(alerts), p)
  <2>1. p \notin PagesOf(AlertPages)
    BY DEF PagesOf
  <2> QED BY <1>3, <2>1, AlertsAre
<1>8. SuitsOf(setup, PageOf(setup, image, k))
  <2>1. k \notin SkippedPages
    BY <1>3 DEF PagesOf
  <2>2. k \in Nat /\ k * setup.pagesize \in Nat /\ k * setup.pagesize <= p
    <3>1. /\ p \div setup.pagesize \in Nat /\ (p \div setup.pagesize) * setup.pagesize <= p
      BY <1>1, <1>3, PageOfPlace
    <3> HIDE DEF k
    <3>2. k \in Nat
      BY <3>1 DEF k
    <3> QED BY <1>1, <3>1, <3>2 DEF k
  <2> HIDE DEF k
  <2>3. k * setup.pagesize < Len(image)
    BY <1>3, <2>2
  <2> QED BY <1>1, <2>1, <2>2, <2>3, SkippedIs
<1>9. PICK x \in PlacesOf(file) : ~isRecursive(x) /\ x.offset - setup.offset_add = p
  BY <1>6, <1>7, <1>8 DEF FoundAt
<1>10. PICK i \in Written : file[i][1] = x
  BY PlacesAre
<1>11. i \in FromImage /\ ImageOffset(i) = p
  BY <1>9, <1>10 DEF FromImage, ImageOffset
<1> QED BY <1>11

LEMMA SweepInside ==
  ASSUME Typed, Sought, Sweep
  PROVE  EveryOccurrenceInside
<1> SUFFICES ASSUME pc = "done", setup.recurse # "no", NEW i \in FromImage
             PROVE  \/ ImageOffset(i) \in PagesOf(AlertPages)
                    \/ pos0_t(<<file[i][1].offset, setup.recurse>>, 0) \in ToSet(alerts)
                    \/ InsideOf(i) \subseteq FoundInside(i)
  BY DEF EveryOccurrenceInside
<1>1. /\ setup \in Setups /\ Searches(setup) /\ image \in Seq(Bytes) /\ setup.pagesize \in Nat \ {0}
      /\ setup.offset_add = 0 /\ setup.needle \in Seq(Bytes)
  BY SetupHas DEF Typed, ImageTyped, Sought, SoughtIn, Reads
<1> DEFINE x == file[i][1]
           from == x.offset
           bytes == Decode(setup.recurse, Behind(image, from))
<1>2. x \in PlacesOf(file) /\ ~isRecursive(x) /\ i \in 1 .. Len(file)
  BY DEF FromImage, Written, PlacesOf
<1>3. x \in Positions /\ from \in Nat
  BY <1>1, <1>2, SetupHas, PlaceHas DEF Typed, LinesTyped
<1>4. from - setup.offset_add = from
  <2> HIDE DEF from
  <2> QED BY <1>1, <1>3
<1>5. ImageOffset(i) = from /\ from \in ImagePositions
  BY <1>2, <1>4 DEF ImageOffset, Sweep, OnlyThere, ImagePositions
<1>6. SweptAt(setup, image, PlacesOf(file), ToSet(alerts), sbuf, at, from)
  BY <1>2 DEF Sweep, SweptInside
<1>7. CASE PageAlert(setup, ToSet(alerts), from)
  BY <1>5, <1>7, AlertsAre
<1>8. CASE pos0_t(InsidePath(setup, from), 0) \in ToSet(alerts)
  BY <1>8 DEF InsidePath
<1>9. CASE \A q \in 0 .. Len(image) - 1 :
              InsideAt(setup, image, from, q) =>
                 \/ pos0_t(InsidePath(setup, from), q) \in PlacesOf(file)
                 \/ sbuf.pos0.path = InsidePath(setup, from) /\ q >= at
  <2>1. ASSUME NEW q \in InsideOf(i)
        PROVE  q \in FoundInside(i)
    <3>1. bytes \in Seq(Bytes) /\ Len(bytes) \in Nat /\ Len(bytes) <= Len(image) /\ Len(image) \in Nat
      <4>1. Behind(image, from) \in Seq(Bytes)
        BY <1>1, <1>3, BehindIs
      <4>2. Len(Behind(image, from)) = IF from <= Len(image) THEN Len(image) - from ELSE 0
        BY <1>1, <1>3, BehindIs
      <4>3. bytes \in Seq(Bytes) /\ Len(bytes) = Len(Behind(image, from))
        BY <4>1, DecodeType
      <4>4. Len(image) \in Nat
        BY <1>1, LenProperties
      <4> HIDE DEF bytes, from
      <4> QED BY <1>3, <4>2, <4>3, <4>4
    <3>2. BytesAt(pos0_t(<<from, setup.recurse>>, 0)) = bytes
      <4> DEFINE w == pos0_t(<<from, setup.recurse>>, 0)
      <4>1. isRecursive(w) /\ w.path[2] = setup.recurse /\ imageOffset(w) = from /\ w.offset = 0
        BY DEF isRecursive, pos0_t, imageOffset
      <4> HIDE DEF w
      <4>2. BytesAt(w) = Behind(bytes, 0)
        BY <4>1 DEF BytesAt
      <4>3. Behind(bytes, 0) = bytes
        <5> HIDE DEF bytes
        <5>1. SubSeq(bytes, 1, Len(bytes)) = bytes /\ 0 + 1 = 1
          BY <3>1, SubSeqFull
        <5> QED BY <5>1 DEF Behind
      <4> QED BY <4>2, <4>3 DEF w
    <3>3. InsideOf(i) = {r \in 0 .. Len(bytes) - 1 :
                            /\ (from + r) \div setup.pagesize = from \div setup.pagesize
                            /\ IsPrefix(setup.needle, Behind(bytes, r))
                            /\ ~(r > 0 /\ bytes[r] = setup.needle[1])}
      <4>1. InsideOf(i) = LET u == BytesAt(pos0_t(<<from, setup.recurse>>, 0))
                          IN  {r \in 0 .. Len(u) - 1 :
                                  /\ (from + r) \div setup.pagesize = from \div setup.pagesize
                                  /\ IsPrefix(setup.needle, Behind(u, r))
                                  /\ ~(r > 0 /\ u[r] = setup.needle[1])}
        BY DEF InsideOf
      <4> HIDE DEF bytes, from
      <4> QED BY <3>2, <4>1
    <3> HIDE DEF bytes
    <3>4. /\ q \in 0 .. Len(bytes) - 1 /\ q \in Nat /\ q < Len(bytes)
          /\ (from + q) \div setup.pagesize = from \div setup.pagesize
          /\ IsPrefix(setup.needle, Behind(bytes, q))
          /\ ~(q > 0 /\ bytes[q] = setup.needle[1])
      BY <2>1, <3>1, <3>3
    <3>5. Inside(setup.needle, bytes, q)
      BY <1>1, <3>1, <3>4, PrefixIsInside
    <3>6. InsideAt(setup, image, from, q)
      BY <3>4, <3>5 DEF InsideAt, bytes
    <3>7. q \in 0 .. Len(image) - 1
      BY <3>1, <3>4
    <3>8. sbuf.pos0.path # InsidePath(setup, from)
      <4>1. callers = <<>>
        BY DEF Typed, PagesTyped
      <4>2. ~isRecursive(sbuf.pos0)
        BY <4>1 DEF Typed, CallsTyped
      <4>3. ASSUME sbuf.pos0.path = InsidePath(setup, from)
            PROVE  isRecursive(sbuf.pos0)
        BY <4>3 DEF isRecursive, InsidePath
      <4> QED BY <4>2, <4>3
    <3>9. pos0_t(InsidePath(setup, from), q) \in PlacesOf(file)
      BY <1>9, <3>6, <3>7, <3>8
    <3>10. PICK j \in Written : file[j][1] = pos0_t(InsidePath(setup, from), q)
      BY <3>9, PlacesAre
    <3>11. file[j][1].offset = q /\ file[j][1].path = <<file[i][1].offset, setup.recurse>>
      BY <3>10 DEF pos0_t, InsidePath
    <3> QED BY <3>10, <3>11 DEF FoundInside
  <2> QED BY <2>1
<1> QED BY <1>6, <1>7, <1>8, <1>9 DEF SweptAt

(* What there is to be found in the image is recorded once, at its place   *)
(* and as it is there, and nothing else is, but for the rest of a text at  *)
(* the beginning of a page; and so is what a scanner recurses into: see    *)
(* FoundWhereItIs.                                                         *)
THEOREM EverythingIsFound == Spec => [](Sought => FoundWhereItIs)
<1> DEFINE Everything == Sought => FoundWhereItIs
           Inv == Typed /\ BuffersHold /\ LinesHold /\ (Sought => Apart /\ Sweep)
<1>1. Init => Inv
  <2> SUFFICES ASSUME Init PROVE Inv
    OBVIOUS
  <2>1. file = <<>> /\ pc = "client" /\ Len(<<>>) = 0 /\ \A i \in 1 .. 0 : FALSE
    BY DEF Init
  <2>2. Apart
    BY <2>1 DEF Apart, AllBelow, NoneTwice
  <2> QED BY <2>2, InitTyped, InitHolds, InitSweep
<1>2. Inv /\ [Next]_vars => Inv'
  <2> SUFFICES ASSUME Inv, [Next]_vars PROVE Inv'
    OBVIOUS
  <2>1. Typed' /\ BuffersHold' /\ LinesHold'
    BY StepTyped, StepHolds
  <2>2. setup' = setup /\ image' = image
    BY DEF Next, vars, NextPage, SkipScanner, FindNothing, WriteNothing, WriteFeature, ThrowOutside,
           ThrowBeforeLine, ThrowAfterLine, Shutdown, ShutdownThrows, Done, Alert, ScannerReturns
  <2>3. ASSUME Sought'
        PROVE  Apart' /\ Sweep'
    <3>1. Sought
      BY <2>2, <2>3 DEF Sought
    <3>2. ShiftKeeps
      BY <3>1 DEF Sought, SoughtIn, ShiftKeeps
    <3> QED BY <3>1, <3>2, StepApart, StepSweep
  <2> QED BY <2>1, <2>3
<1>3. Inv => Everything
  <2> SUFFICES ASSUME Inv, Sought PROVE FoundWhereItIs
    OBVIOUS
  <2>1. OncePerPlace
    BY DEF Apart, NoneTwice, OncePerPlace, Written
  <2>2. LeadsBack
    <3>1. setup.recurse = "no" \/ setup.offset_add = 0
      BY DEF Sought, SoughtIn
    <3> QED BY <3>1, HeldLeadBack
  <2>3. FoundOnce
    BY <2>1, SweepOnly, SweepEvery, SweepInside DEF FoundOnce
  <2> QED BY <2>2, <2>3 DEF FoundWhereItIs
<1>4. Spec => []Everything
  BY <1>1, <1>2, <1>3, PTL DEF Spec
<1> QED BY <1>4
=============================================================================
