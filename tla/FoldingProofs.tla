---------------------------- MODULE FoldingProofs ----------------------------
(***************************************************************************)
(* What the operators of Folding compute, for every finite set and every   *)
(* sequence.  Both are recursive, and the proofs are by induction, in the  *)
(* form that a set of counterexamples which is not empty has a smallest.   *)
(* Then facts about numbers and sequences that other proofs cite.          *)
(***************************************************************************)
EXTENDS Folding, FiniteSetTheorems, SequenceTheorems, WellFoundedInduction, TLAPS

(* A set of natural numbers that is not empty has a least element.         *)
LEMMA LeastNatural ==
  ASSUME NEW T \in SUBSET Nat, T # {}
  PROVE  \E x \in T : \A y \in T : x <= y
<1>1. IsWellFoundedOn(OpToRel(<,Nat), Nat)
  BY NatLessThanWellFounded, Zenon
<1>2. PICK x \in T : \A y \in T : ~(<<y, x>> \in OpToRel(<,Nat))
  BY <1>1, WFMin, Zenon
<1>3. \A y \in T : ~(y < x)
  <2> TAKE y \in T
  <2>1. <<y, x>> \in OpToRel(<,Nat) <=> y < x
    BY DEF OpToRel
  <2> QED BY <1>2, <2>1, Zenon
<1> QED BY <1>3

(* Induction over the finite subsets of a set: a set of them that is not   *)
(* empty has a smallest member.                                            *)
LEMMA SmallestSet ==
  ASSUME NEW F, F # {}, \A s \in F : IsFiniteSet(s)
  PROVE  \E s \in F : \A t \in F : t \subseteq s => t = s
<1> DEFINE Sizes == {Cardinality(s) : s \in F}
<1>1. Sizes \in SUBSET Nat
  BY FS_CardinalityType
<1>2. PICK n \in Sizes : \A m \in Sizes : n <= m
  <2> Sizes # {} OBVIOUS
  <2> HIDE DEF Sizes
  <2> QED BY <1>1, LeastNatural, Zenon
<1>3. PICK s \in F : Cardinality(s) = n
  BY <1>2
<1>4. ASSUME NEW t \in F, t \subseteq s
      PROVE  t = s
  <2>1. Cardinality(s) <= Cardinality(t)
    BY <1>2, <1>3
  <2>2. Cardinality(t) <= Cardinality(s) /\ (Cardinality(t) = Cardinality(s) => t = s)
    BY <1>4, FS_Subset
  <2>3. Cardinality(s) \in Nat /\ Cardinality(t) \in Nat
    BY FS_CardinalityType
  <2> QED BY <2>1, <2>2, <2>3
<1> QED BY <1>4

Pick(s) == CHOOSE x \in s : TRUE
Iter(w, S, g) == g = [s \in SUBSET S |-> IF s = {} THEN 0 ELSE g[s \ {Pick(s)}] + w[Pick(s)]]
IterOf(w, S) == CHOOSE g : Iter(w, S, g)

(* The fold takes some element of a set.                                   *)
LEMMA PickIn == \A s : s # {} => Pick(s) \in s
  BY DEF Pick

(* The sum is a recursive function over the subsets of S.                  *)
LEMMA SumIsIter ==
  ASSUME NEW w, NEW S
  PROVE  SumOf(w, S) = IterOf(w, S)[S]
  BY DEF SumOf, FoldSet, MapThenFoldSet, IterOf, Iter, Pick

(* There is one such function for each set.                                *)
LEMMA IterUnique ==
  ASSUME NEW w, NEW S, NEW T \in SUBSET S, IsFiniteSet(S),
         NEW g, NEW h, Iter(w, S, g), Iter(w, T, h)
  PROVE  g[T] = h[T]
<1> DEFINE F == {s \in SUBSET T : g[s] # h[s]}
<1> SUFFICES F = {}
  OBVIOUS
<1> SUFFICES ASSUME F # {} PROVE FALSE
  OBVIOUS
<1>1. PICK s \in F : \A t \in F : t \subseteq s => t = s
  <2> \A s \in F : IsFiniteSet(s)
    BY FS_Subset
  <2> HIDE DEF F
  <2> QED BY SmallestSet
<1>2. g[s] = IF s = {} THEN 0 ELSE g[s \ {Pick(s)}] + w[Pick(s)]
  BY DEF Iter
<1>3. h[s] = IF s = {} THEN 0 ELSE h[s \ {Pick(s)}] + w[Pick(s)]
  BY DEF Iter
<1>4. CASE s = {}
  BY <1>2, <1>3, <1>4
<1>5. CASE s # {}
  <2>1. s \ {Pick(s)} \notin F
    BY <1>1, <1>5, PickIn
  <2> QED BY <1>2, <1>3, <1>5, <2>1
<1> QED BY <1>4, <1>5

(* And there is one.                                                       *)
LEMMA IterExists ==
  ASSUME NEW w, NEW S, IsFiniteSet(S)
  PROVE  Iter(w, S, IterOf(w, S))
<1> DEFINE F == {s \in SUBSET S : ~ \E g : Iter(w, s, g)}
<1> SUFFICES F = {}
  BY DEF IterOf
<1> SUFFICES ASSUME F # {} PROVE FALSE
  OBVIOUS
<1>1. PICK s \in F : \A t \in F : t \subseteq s => t = s
  <2> \A s \in F : IsFiniteSet(s)
    BY FS_Subset
  <2> HIDE DEF F
  <2> QED BY SmallestSet
<1> DEFINE H(v) == IterOf(w, v)[v]
           G == [t \in SUBSET s |-> IF t = {} THEN 0 ELSE H(t \ {Pick(t)}) + w[Pick(t)]]
<1>2. ASSUME NEW v \in SUBSET s, v # s
      PROVE  Iter(w, v, IterOf(w, v))
  <2>1. \E g : Iter(w, v, g)
    BY <1>1, <1>2
  <2> QED BY <2>1 DEF IterOf
<1>3. ASSUME NEW u \in SUBSET s, u # s
      PROVE  G[u] = H(u)
  <2>1. IterOf(w, u) = [t \in SUBSET u |-> IF t = {} THEN 0
                          ELSE IterOf(w, u)[t \ {Pick(t)}] + w[Pick(t)]]
    BY <1>2, <1>3 DEF Iter
  <2>2. H(u) = IF u = {} THEN 0 ELSE IterOf(w, u)[u \ {Pick(u)}] + w[Pick(u)]
    BY <2>1
  <2>3. CASE u = {}
    BY <2>2, <2>3
  <2>4. CASE u # {}
    <3> DEFINE v == u \ {Pick(u)}
    <3>1. v \in SUBSET u /\ v \in SUBSET s /\ v # s
      BY <2>4, PickIn
    <3>2. IsFiniteSet(u)
      BY FS_Subset
    <3>3. IterOf(w, u)[v] = IterOf(w, v)[v]
      <4> HIDE DEF v
      <4>1. Iter(w, u, IterOf(w, u)) /\ Iter(w, v, IterOf(w, v))
        BY <1>2, <1>3, <3>1
      <4> QED BY <3>1, <3>2, <4>1, IterUnique
    <3> QED BY <2>2, <2>4, <3>3
  <2> QED BY <2>3, <2>4
<1>4. Iter(w, s, G)
  <2>1. ASSUME NEW t \in SUBSET s, t # {}
        PROVE  G[t \ {Pick(t)}] = H(t \ {Pick(t)})
    <3>1. t \ {Pick(t)} \in SUBSET s /\ t \ {Pick(t)} # s
      BY <2>1, PickIn
    <3> HIDE DEF G, H
    <3> QED BY <1>3, <3>1
  <2> HIDE DEF H
  <2>2. G = [t \in SUBSET s |-> IF t = {} THEN 0 ELSE G[t \ {Pick(t)}] + w[Pick(t)]]
    BY <2>1
  <2> HIDE DEF G
  <2> QED BY <2>2 DEF Iter
<1>5. s \notin F
  BY <1>4
<1> QED BY <1>5

(* What is summed.                                                         *)
LEMMA SumEmpty == \A w : SumOf(w, {}) = 0
<1> TAKE w
<1>1. Iter(w, {}, IterOf(w, {}))
  BY IterExists, FS_EmptySet
<1> QED BY <1>1, SumIsIter DEF Iter

(* The element that is taken counts, and then the rest.                    *)
LEMMA SumPick ==
  ASSUME NEW w, NEW S, IsFiniteSet(S), S # {}
  PROVE  SumOf(w, S) = SumOf(w, S \ {Pick(S)}) + w[Pick(S)]
<1> DEFINE T == S \ {Pick(S)}
<1>1. IsFiniteSet(T) /\ T \in SUBSET S
  BY FS_Subset
<1>2. Iter(w, S, IterOf(w, S)) /\ Iter(w, T, IterOf(w, T))
  <2> HIDE DEF T
  <2> QED BY <1>1, IterExists
<1>3. IterOf(w, S)[S] = IterOf(w, S)[T] + w[Pick(S)]
  BY <1>2 DEF Iter
<1>4. IterOf(w, S)[T] = IterOf(w, T)[T]
  <2> HIDE DEF T
  <2> QED BY <1>1, <1>2, IterUnique
<1>5. SumOf(w, S) = IterOf(w, S)[S] /\ SumOf(w, T) = IterOf(w, T)[T]
  <2> HIDE DEF T
  <2> QED BY SumIsIter
<1> QED BY <1>3, <1>4, <1>5

(* The sum of natural numbers is one.                                      *)
LEMMA SumNat ==
  ASSUME NEW w, NEW S, IsFiniteSet(S), \A x \in S : w[x] \in Nat
  PROVE  SumOf(w, S) \in Nat
<1> DEFINE F == {s \in SUBSET S : SumOf(w, s) \notin Nat}
<1> SUFFICES ASSUME F # {} PROVE FALSE
  OBVIOUS
<1>1. PICK s \in F : \A t \in F : t \subseteq s => t = s
  <2> \A s \in F : IsFiniteSet(s)
    BY FS_Subset
  <2> HIDE DEF F
  <2> QED BY SmallestSet
<1>2. s # {}
  BY SumEmpty
<1>3. SumOf(w, s) = SumOf(w, s \ {Pick(s)}) + w[Pick(s)]
  BY <1>2, SumPick, FS_Subset
<1>4. SumOf(w, s \ {Pick(s)}) \in Nat
  BY <1>1, <1>2, PickIn
<1> QED BY <1>2, <1>3, <1>4, PickIn

(* Any element may be taken first.                                         *)
LEMMA SumRemove ==
  ASSUME NEW w, NEW S, IsFiniteSet(S), \A y \in S : w[y] \in Nat, NEW x \in S
  PROVE  SumOf(w, S) = SumOf(w, S \ {x}) + w[x]
<1> DEFINE F == {s \in SUBSET S : \E z \in s : SumOf(w, s) # SumOf(w, s \ {z}) + w[z]}
<1> SUFFICES ASSUME F # {} PROVE FALSE
  OBVIOUS
<1>1. PICK s \in F : \A t \in F : t \subseteq s => t = s
  <2> \A s \in F : IsFiniteSet(s)
    BY FS_Subset
  <2> HIDE DEF F
  <2> QED BY SmallestSet
<1>2. PICK z \in s : SumOf(w, s) # SumOf(w, s \ {z}) + w[z]
  OBVIOUS
<1> DEFINE p == Pick(s)
           u == s \ {p}
           v == s \ {z}
           b == s \ {p, z}
<1>3. SumOf(w, s) = SumOf(w, u) + w[p]
  BY SumPick, FS_Subset
<1>4. p \in s /\ p # z
  BY <1>2, <1>3, PickIn
<1>5. u \notin F /\ v \notin F
  BY <1>1, <1>4
<1>6. SumOf(w, u) = SumOf(w, u \ {z}) + w[z]
  BY <1>4, <1>5
<1>7. SumOf(w, v) = SumOf(w, v \ {p}) + w[p]
  BY <1>4, <1>5
<1>8. u \ {z} = b /\ v \ {p} = b
  OBVIOUS
<1>9. SumOf(w, b) \in Nat /\ w[p] \in Nat /\ w[z] \in Nat
  <2>1. IsFiniteSet(b) /\ \A y \in b : w[y] \in Nat
    BY FS_Subset
  <2> QED BY <2>1, <1>4, SumNat
<1> HIDE DEF b, p, u, v
<1>10. SumOf(w, s) = SumOf(w, v) + w[z]
  BY <1>3, <1>6, <1>7, <1>8, <1>9
<1> QED BY <1>2, <1>10 DEF v

(* One more element adds its weight.                                       *)
LEMMA SumAdd ==
  ASSUME NEW w, NEW S, IsFiniteSet(S), NEW x, x \notin S,
         \A y \in S \cup {x} : w[y] \in Nat
  PROVE  SumOf(w, S \cup {x}) = SumOf(w, S) + w[x]
<1>1. IsFiniteSet(S \cup {x})
  BY FS_AddElement
<1>2. (S \cup {x}) \ {x} = S
  OBVIOUS
<1> QED BY <1>1, <1>2, SumRemove

(* The sum depends on the weights of the elements only.                    *)
LEMMA SumSame ==
  ASSUME NEW v, NEW w, NEW S, IsFiniteSet(S), \A x \in S : v[x] = w[x]
  PROVE  SumOf(v, S) = SumOf(w, S)
<1> DEFINE F == {s \in SUBSET S : SumOf(v, s) # SumOf(w, s)}
<1> SUFFICES ASSUME F # {} PROVE FALSE
  OBVIOUS
<1>1. PICK s \in F : \A t \in F : t \subseteq s => t = s
  <2> \A s \in F : IsFiniteSet(s)
    BY FS_Subset
  <2> HIDE DEF F
  <2> QED BY SmallestSet
<1>2. s # {}
  BY SumEmpty
<1>3. /\ SumOf(v, s) = SumOf(v, s \ {Pick(s)}) + v[Pick(s)]
      /\ SumOf(w, s) = SumOf(w, s \ {Pick(s)}) + w[Pick(s)]
  BY <1>2, SumPick, FS_Subset
<1>4. SumOf(v, s \ {Pick(s)}) = SumOf(w, s \ {Pick(s)})
  BY <1>1, <1>2, PickIn
<1> QED BY <1>2, <1>3, <1>4, PickIn

-----------------------------------------------------------------------------
(* Selections.  The recursive function over 0 .. n, its existence, and     *)
(* that a longer one has the values of a shorter one.                      *)
Selected(chosen, x, S) == IF x \in S THEN Append(chosen, x) ELSE chosen
Selecting(s, S, n, g) ==
    g = [k \in 0 .. n |-> IF k = 0 THEN <<>> ELSE Selected(g[k - 1], s[k], S)]
SelectingOf(s, S, n) == CHOOSE g : Selecting(s, S, n, g)

(* The selection is the last value of a recursive function.                *)
LEMMA SelectIsSelecting ==
  ASSUME NEW s, NEW S
  PROVE  SelectIn(s, S) = SelectingOf(s, S, Len(s))[Len(s)]
  BY DEF SelectIn, SelectingOf, Selecting, Selected

(* There is such a function,                                               *)
LEMMA SelectingExists ==
  ASSUME NEW s, NEW S, NEW n \in Nat
  PROVE  Selecting(s, S, n, SelectingOf(s, S, n))
<1> DEFINE F == {m \in Nat : ~ \E g : Selecting(s, S, m, g)}
<1> SUFFICES ASSUME F # {} PROVE FALSE
  BY DEF SelectingOf
<1>1. PICK m \in F : \A k \in F : m <= k
  <2> HIDE DEF F
  <2>1. F \in SUBSET Nat
    BY DEF F
  <2> QED BY <2>1, LeastNatural
<1>2. CASE m = 0
  <2>1. Selecting(s, S, 0, [k \in 0 .. 0 |-> <<>>])
    BY DEF Selecting
  <2> QED BY <1>2, <2>1
<1>3. CASE m # 0
  <2>1. m - 1 \in Nat /\ m - 1 \notin F
    BY <1>1, <1>3
  <2>2. PICK h : Selecting(s, S, m - 1, h)
    BY <2>1
  <2> DEFINE g == [k \in 0 .. m |-> IF k < m THEN h[k] ELSE Selected(h[m - 1], s[m], S)]
  <2>3. ASSUME NEW k \in 0 .. m
        PROVE  g[k] = IF k = 0 THEN <<>> ELSE Selected(g[k - 1], s[k], S)
    BY <1>3, <2>2 DEF Selecting
  <2>4. Selecting(s, S, m, g)
    <3> HIDE DEF g
    <3>1. g = [k \in 0 .. m |-> g[k]]
      BY DEF g
    <3> QED BY <2>3, <3>1 DEF Selecting
  <2> QED BY <2>4
<1> QED BY <1>2, <1>3

(* and only one.                                                           *)
LEMMA SelectingUnique ==
  ASSUME NEW s, NEW t, NEW S, NEW m \in Nat, NEW n \in Nat, m <= n,
         \A i \in 1 .. m : s[i] = t[i],
         NEW g, NEW h, Selecting(s, S, m, g), Selecting(t, S, n, h)
  PROVE  g[m] = h[m]
<1> DEFINE F == {k \in 0 .. m : g[k] # h[k]}
<1> SUFFICES ASSUME F # {} PROVE FALSE
  OBVIOUS
<1>1. PICK k \in F : \A i \in F : k <= i
  <2>1. F \in SUBSET Nat
    OBVIOUS
  <2> HIDE DEF F
  <2> QED BY <2>1, LeastNatural
<1>2. g[k] = IF k = 0 THEN <<>> ELSE Selected(g[k - 1], s[k], S)
  BY DEF Selecting
<1>3. h[k] = IF k = 0 THEN <<>> ELSE Selected(h[k - 1], t[k], S)
  BY DEF Selecting
<1>4. k # 0 /\ k - 1 \in 0 .. m /\ k - 1 \notin F
  BY <1>1, <1>2, <1>3
<1> QED BY <1>2, <1>3, <1>4

(* What is selected.                                                       *)
LEMMA SelectEmpty == \A S : SelectIn(<<>>, S) = <<>>
<1> TAKE S
<1>1. Len(<<>>) = 0
  OBVIOUS
<1>2. Selecting(<<>>, S, 0, SelectingOf(<<>>, S, 0))
  BY SelectingExists
<1> QED BY <1>1, <1>2, SelectIsSelecting DEF Selecting

(* What is selected from the first n + 1 elements.                         *)
LEMMA SelectStep ==
  ASSUME NEW T, NEW s \in Seq(T), NEW S, NEW n \in 0 .. Len(s) - 1
  PROVE  SelectIn(SubSeq(s, 1, n + 1), S) =
            Selected(SelectIn(SubSeq(s, 1, n), S), s[n + 1], S)
<1> DEFINE a == SubSeq(s, 1, n)
           b == SubSeq(s, 1, n + 1)
<1>1. /\ Len(a) = n /\ Len(b) = n + 1 /\ n \in Nat /\ n + 1 \in Nat
      /\ \A i \in 1 .. n : a[i] = b[i]
      /\ b[n + 1] = s[n + 1]
  BY LenProperties, SubSeqProperties
<1> HIDE DEF a, b
<1> DEFINE g == SelectingOf(a, S, n)
           h == SelectingOf(b, S, n + 1)
<1>2. Selecting(a, S, n, g) /\ Selecting(b, S, n + 1, h)
  BY <1>1, SelectingExists
<1>3. SelectIn(a, S) = g[n] /\ SelectIn(b, S) = h[n + 1]
  BY <1>1, SelectIsSelecting
<1> HIDE DEF g, h
<1>4. g[n] = h[n]
  BY <1>1, <1>2, SelectingUnique
<1>5. h[n + 1] = Selected(h[n], b[n + 1], S)
  BY <1>1, <1>2 DEF Selecting
<1> QED BY <1>1, <1>3, <1>4, <1>5 DEF a, b

(* Induction up to a number, for the members of a set.                     *)
LEMMA UpTo ==
  ASSUME NEW n \in Nat, NEW G, 0 \in G, \A k \in 0 .. n - 1 : k \in G => k + 1 \in G
  PROVE  n \in G
<1> DEFINE F == {k \in 0 .. n : k \notin G}
<1> SUFFICES ASSUME F # {} PROVE FALSE
  OBVIOUS
<1>1. PICK k \in F : \A i \in F : k <= i
  <2>1. F \in SUBSET Nat
    OBVIOUS
  <2> HIDE DEF F
  <2> QED BY <2>1, LeastNatural
<1>2. k - 1 \in 0 .. n - 1 /\ k - 1 \notin F
  BY <1>1
<1>3. (k - 1) + 1 = k
  BY <1>2
<1> QED BY <1>2, <1>3

(* The first n + 1 elements are the first n and another.                   *)
LEMMA FirstAndNext ==
  ASSUME NEW T, NEW s \in Seq(T), NEW n \in 0 .. Len(s) - 1
  PROVE  /\ SubSeq(s, 1, n) \in Seq(T) /\ s[n + 1] \in T
         /\ SubSeq(s, 1, n + 1) = Append(SubSeq(s, 1, n), s[n + 1])
<1>1. SubSeq(s, 1, n) \in Seq(T) /\ s[n + 1] \in T
  BY SubSeqProperties, LenProperties, ElementOfSeq
<1>2. SubSeq(s, 1, n + 1) = Append(SubSeq(s, 1, n), s[n + 1])
  BY SubSeqRecursiveSecond
<1> QED BY <1>1, <1>2

(* Appending to the second of two sequences appends to both.               *)
LEMMA ConcatAppend ==
  ASSUME NEW T, NEW s \in Seq(T), NEW u \in Seq(T), NEW x \in T
  PROVE  s \o u \in Seq(T) /\ s \o Append(u, x) = Append(s \o u, x)
OBVIOUS

(* Selecting after a sequence leaves it alone.                             *)
LEMMA SelectedConcat ==
  ASSUME NEW T, NEW s \in Seq(T), NEW u \in Seq(T), NEW x \in T, NEW S
  PROVE  Selected(s \o u, x, S) = s \o Selected(u, x, S)
<1>1. ASSUME x \in S
      PROVE  Selected(s \o u, x, S) = Append(s \o u, x) /\ Selected(u, x, S) = Append(u, x)
  BY <1>1 DEF Selected
<1>2. ASSUME x \notin S
      PROVE  Selected(s \o u, x, S) = s \o u /\ Selected(u, x, S) = u
  BY <1>2 DEF Selected
<1>3. s \o Append(u, x) = Append(s \o u, x)
  BY ConcatAppend
<1> QED BY <1>1, <1>2, <1>3

(* The last element is selected last.                                      *)
LEMMA SelectAppend ==
  ASSUME NEW T, NEW s \in Seq(T), NEW x \in T, NEW S
  PROVE  SelectIn(Append(s, x), S) = Selected(SelectIn(s, S), x, S)
<1> DEFINE a == Append(s, x)
           n == Len(s)
<1>1. /\ n \in Nat /\ a \in Seq(T) /\ Len(a) = n + 1 /\ a[n + 1] = x
      /\ SubSeq(a, 1, n) = s /\ SubSeq(a, 1, n + 1) = a
  <2>1. n \in Nat /\ a \in Seq(T) /\ Len(a) = n + 1 /\ a[n + 1] = x
    BY LenProperties, AppendProperties
  <2>2. SubSeq(a, 1, n + 1) = a
    BY <2>1, SubSeqFull
  <2>3. SubSeq(a, 1, n) = s
    <3>1. a = s \o <<x>>
      BY AppendIsConcat
    <3> QED BY <3>1, SubSeqOfConcat1, SubSeqFull, EmptySeq
  <2> QED BY <2>1, <2>2, <2>3
<1> HIDE DEF a, n
<1>2. n \in 0 .. Len(a) - 1
  BY <1>1
<1>3. SelectIn(SubSeq(a, 1, n + 1), S) = Selected(SelectIn(SubSeq(a, 1, n), S), a[n + 1], S)
  BY <1>1, <1>2, SelectStep
<1> QED BY <1>1, <1>3 DEF a

(* What is selected is in the set.                                         *)
LEMMA SelectType ==
  ASSUME NEW T, NEW s \in Seq(T), NEW S
  PROVE  SelectIn(s, S) \in Seq(S \cap T)
<1> DEFINE P(n) == SelectIn(SubSeq(s, 1, n), S) \in Seq(S \cap T)
           G == {n \in 0 .. Len(s) : P(n)}
<1>0. Len(s) \in Nat
  BY LenProperties
<1>1. P(0)
  <2>1. SubSeq(s, 1, 0) = <<>> /\ <<>> \in Seq(S \cap T)
    BY SubSeqEmpty, EmptySeq
  <2>2. SelectIn(<<>>, S) = <<>>
    BY SelectEmpty
  <2> QED BY <2>1, <2>2
<1>2. ASSUME NEW n \in 0 .. Len(s) - 1, P(n)
      PROVE  P(n + 1)
  <2> DEFINE a == SelectIn(SubSeq(s, 1, n), S)
             x == s[n + 1]
  <2>1. SelectIn(SubSeq(s, 1, n + 1), S) = Selected(a, x, S)
    BY SelectStep
  <2>2. x \in T /\ a \in Seq(S \cap T)
    BY <1>2, FirstAndNext
  <2> HIDE DEF a, x
  <2>3. Selected(a, x, S) \in Seq(S \cap T)
    BY <2>2, AppendProperties DEF Selected
  <2> QED BY <2>1, <2>3
<1>3. Len(s) \in G
  <2> HIDE DEF P
  <2>1. 0 \in G /\ \A n \in 0 .. Len(s) - 1 : n \in G => n + 1 \in G
    BY <1>0, <1>1, <1>2
  <2> HIDE DEF G
  <2> QED BY <1>0, <2>1, UpTo
<1> QED BY <1>3, SubSeqFull

(* Selecting from two sequences one after the other.                       *)
LEMMA SelectConcat ==
  ASSUME NEW T, NEW s \in Seq(T), NEW u \in Seq(T), NEW S
  PROVE  SelectIn(s \o u, S) = SelectIn(s, S) \o SelectIn(u, S)
<1> DEFINE P(n) == SelectIn(s \o SubSeq(u, 1, n), S) = SelectIn(s, S) \o SelectIn(SubSeq(u, 1, n), S)
           G == {n \in 0 .. Len(u) : P(n)}
<1>0. Len(u) \in Nat
  BY LenProperties
<1>1. P(0)
  <2>1. SubSeq(u, 1, 0) = <<>> /\ s \o <<>> = s
    BY SubSeqEmpty, ConcatEmptySeq
  <2>2. SelectIn(<<>>, S) = <<>>
    BY SelectEmpty
  <2>3. SelectIn(s, S) \o <<>> = SelectIn(s, S)
    BY SelectType, ConcatEmptySeq
  <2> QED BY <2>1, <2>2, <2>3
<1>2. ASSUME NEW n \in 0 .. Len(u) - 1, P(n)
      PROVE  P(n + 1)
  <2> DEFINE v == SubSeq(u, 1, n)
             x == u[n + 1]
             a == SelectIn(s, S)
             b == SelectIn(v, S)
  <2>1. v \in Seq(T) /\ x \in T /\ SubSeq(u, 1, n + 1) = Append(v, x)
    BY FirstAndNext
  <2>2. SelectIn(s \o v, S) = a \o b
    BY <1>2
  <2> HIDE DEF v, x
  <2>3. s \o Append(v, x) = Append(s \o v, x) /\ s \o v \in Seq(T)
    BY <2>1, ConcatAppend
  <2>4. SelectIn(s \o Append(v, x), S) = Selected(a \o b, x, S)
    BY <2>1, <2>2, <2>3, SelectAppend
  <2>5. SelectIn(Append(v, x), S) = Selected(b, x, S)
    BY <2>1, SelectAppend
  <2>6. Selected(a \o b, x, S) = a \o Selected(b, x, S)
    <3>1. a \in Seq(S \cap T) /\ b \in Seq(S \cap T)
      BY <2>1, SelectType
    <3> HIDE DEF a, b
    <3>2. a \in Seq(T) /\ b \in Seq(T)
      BY <3>1, SeqMonotonic
    <3> QED BY <2>1, <3>2, SelectedConcat
  <2> QED BY <2>1, <2>4, <2>5, <2>6
<1>3. Len(u) \in G
  <2> HIDE DEF P
  <2>1. 0 \in G /\ \A n \in 0 .. Len(u) - 1 : n \in G => n + 1 \in G
    BY <1>0, <1>1, <1>2
  <2> HIDE DEF G
  <2> QED BY <1>0, <2>1, UpTo
<1> QED BY <1>3, SubSeqFull

(* Of elements that are not in the set, none is selected.                  *)
LEMMA SelectNone ==
  ASSUME NEW T, NEW s \in Seq(T), NEW S, \A i \in 1 .. Len(s) : s[i] \notin S
  PROVE  SelectIn(s, S) = <<>>
<1> DEFINE P(n) == SelectIn(SubSeq(s, 1, n), S) = <<>>
           G == {n \in 0 .. Len(s) : P(n)}
<1>0. Len(s) \in Nat
  BY LenProperties
<1>1. P(0)
  <2>1. SubSeq(s, 1, 0) = <<>>
    BY SubSeqEmpty
  <2> QED BY <2>1, SelectEmpty
<1>2. ASSUME NEW n \in 0 .. Len(s) - 1, P(n)
      PROVE  P(n + 1)
  <2>1. SelectIn(SubSeq(s, 1, n + 1), S) = Selected(SelectIn(SubSeq(s, 1, n), S), s[n + 1], S)
    BY SelectStep
  <2>2. s[n + 1] \notin S
    BY <1>0
  <2> QED BY <1>2, <2>1, <2>2 DEF Selected
<1>3. Len(s) \in G
  <2> HIDE DEF P
  <2>1. 0 \in G /\ \A n \in 0 .. Len(s) - 1 : n \in G => n + 1 \in G
    BY <1>0, <1>1, <1>2
  <2> HIDE DEF G
  <2> QED BY <1>0, <2>1, UpTo
<1> QED BY <1>3, SubSeqFull

(* Of elements that are in the set, all are.                               *)
LEMMA SelectAll ==
  ASSUME NEW S, NEW s \in Seq(S)
  PROVE  SelectIn(s, S) = s
<1> DEFINE P(n) == SelectIn(SubSeq(s, 1, n), S) = SubSeq(s, 1, n)
           G == {n \in 0 .. Len(s) : P(n)}
<1>0. Len(s) \in Nat
  BY LenProperties
<1>1. P(0)
  <2>1. SubSeq(s, 1, 0) = <<>>
    BY SubSeqEmpty
  <2> QED BY <2>1, SelectEmpty
<1>2. ASSUME NEW n \in 0 .. Len(s) - 1, P(n)
      PROVE  P(n + 1)
  <2>1. SelectIn(SubSeq(s, 1, n + 1), S) = Selected(SelectIn(SubSeq(s, 1, n), S), s[n + 1], S)
    BY SelectStep
  <2>2. s[n + 1] \in S /\ SubSeq(s, 1, n + 1) = Append(SubSeq(s, 1, n), s[n + 1])
    BY FirstAndNext
  <2> QED BY <1>2, <2>1, <2>2 DEF Selected
<1>3. Len(s) \in G
  <2> HIDE DEF P
  <2>1. 0 \in G /\ \A n \in 0 .. Len(s) - 1 : n \in G => n + 1 \in G
    BY <1>0, <1>1, <1>2
  <2> HIDE DEF G
  <2> QED BY <1>0, <2>1, UpTo
<1> QED BY <1>3, SubSeqFull

(* How many elements of a sequence are in a set.                           *)
PlacesIn(s, Q) == {i \in DOMAIN s : s[i] \in Q}
CountIn(s, Q) == Cardinality(PlacesIn(s, Q))

(* Of no elements, none is.                                                *)
LEMMA CountEmpty == \A Q : PlacesIn(<<>>, Q) = {} /\ CountIn(<<>>, Q) = 0
<1> TAKE Q
<1>1. PlacesIn(<<>>, Q) = {}
  BY DEF PlacesIn
<1> QED BY <1>1, FS_EmptySet DEF CountIn

(* They are finitely many.                                                 *)
LEMMA CountNat ==
  ASSUME NEW T, NEW s \in Seq(T), NEW Q
  PROVE  IsFiniteSet(PlacesIn(s, Q)) /\ CountIn(s, Q) \in Nat
<1>1. Len(s) \in Nat /\ DOMAIN s = 1 .. Len(s)
  BY LenProperties
<1>2. IsFiniteSet(1 .. Len(s))
  <2>1. 1 \in Int /\ Len(s) \in Int
    BY <1>1
  <2> QED BY <2>1, FS_Interval
<1>3. PlacesIn(s, Q) \in SUBSET (1 .. Len(s))
  BY <1>1 DEF PlacesIn
<1>4. IsFiniteSet(PlacesIn(s, Q))
  BY <1>2, <1>3, FS_Subset
<1> QED BY <1>4, FS_CardinalityType DEF CountIn

(* One more when one is added.                                             *)
LEMMA CountAppend ==
  ASSUME NEW T, NEW s \in Seq(T), NEW x \in T, NEW Q
  PROVE  /\ CountIn(s, Q) \in Nat
         /\ x \in Q => CountIn(Append(s, x), Q) = CountIn(s, Q) + 1
         /\ x \notin Q => CountIn(Append(s, x), Q) = CountIn(s, Q)
<1>1. /\ Len(s) \in Nat /\ DOMAIN s = 1 .. Len(s)
      /\ DOMAIN Append(s, x) = 1 .. Len(s) + 1
      /\ Append(s, x)[Len(s) + 1] = x
      /\ \A i \in 1 .. Len(s) : Append(s, x)[i] = s[i]
  BY LenProperties, AppendProperties
<1>2. IsFiniteSet(PlacesIn(s, Q)) /\ CountIn(s, Q) \in Nat
  BY CountNat
<1>3. Len(s) + 1 \notin PlacesIn(s, Q)
  BY <1>1 DEF PlacesIn
<1>4. ASSUME x \in Q
      PROVE  CountIn(Append(s, x), Q) = CountIn(s, Q) + 1
  <2>1. PlacesIn(Append(s, x), Q) = PlacesIn(s, Q) \cup {Len(s) + 1}
    BY <1>1, <1>4 DEF PlacesIn
  <2> QED BY <1>2, <1>3, <2>1, FS_AddElement DEF CountIn
<1>5. ASSUME x \notin Q
      PROVE  CountIn(Append(s, x), Q) = CountIn(s, Q)
  <2>1. PlacesIn(Append(s, x), Q) = PlacesIn(s, Q)
    BY <1>1, <1>5 DEF PlacesIn
  <2> QED BY <2>1 DEF CountIn
<1> QED BY <1>2, <1>4, <1>5

(* And one less when the first is taken, if it was one of them.            *)
LEMMA CountTail ==
  ASSUME NEW T, NEW s \in Seq(T), s # <<>>, NEW Q
  PROVE  /\ CountIn(s, Q) \in Nat /\ CountIn(Tail(s), Q) \in Nat
         /\ Head(s) \in Q => CountIn(s, Q) = CountIn(Tail(s), Q) + 1
         /\ Head(s) \notin Q => CountIn(s, Q) = CountIn(Tail(s), Q)
<1> DEFINE n == Len(s)
           P == PlacesIn(s, Q)
           U == PlacesIn(Tail(s), Q)
           R == P \ {1}
           f == [i \in U |-> i + 1]
<1>1. /\ n \in Nat \ {0} /\ DOMAIN s = 1 .. n /\ Head(s) = s[1]
      /\ DOMAIN Tail(s) = 1 .. n - 1
      /\ \A i \in 1 .. n - 1 : Tail(s)[i] = s[i + 1]
  BY HeadTailProperties, EmptySeq, LenProperties
<1>2. IsFiniteSet(P) /\ P \subseteq 1 .. n
  BY <1>1, CountNat DEF PlacesIn
<1>3. R = {i + 1 : i \in U} /\ U \subseteq 1 .. n - 1
  <2>1. \A i \in 1 .. n - 1 : i \in U <=> s[i + 1] \in Q
    BY <1>1 DEF PlacesIn
  <2>2. U \subseteq 1 .. n - 1
    BY <1>1 DEF PlacesIn
  <2>3. \A i \in U : i + 1 \in R
    BY <1>1, <2>1, <2>2 DEF PlacesIn
  <2>4. \A j \in R : j - 1 \in U /\ j = (j - 1) + 1
    BY <1>1, <2>1 DEF PlacesIn
  <2> QED BY <2>2, <2>3, <2>4
<1>4. IsFiniteSet(R) /\ Cardinality(R) = IF 1 \in P THEN Cardinality(P) - 1 ELSE Cardinality(P)
  <2> HIDE DEF P
  <2> QED BY <1>2, FS_RemoveElement
<1>5. f \in Bijection(U, R)
  <2>1. f \in [U -> R] /\ \A j \in R : \E i \in U : f[i] = j
    BY <1>3
  <2>2. \A i, j \in U : f[i] = f[j] => i = j
    BY <1>3
  <2> QED BY <2>1, <2>2 DEF Bijection, Injection, IsInjective, Surjection
<1>6. IsFiniteSet(U) /\ Cardinality(U) = Cardinality(R)
  <2>1. IsFiniteSet(U)
    <3>1. Tail(s) \in Seq(T)
      BY HeadTailProperties
    <3> QED BY <3>1, CountNat
  <2>2. ExistsBijection(U, R)
    BY <1>5 DEF ExistsBijection
  <2> HIDE DEF U, R
  <2> QED BY <2>1, <2>2, FS_Bijection
<1>7. Cardinality(P) \in Nat /\ Cardinality(U) \in Nat
  BY <1>2, <1>6, FS_CardinalityType
<1>8. 1 \in P <=> Head(s) \in Q
  BY <1>1 DEF PlacesIn
<1>9. CountIn(s, Q) = Cardinality(P) /\ CountIn(Tail(s), Q) = Cardinality(U)
  BY DEF CountIn
<1> HIDE DEF P, U, R, f
<1> QED BY <1>4, <1>6, <1>7, <1>8, <1>9

(* Those that are selected and in Q are those that are in both sets.       *)
LEMMA SelectCount ==
  ASSUME NEW T, NEW s \in Seq(T), NEW S, NEW Q
  PROVE  CountIn(SelectIn(s, S), Q) = CountIn(s, S \cap Q)
<1> DEFINE P(n) == CountIn(SelectIn(SubSeq(s, 1, n), S), Q) = CountIn(SubSeq(s, 1, n), S \cap Q)
           G == {n \in 0 .. Len(s) : P(n)}
<1>0. Len(s) \in Nat
  BY LenProperties
<1>1. P(0)
  <2>1. SubSeq(s, 1, 0) = <<>> /\ SelectIn(<<>>, S) = <<>>
    BY SubSeqEmpty, SelectEmpty
  <2> QED BY <2>1, CountEmpty
<1>2. ASSUME NEW n \in 0 .. Len(s) - 1, P(n)
      PROVE  P(n + 1)
  <2> DEFINE a == SelectIn(SubSeq(s, 1, n), S)
             b == SubSeq(s, 1, n)
             x == s[n + 1]
  <2>1. SelectIn(SubSeq(s, 1, n + 1), S) = Selected(a, x, S)
    BY SelectStep
  <2>2. b \in Seq(T) /\ x \in T /\ SubSeq(s, 1, n + 1) = Append(b, x)
    BY FirstAndNext
  <2>3. a \in Seq(T)
    <3>1. a \in Seq(S \cap T)
      BY <2>2, SelectType
    <3> HIDE DEF a
    <3> QED BY <3>1, SeqMonotonic
  <2>4. CountIn(a, Q) = CountIn(b, S \cap Q)
    BY <1>2
  <2> HIDE DEF a, b, x
  <2>5. CASE x \in S
    <3>1. Selected(a, x, S) = Append(a, x)
      BY <2>5 DEF Selected
    <3>2. x \in S \cap Q <=> x \in Q
      BY <2>5
    <3>3. CountIn(Append(a, x), Q) = CountIn(a, Q) + IF x \in Q THEN 1 ELSE 0
      BY <2>2, <2>3, CountAppend
    <3>4. CountIn(Append(b, x), S \cap Q) = CountIn(b, S \cap Q) + IF x \in S \cap Q THEN 1 ELSE 0
      BY <2>2, CountAppend
    <3> QED BY <2>1, <2>2, <2>4, <3>1, <3>2, <3>3, <3>4
  <2>6. CASE x \notin S
    <3>1. Selected(a, x, S) = a
      BY <2>6 DEF Selected
    <3>2. CountIn(Append(b, x), S \cap Q) = CountIn(b, S \cap Q)
      BY <2>2, <2>6, CountAppend
    <3> QED BY <2>1, <2>2, <2>4, <3>1, <3>2
  <2> QED BY <2>5, <2>6
<1>3. Len(s) \in G
  <2> HIDE DEF P
  <2>1. 0 \in G /\ \A n \in 0 .. Len(s) - 1 : n \in G => n + 1 \in G
    BY <1>0, <1>1, <1>2
  <2> HIDE DEF G
  <2> QED BY <1>0, <2>1, UpTo
<1> QED BY <1>3, SubSeqFull

(* The largest and the least of finitely many numbers.                     *)
LEMMA MaxOf ==
  ASSUME NEW n \in Nat, NEW T \in SUBSET (0 .. n), T # {}
  PROVE  Max(T) \in T /\ \A y \in T : y <= Max(T)
<1> DEFINE U == {n - x : x \in T}
<1>1. U \in SUBSET Nat /\ U # {}
  <2>1. ASSUME NEW x \in T PROVE n - x \in Nat
    BY <2>1
  <2>2. PICK x \in T : TRUE
    OBVIOUS
  <2>3. n - x \in U
    BY <2>2
  <2> QED BY <2>1, <2>3
<1>2. PICK u \in U : \A v \in U : u <= v
  <2> HIDE DEF U
  <2> QED BY <1>1, LeastNatural
<1>3. n - u \in T /\ \A y \in T : n - u >= y
  BY <1>2
<1>4. \E x \in T : \A y \in T : x >= y
  BY <1>3
<1>5. Max(T) \in T /\ \A y \in T : Max(T) >= y
  BY <1>4 DEF Max
<1> QED BY <1>5

(* And the least of any.                                                   *)
LEMMA MinOf ==
  ASSUME NEW T \in SUBSET Nat, T # {}
  PROVE  Min(T) \in T /\ \A y \in T : Min(T) <= y
<1>1. \E x \in T : \A y \in T : x <= y
  BY LeastNatural
<1> QED BY <1>1 DEF Min

-----------------------------------------------------------------------------
(* The smaller and the larger of two numbers.                              *)
LEMMA MinOfTwo ==
  \A a, b \in Nat : Min({a, b}) = IF a <= b THEN a ELSE b
<1> TAKE a, b \in Nat
<1>1. Min({a, b}) \in {a, b} /\ \A y \in {a, b} : Min({a, b}) <= y
  BY MinOf
<1> QED BY <1>1

LEMMA MaxOfTwo ==
  \A a, b \in Nat : Max({a, b}) = IF a <= b THEN b ELSE a
<1> TAKE a, b \in Nat
<1>1. Max({a, b}) \in {a, b} /\ \A y \in {a, b} : y <= Max({a, b})
  <2>1. {a, b} \in SUBSET (0 .. a + b) /\ {a, b} # {} /\ a + b \in Nat
    OBVIOUS
  <2> QED BY <2>1, MaxOf
<1> QED BY <1>1

(* The largest of the first positions of a sequence.                       *)
LEMMA LargestIn ==
  ASSUME NEW n \in Nat, NEW s \in SUBSET (1 .. n), s # {}
  PROVE  Max(s) \in s /\ \A y \in s : y <= Max(s)
<1>1. s \in SUBSET (0 .. n)
  OBVIOUS
<1> QED BY <1>1, MaxOf

(* The multiple of n at or before a place, a place that goes on by n, and  *)
(* four places for each element of a sequence.                             *)
LEMMA PageOfPlace ==
  ASSUME NEW n \in Nat \ {0}, NEW k \in Nat, NEW p \in Nat
  PROVE  /\ k * n \in Nat
         /\ k * n <= p /\ p < k * n + n <=> p \div n = k
         /\ p < (p \div n) * n + n /\ (p \div n) * n <= p /\ p \div n \in Nat
         /\ p % n = p - (p \div n) * n
<1>1. k * n \in Nat
  OBVIOUS
<1>2. p \div n \in Nat /\ (p \div n) * n <= p /\ p < (p \div n) * n + n /\ p % n = p - (p \div n) * n
  <2> DEFINE d == p \div n
             r == p % n
  <2>1. d \in Int /\ r \in 0 .. n - 1 /\ p = n * d + r
    OBVIOUS
  <2>2. d >= 0
    OBVIOUS
  <2>3. n * d = d * n
    BY <2>1
  <2> HIDE DEF d, r
  <2> DEFINE m == d * n
  <2>4. m \in Int
    BY <2>1
  <2>5. p = m + r
    BY <2>1, <2>3
  <2> HIDE DEF m
  <2>6. d \in Nat /\ m <= p /\ p < m + n /\ r = p - m
    BY <2>1, <2>2, <2>4, <2>5
  <2> QED BY <2>6 DEF m, d, r
<1>3. ASSUME NEW i \in Nat, NEW j \in Nat, i * n <= p, p < i * n + n, j * n <= p, p < j * n + n
      PROVE  ~(i < j)
  <2> SUFFICES ASSUME i < j PROVE FALSE
    OBVIOUS
  <2> DEFINE e == j - (i + 1)
  <2>1. e \in Nat /\ j = i + 1 + e
    OBVIOUS
  <2> HIDE DEF e
  <2>2. j * n = i * n + n + e * n
    BY <2>1
  <2>3. e * n \in Nat /\ i * n \in Nat
    BY <2>1
  <2> DEFINE a == i * n
             c == e * n
             x == j * n
  <2>4. a \in Nat /\ c \in Nat /\ x = a + n + c /\ x <= p /\ p < a + n
    BY <1>3, <2>2, <2>3
  <2> HIDE DEF a, c, x
  <2> QED BY <2>4
<1>4. ASSUME k * n <= p, p < k * n + n
      PROVE  p \div n = k
  <2> DEFINE d == p \div n
  <2>1. d \in Nat /\ d * n <= p /\ p < d * n + n
    BY <1>2
  <2> HIDE DEF d
  <2>2. ~(k < d) /\ ~(d < k)
    BY <1>3, <1>4, <2>1
  <2>3. d = k
    BY <2>1, <2>2
  <2> QED BY <2>3 DEF d
<1>5. ASSUME p \div n = k
      PROVE  k * n <= p /\ p < k * n + n
  BY <1>2, <1>5
<1> QED BY <1>1, <1>2, <1>4, <1>5

LEMMA PlaceOnPage ==
  ASSUME NEW n \in Nat \ {0}, NEW k \in Nat, NEW base, base = k * n, NEW p \in Nat,
         base <= p, p < base + n
  PROVE  p \div n = k
BY PageOfPlace

LEMMA NextModulus ==
  ASSUME NEW n \in Nat \ {0}, NEW j \in Nat
  PROVE  (j + n) % n = j % n /\ (j < n => j % n = j)
<1> DEFINE d == j \div n
           e == d + 1
<1>1. d \in Nat /\ d * n <= j /\ j < d * n + n /\ j % n = j - d * n
  BY PageOfPlace
<1>2. j + n \in Nat
  OBVIOUS
<1> HIDE DEF d
<1>3. e \in Nat /\ e * n = d * n + n /\ d * n \in Nat
  BY <1>1
<1> HIDE DEF e
<1>4. e * n <= j + n /\ j + n < e * n + n
  BY <1>1, <1>3
<1>5. (j + n) \div n = e
  BY <1>2, <1>3, <1>4, PageOfPlace
<1>6. (j + n) % n = (j + n) - e * n
  <2>1. (j + n) % n = (j + n) - ((j + n) \div n) * n
    BY <1>2, PageOfPlace
  <2> QED BY <1>5, <2>1
<1>7. (j + n) - e * n = j - d * n
  BY <1>3
<1>8. (j + n) % n = j % n
  BY <1>1, <1>6, <1>7
<1>9. j < n => j % n = j
  OBVIOUS
<1> QED BY <1>8, <1>9

LEMMA QuarterOf ==
  ASSUME NEW n \in Nat, NEW k \in Int, k > 4 * n, k <= 4 * n + 4
  PROVE  (k + 3) \div 4 = n + 1 /\ 1 + ((k - 1) % 4) = k - 4 * n /\ k - 4 * n \in 1 .. 4
<1>1. k = 4 * n + 1 \/ k = 4 * n + 2 \/ k = 4 * n + 3 \/ k = 4 * n + 4
  OBVIOUS
<1>2. CASE k = 4 * n + 1
  BY <1>2
<1>3. CASE k = 4 * n + 2
  BY <1>3
<1>4. CASE k = 4 * n + 3
  BY <1>4
<1>5. CASE k = 4 * n + 4
  BY <1>5
<1> QED BY <1>1, <1>2, <1>3, <1>4, <1>5

-----------------------------------------------------------------------------
(* Sequences: a function over 1 .. n is one, a part that is cut out at the *)
(* end of the whole, one element more, and the first that is selected.     *)
LEMMA SeqOfFunction ==
  ASSUME NEW n \in Nat, NEW S, NEW f \in [1 .. n -> S]
  PROVE  f \in Seq(S) /\ Len(f) = n
OBVIOUS

LEMMA CutOut ==
  ASSUME NEW S, NEW s \in Seq(S), NEW m \in Nat, NEW n \in Nat
  PROVE  /\ SubSeq(s, m + 1, Min({n, Len(s)})) \in Seq(S)
         /\ Len(SubSeq(s, m + 1, Min({n, Len(s)}))) <= Len(s)
         /\ \A i \in 1 .. Len(SubSeq(s, m + 1, Min({n, Len(s)}))) :
               /\ m + i \in 1 .. Len(s) /\ m + i <= n
               /\ SubSeq(s, m + 1, Min({n, Len(s)}))[i] = s[m + i]
<1> DEFINE e == Min({n, Len(s)})
<1>1. Len(s) \in Nat /\ \A i \in 1 .. Len(s) : s[i] \in S
  BY LenProperties, ElementOfSeq
<1>2. e \in Nat /\ e <= n /\ e <= Len(s)
  BY <1>1, MinOfTwo
<1> HIDE DEF e
<1>3. /\ SubSeq(s, m + 1, e) \in Seq(S)
      /\ Len(SubSeq(s, m + 1, e)) = IF m + 1 <= e THEN e - (m + 1) + 1 ELSE 0
      /\ \A i \in 1 .. e - (m + 1) + 1 : SubSeq(s, m + 1, e)[i] = s[m + 1 + i - 1]
  <2>1. m + 1 \in Int /\ e \in Int /\ \A i \in m + 1 .. e : s[i] \in S
    BY <1>1, <1>2
  <2> QED BY <2>1, SubSeqProperties
<1>4. ASSUME NEW i \in 1 .. Len(SubSeq(s, m + 1, e))
      PROVE  /\ m + i \in 1 .. Len(s) /\ m + i <= n
             /\ SubSeq(s, m + 1, e)[i] = s[m + i]
  <2>1. m + 1 <= e /\ i \in 1 .. e - m /\ m + 1 + i - 1 = m + i
    BY <1>2, <1>3, <1>4
  <2>2. SubSeq(s, m + 1, e)[i] = s[m + i]
    BY <1>2, <1>3, <2>1
  <2> QED BY <1>1, <1>2, <2>1, <2>2
<1>5. Len(SubSeq(s, m + 1, e)) <= Len(s)
  BY <1>1, <1>2, <1>3
<1> QED BY <1>3, <1>4, <1>5 DEF e

LEMMA PairAnd ==
  \A x, y, z : <<x, y>> \o <<>> = <<x, y>> /\ <<x, y>> \o <<z>> = <<x, y, z>>
<1> TAKE x, y, z
<1> DEFINE T == {x, y, z}
           s == <<x, y>>
           e == <<z>>
           t == <<x, y, z>>
<1>1. s \in Seq(T) /\ e \in Seq(T) /\ t \in Seq(T) /\ Len(s) = 2 /\ Len(e) = 1 /\ Len(t) = 3
  OBVIOUS
<1>2. s[1] = x /\ s[2] = y /\ e[1] = z /\ t[1] = x /\ t[2] = y /\ t[3] = z
  OBVIOUS
<1> HIDE DEF T, s, e, t
<1>3. s \o <<>> = s
  BY <1>1, ConcatEmptySeq
<1>4. /\ s \o e \in Seq(T) /\ Len(s \o e) = 3
      /\ \A i \in 1 .. 3 : (s \o e)[i] = IF i <= 2 THEN s[i] ELSE e[i - 2]
  <2>1. /\ s \o e \in Seq(T) /\ Len(s \o e) = Len(s) + Len(e)
        /\ \A i \in 1 .. Len(s) + Len(e) : (s \o e)[i] = IF i <= Len(s) THEN s[i] ELSE e[i - Len(s)]
    BY <1>1, ConcatProperties
  <2> QED BY <1>1, <2>1
<1>5. \A i \in 1 .. 3 : (s \o e)[i] = t[i]
  <2> TAKE i \in 1 .. 3
  <2>1. i = 1 \/ i = 2 \/ i = 3
    OBVIOUS
  <2> QED BY <1>2, <1>4, <2>1
<1>6. s \o e = t
  BY <1>1, <1>4, <1>5, SeqEqual
<1> QED BY <1>3, <1>6 DEF s, e, t

LEMMA AppendHas ==
  ASSUME NEW T, NEW s \in Seq(T), NEW x
  PROVE  /\ Len(s) \in Nat /\ Len(Append(s, x)) = Len(s) + 1 /\ Append(s, x)[Len(s) + 1] = x
         /\ \A i \in 1 .. Len(s) : Append(s, x)[i] = s[i]
         /\ \A i \in 1 .. Len(s) + 1 : i = Len(s) + 1 \/ i \in 1 .. Len(s)
<1> DEFINE U == T \cup {x}
<1>1. s \in Seq(U) /\ x \in U
  <2>1. Len(s) \in Nat /\ s \in [1 .. Len(s) -> U]
    BY LenProperties
  <2> HIDE DEF U
  <2> QED BY <2>1, SeqOfFunction DEF U
<1> HIDE DEF U
<1>2. /\ Len(Append(s, x)) = Len(s) + 1 /\ Append(s, x)[Len(s) + 1] = x
      /\ \A i \in 1 .. Len(s) : Append(s, x)[i] = s[i]
  BY <1>1, AppendProperties
<1>3. Len(s) \in Nat
  BY LenProperties
<1> QED BY <1>2, <1>3

LEMMA SelectFirst ==
  ASSUME NEW T, NEW s \in Seq(T), s # <<>>, NEW S, s[1] \in S
  PROVE  SelectIn(s, S) # <<>> /\ SelectIn(s, S)[1] = s[1]
<1> DEFINE a == <<s[1]>>
           b == Tail(s)
<1>1. s[1] \in T /\ b \in Seq(T) /\ a \in Seq(T) /\ a \in Seq(S) /\ s = a \o b
  OBVIOUS
<1>2. Len(a) = 1 /\ a[1] = s[1]
  OBVIOUS
<1> HIDE DEF a, b
<1>3. SelectIn(s, S) = SelectIn(a, S) \o SelectIn(b, S) /\ SelectIn(a, S) = a
  BY <1>1, SelectConcat, SelectAll
<1>4. SelectIn(b, S) \in Seq(S \cap T)
  BY <1>1, SelectType
<1>5. SelectIn(b, S) \in Seq(T)
  BY <1>4, SeqMonotonic
<1> DEFINE r == SelectIn(b, S)
<1> HIDE DEF r
<1>6. a \o r \in Seq(T) /\ Len(a \o r) = 1 + Len(r) /\ (a \o r)[1] = a[1] /\ Len(r) \in Nat
  <2>1. r \in Seq(T) /\ Len(r) \in Nat
    BY <1>5, LenProperties DEF r
  <2>2. Len(a \o r) = Len(a) + Len(r) /\ a \o r \in Seq(T) /\ \A i \in 1 .. Len(a) : (a \o r)[i] = a[i]
    BY <1>1, <2>1
  <2> QED BY <1>2, <2>1, <2>2
<1>7. a \o r # <<>>
  <2>1. Len(<<>>) = 0
    OBVIOUS
  <2> QED BY <1>6, <2>1
<1> QED BY <1>2, <1>3, <1>6, <1>7 DEF r

-----------------------------------------------------------------------------
(* The places of a sequence rs whose elements are in the set counted and   *)
(* have the key k, and those of them that are in the set wide.             *)
FindsOf(key, counted, rs, k) == {i \in 1 .. Len(rs) : rs[i] \in counted /\ key[rs[i]] = k}
WideOf(key, counted, wide, rs, k) == {i \in FindsOf(key, counted, rs, k) : rs[i] \in wide}

LEMMA FindsFinite ==
  ASSUME NEW key, NEW counted, NEW wide, NEW T, NEW rs \in Seq(T), NEW k
  PROVE  /\ IsFiniteSet(FindsOf(key, counted, rs, k)) /\ IsFiniteSet(WideOf(key, counted, wide, rs, k))
         /\ Cardinality(FindsOf(key, counted, rs, k)) \in Nat
         /\ Cardinality(WideOf(key, counted, wide, rs, k)) \in Nat
<1>1. IsFiniteSet(1 .. Len(rs))
  BY LenProperties, FS_Interval
<1>2. /\ FindsOf(key, counted, rs, k) \subseteq 1 .. Len(rs)
      /\ WideOf(key, counted, wide, rs, k) \subseteq 1 .. Len(rs)
  BY DEF FindsOf, WideOf
<1> QED BY <1>1, <1>2, FS_Subset, FS_CardinalityType

LEMMA AppendedFinds ==
  ASSUME NEW key, NEW counted, NEW wide, NEW T, NEW rs \in Seq(T), NEW r \in T, NEW k
  PROVE  /\ FindsOf(key, counted, Append(rs, r), k) =
               IF r \in counted /\ key[r] = k THEN FindsOf(key, counted, rs, k) \cup {Len(rs) + 1}
               ELSE FindsOf(key, counted, rs, k)
         /\ WideOf(key, counted, wide, Append(rs, r), k) =
               IF r \in counted /\ key[r] = k /\ r \in wide
               THEN WideOf(key, counted, wide, rs, k) \cup {Len(rs) + 1}
               ELSE WideOf(key, counted, wide, rs, k)
<1> DEFINE n == Len(rs)
           t == Append(rs, r)
<1>1. n \in Nat
  BY LenProperties
<1>2. Len(t) = n + 1 /\ t[n + 1] = r /\ \A i \in 1 .. n : t[i] = rs[i]
  BY AppendProperties
<1>3. 1 .. n + 1 = (1 .. n) \cup {n + 1}
  <2> HIDE DEF n
  <2> QED BY <1>1
<1> HIDE DEF t
<1>4. \A i \in 1 .. n : i # n + 1
  <2> HIDE DEF n
  <2> QED BY <1>1
<1>5. FindsOf(key, counted, t, k) = {i \in 1 .. n + 1 : t[i] \in counted /\ key[t[i]] = k}
  BY <1>2 DEF FindsOf
<1>6. FindsOf(key, counted, rs, k) = {i \in 1 .. n : rs[i] \in counted /\ key[rs[i]] = k}
  BY DEF FindsOf
<1> HIDE DEF n
<1>7. FindsOf(key, counted, t, k) = IF r \in counted /\ key[r] = k
                                    THEN FindsOf(key, counted, rs, k) \cup {n + 1}
                                    ELSE FindsOf(key, counted, rs, k)
  BY <1>2, <1>3, <1>4, <1>5, <1>6
<1>8. \A i \in FindsOf(key, counted, rs, k) : t[i] = rs[i] /\ i # n + 1
  BY <1>2, <1>4, <1>6
<1>9. WideOf(key, counted, wide, t, k) = IF r \in counted /\ key[r] = k /\ r \in wide
                                         THEN WideOf(key, counted, wide, rs, k) \cup {n + 1}
                                         ELSE WideOf(key, counted, wide, rs, k)
  <2> DEFINE old == FindsOf(key, counted, rs, k)
             new == FindsOf(key, counted, t, k)
  <2>1. \A i \in old : t[i] = rs[i] /\ i # n + 1
    BY <1>8
  <2>2. new = IF r \in counted /\ key[r] = k THEN old \cup {n + 1} ELSE old
    BY <1>7
  <2>3. WideOf(key, counted, wide, rs, k) = {i \in old : rs[i] \in wide}
    BY DEF WideOf
  <2>4. WideOf(key, counted, wide, t, k) = {i \in new : t[i] \in wide}
    BY DEF WideOf
  <2> HIDE DEF old, new
  <2>5. CASE r \in counted /\ key[r] = k
    BY <1>2, <2>1, <2>2, <2>3, <2>4, <2>5
  <2>6. CASE ~(r \in counted /\ key[r] = k)
    BY <2>1, <2>2, <2>3, <2>4, <2>6
  <2> QED BY <2>5, <2>6
<1> QED BY <1>7, <1>9 DEF n, t

(* Two sequences joined are not empty when one of them is not. *)
LEMMA LongerConcat ==
  ASSUME NEW T, NEW s \in Seq(T), NEW u \in Seq(T)
  PROVE  s \o u # <<>> <=> (s # <<>> \/ u # <<>>)
<1>1. Len(s) \in Nat /\ Len(u) \in Nat /\ Len(s \o u) = Len(s) + Len(u)
  BY LenProperties, ConcatProperties
<1>2. \A r \in Seq(T) : r = <<>> <=> Len(r) = 0
  BY EmptySeq
<1>3. s \o u \in Seq(T)
  BY ConcatProperties
<1> QED BY <1>1, <1>2, <1>3
=============================================================================
