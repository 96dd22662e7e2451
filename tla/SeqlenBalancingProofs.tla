------------------------ MODULE SeqlenBalancingProofs ------------------------
(***************************************************************************)
(* Proofs about the division of rows among ranks and micro-batches         *)
(* (seqlen_balancing.py), for any number of rows, any load of each and any *)
(* number of parts: whatever merges the largest differencing method makes, *)
(* each part gets a row and each row goes to one part, and parts of equal  *)
(* size are about as even as rows of similar work.                         *)
(*                                                                         *)
(* First the operators on sequences: recursion, FlattenSeq, permutations,  *)
(* SortedBy.  Then the loop of karmarkar_karp, along the invariant of its  *)
(* heap: GoodHeap, "the States have every row once, and none has a filled  *)
(* Set behind one without rows".  Then what is made of the parts.          *)
(***************************************************************************)
EXTENDS SeqlenBalancing, FiniteSetTheorems, SequenceTheorems, WellFoundedInduction, TLAPS

-----------------------------------------------------------------------------
(***************************************************************************)
(* Recursion over 0 .. n.                                                  *)
(***************************************************************************)

\* A set of numbers that is not empty has a smallest one.
LEMMA SmallestNumber ==
    ASSUME NEW S \in SUBSET Nat, S # {}
    PROVE  \E n \in S : \A m \in S : n <= m
<1> DEFINE R == OpToRel(<, Nat)
<1>1. PICK n \in S : \A m \in S : ~(<<m, n>> \in R)
  BY NatLessThanWellFounded, WFMin
<1>2. \A m \in S : m \in Nat /\ n \in Nat /\ ~(m < n)
  BY <1>1 DEF OpToRel
<1>3. \A m \in S : n <= m
  BY <1>2
<1> QED
  BY <1>3

\* f starts with base, and its i-th value is made of the one before by F.
Iterates(f, base, F, n) ==
    /\ f[0] = base
    /\ \A i \in 1..n : f[i] = F[<<i, f[i - 1]>>]

\* Such a function exists.
LEMMA Iteration ==
    ASSUME NEW S, NEW base \in S, NEW N \in Nat, NEW F \in [(1..N) \X S -> S]
    PROVE  \E f \in [0..N -> S] : Iterates(f, base, F, N)
<1> DEFINE Missing == {n \in 0..N : ~ \E f \in [0..n -> S] : Iterates(f, base, F, n)}
<1>0. (\E f \in [0..N -> S] : Iterates(f, base, F, N)) \/ N \in Missing
  <2>1. N \in 0..N
    OBVIOUS
  <2>2. QED BY <2>1
<1>1. SUFFICES ASSUME Missing # {} PROVE FALSE
  <2> HIDE DEF Missing
  <2>1. QED BY <1>0
<1>2. PICK n \in Missing : \A m \in Missing : n <= m
  <2>1. Missing \in SUBSET Nat
    OBVIOUS
  <2> HIDE DEF Missing
  <2>2. QED BY <1>1, <2>1, SmallestNumber
<1>3. n \in 0..N /\ ~ \E f \in [0..n -> S] : Iterates(f, base, F, n)
  OBVIOUS
<1>4. CASE n = 0
  <2> DEFINE f == [i \in 0..0 |-> base]
  <2>1. f \in [0..0 -> S] /\ f[0] = base
    OBVIOUS
  <2> HIDE DEF f
  <2>2. Iterates(f, base, F, 0)
    BY <2>1 DEF Iterates
  <2>3. QED BY <2>1, <2>2, <1>3, <1>4
<1>5. CASE n > 0
  <2>1. n - 1 \in 0..N /\ n - 1 \notin Missing
    BY <1>2, <1>3, <1>5
  <2>2. PICK g \in [0..n - 1 -> S] : Iterates(g, base, F, n - 1)
    BY <2>1
  <2> DEFINE f == [i \in 0..n |-> IF i = n THEN F[<<n, g[n - 1]>>] ELSE g[i]]
  <2>3. g[n - 1] \in S /\ n \in 1..N
    BY <1>3, <1>5
  <2>4. F[<<n, g[n - 1]>>] \in S
    BY <2>3
  <2>5. f \in [0..n -> S]
    BY <2>4, <1>3, <1>5
  <2>6. f[0] = base
    BY <2>2, <1>3, <1>5 DEF Iterates
  <2>7. ASSUME NEW i \in 1..n PROVE f[i] = F[<<i, f[i - 1]>>]
    <3>1. i \in 0..n /\ i - 1 \in 0..n /\ i - 1 # n
      BY <1>3
    <3>2. f[i - 1] = g[i - 1]
      BY <3>1
    <3>3. CASE i = n
      BY <3>1, <3>2, <3>3
    <3>4. CASE i # n
      <4>1. i \in 1..n - 1
        BY <3>4, <1>3
      <4>2. g[i] = F[<<i, g[i - 1]>>]
        BY <4>1, <2>2 DEF Iterates
      <4>3. f[i] = g[i]
        BY <3>1, <3>4
      <4>4. QED BY <4>2, <4>3, <3>2
    <3>5. QED BY <3>3, <3>4
  <2> HIDE DEF f
  <2>8. Iterates(f, base, F, n)
    BY <2>6, <2>7 DEF Iterates
  <2>9. QED BY <2>5, <2>8, <1>3
<1>6. QED BY <1>3, <1>4, <1>5

-----------------------------------------------------------------------------
(***************************************************************************)
(* FlattenSeq.                                                             *)
(***************************************************************************)
Cat(s, t) == s \o t

\* The concatenation of the first k sequences.
FlatEquation(f, ss) ==
    f = [i \in 1..Len(ss) |-> IF i = 1 THEN ss[i] ELSE f[i - 1] \o ss[i]]
Flat(ss, k) == IF k = 0 THEN <<>> ELSE (CHOOSE f : FlatEquation(f, ss))[k]

\* Such a function exists.
LEMMA FlatEquationHolds ==
    ASSUME NEW T, NEW ss \in Seq(Seq(T))
    PROVE  LET f == CHOOSE f : FlatEquation(f, ss)
           IN  FlatEquation(f, ss)
<1> DEFINE N == Len(ss)
           S == Seq(T)
           F == [p \in (1..N) \X S |-> p[2] \o ss[p[1]]]
<1>1. N \in Nat /\ DOMAIN ss = 1..N /\ \A i \in 1..N : ss[i] \in S
  OBVIOUS
<1>2. ASSUME NEW i \in 1..N, NEW s \in S
      PROVE  F[<<i, s>>] = s \o ss[i]
  <2>1. <<i, s>> \in (1..N) \X S /\ <<i, s>>[1] = i /\ <<i, s>>[2] = s
    OBVIOUS
  <2>2. F[<<i, s>>] = <<i, s>>[2] \o ss[<<i, s>>[1]]
    BY <2>1
  <2>3. QED BY <2>1, <2>2
<1>3. F \in [(1..N) \X S -> S]
  <2>1. \A p \in (1..N) \X S : p[2] \o ss[p[1]] \in S
    BY <1>1
  <2>2. QED BY <2>1
<1>4. <<>> \in S
  OBVIOUS
<1> HIDE DEF F, S
<1>5. PICK g \in [0..N -> S] : Iterates(g, <<>>, F, N)
  BY <1>1, <1>3, <1>4, Iteration
<1> DEFINE h == [i \in 1..N |-> g[i]]
           e == [i \in 1..N |-> IF i = 1 THEN ss[i] ELSE h[i - 1] \o ss[i]]
<1>6. ASSUME NEW i \in 1..N PROVE h[i] = e[i]
  <2>1. i - 1 \in 0..N
    BY <1>1
  <2>2. g[i - 1] \in S
    BY <2>1
  <2>3. g[i] = g[i - 1] \o ss[i]
    BY <1>5, <1>2, <2>2 DEF Iterates
  <2>4. CASE i = 1
    <3>1. g[0] = <<>>
      BY <1>5 DEF Iterates
    <3>2. ss[i] \in Seq(T)
      BY <1>1 DEF S
    <3>3. <<>> \o ss[i] = ss[i]
      BY <3>2
    <3>4. e[i] = ss[i] /\ h[i] = g[i] /\ i - 1 = 0
      BY <2>4
    <3> HIDE DEF e, h
    <3>5. g[i] = <<>> \o ss[i]
      BY <2>3, <3>1, <3>4
    <3>6. QED BY <3>3, <3>4, <3>5
  <2>5. CASE i # 1
    <3>1. i - 1 \in 1..N
      BY <1>1, <2>5
    <3>2. h[i - 1] = g[i - 1]
      BY <3>1
    <3>3. e[i] = h[i - 1] \o ss[i]
      BY <2>5
    <3>4. QED BY <2>3, <3>2, <3>3
  <2>6. QED BY <2>4, <2>5
<1>7. h = e
  <2>1. DOMAIN h = 1..N /\ DOMAIN e = 1..N
    OBVIOUS
  <2>2. QED BY <2>1, <1>6
<1> HIDE DEF h
<1>8. FlatEquation(h, ss)
  BY <1>7 DEF FlatEquation
<1>9. QED BY <1>8

\* What FlattenSeq makes of the first k sequences.
LEMMA FlatIs ==
    ASSUME NEW T, NEW ss \in Seq(Seq(T))
    PROVE  /\ FlattenSeq(ss) = Flat(ss, Len(ss))
           /\ Flat(ss, 0) = <<>>
           /\ \A k \in 1..Len(ss) : Flat(ss, k) = Cat(Flat(ss, k - 1), ss[k])
           /\ \A k \in 0..Len(ss) : Flat(ss, k) \in Seq(T)
<1> DEFINE f == CHOOSE f : FlatEquation(f, ss)
           N == Len(ss)
<1>1. N \in Nat /\ \A i \in 1..N : ss[i] \in Seq(T)
  OBVIOUS
<1>2. FlatEquation(f, ss)
  BY FlatEquationHolds
<1>3. FlattenSeq(ss) = Flat(ss, N)
  <2>1. CASE N = 0
    <3>1. ss = <<>>
      BY <2>1
    <3>2. QED BY <3>1, <2>1 DEF FlattenSeq, Flat
  <2>2. CASE N # 0
    <3>1. FlattenSeq(ss) = f[N]
      BY <2>2 DEF FlattenSeq, FlatEquation
    <3>2. QED BY <3>1, <2>2 DEF Flat
  <2>3. QED BY <2>1, <2>2
<1>4. Flat(ss, 0) = <<>>
  BY DEF Flat
<1>5. ASSUME NEW k \in 1..N
      PROVE  Flat(ss, k) = IF k = 1 THEN ss[k] ELSE Flat(ss, k - 1) \o ss[k]
  <2>1. f[k] = IF k = 1 THEN ss[k] ELSE f[k - 1] \o ss[k]
    BY <1>2 DEF FlatEquation
  <2>2. k # 0 /\ (k # 1 => k - 1 # 0)
    BY <1>1
  <2>3. QED BY <2>1, <2>2 DEF Flat
<1>6. ASSUME NEW k \in 1..N
      PROVE  Flat(ss, k) = Cat(Flat(ss, k - 1), ss[k])
  <2>1. CASE k = 1
    <3>1. <<>> \o ss[k] = ss[k]
      BY <1>1
    <3>2. Flat(ss, k - 1) = <<>>
      BY <1>4, <2>1
    <3>3. QED BY <3>1, <3>2, <2>1, <1>5 DEF Cat
  <2>2. CASE k # 1
    BY <2>2, <1>5 DEF Cat
  <2>3. QED BY <2>1, <2>2
<1>7. ASSUME NEW n \in 0..N PROVE Flat(ss, n) \in Seq(T)
  <2> DEFINE Bad == {k \in 0..N : Flat(ss, k) \notin Seq(T)}
  <2>1. SUFFICES ASSUME Bad # {} PROVE FALSE
    OBVIOUS
  <2>2. PICK k \in Bad : \A m \in Bad : k <= m
    <3>1. Bad \in SUBSET Nat
      OBVIOUS
    <3> HIDE DEF Bad
    <3>2. QED BY <2>1, <3>1, SmallestNumber
  <2>3. k \in 0..N /\ Flat(ss, k) \notin Seq(T)
    OBVIOUS
  <2>4. CASE k = 0
    <3>1. <<>> \in Seq(T)
      OBVIOUS
    <3>2. QED BY <3>1, <2>3, <2>4, <1>4
  <2>5. CASE k > 0
    <3>1. k - 1 \in 0..N /\ k - 1 \notin Bad /\ k \in 1..N
      BY <2>2, <2>3, <2>5
    <3>2. Flat(ss, k - 1) \in Seq(T) /\ ss[k] \in Seq(T)
      BY <3>1, <1>1
    <3>3. Flat(ss, k - 1) \o ss[k] \in Seq(T)
      BY <3>2
    <3>4. QED BY <3>1, <3>3, <1>6, <2>3 DEF Cat
  <2>6. QED BY <2>3, <2>4, <2>5
<1>8. QED BY <1>3, <1>4, <1>6, <1>7

(***************************************************************************)
(* The pieces of a sequence put together: piece k goes from the place      *)
(* after cut[k - 1] to cut[k].                                             *)
(***************************************************************************)
Pieces(ss, s, n, cut) ==
    /\ cut \in [0..n -> 0..Len(s)]
    /\ cut[0] = 0
    /\ \A k \in 1..n : cut[k - 1] <= cut[k]
    /\ ss = [k \in 1..n |-> SubSeq(s, cut[k - 1] + 1, cut[k])]
Prefix(s, n) == SubSeq(s, 1, n)

\* The concatenation of the pieces of a sequence is the sequence.
LEMMA FlatOfPieces ==
    ASSUME NEW T, NEW s \in Seq(T), NEW n \in Nat, NEW cut, NEW ss,
           Pieces(ss, s, n, cut)
    PROVE  /\ ss \in Seq(Seq(T)) /\ Len(ss) = n
           /\ \A k \in 0..n : Flat(ss, k) = Prefix(s, cut[k])
<1> USE DEF Prefix
<1>0. /\ cut \in [0..n -> 0..Len(s)]
      /\ cut[0] = 0
      /\ \A k \in 1..n : cut[k - 1] <= cut[k]
      /\ ss = [k \in 1..n |-> SubSeq(s, cut[k - 1] + 1, cut[k])]
  BY DEF Pieces
<1>1. Len(s) \in Nat /\ \A i \in 1..Len(s) : s[i] \in T
  OBVIOUS
<1>2. ASSUME NEW k \in 1..n
      PROVE  /\ cut[k - 1] \in 0..Len(s) /\ cut[k] \in 0..Len(s) /\ cut[k - 1] <= cut[k]
             /\ ss[k] = SubSeq(s, cut[k - 1] + 1, cut[k])
             /\ ss[k] \in Seq(T)
  <2>1. k - 1 \in 0..n /\ k \in 0..n
    OBVIOUS
  <2>2. cut[k - 1] \in 0..Len(s) /\ cut[k] \in 0..Len(s)
    BY <1>0, <2>1
  <2>3. \A i \in cut[k - 1] + 1..cut[k] : s[i] \in T
    BY <2>2, <1>1
  <2>4. SubSeq(s, cut[k - 1] + 1, cut[k]) \in Seq(T)
    <3> DEFINE a == cut[k - 1] + 1
               b == cut[k]
    <3>1. a \in Int /\ b \in Int
      BY <2>2
    <3>2. \A i \in a..b : s[i] \in T
      BY <2>3
    <3> HIDE DEF a, b
    <3>3. SubSeq(s, a, b) \in Seq(T)
      BY <3>1, <3>2, SubSeqProperties
    <3>4. QED BY <3>3 DEF a, b
  <2>5. QED BY <1>0, <2>2, <2>4
<1>3. ss \in Seq(Seq(T)) /\ Len(ss) = n
  <2> DEFINE U == Seq(T)
  <2>1. ss \in [1..n -> U]
    BY <1>0, <1>2
  <2> HIDE DEF U
  <2>2. ss \in Seq(U) /\ Len(ss) = n
    BY <2>1
  <2>3. QED BY <2>2 DEF U
<1>4. ASSUME NEW k0 \in 0..n PROVE Flat(ss, k0) = SubSeq(s, 1, cut[k0])
  <2> DEFINE Bad == {k \in 0..n : Flat(ss, k) # SubSeq(s, 1, cut[k])}
  <2>1. SUFFICES ASSUME Bad # {} PROVE FALSE
    OBVIOUS
  <2>2. PICK k \in Bad : \A m \in Bad : k <= m
    <3>1. Bad \in SUBSET Nat
      OBVIOUS
    <3> HIDE DEF Bad
    <3>2. QED BY <2>1, <3>1, SmallestNumber
  <2>3. k \in 0..n /\ Flat(ss, k) # SubSeq(s, 1, cut[k])
    OBVIOUS
  <2>4. CASE k = 0
    <3>1. Flat(ss, 0) = <<>>
      BY <1>3, FlatIs
    <3>2. SubSeq(s, 1, 0) = <<>>
      BY SubSeqEmpty
    <3>3. QED BY <1>0, <2>3, <2>4, <3>1, <3>2
  <2>5. CASE k > 0
    <3>1. k - 1 \in 0..n /\ k \in 1..n
      BY <2>3, <2>5
    <3>2. Flat(ss, k - 1) = SubSeq(s, 1, cut[k - 1])
      <4>1. k - 1 \notin Bad
        <5> HIDE DEF Bad
        <5>1. QED BY <2>2, <2>3, <2>5
      <4>2. QED BY <3>1, <4>1
    <3>3. Flat(ss, k) = Cat(Flat(ss, k - 1), ss[k])
      BY <1>3, <3>1, FlatIs
    <3> DEFINE a == cut[k - 1]
               b == cut[k]
    <3> HIDE DEF a, b
    <3>4. a \in 0..Len(s) /\ b \in a..Len(s) /\ ss[k] = SubSeq(s, a + 1, b)
      <4>1. /\ cut[k - 1] \in 0..Len(s) /\ cut[k] \in 0..Len(s) /\ cut[k - 1] <= cut[k]
            /\ ss[k] = SubSeq(s, cut[k - 1] + 1, cut[k])
        BY <1>2, <3>1
      <4>2. /\ a \in 0..Len(s) /\ b \in 0..Len(s) /\ a <= b
            /\ ss[k] = SubSeq(s, a + 1, b)
        BY <4>1 DEF a, b
      <4>3. Len(s) \in Nat
        OBVIOUS
      <4>4. \A l \in Nat : a \in 0..l /\ b \in 0..l /\ a <= b => b \in a..l
        OBVIOUS
      <4>5. QED BY <4>2, <4>3, <4>4
    <3>5. SubSeq(s, 1, a) \o SubSeq(s, a + 1, b) = SubSeq(s, 1, b)
      <4>1. 1 \in 1..Len(s) + 1 /\ a \in 1 - 1..Len(s)
        BY <3>4, <1>1
      <4>2. QED BY <3>4, <4>1, ConcatAdjacentSubSeq
    <3>6. QED BY <2>3, <3>2, <3>3, <3>4, <3>5 DEF a, b, Cat
  <2>6. QED BY <2>3, <2>4, <2>5
<1>5. QED BY <1>3, <1>4

-----------------------------------------------------------------------------
(***************************************************************************)
(* Permutations of 1 .. n.                                                 *)
(***************************************************************************)
Permutes(p, n) ==
    /\ p \in [1..n -> 1..n]
    /\ \A i, j \in 1..n : p[i] = p[j] => i = j
    /\ \A k \in 1..n : \E i \in 1..n : p[i] = k

\* What maps 1 .. n into itself one to one reaches every number.
LEMMA OneToOneIsOnto ==
    ASSUME NEW n \in Nat, NEW p \in [1..n -> 1..n],
           \A i, j \in 1..n : p[i] = p[j] => i = j
    PROVE  Permutes(p, n)
<1> DEFINE D == 1..n
<1>1. IsFiniteSet(D)
  BY FS_Interval
<1>2. p \in Injection(D, D)
  BY DEF Injection, IsInjective
<1>3. p \in Surjection(D, D)
  <2>1. Cardinality(D) = Cardinality(D)
    OBVIOUS
  <2>2. QED BY <1>1, <1>2, <2>1, FS_Injection
<1>4. \A k \in D : \E i \in D : p[i] = k
  BY <1>3 DEF Surjection
<1>5. QED BY <1>4 DEF Permutes

\* The inverse of a permutation.
Undone(p, n) == [k \in 1..n |-> CHOOSE i \in 1..n : p[i] = k]

\* The inverse is a permutation too, and undoes the first one.
LEMMA Inverted ==
    ASSUME NEW n \in Nat, NEW p, Permutes(p, n)
    PROVE  /\ Permutes(Undone(p, n), n)
           /\ \A k \in 1..n : p[Undone(p, n)[k]] = k /\ Undone(p, n)[p[k]] = k
<1> DEFINE q == Undone(p, n)
<1>1. ASSUME NEW k \in 1..n PROVE q[k] \in 1..n /\ p[q[k]] = k
  BY DEF Permutes, Undone
<1>2. q \in [1..n -> 1..n]
  BY <1>1 DEF Undone
<1> HIDE DEF q
<1>3. \A i, j \in 1..n : q[i] = q[j] => i = j
  BY <1>1
<1>4. \A k \in 1..n : q[p[k]] = k
  <2> SUFFICES ASSUME NEW k \in 1..n PROVE q[p[k]] = k
    OBVIOUS
  <2>1. p[k] \in 1..n
    BY DEF Permutes
  <2>2. q[p[k]] \in 1..n /\ p[q[p[k]]] = p[k]
    BY <1>1, <2>1
  <2>3. QED BY <2>2 DEF Permutes
<1>5. Permutes(q, n)
  BY <1>2, <1>3, OneToOneIsOnto
<1>6. QED BY <1>1, <1>4, <1>5 DEF q

-----------------------------------------------------------------------------
(***************************************************************************)
(* SortedBy.                                                               *)
(***************************************************************************)
Keys == Int \X Int \X Int

\* The order of the keys is a strict and total one.
LEMMA LessIsAnOrder ==
    ASSUME NEW a \in Keys, NEW b \in Keys, NEW c \in Keys
    PROVE  /\ ~Less(a, a)
           /\ Less(a, b) /\ Less(b, c) => Less(a, c)
           /\ Less(a, b) \/ Less(b, a) \/ a = b
<1>1. a = <<a[1], a[2], a[3]>> /\ b = <<b[1], b[2], b[3]>>
  BY DEF Keys
<1>2. /\ a[1] \in Int /\ a[2] \in Int /\ a[3] \in Int
      /\ b[1] \in Int /\ b[2] \in Int /\ b[3] \in Int
      /\ c[1] \in Int /\ c[2] \in Int /\ c[3] \in Int
  BY DEF Keys
<1>3. ~Less(a, a)
  BY <1>2 DEF Less
<1>4. Less(a, b) /\ Less(b, c) => Less(a, c)
  BY <1>2 DEF Less
<1>5. Less(a, b) \/ Less(b, a) \/ (a[1] = b[1] /\ a[2] = b[2] /\ a[3] = b[3])
  BY <1>2 DEF Less
<1>6. QED BY <1>1, <1>3, <1>4, <1>5

\* The places that come before place i.
PlacesBefore(s, key, i) ==
    {j \in DOMAIN s : Less(key[j], key[i]) \/ (key[j] = key[i] /\ j < i)}

\* t is s in the order of the keys, the k-th element being that of place p[k].
SortedAs(s, key, p, t) ==
    /\ Permutes(p, Len(s))
    /\ t = [k \in 1..Len(s) |-> s[p[k]]]
    /\ \A k, l \in 1..Len(s) : k < l => ~Less(key[p[l]], key[p[k]])

\* SortedBy sorts.
LEMMA SortedByIsSorted ==
    ASSUME NEW T, NEW s \in Seq(T), NEW key \in [1..Len(s) -> Keys]
    PROVE  \E p : SortedAs(s, key, p, SortedBy(s, key))
<1> DEFINE n == Len(s)
           D == 1..n
           before(i) == PlacesBefore(s, key, i)
<1>1. n \in Nat /\ DOMAIN s = D /\ IsFiniteSet(D) /\ Cardinality(D) = n
  <2>1. n \in Nat /\ DOMAIN s = D
    OBVIOUS
  <2>2. IsFiniteSet(D) /\ Cardinality(D) = n
    <3>1. 1 \in Int /\ n \in Int
      BY <2>1
    <3>2. IsFiniteSet(1..n) /\ Cardinality(1..n) = IF 1 > n THEN 0 ELSE n - 1 + 1
      BY <3>1, FS_Interval
    <3>3. QED BY <2>1, <3>2
  <2>3. QED BY <2>1, <2>2
<1>2. \A i \in D : key[i] \in Keys
  OBVIOUS
<1> HIDE DEF n
<1>3. ASSUME NEW i \in D, NEW j \in D
      PROVE  j \in before(i) <=> Less(key[j], key[i]) \/ (key[j] = key[i] /\ j < i)
  BY <1>1 DEF PlacesBefore
<1>4. ASSUME NEW i \in D
      PROVE  /\ before(i) \in SUBSET D /\ IsFiniteSet(before(i)) /\ i \notin before(i)
             /\ Cardinality(before(i)) \in 0..n - 1
  <2>1. before(i) \in SUBSET D
    BY <1>1 DEF PlacesBefore
  <2>2. i \notin before(i)
    <3>1. ~Less(key[i], key[i])
      BY <1>2, LessIsAnOrder
    <3>2. ~(i < i)
      BY <1>1
    <3>3. QED BY <1>3, <3>1, <3>2
  <2> HIDE DEF before
  <2>3. IsFiniteSet(before(i)) /\ Cardinality(before(i)) <= n
           /\ (Cardinality(before(i)) = n => before(i) = D)
    BY <1>1, <2>1, FS_Subset
  <2>4. Cardinality(before(i)) \in Nat
    BY <2>3, FS_CardinalityType
  <2>5. Cardinality(before(i)) # n
    BY <2>2, <2>3
  <2>6. QED BY <1>1, <2>1, <2>2, <2>3, <2>4, <2>5
<1>5. ASSUME NEW i \in D, NEW j \in D, i \in before(j)
      PROVE  Cardinality(before(i)) < Cardinality(before(j))
  <2>1. before(i) \subseteq before(j)
    <3> SUFFICES ASSUME NEW h \in D, h \in before(i) PROVE h \in before(j)
      BY <1>4
    <3>1. Less(key[h], key[i]) \/ (key[h] = key[i] /\ h < i)
      BY <1>3
    <3>2. Less(key[i], key[j]) \/ (key[i] = key[j] /\ i < j)
      BY <1>3, <1>5
    <3>3. key[h] \in Keys /\ key[i] \in Keys /\ key[j] \in Keys
      BY <1>2
    <3>4. Less(key[h], key[i]) /\ Less(key[i], key[j]) => Less(key[h], key[j])
      BY <3>3, LessIsAnOrder
    <3>5. h < i /\ i < j => h < j
      BY <1>1
    <3>6. Less(key[h], key[j]) \/ (key[h] = key[j] /\ h < j)
      BY <3>1, <3>2, <3>4, <3>5
    <3>7. QED BY <3>6, <1>3
  <2>2. /\ IsFiniteSet(before(i)) /\ IsFiniteSet(before(j)) /\ i \notin before(i)
        /\ Cardinality(before(i)) \in Nat /\ Cardinality(before(j)) \in Nat
    BY <1>1, <1>4
  <2> HIDE DEF before
  <2>3. Cardinality(before(i)) <= Cardinality(before(j))
           /\ (Cardinality(before(j)) = Cardinality(before(i)) => before(j) = before(i))
    BY <2>1, <2>2, FS_Subset
  <2>4. QED BY <2>2, <2>3, <1>5
<1>6. ASSUME NEW i \in D, NEW j \in D, i # j
      PROVE  i \in before(j) \/ j \in before(i)
  <2>1. key[i] \in Keys /\ key[j] \in Keys
    BY <1>2
  <2>2. Less(key[i], key[j]) \/ Less(key[j], key[i]) \/ key[i] = key[j]
    BY <2>1, LessIsAnOrder
  <2>3. i < j \/ j < i
    BY <1>1, <1>6
  <2>4. QED BY <1>3, <2>2, <2>3
<1> DEFINE rank == [i \in D |-> Cardinality(before(i)) + 1]
<1>7. rank \in [D -> D]
  <2>1. ASSUME NEW i \in D PROVE Cardinality(before(i)) + 1 \in D
    <3>1. Cardinality(before(i)) \in 0..n - 1
      BY <1>4
    <3>2. QED BY <1>1, <3>1
  <2>2. QED BY <2>1
<1>8. \A i, j \in D : rank[i] = rank[j] => i = j
  <2> SUFFICES ASSUME NEW i \in D, NEW j \in D, i # j PROVE rank[i] # rank[j]
    OBVIOUS
  <2>1. Cardinality(before(i)) \in Nat /\ Cardinality(before(j)) \in Nat
    BY <1>1, <1>4
  <2>2. Cardinality(before(i)) # Cardinality(before(j))
    BY <1>5, <1>6, <2>1
  <2>3. QED BY <2>1, <2>2
<1>9. Permutes(rank, n)
  <2> HIDE DEF rank
  <2>1. QED BY <1>1, <1>7, <1>8, OneToOneIsOnto
<1> DEFINE p == Undone(rank, n)
<1>10. Permutes(p, n) /\ \A k \in D : rank[p[k]] = k
  <2> HIDE DEF rank
  <2>1. QED BY <1>1, <1>9, Inverted
<1> DEFINE ranks == {<<Cardinality(before(i)) + 1, i>> : i \in DOMAIN s}
           place(k) == (CHOOSE r \in ranks : r[1] = k)[2]
<1>11. ASSUME NEW k \in D PROVE place(k) = p[k]
  <2>1. p[k] \in D /\ rank[p[k]] = k
    BY <1>10 DEF Permutes
  <2> HIDE DEF p
  <2>2. ranks = {<<rank[i], i>> : i \in D}
    BY <1>1
  <2> HIDE DEF ranks, rank
  <2>3. <<k, p[k]>> \in ranks
    BY <2>1, <2>2
  <2>4. ASSUME NEW r \in ranks, r[1] = k PROVE r = <<k, p[k]>>
    <3>1. PICK i \in D : r = <<rank[i], i>>
      BY <2>2
    <3>2. rank[i] = k
      BY <3>1, <2>4
    <3>3. i = p[k]
      BY <3>2, <2>1, <1>8
    <3>4. QED BY <3>1, <3>2, <3>3
  <2>5. (CHOOSE r \in ranks : r[1] = k) = <<k, p[k]>>
    BY <2>3, <2>4
  <2>6. <<k, p[k]>>[2] = p[k]
    OBVIOUS
  <2>7. QED BY <2>5, <2>6
<1> DEFINE f == [k \in DOMAIN s |-> s[place(k)]]
<1>12. SortedBy(s, key) = SubSeq(f, 1, n)
  BY DEF SortedBy, PlacesBefore, n
<1>13. f = [k \in D |-> s[p[k]]]
  <2> HIDE DEF place, p
  <2>1. QED BY <1>1, <1>11
<1> HIDE DEF f, p, rank, place, ranks
<1>14. \A k \in D : s[p[k]] \in T
  <2>1. \A i \in D : s[i] \in T
    BY <1>1 DEF n
  <2>2. \A k \in D : p[k] \in D
    BY <1>10 DEF Permutes
  <2>3. QED BY <2>1, <2>2
<1>15. f \in Seq(T) /\ Len(f) = n
  <2>1. f \in [1..n -> T]
    BY <1>13, <1>14
  <2>2. QED BY <1>1, <2>1
<1>16. SortedBy(s, key) = [k \in D |-> s[p[k]]]
  BY <1>12, <1>13, <1>15, SubSeqFull
<1>17. ASSUME NEW k \in D, NEW l \in D, k < l
       PROVE  ~Less(key[p[l]], key[p[k]])
  <2> SUFFICES ASSUME Less(key[p[l]], key[p[k]]) PROVE FALSE
    OBVIOUS
  <2>1. p[k] \in D /\ p[l] \in D /\ rank[p[k]] = k /\ rank[p[l]] = l
    BY <1>10 DEF Permutes
  <2>2. p[l] \in before(p[k])
    BY <1>3, <2>1
  <2>3. Cardinality(before(p[l])) < Cardinality(before(p[k]))
    BY <1>5, <2>1, <2>2
  <2>4. Cardinality(before(p[l])) + 1 = l /\ Cardinality(before(p[k])) + 1 = k
    BY <2>1 DEF rank
  <2>5. Cardinality(before(p[l])) \in Int /\ Cardinality(before(p[k])) \in Int
    BY <1>1, <1>4, <2>1
  <2>6. QED BY <1>17, <2>3, <2>4, <2>5, <1>1
<1>18. SortedAs(s, key, p, SortedBy(s, key))
  BY <1>10, <1>16, <1>17 DEF SortedAs, n
<1>19. QED BY <1>18

-----------------------------------------------------------------------------
(***************************************************************************)
(* SumFunction.                                                            *)
(***************************************************************************)
AnyOf(s) == CHOOSE x \in s : TRUE

\* What the sum over the sets C is defined by.
SumEquation(g, f, C) ==
    g = [s \in C |-> IF s = {} THEN 0 ELSE f[AnyOf(s)] + g[s \ {AnyOf(s)}]]

\* The library's sum, by that equation.
LEMMA SumIs ==
    ASSUME NEW f
    PROVE  SumFunction(f) = (CHOOSE g : SumEquation(g, f, SUBSET DOMAIN f))[DOMAIN f]
BY DEF SumFunction, SumFunctionOnSet, FoldFunctionOnSet, MapThenFoldSet, SumEquation,
       AnyOf

\* Such a function exists.
LEMMA SumExists ==
    ASSUME NEW n \in Nat, NEW f \in [1..n -> Nat]
    PROVE  \E g \in [SUBSET (1..n) -> Nat] : SumEquation(g, f, SUBSET (1..n))
<1> DEFINE D == 1..n
           P == SUBSET D
           Small(c) == {s \in P : Cardinality(s) <= c}
           Has(c) == \E g \in [Small(c) -> Nat] : SumEquation(g, f, Small(c))
<1>1. IsFiniteSet(D) /\ Cardinality(D) = n
  <2>1. 1 \in Int /\ n \in Int
    OBVIOUS
  <2>2. IsFiniteSet(1..n) /\ Cardinality(1..n) = IF 1 > n THEN 0 ELSE n - 1 + 1
    BY <2>1, FS_Interval
  <2>3. QED BY <2>2
<1>2. f \in [D -> Nat]
  OBVIOUS
<1> HIDE DEF D
<1>3. ASSUME NEW s \in P PROVE IsFiniteSet(s) /\ Cardinality(s) \in 0..n
  <2>1. IsFiniteSet(s) /\ Cardinality(s) <= Cardinality(D)
    BY <1>1, FS_Subset
  <2>2. Cardinality(s) \in Nat
    BY <2>1, FS_CardinalityType
  <2>3. QED BY <1>1, <2>1, <2>2
<1>4. ASSUME NEW s \in P PROVE Cardinality(s) = 0 <=> s = {}
  BY <1>3, FS_EmptySet
<1>5. ASSUME NEW s \in P, s # {}
      PROVE  /\ AnyOf(s) \in D /\ s \ {AnyOf(s)} \in P
             /\ Cardinality(s \ {AnyOf(s)}) = Cardinality(s) - 1
  <2>1. AnyOf(s) \in s
    BY <1>5 DEF AnyOf
  <2>2. Cardinality(s \ {AnyOf(s)}) = Cardinality(s) - 1
    BY <1>3, <2>1, FS_RemoveElement
  <2>3. QED BY <2>1, <2>2
<1> HIDE DEF P
<1>6. Has(0)
  <2> DEFINE g == [s \in Small(0) |-> 0]
  <2>1. ASSUME NEW s \in Small(0) PROVE s = {}
    <3>1. s \in P /\ Cardinality(s) <= 0
      OBVIOUS
    <3>2. QED BY <1>3, <1>4, <3>1
  <2>2. g \in [Small(0) -> Nat] /\ SumEquation(g, f, Small(0))
    <3> HIDE DEF Small
    <3>1. QED BY <2>1 DEF SumEquation
  <2>3. QED BY <2>2
<1>7. ASSUME NEW c \in 1..n, Has(c - 1) PROVE Has(c)
  <2> DEFINE C == Small(c - 1)
             E == Small(c)
  <2>1. PICK g \in [C -> Nat] : SumEquation(g, f, C)
    BY <1>7
  <2>2. \A s \in C : g[s] = IF s = {} THEN 0 ELSE f[AnyOf(s)] + g[s \ {AnyOf(s)}]
    BY <2>1 DEF SumEquation
  <2>3. ASSUME NEW s \in E
        PROVE  /\ s = {} => s \in C
               /\ s # {} => AnyOf(s) \in D /\ s \ {AnyOf(s)} \in C
    <3>1. s \in P /\ Cardinality(s) <= c
      OBVIOUS
    <3>2. s = {} => Cardinality(s) <= c - 1
      BY <1>4, <3>1
    <3>3. ASSUME s # {} PROVE AnyOf(s) \in D /\ s \ {AnyOf(s)} \in C
      <4> DEFINE t == s \ {AnyOf(s)}
      <4>1. AnyOf(s) \in D /\ t \in P /\ Cardinality(t) = Cardinality(s) - 1
        BY <1>5, <3>1, <3>3
      <4>2. Cardinality(s) \in Nat
        BY <1>3, <3>1
      <4> HIDE DEF t
      <4>3. Cardinality(t) <= c - 1
        BY <3>1, <4>1, <4>2
      <4>4. t \in C
        BY <4>1, <4>3
      <4>5. QED BY <4>1, <4>4 DEF t
    <3>4. QED BY <3>1, <3>2, <3>3
  <2>4. ASSUME NEW s \in C PROVE s \in E
    <3>1. s \in P /\ Cardinality(s) <= c - 1
      OBVIOUS
    <3>2. Cardinality(s) <= c
      BY <1>3, <3>1
    <3>3. QED BY <3>1, <3>2
  <2> DEFINE h == [s \in E |-> IF s = {} THEN 0 ELSE f[AnyOf(s)] + g[s \ {AnyOf(s)}]]
  <2> HIDE DEF C, E, P
  <2>5. h \in [E -> Nat]
    BY <1>2, <2>1, <2>3
  <2>6. ASSUME NEW s \in C PROVE h[s] = g[s]
    BY <2>2, <2>4
  <2>7. ASSUME NEW s \in E
        PROVE  h[s] = IF s = {} THEN 0 ELSE f[AnyOf(s)] + h[s \ {AnyOf(s)}]
    BY <2>3, <2>6
  <2>8. SumEquation(h, f, E)
    <3> DEFINE k == [s \in E |-> IF s = {} THEN 0 ELSE f[AnyOf(s)] + h[s \ {AnyOf(s)}]]
    <3>1. DOMAIN h = E /\ \A s \in E : h[s] = k[s]
      BY <2>7
    <3>2. h = [s \in E |-> h[s]]
      BY <2>5
    <3> HIDE DEF h
    <3>3. h = k
      BY <3>1, <3>2
    <3>4. QED BY <3>3 DEF SumEquation
  <2> HIDE DEF h
  <2>9. QED BY <2>5, <2>8 DEF E
<1>8. Has(n)
  <2> HIDE DEF Has
  <2> DEFINE Bad == {j \in 0..n : ~Has(j)}
  <2>1. SUFFICES ASSUME Bad # {} PROVE FALSE
    OBVIOUS
  <2>2. PICK j \in Bad : \A i \in Bad : j <= i
    <3>1. Bad \in SUBSET Nat
      OBVIOUS
    <3> HIDE DEF Bad
    <3>2. QED BY <2>1, <3>1, SmallestNumber
  <2>3. j \in 0..n /\ ~Has(j)
    OBVIOUS
  <2>4. j # 0
    BY <1>6, <2>3
  <2>5. j \in 1..n /\ j - 1 \in 0..n /\ ~(j <= j - 1)
    BY <2>3, <2>4
  <2>6. j - 1 \notin Bad
    <3> HIDE DEF Bad
    <3>1. QED BY <2>2, <2>5
  <2>7. Has(j - 1)
    BY <2>5, <2>6
  <2>8. QED BY <1>7, <2>3, <2>5, <2>7
<1>9. Small(n) = P
  <2>1. \A s \in P : Cardinality(s) <= n
    BY <1>3
  <2>2. QED BY <2>1
<1> HIDE DEF Small
<1>10. QED BY <1>8, <1>9 DEF D, P

\* The sum over a set of places.
Total(f, S) == (CHOOSE g : SumEquation(g, f, SUBSET DOMAIN f))[S]

\* What it is defined by.
LEMMA TotalIs ==
    ASSUME NEW n \in Nat, NEW f \in [1..n -> Nat]
    PROVE  /\ SumFunction(f) = Total(f, 1..n)
           /\ Total(f, {}) = 0
           /\ \A S \in SUBSET (1..n) : Total(f, S) \in Nat
           /\ \A S \in SUBSET (1..n) :
                 S # {} => Total(f, S) = f[AnyOf(S)] + Total(f, S \ {AnyOf(S)})
<1> DEFINE D == 1..n
           P == SUBSET D
           g == CHOOSE g : SumEquation(g, f, P)
<1>1. DOMAIN f = D
  OBVIOUS
<1>2. SumFunction(f) = g[D] /\ \A S : Total(f, S) = g[S]
  BY <1>1, SumIs DEF Total
<1>3. PICK k \in [P -> Nat] : SumEquation(k, f, P)
  BY SumExists
<1>4. SumEquation(g, f, P)
  BY <1>3
<1>5. \A s \in P : g[s] = IF s = {} THEN 0 ELSE f[AnyOf(s)] + g[s \ {AnyOf(s)}]
  BY <1>4 DEF SumEquation
<1> HIDE DEF g
<1>6. IsFiniteSet(D)
  BY FS_Interval
<1>7. ASSUME NEW s \in P, s # {}
      PROVE  AnyOf(s) \in D /\ s \ {AnyOf(s)} \in P
  <2>1. AnyOf(s) \in s
    BY <1>7 DEF AnyOf
  <2>2. QED BY <2>1
<1>8. \A s \in P : g[s] \in Nat
  <2> DEFINE Bad == {s \in P : g[s] \notin Nat}
             R == FiniteSubsetsOf(D)
  <2> SUFFICES ASSUME Bad # {} PROVE FALSE
    OBVIOUS
  <2>1. Bad \subseteq R
    <3>1. \A s \in P : IsFiniteSet(s)
      BY <1>6, FS_Subset
    <3>2. QED BY <3>1 DEF FiniteSubsetsOf
  <2>2. PICK s \in Bad : \A t \in Bad : <<t, s>> \notin StrictSubsetOrdering(D)
    <3> HIDE DEF Bad, D
    <3>1. QED BY <2>1, FS_StrictSubsetOrderingWellFounded, WFMin, Zenon
  <2>3. s \in P /\ g[s] \notin Nat
    OBVIOUS
  <2> DEFINE t == s \ {AnyOf(s)}
  <2>4. CASE s = {}
    <3> HIDE DEF P
    <3>1. g[s] = 0
      BY <1>5, <2>3, <2>4
    <3>2. QED BY <2>3, <3>1
  <2>5. CASE s # {}
    <3>1. AnyOf(s) \in D /\ t \in P /\ AnyOf(s) \in s
      BY <1>7, <2>3, <2>5 DEF AnyOf
    <3>2. g[s] = f[AnyOf(s)] + g[t]
      BY <1>5, <2>3, <2>5
    <3>3. f[AnyOf(s)] \in Nat
      BY <3>1
    <3>4. <<t, s>> \in StrictSubsetOrdering(D)
      BY <2>3, <3>1 DEF StrictSubsetOrdering
    <3>5. t \notin Bad
      <4> HIDE DEF Bad, t
      <4>1. QED BY <2>2, <3>4
    <3>6. g[t] \in Nat
      BY <3>1, <3>5
    <3>7. QED BY <2>3, <3>2, <3>3, <3>6
  <2>6. QED BY <2>4, <2>5
<1>9. g[{}] = 0 /\ \A S \in P : S # {} => g[S] = f[AnyOf(S)] + g[S \ {AnyOf(S)}]
  BY <1>5
<1>10. QED BY <1>2, <1>8, <1>9

\* The sum of natural numbers is one, and positive if they are.
LEMMA SumIsNatural ==
    ASSUME NEW n \in Nat, NEW f \in [1..n -> Nat]
    PROVE  /\ SumFunction(f) \in Nat
           /\ n > 0 /\ (\A i \in 1..n : f[i] > 0) => SumFunction(f) > 0
<1> DEFINE D == 1..n
           x == AnyOf(D)
           t == D \ {x}
<1>1. /\ SumFunction(f) = Total(f, D) /\ Total(f, D) \in Nat /\ Total(f, t) \in Nat
      /\ D # {} => Total(f, D) = f[x] + Total(f, t)
  BY TotalIs
<1>2. ASSUME n > 0, \A i \in D : f[i] > 0 PROVE SumFunction(f) > 0
  <2>1. 1 \in D
    BY <1>2
  <2>2. x \in D
    BY <2>1 DEF AnyOf
  <2>3. f[x] \in Nat /\ f[x] > 0
    BY <1>2, <2>2
  <2> HIDE DEF x, t
  <2>4. QED BY <1>1, <2>1, <2>3
<1>3. QED BY <1>1, <1>2

\* Among subsets of a finite set there is one that contains no other.
LEMMA SmallestSet ==
    ASSUME NEW D, IsFiniteSet(D), NEW Bad, Bad # {}, \A S \in Bad : S \subseteq D
    PROVE  \E S \in Bad : \A T \in Bad : ~(T \subseteq S /\ T # S)
<1>2. Bad \subseteq FiniteSubsetsOf(D)
  <2>1. \A s \in SUBSET D : IsFiniteSet(s)
    BY FS_Subset
  <2>2. QED BY <2>1 DEF FiniteSubsetsOf
<1>3. PICK S \in Bad : \A T \in Bad : <<T, S>> \notin StrictSubsetOrdering(D)
  BY <1>2, FS_StrictSubsetOrderingWellFounded, WFMin, Zenon
<1>4. ASSUME NEW T \in Bad, T \subseteq S, T # S PROVE FALSE
  <2>1. S \in SUBSET D /\ T \in SUBSET D
    OBVIOUS
  <2>2. <<T, S>> \in StrictSubsetOrdering(D)
    BY <1>4, <2>1 DEF StrictSubsetOrdering
  <2>3. QED BY <1>3, <2>2
<1>5. QED BY <1>4

\* The order in which a sum is formed makes no difference.
LEMMA TotalWithout ==
    ASSUME NEW n \in Nat, NEW f \in [1..n -> Nat]
    PROVE  \A S \in SUBSET (1..n) : \A x \in S : Total(f, S) = f[x] + Total(f, S \ {x})
<1> DEFINE P == SUBSET (1..n)
           Bad == {T \in P : \E y \in T : Total(f, T) # f[y] + Total(f, T \ {y})}
<1>1. SUFFICES Bad = {}
  OBVIOUS
<1> SUFFICES ASSUME Bad # {} PROVE FALSE
  OBVIOUS
<1>2. PICK T \in Bad : \A U \in Bad : ~(U \subseteq T /\ U # T)
  <2> DEFINE D == 1..n
  <2>1. IsFiniteSet(D) /\ \A V \in Bad : V \subseteq D
    BY FS_Interval
  <2> HIDE DEF Bad, D
  <2>2. QED BY <2>1, SmallestSet
<1>3. PICK y \in T : Total(f, T) # f[y] + Total(f, T \ {y})
  OBVIOUS
<1> DEFINE z == AnyOf(T)
<1>4. T \in P /\ z \in T
  BY DEF AnyOf
<1>5. /\ \A U \in P : Total(f, U) \in Nat
      /\ Total(f, T) = f[z] + Total(f, T \ {z})
  BY <1>4, TotalIs
<1>6. y # z
  BY <1>3, <1>5
<1> HIDE DEF z
<1>7. T \ {z} \notin Bad /\ T \ {y} \notin Bad
  <2> HIDE DEF Bad
  <2>1. QED BY <1>2, <1>4
<1>8. /\ Total(f, T \ {z}) = f[y] + Total(f, (T \ {z}) \ {y})
      /\ Total(f, T \ {y}) = f[z] + Total(f, (T \ {y}) \ {z})
  BY <1>4, <1>6, <1>7
<1>9. (T \ {z}) \ {y} = (T \ {y}) \ {z}
  OBVIOUS
<1> DEFINE U == (T \ {y}) \ {z}
<1>10. f[y] \in Nat /\ f[z] \in Nat /\ Total(f, U) \in Nat
  BY <1>4, <1>5
<1> HIDE DEF U
<1>11. /\ Total(f, T) = f[z] + (f[y] + Total(f, U))
       /\ Total(f, T \ {y}) = f[z] + Total(f, U)
  BY <1>5, <1>8, <1>9 DEF U
<1>12. QED BY <1>3, <1>10, <1>11

\* The sum over two sets.
LEMMA TotalOfBoth ==
    ASSUME NEW n \in Nat, NEW f \in [1..n -> Nat],
           NEW S \in SUBSET (1..n), NEW T \in SUBSET (1..n), S \cap T = {}
    PROVE  Total(f, S \cup T) = Total(f, S) + Total(f, T)
<1> DEFINE P == SUBSET (1..n)
           Bad == {U \in P : S \cap U = {} /\ Total(f, S \cup U) # Total(f, S) + Total(f, U)}
<1>1. SUFFICES Bad = {}
  OBVIOUS
<1> SUFFICES ASSUME Bad # {} PROVE FALSE
  OBVIOUS
<1>2. PICK U \in Bad : \A V \in Bad : ~(V \subseteq U /\ V # U)
  <2> DEFINE D == 1..n
  <2>1. IsFiniteSet(D) /\ \A V \in Bad : V \subseteq D
    BY FS_Interval
  <2> HIDE DEF Bad, D
  <2>2. QED BY <2>1, SmallestSet
<1>3. U \in P /\ S \cap U = {} /\ Total(f, S \cup U) # Total(f, S) + Total(f, U)
  OBVIOUS
<1>4. Total(f, {}) = 0 /\ \A V \in P : Total(f, V) \in Nat
  BY TotalIs
<1>5. CASE U = {}
  <2>1. S \cup U = S
    BY <1>5
  <2>2. Total(f, S) \in Nat
    BY <1>4
  <2>3. QED BY <1>3, <1>4, <1>5, <2>1, <2>2
<1>6. CASE U # {}
  <2>1. PICK x \in U : TRUE
    BY <1>6
  <2> DEFINE V == U \ {x}
  <2>2. V \in P /\ S \cap V = {} /\ V \subseteq U /\ V # U
    BY <1>3
  <2>3. V \notin Bad
    <3> HIDE DEF Bad, V
    <3>1. QED BY <1>2, <2>2
  <2>4. Total(f, S \cup V) = Total(f, S) + Total(f, V)
    BY <2>2, <2>3
  <2>5. Total(f, U) = f[x] + Total(f, V)
    BY <1>3, TotalWithout
  <2>6. Total(f, S \cup U) = f[x] + Total(f, S \cup V)
    <3> DEFINE W == S \cup U
    <3>1. W \in SUBSET (1..n) /\ x \in W
      BY <1>3
    <3>2. W \ {x} = S \cup V
      BY <1>3
    <3> HIDE DEF W
    <3>3. Total(f, W) = f[x] + Total(f, W \ {x})
      BY <3>1, TotalWithout
    <3>4. QED BY <3>2, <3>3 DEF W
  <2>7. f[x] \in Nat /\ Total(f, V) \in Nat /\ Total(f, S) \in Nat
    BY <1>3, <1>4, <2>2
  <2> HIDE DEF V
  <2>8. QED BY <1>3, <2>4, <2>5, <2>6, <2>7
<1>7. QED BY <1>5, <1>6

\* h has the values of f at m different places, those of V.
ValuesAt(h, m, f, n, q, V) ==
    /\ n \in Nat /\ f \in [1..n -> Nat]
    /\ m \in Nat /\ h \in [1..m -> Nat]
    /\ q \in [1..m -> 1..n]
    /\ \A i, j \in 1..m : q[i] = q[j] => i = j
    /\ \A i \in 1..m : h[i] = f[q[i]]
    /\ V = {q[i] : i \in 1..m}

\* A sum over places that stand for different ones of other places.
LEMMA TotalOfImage ==
    ASSUME NEW n, NEW f, NEW m, NEW h, NEW q, NEW V, ValuesAt(h, m, f, n, q, V)
    PROVE  SumFunction(h) = Total(f, V)
<1>0. /\ n \in Nat /\ f \in [1..n -> Nat] /\ m \in Nat /\ h \in [1..m -> Nat]
      /\ q \in [1..m -> 1..n]
      /\ \A i, j \in 1..m : q[i] = q[j] => i = j
      /\ \A i \in 1..m : h[i] = f[q[i]]
      /\ V = {q[i] : i \in 1..m}
  BY DEF ValuesAt
<1>a. \A S \in SUBSET (1..m) : \A x \in S : Total(h, S) = h[x] + Total(h, S \ {x})
  BY <1>0, TotalWithout
<1>b. \A S \in SUBSET (1..n) : \A x \in S : Total(f, S) = f[x] + Total(f, S \ {x})
  BY <1>0, TotalWithout
<1> DEFINE P == SUBSET (1..m)
           Im(S) == {q[i] : i \in S}
           Bad == {S \in P : Total(h, S) # Total(f, Im(S))}
<1>1. SumFunction(h) = Total(h, 1..m) /\ Total(h, {}) = 0 /\ Total(f, {}) = 0
  BY <1>0, TotalIs
<1>2. SUFFICES ASSUME Bad # {} PROVE FALSE
  BY <1>0, <1>1
<1>3. PICK S \in Bad : \A T \in Bad : ~(T \subseteq S /\ T # S)
  <2> DEFINE D == 1..m
  <2>1. IsFiniteSet(D)
    <3>1. 1 \in Int /\ m \in Int
      BY <1>0
    <3>2. QED BY <3>1, FS_Interval
  <2>2. \A W \in Bad : W \subseteq D
    OBVIOUS
  <2> HIDE DEF Bad, D
  <2>3. QED BY <1>2, <2>1, <2>2, SmallestSet
<1>4. S \in P /\ Total(h, S) # Total(f, Im(S))
  OBVIOUS
<1>5. S # {}
  <2>1. Im({}) = {}
    OBVIOUS
  <2> HIDE DEF Im
  <2>2. QED BY <1>1, <1>4, <2>1
<1>6. PICK x \in S : TRUE
  BY <1>5
<1> DEFINE T == S \ {x}
<1>7. T \in P /\ T \subseteq S /\ T # S
  BY <1>4
<1>8. T \notin Bad
  <2> HIDE DEF Bad, T
  <2>1. QED BY <1>3, <1>7
<1>9. Total(h, T) = Total(f, Im(T))
  BY <1>7, <1>8
<1>10. Total(h, S) = h[x] + Total(h, T)
  BY <1>0, <1>4, <1>a
<1>11. Im(S) \in SUBSET (1..n) /\ q[x] \in Im(S) /\ Im(T) = Im(S) \ {q[x]}
  <2>1. \A i \in S : q[i] \in 1..n
    BY <1>0, <1>4
  <2>2. \A i \in S : q[i] = q[x] => i = x
    BY <1>0, <1>4
  <2>3. QED BY <2>1, <2>2
<1> HIDE DEF Im, T
<1> DEFINE I == Im(S)
<1>12. Total(f, I) = f[q[x]] + Total(f, I \ {q[x]})
  <2>1. I \in SUBSET (1..n) /\ q[x] \in I
    BY <1>11
  <2> HIDE DEF I
  <2>2. QED BY <2>1, <1>b
<1>13. h[x] = f[q[x]]
  BY <1>0, <1>4
<1>14. QED BY <1>4, <1>9, <1>10, <1>11, <1>12, <1>13

-----------------------------------------------------------------------------
(***************************************************************************)
(* The first element of a finite set, and heaps.                           *)
(***************************************************************************)

\* A strict and total order on a finite set has a first element.
LEMMA FirstExists ==
    ASSUME NEW H, IsFiniteSet(H), H # {}, NEW R,
           \A a \in H : <<a, a>> \notin R,
           \A a, b \in H : a # b => <<a, b>> \in R \/ <<b, a>> \in R,
           \A a, b, c \in H : <<a, b>> \in R /\ <<b, c>> \in R => <<a, c>> \in R
    PROVE  \E s \in H : \A t \in H \ {s} : <<s, t>> \in R
<1> DEFINE before(s) == {t \in H : <<t, s>> \in R}
           sizes == {Cardinality(before(s)) : s \in H}
<1>1. ASSUME NEW s \in H
      PROVE  /\ before(s) \in SUBSET H /\ IsFiniteSet(before(s))
             /\ Cardinality(before(s)) \in Nat
  <2>1. before(s) \in SUBSET H
    OBVIOUS
  <2> HIDE DEF before
  <2>2. IsFiniteSet(before(s))
    BY <2>1, FS_Subset
  <2>3. Cardinality(before(s)) \in Nat
    BY <2>2, FS_CardinalityType
  <2>4. QED BY <2>1, <2>2, <2>3
<1>2. PICK s \in H : \A t \in H : Cardinality(before(s)) <= Cardinality(before(t))
  <2> HIDE DEF before
  <2>1. sizes \in SUBSET Nat /\ sizes # {}
    BY <1>1
  <2>2. PICK n \in sizes : \A m \in sizes : n <= m
    <3> HIDE DEF sizes
    <3>1. QED BY <2>1, SmallestNumber
  <2>3. QED BY <2>2
<1>3. before(s) = {}
  <2> SUFFICES ASSUME NEW t \in H, t \in before(s) PROVE FALSE
    BY <1>1
  <2>1. before(t) \subseteq before(s)
    OBVIOUS
  <2>2. t \notin before(t)
    OBVIOUS
  <2> HIDE DEF before
  <2>3. /\ Cardinality(before(t)) <= Cardinality(before(s))
        /\ Cardinality(before(s)) = Cardinality(before(t)) => before(s) = before(t)
    BY <1>1, <2>1, FS_Subset
  <2>4. Cardinality(before(s)) <= Cardinality(before(t))
    BY <1>2
  <2>5. Cardinality(before(s)) = Cardinality(before(t))
    BY <1>1, <2>3, <2>4
  <2>6. QED BY <2>2, <2>3, <2>5
<1>4. QED BY <1>3

-----------------------------------------------------------------------------
(***************************************************************************)
(* The Sets and the States of karmarkar_karp, for n rows and k parts.      *)
(***************************************************************************)
Distinct(q) == \A i, j \in DOMAIN q : q[i] = q[j] => i = j
Apart(S, T) == \A x \in S : x \notin T

SetsOf(n) == [sum : Nat, items : Seq(1..n)]
RowsOf(a) == ToSet(a.items)
IsEmpty(a) == a.items = <<>>
GoodSet(a) == (a.sum = 0 <=> IsEmpty(a)) /\ Distinct(a.items)

\* Sets with work that share no row, and of which one has a row; if one has none,
\* no other has two; if e, they are of equal size.
GoodSets(s, n, k, e) ==
    /\ s \in [1..k -> SetsOf(n)]
    /\ \A i \in 1..k : GoodSet(s[i])
    /\ \A i, j \in 1..k : i # j => Apart(RowsOf(s[i]), RowsOf(s[j]))
    /\ \E i \in 1..k : ~IsEmpty(s[i])
    /\ (\A i \in 1..k : ~IsEmpty(s[i])) \/ (\A i \in 1..k : Len(s[i].items) <= 1)
    /\ e => \A i, j \in 1..k : Len(s[i].items) = Len(s[j].items)

\* Those without a row are the last ones.
EmptyLast(s, k) == \A i, j \in 1..k : i < j /\ ~IsEmpty(s[j]) => ~IsEmpty(s[i])

GoodState(s, n, k, e) == GoodSets(s, n, k, e) /\ EmptyLast(s, k)

RowsIn(s) == UNION {RowsOf(s[i]) : i \in DOMAIN s}

\* The rows of a State are those of its Sets.
LEMMA RowsInSets ==
    ASSUME NEW n, NEW k, NEW e, NEW s, GoodSets(s, n, k, e)
    PROVE  /\ \A r : r \in RowsIn(s) <=> \E i \in 1..k : r \in RowsOf(s[i])
           /\ \A i \in 1..k : RowsOf(s[i]) \subseteq 1..n
           /\ RowsIn(s) \subseteq 1..n
<1>1. DOMAIN s = 1..k
  BY DEF GoodSets
<1>2. \A r : r \in RowsIn(s) <=> \E i \in 1..k : r \in RowsOf(s[i])
  BY <1>1 DEF RowsIn
<1>3. ASSUME NEW i \in 1..k PROVE RowsOf(s[i]) \subseteq 1..n
  <2>1. s[i].items \in Seq(1..n)
    BY DEF GoodSets, SetsOf
  <2> DEFINE q == s[i].items
             M == 1..n
  <2>2. \A j \in DOMAIN q : q[j] \in M
    <3> HIDE DEF q, M
    <3>1. q \in Seq(M)
      BY <2>1 DEF q, M
    <3>2. QED BY <3>1
  <2>3. QED BY <2>2 DEF RowsOf, ToSet
<1>4. QED BY <1>2, <1>3

\* The key by which State sorts the Sets.
HeaviestFirst(s) ==
    [i \in DOMAIN s |-> LET w == Weight(s[i]) IN <<-w[1], -w[2], -w[3]>>]

\* What a Set is compared by.
LEMMA WeightType ==
    ASSUME NEW n \in Nat, NEW a \in SetsOf(n)
    PROVE  /\ Weight(a) \in Keys
           /\ Weight(a)[1] = a.sum
           /\ ~IsEmpty(a) => Weight(a)[3] = a.items[1] /\ a.items[1] \in RowsOf(a)
<1>1. a.sum \in Int /\ Len(a.items) \in Int
  BY DEF SetsOf
<1>2. ~IsEmpty(a) => a.items[1] \in Int /\ 1 \in DOMAIN a.items
  BY DEF SetsOf, IsEmpty
<1> DEFINE third == IF a.items = <<>> THEN 0 ELSE a.items[1]
<1>3. third \in Int
  BY <1>2 DEF IsEmpty
<1>4. Weight(a) = <<a.sum, Len(a.items), third>>
  BY DEF Weight
<1>5. ~IsEmpty(a) => third = a.items[1] /\ a.items[1] \in RowsOf(a)
  BY <1>2 DEF IsEmpty, RowsOf, ToSet
<1> HIDE DEF third
<1>6. QED BY <1>1, <1>3, <1>4, <1>5 DEF Keys

\* The Sets from the heaviest to the lightest.
Falling(s, k) == \A i, j \in 1..k : i <= j => s[j].sum <= s[i].sum

\* State only changes the order of the Sets.
LEMMA StateOrder ==
    ASSUME NEW n \in Nat, NEW k \in Nat, NEW s \in [1..k -> SetsOf(n)]
    PROVE  \E p : /\ Permutes(p, k)
                  /\ State(s) = [i \in 1..k |-> s[p[i]]]
                  /\ Falling(State(s), k)
<1> DEFINE key == HeaviestFirst(s)
           t == State(s)
           D == 1..k
<1>1. s \in [D -> SetsOf(n)] /\ DOMAIN s = D
  OBVIOUS
<1>2. s \in Seq(SetsOf(n)) /\ Len(s) = k
  BY <1>1
<1>3. \A i \in D : s[i] \in SetsOf(n)
  BY <1>1
<1>4. ASSUME NEW i \in D
      PROVE  key[i] \in Keys /\ key[i][1] = -(s[i].sum)
  <2> DEFINE w == Weight(s[i])
  <2>1. key[i] = <<-w[1], -w[2], -w[3]>>
    BY <1>1 DEF HeaviestFirst
  <2>2. w \in Keys /\ w[1] = s[i].sum
    BY <1>3, WeightType
  <2> HIDE DEF w, key
  <2>3. QED BY <2>1, <2>2 DEF Keys
<1>5. key \in [1..Len(s) -> Keys]
  <2>1. DOMAIN key = D /\ key = [i \in D |-> key[i]]
    BY <1>1 DEF HeaviestFirst
  <2> HIDE DEF key
  <2>2. QED BY <1>2, <1>4, <2>1
<1>6. t = SortedBy(s, key)
  BY DEF State, HeaviestFirst
<1> HIDE DEF t, key
<1>7. PICK p : SortedAs(s, key, p, t)
  BY <1>2, <1>5, <1>6, SortedByIsSorted
<1>8. Permutes(p, k) /\ t = [i \in D |-> s[p[i]]]
         /\ \A i, j \in D : i < j => ~Less(key[p[j]], key[p[i]])
  BY <1>2, <1>7 DEF SortedAs
<1>9. \A i \in D : p[i] \in D /\ t[i] = s[p[i]]
  BY <1>8 DEF Permutes
<1>10. ASSUME NEW i \in D, NEW j \in D, i <= j PROVE t[j].sum <= t[i].sum
  <2>1. /\ key[p[i]][1] = -(t[i].sum) /\ key[p[j]][1] = -(t[j].sum)
        /\ t[i].sum \in Nat /\ t[j].sum \in Nat
    BY <1>3, <1>4, <1>9 DEF SetsOf
  <2>2. CASE i < j
    <3>1. ~Less(key[p[j]], key[p[i]])
      BY <1>8, <2>2
    <3>2. ~(key[p[j]][1] < key[p[i]][1])
      BY <3>1 DEF Less
    <3>3. QED BY <2>1, <3>2
  <2>3. CASE i = j
    BY <2>1, <2>3
  <2>4. i < j \/ i = j
    BY <1>10
  <2>5. QED BY <2>2, <2>3, <2>4
<1>11. Falling(t, k)
  BY <1>10 DEF Falling
<1>12. QED BY <1>8, <1>11 DEF t

\* Sorting the Sets makes a State of them.
LEMMA StateOfSets ==
    ASSUME NEW n \in Nat, NEW k \in Nat, NEW e, NEW s, GoodSets(s, n, k, e)
    PROVE  GoodState(State(s), n, k, e) /\ RowsIn(State(s)) = RowsIn(s)
<1> DEFINE t == State(s)
           D == 1..k
<1>3. \A i \in D : s[i] \in SetsOf(n)
  BY DEF GoodSets
<1>7. PICK p : Permutes(p, k) /\ t = [i \in D |-> s[p[i]]] /\ Falling(t, k)
  <2>1. s \in [1..k -> SetsOf(n)]
    BY DEF GoodSets
  <2> HIDE DEF t
  <2>2. \E p : Permutes(p, k) /\ State(s) = [i \in 1..k |-> s[p[i]]] /\ Falling(State(s), k)
    BY <2>1, StateOrder
  <2>3. QED BY <2>2 DEF t
<1> HIDE DEF t
<1>8. Permutes(p, k) /\ t = [i \in D |-> s[p[i]]]
  BY <1>7
<1>9. \A i \in D : p[i] \in D /\ t[i] = s[p[i]]
  BY <1>8 DEF Permutes
<1>10. \A i, j \in D : i # j => p[i] # p[j]
  BY <1>8 DEF Permutes
<1>11. \A j \in D : \E i \in D : p[i] = j
  BY <1>8 DEF Permutes
<1>12. GoodSets(t, n, k, e)
  <2>1. t \in [D -> SetsOf(n)]
    BY <1>3, <1>8, <1>9
  <2>2. \A i \in D : GoodSet(t[i])
    BY <1>9 DEF GoodSets
  <2>3. \A i, j \in D : i # j => Apart(RowsOf(t[i]), RowsOf(t[j]))
    BY <1>9, <1>10 DEF GoodSets
  <2>4. \E i \in D : ~IsEmpty(t[i])
    <3>1. PICK j \in D : ~IsEmpty(s[j])
      BY DEF GoodSets
    <3>2. PICK i \in D : p[i] = j
      BY <1>11
    <3>3. t[i] = s[j]
      BY <1>9, <3>2
    <3>4. QED BY <3>1, <3>3
  <2>5. (\A i \in D : ~IsEmpty(t[i])) \/ (\A i \in D : Len(t[i].items) <= 1)
    BY <1>9 DEF GoodSets
  <2>6. e => \A i, j \in D : Len(t[i].items) = Len(t[j].items)
    BY <1>9 DEF GoodSets
  <2>7. QED BY <2>1, <2>2, <2>3, <2>4, <2>5, <2>6 DEF GoodSets
<1>13. EmptyLast(t, k)
  <2> SUFFICES ASSUME NEW i \in D, NEW j \in D, i < j, ~IsEmpty(t[j]), IsEmpty(t[i])
               PROVE  FALSE
    BY DEF EmptyLast
  <2>1. t[i].sum = 0 /\ t[j].sum # 0 /\ t[i].sum \in Nat /\ t[j].sum \in Nat
    BY <1>12 DEF GoodSets, GoodSet, SetsOf
  <2>2. t[j].sum <= t[i].sum
    <3>1. i <= j
      OBVIOUS
    <3>2. QED BY <1>7, <3>1 DEF Falling
  <2>3. QED BY <2>1, <2>2
<1>14. RowsIn(t) = RowsIn(s)
  <2>1. \A r : r \in RowsIn(t) <=> \E i \in D : r \in RowsOf(t[i])
    BY <1>12, RowsInSets
  <2>2. \A r : r \in RowsIn(s) <=> \E i \in D : r \in RowsOf(s[i])
    BY RowsInSets
  <2>3. \A r : r \in RowsIn(t) <=> r \in RowsIn(s)
    BY <2>1, <2>2, <1>9, <1>11
  <2>4. QED BY <2>3
<1>15. QED BY <1>12, <1>13, <1>14 DEF GoodState, t

\* Two sequences without a common element, one after the other.
LEMMA ConcatSets ==
    ASSUME NEW T, NEW u \in Seq(T), NEW v \in Seq(T), Distinct(u), Distinct(v),
           Apart(ToSet(u), ToSet(v))
    PROVE  /\ Cat(u, v) \in Seq(T) /\ Len(Cat(u, v)) = Len(u) + Len(v)
           /\ Distinct(Cat(u, v)) /\ ToSet(Cat(u, v)) = ToSet(u) \cup ToSet(v)
           /\ Cat(u, v) = <<>> <=> u = <<>> /\ v = <<>>
<1> DEFINE w == Cat(u, v)
<1>1. /\ w \in Seq(T) /\ Len(w) = Len(u) + Len(v)
      /\ \A i \in 1..Len(u) + Len(v) : w[i] = IF i <= Len(u) THEN u[i] ELSE v[i - Len(u)]
      /\ w = <<>> <=> u = <<>> /\ v = <<>>
  BY ConcatProperties, ConcatEqualIffEmpty DEF Cat
<1> HIDE DEF w
<1>2. /\ Len(u) \in Nat /\ Len(v) \in Nat
      /\ DOMAIN u = 1..Len(u) /\ DOMAIN v = 1..Len(v) /\ DOMAIN w = 1..Len(u) + Len(v)
  BY <1>1, LenProperties
<1>3. \A i \in DOMAIN u : i \in DOMAIN w /\ w[i] = u[i]
  BY <1>1, <1>2
<1>4. \A i \in DOMAIN v : i + Len(u) \in DOMAIN w /\ w[i + Len(u)] = v[i]
  BY <1>1, <1>2
<1>5. \A i \in DOMAIN w : \/ i \in DOMAIN u /\ w[i] = u[i]
                          \/ i - Len(u) \in DOMAIN v /\ w[i] = v[i - Len(u)]
  BY <1>1, <1>2
<1>6. ToSet(w) = ToSet(u) \cup ToSet(v)
  BY <1>3, <1>4, <1>5 DEF ToSet
<1>7. \A i \in DOMAIN u, j \in DOMAIN v : u[i] # v[j]
  BY DEF Apart, ToSet
<1>8. Distinct(w)
  <2> SUFFICES ASSUME NEW i \in DOMAIN w, NEW j \in DOMAIN w, w[i] = w[j] PROVE i = j
    BY DEF Distinct
  <2>1. CASE i \in DOMAIN u /\ w[i] = u[i]
    <3>1. j \in DOMAIN u /\ w[j] = u[j]
      BY <1>5, <1>7, <2>1
    <3>2. QED BY <2>1, <3>1 DEF Distinct
  <2>2. CASE i - Len(u) \in DOMAIN v /\ w[i] = v[i - Len(u)]
    <3>1. j - Len(u) \in DOMAIN v /\ w[j] = v[j - Len(u)]
      BY <1>5, <1>7, <2>2
    <3>2. i - Len(u) = j - Len(u)
      BY <2>2, <3>1 DEF Distinct
    <3>3. QED BY <3>2, <1>2
  <2>3. QED BY <1>5, <2>1, <2>2
<1>9. QED BY <1>1, <1>6, <1>8 DEF w

\* A Set with the rows of two that share none.
LEMMA JointSet ==
    ASSUME NEW n \in Nat, NEW a \in SetsOf(n), NEW b \in SetsOf(n),
           GoodSet(a), GoodSet(b), Apart(RowsOf(a), RowsOf(b))
    PROVE  /\ Joint(a, b) \in SetsOf(n) /\ GoodSet(Joint(a, b))
           /\ RowsOf(Joint(a, b)) = RowsOf(a) \cup RowsOf(b)
           /\ IsEmpty(Joint(a, b)) <=> IsEmpty(a) /\ IsEmpty(b)
           /\ Len(Joint(a, b).items) = Len(a.items) + Len(b.items)
<1> DEFINE u == a.items
           v == b.items
           j == Joint(a, b)
<1>1. /\ a.sum \in Nat /\ b.sum \in Nat
      /\ u \in Seq(1..n) /\ v \in Seq(1..n)
  BY DEF SetsOf
<1>2. j = [sum |-> a.sum + b.sum, items |-> Cat(u, v)]
  BY DEF Joint, Cat
<1>3. j.items = Cat(u, v) /\ j.sum = a.sum + b.sum
  BY <1>2
<1>4. /\ Distinct(u) /\ Distinct(v) /\ Apart(ToSet(u), ToSet(v))
      /\ a.sum = 0 <=> u = <<>>
      /\ b.sum = 0 <=> v = <<>>
  BY DEF GoodSet, IsEmpty, RowsOf
<1> HIDE DEF u, v, j
<1>5. /\ Cat(u, v) \in Seq(1..n) /\ Len(Cat(u, v)) = Len(u) + Len(v)
      /\ Distinct(Cat(u, v)) /\ ToSet(Cat(u, v)) = ToSet(u) \cup ToSet(v)
      /\ Cat(u, v) = <<>> <=> u = <<>> /\ v = <<>>
  BY <1>1, <1>4, ConcatSets
<1>6. j \in SetsOf(n)
  BY <1>1, <1>2, <1>5 DEF SetsOf
<1>7. j.sum = 0 <=> u = <<>> /\ v = <<>>
  BY <1>1, <1>3, <1>4
<1>8. GoodSet(j)
  BY <1>3, <1>5, <1>7 DEF GoodSet, IsEmpty
<1>9. /\ RowsOf(j) = RowsOf(a) \cup RowsOf(b)
      /\ IsEmpty(j) <=> IsEmpty(a) /\ IsEmpty(b)
      /\ Len(j.items) = Len(a.items) + Len(b.items)
  BY <1>3, <1>5 DEF RowsOf, IsEmpty, u, v
<1>10. QED BY <1>6, <1>8, <1>9 DEF j

\* The Sets of one State with those of another in the opposite order.
Joints(s, t, k) == [i \in 1..k |-> Joint(s[i], t[k + 1 - i])]

\* What they are made of.
MadeOf(u, s, t, k) ==
    \A i \in 1..k : /\ u[i].sum = s[i].sum + t[k + 1 - i].sum
                    /\ RowsOf(u[i]) = RowsOf(s[i]) \cup RowsOf(t[k + 1 - i])
                    /\ Apart(RowsOf(s[i]), RowsOf(t[k + 1 - i]))

\* The Sets of two States without a common row.
LEMMA JointSets ==
    ASSUME NEW n \in Nat, NEW k \in Nat, NEW e \in BOOLEAN, NEW s, NEW t,
           GoodState(s, n, k, e), GoodState(t, n, k, e), Apart(RowsIn(s), RowsIn(t))
    PROVE  /\ Merged(s, t) = State(Joints(s, t, k))
           /\ GoodSets(Joints(s, t, k), n, k, e)
           /\ RowsIn(Joints(s, t, k)) = RowsIn(s) \cup RowsIn(t)
           /\ MadeOf(Joints(s, t, k), s, t, k)
<1> DEFINE D == 1..k
           other(i) == k + 1 - i
           u == Joints(s, t, k)
<1>1. GoodSets(s, n, k, e) /\ EmptyLast(s, k) /\ GoodSets(t, n, k, e) /\ EmptyLast(t, k)
  BY DEF GoodState
<1>2. DOMAIN s = D /\ Len(s) = k
  <2>1. s \in [1..k -> SetsOf(n)]
    BY <1>1 DEF GoodSets
  <2>2. QED BY <2>1
<1>3. \A i \in D : other(i) \in D /\ other(other(i)) = i
  OBVIOUS
<1>4. ASSUME NEW i \in D
      PROVE  /\ s[i] \in SetsOf(n) /\ t[i] \in SetsOf(n)
             /\ GoodSet(s[i]) /\ GoodSet(t[i])
             /\ Len(s[i].items) \in Nat /\ Len(t[i].items) \in Nat
  <2>1. s[i] \in SetsOf(n) /\ t[i] \in SetsOf(n)
    BY <1>1 DEF GoodSets
  <2>2. GoodSet(s[i]) /\ GoodSet(t[i])
    BY <1>1 DEF GoodSets
  <2>3. Len(s[i].items) \in Nat /\ Len(t[i].items) \in Nat
    BY <2>1 DEF SetsOf
  <2>4. QED BY <2>1, <2>2, <2>3
<1>5. /\ \A r : r \in RowsIn(s) <=> \E i \in D : r \in RowsOf(s[i])
      /\ \A r : r \in RowsIn(t) <=> \E i \in D : r \in RowsOf(t[i])
  BY <1>1, RowsInSets
<1>6. ASSUME NEW i \in D, NEW j \in D PROVE Apart(RowsOf(s[i]), RowsOf(t[j]))
  BY <1>5 DEF Apart
<1>20. /\ DOMAIN u = D /\ u = [i \in D |-> u[i]]
       /\ \A i \in D : u[i] = Joint(s[i], t[other(i)])
  BY DEF Joints
<1>7. ASSUME NEW i \in D
      PROVE  /\ u[i] \in SetsOf(n) /\ GoodSet(u[i])
             /\ RowsOf(u[i]) = RowsOf(s[i]) \cup RowsOf(t[other(i)])
             /\ IsEmpty(u[i]) <=> IsEmpty(s[i]) /\ IsEmpty(t[other(i)])
             /\ Len(u[i].items) = Len(s[i].items) + Len(t[other(i)].items)
  <2> DEFINE a == s[i]
             b == t[other(i)]
  <2>1. /\ a \in SetsOf(n) /\ b \in SetsOf(n) /\ GoodSet(a) /\ GoodSet(b)
        /\ Apart(RowsOf(a), RowsOf(b)) /\ u[i] = Joint(a, b)
    BY <1>3, <1>4, <1>6, <1>20
  <2> HIDE DEF a, b, u
  <2>2. /\ u[i] \in SetsOf(n) /\ GoodSet(u[i])
        /\ RowsOf(u[i]) = RowsOf(a) \cup RowsOf(b)
        /\ IsEmpty(u[i]) <=> IsEmpty(a) /\ IsEmpty(b)
        /\ Len(u[i].items) = Len(a.items) + Len(b.items)
    <3>1. /\ Joint(a, b) \in SetsOf(n) /\ GoodSet(Joint(a, b))
          /\ RowsOf(Joint(a, b)) = RowsOf(a) \cup RowsOf(b)
          /\ IsEmpty(Joint(a, b)) <=> IsEmpty(a) /\ IsEmpty(b)
          /\ Len(Joint(a, b).items) = Len(a.items) + Len(b.items)
      BY <2>1, JointSet
    <3>2. QED BY <2>1, <3>1
  <2>3. QED BY <2>2 DEF a, b
<1>8. DOMAIN u = D /\ u = [i \in D |-> u[i]]
  BY <1>20
<1>9. Merged(s, t) = State(u)
  BY <1>2 DEF Merged, Joints
<1> HIDE DEF u
<1>10. GoodSets(u, n, k, e)
  <2>1. u \in [D -> SetsOf(n)]
    BY <1>7, <1>8
  <2>2. \A i \in D : GoodSet(u[i])
    BY <1>7
  <2>3. ASSUME NEW i \in D, NEW j \in D, i # j PROVE Apart(RowsOf(u[i]), RowsOf(u[j]))
    <3>1. other(i) \in D /\ other(j) \in D /\ other(i) # other(j)
      BY <1>3, <2>3
    <3>2. /\ Apart(RowsOf(s[i]), RowsOf(s[j]))
          /\ Apart(RowsOf(t[other(i)]), RowsOf(t[other(j)]))
      BY <1>1, <2>3, <3>1 DEF GoodSets
    <3>3. /\ Apart(RowsOf(s[i]), RowsOf(t[other(j)]))
          /\ Apart(RowsOf(s[j]), RowsOf(t[other(i)]))
      BY <1>6, <3>1
    <3>4. QED BY <1>7, <3>2, <3>3 DEF Apart
  <2>4. \E i \in D : ~IsEmpty(u[i])
    <3>1. PICK i \in D : ~IsEmpty(s[i])
      BY <1>1 DEF GoodSets
    <3>2. QED BY <1>7, <3>1
  <2>5. ASSUME NEW i \in D, IsEmpty(u[i]) PROVE \A j \in D : Len(u[j].items) <= 1
    <3>1. IsEmpty(s[i]) /\ IsEmpty(t[other(i)]) /\ other(i) \in D
      BY <1>3, <1>7, <2>5
    <3>2. \A j \in D : Len(s[j].items) <= 1 /\ Len(t[j].items) <= 1
      BY <1>1, <3>1 DEF GoodSets
    <3>3. ASSUME NEW j \in D PROVE IsEmpty(s[j]) \/ IsEmpty(t[other(j)])
      <4>1. j < i => other(i) < other(j)
        OBVIOUS
      <4>2. ~(j < i) => j = i \/ i < j
        OBVIOUS
      <4>3. CASE j < i
        <5>1. other(i) < other(j) /\ other(j) \in D
          BY <1>3, <4>1, <4>3
        <5>2. QED BY <1>1, <3>1, <5>1 DEF EmptyLast
      <4>4. CASE j = i \/ i < j
        BY <1>1, <3>1, <4>4 DEF EmptyLast
      <4>5. QED BY <4>2, <4>3, <4>4
    <3>4. ASSUME NEW j \in D PROVE Len(u[j].items) <= 1
      <4>1. other(j) \in D
        BY <1>3
      <4>2. Len(s[j].items) <= 1 /\ Len(t[other(j)].items) <= 1
        BY <3>2, <4>1
      <4>3. Len(s[j].items) \in Nat /\ Len(t[other(j)].items) \in Nat
        BY <1>4, <4>1
      <4>4. IsEmpty(s[j]) => Len(s[j].items) = 0
        BY DEF IsEmpty
      <4>5. IsEmpty(t[other(j)]) => Len(t[other(j)].items) = 0
        BY DEF IsEmpty
      <4>6. Len(u[j].items) = Len(s[j].items) + Len(t[other(j)].items)
        BY <1>7
      <4> DEFINE x == Len(s[j].items)
                 y == Len(t[other(j)].items)
      <4>7. /\ x \in Nat /\ y \in Nat /\ x <= 1 /\ y <= 1 /\ Len(u[j].items) = x + y
            /\ x = 0 \/ y = 0
        BY <3>3, <4>2, <4>3, <4>4, <4>5, <4>6
      <4> HIDE DEF x, y
      <4>8. QED BY <4>7
    <3>5. QED BY <3>4
  <2>6. ASSUME e, NEW i \in D, NEW j \in D PROVE Len(u[i].items) = Len(u[j].items)
    <3>1. other(i) \in D /\ other(j) \in D
      BY <1>3
    <3>2. Len(s[i].items) = Len(s[j].items) /\ Len(t[other(i)].items) = Len(t[other(j)].items)
      BY <1>1, <2>6, <3>1 DEF GoodSets
    <3>3. QED BY <1>7, <3>2
  <2>7. (\A i \in D : ~IsEmpty(u[i])) \/ (\A i \in D : Len(u[i].items) <= 1)
    BY <2>5
  <2>8. e => \A i, j \in D : Len(u[i].items) = Len(u[j].items)
    BY <2>6
  <2>9. QED BY <2>1, <2>2, <2>3, <2>4, <2>7, <2>8 DEF GoodSets
<1>12. \A r : r \in RowsIn(u) <=> \E i \in D : r \in RowsOf(u[i])
  BY <1>10, RowsInSets
<1>13. ASSUME NEW r PROVE r \in RowsIn(u) <=> r \in RowsIn(s) \/ r \in RowsIn(t)
  <2>1. ASSUME r \in RowsIn(u) PROVE r \in RowsIn(s) \/ r \in RowsIn(t)
    <3>1. PICK i \in D : r \in RowsOf(u[i])
      BY <1>12, <2>1
    <3>2. r \in RowsOf(s[i]) \/ r \in RowsOf(t[other(i)])
      BY <1>7, <3>1
    <3>3. other(i) \in D
      BY <1>3
    <3>4. QED BY <1>5, <3>2, <3>3
  <2>2. r \in RowsIn(s) => r \in RowsIn(u)
    BY <1>5, <1>7, <1>12
  <2>3. ASSUME r \in RowsIn(t) PROVE r \in RowsIn(u)
    <3>1. PICK i \in D : r \in RowsOf(t[i])
      BY <1>5, <2>3
    <3>2. other(i) \in D /\ other(other(i)) = i
      BY <1>3
    <3>3. r \in RowsOf(u[other(i)])
      BY <1>7, <3>1, <3>2
    <3>4. QED BY <1>12, <3>2, <3>3
  <2>4. QED BY <2>1, <2>2, <2>3
<1>14. RowsIn(u) = RowsIn(s) \cup RowsIn(t)
  BY <1>13
<1>15. ASSUME NEW i \in D PROVE u[i].sum = s[i].sum + t[other(i)].sum
  <2> DEFINE a == s[i]
             b == t[other(i)]
  <2>1. u[i] = Joint(a, b)
    BY <1>20
  <2> HIDE DEF a, b
  <2>2. Joint(a, b).sum = a.sum + b.sum
    BY DEF Joint
  <2>3. QED BY <2>1, <2>2 DEF a, b
<1>16. \A i \in D : Apart(RowsOf(s[i]), RowsOf(t[other(i)]))
  BY <1>3, <1>6
<1>17. MadeOf(u, s, t, k)
  <2> HIDE DEF u
  <2>1. QED BY <1>7, <1>15, <1>16 DEF MadeOf
<1>18. QED BY <1>9, <1>10, <1>14, <1>17 DEF u

\* Two States without a common row.
LEMMA MergedStates ==
    ASSUME NEW n \in Nat, NEW k \in Nat, NEW e \in BOOLEAN, NEW s, NEW t,
           GoodState(s, n, k, e), GoodState(t, n, k, e), Apart(RowsIn(s), RowsIn(t))
    PROVE  /\ GoodState(Merged(s, t), n, k, e)
           /\ RowsIn(Merged(s, t)) = RowsIn(s) \cup RowsIn(t)
<1> DEFINE u == Joints(s, t, k)
<1>1. Merged(s, t) = State(u) /\ GoodSets(u, n, k, e) /\ RowsIn(u) = RowsIn(s) \cup RowsIn(t)
  BY JointSets
<1> HIDE DEF u
<1>2. GoodState(State(u), n, k, e) /\ RowsIn(State(u)) = RowsIn(u)
  BY <1>1, StateOfSets
<1>3. QED BY <1>1, <1>2

\* A heap of States that have each of the rows once.
GoodHeap(H, n, k, e) ==
    /\ IsFiniteSet(H) /\ H # {}
    /\ \A s \in H : GoodState(s, n, k, e)
    /\ \A s, t \in H : s # t => Apart(RowsIn(s), RowsIn(t))
    /\ \A r \in 1..n : \E s \in H : r \in RowsIn(s)

\* The first Set of a State is the heaviest, and it has a row.
LEMMA FirstSet ==
    ASSUME NEW n \in Nat, NEW k \in Nat \ {0}, NEW e, NEW s, GoodState(s, n, k, e)
    PROVE  /\ s[1] \in SetsOf(n) /\ ~IsEmpty(s[1])
           /\ Len(s) = k /\ Spread(s) \in Int
           /\ Weight(s[1]) \in Keys /\ Weight(s[1])[3] \in RowsIn(s)
<1>1. GoodSets(s, n, k, e) /\ EmptyLast(s, k) /\ 1 \in 1..k /\ k \in 1..k
  BY DEF GoodState
<1>2. s \in [1..k -> SetsOf(n)]
  BY <1>1 DEF GoodSets
<1>3. s[1] \in SetsOf(n) /\ s[k] \in SetsOf(n) /\ Len(s) = k
  BY <1>1, <1>2
<1>4. ~IsEmpty(s[1])
  <2>1. PICK i \in 1..k : ~IsEmpty(s[i])
    BY <1>1 DEF GoodSets
  <2>2. i = 1 \/ 1 < i
    OBVIOUS
  <2>3. QED BY <1>1, <2>1, <2>2 DEF EmptyLast
<1>5. Spread(s) \in Int
  BY <1>3 DEF Spread, SetsOf
<1>6. Weight(s[1]) \in Keys /\ Weight(s[1])[3] \in RowsOf(s[1])
  BY <1>3, <1>4, WeightType
<1>7. Weight(s[1])[3] \in RowsIn(s)
  BY <1>1, <1>6, RowsInSets
<1>8. QED BY <1>3, <1>4, <1>5, <1>6, <1>7

\* The heap has a first State.
LEMMA PoppedIsFirst ==
    ASSUME NEW n \in Nat, NEW k \in Nat \ {0}, NEW e, NEW H,
           IsFiniteSet(H), H # {}, \A s \in H : GoodState(s, n, k, e),
           \A s, t \in H : s # t => Apart(RowsIn(s), RowsIn(t))
    PROVE  Popped(H) \in H
<1> DEFINE R == {p \in H \X H : PopsBefore(p[1], p[2])}
           w(s) == Weight(s[1])
<1>1. ASSUME NEW s \in H
      PROVE  Len(s) = k /\ Spread(s) \in Int /\ w(s) \in Keys /\ w(s)[3] \in RowsIn(s)
  BY FirstSet
<1>2. ASSUME NEW s \in H, NEW t \in H
      PROVE  PopsBefore(s, t) <=> \/ Spread(s) > Spread(t)
                                  \/ Spread(s) = Spread(t) /\ Less(w(t), w(s))
  BY DEF PopsBefore, Lighter
<1> HIDE DEF w
<1>3. ASSUME NEW s \in H, NEW t \in H PROVE <<s, t>> \in R <=> PopsBefore(s, t)
  <2>1. <<s, t>> \in H \X H /\ <<s, t>>[1] = s /\ <<s, t>>[2] = t
    OBVIOUS
  <2>2. <<s, t>> \in R <=> PopsBefore(<<s, t>>[1], <<s, t>>[2])
    BY <2>1
  <2>3. QED BY <2>1, <2>2
<1> HIDE DEF R
<1>4. ASSUME NEW s \in H PROVE <<s, s>> \notin R
  <2>1. ~Less(w(s), w(s))
    BY <1>1, LessIsAnOrder
  <2>2. ~(Spread(s) > Spread(s))
    BY <1>1
  <2>3. QED BY <1>2, <1>3, <2>1, <2>2
<1>5. ASSUME NEW s \in H, NEW t \in H, s # t PROVE <<s, t>> \in R \/ <<t, s>> \in R
  <2>1. w(s) # w(t)
    BY <1>1, <1>5 DEF Apart
  <2>2. Less(w(s), w(t)) \/ Less(w(t), w(s))
    BY <1>1, <2>1, LessIsAnOrder
  <2>3. Spread(s) > Spread(t) \/ Spread(t) > Spread(s) \/ Spread(s) = Spread(t)
    BY <1>1
  <2>4. QED BY <1>2, <1>3, <2>2, <2>3
<1>6. ASSUME NEW s \in H, NEW t \in H, NEW u \in H, <<s, t>> \in R, <<t, u>> \in R
      PROVE  <<s, u>> \in R
  <2>1. Less(w(u), w(t)) /\ Less(w(t), w(s)) => Less(w(u), w(s))
    BY <1>1, LessIsAnOrder
  <2>2. Spread(s) \in Int /\ Spread(t) \in Int /\ Spread(u) \in Int
    BY <1>1
  <2>3. PopsBefore(s, t) /\ PopsBefore(t, u)
    BY <1>3, <1>6
  <2>4. \/ Spread(s) > Spread(t)
        \/ Spread(s) = Spread(t) /\ Less(w(t), w(s))
    BY <1>2, <2>3
  <2>5. \/ Spread(t) > Spread(u)
        \/ Spread(t) = Spread(u) /\ Less(w(u), w(t))
    BY <1>2, <2>3
  <2>6. \/ Spread(s) > Spread(u)
        \/ Spread(s) = Spread(u) /\ Less(w(u), w(s))
    BY <2>1, <2>2, <2>4, <2>5
  <2>7. QED BY <1>2, <1>3, <2>6
<1>7. \E s \in H : \A t \in H \ {s} : <<s, t>> \in R
  BY <1>4, <1>5, <1>6, FirstExists
<1>8. \E s \in H : \A t \in H \ {s} : PopsBefore(s, t)
  BY <1>3, <1>7
<1>9. QED BY <1>8 DEF Popped

\* The two States of a turn of karmarkar_karp.
LEMMA TwoPopped ==
    ASSUME NEW n \in Nat, NEW k \in Nat \ {0}, NEW e, NEW H,
           GoodHeap(H, n, k, e), Cardinality(H) > 1
    PROVE  /\ Popped(H) \in H
           /\ Popped(H \ {Popped(H)}) \in H \ {Popped(H)}
           /\ IsFiniteSet(H \ {Popped(H)}) /\ Cardinality(H \ {Popped(H)}) = Cardinality(H) - 1
<1> DEFINE s == Popped(H)
           t == Popped(H \ {s})
<1>0. /\ IsFiniteSet(H) /\ H # {}
      /\ \A a \in H : GoodState(a, n, k, e)
      /\ \A a, b \in H : a # b => Apart(RowsIn(a), RowsIn(b))
      /\ Cardinality(H) \in Nat
  BY FS_CardinalityType DEF GoodHeap
<1>1. s \in H
  BY <1>0, PoppedIsFirst
<1> HIDE DEF s
<1>2. IsFiniteSet(H \ {s}) /\ Cardinality(H \ {s}) = Cardinality(H) - 1
  BY <1>0, <1>1, FS_RemoveElement
<1>3. H \ {s} # {}
  BY <1>0, <1>2, FS_EmptySet
<1>4. t \in H \ {s}
  BY <1>0, <1>2, <1>3, PoppedIsFirst
<1>5. QED BY <1>1, <1>2, <1>4 DEF s, t

\* A turn of karmarkar_karp.
LEMMA HeapAfterMerge ==
    ASSUME NEW n \in Nat, NEW k \in Nat \ {0}, NEW e \in BOOLEAN, NEW H,
           GoodHeap(H, n, k, e), Cardinality(H) > 1
    PROVE  /\ GoodHeap(AfterMerge(H), n, k, e)
           /\ Cardinality(AfterMerge(H)) = Cardinality(H) - 1
<1> DEFINE s == Popped(H)
           t == Popped(H \ {s})
           m == Merged(s, t)
           rest == H \ {s, t}
<1>0. /\ IsFiniteSet(H) /\ H # {}
      /\ \A a \in H : GoodState(a, n, k, e)
      /\ \A a, b \in H : a # b => Apart(RowsIn(a), RowsIn(b))
      /\ \A r \in 1..n : \E a \in H : r \in RowsIn(a)
      /\ Cardinality(H) \in Nat
  BY FS_CardinalityType DEF GoodHeap
<1>1. /\ s \in H /\ t \in H \ {s}
      /\ IsFiniteSet(H \ {s}) /\ Cardinality(H \ {s}) = Cardinality(H) - 1
  BY TwoPopped
<1> HIDE DEF s, t
<1>5. IsFiniteSet(rest) /\ Cardinality(rest) = Cardinality(H) - 2
  <2>1. rest = (H \ {s}) \ {t}
    OBVIOUS
  <2> HIDE DEF rest
  <2>2. /\ IsFiniteSet((H \ {s}) \ {t})
        /\ Cardinality((H \ {s}) \ {t}) = Cardinality(H \ {s}) - 1
    BY <1>1, FS_RemoveElement
  <2>3. QED BY <1>0, <1>1, <2>1, <2>2
<1>6. s \in H /\ t \in H /\ s # t /\ GoodState(s, n, k, e) /\ GoodState(t, n, k, e)
         /\ Apart(RowsIn(s), RowsIn(t))
  BY <1>0, <1>1
<1>7. GoodState(m, n, k, e) /\ RowsIn(m) = RowsIn(s) \cup RowsIn(t)
  BY <1>6, MergedStates
<1> HIDE DEF m
<1>8. AfterMerge(H) = rest \cup {m}
  BY DEF AfterMerge, s, t, m
<1>9. ASSUME NEW a \in rest PROVE Apart(RowsIn(m), RowsIn(a)) /\ Apart(RowsIn(a), RowsIn(m))
  <2>1. /\ Apart(RowsIn(s), RowsIn(a)) /\ Apart(RowsIn(t), RowsIn(a))
    BY <1>0, <1>6
  <2>2. QED BY <1>7, <2>1 DEF Apart
<1>10. m \notin rest
  <2> SUFFICES ASSUME m \in rest PROVE FALSE
    OBVIOUS
  <2>1. Apart(RowsIn(m), RowsIn(m))
    BY <1>9
  <2>2. Weight(m[1])[3] \in RowsIn(m)
    BY <1>7, FirstSet
  <2>3. QED BY <2>1, <2>2 DEF Apart
<1>11. /\ IsFiniteSet(rest \cup {m})
       /\ Cardinality(rest \cup {m}) = Cardinality(H) - 1
  <2> HIDE DEF rest
  <2>1. /\ IsFiniteSet(rest \cup {m})
        /\ Cardinality(rest \cup {m}) = Cardinality(rest) + 1
    BY <1>5, <1>10, FS_AddElement
  <2>2. QED BY <1>0, <1>5, <2>1
<1>12. \A a \in rest \cup {m} : GoodState(a, n, k, e)
  BY <1>0, <1>7
<1>13. \A a, b \in rest \cup {m} : a # b => Apart(RowsIn(a), RowsIn(b))
  BY <1>0, <1>9
<1>14. ASSUME NEW r \in 1..n PROVE \E a \in rest \cup {m} : r \in RowsIn(a)
  <2>1. PICK a \in H : r \in RowsIn(a)
    BY <1>0
  <2>2. QED BY <1>7, <2>1
<1>15. QED BY <1>8, <1>11, <1>12, <1>13, <1>14 DEF GoodHeap

-----------------------------------------------------------------------------
(***************************************************************************)
(* How even the Sets of a State are.                                       *)
(***************************************************************************)

\* The work of a Set is that of its rows.
Weighed(s, load, k) == \A i \in 1..k : s[i].sum = Total(load, RowsOf(s[i]))

\* The work of two Sets differs by no more than one of the bounds B.
Even(s, k, B) == \E b \in B : \A i, j \in 1..k : s[i].sum - s[j].sum <= b

EvenState(s, load, k, B) == Weighed(s, load, k) /\ Falling(s, k) /\ Even(s, k, B)
EvenHeap(H, load, k, B) == \A s \in H : EvenState(s, load, k, B)

\* State makes no difference to that.
LEMMA StateIsEven ==
    ASSUME NEW n \in Nat, NEW k \in Nat, NEW s \in [1..k -> SetsOf(n)],
           NEW load, NEW B, Weighed(s, load, k), Even(s, k, B)
    PROVE  EvenState(State(s), load, k, B)
<1> DEFINE t == State(s)
<1>1. PICK p : Permutes(p, k) /\ t = [i \in 1..k |-> s[p[i]]] /\ Falling(t, k)
  <2> HIDE DEF t
  <2>1. \E p : Permutes(p, k) /\ State(s) = [i \in 1..k |-> s[p[i]]] /\ Falling(State(s), k)
    BY StateOrder
  <2>2. QED BY <2>1 DEF t
<1> HIDE DEF t
<1>2. \A i \in 1..k : p[i] \in 1..k /\ t[i] = s[p[i]]
  BY <1>1 DEF Permutes
<1>3. Weighed(t, load, k)
  BY <1>2 DEF Weighed
<1>4. Even(t, k, B)
  <2>1. PICK b \in B : \A i, j \in 1..k : s[i].sum - s[j].sum <= b
    BY DEF Even
  <2>2. \A i, j \in 1..k : t[i].sum - t[j].sum <= b
    BY <1>2, <2>1
  <2>3. QED BY <2>2 DEF Even
<1>5. QED BY <1>1, <1>3, <1>4 DEF EvenState, t

\* The differences of two States do not add up when they are merged: where one falls the
\* other rises.
LEMMA MergedIsEven ==
    ASSUME NEW n \in Nat, NEW k \in Nat, NEW e \in BOOLEAN, NEW s, NEW t,
           GoodState(s, n, k, e), GoodState(t, n, k, e), Apart(RowsIn(s), RowsIn(t)),
           NEW load \in [1..n -> Nat], NEW B \in SUBSET Int,
           EvenState(s, load, k, B), EvenState(t, load, k, B)
    PROVE  EvenState(Merged(s, t), load, k, B)
<1> DEFINE D == 1..k
           other(i) == k + 1 - i
           u == Joints(s, t, k)
<1>1. /\ Merged(s, t) = State(u) /\ GoodSets(u, n, k, e)
      /\ \A i \in D : /\ u[i].sum = s[i].sum + t[other(i)].sum
                      /\ RowsOf(u[i]) = RowsOf(s[i]) \cup RowsOf(t[other(i)])
                      /\ Apart(RowsOf(s[i]), RowsOf(t[other(i)]))
  <2>1. Merged(s, t) = State(u) /\ GoodSets(u, n, k, e) /\ MadeOf(u, s, t, k)
    BY JointSets
  <2> HIDE DEF u
  <2>2. QED BY <2>1 DEF MadeOf
<1> HIDE DEF u
<1>2. GoodSets(s, n, k, e) /\ GoodSets(t, n, k, e)
  BY DEF GoodState
<1>3. \A i \in D : RowsOf(s[i]) \subseteq 1..n /\ RowsOf(t[i]) \subseteq 1..n
  BY <1>2, RowsInSets
<1>4. \A i \in D : s[i].sum \in Int /\ t[i].sum \in Int /\ other(i) \in D
  <2>1. \A i \in D : s[i] \in SetsOf(n) /\ t[i] \in SetsOf(n)
    BY <1>2 DEF GoodSets
  <2>2. QED BY <2>1 DEF SetsOf
<1>5. Weighed(u, load, k)
  <2> SUFFICES ASSUME NEW i \in D PROVE u[i].sum = Total(load, RowsOf(u[i]))
    BY DEF Weighed
  <2> DEFINE S == RowsOf(s[i])
             T == RowsOf(t[other(i)])
  <2>1. S \in SUBSET (1..n) /\ T \in SUBSET (1..n) /\ S \cap T = {}
    BY <1>1, <1>3, <1>4 DEF Apart
  <2>2. s[i].sum = Total(load, S) /\ t[other(i)].sum = Total(load, T)
    BY <1>4 DEF EvenState, Weighed
  <2>3. RowsOf(u[i]) = S \cup T /\ u[i].sum = s[i].sum + t[other(i)].sum
    BY <1>1
  <2> HIDE DEF S, T
  <2>4. Total(load, S \cup T) = Total(load, S) + Total(load, T)
    BY <2>1, TotalOfBoth
  <2>5. QED BY <2>2, <2>3, <2>4
<1>6. PICK b \in B : \A i, j \in D : s[i].sum - s[j].sum <= b
  BY DEF EvenState, Even
<1>7. PICK c \in B : \A i, j \in D : t[i].sum - t[j].sum <= c
  BY DEF EvenState, Even
<1>8. ASSUME NEW i \in D, NEW j \in D
      PROVE  u[i].sum - u[j].sum <= b \/ u[i].sum - u[j].sum <= c
  <2> DEFINE x == s[i].sum
             y == s[j].sum
             v == t[other(i)].sum
             w == t[other(j)].sum
  <2>1. /\ x \in Int /\ y \in Int /\ v \in Int /\ w \in Int
        /\ u[i].sum = x + v /\ u[j].sum = y + w
        /\ x - y <= b /\ v - w <= c
    BY <1>1, <1>4, <1>6, <1>7
  <2>2. i <= j => v <= w
    <3>1. i <= j => other(j) <= other(i)
      OBVIOUS
    <3>2. QED BY <1>4, <3>1 DEF EvenState, Falling
  <2>3. j <= i => x <= y
    BY DEF EvenState, Falling
  <2>4. i <= j \/ j <= i
    OBVIOUS
  <2> HIDE DEF x, y, v, w
  <2>5. QED BY <2>1, <2>2, <2>3, <2>4
<1>9. Even(u, k, B)
  <2>1. ASSUME NEW i \in D PROVE u[i].sum \in Int
    <3> DEFINE x == s[i].sum
               v == t[other(i)].sum
    <3>1. x \in Int /\ v \in Int /\ u[i].sum = x + v
      BY <1>1, <1>4
    <3> HIDE DEF x, v
    <3>2. QED BY <3>1
  <2>2. CASE b <= c
    <3>1. ASSUME NEW i \in D, NEW j \in D PROVE u[i].sum - u[j].sum <= c
      <4>1. u[i].sum \in Int /\ u[j].sum \in Int
        BY <2>1
      <4>2. u[i].sum - u[j].sum <= b \/ u[i].sum - u[j].sum <= c
        BY <1>8
      <4>3. QED BY <2>2, <4>1, <4>2
    <3>2. QED BY <3>1 DEF Even
  <2>3. CASE c <= b
    <3>1. ASSUME NEW i \in D, NEW j \in D PROVE u[i].sum - u[j].sum <= b
      <4>1. u[i].sum \in Int /\ u[j].sum \in Int
        BY <2>1
      <4>2. u[i].sum - u[j].sum <= b \/ u[i].sum - u[j].sum <= c
        BY <1>8
      <4>3. QED BY <2>3, <4>1, <4>2
    <3>2. QED BY <3>1 DEF Even
  <2>4. QED BY <2>2, <2>3
<1>10. u \in [1..k -> SetsOf(n)]
  BY <1>1 DEF GoodSets
<1>11. EvenState(State(u), load, k, B)
  BY <1>5, <1>9, <1>10, StateIsEven
<1>12. QED BY <1>1, <1>11

\* A turn of karmarkar_karp.
LEMMA HeapStaysEven ==
    ASSUME NEW n \in Nat, NEW k \in Nat \ {0}, NEW e \in BOOLEAN, NEW H,
           GoodHeap(H, n, k, e), Cardinality(H) > 1,
           NEW load \in [1..n -> Nat], NEW B \in SUBSET Int,
           EvenHeap(H, load, k, B)
    PROVE  EvenHeap(AfterMerge(H), load, k, B)
<1> DEFINE s == Popped(H)
           t == Popped(H \ {s})
<1>1. s \in H /\ t \in H \ {s}
  BY TwoPopped
<1>2. AfterMerge(H) = (H \ {s, t}) \cup {Merged(s, t)}
  BY DEF AfterMerge
<1> HIDE DEF s, t
<1>3. /\ GoodState(s, n, k, e) /\ GoodState(t, n, k, e) /\ Apart(RowsIn(s), RowsIn(t))
      /\ EvenState(s, load, k, B) /\ EvenState(t, load, k, B) /\ k \in Nat
  BY <1>1 DEF GoodHeap, EvenHeap
<1>4. EvenState(Merged(s, t), load, k, B)
  BY <1>3, MergedIsEven
<1>5. QED BY <1>2, <1>4 DEF EvenHeap

\* The States on the heap after each turn.
HeapsUpTo(f, H, N) == f = [i \in 0..N |-> IF i = 0 THEN H ELSE AfterMerge(f[i - 1])]

\* There is such a sequence of heaps.
LEMMA HeapsUpToExists ==
    ASSUME NEW H, NEW N \in Nat
    PROVE  \E f : HeapsUpTo(f, H, N)
<1> DEFINE Missing == {n \in Nat : ~ \E f : HeapsUpTo(f, H, n)}
<1>1. SUFFICES ASSUME Missing # {} PROVE FALSE
  OBVIOUS
<1>2. PICK n \in Missing : \A m \in Missing : n <= m
  BY <1>1, SmallestNumber
<1>3. n \in Nat /\ ~ \E f : HeapsUpTo(f, H, n)
  OBVIOUS
<1>4. CASE n = 0
  <2> DEFINE f == [i \in 0..0 |-> H]
  <2>1. f = [i \in 0..0 |-> IF i = 0 THEN H ELSE AfterMerge(f[i - 1])]
    OBVIOUS
  <2> HIDE DEF f
  <2>2. HeapsUpTo(f, H, n)
    BY <2>1, <1>4 DEF HeapsUpTo
  <2>3. QED BY <2>2, <1>3
<1>5. CASE n > 0
  <2>1. n - 1 \in Nat /\ n - 1 \notin Missing
    BY <1>2, <1>3, <1>5
  <2>2. PICK g : HeapsUpTo(g, H, n - 1)
    BY <2>1
  <2> DEFINE f == [i \in 0..n |-> IF i = 0 THEN H ELSE AfterMerge(g[i - 1])]
             h == [i \in 0..n |-> IF i = 0 THEN H ELSE AfterMerge(f[i - 1])]
  <2>3. ASSUME NEW i \in 1..n PROVE f[i - 1] = g[i - 1]
    <3>1. i - 1 \in 0..n /\ i - 1 \in 0..n - 1
      BY <1>3
    <3>2. g[i - 1] = IF i - 1 = 0 THEN H ELSE AfterMerge(g[i - 1 - 1])
      BY <2>2, <3>1 DEF HeapsUpTo
    <3>3. QED BY <3>1, <3>2
  <2>4. ASSUME NEW i \in 0..n PROVE f[i] = h[i]
    <3>1. CASE i = 0
      BY <3>1
    <3>2. CASE i # 0
      <4>1. i \in 1..n
        BY <3>2, <1>3
      <4>2. f[i - 1] = g[i - 1]
        BY <4>1, <2>3
      <4>3. f[i] = AfterMerge(g[i - 1])
        BY <4>1
      <4>4. h[i] = AfterMerge(f[i - 1])
        BY <4>1
      <4> HIDE DEF f, h
      <4>5. QED BY <4>2, <4>3, <4>4
    <3>3. QED BY <3>1, <3>2
  <2>5. DOMAIN f = 0..n /\ DOMAIN h = 0..n
    OBVIOUS
  <2>6. f = h
    BY <2>4, <2>5
  <2> HIDE DEF f
  <2>7. HeapsUpTo(f, H, n)
    BY <2>6 DEF HeapsUpTo
  <2>8. QED BY <2>7, <1>3
<1>6. QED BY <1>3, <1>4, <1>5

(***************************************************************************)
(* The result of karmarkar_karp.                                           *)
(***************************************************************************)

\* A sequence in another order.
Reordered(s, p, t) == Permutes(p, Len(s)) /\ t = [k \in 1..Len(s) |-> s[p[k]]]

\* Another order keeps the length, the elements and that no element is twice there.
LEMMA ReorderedFacts ==
    ASSUME NEW T, NEW s \in Seq(T), NEW p, NEW t, Reordered(s, p, t)
    PROVE  /\ t \in Seq(T) /\ Len(t) = Len(s)
           /\ ToSet(t) = ToSet(s)
           /\ Distinct(s) => Distinct(t)
<1> DEFINE n == Len(s)
           D == 1..n
<1>1. n \in Nat /\ DOMAIN s = D /\ \A i \in D : s[i] \in T
  OBVIOUS
<1> HIDE DEF n
<1>2. /\ \A k \in D : p[k] \in D
      /\ \A i, j \in D : p[i] = p[j] => i = j
      /\ \A k \in D : \E i \in D : p[i] = k
      /\ t = [k \in D |-> s[p[k]]]
  BY DEF Reordered, Permutes, n
<1>3. t \in [1..n -> T]
  BY <1>1, <1>2
<1>4. t \in Seq(T) /\ Len(t) = n
  BY <1>1, <1>3
<1>5. DOMAIN t = D
  BY <1>2
<1>6. ToSet(t) = ToSet(s)
  <2>1. ASSUME NEW r \in ToSet(t) PROVE r \in ToSet(s)
    <3>1. PICK i \in D : r = t[i]
      BY <1>5 DEF ToSet
    <3>2. p[i] \in D /\ r = s[p[i]]
      BY <1>2, <3>1
    <3>3. QED BY <1>1, <3>2 DEF ToSet
  <2>2. ASSUME NEW r \in ToSet(s) PROVE r \in ToSet(t)
    <3>1. PICK k \in D : r = s[k]
      BY <1>1 DEF ToSet
    <3>2. PICK i \in D : p[i] = k
      BY <1>2
    <3>3. t[i] = r
      BY <1>2, <3>1, <3>2
    <3>4. QED BY <1>5, <3>3 DEF ToSet
  <2>3. QED BY <2>1, <2>2
<1>7. Distinct(s) => Distinct(t)
  <2> SUFFICES ASSUME Distinct(s), NEW i \in D, NEW j \in D, t[i] = t[j] PROVE i = j
    BY <1>5 DEF Distinct
  <2>1. p[i] \in D /\ p[j] \in D /\ s[p[i]] = s[p[j]]
    BY <1>2
  <2>2. p[i] = p[j]
    BY <1>1, <2>1 DEF Distinct
  <2>3. QED BY <1>2, <2>2
<1>8. QED BY <1>4, <1>6, <1>7 DEF n

\* Sorting only changes the order.
LEMMA SortedByReorders ==
    ASSUME NEW T, NEW s \in Seq(T), NEW key \in [1..Len(s) -> Keys]
    PROVE  \E p : Reordered(s, p, SortedBy(s, key))
BY SortedByIsSorted DEF SortedAs, Reordered

\* The rows by their load, and in ascending order.
LEMMA ByWorkReorders ==
    ASSUME NEW n \in Nat, NEW load \in [1..n -> Int], NEW items \in Seq(1..n)
    PROVE  \E p : Reordered(items, p, ByWork(load, items))
<1> DEFINE key == [i \in DOMAIN items |-> <<load[items[i]], items[i], 0>>]
<1>1. DOMAIN items = 1..Len(items) /\ \A i \in DOMAIN items : items[i] \in 1..n
  OBVIOUS
<1>2. \A i \in DOMAIN items : load[items[i]] \in Int /\ items[i] \in Int
  BY <1>1
<1>3. key \in [1..Len(items) -> Keys]
  BY <1>1, <1>2 DEF Keys
<1>4. ByWork(load, items) = SortedBy(items, key)
  BY DEF ByWork
<1> HIDE DEF key
<1>5. QED BY <1>3, <1>4, SortedByReorders

\* So does the last sort of each part.
LEMMA AscendingReorders ==
    ASSUME NEW n \in Nat, NEW items \in Seq(1..n)
    PROVE  \E p : Reordered(items, p, Ascending(items))
<1> DEFINE key == [i \in DOMAIN items |-> <<items[i], 0, 0>>]
<1>1. DOMAIN items = 1..Len(items) /\ \A i \in DOMAIN items : items[i] \in Int
  OBVIOUS
<1>2. key \in [1..Len(items) -> Keys]
  BY <1>1 DEF Keys
<1>3. Ascending(items) = SortedBy(items, key)
  BY DEF Ascending
<1> HIDE DEF key
<1>4. QED BY <1>2, <1>3, SortedByReorders

\* A Set of one row.
LEMMA OneRowSet ==
    ASSUME NEW n \in Nat, NEW load \in [1..n -> Nat \ {0}], NEW r \in 1..n
    PROVE  LET a == OneRow(load, r)
           IN  /\ a \in SetsOf(n) /\ GoodSet(a) /\ ~IsEmpty(a)
               /\ RowsOf(a) = {r} /\ Len(a.items) = 1
<1>1. <<r>> \in Seq(1..n) /\ load[r] \in Nat \ {0}
  OBVIOUS
<1>2. OneRow(load, r) \in SetsOf(n)
  BY <1>1 DEF OneRow, SetsOf
<1>3. OneRow(load, r).items = <<r>> /\ OneRow(load, r).sum = load[r]
  BY DEF OneRow
<1>4. Distinct(<<r>>) /\ <<r>> # <<>> /\ ToSet(<<r>>) = {r} /\ Len(<<r>>) = 1
  BY DEF Distinct, ToSet
<1>5. QED BY <1>1, <1>2, <1>3, <1>4 DEF GoodSet, IsEmpty, RowsOf

\* A Set without a row.
LEMMA NoRowsSet ==
    ASSUME NEW n \in Nat
    PROVE  /\ NoRows \in SetsOf(n) /\ GoodSet(NoRows) /\ IsEmpty(NoRows)
           /\ RowsOf(NoRows) = {} /\ Len(NoRows.items) = 0
<1>1. NoRows.items = <<>> /\ NoRows.sum = 0
  BY DEF NoRows
<1>2. NoRows \in SetsOf(n)
  BY DEF NoRows, SetsOf
<1>3. Distinct(<<>>) /\ ToSet(<<>>) = {}
  BY DEF Distinct, ToSet
<1>4. QED BY <1>1, <1>2, <1>3 DEF GoodSet, IsEmpty, RowsOf

\* Without equal sizes: one State for each row.
LEMMA SingleStates ==
    ASSUME NEW n \in Nat \ {0}, NEW k \in Nat \ {0}, NEW load \in [1..n -> Nat \ {0}]
    PROVE  GoodHeap(FirstStates(load, k, FALSE), n, k, FALSE)
<1> DEFINE st(r) == [i \in 1..k |-> IF i = 1 THEN OneRow(load, r) ELSE NoRows]
           H == {st(r) : r \in 1..n}
<1>1. FirstStates(load, k, FALSE) = H
  BY DEF FirstStates
<1>2. ASSUME NEW r \in 1..n
      PROVE  /\ GoodState(st(r), n, k, FALSE)
             /\ RowsIn(st(r)) = {r}
  <2> DEFINE s == st(r)
  <2>1. /\ \A i \in 1..k : s[i] = IF i = 1 THEN OneRow(load, r) ELSE NoRows
        /\ DOMAIN s = 1..k /\ s = [i \in 1..k |-> s[i]] /\ 1 \in 1..k
    OBVIOUS
  <2> DEFINE a == OneRow(load, r)
  <2>2. /\ a \in SetsOf(n) /\ GoodSet(a) /\ ~IsEmpty(a)
        /\ RowsOf(a) = {r} /\ Len(a.items) = 1
    BY OneRowSet
  <2>3. /\ NoRows \in SetsOf(n) /\ GoodSet(NoRows) /\ IsEmpty(NoRows)
        /\ RowsOf(NoRows) = {} /\ Len(NoRows.items) = 0
    BY NoRowsSet
  <2> HIDE DEF s, a
  <2>4. \A i \in 1..k : s[i] = IF i = 1 THEN a ELSE NoRows
    BY <2>1 DEF a
  <2>5. s \in [1..k -> SetsOf(n)]
    BY <2>1, <2>2, <2>3, <2>4
  <2>6. ASSUME NEW i \in 1..k PROVE GoodSet(s[i]) /\ Len(s[i].items) <= 1
    <3>1. CASE i = 1
      <4>1. s[i] = a
        BY <3>1, <2>4
      <4>2. QED BY <4>1, <2>2
    <3>2. CASE i # 1
      <4>1. s[i] = NoRows
        BY <3>2, <2>4
      <4>2. QED BY <4>1, <2>3
    <3>3. QED BY <3>1, <3>2
  <2>7. \A i, j \in 1..k : i # j => Apart(RowsOf(s[i]), RowsOf(s[j]))
    BY <2>2, <2>3, <2>4 DEF Apart
  <2>8. ~IsEmpty(s[1])
    BY <2>1, <2>2, <2>4
  <2>9. GoodSets(s, n, k, FALSE)
    BY <2>1, <2>5, <2>6, <2>7, <2>8 DEF GoodSets
  <2>10. EmptyLast(s, k)
    BY <2>2, <2>3, <2>4 DEF EmptyLast
  <2>11. RowsIn(s) = {r}
    <3>1. \A x : x \in RowsIn(s) <=> \E i \in 1..k : x \in RowsOf(s[i])
      BY <2>9, RowsInSets
    <3>2. QED BY <3>1, <2>1, <2>2, <2>3, <2>4
  <2>12. QED BY <2>9, <2>10, <2>11 DEF GoodState, s
<1> HIDE DEF st
<1>3. IsFiniteSet(H)
  <2> DEFINE f == [r \in 1..n |-> st(r)]
  <2>1. f \in Surjection(1..n, H)
    BY DEF Surjection
  <2>2. IsFiniteSet(1..n)
    BY FS_Interval
  <2> HIDE DEF f, H
  <2>3. QED BY <2>1, <2>2, FS_Surjection
<1>4. H # {} /\ \A s \in H : GoodState(s, n, k, FALSE)
  <2>1. st(1) \in H
    OBVIOUS
  <2>2. \A s \in H : \E r \in 1..n : s = st(r)
    OBVIOUS
  <2>3. ASSUME NEW s \in H PROVE GoodState(s, n, k, FALSE)
    <3>1. PICK r \in 1..n : s = st(r)
      BY <2>2
    <3>2. QED BY <1>2, <3>1
  <2>4. QED BY <2>1, <2>3
<1>5. ASSUME NEW s \in H, NEW t \in H, s # t PROVE Apart(RowsIn(s), RowsIn(t))
  <2>1. PICK r \in 1..n : s = st(r)
    OBVIOUS
  <2>2. PICK q \in 1..n : t = st(q)
    OBVIOUS
  <2>3. RowsIn(s) = {r} /\ RowsIn(t) = {q}
    BY <1>2, <2>1, <2>2
  <2>4. r # q
    BY <1>5, <2>1, <2>2
  <2>5. QED BY <2>3, <2>4 DEF Apart
<1>6. ASSUME NEW r \in 1..n PROVE \E s \in H : r \in RowsIn(s)
  <2>1. st(r) \in H /\ r \in RowsIn(st(r))
    BY <1>2
  <2>2. QED BY <2>1
<1> HIDE DEF H
<1>7. QED BY <1>1, <1>3, <1>4, <1>5, <1>6 DEF GoodHeap

\* 1 .. n in c groups of k.
Grouped(n, k, c) ==
    /\ \A o \in 0..c - 1, i \in 1..k : k * o + i \in 1..n
    /\ \A o, q \in 0..c - 1 : \A i, j \in 1..k :
          k * o + i = k * q + j => o = q /\ i = j
    /\ \A r \in 1..n : \E o \in 0..c - 1, i \in 1..k : r = k * o + i

\* If k divides n there are such groups.
LEMMA GroupPlaces ==
    ASSUME NEW n \in Nat, NEW k \in Nat \ {0}, n % k = 0
    PROVE  n \div k \in Nat /\ n = k * (n \div k) /\ Grouped(n, k, n \div k)
<1> DEFINE c == n \div k
<1>1. c \in Nat /\ n = k * c
  <2>1. c \in Int /\ n = k * c + (n % k) /\ c >= 0
    OBVIOUS
  <2> HIDE DEF c
  <2>2. k * c \in Int
    BY <2>1
  <2>3. QED BY <2>1, <2>2
<1> HIDE DEF c
<1>2. ASSUME NEW o \in 0..c - 1, NEW i \in 1..k PROVE k * o + i \in 1..n
  <2>1. k * o \in Nat /\ k * o + k = k * (o + 1)
    OBVIOUS
  <2>2. k * (o + 1) <= k * c
    BY <1>1
  <2>3. k * (o + 1) \in Int /\ k * c \in Int
    BY <1>1
  <2>4. QED BY <1>1, <2>1, <2>2, <2>3
<1>3. ASSUME NEW o \in Nat, NEW q \in Nat, NEW i \in 1..k, NEW j \in 1..k,
             k * o + i = k * q + j, o < q
      PROVE  FALSE
  <2>1. k * (o + 1) <= k * q
    BY <1>3
  <2>2. k * (o + 1) = k * o + k /\ k * o \in Int /\ k * q \in Int
    OBVIOUS
  <2>3. QED BY <1>3, <2>1, <2>2
<1>4. ASSUME NEW o \in 0..c - 1, NEW q \in 0..c - 1, NEW i \in 1..k, NEW j \in 1..k,
             k * o + i = k * q + j
      PROVE  o = q /\ i = j
  <2>1. o \in Nat /\ q \in Nat
    OBVIOUS
  <2>2. ~(o < q) /\ ~(q < o)
    BY <1>3, <1>4, <2>1
  <2>3. o = q
    BY <2>1, <2>2
  <2>4. k * o \in Int
    BY <2>1
  <2>5. QED BY <1>4, <2>3, <2>4
<1>5. ASSUME NEW r \in 1..n PROVE \E o \in 0..c - 1, i \in 1..k : r = k * o + i
  <2> DEFINE o == (r - 1) \div k
             m == (r - 1) % k
  <2>1. o \in Int /\ o >= 0 /\ m \in 0..k - 1 /\ r - 1 = k * o + m
    OBVIOUS
  <2> HIDE DEF o, m
  <2>2. o < c
    <3> SUFFICES ASSUME c <= o PROVE FALSE
      BY <1>1, <2>1
    <3>1. k * c <= k * o
      BY <1>1, <2>1
    <3>2. k * c \in Int /\ k * o \in Int
      BY <1>1, <2>1
    <3>3. QED BY <1>1, <2>1, <3>1, <3>2
  <2>3. o \in 0..c - 1 /\ m + 1 \in 1..k
    BY <1>1, <2>1, <2>2
  <2>4. k * o \in Int
    BY <2>1
  <2>5. r = k * o + (m + 1)
    BY <2>1, <2>4
  <2>6. QED BY <2>3, <2>5
<1>6. Grouped(n, k, c)
  BY <1>2, <1>4, <1>5 DEF Grouped
<1>7. QED BY <1>1, <1>6 DEF c

\* With equal sizes: one State for each k rows of similar work.
LEMMA GroupStates ==
    ASSUME NEW n \in Nat \ {0}, NEW k \in Nat \ {0}, n % k = 0,
           NEW load \in [1..n -> Nat \ {0}]
    PROVE  GoodHeap(FirstStates(load, k, TRUE), n, k, TRUE)
<1> DEFINE all == [i \in DOMAIN load |-> i]
           sorted == ByWork(load, all)
           c == n \div k
           O == 0..c - 1
           D == 1..k
           at0(o, i) == k * o + i
           st(o) == State([i \in D |-> OneRow(load, sorted[k * o + i])])
           H == {st(o) : o \in O}
<1>1. load \in Seq(Nat \ {0}) /\ Len(load) = n /\ DOMAIN load = 1..n /\ load \in [1..n -> Int]
  OBVIOUS
<1>2. all \in Seq(1..n) /\ Len(all) = n
  BY <1>1
<1>3. \A i \in 1..n : all[i] = i
  BY <1>1
<1> HIDE DEF all
<1>4. PICK p : Reordered(all, p, sorted)
  <2>1. n \in Nat
    OBVIOUS
  <2> HIDE DEF sorted
  <2>2. \E p : Reordered(all, p, ByWork(load, all))
    BY <1>1, <1>2, <2>1, ByWorkReorders
  <2>3. QED BY <2>2 DEF sorted
<1>5. Permutes(p, n) /\ \A i \in 1..n : sorted[i] = p[i]
  <2>1. Permutes(p, n) /\ sorted = [i \in 1..n |-> all[p[i]]]
    BY <1>2, <1>4 DEF Reordered
  <2> HIDE DEF sorted
  <2>2. \A i \in 1..n : sorted[i] = all[p[i]] /\ p[i] \in 1..n
    BY <2>1 DEF Permutes
  <2>3. QED BY <1>3, <2>1, <2>2
<1>6. FirstStates(load, k, TRUE) = H
  BY <1>1 DEF FirstStates, all
<1> HIDE DEF sorted
<1>7. /\ c \in Nat /\ n = k * c
      /\ \A o \in O, i \in D : at0(o, i) \in 1..n
      /\ \A o, q \in O : \A i, j \in D : at0(o, i) = at0(q, j) => o = q /\ i = j
      /\ \A r \in 1..n : \E o \in O, i \in D : r = at0(o, i)
  <2>1. n \in Nat
    OBVIOUS
  <2>2. c \in Nat /\ n = k * c /\ Grouped(n, k, c)
    BY <2>1, GroupPlaces
  <2> HIDE DEF c
  <2>3. QED BY <2>2 DEF Grouped
<1>8. c # 0
  BY <1>7
<1> DEFINE row(o, i) == p[at0(o, i)]
           u(o) == [i \in D |-> OneRow(load, row(o, i))]
<1>9. ASSUME NEW o \in O PROVE st(o) = State(u(o))
  <2>1. \A i \in D : sorted[k * o + i] = row(o, i)
    BY <1>5, <1>7
  <2>2. QED BY <2>1
<1> HIDE DEF c, at0
<1>10. ASSUME NEW o \in O, NEW i \in D PROVE row(o, i) \in 1..n
  <2>1. at0(o, i) \in 1..n
    BY <1>7
  <2>2. QED BY <1>5, <2>1 DEF Permutes
<1>11. ASSUME NEW o \in O, NEW q \in O, NEW i \in D, NEW j \in D, row(o, i) = row(q, j)
       PROVE  o = q /\ i = j
  <2>1. at0(o, i) \in 1..n /\ at0(q, j) \in 1..n
    BY <1>7
  <2>2. at0(o, i) = at0(q, j)
    BY <1>5, <1>11, <2>1 DEF Permutes
  <2>3. QED BY <1>7, <2>2
<1>12. ASSUME NEW r \in 1..n PROVE \E o \in O, i \in D : r = row(o, i)
  <2>1. PICK j \in 1..n : p[j] = r
    BY <1>5 DEF Permutes
  <2>2. PICK o \in O, i \in D : j = at0(o, i)
    BY <1>7
  <2>3. QED BY <2>1, <2>2
<1> HIDE DEF row
<1>13. ASSUME NEW o \in O
       PROVE  /\ GoodState(st(o), n, k, TRUE)
              /\ \A r : r \in RowsIn(st(o)) <=> \E i \in D : r = row(o, i)
  <2> DEFINE s == u(o)
  <2>1. ASSUME NEW i \in D
        PROVE  /\ s[i] \in SetsOf(n) /\ GoodSet(s[i]) /\ ~IsEmpty(s[i])
               /\ RowsOf(s[i]) = {row(o, i)} /\ Len(s[i].items) = 1
    <3>1. s[i] = OneRow(load, row(o, i)) /\ row(o, i) \in 1..n
      BY <1>10
    <3> HIDE DEF s
    <3>2. n \in Nat
      OBVIOUS
    <3>3. QED BY <3>1, <3>2, OneRowSet
  <2>2. s = [i \in D |-> s[i]] /\ 1 \in D
    OBVIOUS
  <2>3. st(o) = State(s)
    BY <1>9
  <2> HIDE DEF s, st
  <2>4. s \in [D -> SetsOf(n)]
    BY <2>1, <2>2
  <2>5. ASSUME NEW i \in D, NEW j \in D, i # j PROVE Apart(RowsOf(s[i]), RowsOf(s[j]))
    <3>1. row(o, i) # row(o, j)
      BY <1>11, <2>5
    <3>2. RowsOf(s[i]) = {row(o, i)} /\ RowsOf(s[j]) = {row(o, j)}
      BY <2>1
    <3>3. QED BY <3>1, <3>2 DEF Apart
  <2>6. GoodSets(s, n, k, TRUE)
    BY <2>1, <2>2, <2>4, <2>5 DEF GoodSets
  <2>7. GoodState(State(s), n, k, TRUE) /\ RowsIn(State(s)) = RowsIn(s)
    <3>1. n \in Nat /\ k \in Nat
      OBVIOUS
    <3>2. QED BY <2>6, <3>1, StateOfSets
  <2>8. \A r : r \in RowsIn(s) <=> \E i \in D : r \in RowsOf(s[i])
    BY <2>6, RowsInSets
  <2>9. ASSUME NEW r PROVE r \in RowsIn(s) <=> \E i \in D : r = row(o, i)
    <3>1. \A i \in D : r \in RowsOf(s[i]) <=> r = row(o, i)
      BY <2>1
    <3>2. QED BY <2>8, <3>1
  <2>10. QED BY <2>3, <2>7, <2>9
<1> HIDE DEF st, u
<1>14. IsFiniteSet(H) /\ H # {}
  <2> DEFINE f == [o \in O |-> st(o)]
  <2>1. f \in Surjection(O, H)
    BY DEF Surjection
  <2>2. IsFiniteSet(O)
    BY <1>7, FS_Interval
  <2>3. 0 \in O
    BY <1>7, <1>8
  <2>4. st(0) \in H
    BY <2>3
  <2> HIDE DEF f, H, O
  <2>5. IsFiniteSet(H)
    BY <2>1, <2>2, FS_Surjection
  <2>6. QED BY <2>4, <2>5
<1>15. ASSUME NEW s \in H PROVE GoodState(s, n, k, TRUE)
  <2>1. PICK o \in O : s = st(o)
    OBVIOUS
  <2>2. QED BY <1>13, <2>1
<1>16. ASSUME NEW s \in H, NEW t \in H, s # t PROVE Apart(RowsIn(s), RowsIn(t))
  <2>1. PICK o \in O : s = st(o)
    OBVIOUS
  <2>2. PICK q \in O : t = st(q)
    OBVIOUS
  <2>3. o # q
    BY <1>16, <2>1, <2>2
  <2> SUFFICES ASSUME NEW r, r \in RowsIn(s), r \in RowsIn(t) PROVE FALSE
    BY DEF Apart
  <2>4. PICK i \in D : r = row(o, i)
    <3>1. \A x : x \in RowsIn(st(o)) <=> \E i \in D : x = row(o, i)
      BY <1>13
    <3>2. QED BY <2>1, <3>1
  <2>5. PICK j \in D : r = row(q, j)
    <3>1. \A x : x \in RowsIn(st(q)) <=> \E h \in D : x = row(q, h)
      BY <1>13
    <3>2. QED BY <2>2, <3>1
  <2>6. row(o, i) = row(q, j)
    BY <2>4, <2>5
  <2>7. o = q
    BY <1>11, <2>6
  <2>8. QED BY <2>3, <2>7
<1>17. ASSUME NEW r \in 1..n PROVE \E s \in H : r \in RowsIn(s)
  <2>1. PICK o \in O, i \in D : r = row(o, i)
    BY <1>12
  <2>2. st(o) \in H /\ r \in RowsIn(st(o))
    BY <1>13, <2>1
  <2>3. QED BY <2>2
<1> HIDE DEF H
<1>18. QED BY <1>6, <1>14, <1>15, <1>16, <1>17 DEF GoodHeap

-----------------------------------------------------------------------------
(***************************************************************************)
(* The rows in k parts: each row in one part, and each part has a row.     *)
(***************************************************************************)
Parted(parts, n, k, e) ==
    /\ parts \in [1..k -> Seq(1..n)]
    /\ \A i \in 1..k : Distinct(parts[i]) /\ parts[i] # <<>>
    /\ \A i, j \in 1..k : i # j => Apart(ToSet(parts[i]), ToSet(parts[j]))
    /\ \A r \in 1..n : \E i \in 1..k : r \in ToSet(parts[i])
    /\ e => \A i, j \in 1..k : Len(parts[i]) = Len(parts[j])

\* When there are not fewer rows than Sets, no Set of a State with all the rows is
\* empty.
LEMMA NoneIsEmpty ==
    ASSUME NEW n \in Nat, NEW k \in Nat \ {0}, n >= k, NEW e, NEW s,
           GoodState(s, n, k, e), \A r \in 1..n : r \in RowsIn(s)
    PROVE  \A i \in 1..k : ~IsEmpty(s[i])
<1> SUFFICES ASSUME NEW i0 \in 1..k, IsEmpty(s[i0]) PROVE FALSE
  OBVIOUS
<1>1. GoodSets(s, n, k, e)
  BY DEF GoodState
<1>2. \A i \in 1..k : Len(s[i].items) <= 1
  BY <1>1 DEF GoodSets
<1>3. \A r \in 1..n : \E i \in 1..k : r \in RowsOf(s[i])
  BY <1>1, RowsInSets
<1>4. RowsOf(s[i0]) = {}
  BY DEF IsEmpty, RowsOf, ToSet
<1> DEFINE U == (1..k) \ {i0}
           g == [r \in 1..n |-> CHOOSE i \in U : r \in RowsOf(s[i])]
<1>5. ASSUME NEW r \in 1..n PROVE g[r] \in U /\ r \in RowsOf(s[g[r]])
  <2>1. \E i \in U : r \in RowsOf(s[i])
    BY <1>3, <1>4
  <2>2. QED BY <2>1
<1>6. g \in [1..n -> U]
  BY <1>5
<1> HIDE DEF g
<1>7. IsFiniteSet(U) /\ Cardinality(U) = k - 1
  <2>1. IsFiniteSet(1..k) /\ Cardinality(1..k) = k
    BY FS_Interval
  <2>2. QED BY <2>1, FS_RemoveElement
<1>8. IsFiniteSet(1..n) /\ Cardinality(1..n) = n
  <2>1. 1 \in Int /\ n \in Int /\ 1 <= n
    OBVIOUS
  <2>2. QED BY <2>1, FS_Interval
<1>9. Cardinality(U) < Cardinality(1..n)
  BY <1>7, <1>8
<1> HIDE DEF U
<1>10. PICK x \in 1..n, y \in 1..n : x # y /\ g[x] = g[y]
  BY <1>6, <1>7, <1>8, <1>9, FS_PigeonHole
<1>11. PICK i \in 1..k : x \in RowsOf(s[i]) /\ y \in RowsOf(s[i])
  BY <1>5, <1>10 DEF U
<1> DEFINE q == s[i].items
<1>12. Len(q) <= 1 /\ q \in Seq(1..n)
  BY <1>1, <1>2 DEF GoodSets, SetsOf
<1> HIDE DEF q
<1>13. DOMAIN q = 1..Len(q) /\ Len(q) \in Nat
  BY <1>12, LenProperties
<1>14. \A j \in DOMAIN q : j = 1
  BY <1>12, <1>13
<1>15. x \in {q[j] : j \in DOMAIN q} /\ y \in {q[j] : j \in DOMAIN q}
  BY <1>11 DEF RowsOf, ToSet, q
<1>16. QED BY <1>10, <1>14, <1>15

\* The State that is left when all are merged.
LEMMA KarmarkarKarpLast ==
    ASSUME NEW n \in Nat, NEW k \in Nat \ {0}, n >= k, NEW e \in BOOLEAN, e => n % k = 0,
           NEW load \in [1..n -> Nat \ {0}], NEW B \in SUBSET Int
    PROVE  \E s : /\ GoodState(s, n, k, e)
                  /\ \A r \in 1..n : r \in RowsIn(s)
                  /\ KarmarkarKarp(load, k, e) = [i \in 1..k |-> s[i].items]
                  /\ EvenHeap(FirstStates(load, k, e), load, k, B) => EvenState(s, load, k, B)
<1> DEFINE first == FirstStates(load, k, e)
           turns == Cardinality(first) - 1
           f == CHOOSE f : HeapsUpTo(f, first, turns)
           last == Popped(f[turns])
           keeps(H) == EvenHeap(first, load, k, B) => EvenHeap(H, load, k, B)
<1>1. n \in Nat \ {0}
  OBVIOUS
<1>2. GoodHeap(first, n, k, e)
  <2>1. CASE e
    <3>1. e = TRUE
      BY <2>1
    <3>2. QED BY <1>1, <3>1, GroupStates
  <2>2. CASE ~e
    <3>1. e = FALSE
      BY <2>2
    <3>2. QED BY <1>1, <3>1, SingleStates
  <2>3. QED BY <2>1, <2>2
<1>3. KarmarkarKarp(load, k, e) = [i \in 1..k |-> last[i].items]
  BY DEF KarmarkarKarp, HeapsUpTo
<1>19. \A r \in 1..n : load[r] \in Nat
  OBVIOUS
<1>20. load \in [1..n -> Nat] /\ n \in Nat
  BY <1>19
<1> HIDE DEF first
<1>4. turns \in Nat
  <2>1. IsFiniteSet(first) /\ first # {}
    BY <1>2 DEF GoodHeap
  <2>2. Cardinality(first) \in Nat /\ Cardinality(first) # 0
    BY <2>1, FS_CardinalityType, FS_EmptySet
  <2>3. QED BY <2>2
<1>5. Cardinality(first) = turns + 1
  <2>1. Cardinality(first) \in Int
    BY <1>2, FS_CardinalityType DEF GoodHeap
  <2>2. QED BY <2>1
<1> HIDE DEF turns
<1>6. HeapsUpTo(f, first, turns)
  BY <1>4, HeapsUpToExists
<1> HIDE DEF f
<1>7. \A i \in 0..turns : f[i] = IF i = 0 THEN first ELSE AfterMerge(f[i - 1])
  BY <1>6 DEF HeapsUpTo
<1> DEFINE Bad == {i \in 0..turns : ~(/\ GoodHeap(f[i], n, k, e) /\ keeps(f[i])
                               /\ Cardinality(f[i]) = turns + 1 - i)}
<1>8. Bad = {}
  <2> SUFFICES ASSUME Bad # {} PROVE FALSE
    OBVIOUS
  <2>1. PICK i \in Bad : \A m \in Bad : i <= m
    <3>1. Bad \in SUBSET Nat
      OBVIOUS
    <3> HIDE DEF Bad
    <3>2. QED BY <3>1, SmallestNumber
  <2>2. i \in 0..turns /\ ~(GoodHeap(f[i], n, k, e) /\ keeps(f[i]) /\ Cardinality(f[i]) = turns + 1 - i)
    OBVIOUS
  <2>3. CASE i = 0
    <3>1. f[i] = first
      BY <1>7, <2>2, <2>3
    <3>2. QED BY <1>2, <1>4, <1>5, <2>2, <2>3, <3>1
  <2>4. CASE i > 0
    <3>1. i - 1 \in 0..turns
      BY <1>4, <2>2, <2>4
    <3>2. i - 1 \notin Bad
      <4> HIDE DEF Bad
      <4>1. QED BY <2>1, <2>2, <2>4
    <3>3. GoodHeap(f[i - 1], n, k, e) /\ keeps(f[i - 1]) /\ Cardinality(f[i - 1]) = turns + 1 - (i - 1)
      BY <3>1, <3>2
    <3>4. f[i] = AfterMerge(f[i - 1])
      BY <1>7, <2>2, <2>4
    <3> DEFINE H == f[i - 1]
    <3> HIDE DEF H
    <3>5. GoodHeap(H, n, k, e) /\ keeps(H) /\ Cardinality(H) = turns + 1 - (i - 1) /\ f[i] = AfterMerge(H)
      BY <3>3, <3>4 DEF H
    <3>6. Cardinality(H) > 1
      BY <1>4, <2>2, <3>5
    <3>7. GoodHeap(AfterMerge(H), n, k, e) /\ Cardinality(AfterMerge(H)) = Cardinality(H) - 1
      BY <3>5, <3>6, HeapAfterMerge
    <3>8. Cardinality(f[i]) = turns + 1 - i
      BY <1>4, <2>2, <3>5, <3>7
    <3>9. keeps(f[i])
      BY <1>20, <3>5, <3>6, HeapStaysEven
    <3>10. QED BY <2>2, <3>5, <3>7, <3>8, <3>9
  <2>5. QED BY <2>2, <2>3, <2>4
<1>9. GoodHeap(f[turns], n, k, e) /\ keeps(f[turns]) /\ Cardinality(f[turns]) = 1
  <2>1. turns \in 0..turns /\ turns \notin Bad
    BY <1>4, <1>8
  <2>2. turns + 1 - turns = 1
    BY <1>4
  <2>3. QED BY <2>1, <2>2
<1> DEFINE H == f[turns]
<1> HIDE DEF H
<1>10. GoodHeap(H, n, k, e) /\ keeps(H) /\ Cardinality(H) = 1 /\ last = Popped(H)
  BY <1>9 DEF H
<1> HIDE DEF last
<1>11. last \in H
  BY <1>10, PoppedIsFirst DEF GoodHeap
<1>12. \A s \in H : s = last
  <2>1. \E x : H = {x}
    BY <1>10, FS_Singleton DEF GoodHeap
  <2>2. QED BY <1>11, <2>1
<1>13. GoodState(last, n, k, e) /\ \A r \in 1..n : r \in RowsIn(last)
  BY <1>10, <1>11, <1>12 DEF GoodHeap
<1>14. EvenHeap(first, load, k, B) => EvenState(last, load, k, B)
  BY <1>10, <1>11 DEF EvenHeap
<1>15. QED BY <1>3, <1>13, <1>14 DEF first

\* karmarkar_karp divides the rows.
LEMMA KarmarkarKarpParts ==
    ASSUME NEW n \in Nat, NEW k \in Nat \ {0}, n >= k, NEW e \in BOOLEAN, e => n % k = 0,
           NEW load \in [1..n -> Nat \ {0}]
    PROVE  Parted(KarmarkarKarp(load, k, e), n, k, e)
<1>1. PICK last : /\ GoodState(last, n, k, e)
                  /\ \A r \in 1..n : r \in RowsIn(last)
                  /\ KarmarkarKarp(load, k, e) = [i \in 1..k |-> last[i].items]
  <2> DEFINE B == {}
  <2>1. B \in SUBSET Int
    OBVIOUS
  <2> HIDE DEF B
  <2>2. \E s : /\ GoodState(s, n, k, e)
               /\ \A r \in 1..n : r \in RowsIn(s)
               /\ KarmarkarKarp(load, k, e) = [i \in 1..k |-> s[i].items]
               /\ EvenHeap(FirstStates(load, k, e), load, k, B) => EvenState(s, load, k, B)
    BY <2>1, KarmarkarKarpLast
  <2>3. QED BY <2>2
<1>2. GoodSets(last, n, k, e) /\ \A i \in 1..k : ~IsEmpty(last[i])
  BY <1>1, NoneIsEmpty DEF GoodState
<1>3. \A r \in 1..n : \E i \in 1..k : r \in RowsOf(last[i])
  BY <1>1, <1>2, RowsInSets
<1> DEFINE parts == [i \in 1..k |-> last[i].items]
<1>4. \A i \in 1..k : parts[i] = last[i].items /\ last[i].items \in Seq(1..n)
  BY <1>2 DEF GoodSets, SetsOf
<1>5. parts \in [1..k -> Seq(1..n)]
  BY <1>4
<1>6. parts = KarmarkarKarp(load, k, e)
  BY <1>1
<1> HIDE DEF parts
<1>7. \A i \in 1..k : Distinct(parts[i]) /\ parts[i] # <<>>
  BY <1>2, <1>4 DEF GoodSets, GoodSet, IsEmpty
<1>8. \A i, j \in 1..k : i # j => Apart(ToSet(parts[i]), ToSet(parts[j]))
  BY <1>2, <1>4 DEF GoodSets, RowsOf
<1>9. \A r \in 1..n : \E i \in 1..k : r \in ToSet(parts[i])
  BY <1>3, <1>4 DEF RowsOf
<1>10. e => \A i, j \in 1..k : Len(parts[i]) = Len(parts[j])
  BY <1>2, <1>4 DEF GoodSets
<1>11. QED BY <1>5, <1>6, <1>7, <1>8, <1>9, <1>10 DEF Parted

\* A sequence of numbers up to n that has each of them once.
LEMMA OnceEach ==
    ASSUME NEW n \in Nat, NEW q \in Seq(1..n), Distinct(q),
           \A r \in 1..n : r \in ToSet(q)
    PROVE  Len(q) = n /\ Permutes(q, n)
<1> DEFINE L == Len(q)
           D == 1..L
           E == 1..n
<1>1. L \in Nat /\ DOMAIN q = D /\ q \in [D -> E]
  BY LenProperties
<1>2. \A i, j \in D : q[i] = q[j] => i = j
  BY <1>1 DEF Distinct
<1>3. \A r \in E : \E i \in D : q[i] = r
  BY <1>1 DEF ToSet
<1>4. IsFiniteSet(D) /\ Cardinality(D) = L
  <2>1. 1 \in Int /\ L \in Int
    BY <1>1
  <2> HIDE DEF L
  <2>2. IsFiniteSet(1..L) /\ Cardinality(1..L) = IF 1 > L THEN 0 ELSE L - 1 + 1
    BY <2>1, FS_Interval
  <2>3. QED BY <1>1, <2>2
<1>5. IsFiniteSet(E) /\ Cardinality(E) = n
  <2>1. 1 \in Int /\ n \in Int
    OBVIOUS
  <2>2. IsFiniteSet(1..n) /\ Cardinality(1..n) = IF 1 > n THEN 0 ELSE n - 1 + 1
    BY <2>1, FS_Interval
  <2>3. QED BY <2>2
<1> HIDE DEF L, D, E
<1>6. q \in Surjection(D, E)
  BY <1>1, <1>3 DEF Surjection
<1>7. q \in Injection(D, E)
  BY <1>1, <1>2 DEF Injection, IsInjective
<1>8. q \in Bijection(D, E)
  BY <1>6, <1>7 DEF Bijection
<1>9. Cardinality(D) = Cardinality(E)
  BY <1>4, <1>8, FS_Bijection DEF ExistsBijection
<1>10. L = n
  BY <1>4, <1>5, <1>9
<1>11. D = 1..n /\ E = 1..n
  BY <1>10 DEF D, E
<1>12. Permutes(q, n)
  BY <1>1, <1>2, <1>3, <1>11 DEF Permutes
<1>13. QED BY <1>10, <1>12 DEF L

\* The parts one after the other have each row once.
LEMMA FlatOfParts ==
    ASSUME NEW n \in Nat, NEW k \in Nat \ {0}, NEW e, NEW parts, Parted(parts, n, k, e)
    PROVE  /\ parts \in Seq(Seq(1..n)) /\ Len(parts) = k
           /\ FlattenSeq(parts) = Flat(parts, k)
           /\ FlattenSeq(parts) \in Seq(1..n) /\ Len(FlattenSeq(parts)) = n
           /\ Permutes(FlattenSeq(parts), n)
           /\ e => \A i \in 1..k : Len(parts[i]) * k = n
<1> DEFINE S == Seq(1..n)
           m == Len(parts[1])
<1>1. /\ parts \in [1..k -> S]
      /\ \A i \in 1..k : Distinct(parts[i]) /\ parts[i] # <<>>
      /\ \A i, j \in 1..k : i # j => Apart(ToSet(parts[i]), ToSet(parts[j]))
      /\ \A r \in 1..n : \E i \in 1..k : r \in ToSet(parts[i])
      /\ e => \A i, j \in 1..k : Len(parts[i]) = Len(parts[j])
  BY DEF Parted
<1>2. parts \in Seq(S) /\ Len(parts) = k
  <2> HIDE DEF S
  <2>1. QED BY <1>1
<1>3. /\ FlattenSeq(parts) = Flat(parts, k)
      /\ Flat(parts, 0) = <<>>
      /\ \A j \in 1..k : Flat(parts, j) = Cat(Flat(parts, j - 1), parts[j])
      /\ \A j \in 0..k : Flat(parts, j) \in Seq(1..n)
  BY <1>2, FlatIs
<1>4. m \in Nat /\ 1 \in 1..k
  BY <1>1
<1> HIDE DEF m, S
<1> DEFINE Good(j) ==
              /\ Distinct(Flat(parts, j))
              /\ \A r : r \in ToSet(Flat(parts, j)) <=> \E i \in 1..j : r \in ToSet(parts[i])
              /\ e => Len(Flat(parts, j)) = m * j
<1>5. Good(0)
  <2>1. Distinct(<<>>) /\ ToSet(<<>>) = {} /\ Len(<<>>) = 0 /\ 1..0 = {}
    BY DEF Distinct, ToSet
  <2>2. m * 0 = 0
    BY <1>4
  <2>3. QED BY <1>3, <2>1, <2>2
<1>6. ASSUME NEW j \in 1..k, Good(j - 1) PROVE Good(j)
  <2> DEFINE u == Flat(parts, j - 1)
             v == parts[j]
  <2>1. j - 1 \in 0..k /\ u \in Seq(1..n) /\ v \in Seq(1..n) /\ Flat(parts, j) = Cat(u, v)
    <3>1. j - 1 \in 0..k
      OBVIOUS
    <3>2. v \in S
      BY <1>1
    <3>3. QED BY <1>3, <3>1, <3>2 DEF S
  <2>2. Distinct(u) /\ Distinct(v)
    BY <1>1, <1>6
  <2>3. \A r : r \in ToSet(u) <=> \E i \in 1..j - 1 : r \in ToSet(parts[i])
    BY <1>6
  <2>4. e => Len(u) = m * (j - 1) /\ Len(v) = m
    BY <1>1, <1>4, <1>6 DEF m
  <2>5. Apart(ToSet(u), ToSet(v))
    <3> SUFFICES ASSUME NEW r \in ToSet(u) PROVE r \notin ToSet(v)
      BY DEF Apart
    <3>1. PICK i \in 1..j - 1 : r \in ToSet(parts[i])
      BY <2>3
    <3>2. i \in 1..k /\ i # j
      OBVIOUS
    <3>3. QED BY <1>1, <3>1, <3>2 DEF Apart
  <2> HIDE DEF u, v, Good
  <2>6. /\ Len(Cat(u, v)) = Len(u) + Len(v)
        /\ Distinct(Cat(u, v)) /\ ToSet(Cat(u, v)) = ToSet(u) \cup ToSet(v)
    BY <2>1, <2>2, <2>5, ConcatSets
  <2>7. e => Len(Cat(u, v)) = m * j
    <3>1. m * (j - 1) + m = m * j
      BY <1>4
    <3>2. QED BY <2>4, <2>6, <3>1
  <2>8. ASSUME NEW r
        PROVE  r \in ToSet(Cat(u, v)) <=> \E i \in 1..j : r \in ToSet(parts[i])
    <3>1. \A i : i \in 1..j <=> i \in 1..j - 1 \/ i = j
      OBVIOUS
    <3>2. QED BY <2>3, <2>6, <3>1 DEF v
  <2>9. QED BY <2>1, <2>6, <2>7, <2>8 DEF Good
<1>7. Good(k)
  <2> HIDE DEF Good
  <2> DEFINE Bad == {j \in 0..k : ~Good(j)}
  <2>1. SUFFICES ASSUME Bad # {} PROVE FALSE
    OBVIOUS
  <2>2. PICK j \in Bad : \A i \in Bad : j <= i
    <3>1. Bad \in SUBSET Nat
      OBVIOUS
    <3> HIDE DEF Bad
    <3>2. QED BY <2>1, <3>1, SmallestNumber
  <2>3. j \in 0..k /\ ~Good(j)
    OBVIOUS
  <2>4. j # 0
    BY <1>5, <2>3
  <2>5. j \in 1..k /\ j - 1 \in 0..k /\ ~(j <= j - 1)
    BY <2>3, <2>4
  <2>6. j - 1 \notin Bad
    <3> HIDE DEF Bad
    <3>1. QED BY <2>2, <2>5
  <2>7. Good(j - 1)
    BY <2>5, <2>6
  <2>8. QED BY <1>6, <2>3, <2>5, <2>7
<1> DEFINE q == Flat(parts, k)
<1>8. /\ Distinct(q) /\ q \in Seq(1..n)
      /\ \A r : r \in ToSet(q) <=> \E i \in 1..k : r \in ToSet(parts[i])
      /\ e => Len(q) = m * k
  BY <1>3, <1>7
<1> HIDE DEF q, Good
<1>9. \A r \in 1..n : r \in ToSet(q)
  BY <1>1, <1>8
<1>10. Len(q) = n /\ Permutes(q, n)
  BY <1>8, <1>9, OnceEach
<1>11. e => \A i \in 1..k : Len(parts[i]) * k = n
  BY <1>1, <1>4, <1>8, <1>10 DEF m
<1>12. QED BY <1>2, <1>3, <1>8, <1>10, <1>11 DEF q, S

\* Each part in another order.
LEMMA ReorderedParts ==
    ASSUME NEW n \in Nat, NEW k \in Nat \ {0}, NEW e, NEW parts, Parted(parts, n, k, e),
           NEW others, DOMAIN others = 1..k, others = [i \in 1..k |-> others[i]],
           \A i \in 1..k : \E p : Reordered(parts[i], p, others[i])
    PROVE  Parted(others, n, k, e)
<1>1. /\ \A i \in 1..k : parts[i] \in Seq(1..n) /\ Distinct(parts[i]) /\ parts[i] # <<>>
      /\ \A i, j \in 1..k : i # j => Apart(ToSet(parts[i]), ToSet(parts[j]))
      /\ \A r \in 1..n : \E i \in 1..k : r \in ToSet(parts[i])
      /\ e => \A i, j \in 1..k : Len(parts[i]) = Len(parts[j])
  BY DEF Parted
<1>2. ASSUME NEW i \in 1..k
      PROVE  /\ others[i] \in Seq(1..n) /\ Len(others[i]) = Len(parts[i])
             /\ ToSet(others[i]) = ToSet(parts[i])
             /\ Distinct(others[i]) /\ others[i] # <<>>
  <2> DEFINE s == parts[i]
             t == others[i]
  <2>1. s \in Seq(1..n) /\ Distinct(s) /\ s # <<>>
    BY <1>1
  <2>2. PICK p : Reordered(s, p, t)
    OBVIOUS
  <2> HIDE DEF s, t
  <2>3. t \in Seq(1..n) /\ Len(t) = Len(s) /\ ToSet(t) = ToSet(s) /\ Distinct(t)
    BY <2>1, <2>2, ReorderedFacts
  <2>4. t # <<>>
    BY <2>1, <2>3, EmptySeq, LenProperties
  <2>5. QED BY <2>3, <2>4 DEF s, t
<1>3. others \in [1..k -> Seq(1..n)]
  BY <1>2
<1>4. \A i, j \in 1..k : i # j => Apart(ToSet(others[i]), ToSet(others[j]))
  BY <1>1, <1>2
<1>5. \A r \in 1..n : \E i \in 1..k : r \in ToSet(others[i])
  BY <1>1, <1>2
<1>6. e => \A i, j \in 1..k : Len(others[i]) = Len(others[j])
  BY <1>1, <1>2
<1>7. QED BY <1>2, <1>3, <1>4, <1>5, <1>6 DEF Parted

\* get_seqlen_balanced_partitions divides the rows.
LEMMA BalancedParts ==
    ASSUME NEW n \in Nat, NEW k \in Nat \ {0}, n >= k, NEW e \in BOOLEAN, e => n % k = 0,
           NEW load \in [1..n -> Nat \ {0}]
    PROVE  Parted(BalancedPartitions(load, k, e), n, k, e)
<1> DEFINE parts == KarmarkarKarp(load, k, e)
           others == [i \in DOMAIN parts |-> Ascending(parts[i])]
<1>1. Parted(parts, n, k, e)
  BY KarmarkarKarpParts
<1>2. BalancedPartitions(load, k, e) = others
  BY DEF BalancedPartitions
<1> HIDE DEF parts
<1>3. DOMAIN parts = 1..k /\ \A i \in 1..k : parts[i] \in Seq(1..n)
  BY <1>1 DEF Parted
<1>4. /\ DOMAIN others = 1..k /\ others = [i \in 1..k |-> others[i]]
      /\ \A i \in 1..k : others[i] = Ascending(parts[i])
  BY <1>3
<1> HIDE DEF others
<1>5. \A i \in 1..k : \E p : Reordered(parts[i], p, others[i])
  BY <1>3, <1>4, AscendingReorders
<1>6. Parted(others, n, k, e)
  BY <1>1, <1>4, <1>5, ReorderedParts
<1>7. QED BY <1>2, <1>6

\* The assertions of get_seqlen_balanced_partitions and karmarkar_karp never fail, for
\* any number of rows that is not below that of the parts and any positive workloads.
THEOREM PartitionsDivide ==
    ASSUME NEW n \in Nat, NEW k \in Nat \ {0}, NEW e \in BOOLEAN,
           NEW load \in [1..n -> Nat \ {0}], CanDivide(load, k, e)
    PROVE  Divides(load, k, e, BalancedPartitions(load, k, e))
<1> DEFINE parts == BalancedPartitions(load, k, e)
<1>1. Len(load) = n /\ DOMAIN load = 1..n
  OBVIOUS
<1>2. n >= k /\ (e => n % k = 0)
  BY <1>1 DEF CanDivide
<1>3. Parted(parts, n, k, e)
  BY <1>2, BalancedParts
<1> HIDE DEF parts
<1>4. /\ Len(parts) = k
      /\ e => \A i \in 1..k : Len(parts[i]) * k = n
  BY <1>3, FlatOfParts
<1>5. /\ \A i \in 1..k : parts[i] # <<>> /\ parts[i] \in Seq(1..n)
      /\ \A r \in 1..n : \E i \in 1..k : r \in ToSet(parts[i])
  BY <1>3 DEF Parted
<1>6. ASSUME NEW i \in 1..k PROVE ToSet(parts[i]) \subseteq 1..n
  <2> DEFINE s == parts[i]
  <2>1. s \in Seq(1..n)
    BY <1>5
  <2> HIDE DEF s
  <2>2. \A j \in DOMAIN s : s[j] \in 1..n
    BY <2>1
  <2>3. QED BY <2>2 DEF ToSet, s
<1>7. UNION {ToSet(parts[i]) : i \in 1..k} = 1..n
  BY <1>5, <1>6
<1>8. QED BY <1>1, <1>4, <1>5, <1>7 DEF Divides, parts

-----------------------------------------------------------------------------
(***************************************************************************)
(* How even the parts are.                                                 *)
(***************************************************************************)

\* The rows by their work, cut into groups of k, and by how much the heaviest row of a
\* group exceeds its lightest.
Sorted(load) == ByWork(load, [i \in DOMAIN load |-> i])
Gap(load, k, o) == load[Sorted(load)[k * o + k]] - load[Sorted(load)[k * o + 1]]
Gaps(load, k) == {Gap(load, k, o) : o \in 0..(Len(load) \div k) - 1}

\* The work rises.
LEMMA WorkRises ==
    ASSUME NEW n \in Nat, NEW load \in [1..n -> Nat]
    PROVE  /\ Sorted(load) \in [1..n -> 1..n]
           /\ \A i, j \in 1..n : i <= j => load[Sorted(load)[i]] <= load[Sorted(load)[j]]
<1> DEFINE D == 1..n
           all == [i \in D |-> i]
           key == [i \in DOMAIN all |-> <<load[all[i]], all[i], 0>>]
           t == SortedBy(all, key)
<1>1. all \in Seq(D) /\ Len(all) = n /\ \A i \in D : all[i] = i
  OBVIOUS
<1>2. DOMAIN load = D /\ DOMAIN all = D
  OBVIOUS
<1>3. Sorted(load) = t
  BY <1>2 DEF Sorted, ByWork
<1>4. \A i \in D : key[i] = <<load[i], i, 0>> /\ load[i] \in Nat
  BY <1>1, <1>2
<1>5. key \in [1..Len(all) -> Keys]
  <2>1. \A i \in D : key[i] \in Keys
    BY <1>4 DEF Keys
  <2>2. key = [i \in D |-> key[i]]
    BY <1>2
  <2> HIDE DEF key
  <2>3. QED BY <1>1, <2>1, <2>2
<1> HIDE DEF key, all
<1>6. PICK p : SortedAs(all, key, p, t)
  BY <1>1, <1>5, SortedByIsSorted
<1> HIDE DEF t
<1>7. /\ \A i \in D : p[i] \in D
      /\ t = [i \in D |-> all[p[i]]]
      /\ \A i, j \in D : i < j => ~Less(key[p[j]], key[p[i]])
  BY <1>1, <1>6 DEF SortedAs, Permutes
<1>8. \A i \in D : t[i] = p[i]
  BY <1>1, <1>7
<1>9. t \in [D -> D]
  BY <1>1, <1>7
<1>10. ASSUME NEW i \in D, NEW j \in D, i <= j
       PROVE  load[t[i]] <= load[t[j]]
  <2> DEFINE x == p[i]
             y == p[j]
  <2>1. x \in D /\ y \in D /\ t[i] = x /\ t[j] = y /\ (i < j => ~Less(key[y], key[x]))
    BY <1>7, <1>8
  <2>2. i = j => x = y
    OBVIOUS
  <2> HIDE DEF x, y
  <2>3. /\ key[x] = <<load[x], x, 0>> /\ key[y] = <<load[y], y, 0>>
        /\ load[x] \in Nat /\ load[y] \in Nat
    BY <1>4, <2>1
  <2>4. CASE i = j
    BY <2>1, <2>2, <2>3, <2>4
  <2>5. CASE i < j
    <3>1. ~(load[y] < load[x])
      BY <2>1, <2>3, <2>5 DEF Less
    <3>2. QED BY <2>1, <2>3, <3>1
  <2>6. QED BY <1>10, <2>4, <2>5
<1>11. QED BY <1>3, <1>9, <1>10

\* The groups of rows of similar work are even.
LEMMA GroupsAreEven ==
    ASSUME NEW n \in Nat \ {0}, NEW k \in Nat \ {0}, n % k = 0,
           NEW load \in [1..n -> Nat \ {0}]
    PROVE  EvenHeap(FirstStates(load, k, TRUE), load, k, Gaps(load, k))
<1> DEFINE sorted == Sorted(load)
           c == n \div k
           O == 0..c - 1
           D == 1..k
           u(o) == [i \in D |-> OneRow(load, sorted[k * o + i])]
           B == Gaps(load, k)
<1>1. \A r \in 1..n : load[r] \in Nat \ {0}
  OBVIOUS
<1>2. load \in [1..n -> Nat] /\ n \in Nat /\ DOMAIN load = 1..n /\ Len(load) = n
  BY <1>1
<1>3. FirstStates(load, k, TRUE) = {State(u(o)) : o \in O}
  BY <1>2 DEF FirstStates, Sorted
<1>4. /\ sorted \in [1..n -> 1..n]
      /\ \A i, j \in 1..n : i <= j => load[sorted[i]] <= load[sorted[j]]
  BY <1>2, WorkRises
<1>5. c \in Nat /\ \A o \in O, i \in D : k * o + i \in 1..n
  <2>1. n \div k \in Nat /\ \A o \in 0..(n \div k) - 1, i \in 1..k : k * o + i \in 1..n
      <3>1. n \in Nat
      BY <1>2
    <3>2. QED BY <3>1, GroupPlaces DEF Grouped
  <2>2. QED BY <2>1
<1>6. B = {Gap(load, k, o) : o \in O}
  BY <1>2 DEF Gaps
<1> HIDE DEF sorted, c
<1>7. ASSUME NEW o \in O PROVE EvenState(State(u(o)), load, k, B)
  <2> DEFINE row(i) == sorted[k * o + i]
             s == u(o)
  <2>1. ASSUME NEW i \in D PROVE row(i) \in 1..n /\ s[i] = OneRow(load, row(i))
    BY <1>4, <1>5
  <2>2. s = [i \in D |-> s[i]]
    OBVIOUS
  <2>3. ASSUME NEW i \in D, NEW j \in D, i <= j PROVE load[row(i)] <= load[row(j)]
    <3> DEFINE x == k * o + i
               y == k * o + j
    <3>1. x \in 1..n /\ y \in 1..n
      BY <1>5
    <3>2. k * o \in Int
      BY <1>5
    <3>3. x <= y
      BY <2>3, <3>2
    <3> HIDE DEF x, y
    <3>4. load[sorted[x]] <= load[sorted[y]]
      BY <1>4, <3>1, <3>3
    <3>5. QED BY <3>4 DEF x, y
  <2>4. Gap(load, k, o) = load[row(k)] - load[row(1)] /\ 1 \in D /\ k \in D
    BY DEF Gap, sorted
  <2> HIDE DEF s, row
  <2>5. ASSUME NEW i \in D
        PROVE  /\ s[i] \in SetsOf(n) /\ s[i].sum = load[row(i)]
               /\ RowsOf(s[i]) = {row(i)}
    <3> DEFINE r == row(i)
    <3>1. r \in 1..n /\ s[i] = OneRow(load, r)
      BY <2>1
    <3> HIDE DEF r
    <3>2. OneRow(load, r) \in SetsOf(n) /\ RowsOf(OneRow(load, r)) = {r}
      BY <3>1, OneRowSet
    <3>3. OneRow(load, r).sum = load[r]
      BY DEF OneRow
    <3>4. QED BY <3>1, <3>2, <3>3 DEF r
  <2>6. s \in [1..k -> SetsOf(n)]
    BY <2>2, <2>5
  <2>7. Weighed(s, load, k)
    <3> SUFFICES ASSUME NEW i \in D PROVE s[i].sum = Total(load, RowsOf(s[i]))
      BY DEF Weighed
    <3> DEFINE r == row(i)
    <3>1. r \in 1..n /\ s[i].sum = load[r] /\ RowsOf(s[i]) = {r}
      BY <2>1, <2>5
    <3> HIDE DEF r
    <3>2. \A S \in SUBSET (1..n) : \A x \in S : Total(load, S) = load[x] + Total(load, S \ {x})
      BY <1>2, TotalWithout
    <3>3. Total(load, {r}) = load[r] + Total(load, {r} \ {r})
      BY <3>1, <3>2
    <3>4. Total(load, {}) = 0
      BY <1>2, TotalIs
    <3>5. {r} \ {r} = {} /\ load[r] \in Nat
      BY <1>2, <3>1
    <3>8. Total(load, {r} \ {r}) = Total(load, {})
      BY <3>5
    <3>6. Total(load, {r}) = load[r]
      BY <3>3, <3>4, <3>5, <3>8
    <3>7. QED BY <3>1, <3>6
  <2>8. Even(s, k, B)
    <3>1. Gap(load, k, o) \in B
      BY <1>6
    <3>2. ASSUME NEW i \in D, NEW j \in D
          PROVE  s[i].sum - s[j].sum <= Gap(load, k, o)
      <4> DEFINE a == load[row(i)]
                 b == load[row(j)]
                 top == load[row(k)]
                 low == load[row(1)]
      <4>1. a \in Nat /\ b \in Nat /\ top \in Nat /\ low \in Nat
        BY <1>2, <2>1, <2>4
      <4>2. a <= top /\ low <= b
        <5>1. i <= k /\ 1 <= j
          OBVIOUS
        <5>2. QED BY <2>3, <2>4, <5>1
      <4>3. s[i].sum = a /\ s[j].sum = b /\ Gap(load, k, o) = top - low
        BY <2>4, <2>5
      <4> HIDE DEF a, b, top, low
      <4>4. QED BY <4>1, <4>2, <4>3
    <3>3. QED BY <3>1, <3>2 DEF Even
  <2>9. EvenState(State(s), load, k, B)
    <3>1. k \in Nat
      OBVIOUS
    <3> HIDE DEF B
    <3>2. QED BY <1>2, <2>6, <2>7, <2>8, <3>1, StateIsEven
  <2>10. QED BY <2>9 DEF s
<1> HIDE DEF u
<1>8. QED BY <1>3, <1>7 DEF EvenHeap

\* The parts are as even as the States at first.
LEMMA PartsOfEven ==
    ASSUME NEW n \in Nat, NEW k \in Nat \ {0}, n >= k, NEW e \in BOOLEAN, e => n % k = 0,
           NEW load \in [1..n -> Nat \ {0}], NEW B \in SUBSET Int,
           EvenHeap(FirstStates(load, k, e), load, k, B)
    PROVE  \E b \in B : \A i, j \in 1..k :
               LET part(m) == ToSet(BalancedPartitions(load, k, e)[m])
               IN  Total(load, part(i)) - Total(load, part(j)) <= b
<1> DEFINE kk == KarmarkarKarp(load, k, e)
           parts == BalancedPartitions(load, k, e)
<1>1. \E s : /\ GoodState(s, n, k, e)
             /\ \A r \in 1..n : r \in RowsIn(s)
             /\ KarmarkarKarp(load, k, e) = [i \in 1..k |-> s[i].items]
             /\ EvenHeap(FirstStates(load, k, e), load, k, B) => EvenState(s, load, k, B)
  BY KarmarkarKarpLast
<1>2. PICK s : /\ GoodState(s, n, k, e)
               /\ kk = [i \in 1..k |-> s[i].items]
               /\ EvenState(s, load, k, B)
  BY <1>1
<1>3. /\ parts = [i \in DOMAIN kk |-> Ascending(kk[i])]
      /\ s \in [1..k -> SetsOf(n)]
  BY <1>2 DEF BalancedPartitions, GoodState, GoodSets
<1> HIDE DEF kk, parts
<1>4. ASSUME NEW i \in 1..k PROVE ToSet(parts[i]) = RowsOf(s[i])
  <2> DEFINE q == s[i].items
  <2>1. q \in Seq(1..n) /\ parts[i] = Ascending(q)
    BY <1>2, <1>3 DEF SetsOf
  <2> HIDE DEF q
  <2>2. \E p : Reordered(q, p, Ascending(q))
    BY <2>1, AscendingReorders
  <2>3. ToSet(parts[i]) = ToSet(q)
    BY <2>1, <2>2, ReorderedFacts
  <2>4. QED BY <2>3 DEF RowsOf, q
<1>5. PICK b \in B : \A i, j \in 1..k : s[i].sum - s[j].sum <= b
  BY <1>2 DEF EvenState, Even
<1>6. \A i \in 1..k : s[i].sum = Total(load, ToSet(parts[i]))
  BY <1>2, <1>4 DEF EvenState, Weighed
<1>7. \A i, j \in 1..k : Total(load, ToSet(parts[i])) - Total(load, ToSet(parts[j])) <= b
  BY <1>5, <1>6
<1>8. QED BY <1>7 DEF parts

\* With equal sizes the work of two parts differs by no more than that of two rows of
\* one group: the differences do not add up while the parts are merged.
THEOREM PartsAreEven ==
    ASSUME NEW n \in Nat \ {0}, NEW k \in Nat \ {0}, n % k = 0,
           NEW load \in [1..n -> Nat \ {0}]
    PROVE  \E b \in Gaps(load, k) : \A i, j \in 1..k :
               LET part(m) == ToSet(BalancedPartitions(load, k, TRUE)[m])
               IN  Total(load, part(i)) - Total(load, part(j)) <= b
<1> DEFINE B == Gaps(load, k)
           e == TRUE
<1>1. e \in BOOLEAN /\ n \in Nat /\ \A r \in 1..n : load[r] \in Nat
  OBVIOUS
<1>2. n >= k
  <2>1. n \div k \in Nat /\ n = k * (n \div k)
    BY <1>1, GroupPlaces
  <2> DEFINE c == n \div k
  <2>2. c \in Nat /\ n = k * c
    BY <2>1
  <2> HIDE DEF c
  <2>3. c # 0
    BY <2>2
  <2>4. QED BY <2>2, <2>3
<1>3. B \in SUBSET Int
  <2>1. load \in [1..n -> Nat] /\ Len(load) = n
    BY <1>1
  <2>2. Sorted(load) \in [1..n -> 1..n]
    BY <1>1, <2>1, WorkRises
  <2>3. \A o \in 0..(n \div k) - 1, i \in 1..k : k * o + i \in 1..n
    BY <1>1, GroupPlaces DEF Grouped
  <2>4. ASSUME NEW o \in 0..(n \div k) - 1 PROVE Gap(load, k, o) \in Int
    <3> DEFINE x == k * o + k
               y == k * o + 1
    <3>1. 1 \in 1..k /\ k \in 1..k
      OBVIOUS
    <3>2. x \in 1..n /\ y \in 1..n
      BY <2>3, <3>1
    <3>3. Gap(load, k, o) = load[Sorted(load)[x]] - load[Sorted(load)[y]]
      BY DEF Gap
    <3> HIDE DEF x, y
    <3>4. load[Sorted(load)[x]] \in Nat /\ load[Sorted(load)[y]] \in Nat
      BY <2>1, <2>2, <3>2
    <3>5. QED BY <3>3, <3>4
  <2>5. QED BY <2>1, <2>4 DEF Gaps
<1>4. EvenHeap(FirstStates(load, k, e), load, k, B)
  BY GroupsAreEven
<1> HIDE DEF B
<1>5. e => n % k = 0
  OBVIOUS
<1> HIDE DEF e
<1>6. \E b \in B : \A i, j \in 1..k :
          LET part(m) == ToSet(BalancedPartitions(load, k, e)[m])
          IN  Total(load, part(i)) - Total(load, part(j)) <= b
  BY <1>1, <1>2, <1>3, <1>4, <1>5, PartsOfEven
<1>7. QED BY <1>6 DEF B, e

-----------------------------------------------------------------------------
(***************************************************************************)
(* The two orders that put the light ones at both ends.                    *)
(***************************************************************************)
Inward(s) == Reverse(EvenPlaces(s)) \o OddPlaces(s)

\* The halves of a number.
Halves(n, h, l) ==
    h \in Nat /\ l \in Nat /\ h + l = n /\ (2 * h = n \/ 2 * h = n + 1)

\* The even and the odd places are its halves.
LEMMA HalvesOf ==
    ASSUME NEW n \in Nat
    PROVE  Halves(n, (n + 1) \div 2, n \div 2)
BY DEF Halves

\* The places a sequence is read at: p is one to one.
LEMMA ReadAt ==
    ASSUME NEW T, NEW s \in Seq(T), NEW p \in [1..Len(s) -> 1..Len(s)],
           \A i, j \in 1..Len(s) : p[i] = p[j] => i = j,
           NEW t \in Seq(T), Len(t) = Len(s),
           \A i \in 1..Len(s) : t[i] = s[p[i]]
    PROVE  Reordered(s, p, t)
<1> DEFINE n == Len(s)
<1>1. n \in Nat /\ t \in [1..n -> T]
  BY LenProperties
<1>2. Permutes(p, n)
  BY <1>1, OneToOneIsOnto
<1>3. t = [i \in 1..n |-> s[p[i]]]
  BY <1>1
<1>4. QED BY <1>2, <1>3 DEF Reordered

\* t is every second place of s, from the last one to the first.
Backward(t, s, l) == \A i \in 1..l : t[i] = s[2 * (l + 1 - i)]

\* The places 1, 3, 5 ... and 2, 4, 6 ... of a sequence, forward and backward.
LEMMA Places ==
    ASSUME NEW T, NEW s \in Seq(T), NEW h, NEW l, Halves(Len(s), h, l),
           h = (Len(s) + 1) \div 2, l = Len(s) \div 2
    PROVE  /\ EvenPlaces(s) \in Seq(T) /\ Len(EvenPlaces(s)) = h
           /\ \A i \in 1..h : EvenPlaces(s)[i] = s[2 * i - 1]
           /\ Reverse(EvenPlaces(s)) \in Seq(T) /\ Len(Reverse(EvenPlaces(s))) = h
           /\ \A i \in 1..h : Reverse(EvenPlaces(s))[i] = s[2 * (h + 1 - i) - 1]
           /\ OddPlaces(s) \in Seq(T) /\ Len(OddPlaces(s)) = l
           /\ \A i \in 1..l : OddPlaces(s)[i] = s[2 * i]
           /\ Reverse(OddPlaces(s)) \in Seq(T) /\ Len(Reverse(OddPlaces(s))) = l
           /\ Backward(Reverse(OddPlaces(s)), s, l)
<1> DEFINE n == Len(s)
           u == EvenPlaces(s)
           v == OddPlaces(s)
<1>1. n \in Nat /\ \A i \in 1..n : s[i] \in T
  OBVIOUS
<1>2. h \in Nat /\ l \in Nat /\ h + l = n /\ (2 * h = n \/ 2 * h = n + 1)
  BY DEF Halves
<1>3. u = [i \in 1..h |-> s[2 * i - 1]] /\ v = [i \in 1..l |-> s[2 * i]]
  BY DEF EvenPlaces, OddPlaces
<1> HIDE DEF u, v, n
<1>4. \A i \in 1..h : 2 * i - 1 \in 1..n /\ h - i + 1 \in 1..h
  BY <1>1, <1>2
<1>5. \A i \in 1..l : 2 * i \in 1..n /\ l - i + 1 \in 1..l
  BY <1>1, <1>2
<1>6. u \in Seq(T) /\ Len(u) = h /\ \A i \in 1..h : u[i] = s[2 * i - 1]
  <2>1. u \in [1..h -> T]
    BY <1>1, <1>3, <1>4
  <2>2. QED BY <1>2, <1>3, <2>1
<1>7. v \in Seq(T) /\ Len(v) = l /\ \A i \in 1..l : v[i] = s[2 * i]
  <2>1. v \in [1..l -> T]
    BY <1>1, <1>3, <1>5
  <2>2. QED BY <1>2, <1>3, <2>1
<1>8. Reverse(u) = [i \in 1..h |-> u[h - i + 1]]
  BY <1>6 DEF Reverse
<1>9. Reverse(v) = [i \in 1..l |-> v[l - i + 1]]
  BY <1>7 DEF Reverse
<1> DEFINE x == Reverse(u)
           y == Reverse(v)
<1>10. x = [i \in 1..h |-> u[h - i + 1]] /\ y = [i \in 1..l |-> v[l - i + 1]]
  BY <1>8, <1>9
<1> HIDE DEF x, y
<1>11. x \in Seq(T) /\ Len(x) = h /\ \A i \in 1..h : x[i] = s[2 * (h + 1 - i) - 1]
  <2>1. \A i \in 1..h : u[h - i + 1] \in T
    BY <1>4, <1>6
  <2>2. x \in [1..h -> T]
    BY <1>10, <2>1
  <2>3. ASSUME NEW i \in 1..h PROVE x[i] = s[2 * (h + 1 - i) - 1]
    <3>1. x[i] = u[h - i + 1]
      BY <1>10
    <3>2. u[h - i + 1] = s[2 * (h - i + 1) - 1]
      BY <1>4, <1>6
    <3>3. h - i + 1 = h + 1 - i
      BY <1>2
    <3>4. QED BY <3>1, <3>2, <3>3
  <2>4. QED BY <1>2, <2>2, <2>3
<1>12. y \in Seq(T) /\ Len(y) = l /\ \A i \in 1..l : y[i] = s[2 * (l + 1 - i)]
  <2>1. \A i \in 1..l : v[l - i + 1] \in T
    BY <1>5, <1>7
  <2>2. y \in [1..l -> T]
    BY <1>10, <2>1
  <2>3. ASSUME NEW i \in 1..l PROVE y[i] = s[2 * (l + 1 - i)]
    <3>1. y[i] = v[l - i + 1]
      BY <1>10
    <3>2. v[l - i + 1] = s[2 * (l - i + 1)]
      BY <1>5, <1>7
    <3>3. l - i + 1 = l + 1 - i
      BY <1>2
    <3>4. QED BY <3>1, <3>2, <3>3
  <2>4. QED BY <1>2, <2>2, <2>3
<1>13. QED BY <1>6, <1>7, <1>11, <1>12 DEF u, v, x, y, Backward

\* The micro-batches of rearrange_micro_batches: only their order changes.
LEMMA InwardReorders ==
    ASSUME NEW T, NEW s \in Seq(T)
    PROVE  \E p : Reordered(s, p, Inward(s))
<1> DEFINE n == Len(s)
           h == (n + 1) \div 2
           l == n \div 2
           u == Reverse(EvenPlaces(s))
           v == OddPlaces(s)
           p == [i \in 1..n |-> IF i <= h THEN 2 * (h + 1 - i) - 1 ELSE 2 * (i - h)]
           t == Inward(s)
<1>1. n \in Nat
  OBVIOUS
<1>2. Halves(n, h, l)
  BY <1>1, HalvesOf
<1>3. /\ u \in Seq(T) /\ Len(u) = h /\ \A i \in 1..h : u[i] = s[2 * (h + 1 - i) - 1]
      /\ v \in Seq(T) /\ Len(v) = l /\ \A i \in 1..l : v[i] = s[2 * i]
  <2> HIDE DEF h, l
  <2>1. h = (Len(s) + 1) \div 2 /\ l = Len(s) \div 2 /\ Halves(Len(s), h, l)
    BY <1>2 DEF h, l
  <2>2. QED BY <2>1, Places
<1> HIDE DEF h, l, u, v, n
<1>4. h \in Nat /\ l \in Nat /\ h + l = n /\ (2 * h = n \/ 2 * h = n + 1)
  BY <1>2 DEF Halves
<1>5. p \in [1..n -> 1..n]
  BY <1>1, <1>4
<1>6. \A i, j \in 1..n : p[i] = p[j] => i = j
  BY <1>1, <1>4
<1>7. /\ t \in Seq(T) /\ Len(t) = h + l
      /\ \A i \in 1..h + l : t[i] = IF i <= h THEN u[i] ELSE v[i - h]
  BY <1>3, ConcatProperties DEF Inward, u, v
<1>8. ASSUME NEW i \in 1..n PROVE t[i] = s[p[i]]
  <2>1. CASE i <= h
    <3>1. i \in 1..h
      BY <1>4, <2>1
    <3>2. t[i] = u[i]
      BY <1>4, <1>7, <2>1
    <3>3. QED BY <1>3, <2>1, <3>1, <3>2
  <2>2. CASE ~(i <= h)
    <3>1. i - h \in 1..l
      BY <1>4, <2>2
    <3>2. QED BY <1>3, <1>4, <1>7, <2>2, <3>1
  <2>3. QED BY <2>1, <2>2
<1> HIDE DEF p, t
<1>9. Reordered(s, p, t)
  BY <1>4, <1>5, <1>6, <1>7, <1>8, ReadAt DEF n
<1>10. QED BY <1>9 DEF t

-----------------------------------------------------------------------------
(***************************************************************************)
(* The micro-batches.                                                      *)
(***************************************************************************)

\* The parts in another order.
LEMMA RearrangedParts ==
    ASSUME NEW n \in Nat, NEW k \in Nat \ {0}, NEW parts, Parted(parts, n, k, FALSE),
           NEW p, NEW t, Len(parts) = k, Reordered(parts, p, t)
    PROVE  Parted(t, n, k, FALSE)
<1>1. /\ \A i \in 1..k : p[i] \in 1..k
      /\ \A i, j \in 1..k : p[i] = p[j] => i = j
      /\ \A j \in 1..k : \E i \in 1..k : p[i] = j
      /\ t = [i \in 1..k |-> parts[p[i]]]
  BY DEF Reordered, Permutes
<1>2. /\ \A i \in 1..k : parts[i] \in Seq(1..n) /\ Distinct(parts[i]) /\ parts[i] # <<>>
      /\ \A i, j \in 1..k : i # j => Apart(ToSet(parts[i]), ToSet(parts[j]))
      /\ \A r \in 1..n : \E i \in 1..k : r \in ToSet(parts[i])
  BY DEF Parted
<1>3. \A i \in 1..k : t[i] = parts[p[i]] /\ p[i] \in 1..k
  BY <1>1
<1>4. t \in [1..k -> Seq(1..n)] /\ \A i \in 1..k : Distinct(t[i]) /\ t[i] # <<>>
  BY <1>1, <1>2
<1>5. ASSUME NEW i \in 1..k, NEW j \in 1..k, i # j PROVE Apart(ToSet(t[i]), ToSet(t[j]))
  <2>1. p[i] \in 1..k /\ p[j] \in 1..k /\ p[i] # p[j]
    BY <1>1, <1>5
  <2>2. Apart(ToSet(parts[p[i]]), ToSet(parts[p[j]]))
    BY <1>2, <2>1
  <2>3. QED BY <1>3, <2>2
<1>6. ASSUME NEW r \in 1..n PROVE \E i \in 1..k : r \in ToSet(t[i])
  <2>1. PICK j \in 1..k : r \in ToSet(parts[j])
    BY <1>2
  <2>2. PICK i \in 1..k : p[i] = j
    BY <1>1
  <2>3. r \in ToSet(t[i])
    BY <1>3, <2>1, <2>2
  <2>4. QED BY <2>3
<1>7. QED BY <1>4, <1>5, <1>6 DEF Parted

\* FlatOfParts, of parts of any lengths.
LEMMA FlatOfAny ==
    ASSUME NEW n \in Nat, NEW k \in Nat \ {0}, NEW parts, Parted(parts, n, k, FALSE)
    PROVE  /\ parts \in Seq(Seq(1..n)) /\ Len(parts) = k
           /\ FlattenSeq(parts) = Flat(parts, k)
           /\ FlattenSeq(parts) \in Seq(1..n) /\ Len(FlattenSeq(parts)) = n
           /\ Permutes(FlattenSeq(parts), n)
<1> DEFINE e == FALSE
<1>1. Parted(parts, n, k, e)
  OBVIOUS
<1> HIDE DEF e
<1>2. QED BY <1>1, FlatOfParts

\* rearrange_micro_batches only changes the order of the parts.
LEMMA MicroBatchParts ==
    ASSUME NEW n \in Nat, NEW k \in Nat \ {0}, NEW parts, Parted(parts, n, k, FALSE),
           NEW load \in [1..n -> Nat]
    PROVE  Parted(MicroBatchOrder(load, parts), n, k, FALSE)
<1> DEFINE S == Seq(1..n)
           total(p) == SumFunction([i \in DOMAIN p |-> load[p[i]]])
           key == [i \in DOMAIN parts |-> <<-total(parts[i]), -parts[i][1], 0>>]
           sorted == SortedBy(parts, key)
<1>1. MicroBatchOrder(load, parts) = Inward(sorted)
  BY DEF MicroBatchOrder, Inward
<1>2. parts \in Seq(S) /\ Len(parts) = k
  BY FlatOfAny
<1>3. ASSUME NEW i \in 1..k PROVE total(parts[i]) \in Int /\ parts[i][1] \in Int
  <2> DEFINE s == parts[i]
             f == [j \in DOMAIN s |-> load[s[j]]]
  <2>1. s \in Seq(1..n) /\ s # <<>>
    BY DEF Parted
  <2> HIDE DEF s
  <2>2. Len(s) \in Nat /\ DOMAIN s = 1..Len(s) /\ \A j \in DOMAIN s : s[j] \in 1..n
    BY <2>1
  <2>3. f \in [1..Len(s) -> Nat]
    BY <2>2
  <2>4. SumFunction(f) \in Nat
    <3> HIDE DEF f
    <3>1. QED BY <2>2, <2>3, SumIsNatural
  <2>5. Len(s) # 0
    BY <2>1, EmptySeq
  <2>6. s[1] \in Int
    BY <2>2, <2>5
  <2>7. QED BY <2>4, <2>6 DEF s
<1> HIDE DEF total, S
<1>4. DOMAIN parts = 1..k
  BY <1>2
<1>5. key \in [1..k -> Keys]
  BY <1>3, <1>4 DEF Keys
<1> HIDE DEF key
<1>6. PICK p : Reordered(parts, p, sorted)
  <2>1. \E p : Reordered(parts, p, SortedBy(parts, key))
    BY <1>2, <1>5, SortedByReorders
  <2>2. QED BY <2>1
<1> HIDE DEF sorted
<1>7. Parted(sorted, n, k, FALSE)
  BY <1>2, <1>6, RearrangedParts
<1>8. sorted \in Seq(S) /\ Len(sorted) = k
  BY <1>7, FlatOfAny DEF S
<1>9. PICK q : Reordered(sorted, q, Inward(sorted))
  BY <1>8, InwardReorders
<1>10. Parted(Inward(sorted), n, k, FALSE)
  BY <1>7, <1>8, <1>9, RearrangedParts
<1>11. QED BY <1>1, <1>10

\* What f has at each place.
Image(f, places) == [i \in 1..Len(places) |-> f[places[i]]]

\* restore_dynamic_batch undoes the order of the micro-batches.
LEMMA RestoredIs ==
    ASSUME NEW n \in Nat, NEW parts, Permutes(FlattenSeq(parts), n),
           FlattenSeq(parts) \in Seq(1..n), Len(FlattenSeq(parts)) = n,
           NEW T, NEW x \in [1..n -> T],
           NEW data, data = Image(x, FlattenSeq(parts))
    PROVE  Restored(data, parts) = x
<1> DEFINE q == FlattenSeq(parts)
           at0(i) == CHOOSE j \in DOMAIN q : q[j] = i
           y == [i \in DOMAIN data |-> data[at0(i)]]
<1>1. Restored(data, parts) = y
  BY DEF Restored
<1> HIDE DEF q
<1>2. DOMAIN data = 1..n /\ DOMAIN q = 1..n /\ \A j \in 1..n : data[j] = x[q[j]]
  BY DEF q, Image
<1>3. \A i \in 1..n : \E j \in 1..n : q[j] = i
  BY DEF Permutes, q
<1>4. ASSUME NEW i \in 1..n PROVE y[i] = x[i]
  <2>1. at0(i) \in 1..n /\ q[at0(i)] = i
    BY <1>2, <1>3
  <2>2. y[i] = data[at0(i)]
    BY <1>2
  <2> HIDE DEF at0
  <2>3. QED BY <1>2, <2>1, <2>2
<1>5. y = [i \in 1..n |-> y[i]]
  BY <1>2
<1> HIDE DEF y
<1>6. y = x
  BY <1>4, <1>5
<1>7. QED BY <1>1, <1>6
=============================================================================
