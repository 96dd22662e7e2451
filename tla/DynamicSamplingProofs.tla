----------------------- MODULE DynamicSamplingProofs -----------------------
(***************************************************************************)
(* What DynamicSampling promises for every size of the batches, every      *)
(* length of the epochs and any number of restarts: types, numbering of    *)
(* the steps, whole groups, and no prompt trained on twice.                *)
(***************************************************************************)
EXTENDS DynamicSampling, FiniteSetTheorems, SequenceTheorems,
        WellFoundedInduction, TLAPS

-----------------------------------------------------------------------------
(***************************************************************************)
(* Induction over the natural numbers, in the form of a smallest           *)
(* counterexample.                                                         *)
(***************************************************************************)

\* A non-empty set of natural numbers has a smallest element.
LEMMA SmallestNumber ==
  ASSUME NEW T \in SUBSET Nat, T # {}
  PROVE  \E n \in T : \A m \in T : n <= m
<1> DEFINE Intervals == {0..n : n \in T}
<1>1. ASSUME NEW n \in T PROVE 0..n \in FiniteSubsetsOf(Nat)
  <2>1. IsFiniteSet(0..n)
    BY FS_Interval
  <2>2. 0..n \in SUBSET Nat
    OBVIOUS
  <2>3. QED BY <2>1, <2>2 DEF FiniteSubsetsOf
<1>2. Intervals \subseteq FiniteSubsetsOf(Nat)
  BY <1>1
<1>3. Intervals # {}
  OBVIOUS
<1>4. PICK U \in Intervals : \A V \in Intervals : <<V, U>> \notin StrictSubsetOrdering(Nat)
  BY <1>2, <1>3, FS_StrictSubsetOrderingWellFounded, WFMin, Zenon
<1>5. PICK n \in T : U = 0..n
  OBVIOUS
<1>6. ASSUME NEW m \in T, m < n PROVE FALSE
  <2> DEFINE a == 0..m
  <2> DEFINE b == 0..n
  <2>1. a \subseteq b /\ n \in b /\ n \notin a /\ a \in SUBSET Nat /\ b \in SUBSET Nat
    BY <1>6
  <2>2. a \in Intervals /\ U = b
    BY <1>5
  <2> HIDE DEF a, b
  <2>3. <<a, b>> \in StrictSubsetOrdering(Nat)
    BY <2>1 DEF StrictSubsetOrdering
  <2>4. QED BY <2>2, <2>3, <1>4
<1>7. QED BY <1>6

-----------------------------------------------------------------------------
(***************************************************************************)
(* The positions of a batch: i = q * Rollouts + j is answer j of the       *)
(* prompt at position q + 1.                                               *)
(***************************************************************************)

\* Every position of a sequence of groups is some answer of some group.
LEMMA PositionSplits ==
  ASSUME NEW R \in Nat \ {0}, NEW k \in Nat, NEW i \in 1..k * R
  PROVE  /\ (i - 1) \div R \in 0..k - 1
         /\ ((i - 1) % R) + 1 \in 1..R
         /\ i = ((i - 1) \div R) * R + ((i - 1) % R) + 1
<1>1. k * R \in Nat
  OBVIOUS
<1>2. i - 1 \in Nat /\ i - 1 < k * R
  BY <1>1
<1> DEFINE q == (i - 1) \div R
           m == (i - 1) % R
<1>3. q \in Nat /\ m \in 0..R - 1 /\ i - 1 = q * R + m
  BY <1>2
<1> HIDE DEF q, m
<1>4. q < k
  <2>1. SUFFICES ASSUME q >= k PROVE FALSE
    BY <1>3
  <2>2. q * R >= k * R
    BY <2>1, <1>3
  <2>3. QED BY <1>1, <1>2, <1>3, <2>2
<1>5. QED
  BY <1>3, <1>4 DEF q, m

\* Answer j of group q + 1 is where it belongs.
LEMMA PositionOf ==
  ASSUME NEW R \in Nat \ {0}, NEW k \in Nat, NEW q \in 0..k - 1, NEW j \in 1..R
  PROVE  /\ q * R + j \in 1..k * R
         /\ (q * R + j - 1) \div R = q
         /\ ((q * R + j - 1) % R) + 1 = j
<1>1. q * R \in Nat /\ k * R \in Nat /\ (q + 1) * R = q * R + R
  OBVIOUS
<1>2. (q + 1) * R <= k * R
  <2>1. k - (q + 1) \in Nat
    OBVIOUS
  <2>2. (k - (q + 1)) * R >= 0
    BY <2>1
  <2>3. QED BY <2>2
<1>3. q * R + j \in 1..k * R
  BY <1>1, <1>2
<1> DEFINE x == q * R + j - 1
           d == x \div R
           m == x % R
<1>4. x \in Nat
  BY <1>1
<1>5. d \in Nat /\ m \in 0..R - 1 /\ x = d * R + m
  BY <1>4
<1>6. x = q * R + (j - 1) /\ j - 1 \in 0..R - 1
  BY <1>1
<1> HIDE DEF x, d, m
<1>7. d = q
  <2>1. ~ (d < q)
    <3>1. SUFFICES ASSUME d < q PROVE FALSE
      OBVIOUS
    <3>2. q - d - 1 \in Nat
      BY <3>1, <1>5
    <3>3. (q - d - 1) * R >= 0
      BY <3>2
    <3>4. q * R >= d * R + R
      BY <3>3, <1>5
    <3>5. QED BY <3>4, <1>5, <1>6, <1>1
  <2>2. ~ (q < d)
    <3>1. SUFFICES ASSUME q < d PROVE FALSE
      OBVIOUS
    <3>2. d - q - 1 \in Nat
      BY <3>1, <1>5
    <3>3. (d - q - 1) * R >= 0
      BY <3>2
    <3>4. d * R >= q * R + R
      BY <3>3, <1>5
    <3>5. QED BY <3>4, <1>5, <1>6, <1>1
  <2>3. QED BY <2>1, <2>2, <1>5
<1>8. m = j - 1
  BY <1>5, <1>6, <1>7, <1>1
<1>9. QED
  BY <1>3, <1>7, <1>8 DEF x, d, m

-----------------------------------------------------------------------------
(***************************************************************************)
(* Repeat: the answers of every prompt, next to each other.                *)
(***************************************************************************)

\* A function on 1..n is a sequence of length n.
LEMMA SequenceFromFunction ==
  ASSUME NEW S, NEW n \in Nat, NEW f \in [1..n -> S]
  PROVE  f \in Seq(S) /\ Len(f) = n
OBVIOUS

\* Equality of sequences, position by position.
LEMMA RepeatShape ==
  ASSUME NEW S, NEW ps \in Seq(S)
  PROVE  /\ Repeat(ps) \in Seq(S \X (1..Rollouts))
         /\ Len(Repeat(ps)) = Len(ps) * Rollouts
         /\ \A i \in 1..Len(ps) * Rollouts :
              Repeat(ps)[i] = <<ps[((i - 1) \div Rollouts) + 1], ((i - 1) % Rollouts) + 1>>
<1> DEFINE k == Len(ps)
           n == k * Rollouts
<1>1. k \in Nat /\ Rollouts \in Nat \ {0} /\ n \in Nat
  BY DynamicAssumption
<1>2. ASSUME NEW i \in 1..n
      PROVE  <<ps[((i - 1) \div Rollouts) + 1], ((i - 1) % Rollouts) + 1>> \in S \X (1..Rollouts)
  <2> DEFINE q == (i - 1) \div Rollouts
             j == ((i - 1) % Rollouts) + 1
  <2>1. q \in 0..k - 1 /\ j \in 1..Rollouts
    BY <1>1, <1>2, PositionSplits
  <2> HIDE DEF q, j
  <2>2. ps[q + 1] \in S
    BY <2>1
  <2>3. <<ps[q + 1], j>> \in S \X (1..Rollouts)
    BY <2>1, <2>2
  <2>4. QED BY <2>3 DEF q, j
<1>3. Repeat(ps) = [i \in 1..n |-> <<ps[((i - 1) \div Rollouts) + 1], ((i - 1) % Rollouts) + 1>>]
  BY DEF Repeat
<1> HIDE DEF n
<1>4. Repeat(ps) \in [1..n -> S \X (1..Rollouts)]
  BY <1>2, <1>3, Zenon
<1>5. Repeat(ps) \in Seq(S \X (1..Rollouts)) /\ Len(Repeat(ps)) = n
  BY <1>1, <1>4, SequenceFromFunction
<1>6. QED BY <1>3, <1>5 DEF n

\* Answer j of the prompt at position q + 1.
LEMMA RepeatAt ==
  ASSUME NEW S, NEW ps \in Seq(S), NEW q \in 0..Len(ps) - 1, NEW j \in 1..Rollouts
  PROVE  /\ q * Rollouts + j \in 1..Len(ps) * Rollouts
         /\ Repeat(ps)[q * Rollouts + j] = <<ps[q + 1], j>>
<1>1. Len(ps) \in Nat /\ Rollouts \in Nat \ {0}
  BY DynamicAssumption
<1> DEFINE i == q * Rollouts + j
<1>2. i \in 1..Len(ps) * Rollouts /\ (i - 1) \div Rollouts = q /\ ((i - 1) % Rollouts) + 1 = j
  BY <1>1, PositionOf
<1> HIDE DEF i
<1>3. Repeat(ps)[i] = <<ps[((i - 1) \div Rollouts) + 1], ((i - 1) % Rollouts) + 1>>
  BY <1>2, RepeatShape
<1>4. Repeat(ps)[i] = <<ps[q + 1], j>>
  BY <1>2, <1>3
<1>5. QED BY <1>2, <1>4 DEF i

\* A sequence that agrees with Repeat at every answer of every prompt is it.
LEMMA RepeatUnique ==
  ASSUME NEW S, NEW ps \in Seq(S), NEW s \in Seq(S \X (1..Rollouts)),
         Len(s) = Len(ps) * Rollouts,
         \A q \in 0..Len(ps) - 1 : \A j \in 1..Rollouts : s[q * Rollouts + j] = <<ps[q + 1], j>>
  PROVE  s = Repeat(ps)
<1>1. Len(ps) \in Nat /\ Rollouts \in Nat \ {0}
  BY DynamicAssumption
<1>2. Repeat(ps) \in Seq(S \X (1..Rollouts)) /\ Len(Repeat(ps)) = Len(s)
  BY RepeatShape
<1>3. ASSUME NEW i \in 1..Len(s) PROVE s[i] = Repeat(ps)[i]
  <2> DEFINE q == (i - 1) \div Rollouts
             j == ((i - 1) % Rollouts) + 1
  <2>1. i \in 1..Len(ps) * Rollouts
    BY <1>3
  <2>2. q \in 0..Len(ps) - 1 /\ j \in 1..Rollouts /\ i = q * Rollouts + j
    <3>1. q \in 0..Len(ps) - 1 /\ j \in 1..Rollouts /\ i = q * Rollouts + ((i - 1) % Rollouts) + 1
      BY <1>1, <2>1, PositionSplits
    <3> DEFINE m == (i - 1) % Rollouts
    <3>2. j = m + 1 /\ i = q * Rollouts + m + 1 /\ m \in Int
      BY <3>1, <1>1
    <3> HIDE DEF m, j
    <3>3. q * Rollouts \in Int
      BY <3>1, <1>1
    <3>4. i = q * Rollouts + j
      BY <3>2, <3>3
    <3>5. QED BY <3>1, <3>4
  <2> HIDE DEF q, j
  <2>3. s[q * Rollouts + j] = <<ps[q + 1], j>>
    BY <2>2
  <2>4. Repeat(ps)[q * Rollouts + j] = <<ps[q + 1], j>>
    BY <2>2, RepeatAt
  <2>5. QED BY <2>2, <2>3, <2>4
<1>4. QED
  BY <1>2, <1>3, SeqEqual

\* The two parts of a concatenation.
LEMMA ConcatAt ==
  ASSUME NEW S, NEW s \in Seq(S), NEW t \in Seq(S)
  PROVE  /\ \A i \in 1..Len(s) : (s \o t)[i] = s[i]
         /\ \A i \in 1..Len(t) : (s \o t)[Len(s) + i] = t[i]
OBVIOUS

\* The answers of two lots of prompts are the answers of all of them.
LEMMA RepeatConcat ==
  ASSUME NEW S, NEW ps \in Seq(S), NEW qs \in Seq(S)
  PROVE  Repeat(ps) \o Repeat(qs) = Repeat(ps \o qs)
<1> DEFINE R == Rollouts
           a == Repeat(ps)
           b == Repeat(qs)
           k == Len(ps)
           l == Len(qs)
           G == S \X (1..R)
<1>1. k \in Nat /\ l \in Nat /\ R \in Nat \ {0}
  BY DynamicAssumption
<1>2. a \in Seq(G) /\ Len(a) = k * R
  BY RepeatShape
<1>3. b \in Seq(G) /\ Len(b) = l * R
  BY RepeatShape
<1>4. ps \o qs \in Seq(S) /\ Len(ps \o qs) = k + l
  OBVIOUS
<1>5. a \o b \in Seq(G) /\ Len(a \o b) = k * R + l * R
  <2> HIDE DEF a, b, G
  <2>1. a \o b \in Seq(G) /\ Len(a \o b) = Len(a) + Len(b)
    BY <1>2, <1>3, ConcatProperties
  <2>2. QED BY <2>1, <1>2, <1>3
<1>6. k * R + l * R = (k + l) * R
  BY <1>1
<1>7. ASSUME NEW q \in 0..(k + l) - 1, NEW j \in 1..R
      PROVE  (a \o b)[q * R + j] = <<(ps \o qs)[q + 1], j>>
  <2>1. CASE q < k
    <3>1. q \in 0..k - 1
      BY <2>1, <1>1
    <3>2. q * R + j \in 1..k * R /\ a[q * R + j] = <<ps[q + 1], j>>
      BY <3>1, RepeatAt
    <3>3. (ps \o qs)[q + 1] = ps[q + 1]
      BY <3>1
    <3> DEFINE i == q * R + j
    <3>4. i \in 1..Len(a) /\ a[i] = <<ps[q + 1], j>>
      BY <3>2, <1>2
    <3> HIDE DEF i, a, b, G
    <3>5. (a \o b)[i] = a[i]
      BY <3>4, <1>2, <1>3, ConcatAt
    <3>6. QED BY <3>3, <3>4, <3>5 DEF i
  <2>2. CASE q >= k
    <3> DEFINE r == q - k
    <3>1. r \in 0..l - 1 /\ q = k + r
      BY <2>2, <1>1
    <3> HIDE DEF r
    <3>2. r * R + j \in 1..l * R /\ b[r * R + j] = <<qs[r + 1], j>>
      BY <3>1, RepeatAt
    <3>3. (ps \o qs)[q + 1] = qs[r + 1]
      BY <3>1, <1>1
    <3>4. q * R + j = k * R + (r * R + j)
      BY <1>1, <3>1
    <3> DEFINE i == r * R + j
    <3>5. i \in 1..Len(b) /\ b[i] = <<qs[r + 1], j>> /\ q * R + j = Len(a) + i
      BY <3>2, <3>4, <1>2, <1>3
    <3> HIDE DEF i, a, b, G
    <3>6. (a \o b)[Len(a) + i] = b[i]
      BY <3>5, <1>2, <1>3, ConcatAt
    <3>7. (a \o b)[q * R + j] = (a \o b)[Len(a) + i]
      BY <3>5, Zenon
    <3>8. (a \o b)[q * R + j] = <<qs[r + 1], j>>
      BY <3>5, <3>6, <3>7, Zenon
    <3>9. QED BY <3>3, <3>8, Zenon
  <2>3. q < k \/ q >= k
    BY <1>1
  <2>4. QED BY <2>1, <2>2, <2>3, Zenon
<1>8. a \o b = Repeat(ps \o qs)
  <2> DEFINE s == a \o b
             rs == ps \o qs
  <2>1. s \in Seq(S \X (1..Rollouts)) /\ rs \in Seq(S) /\ Len(s) = Len(rs) * Rollouts
    BY <1>4, <1>5, <1>6
  <2>2. \A q \in 0..Len(rs) - 1 : \A j \in 1..Rollouts : s[q * Rollouts + j] = <<rs[q + 1], j>>
    BY <1>4, <1>7
  <2> HIDE DEF s, rs
  <2>3. s = Repeat(rs)
    BY <2>1, <2>2, RepeatUnique
  <2>4. QED BY <2>3 DEF s, rs
<1>9. QED BY <1>8

\* Cutting between two groups cuts the list of prompts.
LEMMA RepeatPrefix ==
  ASSUME NEW S, NEW ps \in Seq(S), NEW m \in 0..Len(ps)
  PROVE  SubSeq(Repeat(ps), 1, m * Rollouts) = Repeat(SubSeq(ps, 1, m))
<1> DEFINE R == Rollouts
           a == Repeat(ps)
           k == Len(ps)
           G == S \X (1..R)
           rs == SubSeq(ps, 1, m)
           s == SubSeq(a, 1, m * R)
<1>1. k \in Nat /\ R \in Nat \ {0} /\ m \in Nat /\ m <= k
  BY DynamicAssumption
<1>2. a \in Seq(G) /\ Len(a) = k * R
  BY RepeatShape
<1>3. m * R \in Nat /\ k * R \in Nat /\ m * R <= k * R
  <2>1. (k - m) * R >= 0
    <3>1. k - m \in Nat
      BY <1>1
    <3>2. QED BY <3>1, <1>1
  <2>2. QED BY <2>1, <1>1
<1>4. rs \in Seq(S) /\ Len(rs) = m /\ \A i \in 1..m : rs[i] = ps[i]
  BY <1>1
<1>5. s \in Seq(G) /\ Len(s) = m * R /\ \A i \in 1..m * R : s[i] = a[i]
  <2> DEFINE n == m * R
  <2>1. n \in Nat /\ n <= Len(a)
    BY <1>2, <1>3
  <2> HIDE DEF n, a, G
  <2>2. SubSeq(a, 1, n) \in Seq(G) /\ Len(SubSeq(a, 1, n)) = n /\ \A i \in 1..n : SubSeq(a, 1, n)[i] = a[i]
    BY <1>2, <2>1
  <2>3. QED BY <2>2 DEF n
<1>6. ASSUME NEW q \in 0..m - 1, NEW j \in 1..R
      PROVE  s[q * R + j] = <<rs[q + 1], j>>
  <2>1. q \in 0..k - 1
    BY <1>1
  <2>2. a[q * R + j] = <<ps[q + 1], j>>
    BY <2>1, RepeatAt
  <2>3. q * R + j \in 1..m * R
    BY <1>1, PositionOf
  <2>4. rs[q + 1] = ps[q + 1]
    BY <1>1, <1>4
  <2>5. QED
    BY <2>2, <2>3, <2>4, <1>5
<1> HIDE DEF s, rs
<1>7. s = Repeat(rs)
  <2>1. s \in Seq(S \X (1..Rollouts)) /\ Len(s) = Len(rs) * Rollouts
    BY <1>4, <1>5
  <2>2. \A q \in 0..Len(rs) - 1 : \A j \in 1..Rollouts : s[q * Rollouts + j] = <<rs[q + 1], j>>
    BY <1>4, <1>6
  <2>3. QED BY <1>4, <2>1, <2>2, RepeatUnique
<1>8. QED BY <1>7 DEF s, rs

-----------------------------------------------------------------------------
(***************************************************************************)
(* Lists: a sequence that names every prompt of a set exactly once.        *)
(***************************************************************************)

Lists(ps, P) ==
    /\ ps \in Seq(P)
    /\ \A i \in 1..Len(ps) : \A j \in 1..Len(ps) : ps[i] = ps[j] => i = j
    /\ \A p \in P : \E i \in 1..Len(ps) : ps[i] = p

\* The set has as many members as the list is long.
LEMMA ListsCount ==
  ASSUME NEW P, NEW ps, Lists(ps, P)
  PROVE  Len(ps) \in Nat /\ IsFiniteSet(P) /\ Cardinality(P) = Len(ps)
<1>1. ps \in Seq(P) /\ Len(ps) \in Nat
  BY DEF Lists
<1>2. ps \in [1..Len(ps) -> P]
  BY <1>1, LenProperties
<1>3. ps \in Bijection(1..Len(ps), P)
  <2>1. ps \in Injection(1..Len(ps), P)
    BY <1>1, <1>2 DEF Lists, Injection, IsInjective
  <2>2. ps \in Surjection(1..Len(ps), P)
    BY <1>2 DEF Lists, Surjection
  <2>3. QED BY <2>1, <2>2 DEF Bijection
<1>4. IsFiniteSet(1..Len(ps)) /\ Cardinality(1..Len(ps)) = Len(ps)
  BY <1>1, FS_Interval
<1>5. ExistsBijection(1..Len(ps), P)
  BY <1>3 DEF ExistsBijection
<1>6. IsFiniteSet(P) /\ Cardinality(P) = Cardinality(1..Len(ps))
  BY <1>4, <1>5, FS_Bijection
<1>7. QED BY <1>1, <1>4, <1>6

\* Lists of disjoint sets.
LEMMA ListsConcat ==
  ASSUME NEW P, NEW Q, P \cap Q = {}, NEW ps, NEW qs, Lists(ps, P), Lists(qs, Q)
  PROVE  Lists(ps \o qs, P \cup Q)
<1> DEFINE k == Len(ps)
           l == Len(qs)
           rs == ps \o qs
<1>1. ps \in Seq(P \cup Q) /\ qs \in Seq(P \cup Q) /\ k \in Nat /\ l \in Nat
  BY SeqMonotonic DEF Lists
<1>2. \A i \in 1..k : ps[i] \in P
  BY ElementOfSeq DEF Lists
<1>3. \A i \in 1..l : qs[i] \in Q
  BY ElementOfSeq DEF Lists
<1>4. rs \in Seq(P \cup Q) /\ Len(rs) = k + l
  BY <1>1
<1>5. \A i \in 1..k : rs[i] = ps[i]
  BY <1>1, ConcatAt
<1>6. \A i \in 1..l : rs[k + i] = qs[i]
  BY <1>1, ConcatAt
<1>7. ASSUME NEW i \in 1..k + l, i > k PROVE i - k \in 1..l /\ rs[i] = qs[i - k]
  <2>1. i - k \in 1..l /\ k + (i - k) = i
    BY <1>1, <1>7
  <2>2. rs[k + (i - k)] = qs[i - k]
    BY <2>1, <1>6
  <2>3. QED BY <2>1, <2>2
<1> HIDE DEF rs
<1>8. ASSUME NEW i \in 1..k + l, NEW j \in 1..k + l, rs[i] = rs[j] PROVE i = j
  <2>1. CASE i <= k /\ j <= k
    BY <2>1, <1>1, <1>5, <1>8 DEF Lists
  <2>2. CASE i > k /\ j > k
    <3>1. qs[i - k] = qs[j - k] /\ i - k \in 1..l /\ j - k \in 1..l
      BY <2>2, <1>7, <1>8
    <3>2. i - k = j - k
      BY <3>1 DEF Lists
    <3>3. QED BY <3>2, <1>1
  <2>3. CASE i <= k /\ j > k
    <3>1. rs[i] \in P
      BY <2>3, <1>1, <1>2, <1>5
    <3>2. rs[j] \in Q
      BY <2>3, <1>7, <1>3
    <3>3. QED BY <3>1, <3>2, <1>8
  <2>4. CASE i > k /\ j <= k
    <3>1. rs[j] \in P
      BY <2>4, <1>1, <1>2, <1>5
    <3>2. rs[i] \in Q
      BY <2>4, <1>7, <1>3
    <3>3. QED BY <3>1, <3>2, <1>8
  <2>5. QED BY <2>1, <2>2, <2>3, <2>4, <1>1
<1>9. ASSUME NEW p \in P \cup Q PROVE \E i \in 1..k + l : rs[i] = p
  <2>1. CASE p \in P
    <3>1. PICK i \in 1..k : ps[i] = p
      BY <2>1 DEF Lists
    <3>2. QED BY <3>1, <1>1, <1>5
  <2>2. CASE p \in Q
    <3>1. PICK i \in 1..l : qs[i] = p
      BY <2>2 DEF Lists
    <3>2. k + i \in 1..k + l
      BY <1>1
    <3>3. QED BY <3>1, <3>2, <1>6
  <2>3. QED BY <2>1, <2>2
<1>10. Lists(rs, P \cup Q)
  BY <1>4, <1>8, <1>9 DEF Lists
<1>11. QED BY <1>10 DEF rs

\* The first m of a list.
LEMMA ListsPrefix ==
  ASSUME NEW P, NEW ps, Lists(ps, P), NEW m \in 0..Len(ps)
  PROVE  \E Q \in SUBSET P : Lists(SubSeq(ps, 1, m), Q) /\ Len(SubSeq(ps, 1, m)) = m
<1> DEFINE rs == SubSeq(ps, 1, m)
           Q == {ps[i] : i \in 1..m}
<1>1. ps \in Seq(P) /\ Len(ps) \in Nat /\ m \in Nat /\ m <= Len(ps)
  BY DEF Lists
<1>2. \A i \in 1..Len(ps) : ps[i] \in P
  BY <1>1
<1>3. Q \in SUBSET P
  BY <1>1, <1>2
<1>4. \A i \in 1..m : ps[i] \in Q
  OBVIOUS
<1> HIDE DEF Q
<1>5. rs \in Seq(Q) /\ Len(rs) = m /\ \A i \in 1..m : rs[i] = ps[i]
  BY <1>1, <1>4, SubSeqProperties
<1> HIDE DEF rs
<1>6. Lists(rs, Q)
  <2>1. ASSUME NEW i \in 1..m, NEW j \in 1..m, rs[i] = rs[j] PROVE i = j
    <3>1. i \in 1..Len(ps) /\ j \in 1..Len(ps)
      BY <1>1
    <3>2. ps[i] = ps[j]
      BY <1>5, <2>1
    <3>3. QED BY <3>1, <3>2 DEF Lists
  <2>2. \A p \in Q : \E i \in 1..m : rs[i] = p
    BY <1>5 DEF Q
  <2>3. QED BY <1>5, <2>1, <2>2 DEF Lists
<1>7. QED BY <1>3, <1>5, <1>6 DEF rs

\* One more prompt at the end.
LEMMA ListsSingle ==
  ASSUME NEW p
  PROVE  Lists(<<p>>, {p})
BY DEF Lists

\* The groups of the listed prompts, and nothing else.
LEMMA RepeatGroups ==
  ASSUME NEW P, NEW ps, Lists(ps, P)
  PROVE  /\ PromptsOf(Repeat(ps)) = P
         /\ {Repeat(ps)[i] : i \in DOMAIN Repeat(ps)} = UNION {TrajectoriesOf(p) : p \in P}
         /\ Len(Repeat(ps)) = Len(ps) * Rollouts
<1> DEFINE k == Len(ps)
           R == Rollouts
           a == Repeat(ps)
<1>1. ps \in Seq(P) /\ k \in Nat /\ R \in Nat \ {0}
  BY DynamicAssumption DEF Lists
<1>2. a \in Seq(P \X (1..R)) /\ Len(a) = k * R
  BY <1>1, RepeatShape
<1>3. DOMAIN a = 1..k * R
  <2> HIDE DEF a
  <2>1. DOMAIN a = 1..Len(a)
    BY <1>2, LenProperties
  <2>2. QED BY <2>1, <1>2
<1>4. ASSUME NEW i \in DOMAIN a
      PROVE  a[i] \in P \X (1..R)
  <2> HIDE DEF a
  <2>1. i \in 1..Len(a)
    BY <1>2, <1>3, <1>4
  <2>2. QED BY <2>1, <1>2, ElementOfSeq
<1>5. ASSUME NEW p \in P, NEW j \in 1..R
      PROVE  \E i \in DOMAIN a : a[i] = <<p, j>>
  <2>1. PICK n \in 1..k : ps[n] = p
    BY DEF Lists
  <2> DEFINE q == n - 1
  <2>2. q \in 0..k - 1 /\ q + 1 = n
    BY <1>1
  <2> HIDE DEF q
  <2>3. q * R + j \in 1..k * R /\ a[q * R + j] = <<ps[q + 1], j>>
    BY <1>1, <2>2, RepeatAt
  <2>4. a[q * R + j] = <<p, j>>
    BY <2>1, <2>2, <2>3
  <2>5. QED BY <2>3, <2>4, <1>3
<1> HIDE DEF a
<1>6. PromptsOf(a) = P
  <2>1. ASSUME NEW p \in PromptsOf(a) PROVE p \in P
    <3>1. PICK i \in DOMAIN a : p = a[i][1]
      BY <2>1 DEF PromptsOf
    <3>2. QED BY <3>1, <1>4
  <2>2. ASSUME NEW p \in P PROVE p \in PromptsOf(a)
    <3>1. 1 \in 1..R
      BY <1>1
    <3>2. PICK i \in DOMAIN a : a[i] = <<p, 1>>
      BY <3>1, <1>5
    <3>3. a[i][1] = p
      BY <3>2
    <3>4. QED BY <3>3 DEF PromptsOf
  <2>3. QED BY <2>1, <2>2
<1>7. {a[i] : i \in DOMAIN a} = UNION {TrajectoriesOf(p) : p \in P}
  <2>1. UNION {TrajectoriesOf(p) : p \in P} = P \X (1..R)
    BY DEF TrajectoriesOf
  <2>2. \A x \in P \X (1..R) : \E p \in P : \E j \in 1..R : x = <<p, j>>
    OBVIOUS
  <2>3. P \X (1..R) \subseteq {a[i] : i \in DOMAIN a}
    BY <2>2, <1>5
  <2>4. {a[i] : i \in DOMAIN a} \subseteq P \X (1..R)
    BY <1>4
  <2>5. QED BY <2>1, <2>3, <2>4
<1>8. QED BY <1>2, <1>6, <1>7 DEF a

-----------------------------------------------------------------------------
(***************************************************************************)
(* Keep: the groups of the kept prompts.                                   *)
(***************************************************************************)

\* f[n] is what the loop has kept of the first n trajectories.
KeepsUpTo(f, t, kept, N) ==
    f = [n \in 0..N |->
            IF n = 0 THEN <<>>
            ELSE IF t[n][1] \in kept THEN Append(f[n - 1], t[n]) ELSE f[n - 1]]

\* The loop of Keep computes something.
LEMMA KeepsUpToExists ==
  ASSUME NEW t, NEW kept, NEW N \in Nat
  PROVE  \E f : KeepsUpTo(f, t, kept, N)
<1> DEFINE Missing == {n \in Nat : ~ \E f : KeepsUpTo(f, t, kept, n)}
<1>1. SUFFICES ASSUME Missing # {} PROVE FALSE
  OBVIOUS
<1>2. PICK n \in Missing : \A m \in Missing : n <= m
  BY <1>1, SmallestNumber
<1>3. n \in Nat /\ ~ \E f : KeepsUpTo(f, t, kept, n)
  OBVIOUS
<1>4. CASE n = 0
  <2> DEFINE f == [i \in 0..0 |-> <<>>]
  <2>1. f = [i \in 0..0 |->
              IF i = 0 THEN <<>>
              ELSE IF t[i][1] \in kept THEN Append(f[i - 1], t[i]) ELSE f[i - 1]]
    OBVIOUS
  <2> HIDE DEF f
  <2>2. KeepsUpTo(f, t, kept, n)
    BY <2>1, <1>4 DEF KeepsUpTo
  <2>3. QED BY <2>2, <1>3
<1>5. CASE n > 0
  <2>1. n - 1 \in Nat /\ n - 1 \notin Missing
    BY <1>2, <1>3, <1>5
  <2>2. PICK g : KeepsUpTo(g, t, kept, n - 1)
    BY <2>1
  <2> DEFINE f == [i \in 0..n |->
                     IF i = 0 THEN <<>>
                     ELSE IF t[i][1] \in kept THEN Append(g[i - 1], t[i]) ELSE g[i - 1]]
  <2>3. ASSUME NEW i \in 1..n PROVE f[i - 1] = g[i - 1]
    <3>1. i - 1 \in 0..n /\ i - 1 \in 0..n - 1
      BY <1>3
    <3>2. g[i - 1] = IF i - 1 = 0 THEN <<>>
                     ELSE IF t[i - 1][1] \in kept THEN Append(g[i - 1 - 1], t[i - 1])
                          ELSE g[i - 1 - 1]
      BY <2>2, <3>1 DEF KeepsUpTo
    <3>3. QED BY <3>1, <3>2
  <2>4. f = [i \in 0..n |->
              IF i = 0 THEN <<>>
              ELSE IF t[i][1] \in kept THEN Append(f[i - 1], t[i]) ELSE f[i - 1]]
    <3> DEFINE h == [i \in 0..n |->
                       IF i = 0 THEN <<>>
                       ELSE IF t[i][1] \in kept THEN Append(f[i - 1], t[i]) ELSE f[i - 1]]
    <3>1. ASSUME NEW i \in 0..n PROVE f[i] = h[i]
      <4>1. CASE i = 0
        BY <4>1
      <4>2. CASE i # 0
        <5>1. i \in 1..n
          BY <4>2, <1>3
        <5>2. f[i - 1] = g[i - 1]
          BY <5>1, <2>3
        <5>3. f[i] = IF t[i][1] \in kept THEN Append(g[i - 1], t[i]) ELSE g[i - 1]
          BY <5>1
        <5>4. h[i] = IF t[i][1] \in kept THEN Append(f[i - 1], t[i]) ELSE f[i - 1]
          BY <5>1
        <5> HIDE DEF f, h
        <5>5. QED BY <5>2, <5>3, <5>4
      <4>3. QED BY <4>1, <4>2
    <3>2. DOMAIN f = 0..n /\ DOMAIN h = 0..n
      OBVIOUS
    <3>3. f = h
      BY <3>1, <3>2
    <3>4. QED BY <3>3
  <2> HIDE DEF f
  <2>5. KeepsUpTo(f, t, kept, n)
    BY <2>4 DEF KeepsUpTo
  <2>6. QED BY <2>5, <1>3
<1>6. QED BY <1>3, <1>4, <1>5

\* Keep is the last value of the loop.
LEMMA KeepIsLast ==
  ASSUME NEW t, NEW kept, Len(t) \in Nat
  PROVE  \E f : KeepsUpTo(f, t, kept, Len(t)) /\ Keep(t, kept) = f[Len(t)]
<1>1. \E f : KeepsUpTo(f, t, kept, Len(t))
  BY KeepsUpToExists
<1> DEFINE f == CHOOSE f : KeepsUpTo(f, t, kept, Len(t))
<1>2. KeepsUpTo(f, t, kept, Len(t))
  BY <1>1
<1>3. Keep(t, kept) = f[Len(t)]
  BY DEF Keep, KeepsUpTo
<1>4. QED BY <1>2, <1>3

\* One turn of the loop.
LEMMA KeepsStep ==
  ASSUME NEW t, NEW kept, NEW N \in Nat, NEW f, KeepsUpTo(f, t, kept, N)
  PROVE  /\ f[0] = <<>>
         /\ \A n \in 1..N :
              f[n] = IF t[n][1] \in kept THEN Append(f[n - 1], t[n]) ELSE f[n - 1]
<1>1. f[0] = <<>>
  <2>1. 0 \in 0..N
    OBVIOUS
  <2>2. QED BY <2>1 DEF KeepsUpTo
<1>2. ASSUME NEW n \in 1..N
      PROVE  f[n] = IF t[n][1] \in kept THEN Append(f[n - 1], t[n]) ELSE f[n - 1]
  <2>1. n \in 0..N /\ n # 0
    OBVIOUS
  <2>2. QED BY <2>1 DEF KeepsUpTo
<1>3. QED BY <1>1, <1>2

\* s is a sequence of members of T.
OverSet(s, T) == s \in Seq(T)

\* Concatenation and Append under names that the provers do not expand.
Joint(s, t) == s \o t
Grown(s, x) == Append(s, x)

\* Appending to a concatenation.
LEMMA AppendToConcat ==
  ASSUME NEW S, NEW s, NEW u, NEW x, OverSet(s, S), OverSet(u, S), x \in S
  PROVE  Grown(Joint(s, u), x) = Joint(s, Grown(u, x))
BY DEF OverSet, Joint, Grown

\* Group q + 1 of t holds the answers of p, and what is kept of the groups up
\* to q.
GroupIs(t, q, p) == \A j \in 1..Rollouts : t[q * Rollouts + j] = <<p, j>>
KeptOf(f, q) == f[q * Rollouts]

\* The answers of one prompt are kept or dropped together.
LEMMA KeepsGroup ==
  ASSUME NEW kept, NEW t, NEW f, NEW p, NEW q \in 0..GenBatchSize - 1,
         KeepsUpTo(f, t, kept, GenBatchSize * Rollouts),
         GroupIs(t, q, p),
         NEW S, OverSet(KeptOf(f, q), S)
  PROVE  KeptOf(f, q + 1) =
            IF p \in kept THEN Joint(KeptOf(f, q), Repeat(<<p>>)) ELSE KeptOf(f, q)
<1> DEFINE R == Rollouts
           Answers(r) == [j \in 1..r |-> <<p, j>>]
           s == f[q * R]
           Right(r) == f[q * R + r] = IF p \in kept THEN s \o Answers(r) ELSE s
           Wrong == {r \in 0..R : ~ Right(r)}
<1>1. R \in Nat \ {0} /\ GenBatchSize \in Nat \ {0} /\ q * R \in Nat /\ s \in Seq(S)
  BY DynamicAssumption DEF OverSet, KeptOf
<1>2. ASSUME NEW r \in 1..R
      PROVE  f[q * R + r] = IF p \in kept THEN Append(f[q * R + (r - 1)], <<p, r>>)
                                          ELSE f[q * R + (r - 1)]
  <2>1. q * R + r \in 1..GenBatchSize * R
    BY <1>1, PositionOf
  <2>2. GenBatchSize * R \in Nat
    BY <1>1
  <2>3. t[q * R + r] = <<p, r>>
    BY DEF GroupIs
  <2> DEFINE n == q * R + r
  <2>4. n - 1 = q * R + (r - 1)
    BY <1>1
  <2>5. f[n] = IF t[n][1] \in kept THEN Append(f[n - 1], t[n]) ELSE f[n - 1]
    <3> HIDE DEF n
    <3>1. n \in 1..GenBatchSize * R
      BY <2>1 DEF n
    <3> DEFINE N == GenBatchSize * R
    <3>2. N \in Nat /\ n \in 1..N /\ KeepsUpTo(f, t, kept, N)
      BY <3>1, <2>2
    <3> HIDE DEF N
    <3>3. QED BY <3>2, KeepsStep
  <2>6. t[n][1] = p
    BY <2>3
  <2>7. QED BY <2>3, <2>4, <2>5, <2>6
<1>2b. ASSUME NEW r \in 0..R
       PROVE  /\ Answers(r) \in Seq({p} \X (1..R))
              /\ Len(Answers(r)) = r
              /\ \A j \in 1..r : Answers(r)[j] = <<p, j>>
  <2>1. \A j \in 1..r : <<p, j>> \in {p} \X (1..R)
    BY <1>1
  <2>2. r \in Nat /\ Answers(r) \in [1..r -> {p} \X (1..R)]
    BY <1>1, <2>1
  <2>3. \A j \in 1..r : Answers(r)[j] = <<p, j>>
    OBVIOUS
  <2> DEFINE g == Answers(r)
  <2> HIDE DEF g
  <2>4. g \in Seq({p} \X (1..R)) /\ Len(g) = r
    BY <2>2, SequenceFromFunction DEF g
  <2>5. QED BY <2>3, <2>4 DEF g
<1>3. Answers(0) = <<>>
  OBVIOUS
<1>4. ASSUME NEW r \in 1..R
      PROVE  Append(s \o Answers(r - 1), <<p, r>>) = s \o Answers(r)
  <2> DEFINE G == {p} \X (1..R)
             x == <<p, r>>
             u == Answers(r - 1)
             w == Answers(r)
             T == S \cup G
  <2>1. r \in Nat /\ r - 1 \in Nat /\ x \in G
    OBVIOUS
  <2>2. u \in Seq(G) /\ Len(u) = r - 1 /\ \A j \in 1..r - 1 : u[j] = <<p, j>>
    BY <1>1, <1>2b, <2>1
  <2>3. w \in Seq(G) /\ Len(w) = r /\ \A j \in 1..r : w[j] = <<p, j>>
    BY <1>1, <1>2b, <2>1
  <2> HIDE DEF u, w, G, Answers
  <2>4. /\ Append(u, x) \in Seq(G)
        /\ Len(Append(u, x)) = r
        /\ \A j \in 1..r - 1 : Append(u, x)[j] = u[j]
        /\ Append(u, x)[r] = x
    <3> HIDE DEF x
    <3>1. QED BY <2>1, <2>2, AppendProperties
  <2>5. ASSUME NEW j \in 1..r PROVE Append(u, x)[j] = w[j]
    <3>1. CASE j = r
      BY <3>1, <2>3, <2>4
    <3>2. CASE j # r
      <4>1. j \in 1..r - 1
        BY <3>2
      <4>2. u[j] = <<p, j>> /\ w[j] = <<p, j>>
        BY <4>1, <2>2, <2>3
      <4>3. Append(u, x)[j] = u[j]
        BY <4>1, <2>4
      <4>4. QED BY <4>2, <4>3
    <3>3. QED BY <3>1, <3>2
  <2> HIDE DEF x
  <2>6. Append(u, x) = w
    BY <2>1, <2>3, <2>4, <2>5, SeqEqual
  <2>7. s \in Seq(T) /\ u \in Seq(T) /\ x \in T
    BY <1>1, <2>1, <2>2, SeqMonotonic
  <2>8. Append(s \o u, x) = s \o Append(u, x)
    <3>1. OverSet(s, T) /\ OverSet(u, T)
      BY <2>7 DEF OverSet
    <3> HIDE DEF s, T
    <3>2. Grown(Joint(s, u), x) = Joint(s, Grown(u, x))
      BY <2>7, <3>1, AppendToConcat
    <3>3. QED BY <3>2 DEF Grown, Joint
  <2>9. QED BY <2>6, <2>8 DEF u, w, x
<1>5. Wrong = {}
  <2>1. SUFFICES ASSUME Wrong # {} PROVE FALSE
    OBVIOUS
  <2>2. Wrong \in SUBSET Nat
    BY <1>1
  <2> HIDE DEF Wrong
  <2>3. PICK r \in Wrong : \A m \in Wrong : r <= m
    BY <2>1, <2>2, SmallestNumber
  <2>4. r \in 0..R /\ ~ Right(r)
    BY DEF Wrong
  <2>5. CASE r = 0
    <3>1. q * R + 0 = q * R
      BY <1>1
    <3>2. s \o Answers(0) = s
      BY <1>1, <1>3, ConcatEmptySeq
    <3> HIDE DEF Answers
    <3>3. f[q * R + 0] = s
      BY <3>1
    <3>4. Right(0)
      BY <3>2, <3>3
    <3>5. QED BY <2>4, <2>5, <3>4
  <2>6. CASE r > 0
    <3>1. r \in 1..R /\ r - 1 \in 0..R
      BY <2>4, <2>6, <1>1
    <3>2. r - 1 \notin Wrong
      BY <2>3, <3>1
    <3>3. Right(r - 1)
      BY <3>1, <3>2 DEF Wrong
    <3>4. f[q * R + r] = IF p \in kept THEN Append(f[q * R + (r - 1)], <<p, r>>)
                                       ELSE f[q * R + (r - 1)]
      BY <3>1, <1>2
    <3>5. Append(s \o Answers(r - 1), <<p, r>>) = s \o Answers(r)
      BY <3>1, <1>4
    <3> HIDE DEF Answers, s
    <3>6. Right(r)
      BY <3>3, <3>4, <3>5
    <3>7. QED BY <2>4, <3>6
  <2>7. QED BY <2>4, <2>5, <2>6
<1>6. Answers(R) = Repeat(<<p>>)
  <2>1. Answers(R) \in [1..R -> {p} \X (1..R)] /\ R \in Nat
    BY <1>1
  <2>2. Answers(R) \in Seq({p} \X (1..R)) /\ Len(Answers(R)) = R
    <3> HIDE DEF Answers
    <3>1. QED BY <2>1, SequenceFromFunction
  <2> DEFINE ps == <<p>>
             u == Answers(R)
  <2>3. ps \in Seq({p}) /\ Len(ps) = 1 /\ ps[1] = p
    OBVIOUS
  <2>4. \A j \in 1..R : u[j] = <<p, j>>
    OBVIOUS
  <2>5. ASSUME NEW i \in 0..Len(ps) - 1, NEW j \in 1..Rollouts
        PROVE  u[i * Rollouts + j] = <<ps[i + 1], j>>
    <3>1. i = 0
      BY <2>3
    <3>2. i * Rollouts + j = j /\ i + 1 = 1
      BY <3>1, <1>1
    <3> HIDE DEF ps, u
    <3>3. QED BY <3>2, <2>3, <2>4
  <2> HIDE DEF ps, u
  <2>6. u \in Seq({p} \X (1..Rollouts)) /\ Len(u) = Len(ps) * Rollouts
    BY <2>2, <2>3, <1>1 DEF u
  <2>7. u = Repeat(ps)
    BY <2>3, <2>5, <2>6, RepeatUnique
  <2>8. QED BY <2>7 DEF u, ps
<1>7. Right(R)
  <2>1. R \in 0..R
    BY <1>1
  <2>2. QED BY <2>1, <1>5
<1> HIDE DEF Answers
<1>8. f[q * R + R] = IF p \in kept THEN Joint(s, Repeat(<<p>>)) ELSE s
  BY <1>6, <1>7 DEF Joint
<1>9. (q + 1) * R = q * R + R
  BY <1>1
<1>10. QED BY <1>8, <1>9 DEF KeptOf

\* Keep leaves the groups of the kept prompts, in their order.
LEMMA KeepLists ==
  ASSUME NEW b \in Nat, NEW kept \in SUBSET Prompts(b)
  PROVE  \E ps : Lists(ps, kept) /\ Keep(NewBatch(b), kept) = Repeat(ps)
<1> DEFINE R == Rollouts
           K == GenBatchSize
           ids == [i \in 1..K |-> <<b, i>>]
           t == Repeat(ids)
           First(m) == kept \cap ({b} \X (1..m))
<1>1. R \in Nat \ {0} /\ K \in Nat \ {0} /\ K * R \in Nat
  BY DynamicAssumption
<1>2. ids \in Seq(Prompts(b)) /\ Len(ids) = K /\ \A i \in 1..K : ids[i] = <<b, i>>
  <2>1. ids \in [1..K -> Prompts(b)]
    BY DEF Prompts
  <2>2. \A i \in 1..K : ids[i] = <<b, i>>
    OBVIOUS
  <2> HIDE DEF ids
  <2>3. QED BY <1>1, <2>1, <2>2, SequenceFromFunction
<1>3. Len(t) = K * R
  BY <1>2, RepeatShape
<1>4. ASSUME NEW q \in 0..K - 1, NEW j \in 1..R
      PROVE  t[q * R + j] = <<<<b, q + 1>>, j>>
  <2>1. t[q * R + j] = <<ids[q + 1], j>>
    BY <1>2, RepeatAt
  <2>2. ids[q + 1] = <<b, q + 1>>
    BY <1>1
  <2>3. QED BY <2>1, <2>2
<1>5. NewBatch(b) = t
  BY DEF NewBatch
<1> HIDE DEF t, ids
<1>6. PICK f : KeepsUpTo(f, t, kept, K * R) /\ Keep(t, kept) = f[K * R]
  BY <1>1, <1>3, KeepIsLast
<1> DEFINE Done(m) == \E ps : Lists(ps, First(m)) /\ f[m * R] = Repeat(ps)
           Wrong == {m \in 0..K : ~ Done(m)}
<1>7. Done(0)
  <2>1. Lists(<<>>, First(0))
    BY DEF Lists
  <2>2. Repeat(<<>>) = <<>>
    <3>1. Len(<<>>) * Rollouts = 0
      BY <1>1
    <3>2. QED BY <3>1 DEF Repeat
  <2>3. f[0] = <<>>
    <3> DEFINE N == K * R
    <3>1. N \in Nat /\ KeepsUpTo(f, t, kept, N)
      BY <1>1, <1>6
    <3> HIDE DEF N
    <3>2. 0 \in 0..N
      BY <3>1
    <3>3. QED BY <3>1, <3>2 DEF KeepsUpTo
  <2>4. 0 * R = 0
    BY <1>1
  <2>5. QED BY <2>1, <2>2, <2>3, <2>4
<1>8. ASSUME NEW m \in 1..K, Done(m - 1)
      PROVE  Done(m)
  <2> DEFINE q == m - 1
             p == <<b, q + 1>>
  <2>1. q \in 0..K - 1 /\ q + 1 = m
    BY <1>1
  <2>2. PICK ps : Lists(ps, First(q)) /\ f[q * R] = Repeat(ps)
    BY <1>8
  <2>3. f[q * R] \in Seq(First(q) \X (1..R))
    BY <2>2, RepeatShape DEF Lists
  <2>4. f[m * R] = IF p \in kept THEN f[q * R] \o Repeat(<<p>>) ELSE f[q * R]
    <3>1. GroupIs(t, q, p)
      BY <1>4, <2>1 DEF GroupIs
    <3>2. KeepsUpTo(f, t, kept, GenBatchSize * Rollouts)
      BY <1>6
    <3> DEFINE G == First(q) \X (1..R)
    <3>3. OverSet(KeptOf(f, q), G)
      BY <2>3 DEF OverSet, KeptOf
    <3>4. q \in 0..GenBatchSize - 1
      BY <2>1
    <3> HIDE DEF p, q, G
    <3>5. KeptOf(f, q + 1) = IF p \in kept THEN Joint(KeptOf(f, q), Repeat(<<p>>)) ELSE KeptOf(f, q)
      BY <3>1, <3>2, <3>3, <3>4, KeepsGroup
    <3>6. QED BY <3>5, <2>1 DEF KeptOf, Joint
  <2>6. CASE p \in kept
    <3>1. First(m) = First(q) \cup {p} /\ First(q) \cap {p} = {}
      BY <2>1, <2>6
    <3>2. Lists(<<p>>, {p})
      BY ListsSingle
    <3>3. Lists(ps \o <<p>>, First(m))
      BY <2>2, <3>1, <3>2, ListsConcat
    <3>4. Repeat(ps) \o Repeat(<<p>>) = Repeat(ps \o <<p>>)
      <4>1. ps \in Seq(First(m)) /\ <<p>> \in Seq(First(m))
        BY <2>2, <3>1, SeqMonotonic DEF Lists
      <4>2. QED BY <4>1, RepeatConcat
    <3>5. f[m * R] = Repeat(ps \o <<p>>)
      BY <2>2, <2>4, <2>6, <3>4
    <3>6. QED BY <3>3, <3>5
  <2>7. CASE p \notin kept
    <3>1. First(m) = First(q)
      BY <2>1, <2>7
    <3>2. f[m * R] = Repeat(ps)
      BY <2>2, <2>4, <2>7
    <3>3. QED BY <2>2, <3>1, <3>2
  <2>8. QED BY <2>6, <2>7
<1>9. Wrong = {}
  <2>1. SUFFICES ASSUME Wrong # {} PROVE FALSE
    OBVIOUS
  <2>2. Wrong \in SUBSET Nat
    BY <1>1
  <2> HIDE DEF Wrong
  <2>3. PICK m \in Wrong : \A n \in Wrong : m <= n
    BY <2>1, <2>2, SmallestNumber
  <2> HIDE DEF Done
  <2>4. m \in 0..K /\ ~ Done(m)
    BY DEF Wrong
  <2>5. m # 0
    BY <2>4, <1>7
  <2>6. m \in 1..K /\ m - 1 \in 0..K /\ m - 1 \notin Wrong
    BY <2>3, <2>4, <2>5, <1>1
  <2>7. Done(m - 1)
    BY <2>6 DEF Wrong
  <2>8. QED BY <2>4, <2>6, <2>7, <1>8
<1>10. Done(K)
  <2> HIDE DEF Done
  <2>1. K \in 0..K
    BY <1>1
  <2>2. QED BY <1>9, <2>1
<1>11. First(K) = kept
  BY DEF Prompts
<1>12. QED BY <1>5, <1>6, <1>10, <1>11

\* Without the filter: a whole generation batch.
LEMMA NewBatchLists ==
  ASSUME NEW b \in Nat
  PROVE  \E ps : Lists(ps, Prompts(b)) /\ NewBatch(b) = Repeat(ps)
<1> DEFINE ids == [i \in 1..GenBatchSize |-> <<b, i>>]
<1>1. GenBatchSize \in Nat
  BY DynamicAssumption
<1>2. ids \in [1..GenBatchSize -> Prompts(b)] /\ \A i \in 1..GenBatchSize : ids[i] = <<b, i>>
  BY DEF Prompts
<1>3. \A p \in Prompts(b) : \E i \in 1..GenBatchSize : <<b, i>> = p
  BY DEF Prompts
<1>4. NewBatch(b) = Repeat(ids)
  BY DEF NewBatch
<1> HIDE DEF ids
<1>5. ids \in Seq(Prompts(b)) /\ Len(ids) = GenBatchSize
  BY <1>1, <1>2, SequenceFromFunction
<1>6. Lists(ids, Prompts(b))
  <2>1. ASSUME NEW i \in 1..Len(ids), NEW j \in 1..Len(ids), ids[i] = ids[j] PROVE i = j
    <3>1. <<b, i>> = <<b, j>>
      BY <1>2, <1>5, <2>1
    <3>2. QED BY <3>1
  <2>2. \A p \in Prompts(b) : \E i \in 1..Len(ids) : ids[i] = p
    BY <1>2, <1>3, <1>5
  <2>3. QED BY <1>5, <2>1, <2>2 DEF Lists
<1>7. QED BY <1>4, <1>6

-----------------------------------------------------------------------------
(***************************************************************************)
(* The inductive invariant.                                                *)
(***************************************************************************)

\* While fit() runs, every checkpoint is from an earlier step.
OldSteps ==
    pc \in {"generate", "train"} => \A c \in checkpoints : c.step < globalSteps

\* The policy, also a saved one, knows no prompt that the dataloader has yet to
\* hand out.
SeenPrompts ==
    /\ \A p \in trained : p[1] <= drawn
    /\ \A p \in PromptsOf(batch) : p[1] <= drawn
    /\ \A c \in checkpoints : \A p \in c.trained : p[1] <= c.drawn

\* What is accumulated is new to the policy.
BatchIsNew == pc \in {"generate", "train"} => PromptsOf(batch) \cap trained = {}

\* The batch is made of whole groups of different prompts, as many as are
\* counted; once the surplus is cut off, as many as are trained on.
BatchOf(ps, P) ==
    /\ P \in SUBSET AllPrompts
    /\ Lists(ps, P)
    /\ batch = Repeat(ps)
    /\ filterGroups =>
         Len(ps) = IF pc = "train" THEN TrainBatchSize ELSE numPromptInBatch

Groups == \E ps, P : BatchOf(ps, P)

IInv ==
    /\ TypeOK
    /\ StepsCountUpdates
    /\ OldSteps
    /\ SeenPrompts
    /\ BatchIsNew
    /\ Groups

\* The empty batch.
LEMMA EmptyBatch ==
  /\ Lists(<<>>, {})
  /\ Repeat(<<>>) = <<>>
  /\ PromptsOf(<<>>) = {}
  /\ {} \in SUBSET AllPrompts
<1>1. Len(<<>>) * Rollouts = 0
  BY DynamicAssumption
<1>2. Repeat(<<>>) = <<>>
  BY <1>1 DEF Repeat
<1>3. Lists(<<>>, {})
  BY DEF Lists
<1>4. PromptsOf(<<>>) = {}
  BY DEF PromptsOf
<1>5. QED BY <1>2, <1>3, <1>4

\* A batch of groups is a sequence of answers.
LEMMA BatchType ==
  ASSUME NEW ps, NEW P \in SUBSET AllPrompts, Lists(ps, P)
  PROVE  Repeat(ps) \in Seq(AllPrompts \X (1..Rollouts))
<1>1. ps \in Seq(AllPrompts)
  BY SeqMonotonic DEF Lists
<1>2. QED BY <1>1, RepeatShape

\* The sizes that the configuration gives.
LEMMA Sizes ==
  /\ TrainBatchSize \in Nat \ {0}
  /\ Rollouts \in Nat \ {0}
  /\ TotalSteps \in Nat \ {0}
  /\ EpochLength \in Nat \ {0}
  /\ GenBatches \in Nat
  /\ GenBatches >= EpochLength
<1>1. Epochs \in Nat \ {0} /\ EpochLength \in Nat \ {0}
  BY DynamicAssumption
<1>2. (Epochs - 1) * EpochLength >= 0
  <2>1. Epochs - 1 \in Nat
    BY <1>1
  <2>2. QED BY <2>1, <1>1
<1>3. Epochs * EpochLength \in Nat /\ Epochs * EpochLength >= EpochLength
  BY <1>1, <1>2
<1>4. QED BY <1>3, DynamicAssumption DEF GenBatches

\* The invariant holds at the start.
LEMMA InitInv == Init => IInv
<1> SUFFICES ASSUME Init PROVE IInv
  OBVIOUS
<1>1. TypeOK
  BY Sizes, DynamicAssumption DEF Init, TypeOK, Final
<1>2. StepsCountUpdates /\ OldSteps
  BY DEF Init, StepsCountUpdates, OldSteps
<1>3. SeenPrompts /\ BatchIsNew
  BY EmptyBatch DEF Init, SeenPrompts, BatchIsNew
<1>4. Groups
  <2>1. Len(<<>>) = 0
    OBVIOUS
  <2>2. BatchOf(<<>>, {})
    BY <2>1, EmptyBatch DEF Init, BatchOf
  <2>3. QED BY <2>2 DEF Groups
<1>5. QED BY <1>1, <1>2, <1>3, <1>4 DEF IInv

\* What a generation batch adds to the batch: whole groups of prompts that were
\* not handed out before, as many as are kept.
LEMMA GenerateBatch ==
  ASSUME IInv, Generate
  PROVE  \E ps, P :
           /\ P \in SUBSET AllPrompts
           /\ Lists(ps, P)
           /\ batch' = Repeat(ps)
           /\ filterGroups =>
                Len(ps) = IF pc' = "train" THEN TrainBatchSize ELSE numPromptInBatch'
           /\ \A p \in P : p \in PromptsOf(batch) \/ p[1] = drawn + 1
<1> DEFINE b == drawn + 1
<1>1. drawn \in Nat /\ b \in Nat /\ numPromptInBatch \in Nat /\ pc = "generate"
  BY DEF IInv, TypeOK, Generate
<1>2. Prompts(b) \in SUBSET AllPrompts /\ \A p \in Prompts(b) : p[1] = b
  BY <1>1 DEF Prompts, AllPrompts
<1>3. TrainBatchSize \in Nat \ {0} /\ Rollouts \in Nat \ {0}
  BY Sizes
<1>4. PICK kept \in KeptPrompts(b) :
        /\ numPromptInBatch' = numPromptInBatch + Cardinality(kept)
        /\ \/ /\ Enough
              /\ batch' = IF filterGroups THEN Align(Accumulated(kept)) ELSE NewBatch(b)
              /\ pc' = "train"
           \/ /\ ~ Enough
              /\ batch' = Accumulated(kept)
              /\ pc' \in {pc, "raised"}
  BY DEF Generate
<1>5. kept \in SUBSET Prompts(b)
  BY DEF KeptPrompts
<1> HIDE DEF b
<1>6. CASE ~ filterGroups
  <2>1. batch' = NewBatch(b)
    BY <1>4, <1>6 DEF Enough
  <2>2. PICK ps : Lists(ps, Prompts(b)) /\ NewBatch(b) = Repeat(ps)
    BY <1>1, NewBatchLists
  <2>3. QED BY <1>2, <1>6, <2>1, <2>2 DEF b
<1>7. CASE filterGroups
  <2>1. PICK qs, Q : BatchOf(qs, Q)
    BY DEF IInv, Groups
  <2>2. Q \in SUBSET AllPrompts /\ Lists(qs, Q) /\ batch = Repeat(qs) /\ Len(qs) = numPromptInBatch
    BY <1>1, <1>7, <2>1 DEF BatchOf
  <2>3. PromptsOf(batch) = Q
    BY <2>2, RepeatGroups
  <2>4. PICK ks : Lists(ks, kept) /\ Keep(NewBatch(b), kept) = Repeat(ks)
    BY <1>1, <1>5, KeepLists
  <2>5. Q \cap kept = {}
    <3>1. \A p \in Q : p[1] <= drawn
      BY <2>3 DEF IInv, SeenPrompts
    <3>2. \A p \in kept : p[1] = drawn + 1
      BY <1>2, <1>5 DEF b
    <3>3. ASSUME NEW p \in Q, p \in kept PROVE FALSE
      <4>1. p[1] <= drawn /\ p[1] = drawn + 1
        BY <3>1, <3>2, <3>3
      <4>2. QED BY <4>1, <1>1
    <3>4. QED BY <3>3
  <2> DEFINE rs == qs \o ks
             P == Q \cup kept
  <2>6. Lists(rs, P)
    BY <2>2, <2>4, <2>5, ListsConcat
  <2>7. Accumulated(kept) = Repeat(rs)
    <3>1. qs \in Seq(P) /\ ks \in Seq(P)
      BY <2>2, <2>4, SeqMonotonic DEF Lists
    <3>2. Repeat(qs) \o Repeat(ks) = Repeat(qs \o ks)
      BY <3>1, RepeatConcat
    <3>3. Accumulated(kept) = Repeat(qs) \o Repeat(ks)
      BY <2>2, <2>4 DEF Accumulated, b
    <3>4. QED BY <3>2, <3>3
  <2>8. P \in SUBSET AllPrompts /\ \A p \in P : p \in PromptsOf(batch) \/ p[1] = drawn + 1
    BY <1>2, <1>5, <2>2, <2>3 DEF b
  <2>9. Len(rs) = numPromptInBatch' /\ Len(rs) \in Nat
    <3>1. Len(ks) = Cardinality(kept) /\ Len(ks) \in Nat
      BY <2>4, ListsCount
    <3>2. qs \in Seq(Q) /\ ks \in Seq(kept)
      BY <2>2, <2>4 DEF Lists
    <3>3. Len(rs) = Len(qs) + Len(ks)
      BY <3>2
    <3>4. QED BY <1>1, <1>4, <2>2, <3>1, <3>3
  <2> HIDE DEF rs, P
  <2>10. CASE ~ Enough
    <3>1. batch' = Repeat(rs) /\ pc' # "train"
      BY <1>1, <1>4, <2>7, <2>10
    <3>2. QED BY <2>6, <2>8, <2>9, <3>1
  <2>11. CASE Enough
    <3>1. batch' = Align(Repeat(rs)) /\ pc' = "train"
      BY <1>4, <1>7, <2>7, <2>11
    <3>2. Len(rs) >= TrainBatchSize
      BY <1>7, <2>9, <2>11 DEF Enough
    <3>3. Len(Repeat(rs)) = Len(rs) * Rollouts /\ Len(rs) * Rollouts >= TrainBatchSize * Rollouts
      <4>1. Len(Repeat(rs)) = Len(rs) * Rollouts
        BY <2>6, RepeatGroups
      <4>2. Len(rs) - TrainBatchSize \in Nat
        BY <1>3, <2>9, <3>2
      <4>3. (Len(rs) - TrainBatchSize) * Rollouts >= 0
        BY <4>2, <1>3
      <4>4. QED BY <4>1, <4>3, <1>3, <2>9
    <3>4. Align(Repeat(rs)) = SubSeq(Repeat(rs), 1, TrainBatchSize * Rollouts)
      <4>1. CASE Len(Repeat(rs)) < TrainBatchSize * Rollouts
        BY <4>1, <3>3, <1>3, <2>9
      <4>2. CASE ~ (Len(Repeat(rs)) < TrainBatchSize * Rollouts)
        BY <4>2 DEF Align
      <4>3. QED BY <4>1, <4>2
    <3> DEFINE cut == SubSeq(rs, 1, TrainBatchSize)
    <3>5. TrainBatchSize \in 0..Len(rs)
      BY <1>3, <2>9, <3>2
    <3>6. SubSeq(Repeat(rs), 1, TrainBatchSize * Rollouts) = Repeat(cut)
      BY <2>6, <3>5, RepeatPrefix DEF Lists
    <3>7. PICK C \in SUBSET P : Lists(cut, C) /\ Len(cut) = TrainBatchSize
      BY <2>6, <3>5, ListsPrefix
    <3> HIDE DEF cut
    <3>8. batch' = Repeat(cut)
      BY <3>1, <3>4, <3>6
    <3>9. C \in SUBSET AllPrompts /\ \A p \in C : p \in PromptsOf(batch) \/ p[1] = drawn + 1
      BY <2>8, <3>7
    <3>10. QED BY <3>1, <3>7, <3>8, <3>9
  <2>12. QED BY <2>10, <2>11
<1>8. QED BY <1>6, <1>7

\* A generation batch keeps the invariant.
LEMMA GenerateInv == IInv /\ Generate => IInv'
<1> SUFFICES ASSUME IInv, Generate PROVE IInv'
  OBVIOUS
<1>1. PICK ps, P :
        /\ P \in SUBSET AllPrompts
        /\ Lists(ps, P)
        /\ batch' = Repeat(ps)
        /\ filterGroups =>
             Len(ps) = IF pc' = "train" THEN TrainBatchSize ELSE numPromptInBatch'
        /\ \A p \in P : p \in PromptsOf(batch) \/ p[1] = drawn + 1
  BY GenerateBatch
<1>2. PromptsOf(batch') = P
  BY <1>1, RepeatGroups
<1>3. /\ pc = "generate" /\ left > 0
      /\ left' = left - 1 /\ drawn' = drawn + 1 /\ numGenBatches' = numGenBatches + 1
      /\ pc' \in {"generate", "train", "raised"}
      /\ genSteps' \in {genSteps, genSteps + 1}
      /\ UNCHANGED <<filterGroups, maxNumGenBatches, globalSteps, updates, trained,
                     checkpoints, restarts>>
  BY DEF Generate, config
<1>4. drawn \in Nat
  BY DEF IInv, TypeOK
<1>5. numPromptInBatch' \in Nat
  <2>1. PICK kept \in KeptPrompts(drawn + 1) :
          numPromptInBatch' = numPromptInBatch + Cardinality(kept)
    BY DEF Generate
  <2>2. kept \in SUBSET Prompts(drawn + 1)
    BY DEF KeptPrompts
  <2>3. IsFiniteSet(Prompts(drawn + 1))
    <3>1. IsFiniteSet(1..GenBatchSize)
      BY DynamicAssumption, FS_Interval
    <3>2. IsFiniteSet({drawn + 1})
      BY FS_Singleton, Zenon
    <3>3. QED BY <3>1, <3>2, FS_Product DEF Prompts
  <2>4. Cardinality(kept) \in Nat
    BY <2>2, <2>3, FS_Subset, FS_CardinalityType
  <2>5. numPromptInBatch \in Nat
    BY DEF IInv, TypeOK
  <2>6. QED BY <2>1, <2>4, <2>5
<1>6. TypeOK'
  <2>1. batch' \in Seq(AllPrompts \X (1..Rollouts))
    BY <1>1, BatchType
  <2>2. (left \in 0..GenBatches)'
    BY <1>3, Sizes DEF IInv, TypeOK
  <2>3. QED BY <1>3, <1>5, <2>1, <2>2 DEF IInv, TypeOK, Final
<1>7. StepsCountUpdates'
  BY <1>3 DEF IInv, StepsCountUpdates
<1>8. OldSteps'
  BY <1>3 DEF IInv, OldSteps
<1>9. SeenPrompts'
  <2>1. \A p \in trained : p[1] \in Nat /\ p[1] <= drawn
    BY DEF IInv, TypeOK, SeenPrompts, AllPrompts
  <2>2. \A p \in trained : p[1] <= drawn + 1
    BY <1>4, <2>1
  <2>3. \A p \in P : p[1] \in Nat /\ (p[1] <= drawn \/ p[1] = drawn + 1)
    BY <1>1 DEF IInv, SeenPrompts, AllPrompts
  <2>4. \A p \in P : p[1] <= drawn + 1
    BY <1>4, <2>3
  <2>5. QED BY <1>2, <1>3, <2>2, <2>4 DEF IInv, SeenPrompts
<1>10. BatchIsNew'
  <2>1. ASSUME NEW p \in P, p \in trained PROVE FALSE
    <3>1. p[1] <= drawn
      BY <2>1 DEF IInv, SeenPrompts
    <3>2. p[1] # drawn + 1
      BY <3>1, <1>4
    <3>3. p \in PromptsOf(batch)
      BY <1>1, <3>2
    <3>4. QED BY <1>3, <2>1, <3>3 DEF IInv, BatchIsNew
  <2>2. QED BY <1>2, <1>3, <2>1 DEF BatchIsNew
<1>11. Groups'
  <2>1. BatchOf(ps, P)'
    BY <1>1, <1>3 DEF BatchOf
  <2>2. QED BY <2>1 DEF Groups
<1>12. QED BY <1>6, <1>7, <1>8, <1>9, <1>10, <1>11 DEF IInv

\* A training step keeps the invariant: its checkpoint has the number of the
\* update it contains.
LEMMA TrainInv == IInv /\ Train => IInv'
<1> SUFFICES ASSUME IInv, Train PROVE IInv'
  OBVIOUS
<1>1. /\ pc = "train"
      /\ updates' = updates + 1
      /\ trained' = trained \cup PromptsOf(batch)
      /\ batch' = <<>> /\ numPromptInBatch' = 0 /\ numGenBatches' = 0
      /\ UNCHANGED <<filterGroups, maxNumGenBatches, left, drawn, restarts>>
      /\ checkpoints' \in {checkpoints, checkpoints \cup {Checkpoint(globalSteps)}}
  BY DEF Train, config, loader
<1>2. \/ /\ globalSteps >= TotalSteps
         /\ pc' = "finished" /\ globalSteps' = globalSteps /\ genSteps' = genSteps
      \/ /\ ~ (globalSteps >= TotalSteps)
         /\ pc' = "generate" /\ globalSteps' = globalSteps + 1 /\ genSteps' = genSteps + 1
  BY DEF Train, IsLastStep
<1>3. /\ globalSteps \in 1..TotalSteps /\ updates \in Nat /\ globalSteps = updates + 1
      /\ TotalSteps \in Nat /\ drawn \in Nat
  BY <1>1, Sizes DEF IInv, TypeOK, StepsCountUpdates
<1>4. batch \in Seq(AllPrompts \X (1..Rollouts))
  BY DEF IInv, TypeOK
<1>5. PromptsOf(batch) \subseteq AllPrompts
  <2>1. PICK ps, P : BatchOf(ps, P)
    BY DEF IInv, Groups
  <2>2. QED BY <2>1, RepeatGroups DEF BatchOf
<1>6. trained' \subseteq AllPrompts
  BY <1>1, <1>5 DEF IInv, TypeOK
<1>7. Checkpoint(globalSteps) = [step |-> globalSteps, updates |-> updates', trained |-> trained', drawn |-> drawn]
  BY DEF Checkpoint
<1>8. Checkpoint(globalSteps) \in [step : Nat, updates : Nat, trained : SUBSET AllPrompts, drawn : Nat]
  BY <1>1, <1>3, <1>6, <1>7
<1>9. TypeOK'
  <2>1. batch' \in Seq(AllPrompts \X (1..Rollouts))
    BY <1>1
  <2>2. globalSteps' \in 1..TotalSteps /\ updates' \in 0..TotalSteps /\ pc' \in {"generate", "finished"}
    BY <1>1, <1>2, <1>3
  <2>3. genSteps' \in Nat \ {0}
    BY <1>2 DEF IInv, TypeOK
  <2>4. \A c \in checkpoints' : c \in [step : Nat, updates : Nat, trained : SUBSET AllPrompts, drawn : Nat]
    BY <1>1, <1>8 DEF IInv, TypeOK
  <2>5. QED BY <1>1, <1>6, <2>1, <2>2, <2>3, <2>4 DEF IInv, TypeOK, Final
<1>10. StepsCountUpdates'
  <2>1. \A c \in checkpoints' : c.step = c.updates
    BY <1>1, <1>3, <1>7 DEF IInv, StepsCountUpdates
  <2>2. globalSteps' = IF pc' = "finished" THEN updates' ELSE updates' + 1
    BY <1>1, <1>2, <1>3
  <2>3. QED BY <2>1, <2>2 DEF StepsCountUpdates
<1>11. OldSteps'
  <2>1. SUFFICES ASSUME pc' = "generate", NEW c \in checkpoints' PROVE c.step < globalSteps'
    BY <1>2 DEF OldSteps
  <2>2. globalSteps' = globalSteps + 1
    BY <1>2, <2>1
  <2>3. CASE c \in checkpoints
    <3>1. c.step < globalSteps /\ c.step \in Nat
      BY <1>1, <2>3 DEF IInv, OldSteps, TypeOK
    <3>2. QED BY <3>1, <2>2, <1>3
  <2>4. CASE c = Checkpoint(globalSteps)
    <3>1. c.step = globalSteps
      BY <2>4, <1>7
    <3>2. QED BY <3>1, <2>2, <1>3
  <2>5. QED BY <1>1, <2>3, <2>4
<1>12. SeenPrompts'
  <2>1. \A p \in trained' : p[1] <= drawn
    BY <1>1 DEF IInv, SeenPrompts
  <2>2. PromptsOf(batch') = {}
    BY <1>1, EmptyBatch
  <2>3. \A c \in checkpoints' : \A p \in c.trained : p[1] <= c.drawn
    BY <1>1, <1>7, <2>1 DEF IInv, SeenPrompts
  <2>4. QED BY <1>1, <2>1, <2>2, <2>3 DEF SeenPrompts
<1>13. BatchIsNew' /\ Groups'
  <2>1. PromptsOf(batch') = {}
    BY <1>1, EmptyBatch
  <2>2. Len(<<>>) = 0
    OBVIOUS
  <2>3. BatchOf(<<>>, {})'
    BY <1>1, <1>2, <2>2, EmptyBatch DEF BatchOf
  <2>4. QED BY <2>1, <2>3 DEF BatchIsNew, Groups
<1>14. QED BY <1>9, <1>10, <1>11, <1>12, <1>13 DEF IInv

\* The end of the epochs keeps the invariant.
LEMMA ExhaustInv == IInv /\ Exhaust => IInv'
<1> SUFFICES ASSUME IInv, Exhaust PROVE IInv'
  OBVIOUS
<1>1. /\ pc = "generate" /\ pc' = "exhausted"
      /\ UNCHANGED <<filterGroups, maxNumGenBatches, left, drawn, batch, globalSteps,
                     genSteps, numGenBatches, numPromptInBatch, updates, trained, restarts>>
      /\ checkpoints' \in {checkpoints, checkpoints \cup {Checkpoint(globalSteps)}}
  BY DEF Exhaust, config, loader, counters
<1>2. Checkpoint(globalSteps) = [step |-> globalSteps, updates |-> updates, trained |-> trained, drawn |-> drawn]
  BY <1>1 DEF Checkpoint
<1>3. Checkpoint(globalSteps) \in [step : Nat, updates : Nat, trained : SUBSET AllPrompts, drawn : Nat]
  BY <1>2, Sizes DEF IInv, TypeOK
<1>4. TypeOK'
  <2>1. \A c \in checkpoints' : c \in [step : Nat, updates : Nat, trained : SUBSET AllPrompts, drawn : Nat]
    BY <1>1, <1>3 DEF IInv, TypeOK
  <2>2. QED BY <1>1, <2>1 DEF IInv, TypeOK, Final
<1>5. StepsCountUpdates' /\ OldSteps' /\ BatchIsNew'
  BY <1>1 DEF StepsCountUpdates, OldSteps, BatchIsNew
<1>6. SeenPrompts'
  <2>1. \A c \in checkpoints' : \A p \in c.trained : p[1] <= c.drawn
    BY <1>1, <1>2 DEF IInv, SeenPrompts
  <2>2. QED BY <1>1, <2>1 DEF IInv, SeenPrompts, PromptsOf
<1>7. Groups'
  BY <1>1 DEF IInv, Groups, BatchOf
<1>8. QED BY <1>4, <1>5, <1>6, <1>7 DEF IInv

\* While fit() runs there is a latest checkpoint.
LEMMA LatestExists ==
  ASSUME IInv, pc \in {"generate", "train"}, checkpoints # {}
  PROVE  Latest \in checkpoints /\ \A d \in checkpoints : d.step <= Latest.step
<1>1. \A c \in checkpoints : c.step \in Nat /\ c.step < globalSteps
  BY DEF IInv, TypeOK, OldSteps
<1>2. globalSteps \in Nat
  BY Sizes DEF IInv, TypeOK
<1> DEFINE Ages == {globalSteps - c.step : c \in checkpoints}
<1>3. Ages \in SUBSET Nat /\ Ages # {}
  BY <1>1, <1>2
<1>4. PICK n \in Ages : \A m \in Ages : n <= m
  BY <1>3, SmallestNumber
<1>5. PICK c \in checkpoints : n = globalSteps - c.step
  OBVIOUS
<1>6. ASSUME NEW d \in checkpoints PROVE d.step <= c.step
  <2>1. globalSteps - c.step <= globalSteps - d.step
    BY <1>4, <1>5
  <2>2. QED BY <2>1, <1>1, <1>2
<1>7. QED BY <1>6 DEF Latest

\* A restart keeps the invariant: the policy and the position of the dataloader
\* come from the same checkpoint.
LEMMA RestartInv == IInv /\ Restart => IInv'
<1> SUFFICES ASSUME IInv, Restart PROVE IInv'
  OBVIOUS
<1>1. /\ pc \in {"generate", "train"} /\ pc' = "generate"
      /\ restarts < MaxRestarts /\ restarts' = restarts + 1
      /\ batch' = <<>> /\ genSteps' = 1 /\ numPromptInBatch' = 0 /\ numGenBatches' = 0
      /\ UNCHANGED <<filterGroups, maxNumGenBatches, checkpoints>>
  BY DEF Restart, config
<1>2. /\ globalSteps' \in 1..TotalSteps /\ globalSteps' = updates' + 1
      /\ updates' \in 0..TotalSteps
      /\ trained' \subseteq AllPrompts /\ drawn' \in Nat /\ left' \in 0..GenBatches
      /\ \A p \in trained' : p[1] <= drawn'
      /\ \A c \in checkpoints : c.step < globalSteps'
  <2>1. CASE checkpoints = {}
    <3>1. FromScratch
      BY <2>1 DEF Restart
    <3>2. QED BY <2>1, <3>1, Sizes DEF FromScratch
  <2>2. CASE checkpoints # {}
    <3>1. Loaded
      BY <2>2 DEF Restart
    <3> DEFINE c == Latest
    <3>2. c \in checkpoints /\ \A d \in checkpoints : d.step <= c.step
      BY <1>1, <2>2, LatestExists
    <3> HIDE DEF c
    <3>3. c \in [step : Nat, updates : Nat, trained : SUBSET AllPrompts, drawn : Nat]
      BY <3>2 DEF IInv, TypeOK
    <3>4. c.step = c.updates /\ c.step < globalSteps /\ globalSteps \in 1..TotalSteps
      BY <1>1, <3>2 DEF IInv, TypeOK, StepsCountUpdates, OldSteps
    <3>5. \A p \in c.trained : p[1] <= c.drawn
      BY <3>2 DEF IInv, SeenPrompts
    <3>6. globalSteps' = c.step + 1 /\ updates' = c.updates /\ trained' = c.trained /\ drawn' = c.drawn
      BY <3>1 DEF Loaded, c
    <3>7. left' \in 0..GenBatches
      <4>1. PICK at \in 0..EpochLength : left' = GenBatches - at
        BY <3>1 DEF Loaded
      <4>2. QED BY <4>1, Sizes
    <3>8. globalSteps' \in 1..TotalSteps /\ updates' \in 0..TotalSteps /\ globalSteps' = updates' + 1
      BY <3>3, <3>4, <3>6, Sizes
    <3>9. \A d \in checkpoints : d.step < globalSteps'
      <4>1. \A d \in checkpoints : d.step \in Nat
        BY DEF IInv, TypeOK
      <4>2. QED BY <3>2, <3>3, <3>6, <4>1
    <3>10. QED BY <3>3, <3>5, <3>6, <3>7, <3>8, <3>9
  <2>3. QED BY <2>1, <2>2
<1>3. TypeOK'
  <2>1. batch' \in Seq(AllPrompts \X (1..Rollouts))
    BY <1>1
  <2>2. (restarts \in 0..MaxRestarts)'
    BY <1>1, DynamicAssumption DEF IInv, TypeOK
  <2>3. \A c \in checkpoints' : c \in [step : Nat, updates : Nat, trained : SUBSET AllPrompts, drawn : Nat]
    BY <1>1 DEF IInv, TypeOK
  <2>4. (filterGroups \in BOOLEAN /\ maxNumGenBatches \in Limits)'
    BY <1>1 DEF IInv, TypeOK
  <2>5. /\ (pc \in {"generate", "train"} \cup Final)' /\ (genSteps \in Nat \ {0})'
        /\ (numPromptInBatch \in Nat)' /\ (numGenBatches \in Nat)'
    BY <1>1
  <2>6. /\ (left \in 0..GenBatches)' /\ (drawn \in Nat)' /\ (globalSteps \in 1..TotalSteps)'
        /\ (updates \in 0..TotalSteps)' /\ (trained \subseteq AllPrompts)'
    BY <1>2
  <2>7. QED BY <2>1, <2>2, <2>3, <2>4, <2>5, <2>6 DEF TypeOK
<1>4. StepsCountUpdates' /\ OldSteps'
  BY <1>1, <1>2 DEF IInv, StepsCountUpdates, OldSteps
<1>5. SeenPrompts' /\ BatchIsNew' /\ Groups'
  <2>1. PromptsOf(batch') = {}
    BY <1>1, EmptyBatch
  <2>2. Len(<<>>) = 0
    OBVIOUS
  <2>3. BatchOf(<<>>, {})'
    BY <1>1, <2>2, EmptyBatch DEF BatchOf
  <2>4. \A c \in checkpoints' : \A p \in c.trained : p[1] <= c.drawn
    BY <1>1 DEF IInv, SeenPrompts
  <2>5. QED BY <1>2, <2>1, <2>3, <2>4 DEF SeenPrompts, BatchIsNew, Groups
<1>6. QED BY <1>3, <1>4, <1>5 DEF IInv

\* Every step keeps the invariant.
LEMMA NextInv == IInv /\ [Next]_vars => IInv'
<1> SUFFICES ASSUME IInv, [Next]_vars PROVE IInv'
  OBVIOUS
<1>1. CASE Generate
  BY <1>1, GenerateInv
<1>2. CASE Train
  BY <1>2, TrainInv
<1>3. CASE Exhaust
  BY <1>3, ExhaustInv
<1>4. CASE Restart
  BY <1>4, RestartInv
<1>5. CASE UNCHANGED vars
  BY <1>5 DEF vars, config, loader, counters, IInv, TypeOK, StepsCountUpdates, OldSteps,
     SeenPrompts, BatchIsNew, Groups, BatchOf, PromptsOf
<1>6. QED BY <1>1, <1>2, <1>3, <1>4, <1>5 DEF Next, Step

LEMMA Invariance == Spec => []IInv
BY InitInv, NextInv, PTL DEF Spec

-----------------------------------------------------------------------------
(***************************************************************************)
(* The properties of the runs, for every value of the constants.           *)
(***************************************************************************)

\* Every variable of fit() and every checkpoint holds a value of its kind.
THEOREM DynamicTypes == Spec => []TypeOK
<1>1. IInv => TypeOK
  BY DEF IInv
<1>2. QED BY <1>1, Invariance, PTL

\* Step numbers count updates, whatever the process loses when it dies.
THEOREM StepsAreUpdates == Spec => []StepsCountUpdates
<1>1. IInv => StepsCountUpdates
  BY DEF IInv
<1>2. QED BY <1>1, Invariance, PTL

\* A policy never trains twice on the same answers, whatever is dropped as
\* surplus, lost in a restart or handed out again after one.
THEOREM TrainedOnce == Spec => []NeverTrainedTwice
<1>1. IInv => NeverTrainedTwice
  BY DEF IInv, BatchIsNew, NeverTrainedTwice
<1>2. QED BY <1>1, Invariance, PTL

\* With the filter, the advantages are computed from train_batch_size prompts
\* with all of their answers, for every size of the generation batches and
\* wherever the surplus is cut off.
THEOREM GroupsAreWhole == Spec => []WholeGroups
<1>1. IInv => WholeGroups
  <2> SUFFICES ASSUME IInv, filterGroups, pc = "train"
               PROVE  /\ {batch[i] : i \in DOMAIN batch} =
                             UNION {TrajectoriesOf(p) : p \in PromptsOf(batch)}
                      /\ Cardinality(PromptsOf(batch)) = TrainBatchSize
                      /\ Len(batch) = TrainBatchSize * Rollouts
    BY DEF WholeGroups
  <2>1. PICK ps, P : BatchOf(ps, P)
    BY DEF IInv, Groups
  <2>2. Lists(ps, P) /\ batch = Repeat(ps) /\ Len(ps) = TrainBatchSize
    BY <2>1 DEF BatchOf
  <2>3. PromptsOf(batch) = P
    BY <2>2, RepeatGroups
  <2>4. {batch[i] : i \in DOMAIN batch} = UNION {TrajectoriesOf(p) : p \in P}
    BY <2>2, RepeatGroups
  <2>5. Len(batch) = TrainBatchSize * Rollouts
    BY <2>2, RepeatGroups
  <2>6. Cardinality(P) = TrainBatchSize
    BY <2>2, ListsCount
  <2>7. QED BY <2>3, <2>4, <2>5, <2>6
<1>2. QED BY <1>1, Invariance, PTL

=============================================================================
