---------------------------- MODULE WorkersProofs ----------------------------
(***************************************************************************)
(* Proofs about the two jobs of the workers, for any dataset, batch,       *)
(* number of ranks and limits: the extraction of the latents, and the      *)
(* log-probabilities and optimizer steps of a training step.               *)
(*                                                                         *)
(* The invariant of the update, UpdateInv, says of each phase what the     *)
(* driver and the ranks have; while the ranks go through the micro-batches *)
(* of a part or of a mini-batch, they do so in three stages: they agree on *)
(* a number of micro-batches (Gathering), divide the entries (Dividing)    *)
(* and pass them through the model, all at the same micro-batch (Passing). *)
(***************************************************************************)
EXTENDS MCWorkers, SeqlenBalancingProofs

-----------------------------------------------------------------------------
(***************************************************************************)
(* The extraction of the latents.                                          *)
(***************************************************************************)

\* The rows before row n, in order.
RowsTo(n) == [i \in 1..n |-> i - 1]

\* The batch of the rows first .. first + n - 1, padded.
PaddedFrom(first, n) ==
    [i \in 1..n + PadSize(n) |-> IF i <= n THEN first + i - 1 ELSE first + n - 1]

\* The rows that were handed out before the current batch have been collected,
\* and the workers have the chunks of that batch.
LatentInv ==
    /\ {size, batchSize, numGpus} \subseteq Nat \ {0}
    /\ pc \in {"load", "call", "done"}
    /\ next \in 0..size
    /\ actual \in 0..batchSize
    /\ answered \in Seq(Workers)
    /\ pc = "load" => \A values \in {latents, indices, targets} : values = RowsTo(next)
    /\ pc = "call" =>
           /\ 1 <= actual /\ actual <= next
           /\ chunks = [w \in Workers |-> Chunk(PaddedFrom(next - actual, actual), w)]
           /\ \A values \in {latents, indices, targets} : values = RowsTo(next - actual)
    /\ pc = "done" => \A values \in {latents, indices, targets} : values = RowsTo(size)

\* a numbers more make a multiple of n.
LEMMA PadFills ==
    ASSUME NEW a \in Nat, NEW n \in Nat \ {0}
    PROVE  /\ (n - (a % n)) % n \in 0..n - 1
           /\ (a + ((n - (a % n)) % n)) % n = 0
<1> DEFINE q == a \div n
           r == a % n
<1>1. q \in Int /\ r \in 0..n - 1 /\ a = n * q + r
  OBVIOUS
<1> HIDE DEF q, r
<1>2. CASE r = 0
  <2>1. (n - r) % n = 0
    BY <1>2
  <2>2. (n * q) % n = 0
    BY <1>1
  <2>3. QED BY <1>1, <1>2, <2>1, <2>2 DEF r
<1>3. CASE r # 0
  <2>1. (n - r) % n = n - r
    BY <1>1, <1>3
  <2>2. a + (n - r) = n * (q + 1)
    BY <1>1
  <2>3. (n * (q + 1)) % n = 0
    BY <1>1
  <2>4. QED BY <1>1, <1>3, <2>1, <2>2, <2>3 DEF r
<1>4. QED BY <1>2, <1>3

\* The padded batch: its first n rows, and that it can be divided.
LEMMA PaddedFacts ==
    ASSUME NEW first \in Nat, NEW n \in Nat \ {0}, numGpus \in Nat \ {0},
           NEW m \in Nat, first + n <= m
    PROVE  LET rs == PaddedFrom(first, n)
           IN  /\ rs \in Seq(0..m - 1)
               /\ Len(rs) \in Nat /\ Len(rs) >= n
               /\ Len(rs) % numGpus = 0
               /\ SubSeq(rs, 1, n) = [i \in 1..n |-> first + i - 1]
<1> DEFINE rs == PaddedFrom(first, n)
           total == n + PadSize(n)
<1>1. PadSize(n) \in Nat /\ total % numGpus = 0
  <2>1. PadSize(n) \in 0..numGpus - 1 /\ (n + PadSize(n)) % numGpus = 0
    <3> DEFINE g == numGpus
    <3>1. g \in Nat \ {0} /\ PadSize(n) = (g - (n % g)) % g
      BY DEF PadSize
    <3> HIDE DEF g
    <3>2. (g - (n % g)) % g \in 0..g - 1 /\ (n + ((g - (n % g)) % g)) % g = 0
      BY <3>1, PadFills
    <3>3. QED BY <3>1, <3>2 DEF g
  <2>2. QED BY <2>1
<1>2. total \in Nat /\ total >= n
  BY <1>1
<1>3. rs = [i \in 1..total |-> IF i <= n THEN first + i - 1 ELSE first + n - 1]
  BY DEF PaddedFrom
<1> HIDE DEF total, rs
<1>4. \A i \in 1..total : rs[i] \in 0..m - 1 /\ (i <= n => rs[i] = first + i - 1)
  BY <1>2, <1>3
<1>5. rs \in [1..total -> 0..m - 1]
  BY <1>3, <1>4
<1>6. rs \in Seq(0..m - 1) /\ Len(rs) = total
  BY <1>2, <1>5
<1>7. SubSeq(rs, 1, n) = [i \in 1..n |-> first + i - 1]
  <2>1. \A i \in 1..n : rs[i] \in 0..m - 1
    BY <1>2, <1>4
  <2>2. /\ SubSeq(rs, 1, n) \in Seq(0..m - 1)
        /\ Len(SubSeq(rs, 1, n)) = n
        /\ \A i \in 1..n : SubSeq(rs, 1, n)[i] = rs[i]
    <3>1. 1 \in Int /\ n \in Int
      OBVIOUS
    <3>2. QED BY <2>1, <3>1, SubSeqProperties
  <2>3. DOMAIN SubSeq(rs, 1, n) = 1..n
    BY <2>2
  <2>4. \A i \in 1..n : SubSeq(rs, 1, n)[i] = first + i - 1
    BY <2>2, <1>2, <1>4
  <2> DEFINE u == SubSeq(rs, 1, n)
  <2>5. u \in [1..n -> 0..m - 1]
    <3> DEFINE M == 0..m - 1
    <3>1. u \in Seq(M) /\ Len(u) = n
      BY <2>2
    <3> HIDE DEF u, M
    <3>2. u \in [1..n -> M]
      BY <3>1
    <3>3. QED BY <3>2 DEF M
  <2> HIDE DEF u
  <2>6. u = [i \in 1..n |-> first + i - 1]
    BY <2>4, <2>5 DEF u
  <2>7. QED BY <2>6 DEF u
<1>8. QED BY <1>1, <1>2, <1>6, <1>7 DEF rs

\* The chunks of the workers, put together by rank, are the batch.
LEMMA ChunksTogether ==
    ASSUME NEW T, NEW rs \in Seq(T), numGpus \in Nat \ {0}, Len(rs) % numGpus = 0,
           chunks = [w \in Workers |-> Chunk(rs, w)]
    PROVE  Gathered = rs
<1> DEFINE c == Len(rs) \div numGpus
           n == numGpus
<1>1. Len(rs) \in Nat /\ c \in Nat /\ Len(rs) = n * c
  <2>1. Len(rs) \in Nat
    OBVIOUS
  <2> DEFINE l == Len(rs)
  <2> HIDE DEF l
  <2>2. l \in Nat /\ l % n = 0
    BY <2>1 DEF l
  <2>3. l \div n \in Int /\ l = n * (l \div n) + (l % n)
    BY <2>2
  <2>4. l \div n >= 0
    BY <2>2
  <2>5. QED BY <2>2, <2>3, <2>4 DEF l
<1> DEFINE cut == [k \in 0..n |-> k * c]
<1> HIDE DEF c
<1>2. ASSUME NEW k \in 0..n PROVE k * c \in 0..Len(rs)
  <2>1. k * c \in Nat /\ k * c <= n * c
    BY <1>1
  <2>2. QED BY <2>1, <1>1
<1>3. cut \in [0..n -> 0..Len(rs)] /\ cut[0] = 0 /\ cut[n] = Len(rs)
  <2>1. cut \in [0..n -> 0..Len(rs)]
    BY <1>2
  <2>2. cut[0] = 0 * c /\ cut[n] = n * c
    OBVIOUS
  <2>3. QED BY <1>1, <2>1, <2>2
<1>4. ASSUME NEW k \in 1..n
      PROVE  cut[k - 1] = (k - 1) * c /\ cut[k] = k * c /\ cut[k - 1] <= cut[k]
  <2>1. k - 1 \in 0..n /\ k \in 0..n
    OBVIOUS
  <2>2. cut[k - 1] = (k - 1) * c /\ cut[k] = k * c
    BY <2>1
  <2>3. (k - 1) * c <= k * c
    BY <1>1
  <2>4. QED BY <2>2, <2>3
<1> DEFINE ws == [w \in Workers |-> w]
           ss == [k \in DOMAIN ws |-> chunks[ws[k]]]
<1>5. DOMAIN ss = 1..n /\ \A k \in 1..n : ss[k] = Chunk(rs, k)
  BY DEF Workers
<1> HIDE DEF cut
<1>6. \A k \in 1..n : ss[k] = SubSeq(rs, cut[k - 1] + 1, cut[k])
  BY <1>4, <1>5 DEF Chunk, c
<1>7. Gathered = FlattenSeq(ss)
  BY DEF Gathered, Joined
<1>8. ss = [k \in DOMAIN ss |-> ss[k]]
  OBVIOUS
<1> HIDE DEF ss, ws
<1>9. ss = [k \in 1..n |-> SubSeq(rs, cut[k - 1] + 1, cut[k])]
  BY <1>5, <1>6, <1>8
<1>10. /\ ss \in Seq(Seq(T)) /\ Len(ss) = n
       /\ Flat(ss, n) = SubSeq(rs, 1, cut[n])
  <2>1. n \in Nat /\ 0 \in 0..n /\ n \in 0..n
    OBVIOUS
  <2>2. \A k \in 1..n : cut[k - 1] <= cut[k]
    BY <1>4
  <2>3. Pieces(ss, rs, n, cut)
    BY <1>3, <1>9, <2>2 DEF Pieces
  <2>4. /\ ss \in Seq(Seq(T)) /\ Len(ss) = n
        /\ \A k \in 0..n : Flat(ss, k) = Prefix(rs, cut[k])
    BY <2>1, <2>3, FlatOfPieces
  <2>5. QED BY <2>1, <2>4 DEF Prefix
<1>11. FlattenSeq(ss) = Flat(ss, n)
  BY <1>10, FlatIs
<1>12. SubSeq(rs, 1, Len(rs)) = rs
  BY SubSeqFull
<1>13. QED BY <1>3, <1>7, <1>10, <1>11, <1>12

\* The rows of the next batch after those before it.
LEMMA RowsGrow ==
    ASSUME NEW a \in Nat, NEW n \in Nat
    PROVE  /\ RowsTo(a) \o [i \in 1..n |-> a + i - 1] = RowsTo(a + n)
           /\ RowsTo(a) \in [1..a -> Int]
<1> DEFINE s == RowsTo(a)
           t == [i \in 1..n |-> a + i - 1]
           u == RowsTo(a + n)
<1>1. s \in [1..a -> Int] /\ \A i \in 1..a : s[i] = i - 1
  BY DEF RowsTo
<1>2. t \in [1..n -> Int] /\ \A i \in 1..n : t[i] = a + i - 1
  OBVIOUS
<1>3. u \in [1..a + n -> Int] /\ \A i \in 1..a + n : u[i] = i - 1
  BY DEF RowsTo
<1> HIDE DEF s, t, u
<1>4. s \in Seq(Int) /\ t \in Seq(Int) /\ Len(s) = a /\ Len(t) = n
  BY <1>1, <1>2
<1>5. /\ s \o t \in Seq(Int) /\ Len(s \o t) = a + n
      /\ \A i \in 1..a + n : (s \o t)[i] = IF i <= a THEN s[i] ELSE t[i - a]
  BY <1>4, ConcatProperties
<1>6. \A i \in 1..a + n : (s \o t)[i] = i - 1
  <2>1. \A i \in 1..a + n : i \in 1..a \/ (~(i <= a) /\ i - a \in 1..n)
    OBVIOUS
  <2>2. QED BY <1>1, <1>2, <1>5, <2>1
<1>7. u \in Seq(Int) /\ Len(u) = a + n
  BY <1>3
<1>8. s \o t = u
  BY <1>3, <1>5, <1>6, <1>7, SeqEqual
<1>9. QED BY <1>1, <1>8 DEF s, t, u

\* Rows that are in order stay there.
LEMMA SortOfRows ==
    ASSUME NEW n \in Nat, indices = RowsTo(n)
    PROVE  InOrder(RowsTo(n)) = RowsTo(n)
<1> DEFINE D == 1..n
<1>1. DOMAIN indices = D /\ \A i \in D : indices[i] = i - 1
  BY DEF RowsTo
<1>2. ASSUME NEW i \in D PROVE Before(indices, i) = 1..i - 1
  <2>1. Before(indices, i) = {j \in D : j - 1 < i - 1 \/ (j - 1 = i - 1 /\ j < i)}
    BY <1>1 DEF Before
  <2>2. QED BY <2>1
<1>3. ASSUME NEW i \in D PROVE Cardinality(Before(indices, i)) = i - 1
  <2>1. 1 \in Int /\ i - 1 \in Int /\ 1 <= i
    OBVIOUS
  <2>2. Cardinality(1..i - 1) = i - 1
    BY <2>1, FS_Interval
  <2>3. QED BY <1>2, <2>2
<1>4. ASSUME NEW k \in D PROVE Argsort(indices)[k] = k
  <2>1. Argsort(indices)[k] =
            (CHOOSE i \in D : Cardinality(Before(indices, i)) = k - 1)
    BY <1>1 DEF Argsort
  <2>2. \A i \in D : Cardinality(Before(indices, i)) = k - 1 <=> i = k
    BY <1>3
  <2>3. QED BY <2>1, <2>2
<1>5. InOrder(RowsTo(n)) = [k \in D |-> RowsTo(n)[Argsort(indices)[k]]]
  BY <1>1 DEF InOrder
<1>6. QED BY <1>4, <1>5 DEF RowsTo

\* The rows before row n.
LEMMA RowsType ==
    ASSUME NEW n \in Nat, NEW m \in Nat, n <= m
    PROVE  RowsTo(n) \in Seq(0..m - 1) /\ Len(RowsTo(n)) = n
<1> DEFINE M == 0..m - 1
<1>1. \A i \in 1..n : i - 1 \in M
  OBVIOUS
<1> HIDE DEF M
<1>2. RowsTo(n) \in [1..n -> M]
  BY <1>1 DEF RowsTo
<1>3. RowsTo(n) \in Seq(M) /\ Len(RowsTo(n)) = n
  BY <1>2
<1>4. QED BY <1>3 DEF M

\* The extraction starts before the first row.
LEMMA LatentInit == WorkersInit => LatentInv
<1>1. ASSUME Init PROVE LatentInv
  <2>1. {size, batchSize, numGpus} \subseteq Nat \ {0}
    BY <1>1, LatentAssumption DEF Init
  <2>2. RowsTo(0) = <<>>
    BY DEF RowsTo
  <2>3. answered \in Seq(Workers)
    BY <1>1 DEF Init
  <2>4. next \in 0..size /\ actual \in 0..batchSize /\ pc = "load"
    BY <1>1, <2>1 DEF Init
  <2>5. \A values \in {latents, indices, targets} : values = RowsTo(next)
    BY <1>1, <2>2 DEF Init
  <2>6. QED BY <2>1, <2>3, <2>4, <2>5 DEF LatentInv
<1>2. ASSUME ExtractionOver PROVE LatentInv
  <2>1. RowsTo(size) = <<0>>
    BY <1>2 DEF ExtractionOver, RowsTo
  <2>2. answered \in Seq(Workers)
    BY <1>2 DEF ExtractionOver, Workers
  <2>3. {size, batchSize, numGpus} \subseteq Nat \ {0} /\ next \in 0..size
            /\ actual \in 0..batchSize /\ pc = "done"
    BY <1>2 DEF ExtractionOver
  <2>4. \A values \in {latents, indices, targets} : values = RowsTo(size)
    BY <1>2, <2>1 DEF ExtractionOver
  <2>5. QED BY <2>2, <2>3, <2>4 DEF LatentInv
<1>3. QED BY <1>1, <1>2 DEF WorkersInit

\* The driver hands out a batch.
LEMMA CallStep == LatentInv /\ Call => LatentInv'
<1> SUFFICES ASSUME LatentInv, Call PROVE LatentInv'
  OBVIOUS
<1> DEFINE n == IF next + batchSize <= size THEN batchSize ELSE size - next
           rs == Padded(n)
<1>1. {size, batchSize, numGpus} \subseteq Nat \ {0} /\ next \in 0..size
  BY DEF LatentInv
<1>2. pc = "load" /\ next < size
  BY DEF Call
<1>3. n \in Nat \ {0} /\ n <= batchSize /\ next + n <= size
  BY <1>1, <1>2
<1>4. /\ actual' = n /\ next' = next + n /\ answered' = <<>>
      /\ size' = size /\ batchSize' = batchSize /\ numGpus' = numGpus
      /\ latents' = latents /\ indices' = indices /\ targets' = targets
  BY DEF Call, instance, collected
<1>5. IF Len(rs) % numGpus = 0
      THEN chunks' = [w \in Workers |-> Chunk(rs, w)] /\ pc' = "call"
      ELSE pc' = "raised" /\ UNCHANGED chunks
  BY DEF Call
<1> HIDE DEF n
<1>6. rs = PaddedFrom(next, n)
  BY DEF Padded, PaddedFrom
<1> HIDE DEF rs
<1>7. Len(rs) % numGpus = 0
  <2>1. next \in Nat /\ size \in Nat /\ numGpus \in Nat \ {0}
    BY <1>1
  <2>2. Len(PaddedFrom(next, n)) % numGpus = 0
    BY <1>3, <2>1, PaddedFacts
  <2>3. QED BY <1>6, <2>2
<1>8. chunks' = [w \in Workers |-> Chunk(rs, w)] /\ pc' = "call"
  BY <1>5, <1>7
<1>9. next' - actual' = next
  BY <1>1, <1>3, <1>4
<1>10. chunks' = [w \in Workers |-> Chunk(PaddedFrom(next - actual, actual), w)]'
  <2>1. PaddedFrom(next - actual, actual)' = rs
    BY <1>4, <1>6, <1>9 DEF PaddedFrom, PadSize
  <2>2. [w \in Workers |-> Chunk(PaddedFrom(next - actual, actual), w)]'
            = [w \in Workers |-> Chunk(rs, w)]
    BY <1>4, <2>1 DEF Workers, Chunk
  <2>3. QED BY <1>8, <2>2
<1>11. \A values \in {latents, indices, targets}' : values = RowsTo(next - actual)'
  <2>1. \A values \in {latents, indices, targets} : values = RowsTo(next)
    BY <1>2 DEF LatentInv
  <2>2. QED BY <1>4, <1>9, <2>1 DEF RowsTo
<1>12. answered' \in Seq(Workers)'
  BY <1>4
<1>13. /\ {size, batchSize, numGpus}' \subseteq Nat \ {0}
       /\ next' \in 0..size' /\ actual' \in 0..batchSize'
       /\ 1 <= actual' /\ actual' <= next'
  BY <1>1, <1>3, <1>4
<1>14. QED BY <1>8, <1>10, <1>11, <1>12, <1>13 DEF LatentInv

\* A worker answers.
LEMMA AnswerStep ==
    ASSUME NEW w \in Workers, LatentInv, Answer(w)
    PROVE  LatentInv'
<1>1. /\ pc = "call" /\ answered' = Append(answered, w)
      /\ size' = size /\ batchSize' = batchSize /\ numGpus' = numGpus /\ pc' = pc
      /\ next' = next /\ actual' = actual /\ chunks' = chunks
      /\ latents' = latents /\ indices' = indices /\ targets' = targets
  BY DEF Answer, instance, collected
<1>2. answered' \in Seq(Workers)'
  <2>1. answered' \in Seq(Workers)
    BY <1>1 DEF LatentInv
  <2>2. QED BY <1>1, <2>1 DEF Workers
<1>3. [v \in Workers |-> Chunk(PaddedFrom(next - actual, actual), v)]'
        = [v \in Workers |-> Chunk(PaddedFrom(next - actual, actual), v)]
  BY <1>1 DEF Workers, Chunk, PaddedFrom, PadSize
<1>4. QED BY <1>1, <1>2, <1>3 DEF LatentInv, RowsTo

\* The driver takes the answers.
LEMMA CollectStep == LatentInv /\ Collect => LatentInv'
<1> SUFFICES ASSUME LatentInv, Collect PROVE LatentInv'
  OBVIOUS
<1> DEFINE first == next - actual
           rs == PaddedFrom(first, actual)
<1>1. /\ {size, batchSize, numGpus} \subseteq Nat \ {0} /\ next \in 0..size
      /\ actual \in 0..batchSize /\ answered \in Seq(Workers)
  BY DEF LatentInv
<1>2. pc = "call"
  BY DEF Collect
<1>3. /\ 1 <= actual /\ actual <= next
      /\ chunks = [w \in Workers |-> Chunk(rs, w)]
      /\ \A values \in {latents, indices, targets} : values = RowsTo(first)
  BY <1>2 DEF LatentInv
<1>4. /\ pc' = "load" /\ size' = size /\ batchSize' = batchSize /\ numGpus' = numGpus
      /\ next' = next /\ actual' = actual /\ answered' = answered
  BY DEF Collect, instance
<1>5. first \in Nat /\ actual \in Nat \ {0} /\ first + actual = next /\ next \in Nat
  BY <1>1, <1>3
<1> HIDE DEF rs
<1>6. /\ rs \in Seq(0..next - 1) /\ Len(rs) % numGpus = 0
      /\ SubSeq(rs, 1, actual) = [i \in 1..actual |-> first + i - 1]
  <2> HIDE DEF first
  <2>1. first + actual <= next /\ numGpus \in Nat \ {0}
    BY <1>1, <1>5
  <2>2. QED BY <1>5, <2>1, PaddedFacts DEF rs
<1>7. Gathered = rs
  BY <1>1, <1>3, <1>6, ChunksTogether
<1>8. Unpadded(Gathered) = [i \in 1..actual |-> first + i - 1]
  BY <1>6, <1>7 DEF Unpadded
<1> HIDE DEF first
<1>9. RowsTo(first) \o [i \in 1..actual |-> first + i - 1] = RowsTo(next)
  BY <1>5, RowsGrow
<1>10. latents' = RowsTo(next) /\ indices' = RowsTo(next) /\ targets' = RowsTo(next)
  BY <1>3, <1>8, <1>9 DEF Collect
<1>11. answered' \in Seq(Workers)'
  BY <1>1, <1>4 DEF Workers
<1>12. QED BY <1>1, <1>4, <1>10, <1>11 DEF LatentInv, RowsTo

\* The driver sorts the rows.
LEMMA SortStep == LatentInv /\ Sort => LatentInv'
<1> SUFFICES ASSUME LatentInv, Sort PROVE LatentInv'
  OBVIOUS
<1>1. /\ {size, batchSize, numGpus} \subseteq Nat \ {0} /\ next \in 0..size
      /\ actual \in 0..batchSize /\ answered \in Seq(Workers)
  BY DEF LatentInv
<1>2. pc = "load" /\ next = size /\ pc' = "done"
  BY DEF Sort
<1>3. /\ size' = size /\ batchSize' = batchSize /\ numGpus' = numGpus
      /\ next' = next /\ actual' = actual /\ answered' = answered /\ indices' = indices
  BY DEF Sort, instance
<1>4. latents = RowsTo(size) /\ indices = RowsTo(size) /\ targets = RowsTo(size)
  BY <1>2 DEF LatentInv
<1>5. InOrder(RowsTo(size)) = RowsTo(size)
  BY <1>1, <1>4, SortOfRows
<1>6. latents' = RowsTo(size) /\ targets' = RowsTo(size)
  BY <1>4, <1>5 DEF Sort
<1>7. answered' \in Seq(Workers)'
  BY <1>1, <1>3 DEF Workers
<1>8. QED BY <1>1, <1>2, <1>3, <1>4, <1>6, <1>7 DEF LatentInv, RowsTo

\* A step of the update.
LEMMA LatentStutter == LatentInv /\ UNCHANGED vars => LatentInv'
  BY DEF LatentInv, vars, instance, collected, Workers, Chunk, PaddedFrom, PadSize, RowsTo

\* The invariant of the extraction holds in every state.
LEMMA LatentInvariance == WorkersSpec => []LatentInv
<1>1. LatentInv /\ [WorkersNext]_<<vars, updateVars>> => LatentInv'
  <2> SUFFICES ASSUME LatentInv, [WorkersNext]_<<vars, updateVars>> PROVE LatentInv'
    OBVIOUS
  <2>1. CASE Call
    BY <2>1, CallStep
  <2>2. ASSUME NEW w \in Workers, Answer(w) PROVE LatentInv'
    BY <2>2, AnswerStep
  <2>3. CASE Collect
    BY <2>3, CollectStep
  <2>4. CASE Sort
    BY <2>4, SortStep
  <2>5. CASE UNCHANGED vars
    BY <2>5, LatentStutter
  <2>6. Call \/ (\E w \in Workers : Answer(w)) \/ Collect \/ Sort \/ UNCHANGED vars
    BY DEF WorkersNext, UpdateGoes
  <2>7. QED BY <2>1, <2>2, <2>3, <2>4, <2>5, <2>6
<1>2. QED BY <1>1, LatentInit, PTL DEF WorkersSpec

\* The types of the extraction.
LEMMA LatentTypes == LatentInv => LatentTypeOK
<1> SUFFICES ASSUME LatentInv PROVE LatentTypeOK
  OBVIOUS
<1>1. /\ {size, batchSize, numGpus} \subseteq Nat \ {0} /\ next \in 0..size
      /\ actual \in 0..batchSize /\ answered \in Seq(Workers)
      /\ pc \in {"load", "call", "done"}
  BY DEF LatentInv
<1>2. ASSUME pc = "call" PROVE chunks \in [Workers -> Seq(0..size - 1)]
  <2> DEFINE rs == PaddedFrom(next - actual, actual)
             M == 0..size - 1
  <2>1. 1 <= actual /\ actual <= next /\ chunks = [w \in Workers |-> Chunk(rs, w)]
    BY <1>2 DEF LatentInv
  <2>2. /\ next - actual \in Nat /\ actual \in Nat \ {0} /\ size \in Nat
        /\ (next - actual) + actual <= size /\ numGpus \in Nat \ {0}
    BY <1>1, <2>1
  <2>3. rs \in Seq(0..size - 1) /\ Len(rs) \in Nat
    BY <2>2, PaddedFacts
  <2> HIDE DEF rs, M
  <2>4. rs \in Seq(M) /\ Len(rs) \in Nat
    BY <2>3 DEF M
  <2>5. ASSUME NEW w \in Workers PROVE Chunk(rs, w) \in Seq(M)
    <3> DEFINE c == Len(rs) \div numGpus
    <3>1. c \in Nat /\ numGpus * c <= Len(rs)
      <4>1. c \in Int /\ Len(rs) = numGpus * c + (Len(rs) % numGpus)
               /\ Len(rs) % numGpus \in 0..numGpus - 1
        BY <2>2, <2>4
      <4>2. c >= 0
        BY <2>2, <2>4
      <4> HIDE DEF c
      <4>3. numGpus * c \in Int
        BY <4>1, <2>2
      <4>4. QED BY <4>1, <4>2, <4>3
    <3> HIDE DEF c
    <3>2. w \in 1..numGpus
      BY DEF Workers
    <3>3. (w - 1) * c \in Nat /\ w * c \in Nat /\ w * c <= numGpus * c
      BY <2>2, <3>1, <3>2
    <3> DEFINE a == (w - 1) * c + 1
               b == w * c
    <3>4. a \in Int /\ a >= 1 /\ b \in Int /\ b <= Len(rs)
      BY <2>2, <2>4, <3>1, <3>3
    <3> HIDE DEF a, b
    <3>5. \A i \in a..b : rs[i] \in M
      BY <2>4, <3>4
    <3>6. SubSeq(rs, a, b) \in Seq(M)
      BY <3>4, <3>5, SubSeqProperties
    <3>7. QED BY <3>6 DEF a, b, c, Chunk
  <2>6. QED BY <2>1, <2>5 DEF M
<1>3. ASSUME NEW values \in {latents, indices, targets}
      PROVE  values \in Seq(0..size - 1) /\ Len(values) <= size
  <2>1. PICK n \in 0..size : values = RowsTo(n)
    <3>1. CASE pc = "load"
      <4>1. values = RowsTo(next)
        BY <3>1 DEF LatentInv
      <4>2. QED BY <1>1, <4>1
    <3>2. CASE pc = "call"
      <4>1. 1 <= actual /\ actual <= next /\ values = RowsTo(next - actual)
        BY <3>2 DEF LatentInv
      <4>2. next - actual \in 0..size
        BY <1>1, <4>1
      <4>3. QED BY <4>1, <4>2
    <3>3. CASE pc = "done"
      <4>1. values = RowsTo(size)
        BY <3>3 DEF LatentInv
      <4>2. size \in 0..size
        BY <1>1
      <4>3. QED BY <4>1, <4>2
    <3>4. QED BY <1>1, <3>1, <3>2, <3>3
  <2>2. n \in Nat /\ size \in Nat /\ n <= size
    BY <1>1
  <2>3. QED BY <2>1, <2>2, RowsType
<1>4. QED BY <1>1, <1>2, <1>3 DEF LatentTypeOK

\* The latents and the targets belong to their rows, in every state (the driver's
\* side of extract_latents_distributed).
THEOREM LatentsOfTheirRows == WorkersSpec => []LatentsMatch
<1>1. LatentInv => LatentsMatch
  BY DEF LatentInv, LatentsMatch, RowsTo
<1>2. QED BY <1>1, LatentInvariance, PTL

-----------------------------------------------------------------------------
(***************************************************************************)
(* Pieces of a fixed size.                                                 *)
(***************************************************************************)

\* ceildiv
LEMMA CeilDivIs ==
    ASSUME NEW l \in Nat \ {0}, NEW z \in Nat \ {0}
    PROVE  /\ CeilDiv(l, z) \in Nat \ {0}
           /\ (CeilDiv(l, z) - 1) * z < l /\ l <= CeilDiv(l, z) * z
           /\ \A k \in 1..CeilDiv(l, z) : (k - 1) * z \in 0..l - 1
<1> DEFINE a == l + z - 1
           m == a \div z
           r == a % z
<1>1. a \in Nat /\ a >= z
  OBVIOUS
<1>2. m \in Int /\ r \in 0..z - 1 /\ a = z * m + r
  <2> HIDE DEF a
  <2>1. QED BY <1>1
<1> HIDE DEF m, r
<1>3. m >= 1
  <2> SUFFICES ASSUME m <= 0 PROVE FALSE
    BY <1>2
  <2>1. z * m <= 0
    BY <1>2
  <2>2. z * m \in Int
    BY <1>2
  <2>3. QED BY <1>1, <1>2, <2>1, <2>2
<1>4. (m - 1) * z = z * m - z /\ m * z = z * m /\ z * m \in Int
  BY <1>2
<1>5. (m - 1) * z < l /\ l <= m * z
  BY <1>2, <1>4
<1>6. ASSUME NEW k \in 1..m PROVE (k - 1) * z \in 0..l - 1
  <2>1. (k - 1) * z \in Nat /\ (k - 1) * z <= (m - 1) * z
    <3>1. k - 1 \in Nat /\ m - k \in Nat
      BY <1>2
    <3>2. (m - k) * z >= 0
      BY <3>1
    <3>3. (m - 1) * z = (k - 1) * z + (m - k) * z
      BY <1>2, <3>1
    <3>4. (k - 1) * z \in Nat /\ (m - k) * z \in Int
      BY <3>1
    <3>5. QED BY <3>2, <3>3, <3>4
  <2>2. (m - 1) * z \in Int
    BY <1>2
  <2>3. QED BY <1>5, <2>1, <2>2
<1>7. CeilDiv(l, z) = m
  BY DEF CeilDiv, m
<1>8. QED BY <1>2, <1>3, <1>5, <1>6, <1>7

\* The last place of the k-th piece.
CutAt(l, z, k) == IF k * z < l THEN k * z ELSE l

\* s, of length m, is part of t, behind the first a places.
Window(s, t, a, m) ==
    /\ Len(s) = m
    /\ \A i \in 1..m : a + i \in 1..Len(t) /\ s[i] = t[a + i]

\* The k-th piece is such a part.
LEMMA PieceIs ==
    ASSUME NEW T, NEW s \in Seq(T), NEW z \in Nat \ {0}, NEW k \in Nat \ {0},
           (k - 1) * z < Len(s)
    PROVE  /\ Piece(s, z, k) \in Seq(T)
           /\ CutAt(Len(s), z, k) - (k - 1) * z \in 1..z
           /\ Window(Piece(s, z, k), s, (k - 1) * z, CutAt(Len(s), z, k) - (k - 1) * z)
<1> DEFINE l == Len(s)
           a == (k - 1) * z
           b == CutAt(l, z, k)
           t == SubSeq(s, a + 1, b)
<1>1. l \in Nat /\ a \in Nat /\ k * z \in Nat /\ k * z = a + z /\ a < l
  <2>1. a \in Nat
    OBVIOUS
  <2>2. k * z = a + z
    OBVIOUS
  <2>3. QED BY <2>1, <2>2
<1>2. Piece(s, z, k) = t
  BY DEF Piece, CutAt
<1>3. b \in Nat /\ a < b /\ b <= l /\ b - a \in 1..z
  <2> DEFINE c == k * z
  <2>1. c \in Nat /\ c = a + z /\ b = IF c < l THEN c ELSE l
    BY <1>1 DEF CutAt
  <2> HIDE DEF a, b, c, l
  <2>2. QED BY <1>1, <2>1
<1> HIDE DEF l, a, b
<1>4. \A i \in a + 1..b : i \in 1..l /\ s[i] \in T
  <2>1. \A i \in 1..l : s[i] \in T
    BY DEF l
  <2>2. QED BY <1>1, <1>3, <2>1
<1>5. /\ t \in Seq(T)
      /\ Len(t) = IF a + 1 <= b THEN b - (a + 1) + 1 ELSE 0
      /\ \A i \in 1..b - (a + 1) + 1 : t[i] = s[a + 1 + i - 1]
  <2>1. a + 1 \in Int /\ b \in Int
    BY <1>1, <1>3
  <2>2. \A i \in a + 1..b : s[i] \in T
    BY <1>4
  <2> DEFINE c == a + 1
  <2> HIDE DEF c
  <2>3. c \in Int /\ \A i \in c..b : s[i] \in T
    BY <2>1, <2>2 DEF c
  <2>4. /\ SubSeq(s, c, b) \in Seq(T)
        /\ Len(SubSeq(s, c, b)) = IF c <= b THEN b - c + 1 ELSE 0
        /\ \A i \in 1..b - c + 1 : SubSeq(s, c, b)[i] = s[c + i - 1]
    BY <2>1, <2>3, SubSeqProperties
  <2>5. QED BY <2>4 DEF c
<1> HIDE DEF t
<1>6. Window(t, s, a, b - a)
  <2>1. Len(t) = b - a
    BY <1>1, <1>3, <1>5
  <2>2. ASSUME NEW i \in 1..b - a PROVE a + i \in 1..l /\ t[i] = s[a + i]
    <3>1. i \in 1..b - (a + 1) + 1 /\ a + 1 + i - 1 = a + i /\ a + i \in a + 1..b
      BY <1>1, <1>3
    <3>2. t[i] = s[a + 1 + i - 1]
      BY <1>5, <3>1
    <3>3. QED BY <1>4, <3>1, <3>2
  <2>3. QED BY <2>1, <2>2 DEF Window, l
<1>7. QED BY <1>2, <1>3, <1>5, <1>6 DEF a, b, l

\* Place r of l places is in piece (r - 1) \div z + 1 only.
LEMMA PieceOfPlace ==
    ASSUME NEW l \in Nat \ {0}, NEW z \in Nat \ {0}, NEW r \in 1..l
    PROVE  LET b == (r - 1) \div z
           IN  /\ b \in Nat /\ b + 1 \in 1..CeilDiv(l, z)
               /\ b * z \in Nat
               /\ r - b * z \in 1..CutAt(l, z, b + 1) - b * z
<1> DEFINE b == (r - 1) \div z
           i == (r - 1) % z
           m == CeilDiv(l, z)
<1>1. b \in Int /\ b >= 0 /\ i \in 0..z - 1 /\ r - 1 = z * b + i
  OBVIOUS
<1>2. m \in Nat \ {0} /\ l <= m * z
  BY CeilDivIs
<1> HIDE DEF b, i, m
<1>3. b * z = z * b /\ b * z \in Nat /\ (b + 1) * z = b * z + z /\ (b + 1) * z \in Nat
  BY <1>1
<1>4. b + 1 \in 1..m
  <2> SUFFICES ASSUME m <= b PROVE FALSE
    BY <1>1, <1>2
  <2>1. (b - m) * z >= 0
    BY <1>1, <1>2
  <2>2. b * z = m * z + (b - m) * z /\ m * z \in Int /\ (b - m) * z \in Int
    BY <1>1, <1>2
  <2>3. QED BY <1>1, <1>2, <1>3, <2>1, <2>2
<1>5. r - b * z = i + 1
  BY <1>1, <1>3
<1>6. CutAt(l, z, b + 1) = IF b * z + z < l THEN b * z + z ELSE l
  BY <1>3 DEF CutAt
<1>7. i + 1 \in 1..CutAt(l, z, b + 1) - b * z
  <2> DEFINE a == b * z
  <2>1. a \in Nat /\ r = a + i + 1 /\ CutAt(l, z, b + 1) = IF a + z < l THEN a + z ELSE l
    <3>1. r = a + i + 1
      BY <1>1, <1>3, <1>5
    <3>2. QED BY <1>3, <1>6, <3>1
  <2> HIDE DEF a
  <2>2. i + 1 \in 1..CutAt(l, z, b + 1) - a
    BY <1>1, <2>1
  <2>3. QED BY <2>2 DEF a
<1>8. QED BY <1>1, <1>3, <1>4, <1>5, <1>7 DEF b, m

\* And the places of piece k have that number.
LEMMA PlaceInPiece ==
    ASSUME NEW z \in Nat \ {0}, NEW k \in Nat \ {0}, NEW i \in 1..z
    PROVE  ((k - 1) * z + i - 1) \div z = k - 1
<1> DEFINE x == (k - 1) * z + i - 1
           q == x \div z
           m == x % z
<1>1. (k - 1) * z \in Nat /\ (k - 1) * z = z * (k - 1)
  OBVIOUS
<1>2. x \in Nat
  BY <1>1
<1>3. q \in Int /\ m \in 0..z - 1 /\ x = z * q + m
  <2> HIDE DEF x
  <2>1. QED BY <1>2
<1> HIDE DEF q, m
<1>4. z * (k - 1 - q) = m - (i - 1)
  <2>1. z * (k - 1 - q) = z * (k - 1) - z * q /\ z * (k - 1) \in Int /\ z * q \in Int
    BY <1>3
  <2>2. QED BY <1>1, <1>3, <2>1
<1> DEFINE d == k - 1 - q
<1>5. d \in Int /\ z * d = m - (i - 1)
  BY <1>3, <1>4
<1> HIDE DEF d, x
<1>6. ~(d >= 1)
  <2> SUFFICES ASSUME d >= 1 PROVE FALSE
    OBVIOUS
  <2>1. z * d >= z
    BY <1>5
  <2>2. QED BY <1>3, <1>5, <2>1
<1>7. ~(d <= -1)
  <2> SUFFICES ASSUME d <= -1 PROVE FALSE
    OBVIOUS
  <2>1. z * (-d) >= z /\ z * (-d) = -(z * d)
    BY <1>5
  <2>2. QED BY <1>3, <1>5, <2>1
<1>8. d = 0
  BY <1>5, <1>6, <1>7
<1>9. q = k - 1
  BY <1>3, <1>8 DEF d
<1>10. QED BY <1>9 DEF q, x

\* data.split: the pieces of the places 1 .. n, in order.
LEMMA FixedParts ==
    ASSUME NEW n \in Nat \ {0}
    PROVE  /\ Parted(FixedMicros(n), n, CeilDiv(n, MicroBatchSize), FALSE)
           /\ FlattenSeq(FixedMicros(n)) = [i \in 1..n |-> i]
<1> DEFINE z == MicroBatchSize
           m == CeilDiv(n, z)
           s == [i \in 1..n |-> i]
           parts == FixedMicros(n)
           first(k) == (k - 1) * z
           cut == [k \in 0..m |-> CutAt(n, z, k)]
<1>1. z \in Nat \ {0}
  BY UpdateAssumption
<1>2. parts = [k \in 1..m |-> Piece(s, z, k)]
  BY DEF FixedMicros
<1>3. s \in Seq(1..n) /\ Len(s) = n /\ \A i \in 1..n : s[i] = i
  OBVIOUS
<1> HIDE DEF s, parts, z
<1>4. m \in Nat \ {0} /\ n <= m * z /\ \A k \in 1..m : first(k) \in 0..n - 1
  BY <1>1, CeilDivIs
<1> HIDE DEF m
<1>5. ASSUME NEW k \in 1..m
      PROVE  /\ parts[k] = Piece(s, z, k)
             /\ parts[k] \in Seq(1..n)
             /\ CutAt(n, z, k) - first(k) \in 1..z
             /\ Len(parts[k]) = CutAt(n, z, k) - first(k)
             /\ \A i \in 1..CutAt(n, z, k) - first(k) :
                    first(k) + i \in 1..n /\ parts[k][i] = first(k) + i
  <2>1. first(k) < Len(s) /\ k \in Nat \ {0} /\ parts[k] = Piece(s, z, k)
    BY <1>2, <1>3, <1>4
  <2>2. /\ Piece(s, z, k) \in Seq(1..n)
        /\ CutAt(n, z, k) - first(k) \in 1..z
        /\ Window(Piece(s, z, k), s, first(k), CutAt(n, z, k) - first(k))
    BY <1>1, <1>3, <2>1, PieceIs
  <2> HIDE DEF first
  <2>3. QED BY <1>3, <2>1, <2>2 DEF Window
<1>6. parts \in [1..m -> Seq(1..n)]
  BY <1>2, <1>5
<1>7. ASSUME NEW k \in 1..m
      PROVE  /\ Distinct(parts[k]) /\ parts[k] # <<>>
             /\ \A r \in ToSet(parts[k]) : r \in 1..n /\ (r - 1) \div z = k - 1
  <2> DEFINE t == parts[k]
             l == CutAt(n, z, k) - first(k)
  <2>1. t \in Seq(1..n) /\ Len(t) = l /\ l \in 1..z /\ first(k) \in Nat
    BY <1>4, <1>5
  <2>2. \A i \in 1..l : first(k) + i \in 1..n /\ t[i] = first(k) + i
    BY <1>5
  <2>3. ASSUME NEW i \in 1..l PROVE (first(k) + i - 1) \div z = k - 1
    <3>1. l \in 1..z /\ k \in Nat \ {0}
      BY <1>4, <2>1
    <3> HIDE DEF l
    <3>2. i \in 1..z
      BY <1>1, <3>1
    <3>3. QED BY <1>1, <3>1, <3>2, PlaceInPiece
  <2> HIDE DEF t, l, first
  <2>4. DOMAIN t = 1..l
    BY <2>1
  <2>5. Distinct(t)
    BY <2>1, <2>2, <2>4 DEF Distinct
  <2>6. t # <<>>
    BY <2>1, EmptySeq
  <2>7. ASSUME NEW r \in ToSet(t) PROVE r \in 1..n /\ (r - 1) \div z = k - 1
    <3>1. PICK i \in 1..l : r = t[i]
      BY <2>4 DEF ToSet
    <3>2. r = first(k) + i /\ r \in 1..n
      BY <2>2, <3>1
    <3>3. (first(k) + i - 1) \div z = k - 1
      BY <2>3
    <3>4. r - 1 = first(k) + i - 1
      BY <2>1, <3>2
    <3>5. QED BY <3>2, <3>3, <3>4
  <2>8. QED BY <2>5, <2>6, <2>7 DEF t
<1>8. ASSUME NEW j \in 1..m, NEW k \in 1..m, j # k PROVE Apart(ToSet(parts[j]), ToSet(parts[k]))
  <2> SUFFICES ASSUME NEW r, r \in ToSet(parts[j]), r \in ToSet(parts[k]) PROVE FALSE
    BY DEF Apart
  <2>1. (r - 1) \div z = j - 1 /\ (r - 1) \div z = k - 1
    BY <1>7
  <2>2. QED BY <1>4, <1>8, <2>1
<1>9. ASSUME NEW r \in 1..n PROVE \E k \in 1..m : r \in ToSet(parts[k])
  <2> DEFINE b == (r - 1) \div z
             k == b + 1
             i == r - b * z
  <2>1. b \in Nat /\ k \in 1..m /\ b * z \in Nat /\ i \in 1..CutAt(n, z, k) - b * z
    BY <1>1, PieceOfPlace DEF m
  <2>2. first(k) = b * z
    BY <2>1
  <2> HIDE DEF b, k, first
  <2>3. i \in 1..CutAt(n, z, k) - first(k) /\ first(k) + i = r
    BY <2>1, <2>2
  <2>4. parts[k][i] = r /\ Len(parts[k]) = CutAt(n, z, k) - first(k) /\ parts[k] \in Seq(1..n)
    BY <1>5, <2>1, <2>3
  <2>5. i \in DOMAIN parts[k]
    BY <2>3, <2>4
  <2>6. r \in ToSet(parts[k])
    BY <2>4, <2>5 DEF ToSet
  <2>7. QED BY <2>1, <2>6
<1>10. Parted(parts, n, m, FALSE)
  BY <1>6, <1>7, <1>8, <1>9 DEF Parted
<1>11. Pieces(parts, s, m, cut)
  <2>1. ASSUME NEW k \in 0..m PROVE CutAt(n, z, k) \in 0..n
    <3>1. k * z \in Nat
      BY <1>1
    <3>2. QED BY <3>1 DEF CutAt
  <2>2. cut \in [0..m -> 0..Len(s)]
    BY <1>3, <2>1
  <2>3. cut[0] = 0
    <3>1. 0 * z = 0
      BY <1>1
    <3>2. CutAt(n, z, 0) = 0
      BY <3>1 DEF CutAt
    <3>3. 0 \in 0..m
      BY <1>4
    <3>4. QED BY <3>2, <3>3
  <2>4. ASSUME NEW k \in 1..m
        PROVE  /\ cut[k - 1] = first(k) /\ cut[k] = CutAt(n, z, k)
               /\ cut[k - 1] <= cut[k]
               /\ parts[k] = SubSeq(s, cut[k - 1] + 1, cut[k])
    <3>1. k - 1 \in 0..m /\ k \in 0..m
      BY <1>4
    <3>2. first(k) < n /\ first(k) \in Nat
      BY <1>4
    <3>3. cut[k - 1] = first(k) /\ cut[k] = CutAt(n, z, k)
      BY <3>1, <3>2 DEF CutAt
    <3>4. CutAt(n, z, k) - first(k) \in 1..z /\ CutAt(n, z, k) \in 0..n
      BY <1>5, <2>1, <3>1
    <3>5. Piece(s, z, k) = SubSeq(s, first(k) + 1, CutAt(n, z, k))
      BY <1>3 DEF Piece, CutAt
    <3> HIDE DEF first, cut
    <3>6. cut[k - 1] <= cut[k]
      BY <3>2, <3>3, <3>4
    <3>7. QED BY <1>5, <3>3, <3>5, <3>6
  <2>5. DOMAIN parts = 1..m /\ parts = [k \in 1..m |-> parts[k]]
    BY <1>2
  <2> HIDE DEF cut
  <2>6. parts = [k \in 1..m |-> SubSeq(s, cut[k - 1] + 1, cut[k])]
    BY <2>4, <2>5
  <2>7. QED BY <2>2, <2>3, <2>4, <2>6 DEF Pieces
<1>12. FlattenSeq(parts) = s
  <2>1. FlattenSeq(parts) = Flat(parts, m)
    BY <1>4, <1>10, FlatOfAny
  <2>2. Flat(parts, m) = Prefix(s, cut[m])
    <3> HIDE DEF cut
    <3>1. m \in 0..m /\ m \in Nat
      BY <1>4
    <3>2. QED BY <1>3, <1>11, <3>1, FlatOfPieces
  <2>3. cut[m] = n
    <3>1. m * z \in Int /\ ~(m * z < n)
      BY <1>1, <1>4
    <3>2. m \in 0..m
      BY <1>4
    <3>3. QED BY <3>1, <3>2 DEF CutAt
  <2>4. Prefix(s, n) = s
    <3>1. SubSeq(s, 1, Len(s)) = s
      BY <1>3, SubSeqFull
    <3>2. QED BY <1>3, <3>1 DEF Prefix
  <2>5. QED BY <2>1, <2>2, <2>3, <2>4
<1>13. QED BY <1>10, <1>12 DEF parts, m, z, s

-----------------------------------------------------------------------------
(***************************************************************************)
(* The parts of a batch, and its order.                                    *)
(***************************************************************************)

\* The parts of a rank in _balance_batch: only their order changes.
LEMMA EndsReorders ==
    ASSUME NEW T, NEW s \in Seq(T)
    PROVE  \E p : Reordered(s, p, Ends(s))
<1> DEFINE n == Len(s)
           h == (n + 1) \div 2
           l == n \div 2
           u == EvenPlaces(s)
           v == Reverse(OddPlaces(s))
           p == [i \in 1..n |-> IF i <= h THEN 2 * i - 1 ELSE 2 * (l + 1 - (i - h))]
           t == Ends(s)
<1>1. n \in Nat
  OBVIOUS
<1>2. Halves(n, h, l)
  BY <1>1, HalvesOf
<1>3. /\ u \in Seq(T) /\ Len(u) = h /\ \A i \in 1..h : u[i] = s[2 * i - 1]
      /\ v \in Seq(T) /\ Len(v) = l /\ \A i \in 1..l : v[i] = s[2 * (l + 1 - i)]
  <2> HIDE DEF h, l
  <2>1. h = (Len(s) + 1) \div 2 /\ l = Len(s) \div 2 /\ Halves(Len(s), h, l)
    BY <1>2 DEF h, l
  <2>2. /\ u \in Seq(T) /\ Len(u) = h /\ \A i \in 1..h : u[i] = s[2 * i - 1]
        /\ v \in Seq(T) /\ Len(v) = l
    BY <2>1, Places
  <2>3. Backward(v, s, l)
    BY <2>1, Places
  <2>4. QED BY <2>2, <2>3 DEF Backward
<1> HIDE DEF h, l, u, v, n
<1>4. h \in Nat /\ l \in Nat /\ h + l = n /\ (2 * h = n \/ 2 * h = n + 1)
  BY <1>2 DEF Halves
<1>5. p \in [1..n -> 1..n]
  BY <1>1, <1>4
<1>6. \A i, j \in 1..n : p[i] = p[j] => i = j
  BY <1>1, <1>4
<1>7. /\ t \in Seq(T) /\ Len(t) = h + l
      /\ \A i \in 1..h + l : t[i] = IF i <= h THEN u[i] ELSE v[i - h]
  BY <1>3, ConcatProperties DEF Ends, u, v
<1>8. ASSUME NEW i \in 1..n PROVE t[i] = s[p[i]]
  <2>1. CASE i <= h
    <3>1. i \in 1..h
      BY <1>4, <2>1
    <3>2. t[i] = u[i]
      BY <1>4, <1>7, <2>1
    <3>3. QED BY <1>3, <2>1, <3>1, <3>2
  <2>2. CASE ~(i <= h)
    <3>1. i - h \in 1..l
      BY <1>4, <2>2
    <3>2. QED BY <1>3, <1>4, <1>7, <2>2, <3>1
  <2>3. QED BY <2>1, <2>2
<1> HIDE DEF p, t
<1>9. Reordered(s, p, t)
  BY <1>4, <1>5, <1>6, <1>7, <1>8, ReadAt DEF n
<1>10. QED BY <1>9 DEF t

\* DataProto.chunk: n entries in world parts of c.
Chunked(n, c) == c \in Nat \ {0} /\ n = world * c /\ n \div world = c

\* The driver lets through only batches that the number of ranks divides.
LEMMA ChunkSize ==
    ASSUME world \in Nat \ {0}, NEW n \in Nat \ {0}, n % world = 0
    PROVE  Chunked(n, n \div world)
<1> DEFINE c == n \div world
<1>1. c \in Int /\ c >= 0 /\ n = world * c + (n % world)
  OBVIOUS
<1> HIDE DEF c
<1>2. n = world * c
  BY <1>1
<1>3. c # 0
  BY <1>2
<1>4. c \in Nat \ {0}
  BY <1>1, <1>3
<1>5. QED BY <1>2, <1>4 DEF c, Chunked

\* The part of a rank.
LEMMA PartIs ==
    ASSUME NEW T, NEW s \in Seq(T), NEW n, NEW c, Chunked(n, c), Len(s) = n,
           world \in Nat \ {0}, NEW w \in Ranks
    PROVE  Part(s, w) \in Seq(T) /\ Window(Part(s, w), s, (w - 1) * c, c)
<1> DEFINE a == (w - 1) * c
           b == w * c
           t == SubSeq(s, a + 1, b)
<1>1. c \in Nat \ {0} /\ n = world * c /\ n \div world = c /\ w \in 1..world
  BY DEF Chunked, Ranks
<1>2. a \in Nat /\ b = a + c
  BY <1>1
<1>3. b <= n /\ n \in Nat
  <2>1. (world - w) * c >= 0
    BY <1>1
  <2>2. world * c = w * c + (world - w) * c /\ w * c \in Int /\ (world - w) * c \in Int
    BY <1>1
  <2>3. QED BY <1>1, <2>1, <2>2
<1>4. Part(s, w) = t
  BY <1>1 DEF Part
<1> HIDE DEF a, b
<1>5. \A i \in a + 1..b : i \in 1..n /\ s[i] \in T
  <2>1. \A i \in 1..n : s[i] \in T
    OBVIOUS
  <2>2. QED BY <1>2, <1>3, <2>1
<1>6. /\ t \in Seq(T)
      /\ Len(t) = IF a + 1 <= b THEN b - (a + 1) + 1 ELSE 0
      /\ \A i \in 1..b - (a + 1) + 1 : t[i] = s[a + 1 + i - 1]
  <2> DEFINE d == a + 1
  <2>1. d \in Int /\ b \in Int
    BY <1>1, <1>2
  <2>2. \A i \in d..b : s[i] \in T
    BY <1>5
  <2> HIDE DEF d
  <2>3. /\ SubSeq(s, d, b) \in Seq(T)
        /\ Len(SubSeq(s, d, b)) = IF d <= b THEN b - d + 1 ELSE 0
        /\ \A i \in 1..b - d + 1 : SubSeq(s, d, b)[i] = s[d + i - 1]
    BY <2>1, <2>2, SubSeqProperties
  <2>4. QED BY <2>3 DEF d
<1> HIDE DEF t
<1>7. Len(t) = c
  BY <1>1, <1>2, <1>6
<1>8. ASSUME NEW i \in 1..c PROVE a + i \in 1..n /\ t[i] = s[a + i]
  <2>1. i \in 1..b - (a + 1) + 1 /\ a + 1 + i - 1 = a + i /\ a + i \in a + 1..b
    BY <1>1, <1>2
  <2>2. t[i] = s[a + 1 + i - 1]
    BY <1>6, <2>1
  <2>3. QED BY <1>5, <2>1, <2>2
<1>9. QED BY <1>4, <1>6, <1>7, <1>8 DEF Window, a

\* Each place of the batch is in the part of one rank.
LEMMA PlaceOfRank ==
    ASSUME NEW n \in Nat \ {0}, NEW c, Chunked(n, c), world \in Nat \ {0}, NEW p \in 1..n
    PROVE  LET w == ((p - 1) \div c) + 1
           IN  w \in Ranks /\ p - (w - 1) * c \in 1..c
<1> DEFINE b == (p - 1) \div c
           i == (p - 1) % c
<1>1. c \in Nat \ {0} /\ n = world * c
  BY DEF Chunked
<1>2. b \in Int /\ b >= 0 /\ i \in 0..c - 1 /\ p - 1 = c * b + i
  BY <1>1
<1> HIDE DEF b, i
<1>3. b + 1 <= world
  <2> SUFFICES ASSUME world <= b PROVE FALSE
    BY <1>2
  <2>1. (b - world) * c >= 0
    BY <1>1, <1>2
  <2>2. c * b = world * c + (b - world) * c /\ world * c \in Int /\ (b - world) * c \in Int
    BY <1>1, <1>2
  <2>3. QED BY <1>1, <1>2, <2>1, <2>2
<1> DEFINE w == b + 1
<1>4. w \in Ranks /\ w - 1 = b /\ w = ((p - 1) \div c) + 1
  BY <1>1, <1>2, <1>3 DEF Ranks, b
<1> HIDE DEF w
<1> DEFINE y == (w - 1) * c
<1>5. y = c * b
  BY <1>1, <1>2, <1>4
<1> HIDE DEF y
<1>6. p - y \in 1..c
  <2>1. c * b \in Int
    BY <1>1, <1>2
  <2>2. p - y = i + 1
    BY <1>2, <1>5, <2>1
  <2>3. QED BY <1>1, <1>2, <2>2
<1>7. QED BY <1>4, <1>6 DEF y

\* And has there one number only.
LEMMA OneRankOnly ==
    ASSUME NEW c \in Nat \ {0}, NEW v \in Nat \ {0}, NEW w \in Nat \ {0},
           NEW i \in 1..c, NEW j \in 1..c, (v - 1) * c + i = (w - 1) * c + j
    PROVE  v = w /\ i = j
<1>1. ((v - 1) * c + i - 1) \div c = v - 1 /\ ((w - 1) * c + j - 1) \div c = w - 1
  BY PlaceInPiece
<1> DEFINE a == (v - 1) * c
           b == (w - 1) * c
<1>2. a \in Int /\ b \in Int /\ a + i = b + j
  OBVIOUS
<1>3. v - 1 = w - 1
  <2>1. a + i - 1 = b + j - 1
    BY <1>2
  <2>2. QED BY <1>1, <2>1
<1>4. v = w
  BY <1>3
<1>5. a = b
  BY <1>4
<1> HIDE DEF a, b
<1>6. QED BY <1>2, <1>4, <1>5

\* DataProto.concat of the answers: the parts together are the batch again.
LEMMA PartsTogether ==
    ASSUME NEW T, NEW s \in Seq(T), NEW n \in Nat \ {0}, NEW c, Chunked(n, c), Len(s) = n,
           world \in Nat \ {0},
           NEW ss, ss = [w \in Ranks |-> Part(s, w)]
    PROVE  FlattenSeq(ss) = s
<1> DEFINE cut == [k \in 0..world |-> k * c]
<1>1. c \in Nat \ {0} /\ n = world * c /\ n \div world = c
  BY DEF Chunked
<1>2. ASSUME NEW k \in 0..world PROVE k * c \in 0..n
  <2>1. k * c \in Nat /\ (world - k) * c >= 0
    BY <1>1
  <2>2. world * c = k * c + (world - k) * c /\ (world - k) * c \in Int
    BY <1>1
  <2>3. QED BY <1>1, <2>1, <2>2
<1>3. cut \in [0..world -> 0..Len(s)]
  BY <1>2
<1>4. cut[0] = 0 /\ cut[world] = n
  <2>1. 0 * c = 0 /\ 0 \in 0..world /\ world \in 0..world
    BY <1>1
  <2>2. QED BY <1>1, <2>1
<1>5. ASSUME NEW k \in 1..world
      PROVE  /\ cut[k - 1] = (k - 1) * c /\ cut[k] = k * c
             /\ cut[k - 1] <= cut[k]
             /\ Part(s, k) = SubSeq(s, cut[k - 1] + 1, cut[k])
  <2>1. k - 1 \in 0..world /\ k \in 0..world
    OBVIOUS
  <2>2. cut[k - 1] = (k - 1) * c /\ cut[k] = k * c
    BY <2>1
  <2>3. k * c = (k - 1) * c + c /\ (k - 1) * c \in Int
    BY <1>1
  <2> HIDE DEF cut
  <2>4. cut[k - 1] <= cut[k]
    <3> DEFINE d == (k - 1) * c
    <3>1. d \in Int /\ cut[k - 1] = d /\ cut[k] = d + c
      BY <2>2, <2>3
    <3> HIDE DEF d
    <3>2. QED BY <1>1, <3>1
  <2>5. Part(s, k) = SubSeq(s, (k - 1) * c + 1, k * c)
    BY <1>1 DEF Part
  <2>6. QED BY <2>2, <2>4, <2>5
<1> HIDE DEF cut
<1>6. ss = [k \in 1..world |-> SubSeq(s, cut[k - 1] + 1, cut[k])]
  BY <1>5 DEF Ranks
<1>7. Pieces(ss, s, world, cut)
  BY <1>3, <1>4, <1>5, <1>6 DEF Pieces
<1>8. /\ ss \in Seq(Seq(T)) /\ Len(ss) = world
      /\ Flat(ss, world) = Prefix(s, cut[world])
  <2>1. world \in Nat /\ world \in 0..world
    OBVIOUS
  <2>2. QED BY <1>7, <2>1, FlatOfPieces
<1>9. FlattenSeq(ss) = Flat(ss, world)
  BY <1>8, FlatIs
<1>10. Prefix(s, n) = s
  <2>1. SubSeq(s, 1, Len(s)) = s
    BY SubSeqFull
  <2>2. QED BY <2>1 DEF Prefix
<1>11. QED BY <1>4, <1>8, <1>9, <1>10

\* A row has positive work.
LEMMA WorkloadIs ==
    ASSUME NEW l \in Nat \ {0}
    PROVE  Workload(l) \in Nat \ {0}
<1>1. l * l \in Nat /\ 24576 * l \in Nat /\ 24576 * l > 0
  OBVIOUS
<1>2. QED BY <1>1 DEF Workload

(***************************************************************************)
(* Sequences of one length one after the other.                            *)
(***************************************************************************)

\* The first k sequences of c elements are where one expects them.
InFlat(ss, k, c) ==
    /\ Len(Flat(ss, k)) = k * c
    /\ \A w \in 1..k, j \in 1..c : Flat(ss, k)[(w - 1) * c + j] = ss[w][j]

\* The concatenation of sequences of c elements.
LEMMA FlatPlaces ==
    ASSUME NEW T, NEW ss \in Seq(Seq(T)), NEW c \in Nat, \A i \in 1..Len(ss) : Len(ss[i]) = c
    PROVE  InFlat(ss, Len(ss), c)
<1> DEFINE N == Len(ss)
           Bad == {k \in 0..N : ~InFlat(ss, k, c)}
<1>1. N \in Nat /\ \A i \in 1..N : ss[i] \in Seq(T) /\ Len(ss[i]) = c
  OBVIOUS
<1>2. /\ Flat(ss, 0) = <<>>
      /\ \A k \in 1..N : Flat(ss, k) = Cat(Flat(ss, k - 1), ss[k])
      /\ \A k \in 0..N : Flat(ss, k) \in Seq(T)
  BY FlatIs
<1> HIDE DEF N
<1>3. InFlat(ss, 0, c)
  <2>1. Len(<<>>) = 0 /\ 0 * c = 0 /\ 1..0 = {}
    OBVIOUS
  <2>2. QED BY <1>2, <2>1 DEF InFlat
<1>4. ASSUME NEW k \in 1..N, InFlat(ss, k - 1, c) PROVE InFlat(ss, k, c)
  <2> DEFINE u == Flat(ss, k - 1)
             v == ss[k]
             t == Cat(u, v)
             a == (k - 1) * c
  <2>1. /\ u \in Seq(T) /\ v \in Seq(T) /\ Flat(ss, k) = t
        /\ Len(u) = a /\ Len(v) = c
        /\ \A w \in 1..k - 1, j \in 1..c : u[(w - 1) * c + j] = ss[w][j]
    <3>1. k - 1 \in 0..N /\ k \in 1..N
      BY <1>1
    <3>2. QED BY <1>1, <1>2, <1>4, <3>1 DEF InFlat
  <2>2. a \in Nat /\ k * c = a + c
    BY <1>1
  <2>3. ASSUME NEW w \in 1..k - 1, NEW j \in 1..c PROVE (w - 1) * c + j \in 1..a
    <3>1. (w - 1) * c + c <= (k - 1) * c /\ (w - 1) * c \in Nat
      <4>1. (k - 1) * c = (w - 1) * c + c + (k - 1 - w) * c
        BY <1>1
      <4>2. (k - 1 - w) * c >= 0 /\ (k - 1 - w) * c \in Int
        BY <1>1
      <4>3. (w - 1) * c \in Nat
        BY <1>1
      <4>4. QED BY <1>1, <4>1, <4>2, <4>3
    <3> DEFINE d == (w - 1) * c
    <3>2. d \in Nat /\ d + c <= a
      BY <3>1
    <3> HIDE DEF d, a
    <3>3. d + j \in 1..a
      BY <2>2, <3>2
    <3>4. QED BY <3>3 DEF d
  <2> HIDE DEF u, v, a
  <2>4. /\ Len(t) = Len(u) + Len(v)
        /\ \A i \in 1..Len(u) + Len(v) :
               t[i] = IF i <= Len(u) THEN u[i] ELSE v[i - Len(u)]
    BY <2>1, ConcatProperties DEF Cat
  <2> HIDE DEF t
  <2>5. Len(t) = k * c
    BY <2>1, <2>2, <2>4
  <2>6. ASSUME NEW w \in 1..k, NEW j \in 1..c PROVE t[(w - 1) * c + j] = ss[w][j]
    <3> DEFINE i == (w - 1) * c + j
    <3>1. CASE w = k
      <4>1. i = a + j /\ ss[w] = v
        BY <3>1 DEF a, v
      <4> HIDE DEF i
      <4>2. t[i] = v[j]
        BY <2>1, <2>2, <2>4, <4>1
      <4>3. QED BY <4>1, <4>2 DEF i
    <3>2. CASE w # k
      <4>1. w \in 1..k - 1
        BY <3>2
      <4>2. i \in 1..a /\ u[i] = ss[w][j]
        BY <2>1, <2>3, <4>1
      <4> HIDE DEF i
      <4>3. t[i] = u[i]
        BY <2>1, <2>2, <2>4, <4>2
      <4>4. QED BY <4>2, <4>3 DEF i
    <3>3. QED BY <3>1, <3>2
  <2>7. QED BY <2>1, <2>5, <2>6 DEF InFlat
<1>5. Bad = {}
  <2> SUFFICES ASSUME Bad # {} PROVE FALSE
    OBVIOUS
  <2>1. PICK k \in Bad : \A m \in Bad : k <= m
    <3>1. Bad \in SUBSET Nat
      OBVIOUS
    <3> HIDE DEF Bad
    <3>2. QED BY <3>1, SmallestNumber
  <2>2. k \in 0..N /\ ~InFlat(ss, k, c)
    OBVIOUS
  <2>3. k \in 1..N /\ k - 1 \in 0..N /\ ~(k <= k - 1)
    BY <1>1, <1>3, <2>2
  <2>4. InFlat(ss, k - 1, c)
    <3>1. k - 1 \notin Bad
      <4> HIDE DEF Bad
      <4>1. QED BY <2>1, <2>3
    <3>2. QED BY <2>3, <3>1
  <2>5. QED BY <1>4, <2>2, <2>3, <2>4
<1>6. QED BY <1>1, <1>5 DEF N

\* What is in the w-th of the parts of c elements.
PartOfOrder(s, w, c) == {s[(w - 1) * c + j] : j \in 1..c}

\* _balance_batch puts the rows of one rank after those of another.
OrderedByParts(order, load, n, c) ==
    /\ Permutes(order, n)
    /\ Rebalanced = [i \in 1..n |-> rows[order[i]]]
    /\ \A w \in Ranks :
          PartOfOrder(order, w, c) = ToSet(BalancedPartitions(load, world, TRUE)[w])

\* There is such an order of the rows.
LEMMA RebalancedOrder ==
    ASSUME NEW n \in Nat \ {0}, NEW c, Chunked(n, c), world \in Nat \ {0},
           Permutes(rows, n), tokens \in [1..n -> Nat \ {0}]
    PROVE  \E order : OrderedByParts(order, [i \in DOMAIN rows |-> Workload(tokens[rows[i]])], n, c)
<1> DEFINE load == [i \in DOMAIN rows |-> Workload(tokens[rows[i]])]
           parts == BalancedPartitions(load, world, TRUE)
           sorted == [w \in DOMAIN parts |-> ByWork(load, parts[w])]
           others == [w \in DOMAIN parts |-> Ends(ByWork(load, parts[w]))]
           order == FlattenSeq(others)
           e == TRUE
<1>1. /\ rows \in [1..n -> 1..n] /\ DOMAIN rows = 1..n
      /\ \A i, j \in 1..n : rows[i] = rows[j] => i = j
  BY DEF Permutes
<1>2. c \in Nat \ {0} /\ n = world * c
  BY DEF Chunked
<1>3. n >= world /\ n % world = 0
  <2>1. world * c = world + world * (c - 1) /\ world * (c - 1) >= 0 /\ world * (c - 1) \in Int
    BY <1>2
  <2>2. n >= world
    BY <1>2, <2>1
  <2>3. (world * c) % world = 0
    <3> DEFINE q == n \div world
               r == n % world
    <3>1. q = c
      BY DEF Chunked
    <3>2. r \in 0..world - 1 /\ n = world * q + r
      OBVIOUS
    <3>3. world * c \in Int
      BY <1>2
    <3> HIDE DEF q, r
    <3>4. r = 0
      BY <1>2, <3>1, <3>2, <3>3
    <3>5. QED BY <1>2, <3>4 DEF r
  <2>4. QED BY <1>2, <2>2, <2>3
<1>4. load \in [1..n -> Nat \ {0}]
  <2>1. \A i \in 1..n : tokens[rows[i]] \in Nat \ {0}
    BY <1>1
  <2>2. \A i \in 1..n : Workload(tokens[rows[i]]) \in Nat \ {0}
    BY <2>1, WorkloadIs
  <2>3. QED BY <1>1, <2>2
<1> HIDE DEF load
<1>5. Parted(parts, n, world, e)
  <2>1. parts = BalancedPartitions(load, world, e) /\ e \in BOOLEAN
    OBVIOUS
  <2> HIDE DEF e, parts
  <2>2. QED BY <1>3, <1>4, <2>1, BalancedParts
<1> HIDE DEF parts, e
<1>6. DOMAIN parts = 1..world /\ \A w \in 1..world : parts[w] \in Seq(1..n)
  BY <1>5 DEF Parted
<1>7. /\ DOMAIN sorted = 1..world /\ sorted = [w \in 1..world |-> sorted[w]]
      /\ \A w \in 1..world : sorted[w] = ByWork(load, parts[w])
      /\ DOMAIN others = 1..world /\ others = [w \in 1..world |-> others[w]]
      /\ \A w \in 1..world : others[w] = Ends(sorted[w])
  BY <1>6
<1>8. Rebalanced = [i \in DOMAIN order |-> rows[order[i]]]
  BY DEF Rebalanced, load, parts
<1> HIDE DEF sorted, others
<1>9. \A w \in 1..world : \E p : Reordered(parts[w], p, sorted[w])
  <2>1. load \in [1..n -> Int]
    BY <1>4
  <2>2. QED BY <1>6, <1>7, <2>1, ByWorkReorders
<1>10. Parted(sorted, n, world, e)
  BY <1>5, <1>7, <1>9, ReorderedParts
<1>11. \A w \in 1..world : \E p : Reordered(sorted[w], p, others[w])
  <2>1. \A w \in 1..world : sorted[w] \in Seq(1..n)
    BY <1>10 DEF Parted
  <2>2. QED BY <1>7, <2>1, EndsReorders
<1>12. Parted(others, n, world, e)
  BY <1>7, <1>10, <1>11, ReorderedParts
<1>13. /\ others \in Seq(Seq(1..n)) /\ Len(others) = world
       /\ FlattenSeq(others) = Flat(others, world)
       /\ FlattenSeq(others) \in Seq(1..n) /\ Len(FlattenSeq(others)) = n
       /\ Permutes(FlattenSeq(others), n)
       /\ e => \A i \in 1..world : Len(others[i]) * world = n
  BY <1>12, FlatOfParts
<1>14. ASSUME NEW w \in 1..world PROVE Len(others[w]) = c
  <2> DEFINE l == Len(others[w])
  <2>1. others[w] \in Seq(1..n)
    BY <1>12 DEF Parted
  <2>2. l \in Nat /\ l * world = n
    BY <1>13, <2>1 DEF e
  <2> HIDE DEF l
  <2>3. l * world = c * world
    BY <1>2, <2>2
  <2>4. l = c
    BY <1>2, <2>2, <2>3
  <2>5. QED BY <2>4 DEF l
<1>15. InFlat(others, world, c)
  <2>1. c \in Nat /\ \A i \in 1..Len(others) : Len(others[i]) = c
    BY <1>2, <1>13, <1>14
  <2> DEFINE T == 1..n
  <2>2. others \in Seq(Seq(T))
    BY <1>13
  <2> HIDE DEF T
  <2>3. InFlat(others, Len(others), c)
    BY <2>1, <2>2, FlatPlaces
  <2>4. QED BY <1>13, <2>3
<1>16. \A w \in 1..world, j \in 1..c : order[(w - 1) * c + j] = others[w][j]
  BY <1>13, <1>15 DEF InFlat
<1>17. order \in Seq(1..n) /\ Len(order) = n /\ Permutes(order, n)
  BY <1>13
<1> HIDE DEF order
<1>18. ASSUME NEW w \in 1..world PROVE PartOfOrder(order, w, c) = ToSet(parts[w])
  <2>1. others[w] \in Seq(1..n) /\ sorted[w] \in Seq(1..n) /\ parts[w] \in Seq(1..n)
    BY <1>5, <1>10, <1>12 DEF Parted
  <2>2. ToSet(sorted[w]) = ToSet(parts[w]) /\ ToSet(others[w]) = ToSet(sorted[w])
    <3> DEFINE x == others[w]
               y == sorted[w]
               z == parts[w]
               T == 1..n
    <3>1. /\ y \in Seq(T) /\ z \in Seq(T)
          /\ (\E p : Reordered(z, p, y)) /\ (\E p : Reordered(y, p, x))
      BY <1>9, <1>11, <2>1
    <3> HIDE DEF x, y, z, T
    <3>2. ToSet(y) = ToSet(z)
      BY <3>1, ReorderedFacts
    <3>3. ToSet(x) = ToSet(y)
      BY <3>1, ReorderedFacts
    <3>4. QED BY <3>2, <3>3 DEF x, y, z
  <2>3. DOMAIN others[w] = 1..c
    BY <1>14, <2>1
  <2>4. PartOfOrder(order, w, c) = ToSet(others[w])
    <3> DEFINE x == others[w]
    <3>1. ToSet(x) = {x[j] : j \in 1..c}
      BY <2>3 DEF ToSet
    <3>2. \A j \in 1..c : order[(w - 1) * c + j] = x[j]
      BY <1>16
    <3> HIDE DEF x
    <3>3. PartOfOrder(order, w, c) = {x[j] : j \in 1..c}
      BY <3>2, Zenon DEF PartOfOrder
    <3>4. QED BY <3>1, <3>3 DEF x
  <2>5. QED BY <2>2, <2>4
<1>19. Rebalanced = [i \in 1..n |-> rows[order[i]]]
  BY <1>8, <1>17
<1>20. OrderedByParts(order, load, n, c)
  BY <1>17, <1>18, <1>19 DEF OrderedByParts, Ranks, parts
<1>21. QED BY <1>20 DEF load

\* So it only changes the order of the rows.
LEMMA RebalancedRows ==
    ASSUME NEW n \in Nat \ {0}, NEW c, Chunked(n, c), world \in Nat \ {0},
           Permutes(rows, n), tokens \in [1..n -> Nat \ {0}]
    PROVE  Permutes(Rebalanced, n)
<1>1. PICK order : Permutes(order, n) /\ Rebalanced = [i \in 1..n |-> rows[order[i]]]
  BY RebalancedOrder DEF OrderedByParts
<1>2. rows \in [1..n -> 1..n] /\ \A i, j \in 1..n : rows[i] = rows[j] => i = j
  BY DEF Permutes
<1>3. \A i \in 1..n : order[i] \in 1..n
  BY <1>1 DEF Permutes
<1> DEFINE new == [i \in 1..n |-> rows[order[i]]]
<1>4. Rebalanced = new
  BY <1>1
<1>5. new \in [1..n -> 1..n] /\ \A i, j \in 1..n : new[i] = new[j] => i = j
  <2>1. new \in [1..n -> 1..n]
    BY <1>2, <1>3
  <2>2. ASSUME NEW i \in 1..n, NEW j \in 1..n, new[i] = new[j] PROVE i = j
    <3>1. order[i] \in 1..n /\ order[j] \in 1..n /\ rows[order[i]] = rows[order[j]]
      BY <1>3, <2>2
    <3>2. order[i] = order[j]
      BY <1>2, <3>1
    <3>3. QED BY <1>1, <3>2 DEF Permutes
  <2>3. QED BY <2>1, <2>2
<1> HIDE DEF new
<1>6. Permutes(new, n)
  BY <1>5, OneToOneIsOnto
<1>7. QED BY <1>4, <1>6

\* A rank needs at least one micro-batch, and at most one for each row.
LEMMA CountIs ==
    ASSUME NEW l \in Nat \ {0}, NEW t \in [1..l -> 1..MaxTokenLen]
    PROVE  MicroBatchesFor(t, MaxTokenLen) \in 1..l
<1> DEFINE x == SumFunction(t)
           z == MaxTokenLen
           y == CeilDiv(x, z)
<1>1. z \in Nat \ {0}
  BY UpdateAssumption
<1>2. x \in Nat \ {0}
  <2>1. t \in [1..l -> Nat] /\ l > 0 /\ \A i \in 1..l : t[i] > 0
    BY <1>1
  <2>2. l \in Nat
    OBVIOUS
  <2>3. QED BY <2>1, <2>2, SumIsNatural
<1>3. y \in Nat \ {0}
  <2> HIDE DEF x, z
  <2>1. QED BY <1>1, <1>2, CeilDivIs
<1>4. Len(t) = l
  OBVIOUS
<1>5. MicroBatchesFor(t, MaxTokenLen) = IF l < y THEN l ELSE y
  BY <1>4 DEF MicroBatchesFor
<1> HIDE DEF y
<1>6. QED BY <1>3, <1>5

-----------------------------------------------------------------------------
(***************************************************************************)
(* The invariant of the update.                                            *)
(***************************************************************************)
\* The rows, the rows of a rank, its mini-batches in an epoch.
RowTotal == Len(tokens)
PartSize == RowTotal \div world
MiniCount == CeilDiv(PartSize, MiniBatchSize)

\* The batch as the driver deals it out.
Dealt ==
    [i \in 1..RowTotal |->
        [row |-> rows[i], logProb |-> IF phase = "log_prob" THEN 0 ELSE rows[i]]]

\* The batch is a whole number of rows for each rank, in some order, and the
\* ranks have their parts of it.
BatchInv ==
    /\ RowTotal \in Nat \ {0}
    /\ tokens \in [1..RowTotal -> 1..MaxTokenLen]
    /\ world \in Nat \ {0}
    /\ RowTotal % world = 0
    /\ Permutes(rows, RowTotal)
    /\ phase \in {"balance", "log_prob", "update", "updated"}
    /\ phase # "balance" => share = [w \in Ranks |-> Part(Dealt, w)]
    /\ phase \in {"update", "updated"} => oldLogProbs = rows

\* What is asked of the variables of the ranks.
RankTypes ==
    /\ share \in [Ranks -> Seq(Entries)]
    /\ at \in [Ranks -> {"prepare", "reduce", "divide", "forward", "step", "answered"}]
    /\ turn \in [Ranks -> Nat]
    /\ count \in [Ranks -> Nat]
    /\ micros = [w \in Ranks |-> micros[w]]
    /\ done \in [Ranks -> Nat]
    /\ outputs \in [Ranks -> Seq(DOMAIN tokens)]
    /\ grads \in [Ranks -> Seq(Entries)]

RowsAt(entries) == [i \in DOMAIN entries |-> entries[i].row]

\* Nothing is done yet for the (mini-)batch.
Fresh(w) == done[w] = 0 /\ outputs[w] = <<>> /\ grads[w] = <<>>

\* The micro-batches of a rank are M parts of its l rows.
Divided(w, l, M) ==
    /\ Parted(micros[w], l, M, FALSE)
    /\ ~dynamicBsz => FlattenSeq(micros[w]) = [i \in 1..l |-> i]

\* What d micro-batches give.
Computed(w, d) ==
    IF phase = "log_prob"
    THEN outputs[w] = Image(RowsAt(Current(w)), Flat(micros[w], d))
    ELSE grads[w] = Image(Current(w), Flat(micros[w], d))

Gathering(l) ==
    /\ dynamicBsz
    /\ \A w \in Ranks : \/ at[w] = "prepare"
                        \/ at[w] = "reduce" /\ count[w] \in 1..l /\ Fresh(w)

ReadyFor(w, l, M) ==
    \/ dynamicBsz /\ at[w] = "divide" /\ count[w] = M /\ Fresh(w)
    \/ ~dynamicBsz /\ at[w] = "prepare"
    \/ at[w] = "forward" /\ Divided(w, l, M) /\ Fresh(w)
Dividing(l) ==
    \E M \in Nat \ {0} :
        /\ dynamicBsz => M <= l
        /\ ~dynamicBsz => M = CeilDiv(l, MicroBatchSize)
        /\ \A w \in Ranks : ReadyFor(w, l, M)

Going(w, l, M, d) ==
    /\ Divided(w, l, M)
    /\ done[w] = d
    /\ \/ at[w] = "forward" /\ Computed(w, d)
       \/ at[w] = "step" /\ phase = "update" /\ d = M /\ Computed(w, d)
       \/ at[w] = "answered" /\ phase = "log_prob" /\ d = M
             /\ outputs[w] = RowsAt(Current(w))
Passing(l) ==
    \E M \in Nat \ {0} : \E d \in 1..M : \A w \in Ranks : Going(w, l, M, d)

Stage(l) == Gathering(l) \/ Dividing(l) \/ Passing(l)

\* q epochs and r mini-batches are over.
TurnIs(q, r) ==
    /\ q \in 0..PpoEpochs
    /\ r \in 0..MiniCount - 1
    /\ q = PpoEpochs => r = 0
    /\ turn = AllRanks(q * MiniCount + r + 1)
MiniSize(r) == CutAt(PartSize, MiniBatchSize, r + 1) - r * MiniBatchSize
UsedSoFar(q, r) ==
    \A w \in Ranks, j \in 1..PartSize :
        uses[rows[(w - 1) * PartSize + j]] =
            IF (j - 1) \div MiniBatchSize < r THEN q + 1 ELSE q
Updating(q, r) ==
    /\ TurnIs(q, r)
    /\ UsedSoFar(q, r)
    /\ IF q = PpoEpochs THEN at = AllRanks("answered") ELSE Stage(MiniSize(r))

UpdateInv ==
    /\ BatchInv
    /\ RankTypes
    /\ uses \in [1..RowTotal -> 0..PpoEpochs]
    /\ phase = "balance" => at = AllRanks("answered")
    /\ phase \in {"balance", "log_prob"} => uses = [r \in 1..RowTotal |-> 0]
    /\ phase = "log_prob" => Stage(PartSize)
    /\ phase = "update" => \E q, r \in Nat : Updating(q, r)
    /\ phase = "updated" =>
           at = AllRanks("answered") /\ uses = [r \in 1..RowTotal |-> PpoEpochs]

-----------------------------------------------------------------------------
(***************************************************************************)
(* What a rank works on.                                                   *)
(***************************************************************************)

\* Every rank works on l rows.
Placed(l) ==
    /\ l \in Nat \ {0}
    /\ \A w \in Ranks : Current(w) \in Seq(Entries) /\ Len(Current(w)) = l

\* The part of a rank, by its places.
LEMMA ShareIs ==
    ASSUME BatchInv, phase # "balance", NEW w \in Ranks
    PROVE  /\ Chunked(RowTotal, PartSize)
           /\ share[w] \in Seq(Entries)
           /\ Window(share[w], Dealt, (w - 1) * PartSize, PartSize)
<1>1. /\ RowTotal \in Nat \ {0} /\ world \in Nat \ {0} /\ RowTotal % world = 0
      /\ Permutes(rows, RowTotal) /\ share[w] = Part(Dealt, w)
      /\ DOMAIN tokens = 1..RowTotal
  BY DEF BatchInv, Ranks
<1>2. Chunked(RowTotal, PartSize)
  BY <1>1, ChunkSize DEF PartSize
<1>3. Dealt \in Seq(Entries) /\ Len(Dealt) = RowTotal
  <2>1. \A i \in 1..RowTotal : rows[i] \in DOMAIN tokens
    BY <1>1 DEF Permutes
  <2>2. \A i \in 1..RowTotal :
            [row |-> rows[i], logProb |-> IF phase = "log_prob" THEN 0 ELSE rows[i]] \in Entries
    BY <2>1 DEF Entries
  <2> DEFINE n == RowTotal
  <2>3. Dealt \in [1..n -> Entries] /\ n \in Nat
    BY <1>1, <2>2 DEF Dealt
  <2> HIDE DEF n
  <2>4. QED BY <2>3 DEF n
<1>4. QED BY <1>1, <1>2, <1>3, PartIs

\* An entry of the part of a rank.
LEMMA EntryIs ==
    ASSUME BatchInv, phase # "balance", NEW w \in Ranks, NEW j \in 1..PartSize
    PROVE  /\ (w - 1) * PartSize + j \in 1..RowTotal
           /\ share[w][j].row = rows[(w - 1) * PartSize + j]
           /\ share[w][j].logProb =
                  IF phase = "log_prob" THEN 0 ELSE rows[(w - 1) * PartSize + j]
<1> DEFINE a == (w - 1) * PartSize
           p == a + j
<1>1. Window(share[w], Dealt, a, PartSize)
  BY ShareIs
<1> HIDE DEF a
<1>2. p \in 1..Len(Dealt) /\ share[w][j] = Dealt[p]
  BY <1>1 DEF Window
<1>3. Len(Dealt) = RowTotal /\ DOMAIN Dealt = 1..RowTotal
  <2>1. RowTotal \in Nat
    BY DEF BatchInv
  <2>2. QED BY <2>1 DEF Dealt
<1> HIDE DEF p
<1>4. Dealt[p] = [row |-> rows[p], logProb |-> IF phase = "log_prob" THEN 0 ELSE rows[p]]
  BY <1>2, <1>3 DEF Dealt
<1>5. /\ p \in 1..RowTotal /\ share[w][j].row = rows[p]
      /\ share[w][j].logProb = IF phase = "log_prob" THEN 0 ELSE rows[p]
  BY <1>2, <1>3, <1>4
<1>6. QED BY <1>5 DEF p, a

\* While it computes log-probabilities it works on all its rows.
LEMMA PlacedInPart ==
    ASSUME BatchInv, phase = "log_prob"
    PROVE  Placed(PartSize)
<1>1. world \in Nat \ {0} /\ 1 \in Ranks
  BY DEF BatchInv, Ranks
<1>2. PartSize \in Nat \ {0}
  BY <1>1, ShareIs DEF Chunked
<1>3. \A w \in Ranks : Current(w) = share[w]
  BY DEF Current
<1>4. QED BY <1>2, <1>3, ShareIs DEF Placed, Window

\* The number of the mini-batch, and what is in it.
LEMMA MiniBatchIs ==
    ASSUME BatchInv, phase = "update", NEW q \in Nat, NEW r \in Nat, TurnIs(q, r),
           NEW w \in Ranks
    PROVE  /\ MiniCount \in Nat \ {0} /\ MiniBatches(w) = MiniCount
           /\ r * MiniBatchSize \in Nat
           /\ MiniSize(r) \in 1..MiniBatchSize
           /\ Current(w) \in Seq(Entries)
           /\ Window(Current(w), share[w], r * MiniBatchSize, MiniSize(r))
<1> DEFINE c == PartSize
           z == MiniBatchSize
           m == MiniCount
           k == r + 1
           s == share[w]
<1>1. c \in Nat \ {0} /\ s \in Seq(Entries) /\ Len(s) = c
  BY ShareIs DEF Chunked, Window
<1>2. z \in Nat \ {0}
  BY UpdateAssumption
<1>3. m \in Nat \ {0} /\ \A x \in 1..m : (x - 1) * z \in 0..c - 1
  <2> HIDE DEF c, z
  <2>1. m = CeilDiv(c, z)
    BY DEF MiniCount, c, z
  <2>2. QED BY <1>1, <1>2, <2>1, CeilDivIs
<1>4. MiniBatches(w) = m
  BY <1>1 DEF MiniBatches, MiniCount
<1>5. r \in 0..m - 1 /\ turn[w] = q * m + r + 1
  BY DEF TurnIs, AllRanks
<1> HIDE DEF m
<1>6. (turn[w] - 1) % m = r
  <2> DEFINE x == q * m + r
  <2>1. x \in Nat /\ turn[w] - 1 = x
    <3>1. q * m \in Nat
      BY <1>3
    <3>2. QED BY <1>5, <3>1
  <2>2. x \div m = q
    <3> DEFINE kk == q + 1
               ii == r + 1
    <3>1. kk \in Nat \ {0} /\ ii \in 1..m /\ kk - 1 = q
      BY <1>3, <1>5
    <3> HIDE DEF kk, ii
    <3>2. ((kk - 1) * m + ii - 1) \div m = kk - 1
      BY <1>3, <3>1, PlaceInPiece
    <3>3. (kk - 1) * m + ii - 1 = x
      <4>1. q * m \in Int
        BY <1>3
      <4>2. QED BY <1>5, <3>1, <4>1 DEF ii
    <3>4. QED BY <3>1, <3>2, <3>3
  <2> HIDE DEF x
  <2>3. x = m * (x \div m) + (x % m) /\ x % m \in Int
    BY <1>3, <2>1
  <2>4. m * q = q * m /\ m * q \in Int /\ x = q * m + r
    BY <1>3 DEF x
  <2>5. QED BY <2>1, <2>2, <2>3, <2>4
<1>7. k \in Nat \ {0} /\ k - 1 = r /\ k \in 1..m
  BY <1>3, <1>5
<1>8. Current(w) = Piece(s, z, k)
  BY <1>4, <1>6 DEF Current
<1>9. MiniSize(r) = CutAt(c, z, k) - r * z
  BY DEF MiniSize
<1> HIDE DEF k, c, z, s
<1>10. (k - 1) * z < Len(s) /\ (k - 1) * z \in Nat
  <2> DEFINE y == (k - 1) * z
  <2>1. y \in 0..c - 1
    BY <1>3, <1>7
  <2> HIDE DEF y
  <2>2. y < Len(s) /\ y \in Nat
    BY <1>1, <2>1
  <2>3. QED BY <2>2 DEF y
<1>11. /\ Piece(s, z, k) \in Seq(Entries)
       /\ CutAt(Len(s), z, k) - (k - 1) * z \in 1..z
       /\ Window(Piece(s, z, k), s, (k - 1) * z, CutAt(Len(s), z, k) - (k - 1) * z)
  BY <1>1, <1>2, <1>7, <1>10, PieceIs
<1>12. QED BY <1>1, <1>3, <1>4, <1>7, <1>8, <1>9, <1>10, <1>11 DEF s, z, m

\* While it updates the policy it works on a mini-batch.
LEMMA PlacedInMiniBatch ==
    ASSUME BatchInv, phase = "update", NEW q \in Nat, NEW r \in Nat, TurnIs(q, r)
    PROVE  Placed(MiniSize(r))
<1>1. 1 \in Ranks
  BY DEF BatchInv, Ranks
<1>2. MiniSize(r) \in Nat \ {0}
  <2>1. MiniSize(r) \in 1..MiniBatchSize /\ MiniBatchSize \in Nat
    BY <1>1, MiniBatchIs, UpdateAssumption
  <2>2. QED BY <2>1
<1>3. QED BY <1>2, MiniBatchIs DEF Placed, Window

\* The image of two sequences, one after the other.
LEMMA ImageCat ==
    ASSUME NEW T, NEW f, NEW s \in Seq(T), NEW t \in Seq(T)
    PROVE  Image(f, Cat(s, t)) = Image(f, s) \o Image(f, t)
<1> DEFINE V == {f[x] : x \in T}
           u == Image(f, s)
           v == Image(f, t)
           m == Len(s)
           n == Len(t)
           both == Cat(s, t)
<1>1. /\ m \in Nat /\ n \in Nat
      /\ \A i \in 1..m : s[i] \in T
      /\ \A i \in 1..n : t[i] \in T
  OBVIOUS
<1>2. /\ Len(both) = m + n
      /\ \A i \in 1..m + n : both[i] = IF i <= m THEN s[i] ELSE t[i - m]
  BY ConcatProperties DEF Cat
<1>3. /\ u \in Seq(V) /\ Len(u) = m /\ \A i \in 1..m : u[i] = f[s[i]]
      /\ v \in Seq(V) /\ Len(v) = n /\ \A i \in 1..n : v[i] = f[t[i]]
  BY <1>1 DEF Image
<1> HIDE DEF u, v, V
<1>4. /\ u \o v \in Seq(V) /\ Len(u \o v) = m + n
      /\ \A i \in 1..m + n : (u \o v)[i] = IF i <= m THEN u[i] ELSE v[i - m]
  <2>1. /\ u \o v \in Seq(V) /\ Len(u \o v) = Len(u) + Len(v)
        /\ \A i \in 1..Len(u) + Len(v) :
              (u \o v)[i] = IF i <= Len(u) THEN u[i] ELSE v[i - Len(u)]
    BY <1>3, ConcatProperties
  <2> HIDE DEF m, n
  <2>2. QED BY <1>3, <2>1
<1> HIDE DEF both, m, n
<1>5. Image(f, both) = [i \in 1..m + n |-> f[both[i]]]
  BY <1>2 DEF Image
<1>6. ASSUME NEW i \in 1..m + n PROVE f[both[i]] = (u \o v)[i]
  <2>1. CASE i <= m
    <3>1. i \in 1..m
      BY <1>1, <2>1
    <3>2. both[i] = s[i] /\ (u \o v)[i] = u[i] /\ u[i] = f[s[i]]
      BY <1>2, <1>3, <1>4, <2>1, <3>1
    <3>3. QED BY <3>2
  <2>2. CASE ~(i <= m)
    <3>1. i - m \in 1..n
      BY <1>1, <2>2
    <3>2. both[i] = t[i - m] /\ (u \o v)[i] = v[i - m] /\ v[i - m] = f[t[i - m]]
      BY <1>2, <1>3, <1>4, <2>2, <3>1
    <3>3. QED BY <3>2
  <2>3. QED BY <2>1, <2>2
<1> DEFINE x == u \o v
<1>7. x = [i \in 1..m + n |-> x[i]]
  <2>1. x \in Seq(V) /\ Len(x) = m + n
    BY <1>4
  <2> HIDE DEF x
  <2>2. QED BY <2>1
<1>8. \A i \in 1..m + n : f[both[i]] = x[i]
  BY <1>6
<1> HIDE DEF x
<1>9. Image(f, both) = x
  BY <1>5, <1>7, <1>8
<1>10. QED BY <1>9 DEF x, u, v, both

\* The rows of the entries of a rank.
LEMMA RowsAtIs ==
    ASSUME NEW l, Placed(l), NEW w \in Ranks
    PROVE  /\ Current(w) \in [1..l -> Entries] /\ DOMAIN Current(w) = 1..l
           /\ RowsAt(Current(w)) \in [1..l -> DOMAIN tokens]
           /\ RowsAt(Current(w)) \in Seq(DOMAIN tokens)
           /\ \A i \in 1..l : RowsAt(Current(w))[i] = Current(w)[i].row
<1> DEFINE cur == Current(w)
<1>1. l \in Nat \ {0} /\ cur \in Seq(Entries) /\ Len(cur) = l
  BY DEF Placed
<1> HIDE DEF cur
<1>2. cur \in [1..l -> Entries] /\ DOMAIN cur = 1..l
  BY <1>1
<1>3. \A i \in 1..l : cur[i].row \in DOMAIN tokens
  <2>1. \A e \in Entries : e.row \in DOMAIN tokens
    BY DEF Entries
  <2>2. QED BY <1>2, <2>1
<1>4. RowsAt(cur) = [i \in 1..l |-> cur[i].row]
  BY <1>2 DEF RowsAt
<1> HIDE DEF RowsAt
<1> DEFINE x == RowsAt(cur)
           D == DOMAIN tokens
<1>5. x \in [1..l -> D] /\ \A i \in 1..l : x[i] = cur[i].row
  BY <1>3, <1>4
<1> HIDE DEF x, D
<1>6. x \in Seq(D)
  BY <1>1, <1>5
<1>7. QED BY <1>2, <1>5, <1>6 DEF cur, x, D

\* The parts of a division, one after the other.
LEMMA PartAfterPart ==
    ASSUME NEW l \in Nat, NEW M \in Nat \ {0}, NEW parts, Parted(parts, l, M, FALSE)
    PROVE  /\ \A k \in 1..M : parts[k] \in Seq(1..l)
           /\ \A k \in 0..M : Flat(parts, k) \in Seq(1..l)
           /\ \A k \in 1..M : Flat(parts, k) = Cat(Flat(parts, k - 1), parts[k])
<1> DEFINE S == 1..l
<1>1. \A k \in 1..M : parts[k] \in Seq(S)
  BY DEF Parted
<1>2. parts \in Seq(Seq(S)) /\ Len(parts) = M
  BY FlatOfAny
<1> HIDE DEF S
<1>3. /\ \A k \in 1..M : Flat(parts, k) = Cat(Flat(parts, k - 1), parts[k])
      /\ \A k \in 0..M : Flat(parts, k) \in Seq(S)
  BY <1>2, FlatIs
<1>4. QED BY <1>1, <1>3 DEF S

\* What the next micro-batch adds.
LEMMA NextComputed ==
    ASSUME NEW l, Placed(l), NEW w \in Ranks, NEW M \in Nat \ {0},
           Parted(micros[w], l, M, FALSE), NEW d \in 0..M - 1, done[w] = d
    PROVE  LET taken == [i \in DOMAIN NextMicro(w) |-> NextMicro(w)[i].row]
               cur == Current(w)
               x == RowsAt(Current(w))
           IN  /\ NextMicro(w) \in Seq(Entries) /\ taken \in Seq(DOMAIN tokens)
               /\ Image(cur, Flat(micros[w], d + 1))
                      = Image(cur, Flat(micros[w], d)) \o NextMicro(w)
               /\ Image(x, Flat(micros[w], d + 1))
                      = Image(x, Flat(micros[w], d)) \o taken
<1> DEFINE places == micros[w][d + 1]
           before == Flat(micros[w], d)
           after == Flat(micros[w], d + 1)
           cur == Current(w)
           x == RowsAt(cur)
           next0 == NextMicro(w)
           taken == [i \in DOMAIN next0 |-> next0[i].row]
           D == DOMAIN tokens
           k == Len(places)
<1>1. /\ cur \in [1..l -> Entries] /\ x \in [1..l -> D]
      /\ \A i \in 1..l : x[i] = cur[i].row
  BY RowsAtIs
<1>2. l \in Nat
  BY DEF Placed
<1> DEFINE S == 1..l
<1>4. next0 = [i \in DOMAIN places |-> cur[places[i]]]
  BY DEF NextMicro
<1>3. places \in Seq(S) /\ before \in Seq(S) /\ after = Cat(before, places)
  <2> DEFINE parts == micros[w]
             e == d + 1
  <2>0. Parted(parts, l, M, FALSE)
    OBVIOUS
  <2>1. e \in 1..M /\ e - 1 = d /\ d \in 0..M
    <3> HIDE DEF parts, places, before, after, cur, x, next0, D, k, S
    <3>1. QED OBVIOUS
  <2> HIDE DEF parts, e
  <2>2. /\ \A j \in 1..M : parts[j] \in Seq(1..l)
        /\ \A j \in 0..M : Flat(parts, j) \in Seq(1..l)
        /\ \A j \in 1..M : Flat(parts, j) = Cat(Flat(parts, j - 1), parts[j])
    BY <1>2, <2>0, PartAfterPart
  <2>3. parts[e] \in Seq(1..l) /\ Flat(parts, d) \in Seq(1..l)
        /\ Flat(parts, e) = Cat(Flat(parts, d), parts[e])
    BY <2>1, <2>2
  <2>4. QED BY <2>3 DEF parts, e
<1> HIDE DEF places, S
<1>5. k \in Nat /\ DOMAIN places = 1..k /\ \A i \in 1..k : places[i] \in 1..l
  <2>1. \A i \in 1..k : places[i] \in S
    BY <1>3
  <2>2. QED BY <1>3, <2>1 DEF S
<1> HIDE DEF before, after, cur, x, next0, D, k
<1>6. next0 = Image(cur, places) /\ next0 = [i \in 1..k |-> cur[places[i]]]
  <2>1. next0 = [i \in 1..k |-> cur[places[i]]]
    BY <1>4, <1>5
  <2>2. QED BY <2>1 DEF Image, k
<1>7. next0 \in [1..k -> Entries]
  BY <1>1, <1>5, <1>6
<1>8. next0 \in Seq(Entries)
  BY <1>5, <1>7
<1>9. taken = [i \in 1..k |-> x[places[i]]]
  <2>1. DOMAIN next0 = 1..k
    BY <1>7
  <2>2. \A i \in 1..k : next0[i].row = x[places[i]]
    BY <1>1, <1>5, <1>6
  <2>3. QED BY <2>1, <2>2
<1>10. taken \in [1..k -> D] /\ taken = Image(x, places)
  BY <1>1, <1>5, <1>9 DEF Image, k
<1> HIDE DEF taken
<1>11. taken \in Seq(D)
  BY <1>5, <1>10
<1>12. /\ Image(cur, after) = Image(cur, before) \o next0
       /\ Image(x, after) = Image(x, before) \o taken
  <2>1. places \in Seq(S) /\ before \in Seq(S)
    BY <1>3
  <2>2. Image(cur, Cat(before, places)) = Image(cur, before) \o Image(cur, places)
    BY <2>1, ImageCat
  <2>3. Image(x, Cat(before, places)) = Image(x, before) \o Image(x, places)
    BY <2>1, ImageCat
  <2>4. QED BY <1>3, <1>6, <1>10, <2>2, <2>3
<1>13. QED BY <1>8, <1>11, <1>12 DEF places, before, after, cur, x, next0, taken, D

\* The answer of compute_log_prob: in the order of the rows.
LEMMA AnswerIs ==
    ASSUME NEW l, Placed(l), NEW w \in Ranks, NEW M \in Nat \ {0}, Divided(w, l, M),
           phase = "log_prob", Computed(w, M)
    PROVE  (IF dynamicBsz THEN Restored(outputs[w], micros[w]) ELSE outputs[w])
               = RowsAt(Current(w))
<1> DEFINE x == RowsAt(Current(w))
           parts == micros[w]
           q == FlattenSeq(parts)
           data == outputs[w]
           T == DOMAIN tokens
<1>1. l \in Nat /\ Parted(parts, l, M, FALSE) /\ (~dynamicBsz => q = [i \in 1..l |-> i])
  BY DEF Placed, Divided
<1>2. data = Image(x, Flat(parts, M))
  BY DEF Computed
<1>3. x \in [1..l -> T]
  BY RowsAtIs
<1> HIDE DEF x, data, parts, T
<1>4. q = Flat(parts, M) /\ q \in Seq(1..l) /\ Len(q) = l /\ Permutes(q, l)
  BY <1>1, FlatOfAny
<1>5. CASE dynamicBsz
  <2>1. Restored(data, parts) = x
    BY <1>1, <1>2, <1>3, <1>4, RestoredIs
  <2>2. QED BY <1>5, <2>1 DEF x, data, parts
<1>6. CASE ~dynamicBsz
  <2>1. \A i \in 1..l : q[i] = i
    BY <1>1, <1>6
  <2> HIDE DEF q
  <2>2. data = x
    BY <1>2, <1>3, <1>4, <2>1 DEF Image
  <2>3. QED BY <1>6, <2>2 DEF x, data
<1>7. QED BY <1>5, <1>6

-----------------------------------------------------------------------------
(***************************************************************************)
(* The ranks go through a stage.                                           *)
(***************************************************************************)

\* What a step of the ranks between two optimizer steps leaves alone.
Framed == UNCHANGED <<step, driver, turn, uses>>

\* So the turn, the phase and the shares of the ranks stay as they were.
LEMMA FrameKeeps ==
    ASSUME Framed
    PROVE  /\ Ranks' = Ranks /\ dynamicBsz' = dynamicBsz /\ phase' = phase
           /\ share' = share /\ turn' = turn /\ tokens' = tokens /\ Entries' = Entries
           /\ \A w \in Ranks : Current(w)' = Current(w)
           /\ \A l : Placed(l) => Placed(l)'
<1>1. /\ tokens' = tokens /\ world' = world /\ dynamicBsz' = dynamicBsz
      /\ phase' = phase /\ share' = share /\ turn' = turn
  BY DEF Framed, step, driver
<1>2. Ranks' = Ranks /\ Entries' = Entries
  BY <1>1 DEF Ranks, Entries
<1>3. \A w \in Ranks : Current(w)' = Current(w)
  BY <1>1 DEF Current, MiniBatches
<1>4. \A l : Placed(l) => Placed(l)'
  BY <1>2, <1>3 DEF Placed
<1>5. QED BY <1>1, <1>2, <1>3, <1>4

\* A rank that no step touches stays as it was.
Untouched(w) ==
    /\ at'[w] = at[w] /\ count'[w] = count[w] /\ micros'[w] = micros[w]
    /\ done'[w] = done[w] /\ outputs'[w] = outputs[w] /\ grads'[w] = grads[w]

\* It is as far as it was.
LEMMA UntouchedRank ==
    ASSUME Framed, NEW w \in Ranks, Untouched(w), NEW l, NEW M, NEW d
    PROVE  /\ Fresh(w) => Fresh(w)'
           /\ ReadyFor(w, l, M) => ReadyFor(w, l, M)'
           /\ Going(w, l, M, d) => Going(w, l, M, d)'
<1>1. /\ dynamicBsz' = dynamicBsz /\ phase' = phase /\ Current(w)' = Current(w)
      /\ at'[w] = at[w] /\ count'[w] = count[w] /\ micros'[w] = micros[w]
      /\ done'[w] = done[w] /\ outputs'[w] = outputs[w] /\ grads'[w] = grads[w]
  BY FrameKeeps DEF Untouched
<1>2. Fresh(w)' = Fresh(w)
  BY <1>1 DEF Fresh
<1>3. Divided(w, l, M)' = Divided(w, l, M)
  BY <1>1 DEF Divided
<1>4. Computed(w, d)' = Computed(w, d)
  <2>1. RowsAt(Current(w))' = RowsAt(Current(w))
    BY <1>1 DEF RowsAt
  <2>2. QED BY <1>1, <2>1 DEF Computed
<1>5. ReadyFor(w, l, M)' = ReadyFor(w, l, M)
  BY <1>1, <1>2, <1>3 DEF ReadyFor
<1>6. Going(w, l, M, d)' = Going(w, l, M, d)
  <2>1. RowsAt(Current(w))' = RowsAt(Current(w))
    BY <1>1 DEF RowsAt
  <2>2. QED BY <1>1, <1>3, <1>4, <2>1 DEF Going
<1>7. QED BY <1>2, <1>5, <1>6

\* A stage with ranks that prepare is none that passes.
LEMMA StageOfPlace ==
    ASSUME NEW l, Stage(l), NEW w \in Ranks
    PROVE  /\ at[w] = "prepare" => IF dynamicBsz THEN Gathering(l) ELSE Dividing(l)
           /\ at[w] = "reduce" => Gathering(l)
           /\ at[w] = "divide" => dynamicBsz /\ Dividing(l)
           /\ at[w] \in {"step", "answered"} => Passing(l)
           /\ at[w] = "forward" => Dividing(l) \/ Passing(l)
<1>1. CASE Gathering(l)
  BY <1>1 DEF Gathering
<1>2. CASE Dividing(l)
  BY <1>2 DEF Dividing, ReadyFor
<1>3. CASE Passing(l)
  BY <1>3 DEF Passing, Going
<1>4. QED BY <1>1, <1>2, <1>3 DEF Stage

\* The tokens of the rows of a rank, and their work.
LEMMA TokensOfRank ==
    ASSUME BatchInv, NEW l, Placed(l), NEW w \in Ranks
    PROVE  /\ TokensOf(Current(w)) \in [1..l -> 1..MaxTokenLen]
           /\ WorkOf(Current(w)) \in [1..l -> Nat \ {0}]
<1> DEFINE cur == Current(w)
           t == TokensOf(cur)
<1>1. DOMAIN cur = 1..l /\ \A i \in 1..l : cur[i] \in Entries
  BY RowsAtIs
<1>2. tokens \in [DOMAIN tokens -> 1..MaxTokenLen]
  BY DEF BatchInv
<1> HIDE DEF cur
<1>3. \A i \in 1..l : tokens[cur[i].row] \in 1..MaxTokenLen
  <2>1. \A e \in Entries : e.row \in DOMAIN tokens
    BY DEF Entries
  <2>2. QED BY <1>1, <1>2, <2>1
<1>4. t = [i \in 1..l |-> tokens[cur[i].row]]
  BY <1>1 DEF TokensOf
<1>5. t \in [1..l -> 1..MaxTokenLen]
  BY <1>3, <1>4
<1> HIDE DEF t
<1>6. \A i \in 1..l : Workload(t[i]) \in Nat \ {0}
  <2>1. \A i \in 1..l : t[i] \in Nat \ {0}
    <3>1. MaxTokenLen \in Nat
      BY UpdateAssumption
    <3>2. QED BY <1>5, <3>1
  <2>2. QED BY <2>1, WorkloadIs
<1>7. WorkOf(cur) = [i \in 1..l |-> Workload(t[i])]
  BY <1>1 DEF WorkOf, t
<1>8. QED BY <1>5, <1>6, <1>7 DEF cur, t

\* zero_grad, and the number or the cut of the micro-batches.
LEMMA PrepareStep ==
    ASSUME BatchInv, RankTypes, NEW l, Placed(l), Stage(l), NEW w \in Ranks, Prepare(w)
    PROVE  Framed /\ RankTypes' /\ Stage(l)'
<1>0. Framed
  BY DEF Prepare, Framed
<1>1. /\ Ranks' = Ranks /\ dynamicBsz' = dynamicBsz /\ phase' = phase
      /\ share' = share /\ turn' = turn /\ tokens' = tokens /\ Entries' = Entries
  BY <1>0, FrameKeeps
<1>2. /\ at[w] = "prepare"
      /\ done' = [done EXCEPT ![w] = 0]
      /\ outputs' = [outputs EXCEPT ![w] = <<>>]
      /\ grads' = [grads EXCEPT ![w] = <<>>]
  BY DEF Prepare
<1>3. l \in Nat \ {0} /\ Len(Current(w)) = l
  BY DEF Placed
<1>4. MicroBatchesFor(TokensOf(Current(w)), MaxTokenLen) \in 1..l
  <2> DEFINE t == TokensOf(Current(w))
  <2>1. t \in [1..l -> 1..MaxTokenLen]
    BY TokensOfRank
  <2> HIDE DEF t
  <2>2. MicroBatchesFor(t, MaxTokenLen) \in 1..l
    BY <1>3, <2>1, CountIs
  <2>3. QED BY <2>2 DEF t
<1>5. /\ share \in [Ranks -> Seq(Entries)]
      /\ at \in [Ranks -> {"prepare", "reduce", "divide", "forward", "step", "answered"}]
      /\ turn \in [Ranks -> Nat] /\ count \in [Ranks -> Nat]
      /\ micros = [v \in Ranks |-> micros[v]] /\ done \in [Ranks -> Nat]
      /\ outputs \in [Ranks -> Seq(DOMAIN tokens)] /\ grads \in [Ranks -> Seq(Entries)]
  BY DEF RankTypes
<1>6. /\ done' \in [Ranks -> Nat]
      /\ outputs' \in [Ranks -> Seq(DOMAIN tokens)] /\ grads' \in [Ranks -> Seq(Entries)]
      /\ Fresh(w)'
  <2>1. <<>> \in Seq(DOMAIN tokens) /\ <<>> \in Seq(Entries)
    OBVIOUS
  <2>2. QED BY <1>2, <1>5, <2>1 DEF Fresh
<1>7. CASE dynamicBsz
  <2>1. /\ count' = [count EXCEPT ![w] = MicroBatchesFor(TokensOf(Current(w)), MaxTokenLen)]
        /\ at' = [at EXCEPT ![w] = "reduce"] /\ micros' = micros
    BY <1>7 DEF Prepare
  <2>2. count' \in [Ranks -> Nat] /\ count'[w] \in 1..l /\ at'[w] = "reduce"
    BY <1>3, <1>4, <1>5, <2>1
  <2>3. at' \in [Ranks -> {"prepare", "reduce", "divide", "forward", "step", "answered"}]
    BY <1>5, <2>1
  <2>4. Gathering(l)
    BY <1>2, <1>7, StageOfPlace
  <2>5. ASSUME NEW v \in Ranks, v # w PROVE Untouched(v)
    BY <1>2, <1>5, <2>1, <2>5 DEF Untouched
  <2>6. Gathering(l)'
    <3>1. ASSUME NEW v \in Ranks
          PROVE  at'[v] = "prepare" \/ (at'[v] = "reduce" /\ count'[v] \in 1..l /\ Fresh(v)')
      <4>1. CASE v = w
        BY <1>6, <2>2, <4>1
      <4>2. CASE v # w
        <5>1. at'[v] = at[v] /\ count'[v] = count[v] /\ (Fresh(v) => Fresh(v)')
          BY <1>0, <2>5, <4>2, UntouchedRank DEF Untouched
        <5>2. QED BY <2>4, <5>1 DEF Gathering
      <4>3. QED BY <4>1, <4>2
    <3>2. QED BY <1>1, <1>7, <3>1 DEF Gathering
  <2>7. micros' = [v \in Ranks |-> micros'[v]]
    BY <1>5, <2>1
  <2>8. RankTypes'
    BY <1>1, <1>5, <1>6, <2>2, <2>3, <2>7 DEF RankTypes
  <2>9. QED BY <1>0, <2>6, <2>8 DEF Stage
<1>8. CASE ~dynamicBsz
  <2>1. /\ micros' = [micros EXCEPT ![w] = FixedMicros(l)]
        /\ at' = [at EXCEPT ![w] = "forward"] /\ count' = count
    BY <1>3, <1>8 DEF Prepare
  <2>2. at' \in [Ranks -> {"prepare", "reduce", "divide", "forward", "step", "answered"}]
    BY <1>5, <2>1
  <2>3. at'[w] = "forward" /\ micros'[w] = FixedMicros(l)
    BY <1>5, <2>1
  <2>4. PICK M \in Nat \ {0} :
            /\ dynamicBsz => M <= l
            /\ ~dynamicBsz => M = CeilDiv(l, MicroBatchSize)
            /\ \A v \in Ranks : ReadyFor(v, l, M)
    <3>1. Dividing(l)
      BY <1>2, <1>8, StageOfPlace
    <3>2. QED BY <3>1 DEF Dividing
  <2>5. ASSUME NEW v \in Ranks, v # w PROVE Untouched(v)
    BY <1>2, <1>5, <2>1, <2>5 DEF Untouched
  <2>6. Divided(w, l, M)'
    <3>1. Parted(FixedMicros(l), l, M, FALSE) /\ FlattenSeq(FixedMicros(l)) = [i \in 1..l |-> i]
      BY <1>3, <1>8, <2>4, FixedParts
    <3>2. QED BY <2>3, <3>1 DEF Divided
  <2>7. ASSUME NEW v \in Ranks PROVE ReadyFor(v, l, M)'
    <3>1. CASE v = w
      BY <1>6, <2>3, <2>6, <3>1 DEF ReadyFor
    <3>2. CASE v # w
      BY <1>0, <2>4, <2>5, <3>2, UntouchedRank
    <3>3. QED BY <3>1, <3>2
  <2>8. Dividing(l)'
    BY <1>1, <2>4, <2>7 DEF Dividing
  <2>9. micros' = [v \in Ranks |-> micros'[v]]
    <3> DEFINE x == FixedMicros(l)
    <3> HIDE DEF x
    <3>1. micros' = [micros EXCEPT ![w] = x]
      BY <2>1 DEF x
    <3>2. QED BY <1>5, <3>1
  <2>10. RankTypes'
    BY <1>1, <1>5, <1>6, <2>1, <2>2, <2>9 DEF RankTypes
  <2>11. QED BY <1>0, <2>8, <2>10 DEF Stage
<1>9. QED BY <1>7, <1>8

\* The largest of the counts.
LEMMA AgreedIs ==
    ASSUME world \in Nat \ {0}, NEW l \in Nat, \A w \in Ranks : count[w] \in 1..l
    PROVE  \E M \in 1..l : AgreedCounts = AllRanks(M)
<1> DEFINE S == {count[w] : w \in Ranks}
           Above == {m \in 0..l : \A w \in Ranks : count[w] <= m}
           M == CHOOSE m \in S : \A w \in Ranks : count[w] <= m
<1>1. 1 \in Ranks
  BY DEF Ranks
<1>2. PICK m \in Above : \A k \in Above : m <= k
  <2>1. Above \in SUBSET Nat
    OBVIOUS
  <2>2. l \in Above
    OBVIOUS
  <2> HIDE DEF Above
  <2>3. Above # {}
    BY <2>2
  <2>4. QED BY <2>1, <2>3, SmallestNumber
<1>3. m \in 0..l /\ \A w \in Ranks : count[w] <= m
  BY <1>2
<1>4. m \in S
  <2> SUFFICES ASSUME \A w \in Ranks : count[w] # m PROVE FALSE
    OBVIOUS
  <2>1. \A w \in Ranks : count[w] \in 1..l /\ count[w] <= m /\ count[w] # m
    BY <1>3
  <2>2. \A w \in Ranks : count[w] <= m - 1
    BY <1>3, <2>1
  <2>3. m - 1 \in 0..l
    BY <1>1, <1>3, <2>1
  <2>4. m - 1 \in Above
    BY <2>2, <2>3
  <2> HIDE DEF Above
  <2>5. m <= m - 1
    BY <1>2, <2>4
  <2>6. QED BY <1>3, <2>5
<1>5. M \in S
  BY <1>3, <1>4
<1>6. PICK w \in Ranks : M = count[w]
  BY <1>5
<1>7. M \in 1..l
  BY <1>6
<1>8. AgreedCounts = AllRanks(M)
  BY DEF AgreedCounts
<1>9. QED BY <1>7, <1>8

\* dist.all_reduce of the numbers.
LEMMA ReduceStep ==
    ASSUME BatchInv, RankTypes, NEW l, Placed(l), Stage(l), AllReduce
    PROVE  Framed /\ RankTypes' /\ Stage(l)'
<1>0. Framed
  BY DEF AllReduce, Framed
<1>1. /\ Ranks' = Ranks /\ dynamicBsz' = dynamicBsz /\ phase' = phase
      /\ share' = share /\ turn' = turn /\ tokens' = tokens /\ Entries' = Entries
  BY <1>0, FrameKeeps
<1>2. /\ at = AllRanks("reduce") /\ at' = AllRanks("divide") /\ count' = AgreedCounts
      /\ micros' = micros /\ done' = done /\ outputs' = outputs /\ grads' = grads
  BY DEF AllReduce
<1>3. l \in Nat \ {0} /\ world \in Nat \ {0} /\ 1 \in Ranks
  BY DEF Placed, BatchInv, Ranks
<1>4. Gathering(l)
  <2>1. at[1] = "reduce"
    BY <1>2, <1>3 DEF AllRanks
  <2>2. QED BY <1>3, <2>1, StageOfPlace
<1>5. dynamicBsz /\ \A w \in Ranks : count[w] \in 1..l /\ Fresh(w)
  <2>1. \A w \in Ranks : at[w] = "reduce"
    BY <1>2 DEF AllRanks
  <2>2. QED BY <1>4, <2>1 DEF Gathering
<1>6. PICK M \in 1..l : count' = AllRanks(M)
  BY <1>2, <1>3, <1>5, AgreedIs
<1>7. \A w \in Ranks : ReadyFor(w, l, M)'
  <2>1. \A w \in Ranks : at'[w] = "divide" /\ count'[w] = M
    BY <1>2, <1>6 DEF AllRanks
  <2>2. \A w \in Ranks : Fresh(w)'
    BY <1>2, <1>5 DEF Fresh
  <2>3. QED BY <1>1, <1>5, <2>1, <2>2 DEF ReadyFor
<1>8. M \in Nat \ {0} /\ M <= l
  BY <1>3
<1>9. Dividing(l)'
  BY <1>1, <1>5, <1>7, <1>8 DEF Dividing
<1>10. RankTypes'
  <2>1. at' \in [Ranks -> {"prepare", "reduce", "divide", "forward", "step", "answered"}]
        /\ count' \in [Ranks -> Nat]
    BY <1>2, <1>6, <1>8 DEF AllRanks
  <2>2. QED BY <1>1, <1>2, <2>1 DEF RankTypes
<1>11. QED BY <1>0, <1>9, <1>10 DEF Stage

\* rearrange_micro_batches: its assertions hold.
LEMMA DivideStep ==
    ASSUME BatchInv, RankTypes, NEW l, Placed(l), Stage(l), NEW w \in Ranks, Divide(w)
    PROVE  Framed /\ RankTypes' /\ Stage(l)'
<1> DEFINE load == WorkOf(Current(w))
           parts == BalancedPartitions(load, count[w], FALSE)
           order == MicroBatchOrder(load, parts)
           e == FALSE
<1>1. l \in Nat \ {0} /\ load \in [1..l -> Nat \ {0}]
  BY TokensOfRank DEF Placed
<1>2. at[w] = "divide" /\ dynamicBsz /\ Dividing(l)
  BY StageOfPlace DEF Divide
<1>3. PICK M \in Nat \ {0} :
          /\ dynamicBsz => M <= l
          /\ ~dynamicBsz => M = CeilDiv(l, MicroBatchSize)
          /\ \A v \in Ranks : ReadyFor(v, l, M)
  BY <1>2 DEF Dividing
<1>4. M <= l /\ count[w] = M /\ Fresh(w)
  BY <1>2, <1>3 DEF ReadyFor
<1>5. /\ IF CanDivide(load, count[w], FALSE) /\ Divides(load, count[w], FALSE, parts)
         THEN /\ micros' = [micros EXCEPT ![w] = order]
              /\ at' = [at EXCEPT ![w] = "forward"]
              /\ phase' = phase
         ELSE phase' = "failed" /\ UNCHANGED <<micros, at>>
      /\ UNCHANGED <<step, rows, oldLogProbs, share, turn, count, done, outputs,
                     grads, uses>>
  BY DEF Divide
<1> HIDE DEF load
<1>6. /\ CanDivide(load, M, e) /\ Divides(load, M, e, BalancedPartitions(load, M, e))
      /\ Parted(BalancedPartitions(load, M, e), l, M, e)
  <2>1. Len(load) = l /\ Len(load) >= M /\ e \in BOOLEAN /\ ~e
    BY <1>1, <1>4
  <2> HIDE DEF e
  <2>2. CanDivide(load, M, e)
    BY <2>1 DEF CanDivide
  <2>3. Divides(load, M, e, BalancedPartitions(load, M, e))
    BY <1>1, <2>1, <2>2, PartitionsDivide
  <2>4. Parted(BalancedPartitions(load, M, e), l, M, e)
    BY <1>1, <1>4, <2>1, BalancedParts
  <2>5. QED BY <2>2, <2>3, <2>4
<1>7. CanDivide(load, count[w], FALSE) /\ Divides(load, count[w], FALSE, parts)
      /\ Parted(parts, l, M, FALSE)
  BY <1>4, <1>6
<1> HIDE DEF parts, e
<1>8. Parted(order, l, M, FALSE)
  <2>1. load \in [1..l -> Nat] /\ l \in Nat
    BY <1>1
  <2>2. QED BY <1>7, <2>1, MicroBatchParts
<1> HIDE DEF order
<1>9. micros' = [micros EXCEPT ![w] = order] /\ at' = [at EXCEPT ![w] = "forward"]
      /\ phase' = phase
  BY <1>5, <1>7
<1>10. Framed /\ count' = count /\ done' = done /\ outputs' = outputs /\ grads' = grads
  BY <1>5, <1>9 DEF Framed, driver
<1>11. /\ Ranks' = Ranks /\ dynamicBsz' = dynamicBsz /\ phase' = phase
       /\ share' = share /\ turn' = turn /\ tokens' = tokens /\ Entries' = Entries
  BY <1>10, FrameKeeps
<1>12. /\ at \in [Ranks -> {"prepare", "reduce", "divide", "forward", "step", "answered"}]
       /\ micros = [v \in Ranks |-> micros[v]]
  BY DEF RankTypes
<1>13. at'[w] = "forward" /\ micros'[w] = order
  BY <1>9, <1>12
<1>14. ASSUME NEW v \in Ranks PROVE ReadyFor(v, l, M)'
  <2>1. CASE v = w
    <3>1. Divided(w, l, M)'
      BY <1>2, <1>8, <1>11, <1>13 DEF Divided
    <3>2. Fresh(w)'
      BY <1>4, <1>10 DEF Fresh
    <3>3. QED BY <1>13, <2>1, <3>1, <3>2 DEF ReadyFor
  <2>2. CASE v # w
    <3>1. Untouched(v)
      BY <1>9, <1>10, <1>12, <2>2 DEF Untouched
    <3>2. QED BY <1>3, <1>10, <3>1, UntouchedRank
  <2>3. QED BY <2>1, <2>2
<1>15. Dividing(l)'
  BY <1>2, <1>4, <1>11, <1>14 DEF Dividing
<1>16. RankTypes'
  <2>1. at' \in [Ranks -> {"prepare", "reduce", "divide", "forward", "step", "answered"}]
        /\ micros' = [v \in Ranks |-> micros'[v]]
    BY <1>9, <1>12
  <2>2. QED BY <1>10, <1>11, <2>1 DEF RankTypes
<1>17. QED BY <1>10, <1>15, <1>16 DEF Stage

\* The micro-batches of a rank that is in its forward passes.
LEMMA ForwardIs ==
    ASSUME BatchInv, NEW l, Placed(l), Stage(l), NEW w \in Ranks, at[w] = "forward"
    PROVE  \/ Dividing(l) /\ done[w] = 0 /\ Len(micros[w]) # 0
           \/ Passing(l)
<1>1. Dividing(l) \/ Passing(l)
  BY StageOfPlace
<1>2. CASE Dividing(l)
  <2>1. PICK M \in Nat \ {0} : \A v \in Ranks : ReadyFor(v, l, M)
    BY <1>2 DEF Dividing
  <2>2. Divided(w, l, M) /\ Fresh(w)
    BY <2>1 DEF ReadyFor
  <2> DEFINE parts == micros[w]
  <2>3. Parted(parts, l, M, FALSE) /\ l \in Nat
    BY <2>2 DEF Divided, Placed
  <2>4. done[w] = 0
    BY <2>2 DEF Fresh
  <2> HIDE DEF parts
  <2>5. Len(parts) = M
    BY <2>3, FlatOfAny
  <2>6. QED BY <1>2, <2>4, <2>5 DEF parts
<1>3. QED BY <1>1, <1>2

\* All ranks in their forward passes have been through as many micro-batches.
LEMMA AllForward ==
    ASSUME BatchInv, NEW l, Placed(l), Stage(l), at = AllRanks("forward")
    PROVE  \E M \in Nat \ {0} : \E d \in 0..M : \A w \in Ranks :
               /\ Divided(w, l, M) /\ done[w] = d /\ Computed(w, d)
               /\ Len(micros[w]) = M
<1>1. 1 \in Ranks /\ \A w \in Ranks : at[w] = "forward"
  BY DEF BatchInv, Ranks, AllRanks
<1>2. l \in Nat
  BY DEF Placed
<1>3. ASSUME NEW w \in Ranks, NEW M \in Nat \ {0}, Divided(w, l, M)
      PROVE  Len(micros[w]) = M /\ Flat(micros[w], 0) = <<>>
  <2> DEFINE parts == micros[w]
  <2>1. Parted(parts, l, M, FALSE)
    BY <1>3 DEF Divided
  <2> HIDE DEF parts
  <2>2. Len(parts) = M
    BY <1>2, <2>1, FlatOfAny
  <2>3. Flat(parts, 0) = <<>>
    BY DEF Flat
  <2>4. QED BY <2>2, <2>3 DEF parts
<1>4. CASE Dividing(l)
  <2>1. PICK M \in Nat \ {0} : \A v \in Ranks : ReadyFor(v, l, M)
    BY <1>4 DEF Dividing
  <2>2. ASSUME NEW w \in Ranks
        PROVE  Divided(w, l, M) /\ done[w] = 0 /\ Computed(w, 0) /\ Len(micros[w]) = M
    <3>1. Divided(w, l, M) /\ Fresh(w)
      BY <1>1, <2>1 DEF ReadyFor
    <3>2. Len(micros[w]) = M /\ Flat(micros[w], 0) = <<>>
      BY <1>3, <3>1
    <3>3. \A f : Image(f, <<>>) = <<>>
      BY DEF Image
    <3>4. QED BY <3>1, <3>2, <3>3 DEF Fresh, Computed
  <2>3. 0 \in 0..M
    OBVIOUS
  <2>4. QED BY <2>2, <2>3
<1>5. CASE Passing(l)
  <2>1. PICK M \in Nat \ {0} : \E d \in 1..M : \A w \in Ranks : Going(w, l, M, d)
    BY <1>5 DEF Passing
  <2>2. PICK d \in 1..M : \A w \in Ranks : Going(w, l, M, d)
    BY <2>1
  <2>3. ASSUME NEW w \in Ranks
        PROVE  Divided(w, l, M) /\ done[w] = d /\ Computed(w, d) /\ Len(micros[w]) = M
    <3>1. Divided(w, l, M) /\ done[w] = d /\ Computed(w, d)
      BY <1>1, <2>2 DEF Going
    <3>2. QED BY <1>3, <3>1
  <2>4. d \in 0..M
    OBVIOUS
  <2>5. QED BY <2>3, <2>4
<1>6. Dividing(l) \/ Passing(l)
  BY <1>1, StageOfPlace
<1>7. QED BY <1>4, <1>5, <1>6

\* All ranks go through their next micro-batch.
LEMMA ForwardStep ==
    ASSUME BatchInv, RankTypes, NEW l, Placed(l), Stage(l), phase \in {"log_prob", "update"},
           Forward
    PROVE  Framed /\ RankTypes' /\ Stage(l)'
<1>0. Framed
  BY DEF Forward, Framed
<1>1. /\ Ranks' = Ranks /\ dynamicBsz' = dynamicBsz /\ phase' = phase
      /\ share' = share /\ turn' = turn /\ tokens' = tokens /\ Entries' = Entries
      /\ \A w \in Ranks : Current(w)' = Current(w)
  BY <1>0, FrameKeeps
<1>2. /\ at = AllRanks("forward") /\ \A w \in Ranks : done[w] < Len(micros[w])
      /\ done' = [w \in Ranks |-> done[w] + 1]
      /\ at' = at /\ count' = count /\ micros' = micros
  BY DEF Forward
<1>3. 1 \in Ranks
  BY DEF BatchInv, Ranks
<1>4. PICK M \in Nat \ {0} : \E d \in 0..M : \A w \in Ranks :
          /\ Divided(w, l, M) /\ done[w] = d /\ Computed(w, d)
          /\ Len(micros[w]) = M
  BY <1>2, AllForward
<1>5. PICK d \in 0..M : \A w \in Ranks :
          /\ Divided(w, l, M) /\ done[w] = d /\ Computed(w, d)
          /\ Len(micros[w]) = M
  BY <1>4
<1>6. d \in 0..M - 1 /\ d + 1 \in 1..M
  <2>1. d < M
    BY <1>2, <1>3, <1>5
  <2>2. QED BY <2>1
<1> DEFINE taken(w) == [i \in DOMAIN NextMicro(w) |-> NextMicro(w)[i].row]
           D == DOMAIN tokens
<1>7. ASSUME NEW w \in Ranks
      PROVE  /\ NextMicro(w) \in Seq(Entries) /\ taken(w) \in Seq(D)
             /\ Image(Current(w), Flat(micros[w], d + 1))
                    = Image(Current(w), Flat(micros[w], d)) \o NextMicro(w)
             /\ Image(RowsAt(Current(w)), Flat(micros[w], d + 1))
                    = Image(RowsAt(Current(w)), Flat(micros[w], d)) \o taken(w)
  <2>1. Parted(micros[w], l, M, FALSE) /\ done[w] = d
    BY <1>5 DEF Divided
  <2>2. QED BY <1>6, <2>1, NextComputed
<1>8. /\ outputs \in [Ranks -> Seq(D)] /\ grads \in [Ranks -> Seq(Entries)]
      /\ done \in [Ranks -> Nat]
  BY DEF RankTypes
<1>9. done' \in [Ranks -> Nat] /\ \A w \in Ranks : done'[w] = d + 1
  BY <1>2, <1>5, <1>8
<1>10. /\ outputs' \in [Ranks -> Seq(D)] /\ grads' \in [Ranks -> Seq(Entries)]
       /\ \A w \in Ranks : Computed(w, d + 1)'
  <2>1. CASE phase = "log_prob"
    <3>1. outputs' = [w \in Ranks |-> outputs[w] \o taken(w)] /\ grads' = grads
      BY <2>1 DEF Forward
    <3> HIDE DEF taken, D
    <3>2. \A w \in Ranks : outputs[w] \o taken(w) \in Seq(D)
      <4>1. \A s, t \in Seq(D) : s \o t \in Seq(D)
        OBVIOUS
      <4>2. QED BY <1>7, <1>8, <4>1
    <3>3. outputs' \in [Ranks -> Seq(D)]
      BY <3>1, <3>2
    <3>4. ASSUME NEW w \in Ranks PROVE Computed(w, d + 1)'
      <4>1. outputs[w] = Image(RowsAt(Current(w)), Flat(micros[w], d))
        BY <1>5, <2>1 DEF Computed
      <4>2. outputs'[w] = Image(RowsAt(Current(w)), Flat(micros[w], d + 1))
        BY <1>7, <3>1, <4>1
      <4>3. RowsAt(Current(w))' = RowsAt(Current(w))
        BY <1>1 DEF RowsAt
      <4>4. QED BY <1>1, <1>2, <2>1, <4>2, <4>3 DEF Computed
    <3>5. QED BY <1>8, <3>1, <3>3, <3>4
  <2>2. CASE phase # "log_prob"
    <3>1. grads' = [w \in Ranks |-> grads[w] \o NextMicro(w)] /\ outputs' = outputs
      BY <2>2 DEF Forward
    <3> HIDE DEF taken, D
    <3>2. \A w \in Ranks : grads[w] \o NextMicro(w) \in Seq(Entries)
      <4>1. \A s, t \in Seq(Entries) : s \o t \in Seq(Entries)
        OBVIOUS
      <4>2. QED BY <1>7, <1>8, <4>1
    <3>3. grads' \in [Ranks -> Seq(Entries)]
      BY <3>1, <3>2
    <3>4. ASSUME NEW w \in Ranks PROVE Computed(w, d + 1)'
      <4>1. grads[w] = Image(Current(w), Flat(micros[w], d))
        BY <1>5, <2>2 DEF Computed
      <4>2. grads'[w] = Image(Current(w), Flat(micros[w], d + 1))
        BY <1>7, <3>1, <4>1
      <4>3. QED BY <1>1, <1>2, <2>2, <4>2 DEF Computed
    <3>5. QED BY <1>8, <3>1, <3>3, <3>4
  <2>3. QED BY <2>1, <2>2
<1>11. ASSUME NEW w \in Ranks PROVE Going(w, l, M, d + 1)'
  <2>1. Divided(w, l, M)'
    BY <1>1, <1>2, <1>5 DEF Divided
  <2>2. at'[w] = "forward"
    BY <1>2 DEF AllRanks
  <2>3. QED BY <1>9, <1>10, <2>1, <2>2 DEF Going
<1>12. Passing(l)'
  <2> DEFINE e == d + 1
  <2>1. e \in 1..M /\ \A w \in Ranks : Going(w, l, M, e)'
    BY <1>6, <1>11
  <2> HIDE DEF e
  <2>2. QED BY <1>1, <2>1 DEF Passing
<1>13. RankTypes'
  <2>1. /\ share \in [Ranks -> Seq(Entries)]
        /\ at \in [Ranks -> {"prepare", "reduce", "divide", "forward", "step", "answered"}]
        /\ turn \in [Ranks -> Nat] /\ count \in [Ranks -> Nat]
        /\ micros = [v \in Ranks |-> micros[v]]
    BY DEF RankTypes
  <2>2. outputs' \in [Ranks -> Seq(DOMAIN tokens)]
    BY <1>10
  <2>3. QED BY <1>1, <1>2, <1>9, <1>10, <2>1, <2>2 DEF RankTypes
<1>14. QED BY <1>0, <1>12, <1>13 DEF Stage

\* A rank that is through all of its micro-batches.
LEMMA ThroughIs ==
    ASSUME BatchInv, NEW l, Placed(l), Stage(l), NEW w \in Ranks, Through(w)
    PROVE  \E M \in Nat \ {0} :
               (\A v \in Ranks : Going(v, l, M, M)) /\ Divided(w, l, M) /\ Computed(w, M)
<1>1. at[w] = "forward" /\ done[w] = Len(micros[w])
  BY DEF Through
<1>2. Passing(l)
  BY <1>1, ForwardIs
<1>3. PICK M \in Nat \ {0} : \E d \in 1..M : \A v \in Ranks : Going(v, l, M, d)
  BY <1>2 DEF Passing
<1>4. PICK d \in 1..M : \A v \in Ranks : Going(v, l, M, d)
  BY <1>3
<1>5. Divided(w, l, M) /\ done[w] = d /\ Computed(w, d)
  BY <1>1, <1>4 DEF Going
<1>6. Len(micros[w]) = M
  <2> DEFINE parts == micros[w]
  <2>1. Parted(parts, l, M, FALSE) /\ l \in Nat
    BY <1>5 DEF Divided, Placed
  <2> HIDE DEF parts
  <2>2. Len(parts) = M
    BY <2>1, FlatOfAny
  <2>3. QED BY <2>2 DEF parts
<1>7. d = M
  BY <1>1, <1>5, <1>6
<1>8. QED BY <1>4, <1>5, <1>7

\* compute_log_prob returns.
LEMMA AnswerLogProbsStep ==
    ASSUME BatchInv, RankTypes, NEW l, Placed(l), Stage(l), NEW w \in Ranks,
           AnswerLogProbs(w)
    PROVE  Framed /\ RankTypes' /\ Stage(l)'
<1>0. Framed
  BY DEF AnswerLogProbs, Framed
<1>1. /\ Ranks' = Ranks /\ dynamicBsz' = dynamicBsz /\ phase' = phase
      /\ share' = share /\ turn' = turn /\ tokens' = tokens /\ Entries' = Entries
      /\ \A v \in Ranks : Current(v)' = Current(v)
  BY <1>0, FrameKeeps
<1> DEFINE answer == IF dynamicBsz THEN Restored(outputs[w], micros[w]) ELSE outputs[w]
           x == RowsAt(Current(w))
<1>2. /\ phase = "log_prob" /\ Through(w)
      /\ outputs' = [outputs EXCEPT ![w] = IF dynamicBsz THEN Restored(@, micros[w]) ELSE @]
      /\ at' = [at EXCEPT ![w] = "answered"]
      /\ count' = count /\ micros' = micros /\ done' = done /\ grads' = grads
  BY DEF AnswerLogProbs
<1>3. PICK M \in Nat \ {0} :
          (\A v \in Ranks : Going(v, l, M, M)) /\ Divided(w, l, M) /\ Computed(w, M)
  BY <1>2, ThroughIs
<1>4. answer = x /\ x \in Seq(DOMAIN tokens)
  BY <1>2, <1>3, AnswerIs, RowsAtIs
<1>5. outputs' = [outputs EXCEPT ![w] = answer]
  BY <1>2
<1> HIDE DEF answer, x
<1>6. /\ at \in [Ranks -> {"prepare", "reduce", "divide", "forward", "step", "answered"}]
      /\ outputs \in [Ranks -> Seq(DOMAIN tokens)]
  BY DEF RankTypes
<1>7. /\ at' \in [Ranks -> {"prepare", "reduce", "divide", "forward", "step", "answered"}]
      /\ outputs' \in [Ranks -> Seq(DOMAIN tokens)]
      /\ outputs'[w] = x /\ at'[w] = "answered"
  BY <1>2, <1>4, <1>5, <1>6
<1>8. ASSUME NEW v \in Ranks PROVE Going(v, l, M, M)'
  <2>1. CASE v = w
    <3>1. Divided(w, l, M)'
      BY <1>1, <1>2, <1>3 DEF Divided
    <3>2. done'[w] = M
      BY <1>2, <1>3 DEF Going
    <3>3. RowsAt(Current(w))' = x
      BY <1>1 DEF RowsAt, x
    <3>4. QED BY <1>1, <1>2, <1>7, <2>1, <3>1, <3>2, <3>3 DEF Going
  <2>2. CASE v # w
    <3>1. Untouched(v)
      BY <1>2, <1>5, <1>6, <2>2 DEF Untouched
    <3>2. QED BY <1>0, <1>3, <3>1, UntouchedRank
  <2>3. QED BY <2>1, <2>2
<1>9. Passing(l)'
  <2>1. M \in 1..M
    OBVIOUS
  <2>2. QED BY <1>1, <1>8, <2>1 DEF Passing
<1>10. RankTypes'
  BY <1>1, <1>2, <1>7 DEF RankTypes
<1>11. QED BY <1>0, <1>9, <1>10 DEF Stage

\* The rank goes to the optimizer step.
LEMMA EndMiniBatchStep ==
    ASSUME BatchInv, RankTypes, NEW l, Placed(l), Stage(l), NEW w \in Ranks,
           EndMiniBatch(w)
    PROVE  Framed /\ RankTypes' /\ Stage(l)'
<1>0. Framed
  BY DEF EndMiniBatch, Framed
<1>1. /\ Ranks' = Ranks /\ dynamicBsz' = dynamicBsz /\ phase' = phase
      /\ share' = share /\ turn' = turn /\ tokens' = tokens /\ Entries' = Entries
      /\ \A v \in Ranks : Current(v)' = Current(v)
  BY <1>0, FrameKeeps
<1>2. /\ phase = "update" /\ Through(w)
      /\ at' = [at EXCEPT ![w] = "step"]
      /\ count' = count /\ micros' = micros /\ done' = done
      /\ outputs' = outputs /\ grads' = grads
  BY DEF EndMiniBatch, work
<1>3. PICK M \in Nat \ {0} :
          (\A v \in Ranks : Going(v, l, M, M)) /\ Divided(w, l, M) /\ Computed(w, M)
  BY <1>2, ThroughIs
<1>4. at \in [Ranks -> {"prepare", "reduce", "divide", "forward", "step", "answered"}]
  BY DEF RankTypes
<1>5. /\ at' \in [Ranks -> {"prepare", "reduce", "divide", "forward", "step", "answered"}]
      /\ at'[w] = "step"
  BY <1>2, <1>4
<1>6. ASSUME NEW v \in Ranks PROVE Going(v, l, M, M)'
  <2>1. CASE v = w
    <3>1. Divided(w, l, M)'
      BY <1>1, <1>2, <1>3 DEF Divided
    <3>2. done'[w] = M
      BY <1>2, <1>3 DEF Going
    <3>3. Computed(w, M)'
      BY <1>1, <1>2, <1>3 DEF Computed
    <3>4. QED BY <1>1, <1>2, <1>5, <2>1, <3>1, <3>2, <3>3 DEF Going
  <2>2. CASE v # w
    <3>1. Untouched(v)
      BY <1>2, <1>4, <2>2 DEF Untouched
    <3>2. QED BY <1>0, <1>3, <3>1, UntouchedRank
  <2>3. QED BY <2>1, <2>2
<1>7. Passing(l)'
  <2>1. M \in 1..M
    OBVIOUS
  <2>2. QED BY <1>1, <1>6, <2>1 DEF Passing
<1>8. RankTypes'
  BY <1>1, <1>2, <1>5 DEF RankTypes
<1>9. QED BY <1>0, <1>7, <1>8 DEF Stage

-----------------------------------------------------------------------------
(***************************************************************************)
(* The invariant holds at first, and every step keeps it.                  *)
(***************************************************************************)

\* What depends only on the batch.
LEMMA StepKeeps ==
    ASSUME UNCHANGED step
    PROVE  /\ tokens' = tokens /\ world' = world /\ dynamicBsz' = dynamicBsz
           /\ Ranks' = Ranks /\ Entries' = Entries /\ RowTotal' = RowTotal
           /\ PartSize' = PartSize /\ MiniCount' = MiniCount
           /\ \A r : MiniSize(r)' = MiniSize(r)
<1>1. tokens' = tokens /\ world' = world /\ dynamicBsz' = dynamicBsz
  BY DEF step
<1>2. RowTotal' = RowTotal /\ PartSize' = PartSize
  BY <1>1 DEF RowTotal, PartSize
<1>3. QED BY <1>1, <1>2 DEF Ranks, Entries, MiniCount, MiniSize

\* A step of the ranks leaves the batch alone.
LEMMA FramedBatch ==
    ASSUME Framed
    PROVE  /\ BatchInv => BatchInv'
           /\ \A q, r : TurnIs(q, r) => TurnIs(q, r)'
           /\ \A q, r : UsedSoFar(q, r) => UsedSoFar(q, r)'
<1>1. /\ UNCHANGED step /\ phase' = phase /\ rows' = rows /\ oldLogProbs' = oldLogProbs
      /\ share' = share /\ turn' = turn /\ uses' = uses
  BY DEF Framed, driver
<1>2. /\ tokens' = tokens /\ world' = world /\ Ranks' = Ranks /\ RowTotal' = RowTotal
      /\ PartSize' = PartSize /\ MiniCount' = MiniCount
  BY <1>1, StepKeeps
<1>3. Dealt' = Dealt
  BY <1>1, <1>2 DEF Dealt
<1>4. [w \in Ranks |-> Part(Dealt, w)]' = [w \in Ranks |-> Part(Dealt, w)]
  BY <1>2, <1>3 DEF Part
<1>5. BatchInv => BatchInv'
  BY <1>1, <1>2, <1>4 DEF BatchInv
<1>6. \A q, r : TurnIs(q, r) => TurnIs(q, r)'
  BY <1>1, <1>2 DEF TurnIs, AllRanks
<1>7. \A q, r : UsedSoFar(q, r) => UsedSoFar(q, r)'
  BY <1>1, <1>2 DEF UsedSoFar
<1>8. QED BY <1>5, <1>6, <1>7

\* The steps of the ranks between two optimizer steps.
StageMoves == AllReduce \/ Forward \/ (\E w \in Ranks : RankStep(w))

\* Such a step stays in the stage or goes on to the next one.
LEMMA StageMove ==
    ASSUME BatchInv, RankTypes, NEW l, Placed(l), Stage(l), phase \in {"log_prob", "update"},
           StageMoves
    PROVE  Framed /\ RankTypes' /\ Stage(l)'
<1>1. CASE AllReduce
  BY <1>1, ReduceStep
<1>2. CASE Forward
  BY <1>2, ForwardStep
<1>3. CASE \E w \in Ranks : RankStep(w)
  <2>1. PICK w \in Ranks : RankStep(w)
    BY <1>3
  <2>2. CASE Prepare(w)
    BY <2>2, PrepareStep
  <2>3. CASE Divide(w)
    BY <2>3, DivideStep
  <2>4. CASE AnswerLogProbs(w)
    BY <2>4, AnswerLogProbsStep
  <2>5. CASE EndMiniBatch(w)
    BY <2>5, EndMiniBatchStep
  <2>6. QED BY <2>1, <2>2, <2>3, <2>4, <2>5 DEF RankStep
<1>4. QED BY <1>1, <1>2, <1>3 DEF StageMoves

\* Ranks that have answered do not move.
LEMMA NoMove ==
    ASSUME BatchInv, at = AllRanks("answered")
    PROVE  ~StageMoves
<1>1. 1 \in Ranks /\ \A w \in Ranks : at[w] = "answered"
  BY DEF BatchInv, Ranks, AllRanks
<1>2. ~AllReduce /\ ~Forward
  BY <1>1 DEF AllReduce, Forward, AllRanks
<1>3. \A w \in Ranks : ~RankStep(w)
  BY <1>1 DEF RankStep, Prepare, Divide, AnswerLogProbs, EndMiniBatch, Through
<1>4. QED BY <1>2, <1>3 DEF StageMoves

\* So it keeps the invariant.
LEMMA StageMovesStep == UpdateInv /\ StageMoves => UpdateInv'
<1> SUFFICES ASSUME UpdateInv, StageMoves PROVE UpdateInv'
  OBVIOUS
<1>1. BatchInv /\ RankTypes /\ uses \in [1..RowTotal -> 0..PpoEpochs]
  BY DEF UpdateInv
<1>2. phase \in {"log_prob", "update"}
  <2>1. at # AllRanks("answered")
    BY <1>1, NoMove
  <2>2. QED BY <1>1, <2>1 DEF UpdateInv, BatchInv
<1>3. CASE phase = "log_prob"
  <2>1. PICK l : l = PartSize
    OBVIOUS
  <2>2. Placed(l) /\ Stage(l)
    BY <1>1, <1>3, <2>1, PlacedInPart DEF UpdateInv
  <2>3. Framed /\ RankTypes' /\ Stage(l)'
    BY <1>1, <1>2, <2>2, StageMove
  <2>4. BatchInv' /\ phase' = phase /\ uses' = uses /\ UNCHANGED step
    BY <1>1, <2>3, FramedBatch DEF Framed, driver
  <2>5. RowTotal' = RowTotal /\ PartSize' = PartSize
    BY <2>4, StepKeeps
  <2>6. Stage(PartSize)'
    BY <2>1, <2>3, <2>5
  <2>7. uses = [r \in 1..RowTotal |-> 0]
    BY <1>3 DEF UpdateInv
  <2>8. QED BY <1>1, <1>3, <2>3, <2>4, <2>5, <2>6, <2>7 DEF UpdateInv
<1>4. CASE phase = "update"
  <2>1. PICK q \in Nat, r \in Nat : Updating(q, r)
    BY <1>4 DEF UpdateInv
  <2>2. TurnIs(q, r) /\ UsedSoFar(q, r) /\ q # PpoEpochs /\ Stage(MiniSize(r))
    BY <1>1, <2>1, NoMove DEF Updating
  <2>3. PICK l : l = MiniSize(r)
    OBVIOUS
  <2>4. Placed(l) /\ Stage(l)
    BY <1>1, <1>4, <2>2, <2>3, PlacedInMiniBatch
  <2>5. Framed /\ RankTypes' /\ Stage(l)'
    BY <1>1, <1>2, <2>4, StageMove
  <2>6. BatchInv' /\ phase' = phase /\ uses' = uses /\ UNCHANGED step
    BY <1>1, <2>5, FramedBatch DEF Framed, driver
  <2>7. RowTotal' = RowTotal /\ MiniSize(r)' = MiniSize(r)
    BY <2>6, StepKeeps
  <2>8. TurnIs(q, r)' /\ UsedSoFar(q, r)'
    BY <2>2, <2>5, FramedBatch
  <2>9. Updating(q, r)'
    BY <2>2, <2>3, <2>5, <2>7, <2>8 DEF Updating
  <2>10. QED BY <1>1, <1>4, <2>5, <2>6, <2>7, <2>9 DEF UpdateInv
<1>5. QED BY <1>2, <1>3, <1>4

\* All ranks start on l rows.
LEMMA AllPrepare ==
    ASSUME NEW l \in Nat \ {0}, UNCHANGED step, at' = AllRanks("prepare")
    PROVE  Stage(l)'
<1>1. Ranks' = Ranks /\ dynamicBsz' = dynamicBsz
  BY StepKeeps
<1>2. \A w \in Ranks : at'[w] = "prepare"
  BY DEF AllRanks
<1>3. CASE dynamicBsz
  <2>1. Gathering(l)'
    BY <1>1, <1>2, <1>3 DEF Gathering
  <2>2. QED BY <2>1 DEF Stage
<1>4. CASE ~dynamicBsz
  <2> DEFINE M == CeilDiv(l, MicroBatchSize)
  <2>1. M \in Nat \ {0}
    BY UpdateAssumption, CeilDivIs
  <2>2. M = CeilDiv(l, MicroBatchSize)
    OBVIOUS
  <2> HIDE DEF M
  <2>3. \A w \in Ranks : ReadyFor(w, l, M)'
    BY <1>1, <1>2, <1>4 DEF ReadyFor
  <2>4. Dividing(l)'
    BY <1>1, <1>4, <2>1, <2>2, <2>3 DEF Dividing
  <2>5. QED BY <2>4 DEF Stage
<1>5. QED BY <1>3, <1>4

\* The driver deals out the batch.
LEMMA DealIs ==
    ASSUME BatchInv, UNCHANGED step, Permutes(rows', RowTotal),
           NEW x \in [1..RowTotal -> {0} \cup DOMAIN tokens], Deal(x)
    PROVE  /\ share' = [w \in Ranks |->
                           Part([i \in 1..RowTotal |-> [row |-> rows'[i], logProb |-> x[i]]], w)]
           /\ share' \in [Ranks -> Seq(Entries)]
           /\ at' = AllRanks("prepare") /\ turn' = AllRanks(1)
<1> DEFINE n == RowTotal
           entries == [i \in 1..n |-> [row |-> rows'[i], logProb |-> x[i]]]
<1>1. /\ n \in Nat \ {0} /\ world \in Nat \ {0} /\ n % world = 0 /\ DOMAIN tokens = 1..n
  BY DEF BatchInv
<1>2. DOMAIN rows' = 1..n /\ \A i \in 1..n : rows'[i] \in DOMAIN tokens
  BY <1>1 DEF Permutes
<1> HIDE DEF n
<1>3. share' = [w \in Ranks |-> Part(entries, w)] /\ at' = AllRanks("prepare")
      /\ turn' = AllRanks(1)
  BY <1>2 DEF Deal
<1>4. entries \in Seq(Entries) /\ Len(entries) = n
  <2>1. \A i \in 1..n : [row |-> rows'[i], logProb |-> x[i]] \in Entries
    BY <1>2 DEF Entries, n
  <2>2. entries \in [1..n -> Entries]
    BY <2>1
  <2> HIDE DEF entries
  <2>3. QED BY <1>1, <2>2
<1> HIDE DEF entries
<1>5. PICK c : Chunked(n, c)
  BY <1>1, ChunkSize
<1>6. \A w \in Ranks : Part(entries, w) \in Seq(Entries)
  BY <1>1, <1>4, <1>5, PartIs
<1>7. share' \in [Ranks -> Seq(Entries)]
  BY <1>3, <1>6
<1>8. QED BY <1>3, <1>7 DEF entries, n

\* _balance_batch, and the call of compute_log_prob.
LEMMA BalanceStep == UpdateInv /\ Balance => UpdateInv'
<1> SUFFICES ASSUME UpdateInv, Balance PROVE UpdateInv'
  OBVIOUS
<1> DEFINE n == RowTotal
           x == [i \in DOMAIN rows |-> 0]
<1>1. BatchInv /\ RankTypes /\ uses = [r \in 1..n |-> 0] /\ uses \in [1..n -> 0..PpoEpochs]
  BY DEF UpdateInv, Balance
<1>2. /\ n \in Nat \ {0} /\ world \in Nat \ {0} /\ n % world = 0
      /\ Permutes(rows, n) /\ tokens \in [1..n -> 1..MaxTokenLen]
  BY <1>1 DEF BatchInv
<1>3. /\ phase' = "log_prob" /\ Deal(x) /\ UNCHANGED step
      /\ rows' = IF balanceBatch THEN Rebalanced ELSE rows
      /\ uses' = uses /\ oldLogProbs' = oldLogProbs
      /\ count' = count /\ micros' = micros /\ done' = done
      /\ outputs' = outputs /\ grads' = grads
  BY DEF Balance, work
<1>4. /\ tokens' = tokens /\ world' = world /\ dynamicBsz' = dynamicBsz
      /\ Ranks' = Ranks /\ Entries' = Entries /\ RowTotal' = n /\ PartSize' = PartSize
  BY <1>3, StepKeeps
<1>5. Permutes(rows', n)
  <2>1. PICK c : Chunked(n, c)
    BY <1>2, ChunkSize
  <2>2. tokens \in [1..n -> Nat \ {0}]
    <3>1. MaxTokenLen \in Nat
      BY UpdateAssumption
    <3>2. QED BY <1>2, <3>1
  <2> HIDE DEF n
  <2>3. Permutes(Rebalanced, n)
    BY <1>2, <2>1, <2>2, RebalancedRows
  <2>4. QED BY <1>2, <1>3, <2>3
<1>6. x \in [1..n -> {0} \cup DOMAIN tokens] /\ \A i \in 1..n : x[i] = 0
  <2>1. DOMAIN rows = 1..n
    BY <1>2 DEF Permutes
  <2>2. QED BY <2>1
<1> HIDE DEF x
<1>7. /\ share' = [w \in Ranks |->
                      Part([i \in 1..n |-> [row |-> rows'[i], logProb |-> x[i]]], w)]
      /\ share' \in [Ranks -> Seq(Entries)]
      /\ at' = AllRanks("prepare") /\ turn' = AllRanks(1)
  BY <1>1, <1>3, <1>5, <1>6, DealIs
<1> HIDE DEF n
<1>8. share' = [w \in Ranks |-> Part(Dealt, w)]'
  <2>1. Dealt' = [i \in 1..n |-> [row |-> rows'[i], logProb |-> x[i]]]
    BY <1>3, <1>4, <1>6 DEF Dealt
  <2>2. \A s : \A w \in Ranks : Part(s, w)' = Part(s, w)
    BY <1>4 DEF Part
  <2>3. [w \in Ranks |-> Part(Dealt, w)]' = [w \in Ranks |-> Part(Dealt', w)]
    BY <1>4 DEF Part
  <2>4. QED BY <1>7, <2>1, <2>3
<1>9. BatchInv'
  BY <1>2, <1>3, <1>4, <1>5, <1>8 DEF BatchInv
<1>10. RankTypes'
  <2>1. at' \in [Ranks -> {"prepare", "reduce", "divide", "forward", "step", "answered"}]
        /\ turn' \in [Ranks -> Nat]
    BY <1>7 DEF AllRanks
  <2>2. QED BY <1>1, <1>3, <1>4, <1>7, <2>1 DEF RankTypes
<1>11. Stage(PartSize)'
  <2>1. PICK l : l = PartSize
    OBVIOUS
  <2>2. l \in Nat \ {0}
    <3>1. PICK c : Chunked(n, c) /\ c = PartSize
      BY <1>2, ChunkSize DEF PartSize, n
    <3>2. QED BY <2>1, <3>1 DEF Chunked
  <2>3. Stage(l)'
    BY <1>3, <1>7, <2>2, AllPrepare
  <2>4. QED BY <1>4, <2>1, <2>3
<1>12. QED BY <1>1, <1>3, <1>4, <1>9, <1>10, <1>11 DEF UpdateInv

\* The update starts with the rows in their order.
LEMMA UpdateStarts == UpdateInit => UpdateInv
<1> SUFFICES ASSUME UpdateInit PROVE UpdateInv
  OBVIOUS
<1>1. PICK n \in RowCounts : tokens \in [1..n -> RowLengths]
  BY DEF UpdateInit
<1>2. n \in Nat \ {0} /\ world \in Nat \ {0} /\ n % world = 0
  BY <1>1, UpdateAssumption DEF UpdateInit
<1>3. RowTotal = n /\ DOMAIN tokens = 1..n /\ tokens \in [1..n -> 1..MaxTokenLen]
  <2>1. \A l \in RowLengths : l \in 1..MaxTokenLen
    BY UpdateAssumption
  <2>2. tokens \in [1..n -> 1..MaxTokenLen]
    BY <1>1, <2>1
  <2>3. Len(tokens) = n
    BY <1>1, <1>2
  <2>4. QED BY <1>1, <2>2, <2>3 DEF RowTotal
<1>4. /\ phase = "balance" /\ rows = [i \in 1..n |-> i] /\ share = AllRanks(<<>>)
      /\ at = AllRanks("answered") /\ turn = AllRanks(1) /\ count = AllRanks(0)
      /\ micros = AllRanks(<<>>) /\ done = AllRanks(0) /\ outputs = AllRanks(<<>>)
      /\ grads = AllRanks(<<>>) /\ uses = [r \in 1..n |-> 0]
  BY <1>3 DEF UpdateInit
<1>5. Permutes(rows, n)
  BY <1>2, <1>4 DEF Permutes
<1>6. BatchInv
  BY <1>2, <1>3, <1>4, <1>5 DEF BatchInv
<1>7. RankTypes
  <2>1. <<>> \in Seq(Entries) /\ <<>> \in Seq(DOMAIN tokens)
    OBVIOUS
  <2>2. QED BY <1>4, <2>1 DEF RankTypes, AllRanks
<1>8. uses \in [1..RowTotal -> 0..PpoEpochs] /\ uses = [r \in 1..RowTotal |-> 0]
  BY <1>3, <1>4, UpdateAssumption
<1>9. QED BY <1>4, <1>6, <1>7, <1>8 DEF UpdateInv

\* The update with one row that is over.
LEMMA UpdateEnds == UpdateOver => UpdateInv
<1> SUFFICES ASSUME UpdateOver PROVE UpdateInv
  OBVIOUS
<1> DEFINE e == [row |-> 1, logProb |-> 1]
<1>1. /\ tokens = <<1>> /\ world = 1 /\ phase = "updated" /\ rows = <<1>>
      /\ oldLogProbs = <<1>> /\ share = <<<<e>>>> /\ at = <<"answered">>
      /\ turn = <<PpoEpochs + 1>> /\ count = <<0>> /\ micros = <<<<<<1>>>>>>
      /\ done = <<1>> /\ outputs = <<<<1>>>> /\ grads = share /\ uses = <<PpoEpochs>>
  BY DEF UpdateOver
<1>2. RowTotal = 1 /\ DOMAIN tokens = 1..1 /\ Ranks = 1..1 /\ 1..1 = {1}
  BY <1>1 DEF RowTotal, Ranks
<1>3. MaxTokenLen \in Nat \ {0} /\ PpoEpochs \in Nat \ {0}
  BY UpdateAssumption
<1>4. tokens \in [1..1 -> 1..MaxTokenLen] /\ 1 % 1 = 0
  BY <1>1, <1>3
<1>5. Permutes(rows, 1)
  BY <1>1 DEF Permutes
<1>6. e \in Entries
  BY <1>2 DEF Entries
<1>7. Dealt = <<e>>
  <2>1. Dealt = [i \in 1..1 |-> [row |-> rows[i], logProb |-> rows[i]]]
    BY <1>1, <1>2 DEF Dealt
  <2>2. Dealt = [i \in 1..1 |-> e]
    BY <1>1, <1>2, <2>1
  <2> HIDE DEF e
  <2>3. <<e>> = [i \in 1..1 |-> e]
    OBVIOUS
  <2>4. QED BY <2>2, <2>3
<1> HIDE DEF e
<1>8. Part(Dealt, 1) = <<e>>
  <2>1. Len(Dealt) = 1 /\ 1 \div world = 1
    BY <1>1, <1>7
  <2>2. Part(Dealt, 1) = SubSeq(Dealt, (1 - 1) * 1 + 1, 1 * 1)
    BY <2>1 DEF Part
  <2>3. (1 - 1) * 1 + 1 = 1 /\ 1 * 1 = 1
    OBVIOUS
  <2>4. SubSeq(<<e>>, 1, 1) = <<e>>
    <3> DEFINE y == <<e>>
    <3>1. y \in Seq({e}) /\ Len(y) = 1
      OBVIOUS
    <3> HIDE DEF y
    <3>2. SubSeq(y, 1, Len(y)) = y
      BY <3>1, SubSeqFull
    <3>3. QED BY <3>1, <3>2 DEF y
  <2>5. QED BY <1>7, <2>2, <2>3, <2>4
<1>9. share = [w \in Ranks |-> Part(Dealt, w)]
  <2> DEFINE f == [w \in Ranks |-> Part(Dealt, w)]
             y == <<e>>
  <2>1. f = [w \in 1..1 |-> y]
    BY <1>2, <1>8
  <2> HIDE DEF f, y
  <2>2. <<y>> = [w \in 1..1 |-> y]
    OBVIOUS
  <2>3. QED BY <1>1, <2>1, <2>2 DEF f, y
<1>10. BatchInv
  BY <1>1, <1>2, <1>4, <1>5, <1>9 DEF BatchInv
<1>11. share \in [Ranks -> Seq(Entries)]
  <2>1. <<e>> \in Seq(Entries)
    BY <1>6
  <2> DEFINE y == <<e>>
  <2> HIDE DEF y
  <2>2. <<y>> = [w \in 1..1 |-> y] /\ y \in Seq(Entries) /\ share = <<y>>
    BY <1>1, <2>1 DEF y
  <2>3. QED BY <1>2, <2>2
<1>12. outputs \in [Ranks -> Seq(DOMAIN tokens)]
  <2> DEFINE y == <<1>>
  <2>1. y \in Seq(DOMAIN tokens) /\ outputs = <<y>>
    BY <1>1, <1>2
  <2> HIDE DEF y
  <2>2. <<y>> = [w \in 1..1 |-> y]
    OBVIOUS
  <2>3. QED BY <1>2, <2>1, <2>2
<1>13. micros = [w \in Ranks |-> micros[w]]
  <2> DEFINE y == <<<<1>>>>
  <2>1. micros = <<y>>
    BY <1>1
  <2> HIDE DEF y
  <2>2. <<y>> = [w \in 1..1 |-> <<y>>[w]]
    OBVIOUS
  <2>3. QED BY <1>2, <2>1, <2>2
<1>14. /\ at \in [Ranks -> {"prepare", "reduce", "divide", "forward", "step", "answered"}]
       /\ turn \in [Ranks -> Nat] /\ count \in [Ranks -> Nat] /\ done \in [Ranks -> Nat]
       /\ at = AllRanks("answered")
  BY <1>1, <1>2, <1>3 DEF AllRanks
<1>15. RankTypes
  BY <1>1, <1>11, <1>12, <1>13, <1>14 DEF RankTypes
<1>16. uses = [r \in 1..RowTotal |-> PpoEpochs] /\ uses \in [1..RowTotal -> 0..PpoEpochs]
  BY <1>1, <1>2, <1>3
<1>17. QED BY <1>1, <1>10, <1>14, <1>15, <1>16 DEF UpdateInv

\* Nothing of the update happens.
LEMMA UpdateStutter == UpdateInv /\ UNCHANGED updateVars => UpdateInv'
<1> SUFFICES ASSUME UpdateInv, UNCHANGED updateVars PROVE UpdateInv'
  OBVIOUS
<1>1. /\ Framed /\ phase' = phase /\ at' = at /\ uses' = uses /\ count' = count
      /\ micros' = micros /\ done' = done /\ outputs' = outputs /\ grads' = grads
      /\ UNCHANGED step
  BY DEF updateVars, Framed, driver, work
<1>2. /\ Ranks' = Ranks /\ Entries' = Entries /\ tokens' = tokens /\ RowTotal' = RowTotal
      /\ PartSize' = PartSize /\ share' = share /\ turn' = turn /\ dynamicBsz' = dynamicBsz
      /\ \A r : MiniSize(r)' = MiniSize(r)
  BY <1>1, StepKeeps, FrameKeeps
<1>3. BatchInv' /\ RankTypes'
  <2>1. RankTypes'
    BY <1>1, <1>2 DEF UpdateInv, RankTypes
  <2>2. QED BY <1>1, <2>1, FramedBatch DEF UpdateInv
<1>4. ASSUME NEW l, Stage(l) PROVE Stage(l)'
  <2>1. \A w \in Ranks : Untouched(w)
    BY <1>1 DEF Untouched
  <2>2. CASE Gathering(l)
    <3>1. \A w \in Ranks : Fresh(w) => Fresh(w)'
      BY <1>1, <2>1, UntouchedRank
    <3>2. Gathering(l)'
      BY <1>1, <1>2, <2>2, <3>1 DEF Gathering
    <3>3. QED BY <3>2 DEF Stage
  <2>3. CASE Dividing(l)
    <3>1. PICK M \in Nat \ {0} :
              /\ dynamicBsz => M <= l
              /\ ~dynamicBsz => M = CeilDiv(l, MicroBatchSize)
              /\ \A w \in Ranks : ReadyFor(w, l, M)
      BY <2>3 DEF Dividing
    <3>2. \A w \in Ranks : ReadyFor(w, l, M)'
      BY <1>1, <2>1, <3>1, UntouchedRank
    <3>3. Dividing(l)'
      BY <1>2, <3>1, <3>2 DEF Dividing
    <3>4. QED BY <3>3 DEF Stage
  <2>4. CASE Passing(l)
    <3>1. PICK M \in Nat \ {0} : \E d \in 1..M : \A w \in Ranks : Going(w, l, M, d)
      BY <2>4 DEF Passing
    <3>2. PICK d \in 1..M : \A w \in Ranks : Going(w, l, M, d)
      BY <3>1
    <3>3. \A w \in Ranks : Going(w, l, M, d)'
      BY <1>1, <2>1, <3>2, UntouchedRank
    <3>4. Passing(l)'
      BY <1>2, <3>3 DEF Passing
    <3>5. QED BY <3>4 DEF Stage
  <2>5. QED BY <1>4, <2>2, <2>3, <2>4 DEF Stage
<1>5. (at = AllRanks("answered"))' <=> at = AllRanks("answered")
  BY <1>1, <1>2 DEF AllRanks
<1>6. CASE phase = "log_prob"
  <2>1. PICK l : l = PartSize
    OBVIOUS
  <2>2. Stage(l) /\ uses = [r \in 1..RowTotal |-> 0] /\ uses \in [1..RowTotal -> 0..PpoEpochs]
    BY <1>6, <2>1 DEF UpdateInv
  <2>3. Stage(PartSize)'
    BY <1>2, <1>4, <2>1, <2>2
  <2>4. QED BY <1>1, <1>2, <1>3, <1>6, <2>2, <2>3 DEF UpdateInv
<1>7. CASE phase = "update"
  <2>1. PICK q \in Nat, r \in Nat : Updating(q, r)
    BY <1>7 DEF UpdateInv
  <2>2. TurnIs(q, r)' /\ UsedSoFar(q, r)'
    BY <1>1, <2>1, FramedBatch DEF Updating
  <2>3. PICK l : l = MiniSize(r)
    OBVIOUS
  <2>4. q # PpoEpochs => Stage(MiniSize(r))'
    BY <1>2, <1>4, <2>1, <2>3 DEF Updating
  <2>5. Updating(q, r)'
    BY <1>5, <2>1, <2>2, <2>4 DEF Updating
  <2>6. QED BY <1>1, <1>2, <1>3, <1>7, <2>5 DEF UpdateInv
<1>8. CASE phase \in {"balance", "updated"}
  BY <1>1, <1>2, <1>3, <1>5, <1>8 DEF UpdateInv
<1>9. QED BY <1>6, <1>7, <1>8 DEF UpdateInv, BatchInv

\* The rows of the part of a rank are its part of the rows.
LEMMA RowsOfPart ==
    ASSUME BatchInv, phase # "balance", NEW w \in Ranks
    PROVE  RowsAt(share[w]) = Part(rows, w)
<1> DEFINE n == RowTotal
           c == PartSize
           a == (w - 1) * c
           s == share[w]
           t == Part(rows, w)
<1>1. Chunked(n, c) /\ s \in Seq(Entries) /\ Len(s) = c
  BY ShareIs DEF Window
<1>2. n \in Nat \ {0} /\ world \in Nat \ {0} /\ rows \in [1..n -> 1..n]
  BY DEF BatchInv, Permutes
<1>3. \A j \in 1..c : s[j].row = rows[a + j]
  BY EntryIs
<1> HIDE DEF n, c, s
<1> DEFINE T == 1..n
<1>4. rows \in Seq(T) /\ Len(rows) = n
  <2> HIDE DEF T
  <2>1. rows \in [1..n -> T] /\ n \in Nat
    BY <1>2 DEF T
  <2>2. QED BY <2>1
<1>5. t \in Seq(T) /\ Window(t, rows, a, c)
  <2> HIDE DEF T
  <2>1. QED BY <1>1, <1>2, <1>4, PartIs
<1> HIDE DEF a, t, T
<1>6. c \in Nat
  BY <1>1 DEF Chunked
<1>7. Len(t) = c /\ \A j \in 1..c : t[j] = rows[a + j]
  BY <1>5 DEF Window
<1>8. DOMAIN t = 1..c /\ t = [j \in 1..c |-> t[j]]
  BY <1>5, <1>6, <1>7
<1>9. RowsAt(s) = [j \in 1..c |-> s[j].row]
  <2>1. DOMAIN s = 1..c
    BY <1>1
  <2>2. QED BY <2>1 DEF RowsAt
<1>10. RowsAt(s) = t
  BY <1>3, <1>7, <1>8, <1>9
<1>11. QED BY <1>10 DEF s, t

\* batch.union(old_log_prob): the log-probabilities are in the order of the rows.
LEMMA UnionStep == UpdateInv /\ Union => UpdateInv'
<1> SUFFICES ASSUME UpdateInv, Union PROVE UpdateInv'
  OBVIOUS
<1> DEFINE n == RowTotal
           c == PartSize
           answers == [w \in Ranks |-> outputs[w]]
<1>1. /\ BatchInv /\ RankTypes /\ phase = "log_prob" /\ Stage(c)
      /\ uses = [r \in 1..n |-> 0] /\ uses \in [1..n -> 0..PpoEpochs]
  BY DEF UpdateInv, Union
<1>2. /\ n \in Nat \ {0} /\ world \in Nat \ {0} /\ n % world = 0
      /\ Permutes(rows, n) /\ tokens \in [1..n -> 1..MaxTokenLen] /\ 1 \in Ranks
  BY <1>1 DEF BatchInv, Ranks
<1>3. /\ at = AllRanks("answered") /\ oldLogProbs' = FlattenSeq(answers)
      /\ phase' = "update" /\ rows' = rows /\ Deal(oldLogProbs') /\ UNCHANGED step
      /\ uses' = uses /\ count' = count /\ micros' = micros /\ done' = done
      /\ outputs' = outputs /\ grads' = grads
  BY DEF Union, work
<1>4. /\ tokens' = tokens /\ world' = world /\ dynamicBsz' = dynamicBsz
      /\ Ranks' = Ranks /\ Entries' = Entries /\ RowTotal' = n /\ PartSize' = c
      /\ MiniCount' = MiniCount /\ \A r : MiniSize(r)' = MiniSize(r)
  BY <1>3, StepKeeps
<1>5. Chunked(n, c) /\ c \in Nat \ {0}
  BY <1>1, <1>2, ShareIs DEF Chunked
<1>6. ASSUME NEW w \in Ranks PROVE outputs[w] = Part(rows, w)
  <2>1. at[1] = "answered" /\ at[w] = "answered"
    BY <1>2, <1>3 DEF AllRanks
  <2>2. Passing(c)
    <3>1. PICK l : l = c
      OBVIOUS
    <3>2. QED BY <1>1, <2>1, <3>1, StageOfPlace
  <2>3. outputs[w] = RowsAt(Current(w))
    BY <2>1, <2>2 DEF Passing, Going
  <2>4. Current(w) = share[w]
    BY <1>1 DEF Current
  <2>5. RowsAt(share[w]) = Part(rows, w)
    BY <1>1, RowsOfPart
  <2>6. QED BY <2>3, <2>4, <2>5
<1> HIDE DEF n, c
<1>7. FlattenSeq(answers) = rows
  <2> DEFINE T == 1..n
  <2>1. rows \in Seq(T) /\ Len(rows) = n
    <3>1. rows \in [1..n -> T] /\ n \in Nat
      BY <1>2 DEF Permutes
    <3> HIDE DEF T
    <3>2. QED BY <3>1
  <2>2. answers = [w \in Ranks |-> Part(rows, w)]
    BY <1>6
  <2> HIDE DEF T, answers
  <2>3. QED BY <1>2, <1>5, <2>1, <2>2, PartsTogether
<1>8. oldLogProbs' = rows
  BY <1>3, <1>7
<1>9. /\ share' = [w \in Ranks |->
                      Part([i \in 1..n |-> [row |-> rows'[i], logProb |-> rows[i]]], w)]
      /\ share' \in [Ranks -> Seq(Entries)]
      /\ at' = AllRanks("prepare") /\ turn' = AllRanks(1)
  <2>1. rows \in [1..RowTotal -> {0} \cup DOMAIN tokens] /\ Permutes(rows', RowTotal)
    BY <1>2, <1>3 DEF Permutes, n
  <2>2. Deal(rows)
    BY <1>3, <1>8
  <2>3. QED BY <1>1, <1>3, <2>1, <2>2, DealIs DEF n
<1>10. share' = [w \in Ranks |-> Part(Dealt, w)]'
  <2>1. Dealt' = [i \in 1..n |-> [row |-> rows'[i], logProb |-> rows[i]]]
    BY <1>3, <1>4 DEF Dealt
  <2>2. [w \in Ranks |-> Part(Dealt, w)]' = [w \in Ranks |-> Part(Dealt', w)]
    BY <1>4 DEF Part
  <2>3. QED BY <1>9, <2>1, <2>2
<1>11. BatchInv'
  BY <1>2, <1>3, <1>4, <1>8, <1>10 DEF BatchInv
<1>12. RankTypes'
  <2>1. at' \in [Ranks -> {"prepare", "reduce", "divide", "forward", "step", "answered"}]
        /\ turn' \in [Ranks -> Nat]
    BY <1>9 DEF AllRanks
  <2>2. QED BY <1>1, <1>3, <1>4, <1>9, <2>1 DEF RankTypes
<1>13. MiniBatchSize \in Nat \ {0} /\ PpoEpochs \in Nat \ {0}
  BY UpdateAssumption
<1>14. MiniCount \in Nat \ {0}
  BY <1>5, <1>13, CeilDivIs DEF MiniCount, c
<1>15. TurnIs(0, 0)'
  <2>1. 0 * MiniCount + 0 + 1 = 1
    BY <1>14
  <2>2. QED BY <1>4, <1>9, <1>13, <1>14, <2>1 DEF TurnIs, AllRanks
<1>16. UsedSoFar(0, 0)'
  <2>1. ASSUME NEW w \in Ranks, NEW j \in 1..c
        PROVE  uses[rows[(w - 1) * c + j]] = 0 /\ ~((j - 1) \div MiniBatchSize < 0)
    <3>1. (w - 1) * c + j \in 1..n
      BY <1>1, EntryIs DEF c, n
    <3>2. rows[(w - 1) * c + j] \in 1..n
      BY <1>2, <3>1 DEF Permutes
    <3>3. j - 1 \in Nat /\ (j - 1) \div MiniBatchSize >= 0
          /\ (j - 1) \div MiniBatchSize \in Int
      BY <1>5, <1>13
    <3>4. QED BY <1>1, <3>2, <3>3 DEF n
  <2>2. QED BY <1>3, <1>4, <2>1 DEF UsedSoFar
<1>17. Stage(MiniSize(0))'
  <2>1. MiniSize(0) \in Nat \ {0}
    <3>1. 0 * MiniBatchSize = 0 /\ (0 + 1) * MiniBatchSize = MiniBatchSize
      BY <1>13
    <3>2. MiniSize(0) = IF MiniBatchSize < c THEN MiniBatchSize ELSE c
      <4>1. CutAt(PartSize, MiniBatchSize, 0 + 1)
                = IF MiniBatchSize < c THEN MiniBatchSize ELSE c
        BY <3>1 DEF CutAt, c
      <4>2. MiniSize(0) = CutAt(PartSize, MiniBatchSize, 0 + 1) - 0
        BY <3>1 DEF MiniSize
      <4>3. QED BY <1>5, <1>13, <4>1, <4>2
    <3>3. QED BY <1>5, <1>13, <3>2
  <2>2. PICK l : l = MiniSize(0)
    OBVIOUS
  <2>3. Stage(l)'
    BY <1>3, <1>9, <2>1, <2>2, AllPrepare
  <2>4. QED BY <1>4, <2>2, <2>3
<1>18. Updating(0, 0)'
  BY <1>13, <1>15, <1>16, <1>17 DEF Updating
<1>19. \E q, r \in Nat : Updating(q, r)'
  <2>1. 0 \in Nat
    OBVIOUS
  <2>2. QED BY <1>18, <2>1
<1>20. QED BY <1>1, <1>3, <1>4, <1>11, <1>12, <1>19 DEF UpdateInv, n

\* The mini-batch of a place.
LEMMA MiniBatchOfPlace ==
    ASSUME BatchInv, phase = "update", NEW q \in Nat, NEW r \in Nat, TurnIs(q, r),
           NEW j \in 1..PartSize
    PROVE  /\ (j - 1) \div MiniBatchSize \in 0..MiniCount - 1
           /\ (\E i \in 1..MiniSize(r) : r * MiniBatchSize + i = j)
                  <=> (j - 1) \div MiniBatchSize = r
<1> DEFINE c == PartSize
           z == MiniBatchSize
           b == (j - 1) \div z
<1>1. 1 \in Ranks /\ z \in Nat \ {0}
  BY UpdateAssumption DEF BatchInv, Ranks
<1>2. c \in Nat \ {0}
  BY <1>1, ShareIs DEF Chunked
<1>3. r * z \in Nat /\ MiniSize(r) \in 1..z
  BY <1>1, MiniBatchIs
<1>4. /\ b \in Nat /\ b + 1 \in 1..CeilDiv(c, z)
      /\ j - b * z \in 1..CutAt(c, z, b + 1) - b * z
      /\ b * z \in Nat
  <2> HIDE DEF c, z
  <2>1. j \in 1..c
    BY DEF c
  <2>2. QED BY <1>1, <1>2, <2>1, PieceOfPlace
<1> HIDE DEF b, c, z
<1>5. MiniCount \in Nat /\ b \in 0..MiniCount - 1
  <2>1. MiniCount = CeilDiv(c, z) /\ CeilDiv(c, z) \in Nat
    BY <1>1, <1>2, CeilDivIs DEF MiniCount, c, z
  <2>2. QED BY <1>4, <2>1
<1>6. ASSUME NEW i \in 1..MiniSize(r), r * z + i = j PROVE b = r
  <2> DEFINE k == r + 1
             y == (k - 1) * z
  <2>1. k \in Nat \ {0} /\ i \in 1..z /\ k - 1 = r
    BY <1>1, <1>3
  <2> HIDE DEF k
  <2>2. ((k - 1) * z + i - 1) \div z = k - 1
    BY <1>1, <2>1, PlaceInPiece
  <2>3. y = r * z
    BY <2>1
  <2>4. (k - 1) * z + i - 1 = j - 1
    <3>1. y \in Nat /\ y + i = j
      BY <1>3, <1>6, <2>3
    <3> HIDE DEF y
    <3>2. y + i - 1 = j - 1
      BY <3>1
    <3>3. QED BY <3>2 DEF y
  <2>5. QED BY <2>1, <2>2, <2>4 DEF b
<1>7. ASSUME b = r PROVE \E i \in 1..MiniSize(r) : r * z + i = j
  <2>1. MiniSize(r) = CutAt(c, z, r + 1) - r * z
    BY DEF MiniSize, c, z
  <2>2. j - r * z \in 1..MiniSize(r)
    BY <1>4, <1>7, <2>1
  <2> DEFINE y == r * z
  <2>3. y \in Nat /\ j \in Nat /\ j - y \in 1..MiniSize(r)
    BY <1>2, <1>3, <2>2 DEF c
  <2> HIDE DEF y
  <2>4. y + (j - y) = j
    BY <2>3
  <2>5. QED BY <2>3, <2>4 DEF y
<1>8. QED BY <1>5, <1>6, <1>7 DEF b, z

\* Before an optimizer step the gradient of a rank is its mini-batch, in some order.
InSomeOrder(g, s, l) == \E p : Permutes(p, l) /\ Len(g) = l /\ g = [i \in 1..l |-> s[p[i]]]

\* The forward passes of a mini-batch have read all of it, row by row.
LEMMA GradsAre ==
    ASSUME BatchInv, NEW l, Placed(l), Stage(l), phase = "update", NEW w \in Ranks,
           at[w] = "step"
    PROVE  InSomeOrder(grads[w], Current(w), l)
<1>1. Passing(l) /\ l \in Nat
  BY StageOfPlace DEF Placed
<1>2. PICK M \in Nat \ {0} : \E d \in 1..M : \A v \in Ranks : Going(v, l, M, d)
  BY <1>1 DEF Passing
<1>3. PICK d \in 1..M : \A v \in Ranks : Going(v, l, M, d)
  BY <1>2
<1> DEFINE parts == micros[w]
           s == Current(w)
           g == grads[w]
           q == FlattenSeq(parts)
<1>4. Parted(parts, l, M, FALSE) /\ d = M /\ Computed(w, d)
  BY <1>3 DEF Going, Divided
<1>5. g = Image(s, Flat(parts, M))
  BY <1>4 DEF Computed
<1> HIDE DEF parts, s, g
<1>6. q = Flat(parts, M) /\ Len(q) = l /\ Permutes(q, l)
  BY <1>1, <1>4, FlatOfAny
<1> HIDE DEF q
<1>7. g = [i \in 1..l |-> s[q[i]]]
  BY <1>5, <1>6 DEF Image
<1>8. Len(g) = l
  BY <1>1, <1>7
<1>9. QED BY <1>6, <1>7, <1>8 DEF InSomeOrder, g, s

\* What is in a list that is in some order.
LEMMA InSomeOrderIs ==
    ASSUME NEW l \in Nat, NEW s, NEW g, InSomeOrder(g, s, l)
    PROVE  /\ DOMAIN g = 1..l
           /\ \A i \in 1..l : \E k \in 1..l : g[i] = s[k]
           /\ \A k \in 1..l : \E i \in 1..l : g[i] = s[k]
<1>1. PICK p : Permutes(p, l) /\ g = [i \in 1..l |-> s[p[i]]]
  BY DEF InSomeOrder
<1>2. QED BY <1>1 DEF Permutes

\* The rows that a rank has in its gradient.
LEMMA UsedByIs ==
    ASSUME BatchInv, phase = "update", NEW q \in Nat, NEW r \in Nat, TurnIs(q, r),
           NEW w \in Ranks, InSomeOrder(grads[w], Current(w), MiniSize(r)),
           NEW v \in Ranks, NEW j \in 1..PartSize
    PROVE  UsedBy(w, rows[(v - 1) * PartSize + j]) > 0
               <=> v = w /\ (j - 1) \div MiniBatchSize = r
<1> DEFINE l == MiniSize(r)
           c == PartSize
           z == MiniBatchSize
           g == grads[w]
           s == Current(w)
           o == r * z
           x == rows[(v - 1) * c + j]
           I == {i \in DOMAIN g : g[i].row = x}
<1>1. z \in Nat \ {0} /\ Permutes(rows, RowTotal) /\ RowTotal \in Nat
  BY UpdateAssumption DEF BatchInv
<1>2. o \in Nat /\ l \in 1..z /\ Window(s, share[w], o, l)
  BY MiniBatchIs
<1>3. Chunked(RowTotal, c) /\ c \in Nat \ {0} /\ Window(share[w], Dealt, (w - 1) * c, c)
  BY ShareIs DEF Chunked
<1>4. l \in Nat /\ InSomeOrder(g, s, l)
  BY <1>1, <1>2
<1> HIDE DEF l, g, s, o
<1>5. /\ DOMAIN g = 1..l
      /\ \A i \in 1..l : \E k \in 1..l : g[i] = s[k]
      /\ \A k \in 1..l : \E i \in 1..l : g[i] = s[k]
  BY <1>4, InSomeOrderIs
<1>6. ASSUME NEW k \in 1..l
      PROVE  o + k \in 1..c /\ s[k].row = rows[(w - 1) * c + (o + k)]
  <2> DEFINE i == o + k
  <2>1. i \in 1..Len(share[w]) /\ s[k] = share[w][i]
    BY <1>2 DEF Window
  <2>2. i \in 1..PartSize
    BY <1>3, <2>1 DEF Window
  <2> HIDE DEF i
  <2>3. share[w][i].row = rows[(w - 1) * PartSize + i]
    BY <2>2, EntryIs
  <2>4. QED BY <2>1, <2>2, <2>3 DEF i
<1>7. UsedBy(w, x) > 0 <=> I # {}
  <2>1. UsedBy(w, x) = Cardinality(I)
    BY DEF UsedBy, g
  <2>2. IsFiniteSet(I)
    <3>1. IsFiniteSet(1..l)
      BY <1>4, FS_Interval
    <3>2. I \subseteq 1..l
      BY <1>5
    <3> HIDE DEF I
    <3>3. QED BY <3>1, <3>2, FS_Subset
  <2> HIDE DEF I
  <2>3. Cardinality(I) \in Nat /\ (Cardinality(I) = 0 <=> I = {})
    BY <2>2, FS_CardinalityType, FS_EmptySet
  <2>4. QED BY <2>1, <2>3
<1>8. I # {} <=> \E k \in 1..l : s[k].row = x
  <2> HIDE DEF x
  <2>1. ASSUME NEW i \in I PROVE \E k \in 1..l : s[k].row = x
    <3>1. i \in 1..l /\ g[i].row = x
      BY <1>5
    <3>2. PICK k \in 1..l : g[i] = s[k]
      BY <1>5, <3>1
    <3>3. QED BY <3>1, <3>2
  <2>2. ASSUME NEW k \in 1..l, s[k].row = x PROVE I # {}
    <3>1. PICK i \in 1..l : g[i] = s[k]
      BY <1>5
    <3>2. i \in I
      BY <1>5, <2>2, <3>1
    <3>3. QED BY <3>2
  <2> HIDE DEF I
  <2>3. QED BY <2>1, <2>2
<1> HIDE DEF I
<1>9. ASSUME NEW k \in 1..l, s[k].row = x PROVE v = w /\ o + k = j
  <2> DEFINE i == o + k
             a == (v - 1) * c
             b == (w - 1) * c
  <2>1. i \in 1..c /\ rows[b + i] = rows[a + j]
    BY <1>6, <1>9
  <2> HIDE DEF i
  <2>2. a + j \in 1..RowTotal /\ b + i \in 1..RowTotal
    BY <2>1, EntryIs
  <2> HIDE DEF a, b
  <2>3. a + j = b + i
    BY <1>1, <2>1, <2>2 DEF Permutes
  <2>4. v \in Nat \ {0} /\ w \in Nat \ {0} /\ j \in 1..c
    BY DEF Ranks, BatchInv
  <2>5. (v - 1) * c + j = (w - 1) * c + i
    BY <2>3 DEF a, b
  <2> HIDE DEF c
  <2>6. v = w /\ j = i
    BY <1>3, <2>1, <2>4, <2>5, OneRankOnly
  <2>7. QED BY <2>6 DEF i
<1>10. ASSUME v = w, NEW k \in 1..l, o + k = j PROVE s[k].row = x
  <2>1. s[k].row = rows[(w - 1) * c + (o + k)]
    BY <1>6
  <2>2. QED BY <1>10, <2>1
<1>11. (\E k \in 1..l : o + k = j) <=> (j - 1) \div z = r
  BY MiniBatchOfPlace DEF l, o
<1>12. QED BY <1>7, <1>8, <1>9, <1>10, <1>11

\* The next mini-batch, and the epoch it belongs to.
NextEpoch(q, r) == IF r + 1 = MiniCount THEN q + 1 ELSE q
NextMini(r) == IF r + 1 = MiniCount THEN 0 ELSE r + 1

\* The number of optimizer steps so far grows by one, and ends with the last epoch.
LEMMA NextTurn ==
    ASSUME MiniCount \in Nat \ {0}, NEW q \in Nat, NEW r \in 0..MiniCount - 1,
           q < PpoEpochs
    PROVE  /\ NextEpoch(q, r) \in 0..PpoEpochs /\ NextMini(r) \in 0..MiniCount - 1
           /\ NextEpoch(q, r) = PpoEpochs => NextMini(r) = 0
           /\ q * MiniCount + r + 1 + 1 = NextEpoch(q, r) * MiniCount + NextMini(r) + 1
           /\ q * MiniCount + r + 1 = PpoEpochs * MiniCount <=> NextEpoch(q, r) = PpoEpochs
<1> DEFINE m == MiniCount
           E == PpoEpochs
           y == q * m
           x == (E - q - 1) * m
<1>1. m \in Nat \ {0} /\ E \in Nat \ {0} /\ r \in 0..m - 1
  BY UpdateAssumption
<1> HIDE DEF m, E
<1>2. /\ (q + 1) * m = y + m /\ y \in Nat
      /\ E * m = y + m + x /\ x \in Int
  BY <1>1
<1>3. x >= 0 /\ (x = 0 <=> E = q + 1)
  <2> DEFINE k == E - q - 1
  <2>1. k \in Nat
    BY <1>1 DEF E
  <2>2. x = k * m
    OBVIOUS
  <2> HIDE DEF k, x
  <2>3. k * m >= 0 /\ (k = 0 => k * m = 0) /\ (k > 0 => k * m > 0)
    BY <1>1, <2>1
  <2>4. k = 0 <=> E = q + 1
    BY <1>1 DEF k
  <2>5. QED BY <2>1, <2>2, <2>3, <2>4
<1> HIDE DEF x, y
<1>4. q * m = y
  BY DEF y
<1>5. CASE r + 1 = m
  <2>1. NextEpoch(q, r) = q + 1 /\ NextMini(r) = 0
    BY <1>5 DEF NextEpoch, NextMini, m
  <2>2. q + 1 \in 0..E /\ 0 \in 0..m - 1
    BY <1>1 DEF E
  <2>3. y + r + 1 + 1 = y + m + 0 + 1
    BY <1>1, <1>2, <1>5
  <2>4. y + r + 1 = E * m <=> q + 1 = E
    <3>1. y + r + 1 = y + m
      BY <1>1, <1>2, <1>5
    <3>2. y + r + 1 = E * m <=> x = 0
      BY <1>1, <1>2, <3>1
    <3>3. QED BY <1>3, <3>2
  <2>5. q * MiniCount + r + 1 + 1 = (q + 1) * MiniCount + 0 + 1
    BY <1>2, <1>4, <2>3 DEF m
  <2>6. q * MiniCount + r + 1 = PpoEpochs * MiniCount <=> q + 1 = PpoEpochs
    BY <1>4, <2>4 DEF m, E
  <2>7. QED BY <2>1, <2>2, <2>5, <2>6 DEF m, E
<1>6. CASE r + 1 # m
  <2>1. NextEpoch(q, r) = q /\ NextMini(r) = r + 1
    BY <1>6 DEF NextEpoch, NextMini, m
  <2>2. q \in 0..E /\ r + 1 \in 0..m - 1 /\ q # E
    BY <1>1, <1>6 DEF E
  <2>3. y + r + 1 + 1 = y + (r + 1) + 1
    BY <1>1, <1>2
  <2>4. y + r + 1 # E * m
    BY <1>1, <1>2, <1>3, <2>2
  <2>5. q * MiniCount + r + 1 + 1 = q * MiniCount + (r + 1) + 1
    BY <1>4, <2>3 DEF m
  <2>6. q * MiniCount + r + 1 # PpoEpochs * MiniCount
    BY <1>4, <2>4 DEF m, E
  <2>7. QED BY <2>1, <2>2, <2>5, <2>6 DEF m, E
<1>7. QED BY <1>5, <1>6

\* A property of all places of the parts is one of all rows.
LEMMA RowHasPlace ==
    ASSUME BatchInv, phase # "balance", NEW x \in 1..RowTotal
    PROVE  \E w \in Ranks, j \in 1..PartSize : x = rows[(w - 1) * PartSize + j]
<1> DEFINE n == RowTotal
           c == PartSize
<1>1. n \in Nat \ {0} /\ world \in Nat \ {0} /\ Permutes(rows, n) /\ 1 \in Ranks
  BY DEF BatchInv, Ranks
<1>2. Chunked(n, c)
  BY <1>1, ShareIs
<1>3. PICK p \in 1..n : rows[p] = x
  BY <1>1 DEF Permutes
<1> DEFINE w == ((p - 1) \div c) + 1
           a == (w - 1) * c
           j == p - a
<1>4. w \in Ranks /\ j \in 1..c
  <2> HIDE DEF n, c
  <2>1. p \in 1..n
    BY DEF n
  <2>2. QED BY <1>1, <1>2, <2>1, PlaceOfRank
<1> HIDE DEF w, c
<1>5. c \in Nat /\ w \in Nat
  BY <1>1, <1>2, <1>4 DEF Chunked, Ranks
<1>6. a \in Int
  BY <1>5
<1> HIDE DEF a
<1>7. a + j = p
  BY <1>1, <1>6
<1>8. x = rows[a + j]
  BY <1>3, <1>7
<1>9. QED BY <1>4, <1>8 DEF a, c

\* The uses of a row after an optimizer step.
LEMMA UsesAfterStep ==
    ASSUME BatchInv, phase = "update", NEW q \in Nat, NEW r \in Nat, TurnIs(q, r),
           UsedSoFar(q, r), uses \in [1..RowTotal -> 0..PpoEpochs],
           \A w \in Ranks : InSomeOrder(grads[w], Current(w), MiniSize(r)),
           uses' = [x \in DOMAIN uses |->
                       uses[x] + Cardinality({w \in Ranks : UsedBy(w, x) > 0})]
    PROVE  /\ DOMAIN uses' = 1..RowTotal
           /\ \A v \in Ranks, j \in 1..PartSize :
                  uses'[rows[(v - 1) * PartSize + j]] =
                      IF (j - 1) \div MiniBatchSize < NextMini(r)
                      THEN NextEpoch(q, r) + 1 ELSE NextEpoch(q, r)
<1>1. DOMAIN uses' = 1..RowTotal
  OBVIOUS
<1>2. ASSUME NEW v \in Ranks, NEW j \in 1..PartSize
      PROVE  uses'[rows[(v - 1) * PartSize + j]] =
                 IF (j - 1) \div MiniBatchSize < NextMini(r)
                 THEN NextEpoch(q, r) + 1 ELSE NextEpoch(q, r)
  <2> DEFINE x == rows[(v - 1) * PartSize + j]
             b == (j - 1) \div MiniBatchSize
             W == {w \in Ranks : UsedBy(w, x) > 0}
  <2>1. x \in 1..RowTotal
    <3>1. (v - 1) * PartSize + j \in 1..RowTotal
      BY EntryIs
    <3>2. QED BY <3>1 DEF BatchInv, Permutes
  <2>2. uses[x] = IF b < r THEN q + 1 ELSE q
    BY DEF UsedSoFar
  <2>3. ASSUME NEW w \in Ranks PROVE UsedBy(w, x) > 0 <=> v = w /\ b = r
    <3>1. InSomeOrder(grads[w], Current(w), MiniSize(r))
      OBVIOUS
    <3>2. QED BY <3>1, UsedByIs
  <2>4. b \in 0..MiniCount - 1 /\ MiniCount \in Nat \ {0} /\ r \in 0..MiniCount - 1
    BY MiniBatchOfPlace, MiniBatchIs DEF TurnIs
  <2>5. uses'[x] = uses[x] + Cardinality(W)
    BY <2>1
  <2>6. Cardinality(W) = IF b = r THEN 1 ELSE 0
    <3> HIDE DEF x, b
    <3>1. CASE b = r
      <4>1. W = {v}
        BY <2>3, <3>1
      <4> HIDE DEF W
      <4>2. Cardinality(W) = 1
        BY <4>1, FS_Singleton
      <4>3. QED BY <3>1, <4>2
    <3>2. CASE b # r
      <4>1. W = {}
        BY <2>3, <3>2
      <4> HIDE DEF W
      <4>2. Cardinality(W) = 0
        BY <4>1, FS_EmptySet
      <4>3. QED BY <3>2, <4>2
    <3>3. QED BY <3>1, <3>2
  <2> HIDE DEF x, b, W
  <2>7. uses'[x] = IF b < NextMini(r) THEN NextEpoch(q, r) + 1 ELSE NextEpoch(q, r)
    <3>1. CASE r + 1 = MiniCount
      <4>1. NextMini(r) = 0 /\ NextEpoch(q, r) = q + 1 /\ ~(b < 0) /\ b <= r
        BY <2>4, <3>1 DEF NextMini, NextEpoch
      <4>2. uses'[x] = q + 1
        BY <2>2, <2>4, <2>5, <2>6, <4>1
      <4>3. QED BY <4>1, <4>2
    <3>2. CASE r + 1 # MiniCount
      <4>1. NextMini(r) = r + 1 /\ NextEpoch(q, r) = q
        BY <3>2 DEF NextMini, NextEpoch
      <4>2. uses'[x] = IF b < r + 1 THEN q + 1 ELSE q
        BY <2>2, <2>4, <2>5, <2>6
      <4>3. QED BY <4>1, <4>2
    <3>3. QED BY <3>1, <3>2
  <2>8. QED BY <2>7 DEF x, b
<1>3. QED BY <1>1, <1>2

\* An optimizer step: every row of the mini-batches has been used once more.
LEMMA OptimizerStepStep == UpdateInv /\ OptimizerStep => UpdateInv'
<1> SUFFICES ASSUME UpdateInv, OptimizerStep PROVE UpdateInv'
  OBVIOUS
<1>1. BatchInv /\ RankTypes /\ uses \in [1..RowTotal -> 0..PpoEpochs]
  BY DEF UpdateInv
<1>2. /\ at = AllRanks("step")
      /\ uses' = [x \in DOMAIN uses |->
                     uses[x] + Cardinality({w \in Ranks : UsedBy(w, x) > 0})]
      /\ at' = [w \in Ranks |-> IF IsLastTurn(w) THEN "answered" ELSE "prepare"]
      /\ turn' = [w \in Ranks |-> turn[w] + 1]
      /\ UNCHANGED step /\ UNCHANGED driver /\ UNCHANGED work
  BY DEF OptimizerStep
<1>3. 1 \in Ranks /\ \A w \in Ranks : at[w] = "step"
  BY <1>1, <1>2 DEF BatchInv, Ranks, AllRanks
<1>4. phase = "update"
  <2>1. phase # "log_prob"
    <3> SUFFICES ASSUME phase = "log_prob" PROVE FALSE
      OBVIOUS
    <3>1. PICK l : l = PartSize /\ Stage(l)
      BY DEF UpdateInv
    <3>2. Passing(l)
      BY <1>3, <3>1, StageOfPlace
    <3>3. QED BY <1>3, <3>2 DEF Passing, Going
  <2>2. phase \notin {"balance", "updated"}
    <3>1. at # AllRanks("answered")
      BY <1>3 DEF AllRanks
    <3>2. QED BY <3>1 DEF UpdateInv
  <2>3. QED BY <1>1, <2>1, <2>2 DEF BatchInv
<1>5. PICK q \in Nat, r \in Nat : Updating(q, r)
  BY <1>4 DEF UpdateInv
<1>6. /\ TurnIs(q, r) /\ UsedSoFar(q, r) /\ q # PpoEpochs /\ Stage(MiniSize(r))
      /\ PpoEpochs \in Nat \ {0}
  <2>1. at # AllRanks("answered")
    BY <1>3 DEF AllRanks
  <2>2. QED BY <1>5, <2>1, UpdateAssumption DEF Updating
<1>7. /\ MiniCount \in Nat \ {0} /\ r \in 0..MiniCount - 1 /\ q \in 0..PpoEpochs
      /\ q < PpoEpochs /\ \A w \in Ranks : MiniBatches(w) = MiniCount
      /\ turn = AllRanks(q * MiniCount + r + 1)
  BY <1>1, <1>3, <1>4, <1>6, MiniBatchIs DEF TurnIs
<1>0. PICK q2, r2 : q2 = NextEpoch(q, r) /\ r2 = NextMini(r)
  OBVIOUS
<1>8. /\ q2 \in 0..PpoEpochs /\ r2 \in 0..MiniCount - 1
      /\ q2 = PpoEpochs => r2 = 0
      /\ q * MiniCount + r + 1 + 1 = q2 * MiniCount + r2 + 1
      /\ q * MiniCount + r + 1 = PpoEpochs * MiniCount <=> q2 = PpoEpochs
  BY <1>0, <1>7, NextTurn
<1>9. ASSUME NEW w \in Ranks PROVE InSomeOrder(grads[w], Current(w), MiniSize(r))
  <2>1. PICK l : l = MiniSize(r)
    OBVIOUS
  <2>2. Placed(l) /\ Stage(l)
    BY <1>1, <1>4, <1>6, <2>1, PlacedInMiniBatch
  <2>3. QED BY <1>1, <1>3, <1>4, <2>1, <2>2, GradsAre
<1>10. /\ DOMAIN uses' = 1..RowTotal
       /\ \A v \in Ranks, j \in 1..PartSize :
              uses'[rows[(v - 1) * PartSize + j]] =
                  IF (j - 1) \div MiniBatchSize < r2 THEN q2 + 1 ELSE q2
  BY <1>0, <1>1, <1>2, <1>4, <1>6, <1>9, UsesAfterStep
<1>11. /\ tokens' = tokens /\ world' = world /\ dynamicBsz' = dynamicBsz
       /\ Ranks' = Ranks /\ Entries' = Entries /\ RowTotal' = RowTotal
       /\ PartSize' = PartSize /\ MiniCount' = MiniCount
       /\ \A x : MiniSize(x)' = MiniSize(x)
  BY <1>2, StepKeeps
<1>12. /\ phase' = phase /\ rows' = rows /\ oldLogProbs' = oldLogProbs /\ share' = share
       /\ count' = count /\ micros' = micros /\ done' = done /\ outputs' = outputs
       /\ grads' = grads
  BY <1>2 DEF driver, work
<1>13. BatchInv'
  <2>1. Dealt' = Dealt
    BY <1>11, <1>12 DEF Dealt
  <2>2. [w \in Ranks |-> Part(Dealt, w)]' = [w \in Ranks |-> Part(Dealt, w)]
    BY <1>11, <2>1 DEF Part
  <2>3. QED BY <1>1, <1>11, <1>12, <2>2 DEF BatchInv
<1>14. TurnIs(q2, r2)'
  <2>1. \A w \in Ranks : turn[w] + 1 = q2 * MiniCount + r2 + 1
    BY <1>7, <1>8 DEF AllRanks
  <2>2. turn' = AllRanks(q2 * MiniCount + r2 + 1)
    BY <1>2, <2>1 DEF AllRanks
  <2>3. QED BY <1>8, <1>11, <2>2 DEF TurnIs, AllRanks
<1>15. UsedSoFar(q2, r2)'
  BY <1>10, <1>11, <1>12 DEF UsedSoFar
<1>16. at' = IF q2 = PpoEpochs THEN AllRanks("answered") ELSE AllRanks("prepare")
  <2>1. \A w \in Ranks : IsLastTurn(w) <=> q2 = PpoEpochs
    BY <1>7, <1>8 DEF IsLastTurn, AllRanks
  <2>2. QED BY <1>2, <2>1 DEF AllRanks
<1>17. q2 # PpoEpochs => Stage(MiniSize(r2))'
  <2> SUFFICES ASSUME q2 # PpoEpochs PROVE Stage(MiniSize(r2))'
    OBVIOUS
  <2>1. PICK l : l = MiniSize(r2)
    OBVIOUS
  <2>2. l \in Nat \ {0}
    <3> DEFINE k == r2 + 1
               c == PartSize
               z == MiniBatchSize
               y == r2 * z
    <3>1. /\ c \in Nat \ {0} /\ z \in Nat \ {0} /\ MiniCount = CeilDiv(c, z)
          /\ k \in 1..MiniCount /\ k - 1 = r2 /\ r2 \in Nat
      <4>1. c \in Nat \ {0}
        BY <1>1, <1>3, <1>4, ShareIs DEF Chunked
      <4>2. QED BY <1>7, <1>8, <4>1, UpdateAssumption DEF MiniCount
    <3> HIDE DEF k, c, z
    <3>2. \A i \in 1..MiniCount : (i - 1) * z \in 0..c - 1
      BY <3>1, CeilDivIs
    <3>3. y \in 0..c - 1 /\ k * z = y + z
      <4>1. (k - 1) * z \in 0..c - 1
        BY <3>1, <3>2
      <4>2. k = r2 + 1
        BY DEF k
      <4>3. QED BY <3>1, <4>1, <4>2
    <3>4. l = CutAt(c, z, k) - y
      BY <2>1 DEF MiniSize, c, z, k
    <3> HIDE DEF y
    <3>5. CutAt(c, z, k) = IF y + z < c THEN y + z ELSE c
      BY <3>3 DEF CutAt
    <3>6. QED BY <3>1, <3>3, <3>4, <3>5
  <2>3. Stage(l)'
    BY <1>2, <1>16, <2>2, AllPrepare
  <2>4. QED BY <1>11, <2>1, <2>3
<1>18. Updating(q2, r2)'
  <2>1. (at = AllRanks("answered"))' <=> at' = AllRanks("answered")
    BY <1>11 DEF AllRanks
  <2>2. QED BY <1>14, <1>15, <1>16, <1>17, <2>1 DEF Updating
<1>19. \E x, y \in Nat : Updating(x, y)'
  <2>1. q2 \in Nat /\ r2 \in Nat
    BY <1>6, <1>7, <1>8
  <2>2. QED BY <1>18, <2>1
<1>20. uses' \in [1..RowTotal -> 0..PpoEpochs]
  <2>1. uses' = [x \in 1..RowTotal |-> uses'[x]]
    BY <1>1, <1>2
  <2>2. ASSUME NEW x \in 1..RowTotal PROVE uses'[x] \in 0..PpoEpochs
    <3>1. PICK w \in Ranks, j \in 1..PartSize : x = rows[(w - 1) * PartSize + j]
      BY <1>1, <1>4, RowHasPlace
    <3> DEFINE b == (j - 1) \div MiniBatchSize
    <3>2. uses'[x] = IF b < r2 THEN q2 + 1 ELSE q2
      BY <1>10, <3>1
    <3>3. b \in Nat
      BY <1>1, <1>4, <1>6, <1>7, MiniBatchOfPlace
    <3> HIDE DEF b
    <3>4. q2 \in 0..PpoEpochs /\ (q2 = PpoEpochs => ~(b < r2))
      BY <1>8, <3>3
    <3>5. QED BY <1>6, <3>2, <3>4
  <2>3. QED BY <2>1, <2>2
<1>21. RankTypes'
  <2>1. at' \in [Ranks -> {"prepare", "reduce", "divide", "forward", "step", "answered"}]
    BY <1>2
  <2>2. turn' \in [Ranks -> Nat]
    BY <1>1, <1>2 DEF RankTypes
  <2>3. QED BY <1>1, <1>11, <1>12, <2>1, <2>2 DEF RankTypes
<1>22. QED BY <1>4, <1>11, <1>12, <1>13, <1>19, <1>20, <1>21 DEF UpdateInv

\* The update is over when all ranks have answered.
LEMMA UpdatedStep == UpdateInv /\ Updated => UpdateInv'
<1> SUFFICES ASSUME UpdateInv, Updated PROVE UpdateInv'
  OBVIOUS
<1>1. BatchInv /\ RankTypes /\ uses \in [1..RowTotal -> 0..PpoEpochs]
  BY DEF UpdateInv
<1>2. /\ phase = "update" /\ at = AllRanks("answered") /\ phase' = "updated"
      /\ UNCHANGED step /\ rows' = rows /\ oldLogProbs' = oldLogProbs /\ share' = share
      /\ at' = at /\ turn' = turn /\ uses' = uses /\ count' = count /\ micros' = micros
      /\ done' = done /\ outputs' = outputs /\ grads' = grads
  BY DEF Updated, work
<1>3. /\ tokens' = tokens /\ world' = world /\ Ranks' = Ranks /\ Entries' = Entries
      /\ RowTotal' = RowTotal /\ PartSize' = PartSize
  BY <1>2, StepKeeps
<1>4. 1 \in Ranks /\ \A w \in Ranks : at[w] = "answered"
  BY <1>1, <1>2 DEF BatchInv, Ranks, AllRanks
<1>5. PICK q \in Nat, r \in Nat : Updating(q, r)
  BY <1>2 DEF UpdateInv
<1>6. q = PpoEpochs
  <2> SUFFICES ASSUME q # PpoEpochs PROVE FALSE
    OBVIOUS
  <2>1. PICK l : l = MiniSize(r) /\ Stage(l)
    BY <1>5 DEF Updating
  <2>2. Passing(l)
    BY <1>4, <2>1, StageOfPlace
  <2>3. QED BY <1>2, <1>4, <2>2 DEF Passing, Going
<1>7. uses = [x \in 1..RowTotal |-> PpoEpochs]
  <2>1. TurnIs(q, r) /\ UsedSoFar(q, r) /\ r = 0
    BY <1>5, <1>6 DEF Updating, TurnIs
  <2>2. ASSUME NEW x \in 1..RowTotal PROVE uses[x] = PpoEpochs
    <3>1. PICK w \in Ranks, j \in 1..PartSize : x = rows[(w - 1) * PartSize + j]
      BY <1>1, <1>2, RowHasPlace
    <3>2. (j - 1) \div MiniBatchSize \in Nat
      <4>1. (j - 1) \div MiniBatchSize \in 0..MiniCount - 1
        BY <1>1, <1>2, <2>1, MiniBatchOfPlace
      <4>2. QED BY <4>1
    <3>3. ~((j - 1) \div MiniBatchSize < r)
      <4> DEFINE b == (j - 1) \div MiniBatchSize
      <4>1. b \in Nat
        BY <3>2
      <4> HIDE DEF b
      <4>2. ~(b < r)
        BY <2>1, <4>1
      <4>3. QED BY <4>2 DEF b
    <3>4. uses[x] = q
      BY <2>1, <3>1, <3>3 DEF UsedSoFar
    <3>5. QED BY <1>6, <3>4
  <2>3. QED BY <1>1, <2>2
<1>8. BatchInv'
  <2>1. Dealt' = Dealt
    BY <1>2, <1>3 DEF Dealt
  <2>2. [w \in Ranks |-> Part(Dealt, w)]' = [w \in Ranks |-> Part(Dealt, w)]
    BY <1>3, <2>1 DEF Part
  <2>3. QED BY <1>1, <1>2, <1>3, <2>2 DEF BatchInv
<1>9. RankTypes'
  BY <1>1, <1>2, <1>3 DEF RankTypes
<1>10. (at = AllRanks("answered"))'
  BY <1>2, <1>3 DEF AllRanks
<1>11. QED BY <1>1, <1>2, <1>3, <1>7, <1>8, <1>9, <1>10 DEF UpdateInv

\* The invariant holds in every state.
LEMMA UpdateInvariance == WorkersSpec => []UpdateInv
<1>1. WorkersInit => UpdateInv
  BY UpdateStarts, UpdateEnds DEF WorkersInit
<1>2. UpdateInv /\ [WorkersNext]_<<vars, updateVars>> => UpdateInv'
  <2> SUFFICES ASSUME UpdateInv, [WorkersNext]_<<vars, updateVars>> PROVE UpdateInv'
    OBVIOUS
  <2>1. CASE UNCHANGED updateVars
    BY <2>1, UpdateStutter
  <2>2. CASE Balance
    BY <2>2, BalanceStep
  <2>3. CASE StageMoves
    BY <2>3, StageMovesStep
  <2>4. CASE OptimizerStep
    BY <2>4, OptimizerStepStep
  <2>5. CASE Union
    BY <2>5, UnionStep
  <2>6. CASE Updated
    BY <2>6, UpdatedStep
  <2>7. QED
    BY <2>1, <2>2, <2>3, <2>4, <2>5, <2>6 DEF WorkersNext, ExtractionGoes, StageMoves
<1>3. QED BY <1>1, <1>2, PTL DEF WorkersSpec

-----------------------------------------------------------------------------
(***************************************************************************)
(* What the invariant says.                                                *)
(***************************************************************************)

\* The types of the update.
LEMMA UpdateTypes == UpdateInv => UpdateTypeOK
<1> SUFFICES ASSUME UpdateInv PROVE UpdateTypeOK
  OBVIOUS
<1>1. BatchInv /\ RankTypes /\ uses \in [1..RowTotal -> 0..PpoEpochs]
  BY DEF UpdateInv
<1>2. DOMAIN tokens = 1..RowTotal /\ Permutes(rows, RowTotal)
      /\ phase \in {"balance", "log_prob", "update", "updated"}
  BY <1>1 DEF BatchInv
<1>3. /\ rows \in [DOMAIN tokens -> DOMAIN tokens]
      /\ {rows[i] : i \in DOMAIN rows} = DOMAIN tokens
  BY <1>2 DEF Permutes
<1>4. QED BY <1>1, <1>2, <1>3 DEF UpdateTypeOK, RankTypes

\* Every variable of the extraction and of the update holds a value of its kind, and the
\* batch is always a permutation of its rows (bmc_ray_trainer.py, dp_actor.py).
THEOREM WorkersType == WorkersSpec => []TypeOK
<1>1. LatentInv /\ UpdateInv => TypeOK
  BY LatentTypes, UpdateTypes DEF TypeOK
<1>2. QED BY <1>1, LatentInvariance, UpdateInvariance, PTL

\* Every row gets its own log-probability, whatever the order of the batch and the
\* micro-batches of each rank (compute_log_prob, restore_dynamic_batch, batch.union).
THEOREM LogProbsOfTheirRows == WorkersSpec => []LogProbsInPlace
<1>1. UpdateInv => LogProbsInPlace
  BY DEF UpdateInv, BatchInv, LogProbsInPlace
<1>2. QED BY <1>1, UpdateInvariance, PTL

\* A gradient in some order of the mini-batch is the mini-batch.
LEMMA GradIsMiniBatch ==
    ASSUME BatchInv, phase = "update", NEW q \in Nat, NEW r \in Nat, TurnIs(q, r),
           NEW w \in Ranks, InSomeOrder(grads[w], Current(w), MiniSize(r))
    PROVE  /\ Len(grads[w]) = Len(Current(w))
           /\ ToSet(grads[w]) = ToSet(Current(w))
           /\ \A i \in DOMAIN grads[w] : grads[w][i].logProb = grads[w][i].row
<1> DEFINE l == MiniSize(r)
           g == grads[w]
           s == Current(w)
           o == r * MiniBatchSize
<1>1. o \in Nat /\ l \in 1..MiniBatchSize /\ Window(s, share[w], o, l) /\ s \in Seq(Entries)
  BY MiniBatchIs
<1>2. l \in Nat /\ InSomeOrder(g, s, l)
  BY <1>1, UpdateAssumption
<1>3. PICK p : Permutes(p, l) /\ Len(g) = l /\ g = [i \in 1..l |-> s[p[i]]]
  BY <1>2 DEF InSomeOrder
<1>4. Len(share[w]) = PartSize
  BY ShareIs DEF Window
<1> HIDE DEF l, g, s, o
<1>5. /\ DOMAIN g = 1..l
      /\ \A i \in 1..l : \E k \in 1..l : g[i] = s[k]
      /\ \A k \in 1..l : \E i \in 1..l : g[i] = s[k]
  <2>1. DOMAIN g = 1..l /\ \A i \in 1..l : g[i] = s[p[i]]
    BY <1>3
  <2>2. /\ \A i \in 1..l : p[i] \in 1..l
        /\ \A k \in 1..l : \E i \in 1..l : p[i] = k
    BY <1>3 DEF Permutes
  <2>3. ASSUME NEW k \in 1..l PROVE \E i \in 1..l : g[i] = s[k]
    <3>1. PICK i \in 1..l : p[i] = k
      BY <2>2
    <3>2. g[i] = s[p[i]]
      BY <2>1
    <3>3. QED BY <3>1, <3>2
  <2>4. ASSUME NEW i \in 1..l PROVE \E k \in 1..l : g[i] = s[k]
    BY <2>1, <2>2
  <2>5. QED BY <2>1, <2>3, <2>4
<1>6. Len(g) = l /\ Len(s) = l /\ DOMAIN s = 1..l
  BY <1>1, <1>2 DEF InSomeOrder, Window
<1>7. ToSet(g) = ToSet(s)
  <2>1. \A x : x \in ToSet(g) <=> \E i \in 1..l : x = g[i]
    BY <1>5 DEF ToSet
  <2>2. \A x : x \in ToSet(s) <=> \E i \in 1..l : x = s[i]
    BY <1>6 DEF ToSet
  <2>3. \A x : x \in ToSet(g) <=> x \in ToSet(s)
    BY <1>5, <2>1, <2>2
  <2>4. QED BY <2>3
<1>8. ASSUME NEW k \in 1..l PROVE s[k].logProb = s[k].row
  <2> DEFINE i == o + k
  <2>1. i \in 1..PartSize /\ s[k] = share[w][i]
    BY <1>1, <1>4 DEF Window
  <2> HIDE DEF i
  <2>2. share[w][i].row = rows[(w - 1) * PartSize + i]
        /\ share[w][i].logProb = rows[(w - 1) * PartSize + i]
    BY <2>1, EntryIs
  <2>3. QED BY <2>1, <2>2
<1>9. ASSUME NEW i \in DOMAIN g PROVE g[i].logProb = g[i].row
  <2>1. i \in 1..l
    BY <1>5
  <2>2. PICK k \in 1..l : g[i] = s[k]
    BY <1>5, <2>1
  <2>3. QED BY <1>8, <2>2
<1>10. QED BY <1>6, <1>7, <1>9 DEF g, s

\* At an optimizer step the gradient of every rank is its mini-batch, each row once with
\* its own log-probability; in the end every row was part of one optimizer step of each
\* epoch (update_policy).
THEOREM MiniBatchesAreWhole == WorkersSpec => []WholeMiniBatches
<1>1. UpdateInv => WholeMiniBatches
  <2> SUFFICES ASSUME UpdateInv PROVE WholeMiniBatches
    OBVIOUS
  <2>1. BatchInv /\ 1 \in Ranks
    BY DEF UpdateInv, BatchInv, Ranks
  <2>2. ASSUME NEW w \in Ranks, at[w] = "step"
        PROVE  /\ Len(grads[w]) = Len(Current(w))
               /\ ToSet(grads[w]) = ToSet(Current(w))
               /\ \A i \in DOMAIN grads[w] : grads[w][i].logProb = grads[w][i].row
    <3>1. at # AllRanks("answered")
      BY <2>2 DEF AllRanks
    <3>2. phase = "update"
      <4>1. phase # "log_prob"
        <5> SUFFICES ASSUME phase = "log_prob" PROVE FALSE
          OBVIOUS
        <5>1. PICK l : l = PartSize /\ Stage(l)
          BY DEF UpdateInv
        <5>2. Passing(l)
          BY <2>2, <5>1, StageOfPlace
        <5>3. QED BY <2>2, <5>2 DEF Passing, Going
      <4>2. QED BY <2>1, <3>1, <4>1 DEF UpdateInv, BatchInv
    <3>3. PICK q \in Nat, r \in Nat : Updating(q, r)
      BY <3>2 DEF UpdateInv
    <3>4. TurnIs(q, r) /\ Stage(MiniSize(r))
      BY <3>1, <3>3 DEF Updating
    <3>5. PICK l : l = MiniSize(r)
      OBVIOUS
    <3>6. Placed(l) /\ Stage(l)
      BY <2>1, <3>2, <3>4, <3>5, PlacedInMiniBatch
    <3>7. InSomeOrder(grads[w], Current(w), MiniSize(r))
      BY <2>1, <2>2, <3>2, <3>5, <3>6, GradsAre
    <3>8. QED BY <2>1, <3>2, <3>4, <3>7, GradIsMiniBatch
  <2>3. phase = "updated" => \A r \in DOMAIN tokens : uses[r] = PpoEpochs
    BY <2>1 DEF UpdateInv, BatchInv
  <2>4. QED BY <2>2, <2>3 DEF WholeMiniBatches
<1>2. QED BY <1>1, UpdateInvariance, PTL

\* A rank that has divided its entries has as many micro-batches as it was told.
LEMMA MicrosCount ==
    ASSUME NEW l \in Nat, NEW M \in Nat \ {0}, NEW w \in Ranks, Divided(w, l, M)
    PROVE  Len(micros[w]) = M
<1> DEFINE parts == micros[w]
<1>1. Parted(parts, l, M, FALSE)
  BY DEF Divided
<1> HIDE DEF parts
<1>2. Len(parts) = M
  BY <1>1, FlatOfAny
<1>3. QED BY <1>2 DEF parts

\* In a stage somebody can go on.
LEMMA StageGoesOn ==
    ASSUME BatchInv, RankTypes, NEW l, Placed(l), Stage(l), phase \in {"log_prob", "update"}
    PROVE  \/ \E w \in Ranks : at[w] \in {"prepare", "divide"} \/ Through(w)
           \/ \E place \in {"reduce", "forward", "step", "answered"} : at = AllRanks(place)
<1> SUFFICES ASSUME \A w \in Ranks : at[w] \notin {"prepare", "divide"} /\ ~Through(w)
             PROVE  \E place \in {"reduce", "forward", "step", "answered"} :
                        at = AllRanks(place)
  OBVIOUS
<1>1. at = [w \in Ranks |-> at[w]]
  BY DEF RankTypes
<1>6. l \in Nat
  BY DEF Placed
<1>2. CASE Gathering(l)
  <2>1. \A w \in Ranks : at[w] = "reduce"
    BY <1>2 DEF Gathering
  <2>2. at = AllRanks("reduce")
    BY <1>1, <2>1 DEF AllRanks
  <2>3. QED BY <2>2
<1>3. CASE Dividing(l)
  <2>1. \A w \in Ranks : at[w] = "forward"
    BY <1>3 DEF Dividing, ReadyFor
  <2>2. at = AllRanks("forward")
    BY <1>1, <2>1 DEF AllRanks
  <2>3. QED BY <2>2
<1>4. CASE Passing(l)
  <2>1. PICK M \in Nat \ {0} : \E d \in 1..M : \A w \in Ranks : Going(w, l, M, d)
    BY <1>4 DEF Passing
  <2>2. PICK d \in 1..M : \A w \in Ranks : Going(w, l, M, d)
    BY <2>1
  <2>3. CASE d = M
    <3>1. ASSUME NEW w \in Ranks PROVE at[w] # "forward"
      <4>1. Divided(w, l, M) /\ done[w] = M
        BY <2>2, <2>3 DEF Going
      <4>2. Len(micros[w]) = M
        BY <1>6, <4>1, MicrosCount
      <4>3. QED BY <4>1, <4>2 DEF Through
    <3>2. \A w \in Ranks : at[w] = IF phase = "update" THEN "step" ELSE "answered"
      BY <2>2, <3>1 DEF Going
    <3>3. at = AllRanks(IF phase = "update" THEN "step" ELSE "answered")
      BY <1>1, <3>2 DEF AllRanks
    <3>4. QED BY <3>3
  <2>4. CASE d # M
    <3>1. \A w \in Ranks : at[w] = "forward"
      BY <2>2, <2>4 DEF Going
    <3>2. at = AllRanks("forward")
      BY <1>1, <3>1 DEF AllRanks
    <3>3. QED BY <3>2
  <2>5. QED BY <2>3, <2>4
<1>5. QED BY <1>2, <1>3, <1>4 DEF Stage

\* No assertion of the step fails and no rank waits for ever in a collective operation:
\* the ranks agree on the number of micro-batches, and each can be cut into as many
\* (rearrange_micro_batches with same_micro_num_in_dp).
THEOREM NobodyWaitsForEver == WorkersSpec => []SomebodyGoesOn
<1>1. UpdateInv => SomebodyGoesOn
  <2> SUFFICES ASSUME UpdateInv, phase \notin {"balance", "updated"} PROVE SomebodyGoesOn
    BY DEF SomebodyGoesOn
  <2>1. BatchInv /\ RankTypes /\ phase \in {"log_prob", "update"}
    BY DEF UpdateInv, BatchInv
  <2>2. CASE phase = "log_prob"
    <3>1. PICK l : l = PartSize
      OBVIOUS
    <3>2. Placed(l) /\ Stage(l)
      BY <2>1, <2>2, <3>1, PlacedInPart DEF UpdateInv
    <3>3. QED BY <2>1, <3>2, StageGoesOn DEF SomebodyGoesOn
  <2>3. CASE phase = "update"
    <3>1. PICK q \in Nat, r \in Nat : Updating(q, r)
      BY <2>3 DEF UpdateInv
    <3>2. CASE q = PpoEpochs
      BY <2>1, <3>1, <3>2 DEF Updating, SomebodyGoesOn
    <3>3. CASE q # PpoEpochs
      <4>1. PICK l : l = MiniSize(r)
        OBVIOUS
      <4>2. Placed(l) /\ Stage(l)
        BY <2>1, <2>3, <3>1, <3>3, <4>1, PlacedInMiniBatch DEF Updating
      <4>3. QED BY <2>1, <4>2, StageGoesOn DEF SomebodyGoesOn
    <3>4. QED BY <3>2, <3>3
  <2>4. QED BY <2>1, <2>2, <2>3
<1>2. QED BY <1>1, UpdateInvariance, PTL

-----------------------------------------------------------------------------
(***************************************************************************)
(* The work of the ranks.                                                  *)
(***************************************************************************)

\* The work of a row, and that of the rows of a rank in the batch.
RowWork == [r \in 1..RowTotal |-> Workload(tokens[r])]
RankWork(w) == Total(RowWork, PartOfOrder(rows, w, PartSize))
WorkIsEven ==
    \E b \in Gaps(RowWork, world) : \A v, w \in Ranks : RankWork(v) - RankWork(w) <= b

\* The batch is in the order of its rows until it is balanced, and even from then on.
EvenInv ==
    /\ phase = "balance" => rows = [i \in 1..RowTotal |-> i]
    /\ balanceBatch /\ phase # "balance" => WorkIsEven

\* A row has work.
LEMMA RowWorkType ==
    ASSUME BatchInv
    PROVE  /\ RowTotal \in Nat \ {0} /\ world \in Nat \ {0}
           /\ Chunked(RowTotal, PartSize)
           /\ tokens \in [1..RowTotal -> Nat \ {0}] /\ DOMAIN tokens = 1..RowTotal
           /\ RowWork \in [1..RowTotal -> Nat \ {0}]
<1> DEFINE n == RowTotal
<1>1. /\ n \in Nat \ {0} /\ world \in Nat \ {0} /\ n % world = 0
      /\ tokens \in [1..n -> 1..MaxTokenLen]
  BY DEF BatchInv
<1>2. MaxTokenLen \in Nat
  BY UpdateAssumption
<1>3. Chunked(n, PartSize)
  BY <1>1, ChunkSize DEF PartSize
<1> HIDE DEF n
<1>4. tokens \in [1..n -> Nat \ {0}] /\ DOMAIN tokens = 1..n
  BY <1>1, <1>2
<1>5. \A r \in 1..n : Workload(tokens[r]) \in Nat \ {0}
  BY <1>4, WorkloadIs
<1>6. RowWork \in [1..n -> Nat \ {0}]
  BY <1>5 DEF RowWork, n
<1>7. QED BY <1>1, <1>3, <1>4, <1>6 DEF n

\* The place in the batch of a row of a rank.
LEMMA PlaceInParts ==
    ASSUME NEW c \in Nat \ {0}, NEW m \in Nat \ {0}, NEW w \in 1..m, NEW j \in 1..c
    PROVE  (w - 1) * c + j \in 1..m * c
<1>1. m * c = (w - 1) * c + c + (m - w) * c
  OBVIOUS
<1>2. (m - w) * c \in Nat /\ (w - 1) * c \in Nat
  OBVIOUS
<1> DEFINE a == (w - 1) * c
           b == (m - w) * c
           d == m * c
<1>3. a \in Nat /\ b \in Nat /\ d = a + c + b
  BY <1>1, <1>2
<1> HIDE DEF a, b, d
<1>4. a + j \in 1..d
  BY <1>3
<1>5. QED BY <1>4 DEF a, d

\* _balance_batch makes it even.
LEMMA BalanceIsEven ==
    ASSUME BatchInv, rows = [i \in 1..RowTotal |-> i]
    PROVE  \E b \in Gaps(RowWork, world) : \A v, w \in Ranks :
               Total(RowWork, PartOfOrder(Rebalanced, v, PartSize))
                   - Total(RowWork, PartOfOrder(Rebalanced, w, PartSize)) <= b
<1> DEFINE n == RowTotal
           c == PartSize
           load == RowWork
           e == TRUE
           part(w) == ToSet(BalancedPartitions(load, world, TRUE)[w])
<1>1. /\ n \in Nat \ {0} /\ world \in Nat \ {0} /\ n % world = 0 /\ Chunked(n, c)
      /\ tokens \in [1..n -> Nat \ {0}] /\ DOMAIN tokens = 1..n
      /\ load \in [1..n -> Nat \ {0}] /\ Permutes(rows, n)
  BY RowWorkType DEF BatchInv
<1>2. [i \in DOMAIN rows |-> Workload(tokens[rows[i]])] = load
  BY <1>1 DEF RowWork
<1>3. rows = [i \in 1..n |-> i]
  OBVIOUS
<1>4. c \in Nat \ {0} /\ n = world * c
  BY <1>1 DEF Chunked
<1> HIDE DEF n, c, load
<1>5. PICK order : OrderedByParts(order, load, n, c)
  <2>1. \E order : OrderedByParts(order, [i \in DOMAIN rows |-> Workload(tokens[rows[i]])], n, c)
    BY <1>1, RebalancedOrder
  <2>2. QED BY <1>2, <2>1
<1>6. /\ Permutes(order, n)
      /\ Rebalanced = [i \in 1..n |-> rows[order[i]]]
      /\ \A w \in Ranks : PartOfOrder(order, w, c) = part(w)
  BY <1>5 DEF OrderedByParts
<1>7. \A i \in 1..n : Rebalanced[i] = order[i]
  <2>1. \A i \in 1..n : order[i] \in 1..n
    BY <1>6 DEF Permutes
  <2>2. QED BY <1>3, <1>6, <2>1
<1>8. ASSUME NEW w \in Ranks PROVE PartOfOrder(Rebalanced, w, c) = part(w)
  <2>1. ASSUME NEW j \in 1..c PROVE (w - 1) * c + j \in 1..n
    <3>1. (w - 1) * c + j \in 1..world * c
      BY <1>1, <1>4, PlaceInParts DEF Ranks
    <3>2. QED BY <1>4, <3>1
  <2>2. PartOfOrder(Rebalanced, w, c) = PartOfOrder(order, w, c)
    BY <1>7, <2>1 DEF PartOfOrder
  <2>3. QED BY <1>6, <2>2
<1>9. PICK b \in Gaps(load, world) : \A v, w \in 1..world :
          Total(load, part(v)) - Total(load, part(w)) <= b
  BY <1>1, PartsAreEven
<1> HIDE DEF part
<1>10. \A v, w \in Ranks :
           Total(load, PartOfOrder(Rebalanced, v, c))
               - Total(load, PartOfOrder(Rebalanced, w, c)) <= b
  BY <1>8, <1>9 DEF Ranks
<1>11. QED BY <1>9, <1>10 DEF load, c

\* The steps after that leave the batch alone.
LEMMA EvenKeeps ==
    ASSUME EvenInv, UNCHANGED <<tokens, world, balanceBatch, rows>>,
           phase' = "balance" <=> phase = "balance"
    PROVE  EvenInv'
BY DEF EvenInv, WorkIsEven, RankWork, RowWork, RowTotal, PartSize, Ranks

\* A step of the update.
LEMMA EvenStep ==
    ASSUME UpdateInv, UpdateInv', EvenInv, [WorkersNext]_<<vars, updateVars>>
    PROVE  EvenInv'
<1>1. BatchInv /\ phase' # "failed"
  BY DEF UpdateInv, BatchInv
<1>2. CASE Balance
  <2>1. /\ phase = "balance" /\ phase' = "log_prob"
        /\ tokens' = tokens /\ world' = world /\ balanceBatch' = balanceBatch
        /\ rows' = IF balanceBatch THEN Rebalanced ELSE rows
    BY <1>2 DEF Balance, step
  <2>2. rows = [i \in 1..RowTotal |-> i]
    BY <2>1 DEF EvenInv
  <2>3. RowWork' = RowWork /\ Ranks' = Ranks /\ PartSize' = PartSize
    BY <2>1 DEF RowWork, RowTotal, Ranks, PartSize
  <2>4. ASSUME balanceBatch PROVE WorkIsEven'
    <3>1. rows' = Rebalanced
      BY <2>1, <2>4
    <3>2. PICK b \in Gaps(RowWork, world) : \A v, w \in Ranks :
               Total(RowWork, PartOfOrder(Rebalanced, v, PartSize))
                   - Total(RowWork, PartOfOrder(Rebalanced, w, PartSize)) <= b
      BY <1>1, <2>2, BalanceIsEven
    <3>3. \A w : RankWork(w)' = Total(RowWork, PartOfOrder(Rebalanced, w, PartSize))
      BY <2>3, <3>1 DEF RankWork, PartOfOrder
    <3>4. Gaps(RowWork, world)' = Gaps(RowWork, world)
      BY <2>1, <2>3 DEF Gaps, Gap, Sorted
    <3>5. QED BY <2>3, <3>2, <3>3, <3>4 DEF WorkIsEven
  <2>5. QED BY <2>1, <2>4 DEF EvenInv
<1>3. CASE ~Balance
  <2>1. /\ UNCHANGED <<tokens, world, balanceBatch, rows>>
        /\ phase' = "balance" <=> phase = "balance"
    BY <1>1, <1>3 DEF WorkersNext, ExtractionGoes, RankStep, Prepare, Divide,
       AnswerLogProbs, EndMiniBatch, AllReduce, Forward, OptimizerStep, Union, Updated,
       updateVars, step, driver
  <2>2. QED BY <2>1, EvenKeeps
<1>4. QED BY <1>2, <1>3

\* The work of a rank is that of its part of the batch.
LEMMA LoadIs ==
    ASSUME BatchInv, phase # "balance", NEW w \in Ranks
    PROVE  LoadOf(w) = RankWork(w)
<1> DEFINE n == RowTotal
           c == PartSize
           s == share[w]
           load == RowWork
           h == WorkOf(s)
           place(j) == (w - 1) * c + j
           q == [j \in 1..c |-> rows[place(j)]]
<1>1. /\ n \in Nat \ {0} /\ world \in Nat \ {0} /\ Chunked(n, c)
      /\ \A r \in 1..n : load[r] = Workload(tokens[r]) /\ load[r] \in Nat
      /\ load \in [1..n -> Nat \ {0}]
  BY RowWorkType DEF RowWork
<1>2. c \in Nat \ {0}
  BY <1>1 DEF Chunked
<1>3. DOMAIN s = 1..c
  BY <1>2, ShareIs DEF Window
<1>4. \A j \in 1..c : place(j) \in 1..n /\ s[j].row = rows[place(j)]
  BY EntryIs
<1>5. /\ \A i \in 1..n : rows[i] \in 1..n
      /\ \A i, j \in 1..n : rows[i] = rows[j] => i = j
  BY DEF BatchInv, Permutes
<1>6. h = [j \in 1..c |-> Workload(tokens[s[j].row])]
  BY <1>3 DEF WorkOf, TokensOf
<1> HIDE DEF n, c, s, load, h
<1>7. \A i, j \in 1..c : place(i) = place(j) => i = j
  <2> DEFINE a == (w - 1) * c
  <2>1. a \in Int
    BY <1>1, <1>2 DEF Ranks
  <2> HIDE DEF a
  <2>2. \A i, j \in 1..c : a + i = a + j => i = j
    BY <1>2, <2>1
  <2>3. QED BY <2>2 DEF a
<1> HIDE DEF place
<1>8. q \in [1..c -> 1..n] /\ \A j \in 1..c : q[j] = rows[place(j)]
  BY <1>4, <1>5
<1>9. \A i, j \in 1..c : q[i] = q[j] => i = j
  BY <1>4, <1>5, <1>7, <1>8
<1>10. {q[j] : j \in 1..c} = PartOfOrder(rows, w, c)
  BY <1>8 DEF PartOfOrder, place
<1> HIDE DEF q
<1>11. \A j \in 1..c : h[j] = load[q[j]] /\ h[j] \in Nat
  BY <1>1, <1>4, <1>6, <1>8
<1>12. h \in [1..c -> Nat]
  BY <1>6, <1>11
<1>13. SumFunction(h) = Total(load, {q[j] : j \in 1..c})
  <2>1. n \in Nat /\ c \in Nat /\ load \in [1..n -> Nat]
    BY <1>1, <1>2
  <2>2. \A j \in 1..c : h[j] = load[q[j]]
    BY <1>11
  <2>3. q \in [1..c -> 1..n] /\ h \in [1..c -> Nat]
    BY <1>8, <1>12
  <2> DEFINE V == {q[j] : j \in 1..c}
  <2>4. ValuesAt(h, c, load, n, q, V)
    BY <1>9, <2>1, <2>2, <2>3 DEF ValuesAt
  <2> HIDE DEF V
  <2>5. SumFunction(h) = Total(load, V)
    BY <2>4, TotalOfImage
  <2>6. QED BY <2>5 DEF V
<1>14. QED BY <1>10, <1>13 DEF LoadOf, RankWork, h, s, c, load

\* With balance_batch, the work of two ranks differs by no more than that of two rows
\* which the order by work puts into one group (_balance_batch,
\* get_seqlen_balanced_partitions).
THEOREM RanksAreBalanced == WorkersSpec => []RanksBalanced
<1>1. WorkersInit => EvenInv
  <2>1. UpdateInit => EvenInv
    <3> SUFFICES ASSUME UpdateInit PROVE EvenInv
      OBVIOUS
    <3>1. PICK n \in RowCounts : tokens \in [1..n -> RowLengths]
      BY DEF UpdateInit
    <3>2. n \in Nat
      BY UpdateAssumption
    <3>3. DOMAIN tokens = 1..n /\ RowTotal = n
      BY <3>1, <3>2 DEF RowTotal
    <3>4. phase = "balance" /\ rows = [i \in 1..n |-> i]
      BY <3>3 DEF UpdateInit
    <3>5. QED BY <3>3, <3>4 DEF EvenInv
  <2>2. UpdateOver => EvenInv
    BY DEF UpdateOver, EvenInv
  <2>3. QED BY <2>1, <2>2 DEF WorkersInit
<1>2. UpdateInv /\ UpdateInv' /\ EvenInv /\ [WorkersNext]_<<vars, updateVars>> => EvenInv'
  BY EvenStep
<1>3. UpdateInv /\ EvenInv => RanksBalanced
  <2> SUFFICES ASSUME UpdateInv, EvenInv, balanceBatch, phase # "balance",
                      NEW v \in Ranks, NEW w \in Ranks
               PROVE  \E o \in 0..(RowTotal \div world) - 1 :
                          LoadOf(v) - LoadOf(w) <= Gap(RowWork, world, o)
    <3> DEFINE n == RowTotal
               all == [r \in DOMAIN tokens |-> r]
    <3>1. UpdateInv => /\ DOMAIN tokens = 1..n /\ n \in Nat
                       /\ [r \in DOMAIN tokens |-> Workload(tokens[r])] = RowWork
                       /\ DOMAIN RowWork = 1..n
      BY DEF UpdateInv, BatchInv, RowWork
    <3>2. UpdateInv => RowWork \in [1..n -> Nat]
      BY RowWorkType DEF UpdateInv
    <3> HIDE DEF n
    <3>3. UpdateInv => Sorted(RowWork) \in [1..n -> 1..n]
      BY <3>1, <3>2, WorkRises
    <3>4. UpdateInv => Sorted(RowWork) = ByWork(RowWork, all) /\ Len(Sorted(RowWork)) = n
      BY <3>1, <3>3 DEF Sorted
    <3>5. QED BY <3>1, <3>4 DEF RanksBalanced, Gap, n
  <2>1. BatchInv
    BY DEF UpdateInv
  <2>2. LoadOf(v) = RankWork(v) /\ LoadOf(w) = RankWork(w)
    BY <2>1, LoadIs
  <2>3. PICK b \in Gaps(RowWork, world) : RankWork(v) - RankWork(w) <= b
    BY DEF EvenInv, WorkIsEven
  <2>4. Len(RowWork) = RowTotal
    <3> DEFINE n == RowTotal
    <3>1. n \in Nat /\ RowWork \in [1..n -> Nat \ {0}]
      BY <2>1, RowWorkType
    <3> HIDE DEF n
    <3>2. Len(RowWork) = n
      BY <3>1
    <3>3. QED BY <3>2 DEF n
  <2>5. PICK o \in 0..(RowTotal \div world) - 1 : b = Gap(RowWork, world, o)
    BY <2>3, <2>4 DEF Gaps
  <2>6. QED BY <2>2, <2>3, <2>5
<1>4. QED BY <1>1, <1>2, <1>3, UpdateInvariance, PTL DEF WorkersSpec
=============================================================================
