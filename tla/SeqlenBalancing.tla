-------------------------- MODULE SeqlenBalancing --------------------------
(***************************************************************************)
(* verl/utils/seqlen_balancing.py: how the rows of a batch are divided     *)
(* among ranks, and the rows of a rank among micro-batches, so that each   *)
(* part has about the same work.  Pure operators.  Rows are numbered from  *)
(* 1, the sequence work has the workload of each.                          *)
(***************************************************************************)
EXTENDS Integers, Sequences, FiniteSets, SequencesExt

\* calculate_workload, of a row of l tokens.
Workload(l) == 24576 * l + l * l

\* Python compares tuples lexicographically; shorter keys are filled with 0.
Less(a, b) ==
    \/ a[1] < b[1]
    \/ a[1] = b[1] /\ a[2] < b[2]
    \/ a[1] = b[1] /\ a[2] = b[2] /\ a[3] < b[3]

\* sorted, which is stable: key[i] is the key of s[i], and the k-th element is the
\* one with k - 1 before it.
SortedBy(s, key) ==
    LET before(i) ==
            {j \in DOMAIN s : Less(key[j], key[i]) \/ (key[j] = key[i] /\ j < i)}
        ranks == {<<Cardinality(before(i)) + 1, i>> : i \in DOMAIN s}
        place(k) == (CHOOSE r \in ranks : r[1] = k)[2]
    IN  SubSeq([k \in DOMAIN s |-> s[place(k)]], 1, Len(s))

\* A Set of the algorithm: rows, in the order they were added, and their work.
NoRows == [sum |-> 0, items |-> <<>>]
OneRow(work, r) == [sum |-> work[r], items |-> <<r>>]
Joint(a, b) == [sum |-> a.sum + b.sum, items |-> a.items \o b.items]

\* Set.__lt__ compares the sums, then the lengths, then the rows; two Sets never
\* share a row.
Weight(a) == <<a.sum, Len(a.items), IF a.items = <<>> THEN 0 ELSE a.items[1]>>
Lighter(a, b) == Less(Weight(a), Weight(b))

\* A State of the algorithm: k Sets, the heaviest first.
State(sets) ==
    SortedBy(sets, [i \in DOMAIN sets |-> LET w == Weight(sets[i])
                                          IN  <<-w[1], -w[2], -w[3]>>])

\* Faulty: heaviest with heaviest.
MergedInOrder(s, t) == State([i \in DOMAIN s |-> Joint(s[i], t[i])])

\* State.merge: the heaviest Set of one with the lightest of the other.
Merged(s, t) == State([i \in DOMAIN s |-> Joint(s[i], t[Len(s) + 1 - i])])

\* State.__lt__: the larger spread first, then the heavier Set.
Spread(s) == s[1].sum - s[Len(s)].sum
PopsBefore(s, t) ==
    \/ Spread(s) > Spread(t)
    \/ Spread(s) = Spread(t) /\ Lighter(t[1], s[1])
Popped(heap) == CHOOSE s \in heap : \A t \in heap \ {s} : PopsBefore(s, t)

\* The rows by their work.
ByWork(work, items) ==
    SortedBy(items, [i \in DOMAIN items |-> <<work[items[i]], items[i], 0>>])

\* The States on the heap at first: one for each k rows of similar work, or one
\* for each row.
FirstStates(work, k, equalSize) ==
    LET sorted == ByWork(work, [i \in DOMAIN work |-> i])
    IN  IF equalSize
        THEN {State([i \in 1..k |-> OneRow(work, sorted[k * o + i])]) :
                 o \in 0..(Len(work) \div k) - 1}
        ELSE {[i \in 1..k |-> IF i = 1 THEN OneRow(work, r) ELSE NoRows] :
                 r \in DOMAIN work}

\* One turn of karmarkar_karp: the two first States are merged.
AfterMerge(heap) ==
    LET s == Popped(heap)
        t == Popped(heap \ {s})
    IN  (heap \ {s, t}) \cup {Merged(s, t)}

\* karmarkar_karp: merge until one State is left.
KarmarkarKarp(work, k, equalSize) ==
    LET first == FirstStates(work, k, equalSize)
        turns == Cardinality(first) - 1
        heap[n \in 0..turns] == IF n = 0 THEN first ELSE AfterMerge(heap[n - 1])
        last == Popped(heap[turns])
    IN  [i \in 1..k |-> last[i].items]

\* The assertions of get_seqlen_balanced_partitions and karmarkar_karp.
CanDivide(work, k, equalSize) ==
    Len(work) >= k /\ (equalSize => Len(work) % k = 0)
Divides(work, k, equalSize, parts) ==
    /\ Len(parts) = k
    /\ \A i \in 1..k : parts[i] # <<>>
    /\ UNION {ToSet(parts[i]) : i \in 1..k} = DOMAIN work
    /\ equalSize => \A i \in 1..k : Len(parts[i]) * k = Len(work)

Ascending(items) == SortedBy(items, [i \in DOMAIN items |-> <<items[i], 0, 0>>])

\* get_seqlen_balanced_partitions
BalancedPartitions(work, k, equalSize) ==
    LET parts == KarmarkarKarp(work, k, equalSize)
    IN  [i \in DOMAIN parts |-> Ascending(parts[i])]

\* s[::2] and s[1::2]
EvenPlaces(s) == [i \in 1..(Len(s) + 1) \div 2 |-> s[2 * i - 1]]
OddPlaces(s) == [i \in 1..Len(s) \div 2 |-> s[2 * i]]

\* The order of the micro-batches in rearrange_micro_batches: the light ones at
\* both ends.
MicroBatchOrder(work, parts) ==
    LET total(p) == SumFunction([i \in DOMAIN p |-> work[p[i]]])
        sorted == SortedBy(parts, [i \in DOMAIN parts |->
                                      <<-total(parts[i]), -parts[i][1], 0>>])
    IN  Reverse(EvenPlaces(sorted)) \o OddPlaces(sorted)

\* ceildiv
CeilDiv(a, b) == (a + b - 1) \div b

\* The number of micro-batches that a rank would take on its own: tokens has
\* the length of each row.
MicroBatchesFor(tokens, maxTokenLen) ==
    LET needed == CeilDiv(SumFunction(tokens), maxTokenLen)
    IN  IF Len(tokens) < needed THEN Len(tokens) ELSE needed

\* Faulty: applied once more instead of inverted.
RestoredForward(data, parts) ==
    LET indices == FlattenSeq(parts)
    IN  [i \in DOMAIN data |-> data[indices[i]]]

\* restore_dynamic_batch
Restored(data, parts) ==
    LET indices == FlattenSeq(parts)
    IN  [i \in DOMAIN data |-> data[CHOOSE j \in DOMAIN indices : indices[j] = i]]
=============================================================================
