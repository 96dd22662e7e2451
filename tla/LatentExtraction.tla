-------------------------- MODULE LatentExtraction --------------------------
(***************************************************************************)
(* extract_latents_distributed (main_bmc.py): the latents the task tree is *)
(* built from.  The driver reads the dataset in batches, pads each to a    *)
(* multiple of the number of workers, and makes a blocking call that deals *)
(* it out in equal chunks (Dispatch.DP_COMPUTE_PROTO): the workers answer  *)
(* in any order, the driver puts the chunks together by rank, cuts off the *)
(* padding, and at the end sorts everything by index.                      *)
(*                                                                         *)
(* Abstracted: the forward pass.  A value stands for the row it was        *)
(* computed from, so latents[i] = r says that the i-th latent is that of   *)
(* row r; `targets' stands for the targets and for their weights, which    *)
(* are treated alike.                                                      *)
(***************************************************************************)
EXTENDS Integers, Sequences, FiniteSets, SequencesExt

CONSTANTS
    Sizes,       \* the sizes of tree_dataset, its rows being 0 .. size - 1
    BatchSizes,  \* train_batch_size * latent_batch_factor
    GpuCounts    \* n_gpus_per_node, the number of workers

ASSUME LatentAssumption ==
    /\ Sizes \subseteq Nat \ {0}
    /\ BatchSizes \subseteq Nat \ {0}
    /\ GpuCounts \subseteq Nat \ {0}

VARIABLES
    size,       \* the instance, which never changes
    batchSize,
    numGpus,
    pc,         \* "load", "call", "done", "raised"
    next,       \* the first row that the dataloader has not handed out
    actual,     \* batch_size_actual
    chunks,     \* chunks[w]: what worker w was given
    answered,   \* the workers that have answered, in the order they did
    latents,    \* all_latents, concatenated; in the end, latents
    indices,    \* all_indices, concatenated
    targets     \* all_targets, concatenated; in the end, targets

instance == <<size, batchSize, numGpus>>
collected == <<latents, indices, targets>>
vars == <<instance, pc, next, actual, chunks, answered, collected>>

Workers == 1..numGpus

Init == /\ size \in Sizes
        /\ batchSize \in BatchSizes
        /\ numGpus \in GpuCounts
        /\ pc = "load"
        /\ next = 0
        /\ actual = 0
        /\ chunks = <<>>
        /\ answered = <<>>
        /\ latents = <<>>
        /\ indices = <<>>
        /\ targets = <<>>

\* pad_size
PadSize(n) == (numGpus - (n % numGpus)) % numGpus

\* The next batch of the dataloader, its last row repeated.
Padded(n) ==
    [i \in 1..n + PadSize(n) |-> IF i <= n THEN next + i - 1 ELSE next + n - 1]

\* DataProto.chunk: equal parts, in order.
Chunk(rows, w) ==
    LET share == Len(rows) \div numGpus
    IN  SubSeq(rows, (w - 1) * share + 1, w * share)

\* The driver calls the workers with the next batch; DataProto.chunk asserts
\* that it can be divided.
Call ==
    /\ pc = "load"
    /\ next < size
    /\ LET n == IF next + batchSize <= size THEN batchSize ELSE size - next
           rows == Padded(n)
       IN  /\ actual' = n
           /\ IF Len(rows) % numGpus = 0
              THEN /\ chunks' = [w \in Workers |-> Chunk(rows, w)]
                   /\ pc' = "call"
              ELSE /\ pc' = "raised"
                   /\ UNCHANGED chunks
           /\ next' = next + n
    /\ answered' = <<>>
    /\ UNCHANGED <<instance, collected>>

HasAnswered(w) == \E i \in DOMAIN answered : answered[i] = w

\* extract_latents on worker w.
Answer(w) ==
    /\ pc = "call"
    /\ ~HasAnswered(w)
    /\ answered' = Append(answered, w)
    /\ UNCHANGED <<instance, pc, next, actual, chunks, collected>>

\* The concatenation of the chunks of the workers, in the order of a sequence.
Joined(ws) == FlattenSeq([k \in DOMAIN ws |-> chunks[ws[k]]])

\* Faulty: in the order of the answers.
GatheredAsAnswered == Joined(answered)

\* ray.get keeps the order of the calls, which is that of the ranks.
Gathered == Joined([w \in Workers |-> w])

\* Faulty: the padding stays.
UnpadNothing(rows) == rows

\* [:batch_size_actual]
Unpadded(rows) == SubSeq(rows, 1, actual)

\* All workers have answered: the call returns, the results are collected.
Collect ==
    /\ pc = "call"
    /\ \A w \in Workers : HasAnswered(w)
    /\ latents' = latents \o Unpadded(Gathered)
    /\ indices' = indices \o Unpadded(Gathered)
    /\ targets' = targets \o Unpadded(Gathered)
    /\ pc' = "load"
    /\ UNCHANGED <<instance, next, actual, chunks, answered>>

\* torch.argsort: the k-th position to take is the one with k - 1 before it, in
\* the order of the numbers there (and of the positions, for equal numbers).
Before(numbers, i) ==
    {j \in DOMAIN numbers :
        numbers[j] < numbers[i] \/ (numbers[j] = numbers[i] /\ j < i)}
Argsort(numbers) ==
    [k \in DOMAIN numbers |->
        CHOOSE i \in DOMAIN numbers : Cardinality(Before(numbers, i)) = k - 1]

InOrder(values) ==
    [k \in DOMAIN indices |-> values[Argsort(indices)[k]]]

\* The dataset is read: everything is sorted by index.
Sort ==
    /\ pc = "load"
    /\ next = size
    /\ latents' = InOrder(latents)
    /\ targets' = InOrder(targets)
    /\ pc' = "done"
    /\ UNCHANGED <<instance, next, actual, chunks, answered, indices>>

Next == Call \/ (\E w \in Workers : Answer(w)) \/ Collect \/ Sort

Spec == Init /\ [][Next]_vars
-----------------------------------------------------------------------------
(***************************************************************************)
(* Properties.                                                             *)
(***************************************************************************)

\* Every variable holds a value of its kind.
LatentTypeOK ==
    /\ {size, batchSize, numGpus} \subseteq Nat \ {0}
    /\ pc \in {"load", "call", "done", "raised"}
    /\ next \in 0..size
    /\ actual \in 0..batchSize
    /\ pc = "call" => chunks \in [Workers -> Seq(0..size - 1)]
    /\ answered \in Seq(Workers)
    /\ \A values \in {latents, indices, targets} :
           values \in Seq(0..size - 1) /\ Len(values) <= size

(***************************************************************************)
(* What has been collected are the rows handed out before the current      *)
(* batch, each once and in order, although the last rows were also sent as *)
(* padding, the chunks came back in any order, and the last batch may be   *)
(* short.  In the end there is one latent and one target for each row, at  *)
(* the place of that row: BanditSampler takes the first num_arms of them   *)
(* for the training prompts, and row i for arm i.  No assertion of         *)
(* DataProto.chunk fails on the way.                                       *)
(***************************************************************************)
LatentsMatch ==
    /\ pc # "raised"
    /\ pc = "load" => indices = [i \in 1..next |-> i - 1]
    /\ pc = "done" => /\ latents = [i \in 1..size |-> i - 1]
                      /\ targets = [i \in 1..size |-> i - 1]
=============================================================================
