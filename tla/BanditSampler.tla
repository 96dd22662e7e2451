---------------------------- MODULE BanditSampler ---------------------------
(***************************************************************************)
(* BanditSampler.sample_batch (main_bmc.py): one call builds one training  *)
(* batch.  While the round-robin pass over the prompts is unfinished it    *)
(* takes prompts that were never trained on; afterwards it walks the task  *)
(* tree from the root once per prompt, and keeps, in available_counts, how *)
(* many prompts of each subtree the batch may still take; without a tree   *)
(* it takes the BatchSize best scores over all prompts.                    *)
(*                                                                         *)
(* The Thompson scores are fresh Gaussian noise around the posterior, so   *)
(* any candidate may win an argmax or a topk: every selection is an \E.    *)
(* A ValueError leaves fit() and ends the run: pc = "raised" is final.     *)
(***************************************************************************)
EXTENDS TaskTree, Sequences

CONSTANTS
    BatchSize,       \* data.train_batch_size
    RoundRobinInit,  \* algorithm.bmc.round_robin_init (and algo_type bmc)
    UseTree          \* algorithm.bmc.ltt.enable

ASSUME SamplerAssumption ==
    /\ BatchSize \in Nat \ {0}
    /\ RoundRobinInit \in BOOLEAN
    /\ UseTree \in BOOLEAN

VARIABLES
    pc,         \* where the driver is: "idle" (in fit, between calls),
                \* "descend" (the while loop over levels), "climb" (the loop
                \* of decrement_batch_availability), "returned", "raised"
    sampled,    \* self.sampled, as the set of arms that are True
    samples,    \* the batch under construction, samples[0 .. b-1]
    available,  \* self.batch_available_prompt, as a set
    counts,     \* self.available_counts
    level,      \* the node the descent is at
    node,       \* the node the climb is at
    error       \* which ValueError was raised, "none" before

vars == <<pc, sampled, samples, available, counts, level, node, error>>

Batch == {samples[i] : i \in DOMAIN samples}

\* The sequences that list a finite set, each element once.
Orderings(S) ==
    {s \in [1..Cardinality(S) -> S] :
        \A i, j \in 1..Cardinality(S) : s[i] = s[j] => i = j}

\* The sequences of k different elements of S, that a torch.randperm or a
\* topk over random scores can select.
OrderedSubsets(k, S) ==
    UNION {Orderings(T) : T \in {T \in SUBSET S : Cardinality(T) = k}}

AtMost(k, S) == IF Cardinality(S) < k THEN Cardinality(S) ELSE k

(***************************************************************************)
(* __init__: nothing sampled yet; the per-batch structures are created by  *)
(* the first tree batch.                                                   *)
(***************************************************************************)
Init == /\ pc = "idle"
        /\ sampled = {}
        /\ samples = <<>>
        /\ available = Arms
        /\ counts = [n \in Nodes |-> 0]
        /\ level = Root
        /\ node = Root
        /\ error = "none"

RoundRobinPending == RoundRobinInit /\ sampled # Arms

\* Faulty: the round-robin draw does not look at the flags.
RoundRobinAny ==
    /\ pc = "idle"
    /\ RoundRobinPending
    /\ samples' \in OrderedSubsets(AtMost(BatchSize, Arms), Arms)
    /\ pc' = "returned"
    /\ UNCHANGED <<sampled, available, counts, level, node, error>>

(***************************************************************************)
(* sample_batch takes the round-robin branch: BatchSize unsampled arms if  *)
(* there are that many, else all of them followed by sampled arms that     *)
(* fill up the batch.  torch slices silently: with fewer prompts than      *)
(* BatchSize the batch is short.                                           *)
(***************************************************************************)
RoundRobin ==
    /\ pc = "idle"
    /\ RoundRobinPending
    /\ LET fresh == Arms \ sampled
           rest  == AtMost(BatchSize - Cardinality(fresh), sampled)
       IN  IF Cardinality(fresh) >= BatchSize
           THEN samples' \in OrderedSubsets(BatchSize, fresh)
           ELSE \E f \in Orderings(fresh), e \in OrderedSubsets(rest, sampled) :
                   samples' = f \o e
    /\ pc' = "returned"
    /\ UNCHANGED <<sampled, available, counts, level, node, error>>

(***************************************************************************)
(* initialize_batch_availability: every prompt is available, every node    *)
(* counts its descendant prompts (initialize_subtree_availability).        *)
(***************************************************************************)
InitialCounts == [n \in Nodes |-> Cardinality(Under[n])]

\* Faulty: the counts are set up once, not for every batch.
StartTreeStale ==
    /\ pc = "idle"
    /\ ~RoundRobinPending
    /\ UseTree
    /\ available' = Arms
    /\ counts' = IF \A n \in Nodes : counts[n] = 0 THEN InitialCounts ELSE counts
    /\ samples' = <<>>
    /\ level' = Root
    /\ pc' = "descend"
    /\ UNCHANGED <<sampled, node, error>>

\* sample_batch takes the tree branch; it raises at once if the tree holds
\* too few prompts.
StartTree ==
    /\ pc = "idle"
    /\ ~RoundRobinPending
    /\ UseTree
    /\ available' = Arms
    /\ counts' = InitialCounts
    /\ samples' = <<>>
    /\ level' = Root
    /\ IF counts'[Root] < BatchSize
       THEN pc' = "raised" /\ error' = "not enough available prompts"
       ELSE pc' = "descend" /\ UNCHANGED error
    /\ UNCHANGED <<sampled, node>>

\* Faulty: all children stay open.
AllChildren(n) == Children[n]

\* The children of an internal node that still have available descendants,
\* according to the counts.
OpenChildren(n) == {c \in Children[n] : counts[c] > 0}

\* Faulty: a dead end starts the descent again instead of raising.
DescendAgain ==
    /\ pc = "descend"
    /\ level \in Internal
    /\ level' \in IF OpenChildren(level) # {} THEN OpenChildren(level) ELSE {Root}
    /\ UNCHANGED <<pc, sampled, samples, available, counts, node, error>>

\* An internal level: Thompson sampling over the open children.
Descend ==
    /\ pc = "descend"
    /\ level \in Internal
    /\ \/ /\ OpenChildren(level) # {}
          /\ level' \in OpenChildren(level)
          /\ UNCHANGED <<pc, error>>
       \/ /\ OpenChildren(level) = {}
          /\ pc' = "raised"
          /\ error' = "no available children"
          /\ UNCHANGED level
    /\ UNCHANGED <<sampled, samples, available, counts, node>>

(***************************************************************************)
(* A leaf: Thompson sampling over its available prompts, then the first    *)
(* half of decrement_batch_availability (the prompt and its own cluster).  *)
(* The two emptiness checks of the code raise.                             *)
(***************************************************************************)
PickPrompt ==
    /\ pc = "descend"
    /\ level \in Leaves
    /\ LET open == Prompts(level) \cap available
       IN  IF open = {}
           THEN /\ pc' = "raised"
                /\ error' = IF Prompts(level) = {} THEN "no train prompts"
                                                   ELSE "no available prompts"
                /\ UNCHANGED <<samples, available, counts, node>>
           ELSE \E p \in open :
                /\ samples' = Append(samples, p)
                /\ available' = available \ {p}
                /\ counts' = [counts EXCEPT ![level] = @ - 1]
                /\ node' = level
                /\ pc' = "climb"
                /\ UNCHANGED error
    /\ UNCHANGED <<sampled, level>>

\* while node in self.child_to_parent_map: one turn of the loop.
Climb ==
    /\ pc = "climb"
    /\ node \in DOMAIN ChildToParent
    /\ node' = ChildToParent[node]
    /\ counts' = [counts EXCEPT ![ChildToParent[node]] = @ - 1]
    /\ UNCHANGED <<pc, sampled, samples, available, level, error>>

\* Faulty: the batch is one prompt short.
ClimbDoneEarly ==
    /\ pc = "climb"
    /\ node \notin DOMAIN ChildToParent
    /\ level' = Root
    /\ pc' = IF Len(samples) >= BatchSize - 1 THEN "returned" ELSE "descend"
    /\ UNCHANGED <<sampled, samples, available, counts, node, error>>

\* The climb is over: the next prompt of the batch, or the end of the call.
ClimbDone ==
    /\ pc = "climb"
    /\ node \notin DOMAIN ChildToParent
    /\ level' = Root
    /\ pc' = IF Len(samples) = BatchSize THEN "returned" ELSE "descend"
    /\ UNCHANGED <<sampled, samples, available, counts, node, error>>

\* Without a tree: topk over the scores of all arms; torch.topk raises when
\* there are fewer than BatchSize.
TopK ==
    /\ pc = "idle"
    /\ ~RoundRobinPending
    /\ ~UseTree
    /\ IF Cardinality(Arms) < BatchSize
       THEN /\ pc' = "raised"
            /\ error' = "topk out of range"
            /\ UNCHANGED samples
       ELSE /\ pc' = "returned"
            /\ samples' \in OrderedSubsets(BatchSize, Arms)
            /\ UNCHANGED error
    /\ UNCHANGED <<sampled, available, counts, level, node>>

\* fit() trains on the batch and marks its arms (bmc_ray_trainer.py, both
\* with the curriculum on and with it off); then it calls again.
Train ==
    /\ pc = "returned"
    /\ sampled' = sampled \cup Batch
    /\ samples' = <<>>
    /\ pc' = "idle"
    /\ UNCHANGED <<available, counts, level, node, error>>

\* A batch that sample_batch makes in one go.
FlatBatch == IF RoundRobinPending THEN RoundRobin ELSE TopK

SampleBatch == StartTree \/ Descend \/ PickPrompt \/ Climb \/ ClimbDone
                 \/ FlatBatch

Next == SampleBatch \/ Train

Spec == Init /\ [][Next]_vars

\* The driver is one sequential thread that runs until it raises.
FairSpec == Spec /\ WF_vars(Next)
-----------------------------------------------------------------------------
(***************************************************************************)
(* Properties.                                                             *)
(***************************************************************************)

\* Prompts of the subtree of n that the batch may still take.
OpenPrompts(n) == Under[n] \cap available

\* Node n is the parent of leaves only.
AboveLeaves(n) == n \in Internal /\ Children[n] \subseteq Leaves

Errors == {"none", "not enough available prompts", "no available children",
           "no train prompts", "no available prompts", "topk out of range"}

\* Every variable holds a value of its kind.
TypeOK ==
    /\ pc \in {"idle", "descend", "climb", "returned", "raised"}
    /\ sampled \subseteq Arms
    /\ samples \in Seq(Arms)
    /\ available \subseteq Arms
    /\ counts \in [Nodes -> Int]
    /\ level \in Nodes
    /\ node \in Nodes
    /\ error \in Errors

\* No batch, finished or not, holds a prompt twice (sample_batch prints
\* "Duplicates detected in tree" if it does).
BatchUnique ==
    \A i, j \in DOMAIN samples : samples[i] = samples[j] => i = j

\* The count of a node never hides a prompt: whatever the batch has taken, a
\* subtree with an available prompt has a positive count and so stays open.
CountsNeverHide == \A n \in Nodes : pc \in {"descend", "climb"} =>
                       counts[n] >= Cardinality(OpenPrompts(n))

\* Between two picks the count of a leaf, and of a node with only leaves
\* below it, is exact: the climb reaches these.
LowCountsExact ==
    pc = "descend" => \A n \in Nodes :
        n \in Leaves \/ AboveLeaves(n) => counts[n] = Cardinality(OpenPrompts(n))

(***************************************************************************)
(* Where a descent can fail once the check at the start of the call has    *)
(* passed: never at a leaf, which always has a prompt left, and at an      *)
(* internal node only if that is below the root and has an internal child, *)
(* because the climb keeps the low counts exact.  So in a tree whose       *)
(* internal nodes nest only once, sample_batch cannot fail after that      *)
(* check.                                                                  *)
(***************************************************************************)
StuckOnlyBetween ==
    /\ error \notin {"no train prompts", "no available prompts"}
    /\ error = "no available children" =>
           level \in Internal \ {Root} /\ ~AboveLeaves(level)

\* A round-robin batch repeats an already sampled prompt only when it also
\* finishes the pass.
RoundRobinFresh ==
    pc = "returned" /\ RoundRobinPending =>
        Batch \cap sampled = {} \/ sampled \cup Batch = Arms

\* Every call ends: with a batch, or with an error.
CallEnds == pc # "returned" ~> pc \in {"returned", "raised"}

\* The comment in sample_batch, "internal node: only keep children with
\* available descendants".
OpenChildrenHavePrompts ==
    pc = "descend" /\ level \in Internal =>
        \A c \in OpenChildren(level) : OpenPrompts(c) # {}

\* sample_batch implements the batch it promises.
Status == CASE pc = "returned" -> "ready"
            [] pc = "raised"   -> "failed"
            [] OTHER           -> "building"

Promise == INSTANCE UniqueBatch WITH batch <- Batch, status <- Status

DeliversUniqueBatch == Promise!Spec
=============================================================================
