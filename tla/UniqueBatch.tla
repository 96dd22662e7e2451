---------------------------- MODULE UniqueBatch -----------------------------
(***************************************************************************)
(* What sample_batch promises to the training loop: it builds up a batch   *)
(* of prompts, none of them twice, and either hands over one of exactly    *)
(* BatchSize prompts or raises, once and for good.                         *)
(***************************************************************************)
EXTENDS Naturals, FiniteSets

CONSTANTS
    Arms,        \* the training prompts
    BatchSize    \* data.train_batch_size

VARIABLES
    batch,       \* the prompts chosen so far
    status       \* "building", "ready" (handed over) or "failed" (raised)

vars == <<batch, status>>

Init == batch = {} /\ status = "building"

\* One more prompt, that the batch does not hold yet.
Grow == /\ status = "building"
        /\ Cardinality(batch) < BatchSize
        /\ \E a \in Arms \ batch : batch' = batch \cup {a}
        /\ UNCHANGED status

\* Hand over a full batch.
Deliver == /\ status = "building"
           /\ batch' \in {S \in SUBSET Arms : Cardinality(S) = BatchSize}
           /\ batch \subseteq batch'
           /\ status' = "ready"

\* The training step is over; the next call starts from an empty batch.
Take == status = "ready" /\ batch' = {} /\ status' = "building"

Fail == status = "building" /\ status' = "failed" /\ UNCHANGED batch

Next == Grow \/ Deliver \/ Take \/ Fail

Spec == Init /\ [][Next]_vars
=============================================================================
