----------------------------- MODULE MCWorkers -----------------------------
(***************************************************************************)
(* The two jobs the driver gives to the worker group: the extraction of    *)
(* the latents, before the first step, and the update of the policy, in    *)
(* every step.  They share nothing but the workers, so a behaviour shows   *)
(* one of them, and the other has ended, for a single row.                 *)
(***************************************************************************)
EXTENDS LatentExtraction, PolicyUpdate

\* The extraction of one row has ended.
ExtractionOver ==
    /\ size = 1
    /\ batchSize = 1
    /\ numGpus = 1
    /\ pc = "done"
    /\ next = 1
    /\ actual = 1
    /\ chunks = <<<<0>>>>
    /\ answered = <<1>>
    /\ latents = <<0>>
    /\ indices = <<0>>
    /\ targets = <<0>>

\* The update with one row of one token has ended.
UpdateOver ==
    /\ tokens = <<1>>
    /\ world = 1
    /\ balanceBatch = FALSE
    /\ dynamicBsz = FALSE
    /\ phase = "updated"
    /\ rows = <<1>>
    /\ oldLogProbs = <<1>>
    /\ share = <<<<[row |-> 1, logProb |-> 1]>>>>
    /\ at = <<"answered">>
    /\ turn = <<PpoEpochs + 1>>
    /\ count = <<0>>
    /\ micros = <<<<<<1>>>>>>
    /\ done = <<1>>
    /\ outputs = <<<<1>>>>
    /\ grads = share
    /\ uses = <<PpoEpochs>>

WorkersInit == (Init /\ UpdateOver) \/ (ExtractionOver /\ UpdateInit)

ExtractionGoes == UNCHANGED updateVars
UpdateGoes == phase # "failed" /\ UNCHANGED vars

WorkersNext ==
    \/ Call /\ ExtractionGoes
    \/ (\E w \in Workers : Answer(w)) /\ ExtractionGoes
    \/ Collect /\ ExtractionGoes
    \/ Sort /\ ExtractionGoes
    \/ Balance /\ UpdateGoes
    \/ (\E w \in Ranks : RankStep(w)) /\ UpdateGoes
    \/ AllReduce /\ UpdateGoes
    \/ Forward /\ UpdateGoes
    \/ OptimizerStep /\ UpdateGoes
    \/ Union /\ UpdateGoes
    \/ Updated /\ UpdateGoes

WorkersSpec == WorkersInit /\ [][WorkersNext]_<<vars, updateVars>>

\* Every variable of both jobs holds a value of its kind.
TypeOK == LatentTypeOK /\ UpdateTypeOK
=============================================================================
