------------------------------- MODULE FitLoop ------------------------------
(***************************************************************************)
(* The training loop of RayBMCTrainer.fit (bmc_ray_trainer.py) around the  *)
(* sampler: each step asks sample_batch for a batch, updates the belief of *)
(* every arm of it, one arm after the other, ages all arms and writes the  *)
(* histories.                                                              *)
(*                                                                         *)
(* It composes with BanditSampler: the sampler's actions are taken as they *)
(* are, and Update and EndStep refine its action Train.  pc = "returned"   *)
(* is the stretch of fit() between sample_batch and the next call.         *)
(*                                                                         *)
(* Abstracted: rollouts, rewards and the policy update; mu and sigma2 (no  *)
(* branch reads them).  lambda_, the pseudo-count of a belief, is counted  *)
(* in units of which One make 1.0; the surprise that decays it is          *)
(* arbitrary.  Checkpoints are in the module TrainingRun.                  *)
(***************************************************************************)
EXTENDS BanditSampler

CONSTANTS
    One,               \* lambda_ = 1.0, in units
    LambdaMin,         \* algorithm.bmc.lambda_min, in units
    LambdaMax,         \* algorithm.bmc.lambda_max, in units
    TotalSteps         \* self.total_training_steps

ASSUME FitLoopAssumption ==
    /\ One \in Nat \ {0}
    /\ LambdaMin \in Nat
    /\ LambdaMax \in Nat
    /\ LambdaMin <= LambdaMax
    /\ 2 * One <= LambdaMax
    /\ TotalSteps \in Nat \ {0}

VARIABLES
    curriculum,   \* algorithm.bmc.enable_curriculum, which never changes
    globalSteps,  \* self.global_steps
    pos,          \* how many arms of the batch have been updated
    staleness,    \* sampler.staleness
    lambda,       \* sampler.lambda_
    completion,   \* self.round_robin_completion_step, 0 for None
    outcome,      \* of fit(): "running", "index error", "finished"
    pulls,        \* history: how often an arm was trained on
    gentle,       \* history: how often it got the round-robin update
    lastPull      \* history: the last step that trained on it, 0 before

loopVars == <<curriculum, globalSteps, pos, staleness, lambda, completion, outcome,
              pulls, gentle, lastPull>>
fitVars == <<vars, loopVars>>

FitInit ==
    /\ Init
    /\ curriculum \in BOOLEAN
    /\ globalSteps = 1
    /\ pos = 0
    /\ staleness = [a \in Arms |-> 0]
    /\ lambda = [a \in Arms |-> One]
    /\ completion = 0
    /\ outcome = "running"
    /\ pulls = [a \in Arms |-> 0]
    /\ gentle = [a \in Arms |-> 0]
    /\ lastPull = [a \in Arms |-> 0]

Clamp(x, low, high) == IF x < low THEN low ELSE IF x > high THEN high ELSE x

\* indices = sampler.sample_batch(), one of the sampler's steps.
Sample == SampleBatch /\ UNCHANGED loopVars

\* Faulty: the pass counts as completed only from the next step on.
CompletedEarlier == ~RoundRobinInit \/ completion # 0

\* ROUND_ROBIN_COMPLETED, evaluated for each arm before the arm is flagged.
RoundRobinCompleted == ~RoundRobinInit \/ sampled = Arms

\* The pseudo-counts a full update may leave: any surprise decays lambda_,
\* the decayed value is clamped, and so is the sum with the new evidence.
Decayed(l) == {Clamp(d, LambdaMin, LambdaMax) : d \in 0..l}
AfterFull(l) == {Clamp(d + One, LambdaMin, LambdaMax) : d \in Decayed(l)}

(***************************************************************************)
(* The update of the next arm of the batch (the keys of sampler_scores are *)
(* in batch order).  During the round-robin pass lambda_ just grows by     *)
(* 1.0.  Without the curriculum the arm is only flagged.                   *)
(***************************************************************************)
Update ==
    /\ pc = "returned"
    /\ outcome = "running"
    /\ pos < Len(samples)
    /\ LET a == samples[pos + 1] IN
        /\ pos' = pos + 1
        /\ sampled' = sampled \cup {a}
        /\ pulls' = [pulls EXCEPT ![a] = @ + 1]
        /\ lastPull' = [lastPull EXCEPT ![a] = globalSteps]
        /\ staleness' = IF curriculum THEN [staleness EXCEPT ![a] = -1]
                                      ELSE staleness
        /\ \/ /\ curriculum /\ RoundRobinCompleted
              /\ \E l \in AfterFull(lambda[a]) : lambda' = [lambda EXCEPT ![a] = l]
              /\ UNCHANGED gentle
           \/ /\ curriculum /\ ~RoundRobinCompleted
              /\ lambda' = [lambda EXCEPT ![a] = @ + One]
              /\ gentle' = [gentle EXCEPT ![a] = @ + 1]
           \/ /\ ~curriculum
              /\ UNCHANGED <<lambda, gentle>>
    /\ UNCHANGED <<pc, samples, available, counts, level, node, error,
                   curriculum, globalSteps, completion, outcome>>

\* Faulty: the last arm of the batch is left out.
AllButLastUpdated == pos + 1 >= Len(samples)

AllUpdated == pos = Len(samples)

\* Faulty: the arms of the batch do not age.
AgedOthers == [a \in Arms |-> IF a \in Batch THEN staleness[a] ELSE staleness[a] + 1]

\* staleness += 1, of all arms at once.
Aged == [a \in Arms |-> staleness[a] + 1]

\* The histories are created with total_training_steps rows, 0 the first.
HistoryRows == 0..TotalSteps - 1

(***************************************************************************)
(* All arms are updated.  fit() ages every arm, notes the end of the       *)
(* round-robin pass and writes row global_steps of the histories: numpy    *)
(* raises if there is no such row.  Then it returns if this was the last   *)
(* step, else goes on.                                                     *)
(***************************************************************************)
EndStep ==
    /\ pc = "returned"
    /\ outcome = "running"
    /\ AllUpdated
    /\ staleness' = IF curriculum THEN Aged ELSE staleness
    /\ completion' = IF /\ curriculum /\ RoundRobinInit
                        /\ sampled = Arms /\ completion = 0
                     THEN globalSteps ELSE completion
    /\ outcome' = IF globalSteps \notin HistoryRows THEN "index error"
                  ELSE IF globalSteps >= TotalSteps THEN "finished"
                  ELSE "running"
    /\ IF outcome' = "running"
       THEN pc' = "idle" /\ samples' = <<>> /\ pos' = 0
              /\ globalSteps' = globalSteps + 1
       ELSE UNCHANGED <<pc, samples, pos, globalSteps>>
    /\ UNCHANGED <<sampled, available, counts, level, node, error,
                   curriculum, lambda, pulls, gentle, lastPull>>

FitNext == Sample \/ Update \/ EndStep

FitSpec == FitInit /\ [][FitNext]_fitVars /\ WF_fitVars(FitNext)
-----------------------------------------------------------------------------
(***************************************************************************)
(* Properties.                                                             *)
(***************************************************************************)

\* The number of steps a round-robin pass takes.
PassSteps == (Cardinality(Arms) + BatchSize - 1) \div BatchSize

\* Every variable holds a value of its kind.
FitTypeOK ==
    /\ TypeOK
    /\ curriculum \in BOOLEAN
    /\ globalSteps \in 1..TotalSteps
    /\ pos \in 0..Len(samples)
    /\ staleness \in [Arms -> -1..TotalSteps]
    /\ lambda \in [Arms -> Nat]
    /\ completion \in 0..TotalSteps
    /\ outcome \in {"running", "index error", "finished"}
    /\ \A history \in {pulls, gentle, lastPull} :
           history \in [Arms -> 0..TotalSteps]

(***************************************************************************)
(* Each arm gets the gentle round-robin update exactly once, and as its    *)
(* first: also in the batch that ends the pass, which mixes fresh arms     *)
(* with arms already sampled while the completion test is evaluated anew   *)
(* for every arm.                                                          *)
(***************************************************************************)
GentleOnceAndFirst ==
    RoundRobinInit /\ curriculum =>
        \A a \in Arms : gentle[a] = IF pulls[a] = 0 THEN 0 ELSE 1

\* lambda_ never exceeds lambda_max, although the round-robin update does not
\* clamp it.
LambdaBounded == \A a \in Arms : lambda[a] <= LambdaMax

\* Between steps, the staleness of an arm is the number of steps since the
\* last one that trained on it.
StalenessIsAge ==
    curriculum /\ pc = "idle" =>
        \A a \in Arms : staleness[a] = (globalSteps - 1) - lastPull[a]

\* The step noted as the end of the round-robin pass is the earliest possible.
PassIsShortest == completion # 0 => completion = PassSteps

\* The pass does end, curriculum or not, if the run is long enough for it.
PassEnds ==
    RoundRobinInit /\ TotalSteps >= PassSteps => <>(sampled = Arms)

(***************************************************************************)
(* fit() implements the loop that BanditSampler assumes around it: seen    *)
(* from the sampler, all arms of a batch are marked at once, when the step *)
(* ends.  Until then an arm first pulled in this step counts as unmarked.  *)
(***************************************************************************)
MarkedBefore ==
    IF pc = "returned"
    THEN sampled \ {samples[i] : i \in {i \in 1..pos : pulls[samples[i]] = 1}}
    ELSE sampled

Core == INSTANCE BanditSampler WITH sampled <- MarkedBefore

DrivesSampler == Core!Spec

(***************************************************************************)
(* The comment at the writes, "write priority scores and selection stats   *)
(* to files for checkpointing and analysis", and the branch that returns   *)
(* after the last step: every step of the run gets its row.                *)
(***************************************************************************)
EveryStepRecorded == outcome # "index error"
=============================================================================
