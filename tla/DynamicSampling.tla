--------------------------- MODULE DynamicSampling --------------------------
(***************************************************************************)
(* The DAPO baseline, RayDAPOTrainer.fit (dapo_star_ray_trainer.py): with  *)
(* filter_groups on, the prompts whose answers all got the same reward are *)
(* dropped, and generation batches are accumulated until train_batch_size  *)
(* prompts are left.  The dataloader hands out a limited number of         *)
(* generation batches, so the run may also end between two steps.  A       *)
(* process that dies is started again and resumes from the latest          *)
(* checkpoint (RayPPOTrainer._load_checkpoint, resume_mode=auto).          *)
(*                                                                         *)
(* Abstracted: answers and rewards (any subset of the prompts may have     *)
(* mixed rewards), validation, and what an update computes: `updates'      *)
(* counts how often the policy was updated.  A prompt is named by the      *)
(* generation batch it came in and its place there, as its uid is fresh.   *)
(* A checkpoint is written at once; TrainingRun has the crashes inside it. *)
(***************************************************************************)
EXTENDS Integers, Sequences, FiniteSets

CONSTANTS
    Limits,          \* the values of filter_groups.max_num_gen_batches
    TrainBatchSize,  \* data.train_batch_size, in prompts
    GenBatchSize,    \* data.gen_batch_size, in prompts
    Rollouts,        \* actor_rollout_ref.rollout.n
    Epochs,          \* trainer.total_epochs
    EpochLength,     \* len(self.train_dataloader)
    TotalSteps,      \* self.total_training_steps
    SaveFreq,        \* trainer.save_freq
    MaxRestarts      \* bound: how often the process dies

ASSUME DynamicAssumption ==
    /\ Limits \subseteq Int
    /\ TrainBatchSize \in Nat \ {0}
    /\ GenBatchSize \in Nat \ {0}
    /\ Rollouts \in Nat \ {0}
    /\ Epochs \in Nat \ {0}
    /\ EpochLength \in Nat \ {0}
    /\ TotalSteps \in Nat \ {0}
    /\ SaveFreq \in Int
    /\ MaxRestarts \in Nat

VARIABLES
    filterGroups,      \* algorithm.filter_groups.enable, which never changes
    maxNumGenBatches,  \* and its max_num_gen_batches
    pc,                \* "generate", "train"; "finished", "exhausted" and
                       \* "raised" are final
    left,              \* generation batches the loop over the epochs has left
    drawn,             \* the last generation batch the policy has seen
    globalSteps,       \* self.global_steps
    genSteps,          \* self.gen_steps
    batch,             \* the trajectories <<prompt, rollout>> in order
    numPromptInBatch,  \* num_prompt_in_batch
    numGenBatches,     \* num_gen_batches
    updates,           \* how often the policy was updated
    trained,           \* history: the prompts the policy was trained on
    checkpoints,       \* the directories global_step_<step>
    restarts           \* how often the process has died

config == <<filterGroups, maxNumGenBatches>>
loader == <<left, drawn>>
counters == <<globalSteps, genSteps, numGenBatches, numPromptInBatch>>
vars == <<config, pc, loader, batch, counters, updates, trained, checkpoints, restarts>>

GenBatches == Epochs * EpochLength

Final == {"finished", "exhausted", "raised"}

Prompts(b) == {b} \X (1..GenBatchSize)
PromptsOf(trajectories) == {trajectories[i][1] : i \in DOMAIN trajectories}
TrajectoriesOf(p) == {p} \X (1..Rollouts)

Init == /\ filterGroups \in BOOLEAN
        /\ maxNumGenBatches \in Limits
        /\ pc = "generate"
        /\ left = GenBatches
        /\ drawn = 0
        /\ globalSteps = 1
        /\ genSteps = 1
        /\ batch = <<>>
        /\ numPromptInBatch = 0
        /\ numGenBatches = 0
        /\ updates = 0
        /\ trained = {}
        /\ checkpoints = {}
        /\ restarts = 0

\* Faulty: repeat(interleave=False), all first answers before all second ones.
RepeatBlocks(prompts) ==
    [i \in 1..Len(prompts) * Rollouts |->
        <<prompts[((i - 1) % Len(prompts)) + 1], ((i - 1) \div Len(prompts)) + 1>>]

\* new_batch.repeat(repeat_times=n, interleave=True): the trajectories of a
\* prompt are next to each other.
Repeat(prompts) ==
    [i \in 1..Len(prompts) * Rollouts |->
        <<prompts[((i - 1) \div Rollouts) + 1], ((i - 1) % Rollouts) + 1>>]

\* kept_prompt_uids: the prompts with mixed rewards, and those with a single
\* answer.
KeptPrompts(b) == IF Rollouts = 1 THEN {Prompts(b)} ELSE SUBSET Prompts(b)

\* new_batch[kept_traj_idxs]: the loop over the trajectories appends those of
\* the kept prompts.
Keep(trajectories, kept) ==
    LET upTo[n \in 0..Len(trajectories)] ==
            IF n = 0 THEN <<>>
            ELSE IF trajectories[n][1] \in kept
            THEN Append(upTo[n - 1], trajectories[n])
            ELSE upTo[n - 1]
    IN  upTo[Len(trajectories)]

\* The new generation batch, in the order of the dataloader.
NewBatch(b) == Repeat([i \in 1..GenBatchSize |-> <<b, i>>])

MayGenerate(n) == maxNumGenBatches <= 0 \/ n < maxNumGenBatches

\* batch[:traj_bsz], which leaves a shorter batch as it is.
Align(trajectories) ==
    SubSeq(trajectories, 1,
           IF Len(trajectories) < TrainBatchSize * Rollouts
           THEN Len(trajectories) ELSE TrainBatchSize * Rollouts)

\* The batch after a generation batch of which `kept' has mixed rewards.
Accumulated(kept) == batch \o Keep(NewBatch(drawn + 1), kept)

\* Without the filter every generation batch is trained on as it is.
Enough == ~filterGroups \/ numPromptInBatch' >= TrainBatchSize

(***************************************************************************)
(* The next batch_dict of the dataloader: answers, rewards, the filter.    *)
(* With too few prompts fit() goes on generating, or raises once the limit *)
(* is reached; with enough of them the surplus is cut off.                 *)
(***************************************************************************)
Generate ==
    /\ pc = "generate"
    /\ left > 0
    /\ left' = left - 1
    /\ drawn' = drawn + 1
    /\ numGenBatches' = numGenBatches + 1
    /\ \E kept \in KeptPrompts(drawn + 1) :
        /\ numPromptInBatch' = numPromptInBatch + Cardinality(kept)
        /\ \/ /\ Enough
              /\ batch' = IF filterGroups THEN Align(Accumulated(kept))
                                          ELSE NewBatch(drawn + 1)
              /\ pc' = "train"
              /\ UNCHANGED genSteps
           \/ /\ ~Enough
              /\ batch' = Accumulated(kept)
              /\ IF MayGenerate(numGenBatches')
                 THEN genSteps' = genSteps + 1 /\ UNCHANGED pc
                 ELSE pc' = "raised" /\ UNCHANGED genSteps
    /\ UNCHANGED <<config, globalSteps, updates, trained, checkpoints, restarts>>

\* Faulty: the last step is not recognised.
NeverLastStep == FALSE

IsLastStep == globalSteps >= TotalSteps

SaveDue == SaveFreq > 0 /\ (IsLastStep \/ globalSteps % SaveFreq = 0)

\* Faulty: the checkpoint gets the number of the next step.
CheckpointLate(step) ==
    [step |-> step + 1, updates |-> updates', trained |-> trained', drawn |-> drawn]

\* _save_checkpoint: the policy and the position of the dataloader.
Checkpoint(step) ==
    [step |-> step, updates |-> updates', trained |-> trained', drawn |-> drawn]

(***************************************************************************)
(* The rest of the step: the update, a checkpoint if one is due, the reset *)
(* of the accumulation, and the return after the last step.  critic_warmup *)
(* is 0, as configured: no step goes by without an update of the actor.    *)
(***************************************************************************)
Train ==
    /\ pc = "train"
    /\ updates' = updates + 1
    /\ trained' = trained \cup PromptsOf(batch)
    /\ checkpoints' = IF SaveDue THEN checkpoints \cup {Checkpoint(globalSteps)}
                                 ELSE checkpoints
    /\ batch' = <<>>
    /\ numPromptInBatch' = 0
    /\ numGenBatches' = 0
    /\ IF IsLastStep
       THEN pc' = "finished" /\ UNCHANGED <<globalSteps, genSteps>>
       ELSE /\ pc' = "generate"
            /\ globalSteps' = globalSteps + 1
            /\ genSteps' = genSteps + 1
    /\ UNCHANGED <<config, loader, restarts>>

\* Faulty: the epochs start again, with an empty batch.
ExhaustAgain ==
    /\ pc = "generate"
    /\ left = 0
    /\ left' = GenBatches
    /\ drawn' = 0
    /\ batch' = <<>>
    /\ genSteps' = 1
    /\ numPromptInBatch' = 0
    /\ numGenBatches' = 0
    /\ UNCHANGED <<config, pc, globalSteps, updates, trained, checkpoints, restarts>>

\* The epochs are over before the last step: what is accumulated is lost, and
\* "save last step checkpoint" saves under self.global_steps.
Exhaust ==
    /\ pc = "generate"
    /\ left = 0
    /\ pc' = "exhausted"
    /\ UNCHANGED <<config, loader, batch, counters, updates, trained, restarts>>
    /\ checkpoints' = IF \E c \in checkpoints : c.step = globalSteps
                      THEN checkpoints
                      ELSE checkpoints \cup {Checkpoint(globalSteps)}

Latest == CHOOSE c \in checkpoints : \A d \in checkpoints : d.step <= c.step

\* Faulty: the dataloader starts from its beginning.
LoadedPolicyOnly ==
    /\ globalSteps' = Latest.step + 1
    /\ updates' = Latest.updates
    /\ trained' = Latest.trained
    /\ drawn' = 0
    /\ left' = GenBatches

\* _load_checkpoint, then the increment of global_steps.  The loop over the
\* epochs starts anew, in the middle of one if that is where the dataloader
\* was; at its very end, one epoch may be skipped.
Loaded ==
    /\ globalSteps' = Latest.step + 1
    /\ updates' = Latest.updates
    /\ trained' = Latest.trained
    /\ drawn' = Latest.drawn
    /\ \E at \in 0..EpochLength :
        /\ at % EpochLength = Latest.drawn % EpochLength
        /\ left' = GenBatches - at

FromScratch ==
    /\ globalSteps' = 1
    /\ updates' = 0
    /\ trained' = {}
    /\ drawn' = 0
    /\ left' = GenBatches

(***************************************************************************)
(* The process dies, losing everything but the checkpoints, and is started *)
(* again.                                                                  *)
(***************************************************************************)
Restart ==
    /\ pc \in {"generate", "train"}
    /\ restarts < MaxRestarts
    /\ restarts' = restarts + 1
    /\ pc' = "generate"
    /\ batch' = <<>>
    /\ genSteps' = 1
    /\ numPromptInBatch' = 0
    /\ numGenBatches' = 0
    /\ IF checkpoints = {} THEN FromScratch ELSE Loaded
    /\ UNCHANGED <<config, checkpoints>>

Step == Generate \/ Train \/ Exhaust

Next == Step \/ Restart

\* fit() is one thread, and every generation batch comes back.  Nothing makes
\* the process die.
Spec == Init /\ [][Next]_vars /\ WF_vars(Step)
-----------------------------------------------------------------------------
(***************************************************************************)
(* Properties.                                                             *)
(***************************************************************************)

AllPrompts == Nat \X (1..GenBatchSize)

\* Every variable holds a value of its kind.
TypeOK ==
    /\ filterGroups \in BOOLEAN
    /\ maxNumGenBatches \in Limits
    /\ pc \in {"generate", "train"} \cup Final
    /\ left \in 0..GenBatches
    /\ drawn \in Nat
    /\ globalSteps \in 1..TotalSteps
    /\ genSteps \in Nat \ {0}
    /\ batch \in Seq(AllPrompts \X (1..Rollouts))
    /\ numPromptInBatch \in Nat
    /\ numGenBatches \in Nat
    /\ updates \in 0..TotalSteps
    /\ trained \subseteq AllPrompts
    /\ \A c \in checkpoints :
           c \in [step : Nat, updates : Nat, trained : SUBSET AllPrompts, drawn : Nat]
    /\ restarts \in 0..MaxRestarts

(***************************************************************************)
(* What the advantages are computed from: exactly TrainBatchSize prompts,  *)
(* each with all of its answers, although the batch is counted in prompts, *)
(* filled with trajectories of several generation batches and cut at a     *)
(* trajectory.                                                             *)
(***************************************************************************)
WholeGroups ==
    filterGroups /\ pc = "train" =>
        /\ {batch[i] : i \in DOMAIN batch} =
               UNION {TrajectoriesOf(p) : p \in PromptsOf(batch)}
        /\ Cardinality(PromptsOf(batch)) = TrainBatchSize
        /\ Len(batch) = TrainBatchSize * Rollouts

\* The policy is never trained twice on the same answers: a surplus is dropped,
\* not carried over, and after a restart the position of the dataloader fits
\* the policy that was loaded.
NeverTrainedTwice == pc = "train" => PromptsOf(batch) \cap trained = {}

\* Until the epochs run out, step numbers count updates, also after a restart:
\* every checkpoint holds the policy after as many updates as its number says,
\* and the step to come is the next one.  (The checkpoint that Exhaust saves
\* carries the number of a step that was never trained.)
StepsCountUpdates ==
    pc # "exhausted" =>
        /\ \A c \in checkpoints : c.step = c.updates
        /\ globalSteps = IF pc = "finished" THEN updates ELSE updates + 1

\* fit() ends, also without a limit and however few prompts are kept.
FitEnds == <>(pc \in Final)
=============================================================================
