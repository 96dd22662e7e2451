----------------------------- MODULE TrainingRun ----------------------------
(***************************************************************************)
(* A training run across crashes and restarts: the loop of                 *)
(* RayBMCTrainer.fit, the checkpoints BMCCheckpointHandler writes, and the *)
(* resume of the next process (resume_mode=auto).                          *)
(*                                                                         *)
(* A checkpoint has four parts, written one after the other: the actor     *)
(* directory, the dataloader state, the tracker file that names the latest *)
(* checkpoint, and a copy of the directory bmc/ with the histories of the  *)
(* sampler.  The sampler is restored from row resume_step of that copy.    *)
(*                                                                         *)
(* Abstracted: what a step computes.  The state a step leaves, of the      *)
(* model or of the sampler, is the pair <<attempt, step>> of the process   *)
(* and the step that made it; tree.pt and leaves.npz share the fate of the *)
(* histories if there is a tree at all.  The content of a file or directory is a set: {v} when it    *)
(* holds v, {} when it is missing or was torn by a crash, on which every   *)
(* loader raises.  The ranks of the actor write and load in step           *)
(* (dist.barrier), so they are one writer.                                 *)
(***************************************************************************)
EXTENDS Integers, Sequences, FiniteSets

CONSTANTS
    TotalSteps,  \* self.total_training_steps
    SaveFreq,    \* trainer.save_freq
    MaxKeep,     \* max_ckpt_to_keep, 0 for None
    UseTree,     \* algorithm.bmc.ltt.enable
    MaxCrashes   \* bound of the model: the crashes of the run

ASSUME RunAssumption ==
    /\ TotalSteps \in Nat \ {0}
    /\ SaveFreq \in Nat \ {0}
    /\ MaxKeep \in Nat
    /\ UseTree \in BOOLEAN
    /\ MaxCrashes \in Nat

VARIABLES
    \* the process
    pc,           \* what it does next; "raised", "broken", "finished" are final
    attempt,      \* how often it was restarted after a crash
    globalSteps,  \* self.global_steps
    model,        \* the state of policy and optimizer
    sampler,      \* the state of the BanditSampler
    saved,        \* previous_saved_paths of the actor's checkpoint manager
    \* the disk
    actor,        \* global_step_<s>/actor
    data,         \* the steps s with a global_step_<s>/data.pt
    tracker,      \* latest_checkpointed_iteration.txt, 0 if there is none
    rows,         \* bmc/*_history.npy
    copy          \* global_step_<s>/bmc

process == <<pc, attempt, globalSteps, model, sampler, saved>>
disk == <<actor, data, tracker, rows, copy>>
vars == <<process, disk>>

Steps == 1..TotalSteps
Blank == <<0, 0>>                                \* the initial state; a zero row
States == (0..MaxCrashes) \X (0..TotalSteps)
HistoryRows == 0..TotalSteps - 1                 \* of a memmap of that shape
BlankRows == [r \in HistoryRows |-> Blank]
Histories == [HistoryRows -> States]
Unreadable == {}
Readable(file) == file # Unreadable
Files(values) == {Unreadable} \cup {{v} : v \in values}

Init == /\ pc = "boot"
        /\ attempt = 0
        /\ globalSteps = 0
        /\ model = Blank
        /\ sampler = Blank
        /\ saved = <<>>
        /\ actor = [s \in Steps |-> Unreadable]
        /\ data = {}
        /\ tracker = 0
        /\ rows = BlankRows
        /\ copy = [s \in Steps |-> Unreadable]

(***************************************************************************)
(* A process starts without a checkpoint: find_latest_ckpt_path returns    *)
(* None if there is no tracker.  fit() creates the histories anew.         *)
(***************************************************************************)
StartFresh ==
    /\ pc = "boot"
    /\ tracker = 0
    /\ model' = Blank
    /\ sampler' = Blank
    /\ globalSteps' = 1
    /\ rows' = BlankRows
    /\ pc' = "train"
    /\ UNCHANGED <<attempt, saved, actor, data, tracker, copy>>

\* Faulty: the sampler comes from the row before.
ResumeRowBefore ==
    /\ pc = "boot"
    /\ tracker # 0
    /\ \E m \in actor[tracker] : model' = m
    /\ \E h \in copy[tracker] : sampler' = h[tracker - 1]
    /\ globalSteps' = tracker + 1
    /\ rows' = BlankRows
    /\ pc' = "train"
    /\ UNCHANGED <<attempt, saved, actor, data, tracker, copy>>

(***************************************************************************)
(* load_checkpoint resumes from the tracked step: the actor first, then    *)
(* tree.pt, which fit() wrote only if there is a tree, and row resume_step *)
(* of the copied histories.  Then fit() opens its own histories with mode  *)
(* w+, that is zeroed.                                                     *)
(***************************************************************************)
Resume ==
    /\ pc = "boot"
    /\ tracker # 0
    /\ UseTree
    /\ \E m \in actor[tracker] : model' = m
    /\ \E h \in copy[tracker] : sampler' = h[tracker]
    /\ globalSteps' = tracker + 1
    /\ rows' = BlankRows
    /\ pc' = "train"
    /\ UNCHANGED <<attempt, saved, actor, data, tracker, copy>>

\* Faulty: what cannot be loaded is taken for no checkpoint at all.
StartOver ==
    /\ pc = "boot"
    /\ tracker # 0
    /\ ~Readable(actor[tracker]) \/ ~Readable(copy[tracker])
    /\ globalSteps' = 1
    /\ rows' = BlankRows
    /\ pc' = "train"
    /\ UNCHANGED <<attempt, model, sampler, saved, actor, data, tracker, copy>>

\* The tracked folder exists but a part of it cannot be loaded.
ResumeFails ==
    /\ pc = "boot"
    /\ tracker # 0
    /\ ~Readable(actor[tracker]) \/ ~UseTree \/ ~Readable(copy[tracker])
    /\ pc' = "broken"
    /\ UNCHANGED <<attempt, globalSteps, model, sampler, saved, disk>>

\* One step: rollouts, posterior updates, policy update.
Train ==
    /\ pc = "train"
    /\ sampler' = <<attempt, globalSteps>>
    /\ model' = <<attempt, globalSteps>>
    /\ pc' = "record"
    /\ UNCHANGED <<attempt, globalSteps, saved, disk>>

IsLastStep == globalSteps >= TotalSteps

\* Faulty: only the end of the run is saved.
SaveAtEnd == IsLastStep

SaveDue == IsLastStep \/ globalSteps % SaveFreq = 0

\* sampled_history[self.global_steps, :] = ... and the other histories.
Record ==
    /\ pc = "record"
    /\ IF globalSteps \in HistoryRows
       THEN /\ rows' = [rows EXCEPT ![globalSteps] = sampler]
            /\ pc' = IF SaveDue THEN "prune" ELSE "advance"
       ELSE pc' = "raised" /\ UNCHANGED rows
    /\ UNCHANGED <<attempt, globalSteps, model, sampler, saved,
                   actor, data, tracker, copy>>

\* Faulty: the rotation drops one path too many.
DroppedOneMore == IF MaxKeep > 0 /\ Len(saved) >= MaxKeep
                  THEN Len(saved) - MaxKeep + 2 ELSE 0

\* How many of the saved paths the rotation drops before a save.
Dropped == IF MaxKeep > 0 /\ Len(saved) >= MaxKeep
           THEN Len(saved) - MaxKeep + 1 ELSE 0

\* Faulty: the list keeps the paths that were removed.
PruneKeepsList ==
    /\ pc = "prune"
    /\ actor' = [s \in Steps |->
            IF \E i \in 1..Dropped : saved[i] = s THEN Unreadable ELSE actor[s]]
    /\ pc' = "actor"
    /\ UNCHANGED <<attempt, globalSteps, model, sampler, saved, data, tracker, rows, copy>>

\* The rotation at the start of FSDPCheckpointManager.save_checkpoint.
Prune ==
    /\ pc = "prune"
    /\ actor' = [s \in Steps |->
                    IF \E i \in 1..Dropped : saved[i] = s THEN Unreadable ELSE actor[s]]
    /\ saved' = SubSeq(saved, Dropped + 1, Len(saved))
    /\ pc' = "actor"
    /\ UNCHANGED <<attempt, globalSteps, model, sampler, data, tracker, rows, copy>>

\* The directory is created, and its files are being written.
BeginActor ==
    /\ pc = "actor"
    /\ actor' = [actor EXCEPT ![globalSteps] = Unreadable]
    /\ pc' = "actor written"
    /\ UNCHANGED <<attempt, globalSteps, model, sampler, saved, data, tracker, rows, copy>>

EndActor ==
    /\ pc = "actor written"
    /\ actor' = [actor EXCEPT ![globalSteps] = {model}]
    /\ saved' = Append(saved, globalSteps)
    /\ pc' = "data"
    /\ UNCHANGED <<attempt, globalSteps, model, sampler, data, tracker, rows, copy>>

SaveData ==
    /\ pc = "data"
    /\ data' = data \cup {globalSteps}
    /\ pc' = "tracker"
    /\ UNCHANGED <<attempt, globalSteps, model, sampler, saved, actor, tracker, rows, copy>>

\* The new tracker is written to a temporary file and renamed.
WriteTracker ==
    /\ pc = "tracker"
    /\ tracker' = globalSteps
    /\ pc' = "copy"
    /\ UNCHANGED <<attempt, globalSteps, model, sampler, saved, actor, data, rows, copy>>

(***************************************************************************)
(* hdfs_io.copy of the directory bmc/, file by file.  No earlier process   *)
(* completed a copy for this step (the tracker would have made this one    *)
(* start beyond it), so until all files are there the copy is unreadable.  *)
(***************************************************************************)
Copy ==
    /\ pc = "copy"
    /\ copy' = [copy EXCEPT ![globalSteps] = {rows}]
    /\ pc' = "advance"
    /\ UNCHANGED <<attempt, globalSteps, model, sampler, saved, actor, data, tracker, rows>>

Advance ==
    /\ pc = "advance"
    /\ IF IsLastStep
       THEN pc' = "finished" /\ UNCHANGED globalSteps
       ELSE pc' = "train" /\ globalSteps' = globalSteps + 1
    /\ UNCHANGED <<attempt, model, sampler, saved, disk>>

Final == {"raised", "broken", "finished"}

\* The process dies and is started again; only the disk survives.
Crash ==
    /\ pc \notin Final \cup {"boot"}
    /\ attempt < MaxCrashes
    /\ attempt' = attempt + 1
    /\ pc' = "boot"
    /\ globalSteps' = 0
    /\ model' = Blank
    /\ sampler' = Blank
    /\ saved' = <<>>
    /\ UNCHANGED disk

SaveCheckpoint == Prune \/ BeginActor \/ EndActor \/ SaveData \/ WriteTracker
                    \/ Copy

Process == StartFresh \/ Resume \/ ResumeFails \/ Train \/ Record
             \/ SaveCheckpoint \/ Advance

Next == Process \/ Crash

Spec == Init /\ [][Next]_vars
-----------------------------------------------------------------------------
(***************************************************************************)
(* Properties.                                                             *)
(***************************************************************************)

Running == pc \notin Final \cup {"boot"}

Locations == {"boot", "train", "record", "prune", "actor", "actor written",
              "data", "tracker", "copy", "advance"} \cup Final

\* Every variable holds a value of its kind.
TypeOK ==
    /\ pc \in Locations
    /\ attempt \in 0..MaxCrashes
    /\ globalSteps \in 0..TotalSteps
    /\ model \in States
    /\ sampler \in States
    /\ saved \in Seq(Steps)
    /\ actor \in [Steps -> Files(States)]
    /\ data \subseteq Steps
    /\ tracker \in 0..TotalSteps
    /\ rows \in Histories
    /\ \A s \in Steps : \A h \in copy[s] : copy[s] = {h} /\ h \in Histories
    /\ DOMAIN copy = Steps

\* At the start of a step, also of the first one after a restart, the policy
\* and the sampler are both in the state the previous step left, and both
\* come from the same process.
MemoryIsPreviousStep ==
    pc = "train" => model = sampler /\ model[2] = globalSteps - 1

\* If the rotation keeps two checkpoints or all of them, the actor of the
\* tracked checkpoint is complete at any time, and it is of that step.
TrackedActorComplete ==
    MaxKeep # 1 /\ tracker # 0 =>
        /\ Readable(actor[tracker])
        /\ \A m \in actor[tracker] : m[2] = tracker
        /\ tracker \in data

\* A crash costs at most SaveFreq steps and the one in progress.
LossBounded == Running => globalSteps - tracker <= SaveFreq

\* The tracker never goes back, and no restart begins anew once a
\* checkpoint was made.
TrackerNeverBack == [][tracker' >= tracker /\
    (pc = "boot" /\ tracker # 0 => pc' = "broken" \/ globalSteps' > tracker)]_vars

\* Every path the rotation counts is a complete actor directory, and it
\* counts no more than MaxKeep.
SavedAreComplete ==
    /\ \A i \in DOMAIN saved : Readable(actor[saved[i]])
    /\ MaxKeep > 0 => Len(saved) <= MaxKeep

(***************************************************************************)
(* The documentation of trainer.resume_mode: "the program will             *)
(* automatically resume from the latest checkpoint in the                  *)
(* default_local_dir".                                                     *)
(***************************************************************************)
LatestResumable == pc # "broken"

\* The same, for the checkpoints whose save was completed.
CompleteResumable == pc = "broken" => ~Readable(copy[tracker])
=============================================================================
