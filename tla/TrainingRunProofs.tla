------------------------- MODULE TrainingRunProofs --------------------------
(***************************************************************************)
(* Proofs about TrainingRun, for every length of the run, period of saving *)
(* and number of crashes: what a restart finds on the disk belongs to one  *)
(* step of one process, and (with a tree, and with more than one           *)
(* checkpoint kept) only a crash between the tracker and the copy of bmc/  *)
(* leaves something that cannot be resumed.                                *)
(***************************************************************************)
EXTENDS TrainingRun, SequenceTheorems, TLAPS

\* The stretches of the loop: a save in progress, up to the tracker; all of
\* it; and from the end of the step's computation on.
BeforeTracker == {"prune", "actor", "actor written", "data", "tracker"}
Saving == BeforeTracker \cup {"copy"}
Stepped == Saving \cup {"record", "advance"}

\* The step in memory: model and sampler agree, and row globalSteps of the
\* histories holds them during a save.
MemoryInv ==
    /\ MemoryIsPreviousStep
    /\ pc \in Stepped => model = sampler /\ model[2] = globalSteps
    /\ pc \in Saving \cup {"advance"} => globalSteps \in HistoryRows
    /\ pc \in Saving => rows[globalSteps] = model

\* The step in progress is beyond the tracked one until the tracker is
\* written, and nothing was copied beyond the tracked one.
OrderInv ==
    /\ tracker \in HistoryRows
    /\ pc \in BeforeTracker \cup {"train", "record"} => tracker < globalSteps
    /\ pc = "copy" => tracker = globalSteps
    /\ pc = "advance" => tracker <= globalSteps
    /\ \A s \in Steps : tracker < s => copy[s] = {}

\* What is on the disk for a step was made by that step, and actor and
\* histories of a checkpoint by the same process.
DiskInv ==
    /\ \A s \in Steps : \A m \in actor[s] : m[2] = s
    /\ \A s \in Steps : \A m \in actor[s], h \in copy[s] : h[s] = m
    /\ pc \in {"data", "tracker", "copy"} => actor[globalSteps] = {model}
    /\ pc = "tracker" => globalSteps \in data

\* The rotation lists rising steps, the last of them the tracked one (or the
\* one being saved).
SavedInv ==
    /\ \A i, j \in 1..Len(saved) : i < j => saved[i] < saved[j]
    /\ pc \in {"data", "tracker"} =>
           saved # <<>> /\ saved[Len(saved)] = globalSteps
    /\ pc \notin {"data", "tracker"} /\ saved # <<>> => saved[Len(saved)] = tracker

\* A restart fails on the histories only.
BrokenInv == UseTree /\ MaxKeep # 1 => CompleteResumable

\* The rotation has made room before the new directory is written.
RoomInv == pc \in {"actor", "actor written"} /\ MaxKeep > 0 => Len(saved) < MaxKeep

\* The tracked step is due for a save, and the step after a due one is never
\* reached without it.
LossInv ==
    /\ LossBounded
    /\ tracker % SaveFreq = 0
    /\ pc \in BeforeTracker => globalSteps % SaveFreq = 0
    /\ pc = "advance" => globalSteps - tracker < SaveFreq

IInv ==
    /\ TypeOK
    /\ MemoryInv
    /\ OrderInv
    /\ DiskInv
    /\ SavedInv
    /\ TrackedActorComplete
    /\ BrokenInv
    /\ RoomInv
    /\ SavedAreComplete
    /\ LossInv
-----------------------------------------------------------------------------

(***************************************************************************)
(* The rotation drops a proper part of the list, the oldest paths; all of  *)
(* it only if a single checkpoint is kept.                                 *)
(***************************************************************************)
LEMMA DroppedFacts ==
    ASSUME saved \in Seq(Steps)
    PROVE  LET rest == SubSeq(saved, Dropped + 1, Len(saved)) IN
           /\ Dropped \in 0..Len(saved)
           /\ MaxKeep # 1 /\ saved # <<>> => Dropped < Len(saved)
           /\ MaxKeep > 0 => Len(rest) < MaxKeep
           /\ rest \in Seq(Steps)
           /\ Len(rest) = Len(saved) - Dropped
           /\ \A i \in 1..Len(rest) : rest[i] = saved[i + Dropped]
<1> DEFINE rest == SubSeq(saved, Dropped + 1, Len(saved))
<1>1. Len(saved) \in Nat /\ (saved # <<>> => Len(saved) > 0)
  BY LenProperties, EmptySeq
<1>2. /\ Dropped \in 0..Len(saved)
      /\ MaxKeep # 1 /\ saved # <<>> => Dropped < Len(saved)
      /\ MaxKeep > 0 => Len(saved) - Dropped < MaxKeep
  BY <1>1, RunAssumption DEF Dropped
<1>3. \A i \in Dropped + 1..Len(saved) : saved[i] \in Steps
  BY <1>1, <1>2, ElementOfSeq
<1> HIDE DEF Dropped
<1>4. /\ rest \in Seq(Steps)
      /\ Len(rest) = Len(saved) - Dropped
      /\ \A i \in 1..Len(rest) : rest[i] = saved[i + Dropped]
  <2>1. CASE Dropped + 1 <= Len(saved)
    BY <1>1, <1>2, <1>3, <2>1, SubSeqProperties
  <2>2. CASE Dropped = Len(saved)
    BY <1>1, <1>2, <2>2, SubSeqEmpty, EmptySeq
  <2> QED
    BY <1>1, <1>2, <2>1, <2>2
<1> QED
  BY <1>2, <1>4

\* A list of steps that rises still does when its first paths are dropped, and
\* when a later step is appended.
Rising(s) == \A i, j \in 1..Len(s) : i < j => s[i] < s[j]

LEMMA EmptyRising == Rising(<<>>)
<1>1. Len(<<>>) = 0
  BY EmptySeq
<1>2. \A i, j \in 1..0 : FALSE
  OBVIOUS
<1> QED
  BY <1>1, <1>2 DEF Rising

LEMMA PruneRising ==
    ASSUME saved \in Seq(Steps), Rising(saved)
    PROVE  LET rest == SubSeq(saved, Dropped + 1, Len(saved)) IN
           /\ Rising(rest)
           /\ rest # <<>> => saved # <<>> /\ rest[Len(rest)] = saved[Len(saved)]
<1> DEFINE rest == SubSeq(saved, Dropped + 1, Len(saved))
<1>1. /\ Dropped \in 0..Len(saved)
      /\ rest \in Seq(Steps)
      /\ Len(rest) = Len(saved) - Dropped
      /\ \A i \in 1..Len(rest) : rest[i] = saved[i + Dropped]
  BY DroppedFacts
<1>2. Len(saved) \in Nat /\ (rest # <<>> => Len(rest) > 0) /\ Len(<<>>) = 0
  BY <1>1, LenProperties, EmptySeq
<1> HIDE DEF rest
<1>3. Rising(rest)
  BY <1>1, <1>2 DEF Rising
<1>4. rest # <<>> => saved # <<>> /\ rest[Len(rest)] = saved[Len(saved)]
  BY <1>1, <1>2
<1> QED
  BY <1>3, <1>4 DEF rest

LEMMA AppendRising ==
    ASSUME saved \in Seq(Steps), Rising(saved), NEW g \in Steps,
           saved # <<>> => saved[Len(saved)] < g
    PROVE  /\ Rising(Append(saved, g))
           /\ Append(saved, g) # <<>>
           /\ Append(saved, g)[Len(Append(saved, g))] = g
<1> DEFINE more == Append(saved, g)
<1>1. /\ Len(saved) \in Nat
      /\ \A i \in 1..Len(saved) : saved[i] \in Steps
      /\ Len(saved) > 0 => saved # <<>>
  BY LenProperties, ElementOfSeq, EmptySeq
<1>2. /\ more # <<>>
      /\ Len(more) = Len(saved) + 1
      /\ \A i \in 1..Len(saved) : more[i] = saved[i]
      /\ more[Len(saved) + 1] = g
  BY AppendProperties
<1> HIDE DEF more
<1>3. \A i \in 1..Len(saved) : saved[i] < g
  <2> TAKE i \in 1..Len(saved)
  <2>1. CASE i = Len(saved)
    BY <1>1, <2>1
  <2>2. CASE i # Len(saved)
    <3>1. Len(saved) \in 1..Len(saved) /\ i < Len(saved) /\ saved # <<>>
      BY <1>1, <2>2
    <3>2. saved[i] < saved[Len(saved)] /\ saved[Len(saved)] < g
      BY <3>1 DEF Rising
    <3>3. saved[i] \in Nat /\ saved[Len(saved)] \in Nat /\ g \in Nat
      BY <1>1, <3>1 DEF Steps
    <3> QED
      BY <3>2, <3>3
  <2> QED
    BY <2>1, <2>2
<1>4. Rising(more)
  BY <1>1, <1>2, <1>3 DEF Rising
<1> QED
  BY <1>2, <1>4 DEF more

LEMMA StepsAreNat == Steps \subseteq Nat
BY RunAssumption DEF Steps

\* The step a save is in progress for.
LEMMA StepInProgress ==
    IInv /\ pc \in BeforeTracker \cup {"record"} =>
        globalSteps \in Steps /\ tracker < globalSteps /\ tracker <= globalSteps
        /\ tracker # globalSteps
BY RunAssumption DEF IInv, OrderInv, TypeOK, Steps, HistoryRows

\* The step in memory.
LEMMA MemoryStep == IInv /\ [Next]_vars => MemoryInv'
<1> SUFFICES ASSUME IInv, [Next]_vars
             PROVE  MemoryInv'
  OBVIOUS
<1> USE RunAssumption DEF IInv, MemoryInv, MemoryIsPreviousStep, OrderInv,
  DiskInv, TypeOK, BeforeTracker, Saving, Stepped, HistoryRows, Steps,
  Histories, BlankRows
<1>1. CASE StartFresh
  BY <1>1 DEF StartFresh, Blank
<1>2. CASE Resume
  BY <1>2 DEF Resume
<1>3. CASE ResumeFails
  BY <1>3 DEF ResumeFails, disk
<1>4. CASE Train
  BY <1>4 DEF Train, disk
<1>5. CASE Record
  BY <1>5 DEF Record
<1>6. CASE Prune
  BY <1>6 DEF Prune
<1>7. CASE BeginActor
  BY <1>7 DEF BeginActor
<1>8. CASE EndActor
  BY <1>8 DEF EndActor
<1>9. CASE SaveData
  BY <1>9 DEF SaveData
<1>10. CASE WriteTracker
  BY <1>10 DEF WriteTracker
<1>11. CASE Copy
  BY <1>11 DEF Copy
<1>12. CASE Advance
  <2>1. CASE IsLastStep
    BY <1>12, <2>1 DEF Advance, disk
  <2>2. CASE ~IsLastStep
    BY <1>12, <2>2 DEF Advance, disk
  <2> QED
    BY <2>1, <2>2
<1>13. CASE Crash
  BY <1>13 DEF Crash, Final, disk
<1>14. CASE UNCHANGED vars
  BY <1>14 DEF vars, process, disk
<1> QED
  BY <1>1, <1>2, <1>3, <1>4, <1>5, <1>6, <1>7, <1>8, <1>9, <1>10, <1>11,
    <1>12, <1>13, <1>14 DEF Next, Process, SaveCheckpoint

\* The order of the steps.
LEMMA OrderStep == IInv /\ [Next]_vars => OrderInv'
<1> SUFFICES ASSUME IInv, [Next]_vars
             PROVE  OrderInv'
  OBVIOUS
<1> USE RunAssumption DEF IInv, MemoryInv, OrderInv, TypeOK, BeforeTracker,
  Saving, Stepped, HistoryRows, Steps
<1>1. CASE StartFresh
  BY <1>1 DEF StartFresh, Blank
<1>2. CASE Resume
  BY <1>2 DEF Resume
<1>3. CASE ResumeFails
  BY <1>3 DEF ResumeFails, disk
<1>4. CASE Train
  BY <1>4 DEF Train, disk
<1>5. CASE Record
  <2>1. /\ pc' \in {"prune", "advance", "raised"}
        /\ UNCHANGED <<globalSteps, tracker, copy>>
    BY <1>5 DEF Record
  <2>2. tracker < globalSteps
    BY <1>5 DEF Record
  <2>3. tracker <= globalSteps
    BY <1>5, StepInProgress DEF Record
  <2>4. pc' # "copy" /\ OrderInv
    BY <2>1
  <2> QED
    BY <2>1, <2>2, <2>3, <2>4
<1>6. CASE Prune
  BY <1>6 DEF Prune
<1>7. CASE BeginActor
  BY <1>7 DEF BeginActor
<1>8. CASE EndActor
  BY <1>8 DEF EndActor
<1>9. CASE SaveData
  BY <1>9 DEF SaveData
<1>10. CASE WriteTracker
  BY <1>10 DEF WriteTracker
<1>11. CASE Copy
  BY <1>11 DEF Copy
<1>12. CASE Advance
  <2>1. CASE IsLastStep
    BY <1>12, <2>1 DEF Advance, disk
  <2>2. CASE ~IsLastStep
    BY <1>12, <2>2 DEF Advance, disk
  <2> QED
    BY <2>1, <2>2
<1>13. CASE Crash
  BY <1>13 DEF Crash, Final, disk
<1>14. CASE UNCHANGED vars
  BY <1>14 DEF vars, process, disk
<1> QED
  BY <1>1, <1>2, <1>3, <1>4, <1>5, <1>6, <1>7, <1>8, <1>9, <1>10, <1>11,
    <1>12, <1>13, <1>14 DEF Next, Process, SaveCheckpoint

\* What is on the disk.
LEMMA DiskStep == IInv /\ [Next]_vars => DiskInv'
<1> SUFFICES ASSUME IInv, [Next]_vars
             PROVE  DiskInv'
  OBVIOUS
<1> USE RunAssumption DEF IInv, MemoryInv, OrderInv, DiskInv, TypeOK,
  BeforeTracker, Saving, Stepped, HistoryRows, Steps, Unreadable
<1>1. CASE StartFresh
  BY <1>1 DEF StartFresh, Blank
<1>2. CASE Resume
  BY <1>2 DEF Resume
<1>3. CASE ResumeFails
  BY <1>3 DEF ResumeFails, disk
<1>4. CASE Train
  BY <1>4 DEF Train, disk
<1>5. CASE Record
  BY <1>5 DEF Record
<1>6. CASE Prune
  BY <1>6 DEF Prune
<1>7. CASE BeginActor
  BY <1>7 DEF BeginActor
<1>8. CASE EndActor
  <2>1. globalSteps \in Steps
    BY <1>8, StepInProgress DEF EndActor
  <2>3. copy[globalSteps] = {} /\ model[2] = globalSteps
    BY <1>8, <2>1 DEF EndActor
  <2>2. \A s \in Steps : actor'[s] = IF s = globalSteps THEN {model} ELSE actor[s]
    BY <1>8 DEF EndActor
  <2> QED
    BY <1>8, <2>1, <2>2, <2>3 DEF EndActor
<1>9. CASE SaveData
  BY <1>9 DEF SaveData
<1>10. CASE WriteTracker
  BY <1>10 DEF WriteTracker
<1>11. CASE Copy
  BY <1>11 DEF Copy
<1>12. CASE Advance
  BY <1>12 DEF Advance, IsLastStep, disk
<1>13. CASE Crash
  BY <1>13 DEF Crash, Final, disk
<1>14. CASE UNCHANGED vars
  BY <1>14 DEF vars, process, disk
<1> QED
  BY <1>1, <1>2, <1>3, <1>4, <1>5, <1>6, <1>7, <1>8, <1>9, <1>10, <1>11,
    <1>12, <1>13, <1>14 DEF Next, Process, SaveCheckpoint

\* The list of the rotation.
LEMMA SavedStep == IInv /\ [Next]_vars => SavedInv'
<1> SUFFICES ASSUME IInv, [Next]_vars
             PROVE  SavedInv'
  OBVIOUS
<1> USE RunAssumption DEF IInv, OrderInv, SavedInv, TypeOK, BeforeTracker,
  Steps
<1>1. CASE StartFresh
  BY <1>1 DEF StartFresh, Blank
<1>2. CASE Resume
  BY <1>2 DEF Resume
<1>3. CASE ResumeFails
  BY <1>3 DEF ResumeFails, disk
<1>4. CASE Train
  BY <1>4 DEF Train, disk
<1>5. CASE Record
  BY <1>5 DEF Record
<1>6. CASE Prune
  <2>1. saved \in Seq(Steps) /\ Rising(saved)
    BY DEF Rising
  <2>2. Rising(saved') /\ (saved' # <<>> => saved # <<>> /\ saved'[Len(saved')] = saved[Len(saved)])
    BY <1>6, <2>1, PruneRising DEF Prune
  <2> QED
    BY <1>6, <2>2 DEF Prune, Rising
<1>7. CASE BeginActor
  BY <1>7 DEF BeginActor
<1>8. CASE EndActor
  <2>1. saved \in Seq(Steps) /\ Rising(saved)
    BY DEF Rising
  <2>2. globalSteps \in Steps /\ tracker < globalSteps
    BY <1>8, StepInProgress DEF EndActor
  <2>4. saved # <<>> => saved[Len(saved)] < globalSteps
    BY <1>8, <2>2 DEF EndActor
  <2>3. Rising(saved') /\ saved' # <<>> /\ saved'[Len(saved')] = globalSteps
    BY <1>8, <2>1, <2>2, <2>4, AppendRising DEF EndActor
  <2> QED
    BY <1>8, <2>3 DEF EndActor, Rising
<1>9. CASE SaveData
  BY <1>9 DEF SaveData
<1>10. CASE WriteTracker
  BY <1>10 DEF WriteTracker
<1>11. CASE Copy
  BY <1>11 DEF Copy
<1>12. CASE Advance
  BY <1>12 DEF Advance, IsLastStep, disk
<1>13. CASE Crash
  <2>1. saved' = <<>> /\ pc' = "boot"
    BY <1>13 DEF Crash
  <2>2. Rising(saved')
    BY <2>1, EmptyRising
  <2> QED
    BY <2>1, <2>2 DEF Rising
<1>14. CASE UNCHANGED vars
  BY <1>14 DEF vars, process, disk
<1> QED
  BY <1>1, <1>2, <1>3, <1>4, <1>5, <1>6, <1>7, <1>8, <1>9, <1>10, <1>11,
    <1>12, <1>13, <1>14 DEF Next, Process, SaveCheckpoint

\* The values a process starts with, and the sets a file's content is from.
LEMMA InitialValues ==
    /\ Blank \in States
    /\ BlankRows \in Histories
    /\ Unreadable \in Files(States)
    /\ \A v \in States : {v} \in Files(States)
<1>1. Blank \in States
  BY RunAssumption DEF Blank, States
<1> QED
  BY <1>1 DEF BlankRows, Histories, Files

\* Types.
LEMMA TypeStep == IInv /\ [Next]_vars => TypeOK'
<1> SUFFICES ASSUME IInv, [Next]_vars
             PROVE  TypeOK'
  OBVIOUS
<1> USE RunAssumption DEF IInv, OrderInv, TypeOK
<1>1. CASE StartFresh
  <2>1. globalSteps' \in 0..TotalSteps /\ pc' \in Locations
    BY <1>1 DEF StartFresh, Locations
  <2> QED
    BY <1>1, <2>1, InitialValues DEF StartFresh
<1>2. CASE Resume
  <2>1. tracker \in Steps /\ tracker \in HistoryRows
    BY <1>2 DEF Resume, Steps, HistoryRows
  <2>2. model' \in States
    BY <1>2, <2>1 DEF Resume, Files, Unreadable
  <2>3. sampler' \in States
    BY <1>2, <2>1 DEF Resume, Histories
  <2>4. globalSteps' \in 0..TotalSteps /\ pc' \in Locations
    BY <1>2, <2>1 DEF Resume, HistoryRows, Locations
  <2> QED
    BY <1>2, <2>2, <2>3, <2>4, InitialValues DEF Resume
<1>3. CASE ResumeFails
  BY <1>3 DEF ResumeFails, disk, Locations, Final
<1>4. CASE Train
  <2>1. <<attempt, globalSteps>> \in States
    BY <1>4 DEF Train, States
  <2> QED
    BY <1>4, <2>1 DEF Train, disk, Locations
<1>5. CASE Record
  <2>1. rows' \in Histories
    BY <1>5 DEF Record, Histories
  <2>2. pc' \in Locations
    BY <1>5 DEF Record, Locations, Final
  <2> QED
    BY <1>5, <2>1, <2>2 DEF Record
<1>6. CASE Prune
  <2>1. saved' \in Seq(Steps)
    BY <1>6, DroppedFacts DEF Prune
  <2>2. actor' \in [Steps -> Files(States)]
    BY <1>6, InitialValues DEF Prune
  <2> QED
    BY <1>6, <2>1, <2>2 DEF Prune, Locations
<1>7. CASE BeginActor
  <2>1. actor' \in [Steps -> Files(States)]
    BY <1>7, InitialValues DEF BeginActor
  <2> QED
    BY <1>7, <2>1 DEF BeginActor, Locations
<1>8. CASE EndActor
  <2>1. globalSteps \in Steps
    BY <1>8, StepInProgress DEF EndActor, BeforeTracker
  <2>2. saved' \in Seq(Steps)
    BY <1>8, <2>1, AppendProperties DEF EndActor
  <2>3. actor' \in [Steps -> Files(States)]
    BY <1>8, InitialValues DEF EndActor
  <2> QED
    BY <1>8, <2>2, <2>3 DEF EndActor, Locations
<1>9. CASE SaveData
  <2>1. globalSteps \in Steps
    BY <1>9, StepInProgress DEF SaveData, BeforeTracker
  <2> QED
    BY <1>9, <2>1 DEF SaveData, Locations
<1>10. CASE WriteTracker
  BY <1>10 DEF WriteTracker, Locations
<1>11. CASE Copy
  BY <1>11 DEF Copy, Locations
<1>12. CASE Advance
  <2>1. pc' \in Locations
    BY <1>12 DEF Advance, Locations, Final
  <2>2. IsLastStep \/ globalSteps + 1 <= TotalSteps
    BY DEF IsLastStep
  <2>3. globalSteps' \in 0..TotalSteps
    BY <1>12, <2>2 DEF Advance
  <2> QED
    BY <1>12, <2>1, <2>3 DEF Advance, disk
<1>13. CASE Crash
  <2>1. saved' \in Seq(Steps)
    BY <1>13, EmptySeq DEF Crash
  <2>2. attempt' \in 0..MaxCrashes
    BY <1>13 DEF Crash
  <2>4. pc' \in Locations
    BY <1>13 DEF Crash, Locations
  <2>3. globalSteps' \in 0..TotalSteps
    BY <1>13 DEF Crash
  <2> QED
    BY <1>13, <2>1, <2>2, <2>3, <2>4, InitialValues DEF Crash, disk
<1>14. CASE UNCHANGED vars
  BY <1>14 DEF vars, process, disk
<1> QED
  BY <1>1, <1>2, <1>3, <1>4, <1>5, <1>6, <1>7, <1>8, <1>9, <1>10, <1>11,
    <1>12, <1>13, <1>14 DEF Next, Process, SaveCheckpoint

LEMMA TrackedIsStep == IInv /\ tracker # 0 => tracker \in Steps
BY RunAssumption DEF IInv, TypeOK, Steps

(***************************************************************************)
(* The rotation spares the tracked checkpoint, unless it keeps only one;   *)
(* and it spares every path it goes on counting.                           *)
(***************************************************************************)
LEMMA PruneSpares ==
    ASSUME IInv, pc = "prune"
    PROVE  /\ MaxKeep # 1 => \A i \in 1..Dropped : saved[i] # tracker
           /\ \A i \in 1..Dropped : \A j \in Dropped + 1..Len(saved) : saved[i] # saved[j]
<1>1. /\ saved \in Seq(Steps)
      /\ Rising(saved)
      /\ saved # <<>> => saved[Len(saved)] = tracker
  BY DEF IInv, TypeOK, SavedInv, Rising
<1>2. Dropped \in 0..Len(saved) /\ (MaxKeep # 1 /\ saved # <<>> => Dropped < Len(saved))
  BY <1>1, DroppedFacts
<1>3. /\ Len(saved) \in Nat
      /\ \A i \in 1..Len(saved) : saved[i] \in Steps
      /\ saved = <<>> => Len(saved) = 0
  BY <1>1, LenProperties, ElementOfSeq, EmptySeq
<1>4. ASSUME NEW i \in 1..Dropped, NEW j \in Dropped + 1..Len(saved)
      PROVE  saved[i] # saved[j]
  <2>1. i \in 1..Len(saved) /\ j \in 1..Len(saved) /\ i < j
    BY <1>2, <1>3
  <2>2. saved[i] < saved[j]
    BY <1>1, <2>1 DEF Rising
  <2> QED
    BY <1>3, <2>1, <2>2 DEF Steps
<1>5. ASSUME MaxKeep # 1, NEW i \in 1..Dropped
      PROVE  saved[i] # tracker
  <2>1. saved # <<>> /\ Len(saved) \in Dropped + 1..Len(saved)
    BY <1>2, <1>3, <1>5
  <2> QED
    BY <1>1, <1>4, <1>5, <2>1
<1> QED
  BY <1>4, <1>5

\* The actor of the tracked checkpoint.
LEMMA TrackedStep == IInv /\ [Next]_vars => TrackedActorComplete'
<1> SUFFICES ASSUME IInv, [Next]_vars
             PROVE  TrackedActorComplete'
  OBVIOUS
<1> USE RunAssumption DEF IInv, TrackedActorComplete, OrderInv, DiskInv,
  TypeOK, BeforeTracker, HistoryRows, Steps, Unreadable, Readable
<1>1. CASE StartFresh
  BY <1>1 DEF StartFresh, Blank
<1>2. CASE Resume
  BY <1>2 DEF Resume
<1>3. CASE ResumeFails
  BY <1>3 DEF ResumeFails, disk
<1>4. CASE Train
  BY <1>4 DEF Train, disk
<1>5. CASE Record
  BY <1>5 DEF Record
<1>6. CASE Prune
  <2>1. UNCHANGED <<tracker, data>>
    BY <1>6 DEF Prune
  <2>2. MaxKeep # 1 /\ tracker # 0 => actor'[tracker] = actor[tracker]
    BY <1>6, PruneSpares DEF Prune
  <2> QED
    BY <2>1, <2>2
<1>7. CASE BeginActor
  <2>1. tracker # globalSteps /\ UNCHANGED <<tracker, data>>
    BY <1>7, StepInProgress DEF BeginActor
  <2>3. tracker # 0 => tracker \in Steps
    BY TrackedIsStep
  <2>2. tracker # 0 => actor'[tracker] = actor[tracker]
    BY <1>7, <2>1, <2>3 DEF BeginActor
  <2> QED
    BY <2>1, <2>2
<1>8. CASE EndActor
  <2>1. tracker # globalSteps /\ UNCHANGED <<tracker, data>>
    BY <1>8, StepInProgress DEF EndActor
  <2>3. tracker # 0 => tracker \in Steps
    BY TrackedIsStep
  <2>2. tracker # 0 => actor'[tracker] = actor[tracker]
    BY <1>8, <2>1, <2>3 DEF EndActor
  <2> QED
    BY <2>1, <2>2
<1>9. CASE SaveData
  BY <1>9 DEF SaveData
<1>10. CASE WriteTracker
  BY <1>10 DEF WriteTracker
<1>11. CASE Copy
  BY <1>11 DEF Copy
<1>12. CASE Advance
  BY <1>12 DEF Advance, IsLastStep, disk
<1>13. CASE Crash
  BY <1>13 DEF Crash, Final, disk
<1>14. CASE UNCHANGED vars
  BY <1>14 DEF vars, process, disk
<1> QED
  BY <1>1, <1>2, <1>3, <1>4, <1>5, <1>6, <1>7, <1>8, <1>9, <1>10, <1>11,
    <1>12, <1>13, <1>14 DEF Next, Process, SaveCheckpoint

\* Restarts that fail.
LEMMA BrokenStep == IInv /\ [Next]_vars => BrokenInv'
<1> SUFFICES ASSUME IInv, [Next]_vars
             PROVE  BrokenInv'
  OBVIOUS
<1> USE RunAssumption DEF IInv, BrokenInv, CompleteResumable,
  TrackedActorComplete
<1>1. CASE StartFresh
  BY <1>1 DEF StartFresh, Blank
<1>2. CASE Resume
  BY <1>2 DEF Resume
<1>3. CASE ResumeFails
  BY <1>3 DEF ResumeFails, disk
<1>4. CASE Train
  BY <1>4 DEF Train, disk
<1>5. CASE Record
  BY <1>5 DEF Record
<1>6. CASE Prune
  BY <1>6 DEF Prune
<1>7. CASE BeginActor
  BY <1>7 DEF BeginActor
<1>8. CASE EndActor
  BY <1>8 DEF EndActor
<1>9. CASE SaveData
  BY <1>9 DEF SaveData
<1>10. CASE WriteTracker
  BY <1>10 DEF WriteTracker
<1>11. CASE Copy
  BY <1>11 DEF Copy
<1>12. CASE Advance
  BY <1>12 DEF Advance, IsLastStep, disk
<1>13. CASE Crash
  BY <1>13 DEF Crash, Final, disk
<1>14. CASE UNCHANGED vars
  BY <1>14 DEF vars, process, disk
<1> QED
  BY <1>1, <1>2, <1>3, <1>4, <1>5, <1>6, <1>7, <1>8, <1>9, <1>10, <1>11,
    <1>12, <1>13, <1>14 DEF Next, Process, SaveCheckpoint

\* Room for the new path.
LEMMA RoomStep == IInv /\ [Next]_vars => RoomInv'
<1> SUFFICES ASSUME IInv, [Next]_vars
             PROVE  RoomInv'
  OBVIOUS
<1> USE RunAssumption DEF IInv, RoomInv, TypeOK
<1>1. CASE StartFresh
  BY <1>1 DEF StartFresh, Blank
<1>2. CASE Resume
  BY <1>2 DEF Resume
<1>3. CASE ResumeFails
  BY <1>3 DEF ResumeFails, disk
<1>4. CASE Train
  BY <1>4 DEF Train, disk
<1>5. CASE Record
  BY <1>5 DEF Record
<1>6. CASE Prune
  <2>1. MaxKeep > 0 => Len(saved') < MaxKeep
    BY <1>6, DroppedFacts DEF Prune
  <2> QED
    BY <2>1
<1>7. CASE BeginActor
  BY <1>7 DEF BeginActor
<1>8. CASE EndActor
  BY <1>8 DEF EndActor
<1>9. CASE SaveData
  BY <1>9 DEF SaveData
<1>10. CASE WriteTracker
  BY <1>10 DEF WriteTracker
<1>11. CASE Copy
  BY <1>11 DEF Copy
<1>12. CASE Advance
  BY <1>12 DEF Advance, IsLastStep, disk
<1>13. CASE Crash
  BY <1>13 DEF Crash, Final, disk
<1>14. CASE UNCHANGED vars
  BY <1>14 DEF vars, process, disk
<1> QED
  BY <1>1, <1>2, <1>3, <1>4, <1>5, <1>6, <1>7, <1>8, <1>9, <1>10, <1>11,
    <1>12, <1>13, <1>14 DEF Next, Process, SaveCheckpoint

\* What the list says of its paths.
LEMMA SavedFacts ==
    ASSUME IInv
    PROVE  /\ Len(saved) \in Nat
           /\ DOMAIN saved = 1..Len(saved)
           /\ \A i \in 1..Len(saved) : saved[i] \in Steps /\ Readable(actor[saved[i]])
           /\ pc \in {"actor", "actor written"} =>
                  \A i \in 1..Len(saved) : saved[i] # globalSteps
<1>1. saved \in Seq(Steps) /\ Rising(saved)
  BY DEF IInv, TypeOK, SavedInv, Rising
<1>2. /\ Len(saved) \in Nat
      /\ DOMAIN saved = 1..Len(saved)
      /\ \A i \in 1..Len(saved) : saved[i] \in Steps
      /\ saved = <<>> => Len(saved) = 0
  BY <1>1, LenProperties, ElementOfSeq, EmptySeq
<1>3. \A i \in 1..Len(saved) : Readable(actor[saved[i]])
  BY <1>2 DEF IInv, SavedAreComplete
<1>4. ASSUME pc \in {"actor", "actor written"}, NEW i \in 1..Len(saved)
      PROVE  saved[i] # globalSteps
  <2>1. saved # <<>> /\ Len(saved) \in 1..Len(saved)
    BY <1>2
  <2>5. saved[Len(saved)] = tracker
    BY <1>4, <2>1 DEF IInv, SavedInv
  <2>6. tracker < globalSteps /\ globalSteps \in Nat
    <3>1. pc \in BeforeTracker
      BY <1>4 DEF BeforeTracker
    <3> QED
      BY <3>1, StepInProgress, StepsAreNat
  <2>2. saved[Len(saved)] < globalSteps /\ globalSteps \in Nat
    BY <2>5, <2>6
  <2>7. i = Len(saved) \/ i < Len(saved)
    <3>1. Len(saved) \in Nat /\ i \in 1..Len(saved)
      BY <1>2, <1>4
    <3> QED
      BY <3>1
  <2>3. i = Len(saved) \/ saved[i] < saved[Len(saved)]
    BY <1>1, <1>4, <2>1, <2>7 DEF Rising
  <2>4. saved[i] \in Nat /\ saved[Len(saved)] \in Nat
    <3>1. i \in 1..Len(saved)
      BY <1>4
    <3> QED
      BY <1>2, <2>1, <3>1, StepsAreNat
  <2> QED
    BY <2>2, <2>3, <2>4
<1> QED
  BY <1>2, <1>3, <1>4

\* The paths that are counted: one more directory, one less, or the same.
LEMMA CompleteStep == IInv /\ [Next]_vars => SavedAreComplete'
<1> SUFFICES ASSUME IInv, [Next]_vars
             PROVE  SavedAreComplete'
  OBVIOUS
<1>1. CASE Prune
  <2>1. /\ Dropped \in 0..Len(saved)
        /\ Len(saved') = Len(saved) - Dropped
        /\ MaxKeep > 0 => Len(saved') < MaxKeep
        /\ saved' \in Seq(Steps)
        /\ \A i \in 1..Len(saved') : saved'[i] = saved[i + Dropped]
    BY <1>1, DroppedFacts DEF Prune, IInv, TypeOK
  <2>2. DOMAIN saved' = 1..Len(saved') /\ Len(saved') \in Nat
    BY <2>1, LenProperties
  <2>3. ASSUME NEW i \in DOMAIN saved'
        PROVE  Readable(actor'[saved'[i]])
    <3>6. Len(saved) \in Nat /\ i \in 1..Len(saved) - Dropped
      BY <2>1, <2>2, <2>3, SavedFacts
    <3>1. i + Dropped \in Dropped + 1..Len(saved) /\ i + Dropped \in 1..Len(saved)
      BY <2>1, <3>6
    <3>2. saved'[i] = saved[i + Dropped]
      BY <2>1, <2>2, <2>3
    <3>3. saved'[i] \in Steps /\ Readable(actor[saved'[i]])
      BY <3>1, <3>2, SavedFacts
    <3>4. \A j \in 1..Dropped : saved[j] # saved'[i]
      BY <1>1, <3>1, <3>2, PruneSpares DEF Prune
    <3>5. actor'[saved'[i]] = actor[saved'[i]]
      BY <1>1, <3>3, <3>4 DEF Prune
    <3> QED
      BY <3>3, <3>5 DEF Readable
  <2> QED
    BY <2>1, <2>2, <2>3, RunAssumption DEF SavedAreComplete
<1>2. CASE BeginActor
  <2>1. \A i \in 1..Len(saved) : actor'[saved[i]] = actor[saved[i]]
    BY <1>2, SavedFacts DEF BeginActor, IInv, TypeOK
  <2> QED
    BY <1>2, <2>1, SavedFacts DEF BeginActor, IInv, SavedAreComplete, Readable
<1>3. CASE EndActor
  <2>1. globalSteps \in Steps
    BY <1>3, StepInProgress DEF EndActor, BeforeTracker
  <2>2. /\ saved' \in Seq(Steps)
        /\ Len(saved') = Len(saved) + 1
        /\ \A i \in 1..Len(saved) : saved'[i] = saved[i]
        /\ saved'[Len(saved) + 1] = globalSteps
    <3>1. saved \in Seq(Steps) /\ saved' = Append(saved, globalSteps)
      BY <1>3 DEF EndActor, IInv, TypeOK
    <3> QED
      BY <2>1, <3>1, AppendProperties
  <2>3. DOMAIN saved' = 1..Len(saved) + 1
    BY <2>2, LenProperties
  <2>4. Readable(actor'[globalSteps])
    BY <1>3, <2>1 DEF EndActor, IInv, TypeOK, Readable, Unreadable
  <2>5. \A i \in 1..Len(saved) : Readable(actor'[saved'[i]])
    BY <1>3, <2>2, SavedFacts DEF EndActor, IInv, TypeOK
  <2>6. MaxKeep > 0 => Len(saved') <= MaxKeep
    <3>1. MaxKeep > 0 => Len(saved) < MaxKeep
      BY <1>3 DEF EndActor, IInv, RoomInv
    <3>2. Len(saved) \in Nat
      BY SavedFacts
    <3> QED
      BY <2>2, <3>1, <3>2, RunAssumption
  <2>7. \A i \in DOMAIN saved' : i = Len(saved) + 1 \/ i \in 1..Len(saved)
    <3>1. Len(saved) \in Nat
      BY SavedFacts
    <3> QED
      BY <2>3, <3>1
  <2> QED
    BY <2>2, <2>4, <2>5, <2>6, <2>7 DEF SavedAreComplete
<1>4. CASE Crash
  <2>1. saved' = <<>>
    BY <1>4 DEF Crash
  <2>2. DOMAIN saved' = {} /\ Len(saved') = 0
    BY <2>1, EmptySeq
  <2> QED
    BY <2>2, RunAssumption DEF SavedAreComplete
<1>5. CASE UNCHANGED <<saved, actor>>
  BY <1>5 DEF IInv, SavedAreComplete, Readable
<1>6. \/ Prune \/ BeginActor \/ EndActor \/ Crash
      \/ UNCHANGED <<saved, actor>>
  BY DEF Next, Process, SaveCheckpoint, StartFresh, Resume, ResumeFails, Train,
         Record, SaveData, WriteTracker, Copy, Advance, vars, process, disk
<1> QED
  BY <1>1, <1>2, <1>3, <1>4, <1>5, <1>6

LEMMA StepNumbers ==
    IInv => globalSteps \in Nat /\ tracker \in Nat /\ tracker % SaveFreq = 0
BY RunAssumption DEF IInv, TypeOK, LossInv

\* A multiple of the period is followed by the next one a period later.
LEMMA NextMultiple ==
    ASSUME NEW t \in Nat, NEW k \in Nat \ {0}, t % k = 0
    PROVE  (t + k) % k = 0
<1>1. \A q \in Int : (k * q) % k = 0
  BY SMTT(30)
<1>2. PICK q \in Int : t = k * q
  <2>1. t \div k \in Int /\ t = k * (t \div k) + (t % k)
    BY SMTT(30)
  <2> QED
    BY <2>1
<1>3. t + k = k * (q + 1) /\ q + 1 \in Int
  BY <1>2
<1> QED
  BY <1>1, <1>3

\* So a step that is not due comes earlier than a period after a due one.
LEMMA NotDueYet ==
    ASSUME NEW s \in Nat, NEW t \in Nat, t % SaveFreq = 0, s % SaveFreq # 0,
           s - t <= SaveFreq
    PROVE  s - t < SaveFreq
<1>1. (t + SaveFreq) % SaveFreq = 0
  BY RunAssumption, NextMultiple
<1>2. s # t + SaveFreq
  BY <1>1
<1> QED
  BY <1>2, RunAssumption

\* The distance to the tracked step.
LEMMA LossStep == IInv /\ [Next]_vars => LossInv'
<1> SUFFICES ASSUME IInv, [Next]_vars
             PROVE  LossInv'
  OBVIOUS
<1> USE RunAssumption DEF IInv, LossInv, LossBounded, Running, Final,
  MemoryInv, OrderInv, TypeOK, BeforeTracker, Saving, Stepped, HistoryRows
<1>1. CASE StartFresh
  BY <1>1 DEF StartFresh, Blank
<1>2. CASE Resume
  BY <1>2 DEF Resume
<1>3. CASE ResumeFails
  BY <1>3 DEF ResumeFails, disk
<1>4. CASE Train
  BY <1>4 DEF Train, disk
<1>5. CASE Record
  <2>1. UNCHANGED <<globalSteps, tracker>> /\ globalSteps - tracker <= SaveFreq
    BY <1>5 DEF Record
  <2>2. CASE pc' = "prune"
    <3>1. globalSteps % SaveFreq = 0
      BY <1>5, <2>2 DEF Record, SaveDue, IsLastStep
    <3> QED
      BY <2>1, <2>2, <3>1
  <2>3. CASE pc' = "advance"
    <3>1. globalSteps % SaveFreq # 0
      BY <1>5, <2>3 DEF Record, SaveDue
    <3>2. globalSteps \in Nat /\ tracker \in Nat /\ tracker % SaveFreq = 0
      BY StepNumbers
    <3>3. globalSteps - tracker < SaveFreq
      BY <2>1, <3>1, <3>2, NotDueYet
    <3> QED
      BY <2>1, <2>3, <3>3
  <2>4. CASE pc' = "raised"
    BY <2>1, <2>4
  <2> QED
    BY <1>5, <2>2, <2>3, <2>4 DEF Record
<1>6. CASE Prune
  BY <1>6 DEF Prune
<1>7. CASE BeginActor
  BY <1>7 DEF BeginActor
<1>8. CASE EndActor
  BY <1>8 DEF EndActor
<1>9. CASE SaveData
  BY <1>9 DEF SaveData
<1>10. CASE WriteTracker
  BY <1>10 DEF WriteTracker
<1>11. CASE Copy
  BY <1>11 DEF Copy
<1>12. CASE Advance
  <2>1. CASE IsLastStep
    BY <1>12, <2>1 DEF Advance, disk
  <2>2. CASE ~IsLastStep
    BY <1>12, <2>2 DEF Advance, disk
  <2> QED
    BY <2>1, <2>2
<1>13. CASE Crash
  BY <1>13 DEF Crash, Final, disk
<1>14. CASE UNCHANGED vars
  BY <1>14 DEF vars, process, disk
<1> QED
  BY <1>1, <1>2, <1>3, <1>4, <1>5, <1>6, <1>7, <1>8, <1>9, <1>10, <1>11,
    <1>12, <1>13, <1>14 DEF Next, Process, SaveCheckpoint

-----------------------------------------------------------------------------
(***************************************************************************)
(* The theorems.                                                           *)
(***************************************************************************)

LEMMA InitInv == Init => IInv
<1> SUFFICES ASSUME Init
             PROVE  IInv
  OBVIOUS
<1>1. saved \in Seq(Steps) /\ Len(saved) = 0 /\ saved = <<>> /\ Rising(saved)
  BY EmptySeq, EmptyRising DEF Init
<1>2. DOMAIN saved = {}
  BY <1>1
<1>3. TypeOK
  BY <1>1, RunAssumption, InitialValues DEF Init, TypeOK, Locations, Unreadable
<1>4. MemoryInv /\ OrderInv /\ DiskInv
  BY RunAssumption DEF Init, MemoryInv, OrderInv, DiskInv, MemoryIsPreviousStep,
     BeforeTracker, Saving, Stepped, HistoryRows, Steps, Unreadable
<1>5. SavedInv
  BY <1>1 DEF Init, SavedInv, Rising
<1>6. TrackedActorComplete /\ BrokenInv /\ RoomInv
  BY DEF Init, TrackedActorComplete, BrokenInv, CompleteResumable, RoomInv
<1>7. SavedAreComplete
  BY <1>1, <1>2, RunAssumption DEF SavedAreComplete
<1>8. LossInv
  <2>1. 0 % SaveFreq = 0
    BY RunAssumption
  <2> QED
    BY <2>1 DEF Init, LossInv, LossBounded, Running, Final, BeforeTracker
<1> QED
  BY <1>3, <1>4, <1>5, <1>6, <1>7, <1>8 DEF IInv

LEMMA Inductive == Spec => []IInv
<1>1. IInv /\ [Next]_vars => IInv'
  BY MemoryStep, OrderStep, DiskStep, SavedStep, TypeStep, TrackedStep,
     BrokenStep, RoomStep, CompleteStep, LossStep DEF IInv
<1> QED
  BY InitInv, <1>1, PTL DEF Spec

\* Every variable always holds a value of its kind.
THEOREM TypeCorrect == Spec => []TypeOK
<1>1. IInv => TypeOK
  BY DEF IInv
<1> QED
  BY <1>1, Inductive, PTL

\* Whenever a step starts, after any number of crashes, policy and sampler are
\* in the state that the step before left, in one and the same process.
THEOREM ResumeIsConsistent == Spec => []MemoryIsPreviousStep
<1>1. IInv => MemoryIsPreviousStep
  BY DEF IInv, MemoryInv
<1> QED
  BY <1>1, Inductive, PTL

\* The actor of the tracked checkpoint is complete at any time, unless the
\* rotation keeps a single one.
THEOREM TrackedActorIsComplete == Spec => []TrackedActorComplete
<1>1. IInv => TrackedActorComplete
  BY DEF IInv
<1> QED
  BY <1>1, Inductive, PTL

\* With a tree, and more than one checkpoint kept, a restart can fail only
\* because the copy of bmc/ was cut short.
THEOREM CompleteIsResumable ==
    UseTree /\ MaxKeep # 1 => (Spec => []CompleteResumable)
<1> SUFFICES ASSUME UseTree, MaxKeep # 1
             PROVE  Spec => []CompleteResumable
  OBVIOUS
<1>1. IInv => CompleteResumable
  BY DEF IInv, BrokenInv
<1> QED
  BY <1>1, Inductive, PTL

\* The rotation counts complete directories only, and not too many.
THEOREM SavedPathsComplete == Spec => []SavedAreComplete
<1>1. IInv => SavedAreComplete
  BY DEF IInv
<1> QED
  BY <1>1, Inductive, PTL

\* A crash costs at most SaveFreq steps and the one in progress.
THEOREM LossIsBounded == Spec => []LossBounded
<1>1. IInv => LossBounded
  BY DEF IInv, LossInv
<1> QED
  BY <1>1, Inductive, PTL

\* The tracker never goes back, and a restart goes on behind it or fails.
THEOREM TrackerIsMonotone == Spec => TrackerNeverBack
<1>1. IInv /\ [Next]_vars => [tracker' >= tracker /\
          (pc = "boot" /\ tracker # 0 => pc' = "broken" \/ globalSteps' > tracker)]_vars
  <2> SUFFICES ASSUME IInv, Next
               PROVE  tracker' >= tracker /\
                      (pc = "boot" /\ tracker # 0 =>
                          pc' = "broken" \/ globalSteps' > tracker)
    OBVIOUS
  <2>1. tracker \in Nat /\ globalSteps \in Nat
    BY RunAssumption DEF IInv, TypeOK
  <2>2. CASE WriteTracker
    <3>1. tracker <= globalSteps
      BY <2>2, StepInProgress DEF WriteTracker, BeforeTracker
    <3> QED
      BY <2>1, <2>2, <3>1 DEF WriteTracker
  <2>3. CASE Resume
    BY <2>1, <2>3 DEF Resume
  <2>4. CASE ResumeFails
    BY <2>1, <2>4 DEF ResumeFails, disk
  <2>5. CASE UNCHANGED tracker /\ (pc # "boot" \/ tracker = 0)
    BY <2>1, <2>5
  <2>6. \/ WriteTracker \/ Resume \/ ResumeFails
        \/ UNCHANGED tracker /\ (pc # "boot" \/ tracker = 0)
    BY DEF Next, Process, SaveCheckpoint, StartFresh, Train, Record, Prune,
       BeginActor, EndActor, SaveData, Copy, Advance, Crash, disk
  <2> QED
    BY <2>2, <2>3, <2>4, <2>5, <2>6
<1> QED
  BY <1>1, Inductive, PTL DEF Spec, TrackerNeverBack
=============================================================================
