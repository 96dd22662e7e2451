SPECIFICATION Spec
CONSTANTS
    TotalSteps = 7
    SaveFreq = 2
    MaxKeep = 2
    UseTree = TRUE
    MaxCrashes = 3
CHECK_DEADLOCK FALSE
INVARIANT MemoryIsPreviousStep
INVARIANT CompleteResumable
INVARIANT LossBounded
INVARIANT SavedAreComplete
PROPERTY TrackerNeverBack
