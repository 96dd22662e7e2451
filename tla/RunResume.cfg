SPECIFICATION Spec
CONSTANTS
    TotalSteps = 5
    SaveFreq = 2
    MaxKeep = 0
    UseTree = TRUE
    MaxCrashes = 1
CHECK_DEADLOCK FALSE
INVARIANT LatestResumable
