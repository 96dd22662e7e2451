SPECIFICATION Spec
CONSTANTS
    Limits = {0, 2}
    TrainBatchSize = 2
    GenBatchSize = 3
    Rollouts = 2
    Epochs = 2
    EpochLength = 2
    TotalSteps = 3
    SaveFreq = 2
    MaxRestarts = 1
CHECK_DEADLOCK FALSE
INVARIANT TypeOK
INVARIANT WholeGroups
INVARIANT NeverTrainedTwice
INVARIANT StepsCountUpdates
PROPERTY FitEnds
