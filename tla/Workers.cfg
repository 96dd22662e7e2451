SPECIFICATION WorkersSpec
CONSTANTS
    Sizes = {1, 2, 5, 6}
    BatchSizes = {1, 2, 4}
    GpuCounts = {1, 2, 3}
    RowCounts = {4, 6}
    Worlds = {1, 2}
    RowLengths = {1, 2, 3}
    MaxTokenLen = 4
    MiniBatchSize = 2
    MicroBatchSize = 1
    PpoEpochs = 2
CHECK_DEADLOCK FALSE
INVARIANT TypeOK
INVARIANT LatentsMatch
INVARIANT LogProbsInPlace
INVARIANT WholeMiniBatches
INVARIANT RanksBalanced
INVARIANT SomebodyGoesOn
