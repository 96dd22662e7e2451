SPECIFICATION Spec
CONSTANTS
    Datasets <- AllDatasets
    PctNum = 2
    PctDen = 5
    Saved <- SavedTrees
CHECK_DEADLOCK FALSE
INVARIANT TypeOK
INVARIANT TreeIsProper
INVARIANT SizeCheckNeverFires
INVARIANT StartSucceeds
INVARIANT SamplerFits
