SPECIFICATION Spec
CONSTANTS
    Scores = {0, 1}
    Calls = 3
CHECK_DEADLOCK FALSE
INVARIANT OwnAnswer
INVARIANT NoComputationLeft
PROPERTY CallEnds
