SPECIFICATION Spec
CONSTANTS
    Scores = {0, 1}
    Calls = 1
CHECK_DEADLOCK FALSE
INVARIANT ScoreOrNone
