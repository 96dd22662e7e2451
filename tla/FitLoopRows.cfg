SPECIFICATION FitSpec
CONSTANTS
    Arms <- BareArms
    Nodes <- BareNodes
    Root = 0
    Children <- BareChildren
    Cluster <- BareCluster
    Under <- BareUnder
    BatchSize = 3
    RoundRobinInit = TRUE
    UseTree = FALSE
    One = 2
    LambdaMin = 1
    LambdaMax = 5
    TotalSteps = 3
CHECK_DEADLOCK FALSE
INVARIANT EveryStepRecorded
