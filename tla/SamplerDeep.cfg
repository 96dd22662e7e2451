SPECIFICATION FairSpec
CONSTANTS
    Arms <- DeepArms
    Nodes <- DeepNodes
    Root = 0
    Children <- DeepChildren
    Cluster <- DeepCluster
    Under <- DeepUnder
    BatchSize = 4
    RoundRobinInit = TRUE
    UseTree = TRUE
CHECK_DEADLOCK FALSE
INVARIANT CountsNeverHide
INVARIANT StuckOnlyBetween
INVARIANT RoundRobinFresh
PROPERTY CallEnds
PROPERTY DeliversUniqueBatch
