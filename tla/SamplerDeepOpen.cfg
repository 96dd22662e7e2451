SPECIFICATION FairSpec
CONSTANTS
    Arms <- DeepArms
    Nodes <- DeepNodes
    Root = 0
    Children <- DeepChildren
    Cluster <- DeepCluster
    Under <- DeepUnder
    BatchSize = 4
    RoundRobinInit = FALSE
    UseTree = TRUE
CHECK_DEADLOCK FALSE
INVARIANT OpenChildrenHavePrompts
