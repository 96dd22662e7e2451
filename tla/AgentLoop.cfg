SPECIFICATION Spec
CONSTANTS
    NumServers = 2
    BatchSize = 2
    WorkerCounts = {1, 2}
    PromptLength = 2
    ResponseLength = 3
    TurnLimits = {0, 1}
    MaxCacheSize = 2
    MaxTokens = 2
    MaxReply = 2
    MaxCalls = 2
INVARIANT OnPolicy
INVARIANT Sticky
INVARIANT Balanced
INVARIANT RowsMatch
 
 
