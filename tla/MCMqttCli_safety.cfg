SPECIFICATION Spec
CONSTANTS
    Line <- UserLines
    None = None
    MaxRetries = 2
    MaxTyped = 3
    MaxConnects = 2
    MaxQueue = 2
    MaxPackets = 2
    MaxText = 4
    MaxTokens = 3
INVARIANT TypeOK
INVARIANT StreamsAreReachable
INVARIANT PingsAreForConnection
INVARIANT RetryBudget
CHECK_DEADLOCK FALSE
