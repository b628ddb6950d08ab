SPECIFICATION Spec
CONSTANTS
    Line <- UserLines
    None = None
    MaxRetries = 2
    MaxTyped = 3
    MaxConnects = 2
    MaxQueue = 2
    MaxPackets = 1
    MaxText = 4
    MaxTokens = 3
PROPERTY CleanupClosesNothing
CHECK_DEADLOCK FALSE
