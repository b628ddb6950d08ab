SPECIFICATION FairSpec
CONSTANTS
    Line <- SomeLines
    None = None
    MaxRetries = 1
    MaxTyped = 3
    MaxConnects = 2
    MaxQueue = 1
    MaxPackets = 1
    MaxText = 4
    MaxTokens = 3
PROPERTY StreamsEnd
PROPERTY PingersEnd
PROPERTY ExitEnds
PROPERTY HangupIsNoticed
CHECK_DEADLOCK FALSE
