SPECIFICATION FairLinkSpec
CONSTANTS
    Pid = {p1}
    Task = {1, 2}
    None = None
    MaxRetries = 1
    InboxCap = 1
    CliPid = p1
    CliRetries = 1
    MaxTraffic = 2
    MaxStream = 20
INVARIANT LinkTypeOK
INVARIANT DuplicatesAreResends
INVARIANT CleanDelivery
PROPERTY CommandsEnd
PROPERTY Retransmits
CHECK_DEADLOCK FALSE
