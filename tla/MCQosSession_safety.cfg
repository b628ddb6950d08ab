SPECIFICATION Spec
CONSTANTS
    Pid = {p1, p2}
    Task = {1, 2, 3}
    None = None
    MaxRetries = 1
    InboxCap = 2
INVARIANT TypeOK
INVARIANT RetryTasksOwned
INVARIANT ActiveAreUnfinished
PROPERTY TransactionsAdvance
SYMMETRY Alike
CHECK_DEADLOCK FALSE
