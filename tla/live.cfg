SPECIFICATION FairSpec
CONSTANTS
    Client = {c1}
    Key = {k1}
    Execution = {e1}
    Worker = {w1, w2}
    Cancellable = {e1}
    Kind = {convert, index}
    Handled = {convert}
    None = None
    MaxAttempts = 3
    MaxReports = 1
    Faults = {"database", "crash", "shutdown"}
    MaxFaults = 3
INVARIANTS
    QueuedIsDispatched
PROPERTIES
    EveryExecutionEnds
    CancelIsSeen
