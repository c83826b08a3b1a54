SPECIFICATION Spec
CONSTANTS
    Client = {c1}
    Key = {k1}
    Execution = {e1}
    Worker = {w1, w2}
    Cancellable = {e1}
    Kind = {convert, index}
    Handled = {convert}
    None = None
    MaxAttempts = 3
    MaxReports = 1
    Faults = {"database", "crash", "shutdown", "overrun"}
    MaxFaults = 2
INVARIANTS
    TypeOK
    LeaseIsHeld
    HandlersAreExclusive
    LogTellsStatus
    HistoryIsLegal
    AttemptsAreLogged
PROPERTIES
    TerminalIsFinal
    CancelWins
    ImplementsContract
