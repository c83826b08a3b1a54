SPECIFICATION Spec
CONSTANTS
    Client = {c1, c2, c3}
    Key = {k1, k2}
    Execution = {e1, e2, e3, e4}
    Worker = {}
    Cancellable = {}
    Kind = {convert}
    Handled = {convert}
    None = None
    MaxAttempts = 3
    MaxReports = 1
    Faults = {"api", "database"}
    MaxFaults = 3
SYMMETRY Interchangeable
INVARIANTS
    KeysAreIndexed
    AnswersAgree
    OneAcceptance
