SPECIFICATION FairSpec
CONSTANTS
    Client = {c1}
    Key = {k1}
    Execution = {e1}
    Worker = {w1}
    Cancellable = {}
    Kind = {convert}
    Handled = {convert}
    None = None
    MaxAttempts = 3
    MaxReports = 1
    Faults = {"crash"}
    MaxFaults = 1
PROPERTIES
    RunningIsTakenUp
