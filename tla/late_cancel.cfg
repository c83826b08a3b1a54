SPECIFICATION FairSpec
CONSTANTS
    Client = {c1}
    Key = {k1}
    Execution = {e1}
    Worker = {w1}
    Cancellable = {e1}
    Kind = {convert}
    Handled = {convert}
    None = None
    MaxAttempts = 3
    MaxReports = 1
    Faults = {}
    MaxFaults = 0
PROPERTIES
    CancellingEnds
