SPECIFICATION Spec
CONSTANTS
    Execution = {e1}
    Reader = {numbered}
    ByHeader = {}
    MaxEvents = 4
    MaxOpens = 1
    Faults = {}
    MaxFaults = 0
CHECK_DEADLOCK FALSE
INVARIANTS
    EndedIsTold
