SPECIFICATION Spec
CONSTANTS
    Execution = {e1}
    Reader = {browser}
    ByHeader = {browser}
    MaxEvents = 4
    MaxOpens = 2
    Faults = {"network"}
    MaxFaults = 1
CHECK_DEADLOCK FALSE
INVARIANTS
    HeaderResumes
