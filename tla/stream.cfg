SPECIFICATION FairSpec
CONSTANTS
    Execution = {e1}
    Reader = {numbered, browser}
    ByHeader = {browser}
    MaxEvents = 4
    MaxOpens = 3
    Faults = {"database", "network"}
    MaxFaults = 1
CHECK_DEADLOCK FALSE
INVARIANTS
    TypeOK
    NothingSkipped
    NothingTwice
    EndsAreTerminal
PROPERTIES
    StreamsEnd
    ToldInTheEnd
