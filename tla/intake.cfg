SPECIFICATION FairSpec
CONSTANTS
    None = none
    Partial = partial
    Content = {paper}
    Upload = {u1, u2}
    Conversion = {j1}
    ParserVersion = {v1}
    Release = {docling1, docling2}
    Caller <- MCCaller
    ObjectKey <- MCObjectKey
    Bytes <- MCBytes
    Metadata <- MCMetadata
    Topology = "vendorHosted"
    MaxSends = 2
    MaxRuns = 2
    Faults = {"api", "crash", "database", "store"}
    MaxFaults = 1
CHECK_DEADLOCK FALSE
INVARIANTS
    TypeOK
    RecordedIsStored
    OneSource
    GrantsRestOnOneAdmission
    RaceIsHarmless
    DoneIsStored
PROPERTIES
    OnlyAdmitted
    KeepsItsPromise
    UploadsEnd
