SPECIFICATION Spec
CONSTANTS
    None = none
    Partial = partial
    Content = {paper}
    Upload = {u1, u2}
    Conversion = {j1}
    ParserVersion = {v1}
    Release = {docling1, docling2}
    Caller <- MCCaller
    ObjectKey <- MCObjectKey
    Bytes <- MCBytes
    Metadata <- MCMetadata
    Topology = "vendorHosted"
    MaxSends = 1
    MaxRuns = 1
    Faults = {}
    MaxFaults = 0
CHECK_DEADLOCK FALSE
INVARIANT NoneRefused
