SPECIFICATION Spec
CONSTANTS
    Client = {c1, c2}
    VersionId = {v1, v2, v3}
    Content = {aim1, aim2}
    Artifact = {a1}
    None = none
    MaxCalls = 5
SYMMETRY Symmetry
CHECK_DEADLOCK FALSE
INVARIANTS
    TypeOK
    OneExport
    RunsFit
    LineageIsSound
PROPERTIES
    VersionsOnlyAdvance
    SuccessorsFollow
