SPECIFICATION ToolsSpec
CONSTANTS
    ProcMax = 3
    ProfileName = {n1}
    RoleRoot = {r1, r2}
    Bind = {b1}
    ProfileLimit = 1
    Recording = {a, b}
    Run = {run1, run2}
    Owned = {run2}
    SuccessLimit = 0
    NonSuccessLimit = 1
    ByteMax = 2
    Date = {1, 2}
    AdminMax = 1
INVARIANTS
    CommandsAreSafe
    RecordsAreSound
PROPERTIES
    OperationsEnd
    RetainedStays
CHECK_DEADLOCK FALSE
