SPECIFICATION LoopSpec
CONSTANTS
    Conn = {c1, c2}
    PairCommand = {p1}
    NoCommand = NoCommand
    PreauthMax = 2
    UnpairMax = 0
INVARIANT OneAttemptPerWindow
CHECK_DEADLOCK FALSE
