SPECIFICATION LoopSpec
CONSTANTS
    Conn = {c1, c2}
    PairCommand = {p1}
    NoCommand = NoCommand
    PreauthMax = 2
    UnpairMax = 1
INVARIANTS
    LoopInv
PROPERTIES
    UnpairLeavesNoSession WindowAnswered HostStops
CHECK_DEADLOCK FALSE
