SPECIFICATION DeviceSpec
CONSTANTS
    f1 = f1
    f2 = f2
    f3 = f3
    f4 = f4
    f5 = f5
    Frame = {f1, f2, f3, f4, f5}
    FrameKind <- Kinds
    QueueMax = 1
    CompletionMax = 2
    TouchMax = 2
    HostValue = {"Available", "Unavailable", "ReadFailed"}
    StreamMax = 2
    AttemptLimit = 2
    Capacity = 2
    TouchGenMax = 6
    BandMax = 3
    RequestMax = 2
    CommandMax = 3
    PairMax <- MCPairMax
    ClientGenMax = 1
    Answer = {"Available", "Unavailable"}
    ClientFaults = {}
INVARIANTS
    AnswersAreTrue
    AnswersAreLive
    TouchesArrive
    FramesAreWhole
    OwnersDoNotOverlap
PROPERTIES
    ContactMovesOn
    PresentsOrFails
    BootSettles
    AvailabilityShown
CHECK_DEADLOCK FALSE
