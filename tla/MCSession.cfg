SPECIFICATION AllSpec
CONSTANTS
    EffectMax = 3
    AppMax = 1
    AskMax = 2
    HostAnswer = "Timeout"
    CommandId = {u1, w1}
    WorkId = {u1}
    Transaction = {x1, x2}
    TableMax = 1
    UpdateMax = 2
    RunMax = 2
    CommandMax = 1
    PairMax <- MCPairMax
    ClientGenMax = 1
    Answer = {"Available", "Unavailable", "ReadFailed"}
    ClientFaults = {"lost", "shutdown"}
    host = host
    d1 = d1
    d2 = d2
    t1 = t1
    t2 = t2
    NoTx = NoTx
    Host = host
    Device = {d1, d2}
    Hosted = {d2}
    Tx = {t1, t2}
    Owner <- OwnerRivals
    MaxGeneration = 2
    Faults = {}
INVARIANTS
    RunsOnce ConfirmedByOwner
PROPERTIES
    WritesAreSound SessionSettles
    TableFrees
    KeepsReading ShutdownJoined
    PairingCompletes
CHECK_DEADLOCK FALSE
