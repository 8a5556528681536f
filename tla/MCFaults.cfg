SPECIFICATION FaultsSpec
CONSTANTS
    CommandMax = 1
    PairMax <- MCPairMax
    ClientGenMax = 2
    Answer = {"Available"}
    ClientFaults = {"lost", "terminal", "unpair"}
    host = host
    d1 = d1
    t1 = t1
    t2 = t2
    NoTx = NoTx
    Host = host
    Device = {d1}
    Hosted = {}
    Tx = {t1, t2}
    Owner <- OwnerTwice
    MaxGeneration = 2
    Faults = {"stop", "deadline", "busy", "store", "unpair"}
    User = {a, b}
    GenerationMax = 1
    HostKey = {h1, h2}
    SequenceMax = 9
    ConfigMax = 2
    DeviceGenMax = 2
    PublishMax = 4
    LastId <- MCLastId
    Kinds = {"CompositionCheck"}
    Work = {c1, c2}
    Read = {q1}
    StreamError = {"EndOfStream"}
    Connector = {"AvailabilityTimeout"}
    WorkKind = {"ProtocolSession", "IdentityUnpair"}
    QueueMax = 2
INVARIANTS
    ClientInv ShownIsLive
    ConsentAndGeneration
    AckedIsDurable
    ReportsHold GenerationNamesHost
    AwaitsItsOwnRequest ShownIsCurrent
    DiagnosticsAreTrue
PROPERTIES
    NothingShownAfterUnpair
    ImplementsRegister
    ImplementsLatestValue
CHECK_DEADLOCK FALSE
