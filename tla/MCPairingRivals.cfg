SPECIFICATION FairSpec
CONSTANTS
    host = host
    d1 = d1
    d2 = d2
    t1 = t1
    t2 = t2
    NoTx = NoTx
    Host = host
    Device = {d1, d2}
    Hosted = {d2}
    Tx = {t1, t2}
    Owner <- OwnerRivals
    MaxGeneration = 2
    Faults = {"stop", "deadline", "busy", "store", "unpair"}
INVARIANTS
    Agreement
PROPERTIES
    KeepsTrust ThreadsEnd
CHECK_DEADLOCK FALSE
