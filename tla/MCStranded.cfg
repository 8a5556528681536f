SPECIFICATION StoreSpec
CONSTANTS
    HostKey = {h1, h2}
    SequenceMax = 9
    ConfigMax = 2
    DeviceGenMax = 2
INVARIANT InterruptedIsRecoverable
CHECK_DEADLOCK FALSE
