SPECIFICATION ChannelSpec
CONSTANTS
    PublishMax = 4
INVARIANT UsedIsStable
CHECK_DEADLOCK FALSE
