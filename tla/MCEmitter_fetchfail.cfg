CONSTANTS
    ChannelSize = 1
    MaxVersion = 2
SPECIFICATION SelectFairSpec
PROPERTY ShutdownTerminates
CHECK_DEADLOCK FALSE
