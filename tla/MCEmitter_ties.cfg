CONSTANTS
    ChannelSize = 1
    MaxVersion = 2
SPECIFICATION Spec
PROPERTY ShutdownWinsTies
CHECK_DEADLOCK FALSE
