CONSTANTS
    ChannelSize = 1
    MaxVersion = 2
SPECIFICATION FairSpec
INVARIANT TypeOK
PROPERTIES ShutdownTerminates EventuallyFresh
\* The task ends after the shutdown branch; nothing runs after it.
CHECK_DEADLOCK FALSE
