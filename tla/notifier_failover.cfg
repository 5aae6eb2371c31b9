SPECIFICATION FairSpec
CONSTANTS
    wf1 = wf1
    pod1 = pod1
    pod2 = pod2
    Names <- OneName
    Replicas <- TwoPods
    Lifecycle <- FailAtOnce
    NameReuse = FALSE
    Faults <- PodFaults
    MaxFaults = 2
    MaxVersions = 2
PROPERTIES EventuallyDelivered EventuallyQuiet
\* the bounded life of the workflows ends, and with it the behaviour
CHECK_DEADLOCK FALSE
