SPECIFICATION Spec
CONSTANTS
    wf1 = wf1
    pod1 = pod1
    pod2 = pod2
    Names <- OneName
    Replicas <- OnePod
    Lifecycle <- FailAtOnce
    NameReuse = TRUE
    Faults <- NoFaults
    MaxFaults = 0
    MaxVersions = 5
INVARIANT QuietMeansDelivered
\* the bounded life of the workflows ends, and with it the behaviour
CHECK_DEADLOCK FALSE
