SPECIFICATION Spec
CONSTANTS
    wf1 = wf1
    pod1 = pod1
    pod2 = pod2
    Names <- OneName
    Replicas <- OnePod
    Lifecycle <- WithRetry
    NameReuse = FALSE
    Faults <- AllFaults
    MaxFaults = 2
    MaxVersions = 6
INVARIANTS QuietMeansDelivered QuietMeansRecorded
PROPERTY RecordedIsNotResent
\* the bounded life of the workflows ends, and with it the behaviour
CHECK_DEADLOCK FALSE
