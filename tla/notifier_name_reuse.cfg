SPECIFICATION Spec
CONSTANTS
    wf1 = wf1
    pod1 = pod1
    pod2 = pod2
    Names <- OneName
    Replicas <- OnePod
    Lifecycle <- WithRetry
    NameReuse = TRUE
    Faults <- AllFaults
    MaxFaults = 1
    MaxVersions = 6
INVARIANTS TypeOK NothingInvented RecordedAfterDelivery
PROPERTIES SettledIsFinal ImplementsCompletionNotification
\* the bounded life of the workflows ends, and with it the behaviour
CHECK_DEADLOCK FALSE
