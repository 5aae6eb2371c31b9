SPECIFICATION Spec
CONSTANTS
    MaxRuns = 2
    Requests <- Mixed
    MaxTroubles = 2
INVARIANTS EnvironmentsRunTestedImages SuccessMeansShipped
PROPERTIES JenkinsDeploysInOrder RunsEnd ImplementsReleaseContract
\* when every run has ended, nothing is left to do
CHECK_DEADLOCK FALSE
