SPECIFICATION Spec
CONSTANTS
    MaxRuns = 3
    Requests <- Mixed
    MaxReruns = 1
    MaxTroubles = 1
INVARIANTS TypeOK EnvironmentsRunTestedImages StagedIsWhatIsPromoted SuccessMeansShipped
PROPERTIES DeployedInOrder EveryRunReports ImplementsReleaseContract
\* when every run has ended, nothing is left to do
CHECK_DEADLOCK FALSE
