SPECIFICATION Spec
CONSTANTS
    MaxRuns = 1
    Requests <- FullSha
    MaxReruns = 0
    MaxTroubles = 1
INVARIANT DeployedTagWasPushed
CHECK_DEADLOCK FALSE
