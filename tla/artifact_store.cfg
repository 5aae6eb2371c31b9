SPECIFICATION Spec
CONSTANTS
    Parameters <- Versions
    MaxEdits = 2
    MaxCrashes = 1
INVARIANTS GrantsItsBucketOnly TrustWasAsked ReadyMeansWhole
PROPERTIES Settles
