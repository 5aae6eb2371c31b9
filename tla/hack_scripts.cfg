SPECIFICATION Spec
CONSTANTS
    Levels <- TheLevels
    Structure <- TheStructure
    Validations <- TheValidations
    Values <- TheValues
    Sources <- TheSources
    Manifests <- TheManifests
    SCHEMAS <- TheSchemas
    Shared = {"common"}
    Files <- TheFiles
    MaxRevision = 2
    MaxRuns = 2
INVARIANTS TypeOK PassesWhatTheServerAdmits GreenMeansValid PinnedToItsTag
\* a job that has ended has nothing left to do
CHECK_DEADLOCK FALSE
