\* The Job and an indexer against every state a database may have been left in.
SPECIFICATION Spec
CONSTANTS
    Null = Null
    Initializers = {job, indexer}
    Replicas = {indexer}
    BackoffLimit = 2
    Schema <- MCSchema
    Kind <- MCKind
    Definitions <- MCDefinitions
    AllowDatabaseCreation = TRUE
    MaxCrashes = 1
CHECK_DEADLOCK FALSE
INVARIANTS
    ReadyMeansComplete
    NoopOnComplete
PROPERTIES
    EventuallyReady
