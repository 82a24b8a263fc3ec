\* A hook that is killed between the two files that name its savepoint.
SPECIFICATION DeploymentSpec
CONSTANTS
    NoSavepoint = NoSavepoint
    Pods = 2
    MaxRevision = 4
    Wanted = 3
    MaxFaults = 2
PROPERTIES
    RestoresRecordedStop
CHECK_DEADLOCK FALSE
