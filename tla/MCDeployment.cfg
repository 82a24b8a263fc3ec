\* Upgrades with killed hooks, stops that fail or end late, and failed jobs.
SPECIFICATION DeploymentSpec
CONSTANTS
    NoSavepoint = NoSavepoint
    Pods = 3
    MaxRevision = 7
    Wanted = 3
    MaxFaults = 4
INVARIANTS
    SuccessMeansDeployed
PROPERTIES
    RestoresTheLastStop
    NoStatePassedOver
    Settles
CHECK_DEADLOCK FALSE
