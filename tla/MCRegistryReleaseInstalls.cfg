\* A release is installed over the one before it.
SPECIFICATION Spec
CONSTANTS
    Null = Null
    Upstream <- MCUpstream
    ClassName <- MCClassName
    EdgeClassName <- MCEdgeClassName
    SafeName <- MCSafeName
    ReservedProperties <- MCReserved
    TemplateSuffixed = {"host.label"}
    Extensions <- MCExtensions
    Registry <- MCRegistry
    Base = "base"
    DataPoints <- MCDataPoints
    MaxChanges = 1
    MaxInterruptions = 0
    MaxPublished = 1
CHECK_DEADLOCK FALSE
INVARIANTS
    ReleaseInstalls
