\* Two additions, one interrupted generator or bad merge, one data point sent.
SPECIFICATION Spec
CONSTANTS
    Null = Null
    Upstream <- MCUpstream
    ClassName <- MCClassName
    EdgeClassName <- MCEdgeClassName
    SafeName <- MCSafeName
    ReservedProperties <- MCReserved
    TemplateSuffixed = {"host.label"}
    Extensions <- MCExtensions
    Registry <- MCRegistry
    Base = "base"
    DataPoints <- MCDataPoints
    MaxChanges = 2
    MaxInterruptions = 1
    MaxPublished = 1
CHECK_DEADLOCK FALSE
INVARIANTS
    ReleaseAgrees
    EveryEventIndexable
    EveryDocumentReadable
PROPERTIES
    EverythingIndexed
