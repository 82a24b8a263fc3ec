\* Every pair of data points of a small registry.
SPECIFICATION Spec
CONSTANTS
    Null = Null
    ServiceName = "service.name"
    Names <- MCNames
    EntityTypes <- MCEntityTypes
    Identity <- MCIdentity
    Fields <- MCFields
    Relationships <- MCRelationships
    Unset <- MCUnset
    JsonBefore <- MCJsonBefore
    Requests <- MCRequests
    MaxCalls = 2
CHECK_DEADLOCK FALSE
INVARIANTS
    TypeOK
    EndpointsEmitted
    ContributorDeterminesElement
    PeersSurvive
    SidesCommute
