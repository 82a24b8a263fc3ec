\* A live stream: the delay and the interval fit into TTL and lateness.
SPECIFICATION Spec
CONSTANTS
    Null = Null
    Contributors = {1}
    Attributes = {a}
    Values = {x, y}
    Elements <- MCElements
    Ttl = 3
    Intervals = {0, 1}
    Lateness = 0
    Epoch = 2
    MaxDelay = 1
    MaxReceived = 3
    MaxInFlight = 2
    MaxEventTime = 6
    MaxProcessingTime = 8
    QuietAfter = 4
INVARIANTS
    OnlyRepetitionsWait
PROPERTIES
    ExpiresOnlyTheSilent
    EventuallyRetracted
