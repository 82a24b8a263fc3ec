\* An interval that EngineConfig accepts, and no delay at all.
SPECIFICATION Spec
CONSTANTS
    Null = Null
    Contributors = {1}
    Attributes = {a}
    Values = {x, y}
    Elements <- MCElements
    Ttl = 4
    Intervals = {3}
    Lateness = 0
    Epoch = 1
    MaxDelay = 0
    MaxReceived = 3
    MaxInFlight = 2
    MaxEventTime = 7
    MaxProcessingTime = 10
    QuietAfter = 6
PROPERTIES
    ExpiresOnlyTheSilent
