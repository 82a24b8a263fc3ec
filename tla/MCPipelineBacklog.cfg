\* A backlog longer than the TTL is caught up with.
SPECIFICATION Spec
CONSTANTS
    Null = Null
    Contributors = {1}
    Attributes = {a}
    Values = {x, y}
    Elements <- MCElements
    Ttl = 3
    Intervals = {1}
    Lateness = 0
    Epoch = 5
    MaxDelay = 5
    MaxReceived = 3
    MaxInFlight = 2
    MaxEventTime = 9
    MaxProcessingTime = 8
    QuietAfter = 4
PROPERTIES
    ExpiresOnlyTheSilent
