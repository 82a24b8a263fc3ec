\* A failure after an expiry: does the topic still reconstruct the graph?
SPECIFICATION Spec
CONSTANTS
    Null = Null
    Contributors = {1}
    Attributes = {a}
    Values = {x}
    Elements <- MCElements
    Ttl = 1
    MaxEventTime = 2
    MaxProcessingTime = 2
    QuietAfter = 1
    MaxLog = 2
    MaxSending = 2
    MaxFailures = 1
INVARIANTS
    TopicReconstructs
