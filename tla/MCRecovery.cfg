\* Failures and replays: the topic is repaired, and nothing stays for ever.
SPECIFICATION Spec
CONSTANTS
    Null = Null
    Contributors = {1, 2}
    Attributes = {a}
    Values = {x, y}
    Elements <- MCElements
    Ttl = 1
    MaxEventTime = 2
    MaxProcessingTime = 2
    QuietAfter = 1
    MaxLog = 2
    MaxSending = 2
    MaxFailures = 1
INVARIANTS
    ReplayRepairs
PROPERTIES
    NoGhost
