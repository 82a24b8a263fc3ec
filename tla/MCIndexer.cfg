\* Two replicas; crashes at any point, rebalances between polls.
SPECIFICATION Spec
CONSTANTS
    Null = Null
    Indexers = {i1, i2}
    Elements = {e1, e2}
    MaxPoll = 2
    MaxEvents = 3
    MaxCrashes = 1
    MaxRebalances = 1
    PollsInTime = TRUE
CHECK_DEADLOCK FALSE
INVARIANTS
    CommittedIsApplied
    MalformedStops
PROPERTIES
    Converges
