\* A replica whose writes take longer than max.poll.interval.ms.
SPECIFICATION Spec
CONSTANTS
    Null = Null
    Indexers = {i1, i2}
    Elements = {e1}
    MaxPoll = 2
    MaxEvents = 2
    MaxCrashes = 0
    MaxRebalances = 1
    PollsInTime = FALSE
CHECK_DEADLOCK FALSE
INVARIANTS
    CommittedIsApplied
