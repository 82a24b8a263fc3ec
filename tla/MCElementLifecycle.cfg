\* The lifecycle operator: safety, its contract and eventual retraction.
SPECIFICATION Spec
CONSTANTS
    a = a
    b = b
    x = x
    y = y
    Null = Null
    Contributors = {1, 2}
    Attributes = {a, b}
    Values = {x, y}
    Ttl = 2
    TicksPerSecond = 2
    MaxEventTime = 4
    MaxProcessingTime = 4
    QuietAfter = 1
    Elements <- MCElements
    LegacyStates <- MCLegacy
INVARIANTS
    IndexIsRebuild
    PublishedIsMerge
    NeverThrows
    NoOverdueContributor
PROPERTIES
    EventuallyRetracted
    NoTimerBehindWatermark
    RefinesContract
