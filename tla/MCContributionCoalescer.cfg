\* Timers fire on time; the interval may change but coalescing stays on.
SPECIFICATION Spec
CONSTANTS
    Null = Null
    Pairs = {p}
    Elements = {x, y}
    Ttl = 4
    Intervals = {0, 2, 3}
    Upgrades <- KeepCoalescing
    Punctual = TRUE
    MaxEventTime = 3
    MaxProcessingTime = 9
    QuietAfter = 5
INVARIANTS
    NothingWithheldForGood
    RefreshBeatsExpiry
PROPERTIES
    ForgetsOnlySilentPairs
    RateLimit
    SilentEventuallyForgotten
