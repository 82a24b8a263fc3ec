\* A refresh timer may fire late.
SPECIFICATION Spec
CONSTANTS
    Null = Null
    Pairs = {p}
    Elements = {x, y}
    Ttl = 4
    Intervals = {2}
    Upgrades <- KeepCoalescing
    Punctual = FALSE
    MaxEventTime = 3
    MaxProcessingTime = 9
    QuietAfter = 5
PROPERTIES
    RateLimit
