\* A redeployment turns coalescing off while timers are registered.
SPECIFICATION Spec
CONSTANTS
    Null = Null
    Pairs = {p}
    Elements = {x, y}
    Ttl = 4
    Intervals = {0, 2}
    Upgrades <- TurnOff
    Punctual = TRUE
    MaxEventTime = 3
    MaxProcessingTime = 9
    QuietAfter = 5
INVARIANTS
    TimersBelongToState
