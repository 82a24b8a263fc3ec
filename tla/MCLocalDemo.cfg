\* One user's commands on the demo, or one session with its own environment.
SPECIFICATION DemoSpec
CONSTANTS
    Users = {user}
    Tests = 2
    Faults = {"step", "removal", "close", "kill", "interrupt"}
INVARIANTS
    CleanupLeavesNothing
    NoForwardLeft
PROPERTIES
    ClaimsOnlyComplete
    EveryCommandEnds
