\* Sessions whose steps fail, those that print diagnostics included.
SPECIFICATION DemoSpec
CONSTANTS
    Users = {user}
    Tests = 1
    Faults = {"step"}
INVARIANTS
    SessionsCleanUp
