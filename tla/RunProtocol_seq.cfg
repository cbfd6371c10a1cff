\* events.md:49 against one failed write of an event that the next write flushes.
SPECIFICATION Spec
CONSTANTS
    c1 = c1
    c2 = c2
    Clients = {c1, c2}
    Results = {}
    Undeclared = {}
    MaxLines = 1
    MaxDisturbances = 1
CHECK_DEADLOCK FALSE
INVARIANTS SeqIncreases
