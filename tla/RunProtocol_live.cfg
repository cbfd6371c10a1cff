\* One emitter, one line: what the runner promises to finish.
SPECIFICATION FairSpec
CONSTANTS
    c1 = c1
    c2 = c2
    Clients = {c1}
    Results = {}
    Undeclared = {c1}
    MaxLines = 1
    MaxDisturbances = 1
CHECK_DEADLOCK FALSE
PROPERTIES RunCloses EmitReturns
