\* Two emitters, one line, one disturbance.
SPECIFICATION Spec
CONSTANTS
    c1 = c1
    c2 = c2
    Clients = {c1, c2}
    Results = {c1, c2}
    Undeclared = {}
    MaxLines = 1
    MaxDisturbances = 1
SYMMETRY EmitterSymmetry
CHECK_DEADLOCK FALSE
INVARIANTS TypeOK AckedIsRecorded AuditPasses CardFollowsStream  WarningFollows
PROPERTIES NothingAfterEnd
