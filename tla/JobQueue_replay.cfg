\* queue.ts:1 against a crash before the "claimed" snapshot is written.
SPECIFICATION Spec
CONSTANTS
    w1 = w1
    w2 = w2
    r1 = r1
    Workers = {w1}
    RunIds = {}
    Progress = {"building"}
    Outcomes = {"completed"}
    MaxJobs = 1
    QueueCap = 2
    MaxChain = 4
    MaxCrashes = 1
    MaxWriteFailures = 0
INVARIANTS NeverReplayed
