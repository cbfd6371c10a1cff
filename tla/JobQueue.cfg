\* Two workers, three jobs; the process may die between any two writes, and one write
\* may be refused.
SPECIFICATION Spec
CONSTANTS
    w1 = w1
    w2 = w2
    r1 = r1
    Workers = {w1, w2}
    RunIds = {}
    Progress = {"building"}
    Outcomes = {"completed"}
    MaxJobs = 3
    QueueCap = 2
    MaxChain = 3
    MaxCrashes = 1
    MaxWriteFailures = 1
INVARIANTS ReplaysAreLosses NothingUnsaved BacklogCapped NoLostWakeup
PROPERTIES ServedInOrder LifecycleSpec
