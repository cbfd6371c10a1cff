\* local.test.ts:160-163 against a submit admitted before the executor died.
SPECIFICATION LocalSpec
CONSTANTS
    w1 = w1
    r1 = r1
    Workers = {w1}
    RunIds = {r1}
    Progress = {"none", "building", "running"}
    Outcomes = {"completed", "failed", "stopped", "error"}
    MaxJobs = 1
    QueueCap = 2
    MaxChain = 2
    MaxCrashes = 0
    MaxWriteFailures = 0
    MaxAdmitted = 1
    MaxFaults = 1
    MaxShutdowns = 1
INVARIANTS NothingInFlightAfterClose
