\* A fair server and executor with faults, kills, one shutdown and one crash.
SPECIFICATION FairLocalSpec
CONSTANTS
    w1 = w1
    r1 = r1
    Workers = {w1}
    RunIds = {}
    Progress = {"none", "building", "running"}
    Outcomes = {"completed", "failed", "stopped", "error"}
    MaxJobs = 1
    QueueCap = 2
    MaxChain = 2
    MaxCrashes = 1
    MaxWriteFailures = 0
    MaxAdmitted = 1
    MaxFaults = 1
    MaxShutdowns = 1
PROPERTIES StopEndsJob EveryJobEnds
