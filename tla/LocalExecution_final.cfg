\* data.ts:89-90 against a shutdown that crosses a done call.
SPECIFICATION LocalSpec
CONSTANTS
    w1 = w1
    r1 = r1
    Workers = {w1}
    RunIds = {r1}
    Progress = {"none", "building", "running"}
    Outcomes = {"completed", "failed", "stopped", "error"}
    MaxJobs = 1
    QueueCap = 2
    MaxChain = 2
    MaxCrashes = 0
    MaxWriteFailures = 0
    MaxAdmitted = 1
    MaxFaults = 0
    MaxShutdowns = 1
PROPERTIES TerminalIsFinal
