\* Two publishers, an indexer and a browser, with one fault.
SPECIFICATION FairSpec
CONSTANTS
    p1 = p1
    p2 = p2
    e1 = e1
    e2 = e2
    Publishers = {p1, p2}
    Experiments = {e1, e2}
    MaxRuns = 2
    Fit <- Stores
    Wanted = {1, 2}
    ExperimentOf <- Sorts
    MaxFaults = 1
INVARIANTS TypeOK CardCommits OverwriteNeedsOverlap IndexComplete NothingHidden
PROPERTIES EventuallyListed
