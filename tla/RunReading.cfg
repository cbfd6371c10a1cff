\* One run of three records read while it is written, or published.  The reader may
\* stop for good: visits and failures are bounded, so the check for deadlock is off.
SPECIFICATION FairSpec
CONSTANTS
    RunEnd = 2
    Large = {1}
    Loads = {1, 2}
    MaxVisits = 2
    MaxFailures = 1
    MaxOverlaps = 1
INVARIANTS TypeOK ShownIsPrefix TwiceNeedsOverlap ImmutableIsWhole PollsUntilEnd
PROPERTIES EndReachesPage
CHECK_DEADLOCK FALSE
