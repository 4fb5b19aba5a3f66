SPECIFICATION Spec
CONSTANTS
    Capacity = 6
    HttpRec = {h1, h2}
    CliRec = {}
    Tx = {x1, x2}
    MaxTicks = 1
    MaxRecs = 2
    MaxRuns = 1
    MaxFaults = 0
INVARIANTS
    RecordedIsApplied
CHECK_DEADLOCK FALSE
