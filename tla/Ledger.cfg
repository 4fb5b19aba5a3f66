SPECIFICATION FairSpec
CONSTANTS
    Capacity = 2
    HttpRec = {h1}
    CliRec = {c1}
    Tx = {x1}
    MaxTicks = 1
    MaxRecs = 1
    MaxRuns = 2
    MaxFaults = 2
INVARIANTS
    AuditFollowsFill
    PaperFillsOnce
    SettledAgree
PROPERTIES
    StoppedRunEnds
CHECK_DEADLOCK FALSE
