SPECIFICATION Spec
CONSTANTS
    MaxSplitDepth = 2
    Max429 = 1
    Symbols <- MCSymbols
    Denom = "USDG"
    Logs <- MCLogs
    HeadBlock = 4
    Sample = 3
    MaxHolders = 2
    AllowLive = TRUE
    MaxChanges = 2
INVARIANTS
    ScanComplete
PROPERTIES
    ArmedAfterOpen
    ArmingAnswered
