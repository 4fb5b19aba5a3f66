SPECIFICATION ControlSpec
CONSTANTS
    Admin = {a1, a2}
    Config <- MCConfig
    Default <- MCDefault
    AllowLive = TRUE
    Inode = {i1, i2, i3, i4}
    NoFile = NoFile
INVARIANTS
    TruncatedOnlyByRace
    RunningMatchesFile
PROPERTIES
    KillReleasedByAdmin
SYMMETRY Symmetry
