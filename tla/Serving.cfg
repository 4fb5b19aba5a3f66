SPECIFICATION ServingSpec
CONSTANTS
    srv = srv
    cli = cli
    Process <- MCProcess
    Server = srv
    Ref <- MCRef
    Name = {"a", "v"}
    Value = {t1, t2, t3}
    Passphrase = {k1, k2}
    MaxRewrites = 3
    Limit = {0, 1}
    Window = 2
    MaxTime = 4
INVARIANTS
    SecretsKept
    SlidingBound
    RevokedStaysOut
SYMMETRY Symmetry
CHECK_DEADLOCK FALSE
