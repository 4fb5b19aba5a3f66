SPECIFICATION Spec
CONSTANTS
    Symbols <- MCSymbols
    Denom = "USDG"
    Pool <- MCPool
    Amount = {0, 2}
    MaxRetries = 1
    MaxMoves = 3
    Ai <- MCAi
    Reply <- MCReply
    Flagged = {}
    Parts = 2
    CallCap = 4
    Decider = {"rule", "ai", "oracle"}
INVARIANTS
    PricedByItsPair
    CallsBounded
PROPERTIES
    InterruptStops
    SymbolsKeepTicking
