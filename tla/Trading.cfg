SPECIFICATION ReplaySpec
CONSTANTS
    Symbol = {s1, s2}
    Risk <- MCRisk
    Unit = 100
    Whole = 10
    StartingCash = 6
    Price <- MCPrice
    MaxQty = 2
    Spread = 1
    Fee = 1
    Slippage = 2
    MaxFills = 4
    MaxRestarts = 1
    Rule <- MCRule
INVARIANTS
    LedgerBalances
    OverdraftBounded
    ReportReconciles
PROPERTIES
    BuysSeparated
