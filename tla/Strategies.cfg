SPECIFICATION Spec
CONSTANTS
    Symbol = {"NVDA", "NEW"}
    Wallets <- MCWallets
    Router <- MCRouter
    CopyConfig <- MCCopyConfig
    Trade <- MCTrade
    Sniper <- MCSniper
    PoolEvent <- MCPoolEvent
    Price <- MCPrice
    Spend <- MCSpend
    Whole = 2
    MaxOrders = 3
    MaxSpends = 2
    MaxTime = 1
INVARIANTS
    NeverShort
    WalletWithinLimits
CHECK_DEADLOCK FALSE
