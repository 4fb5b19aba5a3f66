SPECIFICATION Spec
CONSTANTS
    Hook = {h1, h2}
    Operator = {o1}
    Timeout = 1
    Retain = 1
    MaxSeq = 2
    MaxOrders = 1
    MaxNotional = 1
    MaxDuration = 1
    MaxCount = 3
    Args <- MCArgs
    Config <- MCConfig
INVARIANTS
    AllowedWithinBudget
    HeldOrdersApproved
    KillHeldOnly
SYMMETRY Symmetry
