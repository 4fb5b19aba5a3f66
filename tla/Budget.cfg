SPECIFICATION Spec
CONSTANTS
    MaxOrders = 4
    MaxNotional = 5
    MaxDuration = 2
    Notional <- MCNotional
    MaxCount = 6
INVARIANTS
    WithinCaps
    ReportedCapIsReal
PROPERTIES
    RefusalLatches
