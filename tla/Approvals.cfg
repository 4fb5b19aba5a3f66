SPECIFICATION FairSpec
CONSTANTS
    Hook = {h1, h2}
    Operator = {o1}
    Timeout = 1
    Retain = 1
    MaxSeq = 3
INVARIANTS
    TypeOK
    PendingKept
    WaiterSeesVerdict
    DecisionShown
PROPERTIES
    ImplementsLifecycle
    HeldOrdersAnswered
    PendingEventuallyDecided
