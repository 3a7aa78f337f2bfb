\* Two calls over a route of two groups; one account fails and is edited.
SPECIFICATION FairSpec
CONSTANTS
    Relays = {1, 2}
    Accounts <- TwoAccounts
    Members <- Route
    Slots <- OneSlot
    TTL = 1
    Cooldown = 2
    QueueDepths <- AnyDepth
    MaxTime = 1
    NoAccount = "none"
    MaxAttempts = 2
    Unsteady <- OnlyA
    MaxEdits = 1
INVARIANTS
    AccountSlotsExact
    RowsSeenInTime
PROPERTY
    CallEnds
CHECK_DEADLOCK FALSE
