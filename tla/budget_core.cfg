\* Concurrent calls within their estimates, top-ups, cards, passes and faults.
SPECIFICATION Spec
CONSTANTS
    r1 = r1  r2 = r2
    customer = customer  admin = admin
    k1 = k1  k2 = k2  ka = ka
    NoKey = NoKey
    Users <- AllUsers
    Keys <- AllKeys
    Relays <- TwoRelays
    Admins <- OnlyAdmin
    Owner <- KeyOwner
    Subscribed <- K2Subscribed
    Estimates <- Amounts
    Costs <- Amounts
    Overrun = FALSE
    InitBalance <- TwoMicro
    InitRequests <- OneCard
    InitQuota <- K1Quota
    InitDaily <- K1Daily
    Deposits <- JustOne
    SetBalances <- None
    KeyLimits <- None
    Grants <- JustOne
    MaxCalls = 3
    MaxEdits = 1
    MaxFaults = 1
SYMMETRY RelaySymmetry
INVARIANTS
    TypeOK
    OneMeansOfPayment
    Conservation
    HeldCovered
    CommissionFollowsPayment
    KeyLimitsRespected
CHECK_DEADLOCK TRUE
