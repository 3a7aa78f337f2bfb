\* Overruns, administrators who move balances under live calls, edited limits.
SPECIFICATION FairSpec
CONSTANTS
    r1 = r1  r2 = r2
    customer = customer  admin = admin
    k1 = k1  k2 = k2  ka = ka
    NoKey = NoKey
    Users <- AllUsers
    Keys <- AllKeys
    Relays <- TwoRelays
    Admins <- OnlyAdmin
    Owner <- KeyOwner
    Subscribed <- K2Subscribed
    Estimates <- Amounts
    Costs <- Amounts
    Overrun = TRUE
    InitBalance <- TwoMicro
    InitRequests <- OneCard
    InitQuota <- K1Quota
    InitDaily <- K1Daily
    Deposits <- Adjust
    SetBalances <- JustZero
    KeyLimits <- LowLimits
    Grants <- JustOne
    MaxCalls = 2
    MaxEdits = 1
    MaxFaults = 1
PROPERTY HoldsDrain
CHECK_DEADLOCK TRUE
