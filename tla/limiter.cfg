\* Slots, queue and wake-ups with a queue shorter than the demand.
SPECIFICATION FairSpec
CONSTANTS
    p1 = p1  p2 = p2  p3 = p3  u1 = u1  k1 = k1  k2 = k2
    NoKey = NoKey
    Procs <- ThreeProcs
    Users <- OneUser
    Keys <- TwoKeys
    Owner <- KeyOwner
    UserLimits <- UserChoice
    KeyLimits <- KeyChoice
    QueueDepths <- Depths
    MaxCalls = 4
INVARIANTS
    SlotsSound
    NoLostWakeup
PROPERTY
    NobodyStuck
CHECK_DEADLOCK FALSE
