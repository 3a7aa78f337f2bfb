\* One user, two payouts in turn, an administrator's request, the reconciler, a crash.
SPECIFICATION FairSpec
CONSTANTS
    u1 = u1  c1 = c1  p1 = p1  p2 = p2
    client = client  reconciler = reconciler
    NoPayout = NoPayout
    Users <- OneUser
    Commissions <- OneCommission
    Earner <- EarnerOfOne
    Share <- ShareOfOne
    Payouts <- TwoPayouts
    Payee <- PayeeOfTwo
    Clients <- OneClient
    Reconciler = reconciler
    Rate = 3
    Divisor = 2
    MinPayout = 2
    MaxPayout = 3
    DailyLimit = 5
    MaxSaves = 2
    MaxRestarts = 1
INVARIANTS
    TypeOK
    CashExact
    SettledAsTransferred
    SubmittedOnce
    PaidAsPromised
    DailyLimitKept
PROPERTY
    EndedIsSettled
CHECK_DEADLOCK FALSE
