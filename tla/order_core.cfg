\* One order, two requests at a time, the reconciler, faults of the provider, a crash.
SPECIFICATION FairSpec
CONSTANTS
    u1 = u1  o1 = o1  c1 = c1  c2 = c2  reconciler = reconciler
    NoOrder = NoOrder
    Users <- OneUser
    Orders <- OneOrder
    Buyer <- BuyerOfOne
    Amount <- AmountOfOne
    Clients <- TwoClients
    Reconciler = reconciler
    MaxPending = 1
    DailyLimit = 1
    PayerActs <- AnyAct
    Uncertain = TRUE
    MaxRefunds = 2
    MaxRestarts = 1
INVARIANTS
    TypeOK
    CreditBacked
    AccountsExact
    RefundReachable
PROPERTY
    ImplementsAccount
    PaidIsSettled
CHECK_DEADLOCK FALSE
