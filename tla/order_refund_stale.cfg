\* An honest provider, no crash: a refund that failed, and a second one.
SPECIFICATION Spec
CONSTANTS
    u1 = u1  o1 = o1  c1 = c1  c2 = c2  reconciler = reconciler
    NoOrder = NoOrder
    Users <- OneUser
    Orders <- OneOrder
    Buyer <- BuyerOfOne
    Amount <- AmountOfOne
    Clients <- TwoClients
    Reconciler = reconciler
    MaxPending = 1
    DailyLimit = 0
    PayerActs <- AnyAct
    Uncertain = FALSE
    MaxRefunds = 2
    MaxRestarts = 0
INVARIANT
    RefundedCreditWithdrawn
CHECK_DEADLOCK FALSE
