----------------------------- MODULE PaymentOrder -----------------------------
(***************************************************************************)
(* PaymentService: recharge orders from checkout to refund.  A handler is   *)
(* one goroutine (a user or administrator request, or the reconciler): it    *)
(* reads or claims the order in the database, calls the payment provider,   *)
(* and applies the answer.  Other handlers and signed callbacks run between *)
(* those three steps; each step on the database is one transaction or one   *)
(* conditional UPDATE.                                                      *)
(*                                                                          *)
(* The provider is external: what it may answer is taken from the adapters. *)
(* Steps of a handler that leave no trace (a refused call, an unreadable    *)
(* order) are left out.  All orders are created on one UTC day.             *)
(***************************************************************************)
EXTENDS Holds, Sequences

CONSTANTS
    Users, Orders,
    Buyer, Amount,          \* of an order; credit and price are one number
    Clients, Reconciler,    \* request goroutines, and the background one
    MaxPending,             \* PaymentConfig.MaxPendingOrders
    DailyLimit,             \* PaymentConfig.DailyLimitMinor, 0 is "none"
    PayerActs,              \* what payers may do: "paid", "mispaid", "failed"
    Uncertain,              \* may a refund call fail after it took effect?
    MaxRefunds,             \* bound: refunds the provider opens per order
    MaxRestarts,            \* bound: crashes of the process
    NoOrder

Handlers == Clients \cup {Reconciler}

ASSUME PaymentAssumption ==
    /\ IsFiniteSet(Orders) /\ NoOrder \notin Orders /\ Reconciler \notin Clients
    /\ Buyer \in [Orders -> Users] /\ Amount \in [Orders -> Nat \ {0}]
    /\ MaxPending \in Nat /\ DailyLimit \in Nat /\ Uncertain \in BOOLEAN
    /\ PayerActs \subseteq {"paid", "mispaid", "failed"}
    /\ MaxRefunds \in Nat /\ MaxRestarts \in Nat

VARIABLES
    status, clock, tradeNo, refundNo,   \* payment_orders; 0 is no refund_trade_no
    ledger,                             \* payment_ledger_entries, by event key
    balance, spent,                     \* users.balance_micro, and what calls took
    provider, notices, refunds,         \* the provider's side
    job, order, reply, asked,           \* goroutine locals
    restarts

orders   == <<status, clock, tradeNo, refundNo, ledger>>
money    == <<balance, spent>>
external == <<provider, notices, refunds>>
locals   == <<job, order, reply, asked>>
vars     == <<orders, money, external, locals, restarts>>

Payable  == {"PENDING", "EXPIRED", "CANCELLED", "FAILED"}
Credited == {"COMPLETED", "REFUND_REQUESTED"}
Statuses == {"NONE", "REFUNDING", "REFUNDED"} \cup Payable \cup Credited
Jobs     == {"none", "create", "query", "cancel", "refund", "finalize"}
Reports  == {"paid", "mispaid", "failed", "pending", "done", "error", "ok"}

Init ==
    /\ status = [o \in Orders |-> "NONE"] /\ clock = [o \in Orders |-> "fresh"]
    /\ tradeNo = [o \in Orders |-> FALSE] /\ refundNo = [o \in Orders |-> 0]
    /\ ledger = {}
    /\ balance = [u \in Users |-> 0] /\ spent = [u \in Users |-> 0]
    /\ provider = [o \in Orders |-> "none"] /\ notices = {}
    /\ refunds = [o \in Orders |-> <<>>]
    /\ job = [h \in Handlers |-> "none"] /\ order = [h \in Handlers |-> NoOrder]
    /\ reply = [h \in Handlers |-> "waiting"] /\ asked = [h \in Handlers |-> 0]
    /\ restarts = 0

-----------------------------------------------------------------------------
(* A handler starts work on an order (number: what it read of the trade or  *)
(* refund number), hears from the provider, and ends.                       *)
Start(h, o, what, number) ==
    /\ job[h] = "none"
    /\ job' = [job EXCEPT ![h] = what]
    /\ order' = [order EXCEPT ![h] = o]
    /\ asked' = [asked EXCEPT ![h] = number]
    /\ UNCHANGED <<reply, restarts>>

Hear(h, what, answer) ==
    /\ job[h] = what /\ reply[h] = "waiting"
    /\ reply' = [reply EXCEPT ![h] = answer]
    /\ UNCHANGED <<orders, money, job, order, restarts>>

Heard(h, what) == job[h] = what /\ reply[h] # "waiting"

End(h) ==
    /\ job' = [job EXCEPT ![h] = "none"]
    /\ order' = [order EXCEPT ![h] = NoOrder]
    /\ reply' = [reply EXCEPT ![h] = "waiting"]
    /\ asked' = [asked EXCEPT ![h] = 0]
    /\ UNCHANGED <<external, restarts>>

(* UPDATE payment_orders SET status = after WHERE status = before           *)
Move(o, before, after) ==
    /\ status[o] = before
    /\ status' = [status EXCEPT ![o] = after]

Pay(u, amount) == balance' = [balance EXCEPT ![u] = @ + amount]

-----------------------------------------------------------------------------
(* CreateOrder: the limits are checked in the transaction that inserts.     *)
PendingOf(u) == {o \in Orders : Buyer[o] = u /\ status[o] = "PENDING"}
OfToday(u) == {o \in Orders : Buyer[o] = u /\ status[o] \in {"PENDING", "COMPLETED"}}

MayCreate(o) ==
    /\ Cardinality(PendingOf(Buyer[o])) < MaxPending
    /\ DailyLimit = 0
       \/ Total(Part(Amount, OfToday(Buyer[o]))) + Amount[o] <= DailyLimit

BeginCreate(h, o) ==
    /\ h \in Clients /\ MayCreate(o)
    /\ Start(h, o, "create", 0)
    /\ Move(o, "NONE", "PENDING")
    /\ UNCHANGED <<clock, tradeNo, refundNo, ledger, money, external>>

ProviderCreates(h) ==
    /\ \/ /\ Hear(h, "create", "ok")
          /\ provider' = [provider EXCEPT ![order[h]] = IF @ = "none" THEN "open" ELSE @]
       \/ Hear(h, "create", "error") /\ UNCHANGED provider
    /\ UNCHANGED <<notices, refunds, asked>>

(* The trade number is stored whatever became of the order meanwhile.       *)
ApplyCreate(h) ==
    /\ Heard(h, "create") /\ End(h)
    /\ \/ /\ reply[h] = "ok"
          /\ tradeNo' = [tradeNo EXCEPT ![order[h]] = TRUE]
          /\ UNCHANGED status
       \/ /\ reply[h] = "error"
          /\ Move(order[h], "PENDING", "FAILED")
          /\ UNCHANGED tradeNo
       \/ /\ reply[h] = "error" /\ status[order[h]] # "PENDING"
          /\ UNCHANGED <<status, tradeNo>>
    /\ UNCHANGED <<clock, refundNo, ledger, money>>

-----------------------------------------------------------------------------
(* Mutant of Matches: the amount and the currency are not compared.         *)
MatchesAny(report) == report \in {"paid", "mispaid"}

(* confirmPayment compares amount and currency first.                       *)
Matches(report) == report = "paid"

(* Mutant of Confirm: a completed order is payable, as if the conditional    *)
(* update did not look at the status.                                       *)
ConfirmReplayed(o) ==
    /\ status[o] \in Payable \cup {"COMPLETED"}
    /\ status' = [status EXCEPT ![o] = "COMPLETED"]
    /\ tradeNo' = [tradeNo EXCEPT ![o] = TRUE]
    /\ ledger' = ledger \cup {<<"income", o>>}
    /\ Pay(Buyer[o], Amount[o])
    /\ UNCHANGED <<clock, refundNo, spent>>

(* The confirming transaction: PAID is never visible outside it.            *)
Confirm(o) ==
    /\ status[o] \in Payable
    /\ status' = [status EXCEPT ![o] = "COMPLETED"]
    /\ tradeNo' = [tradeNo EXCEPT ![o] = TRUE]
    /\ ledger' = ledger \cup {<<"income", o>>}
    /\ Pay(Buyer[o], Amount[o])
    /\ UNCHANGED <<clock, refundNo, spent>>

(* expireOrder                                                              *)
Expires(o) ==
    /\ clock[o] # "fresh" /\ Move(o, "PENDING", "EXPIRED")
    /\ UNCHANGED <<clock, tradeNo, refundNo, ledger, money>>

Rejected(o) ==
    /\ Move(o, "PENDING", "FAILED")
    /\ UNCHANGED <<clock, tradeNo, refundNo, ledger, money>>

(* What a report of the provider does to an order.                          *)
Learn(o, report) ==
    \/ Matches(report) /\ Confirm(o)
    \/ report = "failed" /\ Rejected(o)
    \/ /\ ~(Matches(report) /\ status[o] \in Payable)
       /\ ~(report = "failed" /\ status[o] = "PENDING")
       /\ UNCHANGED <<orders, money>>

(* HandleWebhook: callbacks come late, twice, out of order or not at all.   *)
Webhook(o, report) ==
    /\ <<o, report>> \in notices
    /\ Learn(o, report)
    /\ UNCHANGED <<external, locals, restarts>>

(* VerifyOrder by the user, ReconcilePending in the background.             *)
(* Mutant of Open: only pending orders are asked about.                     *)
OpenPendingOnly(o) == status[o] = "PENDING"

Open(o) == status[o] = "PENDING" \/ (status[o] = "EXPIRED" /\ clock[o] # "late")

(* Only a user asks about an order whose trade number is not stored yet.    *)
BeginQuery(h, o) ==
    /\ Open(o) /\ (h = Reconciler => tradeNo[o])
    /\ Start(h, o, "query", IF tradeNo[o] THEN 1 ELSE 0)
    /\ UNCHANGED <<orders, money, external>>

(* The adapters report an open payment as pending, and as failed when it     *)
(* has no (working) payment method yet; asked without a trade number, a     *)
(* provider knows no payment and the adapter may take that for pending.     *)
Answers(o, number) ==
    CASE number = 0             -> {"pending"}
      [] provider[o] = "none"   -> {}
      [] provider[o] = "open"   -> {"pending", "failed"}
      [] provider[o] = "closed" -> {"failed"}
      [] OTHER                  -> {provider[o]}

ProviderAnswers(h) ==
    /\ job[h] = "query"
    /\ \E answer \in Answers(order[h], asked[h]) : Hear(h, "query", answer)
    /\ UNCHANGED <<external, asked>>

ProviderUnreachable(h) ==
    /\ Hear(h, "query", "error")
    /\ UNCHANGED <<external, asked>>

(* Only the user's request expires an overdue order; the reconciler leaves  *)
(* that to its second pass.                                                 *)
ApplyQuery(h) ==
    LET o == order[h] IN
    /\ Heard(h, "query") /\ End(h)
    /\ \/ h \in Clients /\ reply[h] = "pending" /\ Expires(o)
       \/ /\ ~(h \in Clients /\ reply[h] = "pending"
                 /\ status[o] = "PENDING" /\ clock[o] # "fresh")
          /\ Learn(o, reply[h])

(* ExpirePending                                                            *)
Expire(o) == Expires(o) /\ UNCHANGED <<external, locals, restarts>>

(* CancelOrder: the provider is told first and its answer is ignored.       *)
BeginCancel(h, o) ==
    /\ h \in Clients /\ status[o] = "PENDING"
    /\ Start(h, o, "cancel", IF tradeNo[o] THEN 1 ELSE 0)
    /\ UNCHANGED <<orders, money, external>>

ProviderCancels(h) ==
    /\ Hear(h, "cancel", "ok")
    /\ provider' = [provider EXCEPT ![order[h]] =
                       IF @ = "open" /\ asked[h] = 1 THEN "closed" ELSE @]
    /\ UNCHANGED <<notices, refunds, asked>>

ProviderIgnoresCancel(h) ==
    /\ Hear(h, "cancel", "error")
    /\ UNCHANGED <<external, asked>>

ApplyCancel(h) ==
    /\ Heard(h, "cancel") /\ End(h)
    /\ \/ Move(order[h], "PENDING", "CANCELLED")
       \/ status[order[h]] # "PENDING" /\ UNCHANGED status
    /\ UNCHANGED <<clock, tradeNo, refundNo, ledger, money>>

-----------------------------------------------------------------------------
(* RequestRefund                                                            *)
RequestRefund(o) ==
    /\ Move(o, "COMPLETED", "REFUND_REQUESTED")
    /\ UNCHANGED <<clock, tradeNo, refundNo, ledger, money, external, locals, restarts>>

(* ProcessRefund holds the credit back in the transaction that claims the   *)
(* order ...                                                                *)
BeginRefund(h, o) ==
    /\ h \in Clients /\ status[o] \in Credited
    /\ balance[Buyer[o]] >= Amount[o]
    /\ status' = [status EXCEPT ![o] = "REFUNDING"]
    /\ Pay(Buyer[o], -Amount[o])
    /\ Start(h, o, "refund", 0)
    /\ UNCHANGED <<clock, tradeNo, refundNo, ledger, spent, external>>

(* ... and calls the provider, which opens at most one live refund ...      *)
Live(o) == {n \in 1..Len(refunds[o]) : refunds[o][n] \in {"pending", "done"}}

ProviderRefunds(h, state) ==
    LET o == order[h]
        n == Len(refunds[o]) + 1
    IN  /\ job[h] = "refund" /\ provider[o] = "paid" /\ Live(o) = {} /\ n <= MaxRefunds
        /\ refunds' = [refunds EXCEPT ![o] = Append(@, state)]
        /\ asked' = [asked EXCEPT ![h] = n]
        /\ Hear(h, "refund", state) \/ (Uncertain /\ Hear(h, "refund", "error"))
        /\ UNCHANGED <<provider, notices>>

(* ... or, where refund numbers are derived from orders, repeats itself ... *)
ProviderRepeats(h) ==
    /\ job[h] = "refund"
    /\ \E n \in Live(order[h]) :
          /\ Hear(h, "refund", refunds[order[h]][n])
          /\ asked' = [asked EXCEPT ![h] = n]
    /\ UNCHANGED external

(* ... or rejects it, or cannot be reached.                                 *)
ProviderRejects(h) ==
    /\ Hear(h, "refund", "error")
    /\ UNCHANGED <<external, asked>>

(* Mutant of Restore: the credit is returned whatever the order's state.    *)
RestoreUnguarded(o) ==
    /\ status' = [status EXCEPT ![o] = "COMPLETED"]
    /\ Pay(Buyer[o], Amount[o])
    /\ UNCHANGED <<clock, tradeNo, refundNo, ledger, spent>>

(* restoreRefundHold                                                        *)
Restore(o) ==
    /\ Move(o, "REFUNDING", "COMPLETED")
    /\ Pay(Buyer[o], Amount[o])
    /\ UNCHANGED <<clock, tradeNo, refundNo, ledger, spent>>

(* completeRefund                                                           *)
Complete(o, n) ==
    /\ Move(o, "REFUNDING", "REFUNDED")
    /\ refundNo' = [refundNo EXCEPT ![o] = n]
    /\ ledger' = ledger \cup {<<"expense", o>>}
    /\ UNCHANGED <<clock, tradeNo, money>>

(* Mutant of KeepNumber: the provider's refund number is not stored.        *)
KeepNoNumber(o, n) == status[o] = "REFUNDING" /\ UNCHANGED <<orders, money>>

(* The refund is under way: its number is kept for FinalizeRefund.          *)
KeepNumber(o, n) ==
    /\ status[o] = "REFUNDING"
    /\ refundNo' = [refundNo EXCEPT ![o] = n]
    /\ UNCHANGED <<status, clock, tradeNo, ledger, money>>

(* What a report about a refund does; nothing once the order left REFUNDING. *)
LearnRefund(o, n, report) ==
    \/ report = "done" /\ Complete(o, n)
    \/ report \in {"failed", "error"} /\ Restore(o)
    \/ report = "pending" /\ KeepNumber(o, n)
    \/ status[o] # "REFUNDING" /\ UNCHANGED <<orders, money>>

ApplyRefund(h) ==
    /\ Heard(h, "refund") /\ End(h)
    /\ LearnRefund(order[h], asked[h], reply[h])

(* Mutant of BeginFinalize: a refund without a number is asked about.       *)
BeginFinalizeUnnumbered(h, o) ==
    /\ h \in Clients /\ status[o] = "REFUNDING"
    /\ Start(h, o, "finalize", refundNo[o])
    /\ UNCHANGED <<orders, money, external>>

(* FinalizeRefund asks about the stored refund number.                      *)
BeginFinalize(h, o) ==
    /\ h \in Clients /\ status[o] = "REFUNDING" /\ refundNo[o] # 0
    /\ Start(h, o, "finalize", refundNo[o])
    /\ UNCHANGED <<orders, money, external>>

ProviderReports(h) ==
    /\ job[h] = "finalize" /\ Hear(h, "finalize", refunds[order[h]][asked[h]])
    /\ UNCHANGED <<external, asked>>

(* A refund still pending, or an unreachable provider, changes nothing.     *)
ApplyFinalize(h) ==
    /\ Heard(h, "finalize") /\ End(h)
    /\ \/ reply[h] # "pending" /\ LearnRefund(order[h], asked[h], reply[h])
       \/ reply[h] = "pending" /\ UNCHANGED <<orders, money>>

-----------------------------------------------------------------------------
(* The provider and the payer: a stored checkout is paid, paid in another   *)
(* amount, or an attempt to pay it is declined and it stays open.           *)
Attempt(o, kind) ==
    /\ provider[o] = "open" /\ tradeNo[o] /\ <<o, kind>> \notin notices
    /\ provider' = [provider EXCEPT ![o] = IF kind = "failed" THEN "open" ELSE kind]
    /\ notices' = notices \cup {<<o, kind>>}
    /\ UNCHANGED <<orders, money, refunds, locals, restarts>>

RefundSettles(o, n, state) ==
    /\ n \in 1..Len(refunds[o]) /\ refunds[o][n] = "pending"
    /\ refunds' = [refunds EXCEPT ![o] = [@ EXCEPT ![n] = state]]
    /\ UNCHANGED <<orders, money, provider, notices, locals, restarts>>

(* A call settles (UsageBudget has the details).                            *)
Spend(u) ==
    /\ balance[u] > 0
    /\ balance' = [balance EXCEPT ![u] = @ - 1]
    /\ spent' = [spent EXCEPT ![u] = @ + 1]
    /\ UNCHANGED <<orders, external, locals, restarts>>

(* The order's expiry passes, and then the late settlement grace.           *)
TimePasses(o) ==
    /\ status[o] # "NONE" /\ clock[o] # "late"
    /\ clock' = [clock EXCEPT ![o] = IF @ = "fresh" THEN "due" ELSE "late"]
    /\ UNCHANGED <<status, tradeNo, refundNo, ledger, money, external, locals, restarts>>

(* The process dies: every handler is gone, the database stays.             *)
Restart ==
    /\ restarts < MaxRestarts
    /\ job' = [h \in Handlers |-> "none"] /\ order' = [h \in Handlers |-> NoOrder]
    /\ reply' = [h \in Handlers |-> "waiting"] /\ asked' = [h \in Handlers |-> 0]
    /\ restarts' = restarts + 1
    /\ UNCHANGED <<orders, money, external>>

Begin(h) ==
    \E o \in Orders :
        \/ BeginCreate(h, o) \/ BeginQuery(h, o) \/ BeginCancel(h, o)
        \/ BeginRefund(h, o) \/ BeginFinalize(h, o)

ProviderStep(h) ==
    \/ ProviderCreates(h) \/ ProviderAnswers(h) \/ ProviderUnreachable(h)
    \/ ProviderCancels(h) \/ ProviderIgnoresCancel(h)
    \/ \E state \in {"pending", "done"} : ProviderRefunds(h, state)
    \/ ProviderRepeats(h) \/ ProviderRejects(h) \/ ProviderReports(h)

Apply(h) ==
    \/ ApplyCreate(h) \/ ApplyQuery(h) \/ ApplyCancel(h)
    \/ ApplyRefund(h) \/ ApplyFinalize(h)

World ==
    \/ \E o \in Orders :
          \/ \E kind \in PayerActs : Attempt(o, kind) \/ Webhook(o, kind)
          \/ Expire(o) \/ RequestRefund(o) \/ TimePasses(o)
          \/ \E n \in 1..MaxRefunds, state \in {"done", "failed"} :
                RefundSettles(o, n, state)
    \/ \E u \in Users : Spend(u)
    \/ Restart

Next ==
    \/ \E h \in Handlers : Begin(h) \/ ProviderStep(h) \/ Apply(h)
    \/ World

Spec == Init /\ [][Next]_vars

(* The reconciler runs every 15 seconds, visits every open order in turn    *)
(* and ends each visit (its query has a timeout); a query asked again and   *)
(* again is answered in the end.  No callback is relied on, nor a user.     *)
(* (A pass takes the 100 oldest open orders: no more of them are open.)     *)
ReconcilerFairness ==
    /\ WF_vars(ProviderStep(Reconciler)) /\ WF_vars(Apply(Reconciler))
    /\ \A o \in Orders :
          /\ SF_vars(BeginQuery(Reconciler, o))
          /\ SF_vars(order[Reconciler] = o /\ ProviderAnswers(Reconciler))

FairSpec == Spec /\ ReconcilerFairness

-----------------------------------------------------------------------------
Settled == Credited \cup {"REFUNDING", "REFUNDED"}

OrderTypes ==
    /\ status \in [Orders -> Statuses] /\ clock \in [Orders -> {"fresh", "due", "late"}]
    /\ tradeNo \in [Orders -> BOOLEAN] /\ refundNo \in [Orders -> Nat]
    /\ ledger \subseteq {"income", "expense"} \X Orders

MoneyTypes == balance \in [Users -> Nat] /\ spent \in [Users -> Nat]

ProviderTypes ==
    /\ provider \in [Orders -> {"none", "open", "closed", "paid", "mispaid"}]
    /\ notices \subseteq Orders \X {"paid", "mispaid", "failed"}
    /\ refunds \in [Orders -> Seq({"pending", "done", "failed"})]

HandlerTypes ==
    /\ job \in [Handlers -> Jobs] /\ order \in [Handlers -> Orders \cup {NoOrder}]
    /\ reply \in [Handlers -> Reports \cup {"waiting"}] /\ asked \in [Handlers -> Nat]
    /\ \A h \in Handlers :
          IF job[h] = "none" THEN reply[h] = "waiting" ELSE order[h] \in Orders

(* Refund numbers, in the database and in handlers, name refunds the         *)
(* provider opened.                                                         *)
NumbersKnown ==
    /\ \A o \in Orders : refundNo[o] <= Len(refunds[o])
    /\ \A h \in Handlers :
          job[h] = "finalize" \/ (job[h] = "refund" /\ reply[h] \in {"pending", "done"})
              => asked[h] \in 1..Len(refunds[order[h]])

(* Types: no balance is ever negative, only a busy handler has an answer,    *)
(* and the refund numbers in use are the provider's.                        *)
TypeOK ==
    /\ OrderTypes /\ MoneyTypes /\ ProviderTypes /\ HandlerTypes /\ NumbersKnown
    /\ restarts \in Nat

(* The cash book agrees with the orders: one income entry for every order    *)
(* that was ever credited, one expense entry for every refunded one.        *)
LedgerExact ==
    \A o \in Orders :
        /\ <<"income", o>> \in ledger <=> status[o] \in Settled
        /\ <<"expense", o>> \in ledger <=> status[o] = "REFUNDED"

(* Nothing is credited that the provider did not take in the right amount,  *)
(* and nothing is booked as refunded that it did not return.                *)
CreditBacked ==
    \A o \in Orders :
        /\ status[o] \in Settled => provider[o] = "paid"
        /\ status[o] = "REFUNDED" =>
              /\ refundNo[o] \in 1..Len(refunds[o])
              /\ refunds[o][refundNo[o]] = "done"

CreditedTo(u) == {o \in Orders : Buyer[o] = u /\ status[o] \in Credited}

(* Whatever callbacks are repeated, delayed or race with verification and   *)
(* refunds, a balance is what the credited orders brought less what was     *)
(* spent: no order is credited twice and no hold is returned twice.         *)
BalanceExact ==
    \A u \in Users : balance[u] + spent[u] = Total(Part(Amount, CreditedTo(u)))

(* The two accounts of one order, the user's balance and the cash book, tell *)
(* the same story, though they are written by different statements.         *)
AccountsExact == LedgerExact /\ BalanceExact

(* Concurrent checkouts of a user together respect the limits on open       *)
(* orders.                                                                  *)
PendingBounded ==
    \A u \in Users :
        /\ Cardinality(PendingOf(u)) <= MaxPending
        /\ DailyLimit > 0 => Total(Part(Amount, PendingOf(u))) <= DailyLimit

(* Money that was, or may still be, returned by the provider cannot be      *)
(* spent as credit too.                                                     *)
RefundedCreditWithdrawn ==
    \A o \in Orders : Live(o) # {} => status[o] \in {"REFUNDING", "REFUNDED"}

(* Unless the process died, a refund under way is still being processed or  *)
(* can be asked about: its hold is not stuck.                               *)
RefundReachable ==
    \A o \in Orders :
        status[o] = "REFUNDING" /\ refundNo[o] = 0 /\ restarts = 0
            => \E h \in Clients : job[h] = "refund" /\ order[h] = o

(* Without any callback or user action, a paid order the reconciler may ask  *)
(* about is credited (or rejected or cancelled) within its grace period.    *)
PaidIsSettled ==
    \A o \in Orders :
        provider[o] = "paid" /\ Open(o)
            ~> status[o] \in Settled \cup {"CANCELLED", "FAILED"} \/ clock[o] = "late"

-----------------------------------------------------------------------------
(* The account the orders implement.                                        *)
PhaseOf(s) ==
    CASE s \in Credited  -> "credited"
      [] s = "REFUNDING" -> "held"
      [] s = "REFUNDED"  -> "repaid"
      [] OTHER           -> "unpaid"

Phase == [o \in Orders |-> PhaseOf(status[o])]

Account == INSTANCE CreditAccount WITH phase <- Phase

(* Every step of the service is a step of the account or invisible in it.   *)
ImplementsAccount == Account!Spec
=============================================================================
