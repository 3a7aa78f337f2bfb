---------------------------- MODULE ReferralPayout ----------------------------
(***************************************************************************)
(* ReferralCashService: commission from its accrual to the transfer that    *)
(* pays it out.  A handler is one goroutine (a request of a user or of an   *)
(* administrator, or the background reconciler): it claims or reads a       *)
(* payout in the database, calls WeChat's merchant transfer, and applies    *)
(* the answer.  Other handlers and signed callbacks run between those       *)
(* steps; each step on the database is one transaction or one statement.    *)
(*                                                                          *)
(* The transfer service is external.  Steps that leave no trace (a refused   *)
(* request, an answer about a payout that is settled) may be stutters.  All  *)
(* payouts are requested on one UTC day.                                    *)
(***************************************************************************)
EXTENDS Holds

CONSTANTS
    Users,
    Commissions, Earner, Share,     \* whose a commission is, and its micro units
    Payouts, Payee,                 \* whose a payout is
    Clients, Reconciler,            \* request goroutines, and the background one
    Rate, Divisor,                  \* micro units per currency unit; its minor units
    MinPayout, MaxPayout,           \* limits of one payout, in minor units
    DailyLimit,                     \* of all payouts of a day
    MaxSaves, MaxRestarts,          \* bounds: OpenIDs per user, crashes
    NoPayout

Handlers == Clients \cup {Reconciler}

ASSUME PayoutAssumption ==
    /\ IsFiniteSet(Commissions) /\ Earner \in [Commissions -> Users]
    /\ Share \in [Commissions -> Nat \ {0}]
    /\ IsFiniteSet(Payouts) /\ Payee \in [Payouts -> Users] /\ NoPayout \notin Payouts
    /\ Reconciler \notin Clients
    /\ Rate \in Nat \ {0} /\ Divisor \in Nat \ {0}
    /\ MinPayout \in Nat \ {0} /\ MaxPayout \in Nat /\ DailyLimit \in Nat
    /\ MinPayout <= MaxPayout /\ MaxPayout <= DailyLimit
    /\ MaxSaves \in Nat /\ MaxRestarts \in Nat

VARIABLES
    phase,                                  \* referral_commissions
    pending, available, locked, paid,       \* referral_cash_accounts
    verified, openID,                       \* referral_payout_accounts
    status, minor, micro, package,          \* referral_payouts
    promised,                               \* ghost: the OpenID a payout was asked for
    ledger,                                 \* payment_ledger_entries, by event key
    transfer, recipient,                    \* the provider's side
    job, payout, reply, sentTo,             \* goroutine locals
    restarts

cash      == <<pending, available, locked, paid>>
accounts  == <<verified, openID>>
payouts   == <<status, minor, micro, package, promised, ledger>>
external  == <<transfer, recipient>>
locals    == <<job, payout, reply, sentTo>>
vars      == <<phase, cash, accounts, payouts, external, locals, restarts>>

(* referralPayoutTerminal                                                   *)
Terminal  == {"SUCCESS", "FAILED", "CANCELLED"}
Submitted == {"SUBMITTING", "AWAITING_CONFIRMATION", "PROCESSING", "STATUS_UNCERTAIN"}
Statuses  == {"NONE", "REVIEW_PENDING", "QUEUED"} \cup Submitted \cup Terminal
Returned  == {"FAILED", "CANCELLED"}

(* The states of a transfer, grouped as transferState groups them.          *)
Ended     == {"SUCCESS", "FAIL", "CANCELLED"}
Transfers == {"WAIT_USER_CONFIRM", "PROCESSING"} \cup Ended

Init ==
    /\ phase = [c \in Commissions |-> "none"]
    /\ pending = [u \in Users |-> 0] /\ available = [u \in Users |-> 0]
    /\ locked = [u \in Users |-> 0] /\ paid = [u \in Users |-> 0]
    /\ verified = [u \in Users |-> FALSE] /\ openID = [u \in Users |-> 1]
    /\ status = [p \in Payouts |-> "NONE"] /\ package = [p \in Payouts |-> FALSE]
    /\ minor = [p \in Payouts |-> 0] /\ micro = [p \in Payouts |-> 0]
    /\ promised = [p \in Payouts |-> 0] /\ ledger = {}
    /\ transfer = [p \in Payouts |-> "NONE"] /\ recipient = [p \in Payouts |-> 0]
    /\ job = [h \in Handlers |-> "none"] /\ payout = [h \in Handlers |-> NoPayout]
    /\ reply = [h \in Handlers |-> "waiting"] /\ sentTo = [h \in Handlers |-> 0]
    /\ restarts = 0

Add(column, u, amount) == [column EXCEPT ![u] = @ + amount]

(* UPDATE referral_payouts SET status = after WHERE status = before         *)
Move(p, before, after) ==
    /\ status[p] = before
    /\ status' = [status EXCEPT ![p] = after]

-----------------------------------------------------------------------------
(* settleReferralCommission: without a settlement period (SettlementDays is  *)
(* 0 when the call settles) commission is available at once.                *)
Accrue(c) ==
    /\ phase[c] = "none"
    /\ \/ /\ phase' = [phase EXCEPT ![c] = "pending"]
          /\ pending' = Add(pending, Earner[c], Share[c])
          /\ UNCHANGED available
       \/ /\ phase' = [phase EXCEPT ![c] = "available"]
          /\ available' = Add(available, Earner[c], Share[c])
          /\ UNCHANGED pending
    /\ UNCHANGED <<locked, paid, accounts, payouts, external, locals, restarts>>

(* available_at passes: the row does not change, what a query selects does.  *)
Mature(c) ==
    /\ phase[c] = "pending"
    /\ phase' = [phase EXCEPT ![c] = "due"]
    /\ UNCHANGED <<cash, accounts, payouts, external, locals, restarts>>

Due(u) == {c \in Commissions : Earner[c] = u /\ phase[c] = "due"}
DueSum(u) == Total(Part(Share, Due(u)))

(* Mutant of Matured: the rows keep their status.                           *)
MaturedStill(u) == phase

(* releaseMaturedReferralCommissions: the rows of a user, ...               *)
Matured(u) == [c \in Commissions |-> IF c \in Due(u) THEN "available" ELSE phase[c]]

(* ... here by itself: ReleaseMatured, on every view of the account.        *)
Release(u) ==
    /\ Due(u) # {}
    /\ phase' = Matured(u)
    /\ pending' = Add(pending, u, -DueSum(u))
    /\ available' = Add(available, u, DueSum(u))
    /\ UNCHANGED <<locked, paid, accounts, payouts, external, locals, restarts>>

-----------------------------------------------------------------------------
(* A user's payouts that are not settled; the day's, over all users.        *)
OpenOf(u) == {p \in Payouts : Payee[p] = u /\ status[p] \notin Terminal \cup {"NONE"}}

(* Mutant of OfToday: payouts that are settled do not count.                *)
OfTodayOpen == {p \in Payouts : status[p] \notin Terminal \cup {"NONE"}}

OfToday == {p \in Payouts : status[p] \notin Returned \cup {"NONE"}}

Least(a, b) == IF a <= b THEN a ELSE b

(* What can be paid out of an amount of commission, and what that costs:     *)
(* both conversions round down.                                             *)
Payable(amount) == Least((amount * Divisor) \div Rate, MaxPayout)
Cost(cents) == (cents * Rate) \div Divisor

(* RequestPayout, one transaction; a refusal also rolls the release back.    *)
(* Whether it must be reviewed is the configuration's choice of the moment. *)
RequestPayout(p) ==
    LET u     == Payee[p]
        avail == available[u] + DueSum(u)
        cents == Payable(avail)
    IN  /\ verified[u] /\ OpenOf(u) = {}
        /\ cents >= MinPayout /\ Cost(cents) \in 1..avail
        /\ Total(Part(minor, OfToday)) + cents <= DailyLimit
        /\ \E first \in {"REVIEW_PENDING", "QUEUED"} : Move(p, "NONE", first)
        /\ minor' = [minor EXCEPT ![p] = cents]
        /\ micro' = [micro EXCEPT ![p] = Cost(cents)]
        /\ promised' = [promised EXCEPT ![p] = openID[u]]
        /\ phase' = Matured(u)
        /\ pending' = Add(pending, u, -DueSum(u))
        /\ available' = Add(available, u, DueSum(u) - Cost(cents))
        /\ locked' = Add(locked, u, Cost(cents))
        /\ UNCHANGED <<paid, accounts, package, ledger, external, locals, restarts>>

(* ApprovePayout, before it dispatches.                                     *)
ApprovePayout(p) ==
    /\ Move(p, "REVIEW_PENDING", "QUEUED")
    /\ UNCHANGED <<phase, cash, accounts, minor, micro, package, promised, ledger,
                   external, locals, restarts>>

(* locked_micro -> another column, WHERE locked_micro >= commission         *)
Unlock(p) ==
    /\ locked[Payee[p]] >= micro[p]
    /\ locked' = Add(locked, Payee[p], -micro[p])

GiveBack(p) ==
    /\ Unlock(p)
    /\ available' = Add(available, Payee[p], micro[p])
    /\ UNCHANGED <<pending, paid, ledger>>

PayOut(p) ==
    /\ Unlock(p)
    /\ paid' = Add(paid, Payee[p], micro[p])
    /\ ledger' = ledger \cup {p}
    /\ UNCHANGED <<pending, available>>

RejectPayout(p) ==
    /\ Move(p, "REVIEW_PENDING", "CANCELLED")
    /\ GiveBack(p)
    /\ UNCHANGED <<phase, accounts, minor, micro, package, promised, external,
                   locals, restarts>>

(* Mutant of SavePayoutAccount: the OpenID changes while a payout is open.  *)
SavePayoutAccountAlways(u, accepted) ==
    /\ openID[u] < MaxSaves
    /\ openID' = [openID EXCEPT ![u] = @ + 1]
    /\ verified' = [verified EXCEPT ![u] = accepted]
    /\ UNCHANGED <<phase, cash, payouts, external, locals, restarts>>

(* SavePayoutAccount: what a user saves is pending, an administrator may     *)
(* verify it too.  (No operation tells pending from disabled.)              *)
SavePayoutAccount(u, accepted) ==
    /\ openID[u] < MaxSaves /\ OpenOf(u) = {}
    /\ openID' = [openID EXCEPT ![u] = @ + 1]
    /\ verified' = [verified EXCEPT ![u] = accepted]
    /\ UNCHANGED <<phase, cash, payouts, external, locals, restarts>>

(* ReviewPayoutAccount, also while a payout is open.                        *)
ReviewPayoutAccount(u) ==
    /\ verified' = [verified EXCEPT ![u] = ~@]
    /\ UNCHANGED <<phase, cash, openID, payouts, external, locals, restarts>>

-----------------------------------------------------------------------------
(* A handler starts work on a payout, hears from the provider, and ends.    *)
Start(h, p, what, id) ==
    /\ job[h] = "none"
    /\ job' = [job EXCEPT ![h] = what]
    /\ payout' = [payout EXCEPT ![h] = p]
    /\ sentTo' = [sentTo EXCEPT ![h] = id]
    /\ UNCHANGED <<reply, restarts>>

Hear(h, answer) ==
    /\ reply[h] = "waiting"
    /\ reply' = [reply EXCEPT ![h] = answer]
    /\ UNCHANGED <<phase, cash, accounts, payouts, job, payout, sentTo, restarts>>

End(h, what) ==
    /\ job[h] = what /\ reply[h] # "waiting"
    /\ job' = [job EXCEPT ![h] = "none"]
    /\ payout' = [payout EXCEPT ![h] = NoPayout]
    /\ reply' = [reply EXCEPT ![h] = "waiting"]
    /\ sentTo' = [sentTo EXCEPT ![h] = 0]
    /\ UNCHANGED <<phase, accounts, external, restarts>>

(* Mutant of BeginDispatch: an uncertain payout is submitted again.         *)
BeginDispatchAgain(h, p) ==
    /\ status[p] \in {"QUEUED", "STATUS_UNCERTAIN"}
    /\ status' = [status EXCEPT ![p] = "SUBMITTING"]
    /\ Start(h, p, "submit", openID[Payee[p]])
    /\ UNCHANGED <<phase, cash, accounts, minor, micro, package, promised, ledger, external>>

(* dispatchPayout: of the request itself, of ApprovePayout, or of the        *)
(* reconciler; claiming the payout and reading its OpenID is a transaction. *)
BeginDispatch(h, p) ==
    /\ Move(p, "QUEUED", "SUBMITTING")
    /\ Start(h, p, "submit", openID[Payee[p]])
    /\ UNCHANGED <<phase, cash, accounts, minor, micro, package, promised, ledger, external>>

(* The provider opens one transfer per bill number; its answer may be lost. *)
ProviderSubmits(h, state) ==
    /\ job[h] = "submit" /\ transfer[payout[h]] = "NONE"
    /\ transfer' = [transfer EXCEPT ![payout[h]] = state]
    /\ recipient' = [recipient EXCEPT ![payout[h]] = sentTo[h]]
    /\ Hear(h, state) \/ Hear(h, "error")

(* Rejected, unreachable, or a provider that is disabled or misconfigured;   *)
(* a query for a bill the provider never saw ends like this too.            *)
ProviderFails(h) ==
    /\ job[h] # "none" /\ Hear(h, "error")
    /\ UNCHANGED external

(* Mutant of Asked: payouts whose submission never returned are forgotten.  *)
AskedAnswered == Submitted \ {"SUBMITTING"}

Asked == Submitted

(* QueryPayout, by an administrator or by ReconcileOpenPayouts.             *)
BeginQuery(h, p) ==
    /\ status[p] \in Asked
    /\ Start(h, p, "query", 0)
    /\ UNCHANGED <<phase, cash, accounts, payouts, external>>

ProviderAnswers(h) ==
    /\ job[h] = "query" /\ transfer[payout[h]] # "NONE"
    /\ Hear(h, transfer[payout[h]])
    /\ UNCHANGED external

-----------------------------------------------------------------------------
(* transferState                                                            *)
TransferState(state) ==
    CASE state = "WAIT_USER_CONFIRM" -> "AWAITING_CONFIRMATION"
      [] state = "FAIL"              -> "FAILED"
      [] OTHER                       -> state

(* Mutant of Settle: every end of a transfer returns the commission.        *)
SettleAsReturn(p, next) == GiveBack(p)

(* What the end of a transfer does to the money.                            *)
Settle(p, next) ==
    \/ next = "SUCCESS" /\ PayOut(p)
    \/ next \in Returned /\ GiveBack(p)
    \/ next \notin Terminal /\ UNCHANGED <<cash, ledger>>

(* applyTransferResult refuses another recipient and ignores what comes      *)
(* after the payout was settled; ...                                        *)
Applicable(p, id) == id = openID[Payee[p]] /\ status[p] \notin Terminal

(* ... anything else overwrites the status, and the package with what this   *)
(* answer brings: only a submission brings one.                             *)
ApplyTransferResult(p, state, id, bringsPackage) ==
    \/ /\ Applicable(p, id)
       /\ Settle(p, TransferState(state))
       /\ status' = [status EXCEPT ![p] = TransferState(state)]
       /\ package' = [package EXCEPT ![p] = bringsPackage]
       /\ UNCHANGED <<minor, micro, promised>>
    \/ ~Applicable(p, id) /\ UNCHANGED <<cash, payouts>>

(* Mutant of MarkUncertain: an error is taken for a failed transfer.        *)
MarkFailed(p) ==
    /\ Move(p, "SUBMITTING", "FAILED")
    /\ GiveBack(p)
    /\ UNCHANGED <<minor, micro, package, promised>>

(* markPayoutUncertain                                                      *)
MarkUncertain(p) ==
    /\ Move(p, "SUBMITTING", "STATUS_UNCERTAIN")
    /\ UNCHANGED <<cash, minor, micro, package, promised, ledger>>

(* dispatchPayout, after the call.                                          *)
ApplySubmit(h) ==
    LET p == payout[h] IN
    /\ End(h, "submit")
    /\ \/ reply[h] = "error" /\ MarkUncertain(p)
       \/ reply[h] = "error" /\ status[p] # "SUBMITTING" /\ UNCHANGED <<cash, payouts>>
       \/ reply[h] # "error"
          /\ ApplyTransferResult(p, reply[h], sentTo[h], reply[h] = "WAIT_USER_CONFIRM")

(* QueryPayout, after the call; an error changes nothing.                   *)
ApplyQuery(h) ==
    LET p == payout[h] IN
    /\ End(h, "query")
    /\ \/ reply[h] = "error" /\ UNCHANGED <<cash, payouts>>
       \/ reply[h] # "error" /\ ApplyTransferResult(p, reply[h], recipient[p], FALSE)

(* HandleWxPayWebhook: only finished transfers are called back, any number   *)
(* of times, late, or not at all.                                           *)
Webhook(p) ==
    /\ transfer[p] \in Ended
    /\ ApplyTransferResult(p, transfer[p], recipient[p], FALSE)
    /\ UNCHANGED <<phase, accounts, external, locals, restarts>>

-----------------------------------------------------------------------------
(* The recipient confirms, the confirmation expires, the money moves.        *)
Moves == {<<"WAIT_USER_CONFIRM", "PROCESSING">>, <<"WAIT_USER_CONFIRM", "CANCELLED">>,
          <<"PROCESSING", "SUCCESS">>, <<"PROCESSING", "FAIL">>}

TransferMoves(p, state) ==
    /\ <<transfer[p], state>> \in Moves
    /\ transfer' = [transfer EXCEPT ![p] = state]
    /\ UNCHANGED <<phase, cash, accounts, payouts, recipient, locals, restarts>>

(* The process dies: every handler is gone, the database stays.             *)
Restart ==
    /\ restarts < MaxRestarts
    /\ job' = [h \in Handlers |-> "none"] /\ payout' = [h \in Handlers |-> NoPayout]
    /\ reply' = [h \in Handlers |-> "waiting"] /\ sentTo' = [h \in Handlers |-> 0]
    /\ restarts' = restarts + 1
    /\ UNCHANGED <<phase, cash, accounts, payouts, external>>

Visit(h, p) == BeginDispatch(h, p) \/ BeginQuery(h, p)

ProviderStep(h) ==
    \/ \E state \in {"WAIT_USER_CONFIRM", "PROCESSING"} : ProviderSubmits(h, state)
    \/ ProviderFails(h) \/ ProviderAnswers(h)

Apply(h) == ApplySubmit(h) \/ ApplyQuery(h)

Commission ==
    \/ \E c \in Commissions : Accrue(c) \/ Mature(c)
    \/ \E u \in Users : Release(u)

AccountStep ==
    \E u \in Users :
        \/ \E accepted \in BOOLEAN : SavePayoutAccount(u, accepted)
        \/ ReviewPayoutAccount(u)

PayoutStep ==
    \E p \in Payouts :
        \/ RequestPayout(p) \/ ApprovePayout(p) \/ RejectPayout(p) \/ Webhook(p)
        \/ \E state \in Transfers : TransferMoves(p, state)

Next ==
    \/ Commission \/ AccountStep \/ PayoutStep
    \/ \E h \in Handlers :
          (\E p \in Payouts : Visit(h, p)) \/ ProviderStep(h) \/ Apply(h)
    \/ Restart

Spec == Init /\ [][Next]_vars

(* ReconcileOpenPayouts visits every open payout each 30 seconds and gives   *)
(* each visit 15; a query asked again and again is answered in the end.  No *)
(* callback is relied on, nor a user or an administrator.                   *)
(* (A pass takes the 100 oldest open payouts: no more of them are open.)    *)
ReconcilerFairness ==
    /\ WF_vars(ProviderStep(Reconciler)) /\ WF_vars(Apply(Reconciler))
    /\ \A p \in Payouts :
          /\ SF_vars(Visit(Reconciler, p))
          /\ SF_vars(payout[Reconciler] = p /\ ProviderAnswers(Reconciler))

FairSpec == Spec /\ ReconcilerFairness

-----------------------------------------------------------------------------
CashTypes ==
    /\ phase \in [Commissions -> {"none", "pending", "due", "available"}]
    /\ pending \in [Users -> Nat] /\ available \in [Users -> Nat]
    /\ locked \in [Users -> Nat] /\ paid \in [Users -> Nat]

PayoutTypes ==
    /\ verified \in [Users -> BOOLEAN]
    /\ openID \in [Users -> Nat]
    /\ status \in [Payouts -> Statuses] /\ package \in [Payouts -> BOOLEAN]
    /\ minor \in [Payouts -> Nat] /\ micro \in [Payouts -> Nat]
    /\ promised \in [Payouts -> Nat] /\ ledger \subseteq Payouts

HandlerTypes ==
    /\ transfer \in [Payouts -> Transfers \cup {"NONE"}]
    /\ recipient \in [Payouts -> Nat]
    /\ job \in [Handlers -> {"none", "submit", "query"}]
    /\ payout \in [Handlers -> Payouts \cup {NoPayout}]
    /\ reply \in [Handlers -> Transfers \cup {"waiting", "error"}]
    /\ sentTo \in [Handlers -> Nat] /\ restarts \in Nat
    /\ \A h \in Handlers :
          IF job[h] = "none" THEN reply[h] = "waiting" ELSE payout[h] \in Payouts

(* Types: no column of a cash account is ever negative, and only a handler   *)
(* at work has an answer.                                                   *)
TypeOK == CashTypes /\ PayoutTypes /\ HandlerTypes

InPhase(u, phases) == {c \in Commissions : Earner[c] = u /\ phase[c] \in phases}
PaidTo(u) == {p \in Payouts : Payee[p] = u /\ status[p] = "SUCCESS"}

(* Whatever races, repeats or is lost, commission neither appears nor        *)
(* disappears: pending is what has not matured, the rest what has; locked   *)
(* is exactly what the open payouts cost, paid what the successful ones did. *)
CashExact ==
    \A u \in Users :
        /\ pending[u] = Total(Part(Share, InPhase(u, {"pending", "due"})))
        /\ available[u] + locked[u] + paid[u] = Total(Part(Share, InPhase(u, {"available"})))
        /\ locked[u] = Total(Part(micro, OpenOf(u)))
        /\ paid[u] = Total(Part(micro, PaidTo(u)))

(* Commission is given back only for a payout whose money has not moved and  *)
(* cannot move any more, though errors, repeated answers and crashes hide    *)
(* what the provider did; it counts as paid only if the money moved, and     *)
(* the cash book has exactly these.                                         *)
SettledAsTransferred ==
    \A p \in Payouts :
        /\ status[p] = "SUCCESS" => transfer[p] = "SUCCESS"
        /\ status[p] \in Returned =>
              /\ transfer[p] \in {"NONE", "FAIL", "CANCELLED"}
              /\ transfer[p] = "NONE" =>
                    \A h \in Handlers : ~(job[h] = "submit" /\ payout[h] = p)
        /\ p \in ledger <=> status[p] = "SUCCESS"

(* A bill is sent to the provider at most once: no handler submits what was  *)
(* submitted before, by it or by another one, before a crash or after it.   *)
SubmittedOnce ==
    \A h \in Handlers :
        job[h] = "submit" =>
            /\ reply[h] = "waiting" => transfer[payout[h]] = "NONE"
            /\ \A g \in Handlers : job[g] = "submit" /\ payout[g] = payout[h] => g = h

(* The money goes to the OpenID that was verified when the payout was asked  *)
(* for, however long it waited for its review or its dispatch.              *)
PaidAsPromised ==
    \A p \in Payouts : transfer[p] # "NONE" => recipient[p] = promised[p]

(* All payouts of a day, of all users, stay within the site's limit.        *)
DailyLimitKept ==
    Total(Part(minor, {p \in Payouts : status[p] \notin Returned \cup {"NONE"}}))
        <= DailyLimit

(* Only this server can take the next step: nobody submitted the payout, or  *)
(* its transfer ended and it is not settled.                                *)
Neglected(p) ==
    \/ status[p] = "QUEUED"
    \/ transfer[p] \in Ended /\ status[p] \notin Terminal

(* Without any callback or user, what the provider ended is settled here,    *)
(* and an approved payout does not wait for ever to be submitted, also after *)
(* a crash between the two.                                                 *)
EndedIsSettled == \A p \in Payouts : Neglected(p) ~> ~Neglected(p)
=============================================================================
