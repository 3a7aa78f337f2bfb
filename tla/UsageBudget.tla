---------------------------- MODULE UsageBudget -----------------------------
(***************************************************************************)
(* Pre-authorisation and settlement of billable gateway calls: what a call  *)
(* does to users.balance_micro / balance_held_micro / remaining_requests    *)
(* and to api_keys.quota_* between authentication and the end of relay(),   *)
(* while other calls, top-ups, administrators, key edits, database faults   *)
(* and restarts run beside it.                                              *)
(*                                                                          *)
(* One relay slot is one goroutine inside gateway.relay.  Every action is   *)
(* one database transaction or statement of that goroutine: between two of  *)
(* them any other relay may run.  pass, ticket and the res* functions are   *)
(* the goroutine's locals (authedKey), so a crash forgets them.             *)
(***************************************************************************)
EXTENDS Holds

CONSTANTS
    Users, Keys, Relays,
    Admins,         \* users with Role = admin
    Owner,          \* api_keys.user_id
    Subscribed,     \* keys whose user subscribes to one of the routed groups
    Estimates,      \* what estimateRequestBudget may return
    Costs,          \* what a successful call may turn out to cost
    Overrun,        \* may a call cost more than its estimate?
    InitBalance, InitRequests, InitQuota, InitDaily,
    Deposits,       \* amounts added to a balance: top-ups, admin adjustments
    SetBalances,    \* absolute balances an administrator writes
    KeyLimits,      \* limits a user may write on a key (0 is "no limit")
    Grants,         \* request cards a redeem code is worth
    MaxCalls, MaxEdits, MaxFaults,   \* bounds of the counters
    NoKey           \* an idle relay serves no key

ASSUME SetsAssumption ==
    /\ IsFiniteSet(Relays)
    /\ Admins \subseteq Users
    /\ Owner \in [Keys -> Users]
    /\ Subscribed \subseteq Keys
    /\ NoKey \notin Keys

ASSUME AmountsAssumption ==
    /\ Estimates \subseteq Nat /\ Costs \subseteq Nat /\ Overrun \in BOOLEAN
    /\ InitBalance \in [Users -> Int] /\ InitRequests \in [Users -> Nat]
    /\ InitQuota \in [Keys -> Nat] /\ InitDaily \in [Keys -> Nat]
    /\ Deposits \subseteq Int /\ SetBalances \subseteq Nat
    /\ KeyLimits \subseteq Nat /\ Grants \subseteq Nat

ASSUME BoundsAssumption ==
    MaxCalls \in Nat /\ MaxEdits \in Nat /\ MaxFaults \in Nat

VARIABLES
    balance, held, remaining, access,                    \* users
    quota, daily, used, keyHeld, dayHeld,                \* api_keys
    usedToday,                                           \* SUM(usage_logs) today
    pc, rkey, pass, ticket, est, resBal, resKey, resDay, \* relay locals
    deposited, charged, logged,                          \* ghosts: money
    granted, spent, lost,                                \* ghosts: request cards
    leakBal, leakKey, leakDay,                           \* ghosts: failed releases
    calls, edits, faults

userRow == <<balance, held, remaining, access>>
keyRow  == <<quota, daily, used, keyHeld, dayHeld, usedToday>>
limits  == <<quota, daily>>
locals  == <<rkey, pass, ticket, est>>
budget  == <<resBal, resKey, resDay>>
money   == <<deposited, charged, logged>>
cards   == <<granted, spent, lost>>
leaks   == <<leakBal, leakKey, leakDay>>
counts  == <<calls, edits, faults>>
vars    == <<userRow, keyRow, pc, locals, budget, money, cards, leaks, counts>>

Stages == {"idle", "admitted", "recheck", "entitled", "calling",
           "releasing", "refunding"}

-----------------------------------------------------------------------------
(* Relays by the user and by the key they serve.                            *)
RelaysWith(k) == {r \in Relays : rkey[r] = k}
RelaysOf(u)   == {r \in Relays : rkey[r] \in Keys /\ Owner[rkey[r]] = u}

User(r)   == Owner[rkey[r]]
IsAdmin(r) == User(r) \in Admins

(* Mutant of CashBilling: a call that took a request card holds cash too.    *)
CashBillingDespiteCard(r) == ~IsAdmin(r) /\ ~pass[r]

(* ak.User.Role != admin && !ak.AccessActive && !ak.RequestReserved         *)
CashBilling(r) == ~IsAdmin(r) /\ ~pass[r] /\ ticket[r] = 0

(* SkipBalance is false: Record debits the balance and settles commission.  *)
Charged(r) == ~pass[r] /\ ticket[r] = 0

Init ==
    /\ balance = InitBalance /\ remaining = InitRequests
    /\ held = [u \in Users |-> 0] /\ access = [u \in Users |-> FALSE]
    /\ quota = InitQuota /\ daily = InitDaily
    /\ used = [k \in Keys |-> 0] /\ usedToday = [k \in Keys |-> 0]
    /\ keyHeld = [k \in Keys |-> 0] /\ dayHeld = [k \in Keys |-> 0]
    /\ pc = [r \in Relays |-> "idle"] /\ rkey = [r \in Relays |-> NoKey]
    /\ pass = [r \in Relays |-> FALSE] /\ ticket = [r \in Relays |-> 0]
    /\ est = [r \in Relays |-> 0]
    /\ resBal = [r \in Relays |-> 0] /\ resKey = [r \in Relays |-> 0]
    /\ resDay = [r \in Relays |-> 0]
    /\ deposited = InitBalance /\ granted = InitRequests
    /\ charged = [u \in Users |-> 0] /\ logged = [k \in Keys |-> 0]
    /\ spent = [u \in Users |-> 0] /\ lost = [u \in Users |-> 0]
    /\ leakBal = [u \in Users |-> 0]
    /\ leakKey = [k \in Keys |-> 0] /\ leakDay = [k \in Keys |-> 0]
    /\ calls = 0 /\ edits = 0 /\ faults = 0

-----------------------------------------------------------------------------
(* Going from one stage of relay() to the next, or leaving it.              *)
Goto(r, stage) == pc' = [pc EXCEPT ![r] = stage]

Leave(r) ==
    /\ Goto(r, "idle")
    /\ rkey' = [rkey EXCEPT ![r] = NoKey]
    /\ pass' = [pass EXCEPT ![r] = FALSE]
    /\ ticket' = [ticket EXCEPT ![r] = 0]
    /\ est' = [est EXCEPT ![r] = 0]

Fault == faults < MaxFaults /\ faults' = faults + 1 /\ UNCHANGED <<calls, edits>>

(* authenticateWithOptions, the key already known to be active.  Refusals    *)
(* change no state this module keeps and are not steps.                     *)
Authenticate(r, k) ==
    LET u == Owner[k] IN
    /\ pc[r] = "idle" /\ calls < MaxCalls
    /\ quota[k] > 0 => used[k] < quota[k]
    /\ daily[k] > 0 => usedToday[k] < daily[k]
    /\ u \in Admins \/ access[u] \/ remaining[u] > 0 \/ balance[u] > 0
    /\ Goto(r, "admitted")
    /\ rkey' = [rkey EXCEPT ![r] = k]
    /\ pass' = [pass EXCEPT ![r] = access[u] \/ (k \in Subscribed /\ u \notin Admins)]
    /\ calls' = calls + 1
    /\ UNCHANGED <<userRow, keyRow, ticket, est, budget, money, cards, leaks,
                   edits, faults>>

(* The client gives up, or the concurrency limit refuses the call.          *)
GiveUp(r) ==
    /\ pc[r] = "admitted"
    /\ Leave(r)
    /\ UNCHANGED <<userRow, keyRow, budget, money, cards, leaks, counts>>

(* Admins and calls covered by a day pass or a subscription need no card.   *)
SkipRequest(r) ==
    /\ pc[r] = "admitted" /\ (IsAdmin(r) \/ pass[r])
    /\ Goto(r, "entitled")
    /\ UNCHANGED <<userRow, keyRow, locals, budget, money, cards, leaks, counts>>

(* Mutant of TakeRequest: the UPDATE loses "AND remaining_requests > 0".    *)
TakeRequestUnguarded(r) ==
    /\ pc[r] = "admitted" /\ ~IsAdmin(r) /\ ~pass[r]
    /\ remaining' = [remaining EXCEPT ![User(r)] = @ - 1]
    /\ ticket' = [ticket EXCEPT ![r] = 1]
    /\ Goto(r, "entitled")
    /\ UNCHANGED <<balance, held, access, keyRow, rkey, pass, est, budget,
                   money, cards, leaks, counts>>

(* reserveRequestQuota: one card, taken by a conditional UPDATE.            *)
TakeRequest(r) ==
    /\ pc[r] = "admitted" /\ ~IsAdmin(r) /\ ~pass[r]
    /\ remaining[User(r)] > 0
    /\ remaining' = [remaining EXCEPT ![User(r)] = @ - 1]
    /\ ticket' = [ticket EXCEPT ![r] = 1]
    /\ Goto(r, "entitled")
    /\ UNCHANGED <<balance, held, access, keyRow, rkey, pass, est, budget,
                   money, cards, leaks, counts>>

(* ... or the UPDATE matches no row, or fails: both are "no card".          *)
MissRequest(r) ==
    /\ pc[r] = "admitted" /\ ~IsAdmin(r) /\ ~pass[r]
    /\ \/ remaining[User(r)] = 0 /\ UNCHANGED counts
       \/ Fault
    /\ Goto(r, "recheck")
    /\ UNCHANGED <<userRow, keyRow, locals, budget, money, cards, leaks>>

(* The user row is read again: a pass redeemed since, else cash, else 402.  *)
RecheckPass(r) ==
    /\ pc[r] = "recheck" /\ access[User(r)]
    /\ pass' = [pass EXCEPT ![r] = TRUE]
    /\ Goto(r, "entitled")
    /\ UNCHANGED <<userRow, keyRow, rkey, ticket, est, budget, money, cards,
                   leaks, counts>>

RecheckCash(r) ==
    /\ pc[r] = "recheck" /\ ~access[User(r)] /\ balance[User(r)] > 0
    /\ Goto(r, "entitled")
    /\ UNCHANGED <<userRow, keyRow, locals, budget, money, cards, leaks, counts>>

RecheckRefuse(r) ==
    /\ pc[r] = "recheck" /\ ~access[User(r)] /\ balance[User(r)] <= 0
    /\ Leave(r)
    /\ UNCHANGED <<userRow, keyRow, budget, money, cards, leaks, counts>>

-----------------------------------------------------------------------------
(* Mutant of CashFits: what other calls hold is not subtracted.             *)
CashFitsIgnoringHolds(r, e) == CashBilling(r) => balance[User(r)] >= e

(* Mutant of QuotaFits: the same mistake for the lifetime quota.            *)
QuotaFitsIgnoringHolds(k, e) == quota[k] > 0 => used[k] + e <= quota[k]

(* reserveUsageBudget: the conditional updates of its transaction.          *)
CashFits(r, e)  == CashBilling(r) => balance[User(r)] - held[User(r)] >= e
QuotaFits(k, e) == quota[k] > 0 => used[k] + keyHeld[k] + e <= quota[k]
DailyFits(k, e) == daily[k] > 0 => usedToday[k] + dayHeld[k] + e <= daily[k]

Fits(r, e) == CashFits(r, e) /\ QuotaFits(rkey[r], e) /\ DailyFits(rkey[r], e)

(* What is held where: cash only for cash calls, quotas only where set.     *)
CashHold(r, e)  == IF CashBilling(r) THEN e ELSE 0
QuotaHold(k, e) == IF quota[k] > 0 THEN e ELSE 0
DailyHold(k, e) == IF daily[k] > 0 THEN e ELSE 0

(* An estimate of zero reserves nothing and is admitted unchecked.          *)
ReserveBudget(r, e) ==
    LET k == rkey[r] IN
    /\ pc[r] = "entitled"
    /\ e > 0 => Fits(r, e)
    /\ held' = [held EXCEPT ![User(r)] = @ + CashHold(r, e)]
    /\ keyHeld' = [keyHeld EXCEPT ![k] = @ + QuotaHold(k, e)]
    /\ dayHeld' = [dayHeld EXCEPT ![k] = @ + DailyHold(k, e)]
    /\ resBal' = [resBal EXCEPT ![r] = CashHold(r, e)]
    /\ resKey' = [resKey EXCEPT ![r] = QuotaHold(k, e)]
    /\ resDay' = [resDay EXCEPT ![r] = DailyHold(k, e)]
    /\ est' = [est EXCEPT ![r] = e]
    /\ Goto(r, "calling")
    /\ UNCHANGED <<balance, remaining, access, limits, used, usedToday, rkey,
                   pass, ticket, money, cards, leaks, counts>>

(* The transaction rolls back whole: no budget, or a database error.        *)
RefuseBudget(r, e) ==
    /\ pc[r] = "entitled" /\ e > 0
    /\ \/ ~Fits(r, e) /\ UNCHANGED counts
       \/ Fault
    /\ Goto(r, "refunding")
    /\ UNCHANGED <<userRow, keyRow, locals, budget, money, cards, leaks>>

(* Mutant of Abandon: the deferred release is not registered.               *)
AbandonUnreleased(r) ==
    /\ pc[r] = "calling"
    /\ Goto(r, "refunding")
    /\ UNCHANGED <<userRow, keyRow, locals, budget, money, cards, leaks, counts>>

(* Every way out of the attempt loop but a recorded success: cancellation,  *)
(* exhausted accounts, a passed-through upstream error, Record failing.     *)
Abandon(r) ==
    /\ pc[r] = "calling"
    /\ Goto(r, "releasing")
    /\ UNCHANGED <<userRow, keyRow, locals, budget, money, cards, leaks, counts>>

DropBudget(r) ==
    /\ resBal' = [resBal EXCEPT ![r] = 0]
    /\ resKey' = [resKey EXCEPT ![r] = 0]
    /\ resDay' = [resDay EXCEPT ![r] = 0]

(* The three clipped subtractions that releaseUsageBudget and Record share. *)
Unhold(r) ==
    /\ held' = [held EXCEPT ![User(r)] = Clipped(@, resBal[r])]
    /\ keyHeld' = [keyHeld EXCEPT ![rkey[r]] = Clipped(@, resKey[r])]
    /\ dayHeld' = [dayHeld EXCEPT ![rkey[r]] = Clipped(@, resDay[r])]

ReleaseBudget(r) ==
    /\ pc[r] = "releasing"
    /\ Unhold(r) /\ DropBudget(r)
    /\ Goto(r, "refunding")
    /\ UNCHANGED <<balance, remaining, access, limits, used, usedToday, locals,
                   money, cards, leaks, counts>>

(* A failed release is only logged: the rows keep the hold until a restart. *)
ReleaseFails(r) ==
    /\ pc[r] = "releasing" /\ Fault
    /\ leakBal' = [leakBal EXCEPT ![User(r)] = @ + resBal[r]]
    /\ leakKey' = [leakKey EXCEPT ![rkey[r]] = @ + resKey[r]]
    /\ leakDay' = [leakDay EXCEPT ![rkey[r]] = @ + resDay[r]]
    /\ DropBudget(r)
    /\ Goto(r, "refunding")
    /\ UNCHANGED <<userRow, keyRow, locals, money, cards>>

(* Mutant of RefundRequest: a card is given back that was never taken.      *)
RefundAlways(r) ==
    /\ pc[r] = "refunding"
    /\ remaining' = [remaining EXCEPT ![User(r)] = @ + 1]
    /\ Leave(r)
    /\ UNCHANGED <<balance, held, access, keyRow, budget, money, cards, leaks,
                   counts>>

(* The deferred refundRequestQuota of a call that did not complete.         *)
RefundRequest(r) ==
    /\ pc[r] = "refunding"
    /\ remaining' = [remaining EXCEPT ![User(r)] = @ + ticket[r]]
    /\ Leave(r)
    /\ UNCHANGED <<balance, held, access, keyRow, budget, money, cards, leaks,
                   counts>>

RefundFails(r) ==
    /\ pc[r] = "refunding" /\ ticket[r] = 1 /\ Fault
    /\ lost' = [lost EXCEPT ![User(r)] = @ + 1]
    /\ Leave(r)
    /\ UNCHANGED <<userRow, keyRow, budget, money, granted, spent, leaks>>

(* BillingService.Record for a success that cost c: usage log, holds,       *)
(* debit, lifetime use and commission in one transaction.                   *)
NextUsed(k, c) ==
    IF quota[k] > 0 /\ used[k] + c > quota[k] THEN quota[k] ELSE used[k] + c

Settle(r, c) ==
    LET u == User(r)
        k == rkey[r] IN
    /\ pc[r] = "calling"
    /\ Overrun \/ c <= est[r]
    /\ Unhold(r) /\ DropBudget(r)
    /\ balance' = [balance EXCEPT ![u] =
                     IF resBal[r] > 0 \/ (c > 0 /\ Charged(r))
                     THEN Clipped(@, c) ELSE @]
    /\ used' = [used EXCEPT ![k] =
                     IF c > 0 \/ resKey[r] > 0 \/ resDay[r] > 0
                     THEN NextUsed(k, c) ELSE @]
    /\ usedToday' = [usedToday EXCEPT ![k] = @ + c]
    /\ logged' = [logged EXCEPT ![k] = @ + c]
    /\ charged' = [charged EXCEPT ![u] = IF Charged(r) THEN @ + c ELSE @]
    /\ spent' = [spent EXCEPT ![u] = @ + ticket[r]]
    /\ Leave(r)
    /\ UNCHANGED <<remaining, access, limits, deposited, granted, lost, leaks,
                   counts>>

RelayStep(r) ==
    \/ GiveUp(r) \/ SkipRequest(r) \/ TakeRequest(r) \/ MissRequest(r)
    \/ RecheckPass(r) \/ RecheckCash(r) \/ RecheckRefuse(r)
    \/ \E e \in Estimates : ReserveBudget(r, e) \/ RefuseBudget(r, e)
    \/ Abandon(r) \/ ReleaseBudget(r) \/ ReleaseFails(r)
    \/ RefundRequest(r) \/ RefundFails(r)
    \/ \E c \in Costs : Settle(r, c)

-----------------------------------------------------------------------------
(* The rest of the program, as far as it writes these rows.                 *)
Edit == edits < MaxEdits /\ edits' = edits + 1 /\ UNCHANGED <<calls, faults>>

(* Redeem of an amount code, a completed top-up, an admin's add_balance.    *)
AddBalance(u, a) ==
    /\ Edit
    /\ balance' = [balance EXCEPT ![u] = @ + a]
    /\ deposited' = [deposited EXCEPT ![u] = @ + a]
    /\ UNCHANGED <<held, remaining, access, keyRow, pc, locals, budget, charged,
                   logged, cards, leaks>>

(* An admin's set_balance: an absolute value, blind to what is in flight.   *)
SetBalance(u, b) ==
    /\ Edit
    /\ balance' = [balance EXCEPT ![u] = b]
    /\ deposited' = [deposited EXCEPT ![u] = @ + (b - balance[u])]
    /\ UNCHANGED <<held, remaining, access, keyRow, pc, locals, budget, charged,
                   logged, cards, leaks>>

GrantRequests(u, n) ==
    /\ Edit
    /\ remaining' = [remaining EXCEPT ![u] = @ + n]
    /\ granted' = [granted EXCEPT ![u] = @ + n]
    /\ UNCHANGED <<balance, held, access, keyRow, pc, locals, budget, money,
                   spent, lost, leaks>>

GrantPass(u) ==
    /\ Edit /\ access' = [access EXCEPT ![u] = TRUE]
    /\ UNCHANGED <<balance, held, remaining, keyRow, pc, locals, budget, money,
                   cards, leaks>>

PassExpires(u) ==
    /\ access[u] /\ access' = [access EXCEPT ![u] = FALSE]
    /\ UNCHANGED <<balance, held, remaining, keyRow, pc, locals, budget, money,
                   cards, leaks, counts>>

SetKeyLimits(k, q, d) ==
    /\ Edit
    /\ quota' = [quota EXCEPT ![k] = q]
    /\ daily' = [daily EXCEPT ![k] = d]
    /\ UNCHANGED <<userRow, used, keyHeld, dayHeld, usedToday, pc, locals,
                   budget, money, cards, leaks>>

(* Local midnight: the daily sum starts again, the daily holds do not.      *)
DayRollover ==
    /\ usedToday' = [k \in Keys |-> 0]
    /\ UNCHANGED <<userRow, limits, used, keyHeld, dayHeld, pc, locals, budget,
                   money, cards, leaks, counts>>

(* The process dies; store.Open clears every hold before new traffic.       *)
CrashRestart ==
    /\ Fault
    /\ held' = [u \in Users |-> 0]
    /\ keyHeld' = [k \in Keys |-> 0] /\ dayHeld' = [k \in Keys |-> 0]
    /\ pc' = [r \in Relays |-> "idle"] /\ rkey' = [r \in Relays |-> NoKey]
    /\ pass' = [r \in Relays |-> FALSE] /\ ticket' = [r \in Relays |-> 0]
    /\ est' = [r \in Relays |-> 0]
    /\ resBal' = [r \in Relays |-> 0] /\ resKey' = [r \in Relays |-> 0]
    /\ resDay' = [r \in Relays |-> 0]
    /\ lost' = [u \in Users |-> lost[u] + Total(Part(ticket, RelaysOf(u)))]
    /\ leakBal' = [u \in Users |-> 0]
    /\ leakKey' = [k \in Keys |-> 0] /\ leakDay' = [k \in Keys |-> 0]
    /\ UNCHANGED <<balance, remaining, access, limits, used, usedToday, money,
                   granted, spent>>

Environment ==
    \/ \E u \in Users : \/ \E a \in Deposits : AddBalance(u, a)
                        \/ \E b \in SetBalances : SetBalance(u, b)
                        \/ \E n \in Grants : GrantRequests(u, n)
                        \/ GrantPass(u) \/ PassExpires(u)
    \/ \E k \in Keys, q, d \in KeyLimits : SetKeyLimits(k, q, d)
    \/ DayRollover \/ CrashRestart

Next ==
    \/ \E r \in Relays : RelayStep(r) \/ \E k \in Keys : Authenticate(r, k)
    \/ Environment

Spec == Init /\ [][Next]_vars

(* A relay that was let in keeps running: its upstream calls have timeouts, *)
(* its attempts are bounded and its deferred calls always run.              *)
Fairness == \A r \in Relays : WF_vars(RelayStep(r))

FairSpec == Spec /\ Fairness

-----------------------------------------------------------------------------
(* Types: balances may be negative (an administrator can deduct), holds,    *)
(* cards and uses may not, and only relays inside the budget hold anything. *)
TypeOK ==
    /\ balance \in [Users -> Int] /\ held \in [Users -> Nat]
    /\ remaining \in [Users -> Nat] /\ access \in [Users -> BOOLEAN]
    /\ quota \in [Keys -> Nat] /\ daily \in [Keys -> Nat]
    /\ used \in [Keys -> Nat] /\ usedToday \in [Keys -> Nat]
    /\ keyHeld \in [Keys -> Nat] /\ dayHeld \in [Keys -> Nat]
    /\ pc \in [Relays -> Stages]
    /\ rkey \in [Relays -> Keys \cup {NoKey}]
    /\ pass \in [Relays -> BOOLEAN] /\ ticket \in [Relays -> 0..1]
    /\ est \in [Relays -> Nat] /\ resBal \in [Relays -> Nat]
    /\ resKey \in [Relays -> Nat] /\ resDay \in [Relays -> Nat]
    /\ deposited \in [Users -> Int]
    /\ charged \in [Users -> Nat] /\ logged \in [Keys -> Nat]
    /\ granted \in [Users -> Nat] /\ spent \in [Users -> Nat]
    /\ lost \in [Users -> Nat] /\ leakBal \in [Users -> Nat]
    /\ leakKey \in [Keys -> Nat] /\ leakDay \in [Keys -> Nat]
    /\ calls \in Nat /\ edits \in Nat /\ faults \in Nat
    /\ \A r \in Relays : (pc[r] = "idle") <=> (rkey[r] = NoKey)

(* A call pays by one means: it never holds cash while it spends a card or  *)
(* rides on a pass, its cash hold is its whole estimate or nothing, and it  *)
(* holds something only between reserveUsageBudget and its settlement or    *)
(* release, whatever order the deferred calls of relay() run in.            *)
OneMeansOfPayment ==
    \A r \in Relays :
        /\ pc[r] \in {"calling", "releasing"} =>
              resBal[r] = IF IsAdmin(r) \/ pass[r] \/ ticket[r] = 1
                          THEN 0 ELSE est[r]
        /\ pc[r] \notin {"calling", "releasing"} =>
              resBal[r] = 0 /\ resKey[r] = 0 /\ resDay[r] = 0
        /\ pc[r] \in {"idle", "admitted", "recheck"} => ticket[r] = 0
        /\ ticket[r] = 1 => ~pass[r] /\ ~IsAdmin(r)

(* What the live relays reserved of one row.                                *)
CashReserved(u)  == Total(Part(resBal, RelaysOf(u)))
KeyReserved(k)   == Total(Part(resKey, RelaysWith(k)))
DailyReserved(k) == Total(Part(resDay, RelaysWith(k)))
CardsInFlight(u) == Total(Part(ticket, RelaysOf(u)))

(* A held column is exactly the sum of what live relays reserved and what    *)
(* failed releases left behind: no reservation is counted twice, none is    *)
(* released twice, and the clipping in releaseUsageBudget and Record never  *)
(* bites, whatever interleaves, also across restarts and limit edits.       *)
CashHoldsConserved ==
    \A u \in Users : held[u] = CashReserved(u) + leakBal[u]
KeyHoldsConserved ==
    \A k \in Keys : keyHeld[k] = KeyReserved(k) + leakKey[k]
DailyHoldsConserved ==
    \A k \in Keys : dayHeld[k] = DailyReserved(k) + leakDay[k]

HoldConservation ==
    CashHoldsConserved /\ KeyHoldsConserved /\ DailyHoldsConserved

(* Every request card ever granted is left on the account, in the hands of  *)
(* one live relay, spent on a settled call, or lost to a fault: concurrent  *)
(* calls never spend one card twice and a failed call gives it back once.   *)
CardConservation ==
    \A u \in Users :
        granted[u] = remaining[u] + CardsInFlight(u) + spent[u] + lost[u]

(* What a call takes before it is sent, money of three columns or a card, is *)
(* settled or given back exactly once by whichever return ends the call.    *)
Conservation == HoldConservation /\ CardConservation

(* The hypotheses of the next two properties:   no call costs more than its *)
(* estimate, and administrators neither deduct from nor overwrite balances. *)
WithinEstimates ==
    /\ ~Overrun /\ Deposits \subseteq Nat /\ SetBalances = {}
    /\ \A u \in Users \ Admins : InitBalance[u] >= 0

(* Concurrent calls never reserve the same money twice: what is held is     *)
(* covered by the balance, so every admitted cash call can be paid.         *)
HeldCovered == \A u \in Users \ Admins : held[u] <= balance[u]

(* What a user's balance lost is what his cash calls cost, and that cost is *)
(* the base of the referral commission: nothing is billed to nobody.        *)
CommissionFollowsPayment ==
    \A u \in Users \ Admins : charged[u] = deposited[u] - balance[u]

(* The hypotheses of the next property: nobody edits the limits of a key.   *)
FixedLimits == ~Overrun /\ KeyLimits = {}

(* A key never commits more than its lifetime and daily limits: logged cost *)
(* and live reservations together stay within them.                         *)
KeyLimitsRespected ==
    \A k \in Keys :
        /\ quota[k] > 0 => logged[k] + keyHeld[k] <= quota[k]
        /\ daily[k] > 0 => usedToday[k] + dayHeld[k] <= daily[k]

(* Once calls stop coming, no hold is left but what failed releases leaked. *)
HoldsDrain == <>[](held = leakBal /\ keyHeld = leakKey /\ dayHeld = leakDay)
=============================================================================
