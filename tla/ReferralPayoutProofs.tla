------------------------- MODULE ReferralPayoutProofs -------------------------
(***************************************************************************)
(* Theorems about ReferralPayout: types and conservation of commission,     *)
(* the site's daily limit, that a bill is submitted once and to the right   *)
(* recipient, and that a payout is settled as its transfer ended.           *)
(***************************************************************************)
EXTENDS ReferralPayout, HoldsProofs

USE PayoutAssumption

ColumnTypes ==
    /\ pending \in [Users -> Nat] /\ available \in [Users -> Nat]
    /\ locked \in [Users -> Nat] /\ paid \in [Users -> Nat]

RowTypes ==
    /\ status \in [Payouts -> Statuses] /\ package \in [Payouts -> BOOLEAN]
    /\ minor \in [Payouts -> Nat] /\ micro \in [Payouts -> Nat]
    /\ promised \in [Payouts -> Nat] /\ ledger \subseteq Payouts

-----------------------------------------------------------------------------
(* Sums of a user's commissions and payouts.                                *)
Waiting(u)  == Total(Part(Share, InPhase(u, {"pending", "due"})))
Earned(u)   == Total(Part(Share, InPhase(u, {"available"})))
OpenCost(u) == Total(Part(micro, OpenOf(u)))
PaidCost(u) == Total(Part(micro, PaidTo(u)))

(* All of them are natural numbers.                                         *)
LEMMA SumTypes ==
    ASSUME PayoutTypes, NEW u \in Users
    PROVE  /\ Waiting(u) \in Nat /\ Earned(u) \in Nat /\ DueSum(u) \in Nat
           /\ OpenCost(u) \in Nat /\ PaidCost(u) \in Nat
<1>1. Share \in [Commissions -> Nat] /\ micro \in [Payouts -> Nat]
  BY DEF PayoutTypes
<1> QED
  BY <1>1, PartTotalType DEF Waiting, Earned, DueSum, OpenCost, PaidCost

(* CashExact, in terms of the sums.                                         *)
LEMMA ExactBySums ==
    CashExact <=> \A u \in Users :
                     /\ pending[u] = Waiting(u)
                     /\ available[u] + locked[u] + paid[u] = Earned(u)
                     /\ locked[u] = OpenCost(u)
                     /\ paid[u] = PaidCost(u)
BY DEF CashExact, Waiting, Earned, OpenCost, PaidCost

(* What is due is a part of what is pending.                                *)
LEMMA DueWithin ==
    ASSUME TypeOK, CashExact, NEW u \in Users
    PROVE  DueSum(u) \in Nat /\ DueSum(u) <= pending[u]
<1> DEFINE rest == InPhase(u, {"pending"})
<1>1. Share \in [Commissions -> Nat]
  OBVIOUS
<1>2. InPhase(u, {"pending", "due"}) = rest \cup Due(u)
  BY DEF InPhase, Due
<1>3. \A c \in Commissions : ~(c \in rest /\ c \in Due(u))
  BY DEF InPhase, Due
<1>4. Waiting(u) = Total(Part(Share, rest)) + DueSum(u)
  BY <1>1, <1>2, <1>3, PartUnion DEF Waiting, DueSum
<1>5. Total(Part(Share, rest)) \in Nat /\ DueSum(u) \in Nat
  BY <1>1, PartTotalType DEF DueSum
<1>6. pending[u] = Waiting(u)
  BY ExactBySums
<1> HIDE DEF rest
<1> QED
  BY <1>4, <1>5, <1>6

-----------------------------------------------------------------------------
(* The conversions of a payout stay in the natural numbers.                 *)
LEMMA PayableType ==
    ASSUME NEW amount \in Nat
    PROVE  Payable(amount) \in Nat /\ Cost(Payable(amount)) \in Nat
<1>1. ASSUME NEW a \in Nat, NEW b \in Nat \ {0} PROVE a \div b \in Nat
  BY <1>1
<1>2. ASSUME NEW a \in Nat, NEW b \in Nat PROVE a * b \in Nat
  BY <1>2
<1>3. (amount * Divisor) \div Rate \in Nat
  BY <1>1, <1>2
<1>4. Payable(amount) \in Nat
  BY <1>3 DEF Payable, Least
<1>5. (Payable(amount) * Rate) \div Divisor \in Nat
  BY <1>1, <1>2, <1>4
<1> QED
  BY <1>4, <1>5 DEF Cost

(* Settling a payout keeps the types of the account and of the ledger.      *)
LEMMA TypeSettle ==
    ASSUME ColumnTypes, RowTypes, NEW p \in Payouts, NEW next, Settle(p, next)
    PROVE  ColumnTypes' /\ ledger' \subseteq Payouts
<1>1. Payee[p] \in Users /\ micro[p] \in Nat
  BY DEF RowTypes
<1>2. CASE GiveBack(p)
  BY <1>1, <1>2 DEF GiveBack, Unlock, Add, ColumnTypes, RowTypes
<1>3. CASE PayOut(p)
  BY <1>1, <1>3 DEF PayOut, Unlock, Add, ColumnTypes, RowTypes
<1>4. CASE UNCHANGED <<cash, ledger>>
  BY <1>4 DEF cash, ColumnTypes, RowTypes
<1> QED
  BY <1>2, <1>3, <1>4 DEF Settle

(* The states of transfers are those of payouts, by other names.            *)
LEMMA StateType ==
    ASSUME NEW state \in Transfers
    PROVE  /\ TransferState(state) \in Submitted \cup Terminal
           /\ TransferState(state) \in Terminal <=> state \in Ended
           /\ TransferState(state) = "SUCCESS" <=> state = "SUCCESS"
           /\ TransferState(state) \in Returned <=> state \in {"FAIL", "CANCELLED"}
BY DEF Transfers, Ended, TransferState, Submitted, Terminal, Returned

(* A result of the provider keeps the types.                                *)
LEMMA TypeResult ==
    ASSUME ColumnTypes, RowTypes, NEW p \in Payouts, NEW state \in Transfers,
           NEW id, NEW brings \in BOOLEAN, ApplyTransferResult(p, state, id, brings)
    PROVE  ColumnTypes' /\ RowTypes'
<1>1. CASE Applicable(p, id)
  <2>1. /\ Settle(p, TransferState(state))
        /\ status' = [status EXCEPT ![p] = TransferState(state)]
        /\ package' = [package EXCEPT ![p] = brings]
        /\ UNCHANGED <<minor, micro, promised>>
    BY <1>1 DEF ApplyTransferResult
  <2>2. ColumnTypes' /\ ledger' \subseteq Payouts
    BY <2>1, TypeSettle
  <2>3. TransferState(state) \in Statuses
    BY StateType DEF Statuses
  <2> QED
    BY <2>1, <2>2, <2>3 DEF RowTypes
<1>2. CASE ~Applicable(p, id)
  <2>1. UNCHANGED <<cash, payouts>>
    BY <1>2 DEF ApplyTransferResult
  <2> QED
    BY <2>1 DEF cash, payouts, ColumnTypes, RowTypes
<1> QED
  BY <1>1, <1>2

(* Starting and ending a handler keeps the types of handlers.               *)
LEMMA TypeStart ==
    ASSUME HandlerTypes, NEW h \in Handlers, NEW p \in Payouts, NEW id \in Nat,
           NEW what \in {"submit", "query"}, Start(h, p, what, id), UNCHANGED external
    PROVE  HandlerTypes'
BY DEF Start, HandlerTypes, external

LEMMA TypeEnd ==
    ASSUME HandlerTypes, NEW h \in Handlers, NEW what, End(h, what)
    PROVE  HandlerTypes'
BY DEF End, HandlerTypes, external

LEMMA TypeHear ==
    ASSUME HandlerTypes, NEW h \in Handlers, NEW answer \in Transfers \cup {"error"},
           job[h] # "none", Hear(h, answer),
           transfer' \in [Payouts -> Transfers \cup {"NONE"}],
           recipient' \in [Payouts -> Nat]
    PROVE  HandlerTypes'
BY DEF Hear, HandlerTypes, Transfers

(* Commission that accrues or matures, and the account it is paid to.       *)
LEMMA TypeCommission ==
    ASSUME TypeOK, CashExact, Commission \/ AccountStep
    PROVE  TypeOK'
<1> USE DEF TypeOK
<1>1. \A c \in Commissions : Earner[c] \in Users /\ Share[c] \in Nat
  OBVIOUS
<1>2. ASSUME NEW c \in Commissions, Accrue(c) PROVE TypeOK'
  BY <1>1, <1>2 DEF Accrue, Add, CashTypes, PayoutTypes, HandlerTypes, accounts,
       payouts, external, locals
<1>3. ASSUME NEW c \in Commissions, Mature(c) PROVE TypeOK'
  BY <1>3 DEF Mature, CashTypes, PayoutTypes, HandlerTypes, cash, accounts,
       payouts, external, locals
<1>4. ASSUME NEW u \in Users, Release(u) PROVE TypeOK'
  <2>1. DueSum(u) \in Nat /\ DueSum(u) <= pending[u]
    BY DueWithin
  <2>2. Matured(u) \in [Commissions -> {"none", "pending", "due", "available"}]
    BY DEF Matured, CashTypes
  <2>3. CashTypes'
    BY <1>4, <2>1, <2>2 DEF Release, Add, CashTypes
  <2> QED
    BY <1>4, <2>3 DEF Release, PayoutTypes, HandlerTypes, accounts, payouts,
         external, locals
<1>5. ASSUME NEW u \in Users, NEW a \in BOOLEAN, SavePayoutAccount(u, a) PROVE TypeOK'
  BY <1>5 DEF SavePayoutAccount, CashTypes, PayoutTypes, HandlerTypes, cash, payouts,
       external, locals
<1>6. ASSUME NEW u \in Users, ReviewPayoutAccount(u) PROVE TypeOK'
  BY <1>6 DEF ReviewPayoutAccount, CashTypes, PayoutTypes, HandlerTypes, cash,
       payouts, external, locals
<1> QED
  BY <1>2, <1>3, <1>4, <1>5, <1>6 DEF Commission, AccountStep

(* Requests, reviews, callbacks, and what becomes of transfers.             *)
LEMMA TypePayout ==
    ASSUME TypeOK, CashExact, PayoutStep
    PROVE  TypeOK'
<1> USE DEF TypeOK
<1>1. ColumnTypes /\ RowTypes
  BY DEF CashTypes, PayoutTypes, ColumnTypes, RowTypes
<1>2. ASSUME NEW p \in Payouts, RequestPayout(p) PROVE TypeOK'
  <2> DEFINE u     == Payee[p]
             avail == available[u] + DueSum(u)
             cents == Payable(avail)
  <2>1. u \in Users
    OBVIOUS
  <2>2. DueSum(u) \in Nat /\ DueSum(u) <= pending[u]
    BY <2>1, DueWithin
  <2>3. avail \in Nat
    BY <2>1, <2>2 DEF CashTypes
  <2>4. cents \in Nat /\ Cost(cents) \in Nat
    BY <2>3, PayableType
  <2>5. /\ Cost(cents) \in 1..avail
        /\ \E first \in {"REVIEW_PENDING", "QUEUED"} : Move(p, "NONE", first)
        /\ minor' = [minor EXCEPT ![p] = cents]
        /\ micro' = [micro EXCEPT ![p] = Cost(cents)]
        /\ promised' = [promised EXCEPT ![p] = openID[u]]
        /\ phase' = Matured(u)
        /\ pending' = Add(pending, u, -DueSum(u))
        /\ available' = Add(available, u, DueSum(u) - Cost(cents))
        /\ locked' = Add(locked, u, Cost(cents))
        /\ UNCHANGED <<paid, accounts, package, ledger, external, locals, restarts>>
    BY <1>2 DEF RequestPayout
  <2>6. Matured(u) \in [Commissions -> {"none", "pending", "due", "available"}]
    BY DEF Matured, CashTypes
  <2>7. available[u] + (DueSum(u) - Cost(cents)) \in Nat
    BY <2>1, <2>2, <2>4, <2>5 DEF CashTypes
  <2>8. pending[u] + -DueSum(u) \in Nat
    BY <2>1, <2>2 DEF CashTypes
  <2> HIDE DEF u, avail, cents
  <2>9. CashTypes'
    BY <2>1, <2>4, <2>5, <2>6, <2>7, <2>8 DEF Add, CashTypes
  <2>10. PayoutTypes'
    BY <2>1, <2>4, <2>5 DEF PayoutTypes, Move, Statuses, accounts
  <2>11. HandlerTypes'
    BY <2>5 DEF HandlerTypes, external, locals
  <2> QED
    BY <2>9, <2>10, <2>11
<1>3. ASSUME NEW p \in Payouts, ApprovePayout(p) PROVE TypeOK'
  BY <1>3 DEF ApprovePayout, Move, CashTypes, PayoutTypes, HandlerTypes, Statuses,
       cash, accounts, external, locals
<1>4. ASSUME NEW p \in Payouts, RejectPayout(p) PROVE TypeOK'
  <2>1. Settle(p, "CANCELLED")
    BY <1>4 DEF RejectPayout, Settle, Returned
  <2>2. ColumnTypes' /\ ledger' \subseteq Payouts
    BY <1>1, <2>1, TypeSettle
  <2> QED
    BY <1>4, <2>2 DEF RejectPayout, Move, ColumnTypes, CashTypes, PayoutTypes,
         HandlerTypes, Statuses, Terminal, accounts, external, locals
<1>5. ASSUME NEW p \in Payouts, Webhook(p) PROVE TypeOK'
  <2>1. transfer[p] \in Transfers /\ FALSE \in BOOLEAN
    BY <1>5 DEF Webhook, Transfers
  <2>2. ColumnTypes' /\ RowTypes'
    BY <1>1, <1>5, <2>1, TypeResult DEF Webhook
  <2> QED
    BY <1>5, <2>2 DEF Webhook, ColumnTypes, RowTypes, CashTypes, PayoutTypes,
         HandlerTypes, accounts, external, locals
<1>6. ASSUME NEW p \in Payouts, NEW state \in Transfers, TransferMoves(p, state)
      PROVE  TypeOK'
  BY <1>6 DEF TransferMoves, CashTypes, PayoutTypes, HandlerTypes, cash, accounts,
       payouts, locals
<1> QED
  BY <1>2, <1>3, <1>4, <1>5, <1>6 DEF PayoutStep

(* What handlers do.                                                        *)
LEMMA TypeHandler ==
    ASSUME TypeOK, NEW h \in Handlers,
           (\E p \in Payouts : Visit(h, p)) \/ ProviderStep(h) \/ Apply(h)
    PROVE  TypeOK'
<1> USE DEF TypeOK
<1>1. ColumnTypes /\ RowTypes
  BY DEF CashTypes, PayoutTypes, ColumnTypes, RowTypes
<1>2. ASSUME NEW p \in Payouts, BeginDispatch(h, p) PROVE TypeOK'
  <2>1. openID[Payee[p]] \in Nat
    BY DEF PayoutTypes
  <2>2. HandlerTypes'
    BY <1>2, <2>1, TypeStart DEF BeginDispatch
  <2> QED
    BY <1>2, <2>2 DEF BeginDispatch, Move, CashTypes, PayoutTypes, Statuses, Submitted,
         cash, accounts
<1>3. ASSUME NEW p \in Payouts, BeginQuery(h, p) PROVE TypeOK'
  <2>1. HandlerTypes'
    BY <1>3, TypeStart DEF BeginQuery
  <2> QED
    BY <1>3, <2>1 DEF BeginQuery, CashTypes, PayoutTypes, cash, accounts, payouts
<1>4. ASSUME NEW state \in {"WAIT_USER_CONFIRM", "PROCESSING"}, ProviderSubmits(h, state)
      PROVE  TypeOK'
  <2>1. HandlerTypes'
    BY <1>4, TypeHear DEF ProviderSubmits, HandlerTypes, Transfers
  <2> QED
    BY <1>4, <2>1 DEF ProviderSubmits, Hear, CashTypes, PayoutTypes, cash, accounts,
         payouts
<1>5. CASE ProviderFails(h)
  <2>1. HandlerTypes'
    BY <1>5, TypeHear DEF ProviderFails, HandlerTypes, external
  <2> QED
    BY <1>5, <2>1 DEF ProviderFails, Hear, CashTypes, PayoutTypes, cash, accounts,
         payouts
<1>6. CASE ProviderAnswers(h)
  <2>1. transfer[payout[h]] \in Transfers
    BY <1>6 DEF ProviderAnswers, HandlerTypes
  <2>2. HandlerTypes'
    BY <1>6, <2>1, TypeHear DEF ProviderAnswers, HandlerTypes, external
  <2> QED
    BY <1>6, <2>2 DEF ProviderAnswers, Hear, CashTypes, PayoutTypes, cash, accounts,
         payouts
<1>7. CASE ApplySubmit(h)
  <2>1. HandlerTypes' /\ payout[h] \in Payouts
    BY <1>7, TypeEnd DEF ApplySubmit, End, HandlerTypes
  <2>2. CASE reply[h] = "error" /\ MarkUncertain(payout[h])
    BY <1>7, <2>1, <2>2 DEF ApplySubmit, End, MarkUncertain, Move, CashTypes,
         PayoutTypes, Statuses, Submitted, cash, accounts
  <2>3. CASE UNCHANGED <<cash, payouts>>
    BY <1>7, <2>1, <2>3 DEF ApplySubmit, End, CashTypes, PayoutTypes, cash, accounts,
         payouts
  <2>4. CASE reply[h] # "error" /\ ApplyTransferResult(payout[h], reply[h], sentTo[h],
                                       reply[h] = "WAIT_USER_CONFIRM")
    <3>1. reply[h] \in Transfers /\ (reply[h] = "WAIT_USER_CONFIRM") \in BOOLEAN
      BY <1>7, <2>4 DEF ApplySubmit, End, HandlerTypes
    <3>2. ColumnTypes' /\ RowTypes'
      BY <1>1, <2>1, <2>4, <3>1, TypeResult
    <3> QED
      BY <1>7, <2>1, <3>2 DEF ApplySubmit, End, ColumnTypes, RowTypes, CashTypes,
           PayoutTypes, accounts
  <2> QED
    BY <1>7, <2>2, <2>3, <2>4 DEF ApplySubmit
<1>8. CASE ApplyQuery(h)
  <2>1. HandlerTypes' /\ payout[h] \in Payouts
    BY <1>8, TypeEnd DEF ApplyQuery, End, HandlerTypes
  <2>2. CASE UNCHANGED <<cash, payouts>>
    BY <1>8, <2>1, <2>2 DEF ApplyQuery, End, CashTypes, PayoutTypes, cash, accounts,
         payouts
  <2>3. CASE reply[h] # "error"
               /\ ApplyTransferResult(payout[h], reply[h], recipient[payout[h]], FALSE)
    <3>1. reply[h] \in Transfers /\ FALSE \in BOOLEAN
      BY <1>8, <2>3 DEF ApplyQuery, End, HandlerTypes
    <3>2. ColumnTypes' /\ RowTypes'
      BY <1>1, <2>1, <2>3, <3>1, TypeResult
    <3> QED
      BY <1>8, <2>1, <3>2 DEF ApplyQuery, End, ColumnTypes, RowTypes, CashTypes,
           PayoutTypes, accounts
  <2> QED
    BY <1>8, <2>2, <2>3 DEF ApplyQuery
<1> QED
  BY <1>2, <1>3, <1>4, <1>5, <1>6, <1>7, <1>8 DEF Visit, ProviderStep, Apply

LEMMA TypeStep ==
    ASSUME TypeOK, CashExact, [Next]_vars
    PROVE  TypeOK'
<1>1. CASE Restart
  BY <1>1 DEF Restart, TypeOK, CashTypes, PayoutTypes, HandlerTypes, cash, accounts,
       payouts, external
<1>2. CASE UNCHANGED vars
  BY <1>2 DEF vars, TypeOK, CashTypes, PayoutTypes, HandlerTypes, cash, accounts,
       payouts, external, locals
<1> QED
  BY <1>1, <1>2, TypeCommission, TypePayout, TypeHandler DEF Next

LEMMA TypeInit == Init => TypeOK
BY DEF Init, TypeOK, CashTypes, PayoutTypes, HandlerTypes, Statuses, Transfers

-----------------------------------------------------------------------------
(* What has been sent to the provider stays sent or is settled: handlers and *)
(* transfers belong to such payouts only.                                   *)
Gone == Submitted \cup Terminal

Sent ==
    /\ \A p \in Payouts : transfer[p] # "NONE" => status[p] \in Gone
    /\ \A h \in Handlers : job[h] # "none" => status[payout[h]] \in Gone

(* A result changes the status of its payout only, and to such a status.    *)
LEMMA ResultStatus ==
    ASSUME RowTypes, NEW p \in Payouts, NEW state \in Transfers, NEW id,
           NEW brings, ApplyTransferResult(p, state, id, brings)
    PROVE  \A q \in Payouts : status[q] \in Gone => status'[q] \in Gone
<1>1. CASE Applicable(p, id)
  BY <1>1, StateType DEF ApplyTransferResult, RowTypes, Gone
<1>2. CASE ~Applicable(p, id)
  BY <1>2 DEF ApplyTransferResult, payouts
<1> QED
  BY <1>1, <1>2

(* A payout that was sent to the provider is not unsent.                    *)
LEMMA GoneStays ==
    ASSUME TypeOK, [Next]_vars
    PROVE  \A q \in Payouts : status[q] \in Gone => status'[q] \in Gone
<1>1. RowTypes
  BY DEF TypeOK, PayoutTypes, RowTypes
<1>2. CASE UNCHANGED status
  BY <1>2
<1>3. ASSUME NEW p \in Payouts, NEW before \in Statuses, NEW after \in Statuses,
             Move(p, before, after), before \notin Gone \/ after \in Gone
      PROVE  \A q \in Payouts : status[q] \in Gone => status'[q] \in Gone
  BY <1>1, <1>3 DEF Move, RowTypes
<1>4. CASE Commission \/ AccountStep \/ Restart \/ UNCHANGED vars
  BY <1>2, <1>4 DEF Commission, AccountStep, Accrue, Mature, Release, SavePayoutAccount,
       ReviewPayoutAccount, Restart, vars, payouts
<1>5. CASE PayoutStep
  <2>1. ASSUME NEW p \in Payouts, RequestPayout(p) \/ ApprovePayout(p) \/ RejectPayout(p)
        PROVE  \A q \in Payouts : status[q] \in Gone => status'[q] \in Gone
    <3>1. \E before, after \in Statuses : Move(p, before, after) /\ before \notin Gone
      BY <2>1 DEF RequestPayout, ApprovePayout, RejectPayout, Statuses, Gone, Submitted,
           Terminal
    <3> QED
      BY <1>3, <3>1
  <2>2. ASSUME NEW p \in Payouts, Webhook(p)
        PROVE  \A q \in Payouts : status[q] \in Gone => status'[q] \in Gone
    BY <1>1, <2>2, ResultStatus DEF Webhook, Transfers
  <2>3. ASSUME NEW p \in Payouts, NEW state \in Transfers, TransferMoves(p, state)
        PROVE  UNCHANGED status
    BY <2>3 DEF TransferMoves, payouts
  <2> QED
    BY <1>2, <1>5, <2>1, <2>2, <2>3 DEF PayoutStep
<1>6. ASSUME NEW h \in Handlers, NEW p \in Payouts, Visit(h, p)
      PROVE  \A q \in Payouts : status[q] \in Gone => status'[q] \in Gone
  BY <1>1, <1>6 DEF Visit, BeginDispatch, BeginQuery, Move, RowTypes, payouts, Gone,
       Submitted
<1>7. ASSUME NEW h \in Handlers, ProviderStep(h)
      PROVE  UNCHANGED status
  BY <1>7 DEF ProviderStep, ProviderSubmits, ProviderFails, ProviderAnswers, Hear, payouts
<1>8. ASSUME NEW h \in Handlers, Apply(h)
      PROVE  \A q \in Payouts : status[q] \in Gone => status'[q] \in Gone
  <2>1. payout[h] \in Payouts /\ reply[h] \in Transfers \cup {"error"}
    BY <1>8 DEF Apply, ApplySubmit, ApplyQuery, End, TypeOK, HandlerTypes
  <2>2. CASE MarkUncertain(payout[h])
    BY <1>1, <2>1, <2>2 DEF MarkUncertain, Move, RowTypes, Gone, Submitted
  <2>3. CASE reply[h] \in Transfers
             /\ \E id \in Nat, brings \in BOOLEAN :
                   ApplyTransferResult(payout[h], reply[h], id, brings)
    BY <1>1, <2>1, <2>3, ResultStatus
  <2>4. CASE UNCHANGED payouts
    BY <2>4 DEF payouts
  <2>5. sentTo[h] \in Nat /\ recipient[payout[h]] \in Nat
    BY <2>1 DEF TypeOK, HandlerTypes
  <2> QED
    BY <1>8, <2>1, <2>2, <2>3, <2>4, <2>5 DEF Apply, ApplySubmit, ApplyQuery
<1> QED
  BY <1>2, <1>4, <1>5, <1>6, <1>7, <1>8 DEF Next

LEMMA SentStep ==
    ASSUME TypeOK, Sent, [Next]_vars
    PROVE  Sent'
<1>1. \A q \in Payouts : status[q] \in Gone => status'[q] \in Gone
  BY GoneStays
<1>2. \A h \in Handlers : job[h] # "none" => payout[h] \in Payouts
  BY DEF TypeOK, HandlerTypes
<1>3. CASE UNCHANGED <<external, job, payout>>
  BY <1>1, <1>2, <1>3 DEF Sent, external
<1>4. CASE Commission \/ AccountStep \/ UNCHANGED vars
  BY <1>3, <1>4 DEF Commission, AccountStep, Accrue, Mature, Release, SavePayoutAccount,
       ReviewPayoutAccount, vars, locals
<1>5. CASE Restart
  BY <1>1, <1>5 DEF Restart, Sent, external
<1>6. ASSUME NEW p \in Payouts,
             RequestPayout(p) \/ ApprovePayout(p) \/ RejectPayout(p) \/ Webhook(p)
      PROVE  Sent'
  BY <1>3, <1>6 DEF RequestPayout, ApprovePayout, RejectPayout, Webhook, locals
<1>7. ASSUME NEW p \in Payouts, NEW state \in Transfers, TransferMoves(p, state)
      PROVE  Sent'
  <2>1. transfer[p] # "NONE"
    BY <1>7 DEF TransferMoves, Moves
  <2> QED
    BY <1>1, <1>2, <1>7, <2>1 DEF TransferMoves, Sent, locals, TypeOK, HandlerTypes
<1>8. ASSUME NEW h \in Handlers, NEW p \in Payouts, Visit(h, p)
      PROVE  Sent'
  <2>1. status'[p] \in Gone
    BY <1>1, <1>8 DEF Visit, BeginDispatch, BeginQuery, Move, Asked, payouts, Gone,
         Submitted, TypeOK, PayoutTypes
  <2>2. /\ UNCHANGED external
        /\ \E what \in {"submit", "query"} : job' = [job EXCEPT ![h] = what]
        /\ payout' = [payout EXCEPT ![h] = p]
    BY <1>8 DEF Visit, BeginDispatch, BeginQuery, Start
  <2> QED
    BY <1>1, <1>2, <2>1, <2>2 DEF Sent, external, TypeOK, HandlerTypes
<1>9. ASSUME NEW h \in Handlers, ProviderStep(h)
      PROVE  Sent'
  <2>1. CASE UNCHANGED external
    BY <1>3, <1>9, <2>1 DEF ProviderStep, ProviderSubmits, ProviderFails,
         ProviderAnswers, Hear
  <2>2. ASSUME NEW state \in Transfers, ProviderSubmits(h, state) PROVE Sent'
    BY <1>1, <1>2, <2>2 DEF ProviderSubmits, Hear, Sent, TypeOK, HandlerTypes
  <2> QED
    BY <1>9, <2>1, <2>2 DEF ProviderStep, ProviderFails, ProviderAnswers, Transfers
<1>10. ASSUME NEW h \in Handlers, Apply(h)
       PROVE  Sent'
  BY <1>1, <1>2, <1>10 DEF Apply, ApplySubmit, ApplyQuery, End, Sent, external, TypeOK,
       HandlerTypes
<1> QED
  BY <1>4, <1>5, <1>6, <1>7, <1>8, <1>9, <1>10 DEF Next, PayoutStep

-----------------------------------------------------------------------------
(* One payout that changes its status or its cost changes the sums of its    *)
(* user by what it counted for before and after.                            *)
LEMMA PayoutChange ==
    ASSUME RowTypes, micro' \in [Payouts -> Nat], NEW p \in Payouts, NEW u \in Users,
           \A q \in Payouts \ {p} : status'[q] = status[q] /\ micro'[q] = micro[q]
    PROVE  /\ OpenCost(u)' = OpenCost(u) - (IF p \in OpenOf(u) THEN micro[p] ELSE 0)
                                + (IF p \in OpenOf(u)' THEN micro'[p] ELSE 0)
           /\ PaidCost(u)' = PaidCost(u) - (IF p \in PaidTo(u) THEN micro[p] ELSE 0)
                                + (IF p \in PaidTo(u)' THEN micro'[p] ELSE 0)
<1>1. micro \in [Payouts -> Nat]
  BY DEF RowTypes
<1>2. \A q \in Payouts \ {p} : /\ q \in OpenOf(u)' <=> q \in OpenOf(u)
                               /\ q \in PaidTo(u)' <=> q \in PaidTo(u)
  BY DEF OpenOf, PaidTo
<1>3. OpenCost(u)' = Total(Part(micro', OpenOf(u)')) /\ PaidCost(u)' = Total(Part(micro', PaidTo(u)'))
  BY DEF OpenCost, PaidCost
<1>4. OpenCost(u)' = OpenCost(u) - (IF p \in OpenOf(u) THEN micro[p] ELSE 0)
                                + (IF p \in OpenOf(u)' THEN micro'[p] ELSE 0)
  BY <1>1, <1>2, <1>3, PartChange DEF OpenCost
<1>5. PaidCost(u)' = PaidCost(u) - (IF p \in PaidTo(u) THEN micro[p] ELSE 0)
                                + (IF p \in PaidTo(u)' THEN micro'[p] ELSE 0)
  BY <1>1, <1>2, <1>3, PartChange DEF PaidCost
<1> QED
  BY <1>4, <1>5

(* One commission that changes its phase.                                   *)
LEMMA CommissionChange ==
    ASSUME NEW c \in Commissions, NEW u \in Users,
           \A d \in Commissions \ {c} : phase'[d] = phase[d]
    PROVE  /\ Waiting(u)' = Waiting(u)
                  - (IF c \in InPhase(u, {"pending", "due"}) THEN Share[c] ELSE 0)
                  + (IF c \in InPhase(u, {"pending", "due"})' THEN Share[c] ELSE 0)
           /\ Earned(u)' = Earned(u)
                  - (IF c \in InPhase(u, {"available"}) THEN Share[c] ELSE 0)
                  + (IF c \in InPhase(u, {"available"})' THEN Share[c] ELSE 0)
<1>1. Share \in [Commissions -> Nat]
  OBVIOUS
<1>2. \A d \in Commissions \ {c} :
          /\ d \in InPhase(u, {"pending", "due"})' <=> d \in InPhase(u, {"pending", "due"})
          /\ d \in InPhase(u, {"available"})' <=> d \in InPhase(u, {"available"})
  BY DEF InPhase
<1>3. /\ Waiting(u)' = Total(Part(Share, InPhase(u, {"pending", "due"})'))
      /\ Earned(u)' = Total(Part(Share, InPhase(u, {"available"})'))
  BY DEF Waiting, Earned
<1>4. Waiting(u)' = Waiting(u)
                  - (IF c \in InPhase(u, {"pending", "due"}) THEN Share[c] ELSE 0)
                  + (IF c \in InPhase(u, {"pending", "due"})' THEN Share[c] ELSE 0)
  BY <1>1, <1>2, <1>3, PartChange DEF Waiting
<1>5. Earned(u)' = Earned(u)
                  - (IF c \in InPhase(u, {"available"}) THEN Share[c] ELSE 0)
                  + (IF c \in InPhase(u, {"available"})' THEN Share[c] ELSE 0)
  BY <1>1, <1>2, <1>3, PartChange DEF Earned
<1> QED
  BY <1>4, <1>5

(* What a release moves: what was due is earned, and waits no more.         *)
LEMMA MaturedSums ==
    ASSUME TypeOK, NEW v \in Users, phase' = Matured(v), NEW u \in Users
    PROVE  /\ Waiting(u)' = Waiting(u) - (IF u = v THEN DueSum(v) ELSE 0)
           /\ Earned(u)' = Earned(u) + (IF u = v THEN DueSum(v) ELSE 0)
<1> DEFINE rest == InPhase(u, {"pending"})
           done == InPhase(u, {"available"})
<1>1. Share \in [Commissions -> Nat]
  OBVIOUS
<1>2. \A c \in Commissions : phase'[c] = IF c \in Due(v) THEN "available" ELSE phase[c]
  BY DEF Matured
<1>3. CASE u # v
  <2>1. \A c \in Commissions : Earner[c] = u => phase'[c] = phase[c]
    BY <1>2, <1>3 DEF Due
  <2>2. /\ InPhase(u, {"pending", "due"})' = InPhase(u, {"pending", "due"})
        /\ InPhase(u, {"available"})' = InPhase(u, {"available"})
    BY <2>1 DEF InPhase
  <2>3. Waiting(u)' = Waiting(u) /\ Earned(u)' = Earned(u)
    BY <2>2 DEF Waiting, Earned
  <2>4. Waiting(u) \in Nat /\ Earned(u) \in Nat
    BY SumTypes DEF TypeOK
  <2> QED
    BY <1>3, <2>3, <2>4
<1>4. CASE u = v
  <2>1. /\ InPhase(u, {"pending", "due"}) = rest \cup Due(u)
        /\ \A c \in Commissions : ~(c \in rest /\ c \in Due(u))
    BY DEF InPhase, Due
  <2>2. InPhase(u, {"pending", "due"})' = rest
    BY <1>2, <1>4 DEF InPhase, Due
  <2>3. /\ InPhase(u, {"available"})' = done \cup Due(u)
        /\ \A c \in Commissions : ~(c \in done /\ c \in Due(u))
    BY <1>2, <1>4 DEF InPhase, Due
  <2>4. Waiting(u) = Total(Part(Share, rest)) + DueSum(u)
    BY <1>1, <2>1, PartUnion DEF Waiting, DueSum
  <2>5. Waiting(u)' = Total(Part(Share, rest))
    BY <2>2 DEF Waiting
  <2>6. Earned(u)' = Earned(u) + DueSum(u)
    BY <1>1, <2>3, PartUnion DEF Earned, DueSum
  <2>7. Total(Part(Share, rest)) \in Nat /\ DueSum(u) \in Nat
    BY <1>1, PartTotalType DEF DueSum
  <2> HIDE DEF rest, done
  <2> QED
    BY <1>4, <2>4, <2>5, <2>6, <2>7
<1> QED
  BY <1>3, <1>4

(* Sums of what does not change do not change.                              *)
LEMMA SumsStay ==
    ASSUME NEW u \in Users
    PROVE  /\ UNCHANGED phase => Waiting(u)' = Waiting(u) /\ Earned(u)' = Earned(u)
           /\ UNCHANGED <<status, micro>> =>
                 OpenCost(u)' = OpenCost(u) /\ PaidCost(u)' = PaidCost(u)
<1>1. ASSUME UNCHANGED phase PROVE Waiting(u)' = Waiting(u) /\ Earned(u)' = Earned(u)
  BY <1>1 DEF Waiting, Earned, InPhase
<1>2. ASSUME UNCHANGED <<status, micro>>
      PROVE  OpenCost(u)' = OpenCost(u) /\ PaidCost(u)' = PaidCost(u)
  BY <1>2 DEF OpenCost, PaidCost, OpenOf, PaidTo
<1> QED
  BY <1>1, <1>2

(* CashExact of the next state, in terms of the sums.                       *)
LEMMA ExactNext ==
    CashExact' <=> \A u \in Users :
                      /\ pending'[u] = Waiting(u)'
                      /\ available'[u] + locked'[u] + paid'[u] = Earned(u)'
                      /\ locked'[u] = OpenCost(u)'
                      /\ paid'[u] = PaidCost(u)'
BY DEF CashExact, Waiting, Earned, OpenCost, PaidCost

-----------------------------------------------------------------------------
(* An open payout that takes another status, with its money moved as that    *)
(* status says, keeps the books exact.                                      *)
LEMMA ExactSettle ==
    ASSUME TypeOK, CashExact, NEW p \in Payouts, NEW next \in Statuses \ {"NONE"},
           status[p] \notin Terminal \cup {"NONE"}, Settle(p, next),
           status' = [status EXCEPT ![p] = next], UNCHANGED <<phase, micro>>
    PROVE  CashExact'
<1>1. RowTypes /\ micro' \in [Payouts -> Nat]
  BY DEF TypeOK, PayoutTypes, RowTypes
<1>2. /\ ColumnTypes /\ Payee[p] \in Users /\ micro[p] \in Nat
  BY <1>1 DEF TypeOK, CashTypes, ColumnTypes, RowTypes
<1>3. status'[p] = next /\ \A q \in Payouts \ {p} : status'[q] = status[q] /\ micro'[q] = micro[q]
  BY <1>1 DEF RowTypes
<1>4. ASSUME NEW u \in Users
      PROVE  /\ pending'[u] = Waiting(u)'
             /\ available'[u] + locked'[u] + paid'[u] = Earned(u)'
             /\ locked'[u] = OpenCost(u)'
             /\ paid'[u] = PaidCost(u)'
  <2>1. /\ OpenCost(u)' = OpenCost(u) - (IF p \in OpenOf(u) THEN micro[p] ELSE 0)
                                + (IF p \in OpenOf(u)' THEN micro'[p] ELSE 0)
        /\ PaidCost(u)' = PaidCost(u) - (IF p \in PaidTo(u) THEN micro[p] ELSE 0)
                                + (IF p \in PaidTo(u)' THEN micro'[p] ELSE 0)
    BY <1>1, <1>3, PayoutChange
  <2>2. Waiting(u)' = Waiting(u) /\ Earned(u)' = Earned(u)
    BY SumsStay
  <2>3. /\ pending[u] = Waiting(u) /\ available[u] + locked[u] + paid[u] = Earned(u)
        /\ locked[u] = OpenCost(u) /\ paid[u] = PaidCost(u)
    BY ExactBySums
  <2>4. /\ p \in OpenOf(u) <=> Payee[p] = u
        /\ p \in OpenOf(u)' <=> Payee[p] = u /\ next \notin Terminal
        /\ p \notin PaidTo(u)
        /\ p \in PaidTo(u)' <=> Payee[p] = u /\ next = "SUCCESS"
    BY <1>3 DEF OpenOf, PaidTo, Terminal
  <2>5. /\ pending[u] \in Nat /\ available[u] \in Nat /\ locked[u] \in Nat
        /\ paid[u] \in Nat
    BY <1>2 DEF ColumnTypes
  <2>6. /\ Returned \subseteq Terminal /\ "SUCCESS" \in Terminal /\ "SUCCESS" \notin Returned
    BY DEF Returned, Terminal
  <2>7. CASE next \notin Terminal /\ UNCHANGED <<cash, ledger>>
    BY <2>1, <2>2, <2>3, <2>4, <2>5, <2>6, <2>7, <1>2 DEF cash
  <2>8. CASE next \in Returned /\ GiveBack(p)
    <3>1. /\ available'[u] = available[u] + (IF u = Payee[p] THEN micro[p] ELSE 0)
          /\ locked'[u] = locked[u] - (IF u = Payee[p] THEN micro[p] ELSE 0)
          /\ paid'[u] = paid[u] /\ pending'[u] = pending[u]
      BY <1>2, <2>5, <2>8 DEF GiveBack, Unlock, Add, ColumnTypes
    <3> QED
      BY <1>2, <2>1, <2>2, <2>3, <2>4, <2>5, <2>6, <2>8, <3>1
  <2>9. CASE next = "SUCCESS" /\ PayOut(p)
    <3>1. /\ paid'[u] = paid[u] + (IF u = Payee[p] THEN micro[p] ELSE 0)
          /\ locked'[u] = locked[u] - (IF u = Payee[p] THEN micro[p] ELSE 0)
          /\ available'[u] = available[u] /\ pending'[u] = pending[u]
      BY <1>2, <2>5, <2>9 DEF PayOut, Unlock, Add, ColumnTypes
    <3>2. micro'[p] = micro[p]
      OBVIOUS
    <3> QED
      BY <1>2, <2>1, <2>2, <2>3, <2>4, <2>5, <2>6, <2>9, <3>1, <3>2
  <2> QED
    BY <2>6, <2>7, <2>8, <2>9 DEF Settle
<1> QED
  BY <1>4, ExactNext

(* A step that touches neither commissions, nor columns, nor any status.    *)
LEMMA ExactStays ==
    ASSUME CashExact, UNCHANGED <<phase, cash, status, micro>>
    PROVE  CashExact'
BY SumsStay, ExactBySums, ExactNext DEF cash

(* Commission that accrues or matures keeps the books exact.                *)
LEMMA ExactCommission ==
    ASSUME TypeOK, CashExact, Commission
    PROVE  CashExact'
<1>1. ColumnTypes /\ \A c \in Commissions : Earner[c] \in Users /\ Share[c] \in Nat
  BY DEF TypeOK, CashTypes, ColumnTypes
<1>2. ASSUME NEW u \in Users
      PROVE  /\ pending[u] = Waiting(u) /\ available[u] + locked[u] + paid[u] = Earned(u)
             /\ locked[u] = OpenCost(u) /\ paid[u] = PaidCost(u)
             /\ pending[u] \in Nat /\ available[u] \in Nat /\ locked[u] \in Nat
             /\ paid[u] \in Nat
  BY <1>1, <1>2, ExactBySums DEF ColumnTypes
<1>3. ASSUME NEW c \in Commissions, Accrue(c) \/ Mature(c), NEW u \in Users
      PROVE  /\ pending'[u] = Waiting(u)'
             /\ available'[u] + locked'[u] + paid'[u] = Earned(u)'
             /\ locked'[u] = OpenCost(u)'
             /\ paid'[u] = PaidCost(u)'
  <2>1. \A d \in Commissions \ {c} : phase'[d] = phase[d]
    BY <1>3 DEF Accrue, Mature, TypeOK, CashTypes
  <2>2. /\ Waiting(u)' = Waiting(u)
               - (IF c \in InPhase(u, {"pending", "due"}) THEN Share[c] ELSE 0)
               + (IF c \in InPhase(u, {"pending", "due"})' THEN Share[c] ELSE 0)
        /\ Earned(u)' = Earned(u)
               - (IF c \in InPhase(u, {"available"}) THEN Share[c] ELSE 0)
               + (IF c \in InPhase(u, {"available"})' THEN Share[c] ELSE 0)
    BY <2>1, CommissionChange
  <2>3. /\ c \in InPhase(u, {"pending", "due"})
              <=> Earner[c] = u /\ phase[c] \in {"pending", "due"}
        /\ c \in InPhase(u, {"available"}) <=> Earner[c] = u /\ phase[c] = "available"
        /\ c \in InPhase(u, {"pending", "due"})'
              <=> Earner[c] = u /\ phase'[c] \in {"pending", "due"}
        /\ c \in InPhase(u, {"available"})' <=> Earner[c] = u /\ phase'[c] = "available"
    BY DEF InPhase
  <2>4. OpenCost(u)' = OpenCost(u) /\ PaidCost(u)' = PaidCost(u)
    BY <1>3, SumsStay DEF Accrue, Mature, payouts
  <2>5. CASE Mature(c)
    <3>1. phase[c] = "pending" /\ phase'[c] = "due" /\ UNCHANGED cash
      BY <2>5 DEF Mature, TypeOK, CashTypes
    <3> QED
      BY <1>1, <1>2, <2>2, <2>3, <2>4, <3>1 DEF cash
  <2>6. CASE Accrue(c) /\ phase'[c] = "pending"
    <3>1. /\ phase[c] = "none" /\ pending' = Add(pending, Earner[c], Share[c])
          /\ UNCHANGED <<available, locked, paid>>
      BY <2>6 DEF Accrue, TypeOK, CashTypes
    <3>2. pending'[u] = pending[u] + (IF Earner[c] = u THEN Share[c] ELSE 0)
      BY <1>1, <1>2, <3>1 DEF Add, ColumnTypes
    <3> QED
      BY <1>1, <1>2, <2>2, <2>3, <2>4, <2>6, <3>1, <3>2
  <2>7. CASE Accrue(c) /\ phase'[c] # "pending"
    <3>1. /\ phase[c] = "none" /\ phase'[c] = "available"
          /\ available' = Add(available, Earner[c], Share[c])
          /\ UNCHANGED <<pending, locked, paid>>
      BY <2>7 DEF Accrue, TypeOK, CashTypes
    <3>2. available'[u] = available[u] + (IF Earner[c] = u THEN Share[c] ELSE 0)
      BY <1>1, <1>2, <3>1 DEF Add, ColumnTypes
    <3> QED
      BY <1>1, <1>2, <2>2, <2>3, <2>4, <3>1, <3>2
  <2> QED
    BY <1>3, <2>5, <2>6, <2>7
<1>4. ASSUME NEW v \in Users, Release(v), NEW u \in Users
      PROVE  /\ pending'[u] = Waiting(u)'
             /\ available'[u] + locked'[u] + paid'[u] = Earned(u)'
             /\ locked'[u] = OpenCost(u)'
             /\ paid'[u] = PaidCost(u)'
  <2>1. /\ Waiting(u)' = Waiting(u) - (IF u = v THEN DueSum(v) ELSE 0)
        /\ Earned(u)' = Earned(u) + (IF u = v THEN DueSum(v) ELSE 0)
    BY <1>4, MaturedSums DEF Release
  <2>2. DueSum(v) \in Nat
    BY SumTypes DEF TypeOK
  <2>3. /\ pending'[u] = pending[u] - (IF u = v THEN DueSum(v) ELSE 0)
        /\ available'[u] = available[u] + (IF u = v THEN DueSum(v) ELSE 0)
        /\ UNCHANGED <<locked, paid>>
    BY <1>1, <1>2, <1>4, <2>2 DEF Release, Add, ColumnTypes
  <2>4. OpenCost(u)' = OpenCost(u) /\ PaidCost(u)' = PaidCost(u)
    BY <1>4, SumsStay DEF Release, payouts
  <2> QED
    BY <1>2, <2>1, <2>2, <2>3, <2>4
<1> QED
  BY <1>3, <1>4, ExactNext DEF Commission

(* A request locks what the payout costs, after what was due is released.   *)
LEMMA ExactRequest ==
    ASSUME TypeOK, CashExact, NEW p \in Payouts, RequestPayout(p)
    PROVE  CashExact'
<1> DEFINE v    == Payee[p]
           cost == Cost(Payable(available[v] + DueSum(v)))
<1>1. ColumnTypes /\ RowTypes /\ v \in Users
  BY DEF TypeOK, CashTypes, PayoutTypes, ColumnTypes, RowTypes
<1>2. DueSum(v) \in Nat /\ available[v] \in Nat
  BY <1>1, SumTypes DEF TypeOK, ColumnTypes
<1>3. cost \in Nat
  BY <1>2, PayableType
<1>4. /\ phase' = Matured(v)
      /\ pending' = Add(pending, v, -DueSum(v))
      /\ available' = Add(available, v, DueSum(v) - cost)
      /\ locked' = Add(locked, v, cost)
      /\ paid' = paid
      /\ micro' = [micro EXCEPT ![p] = cost]
      /\ \E first \in {"REVIEW_PENDING", "QUEUED"} : Move(p, "NONE", first)
  BY DEF RequestPayout
<1> HIDE DEF v, cost
<1>5. /\ status[p] = "NONE" /\ status'[p] \in {"REVIEW_PENDING", "QUEUED"}
      /\ micro' \in [Payouts -> Nat] /\ micro'[p] = cost
      /\ \A q \in Payouts \ {p} : status'[q] = status[q] /\ micro'[q] = micro[q]
  BY <1>1, <1>3, <1>4 DEF Move, RowTypes
<1>6. ASSUME NEW u \in Users
      PROVE  /\ pending'[u] = Waiting(u)'
             /\ available'[u] + locked'[u] + paid'[u] = Earned(u)'
             /\ locked'[u] = OpenCost(u)'
             /\ paid'[u] = PaidCost(u)'
  <2>1. /\ OpenCost(u)' = OpenCost(u) - (IF p \in OpenOf(u) THEN micro[p] ELSE 0)
                                + (IF p \in OpenOf(u)' THEN micro'[p] ELSE 0)
        /\ PaidCost(u)' = PaidCost(u) - (IF p \in PaidTo(u) THEN micro[p] ELSE 0)
                                + (IF p \in PaidTo(u)' THEN micro'[p] ELSE 0)
    BY <1>1, <1>5, PayoutChange
  <2>2. /\ p \notin OpenOf(u) /\ p \notin PaidTo(u) /\ p \notin PaidTo(u)'
        /\ p \in OpenOf(u)' <=> u = v
    BY <1>5 DEF OpenOf, PaidTo, Terminal, v
  <2>3. /\ Waiting(u)' = Waiting(u) - (IF u = v THEN DueSum(v) ELSE 0)
        /\ Earned(u)' = Earned(u) + (IF u = v THEN DueSum(v) ELSE 0)
    BY <1>1, <1>4, MaturedSums
  <2>4. /\ pending[u] = Waiting(u) /\ available[u] + locked[u] + paid[u] = Earned(u)
        /\ locked[u] = OpenCost(u) /\ paid[u] = PaidCost(u)
        /\ pending[u] \in Nat /\ available[u] \in Nat /\ locked[u] \in Nat
        /\ paid[u] \in Nat
    BY <1>1, ExactBySums DEF ColumnTypes
  <2>5. /\ pending'[u] = pending[u] - (IF u = v THEN DueSum(v) ELSE 0)
        /\ available'[u] = available[u] + (IF u = v THEN DueSum(v) - cost ELSE 0)
        /\ locked'[u] = locked[u] + (IF u = v THEN cost ELSE 0)
    BY <1>1, <1>2, <1>3, <1>4, <2>4 DEF Add, ColumnTypes
  <2> QED
    BY <1>2, <1>3, <1>4, <1>5, <2>1, <2>2, <2>3, <2>4, <2>5
<1> QED
  BY <1>6, ExactNext

(* A result for a payout that was sent keeps the books exact.               *)
LEMMA ExactResult ==
    ASSUME TypeOK, CashExact, NEW p \in Payouts, status[p] \in Gone,
           NEW state \in Transfers, NEW id, NEW brings, UNCHANGED phase,
           ApplyTransferResult(p, state, id, brings)
    PROVE  CashExact'
<1>1. CASE Applicable(p, id)
  <2>1. TransferState(state) \in Statuses \ {"NONE"}
    BY StateType DEF Statuses, Submitted, Terminal
  <2>2. status[p] \notin Terminal \cup {"NONE"}
    BY <1>1 DEF Applicable, Gone, Submitted, Terminal
  <2>3. /\ Settle(p, TransferState(state)) /\ UNCHANGED micro
        /\ status' = [status EXCEPT ![p] = TransferState(state)]
    BY <1>1 DEF ApplyTransferResult
  <2> HIDE DEF Settle
  <2> QED
    BY <2>1, <2>2, <2>3, ExactSettle
<1>2. CASE ~Applicable(p, id)
  BY <1>2, ExactStays DEF ApplyTransferResult, payouts, cash
<1> QED
  BY <1>1, <1>2

(* A payout that only moves between open statuses.                          *)
LEMMA ExactMove ==
    ASSUME TypeOK, CashExact, NEW p \in Payouts,
           NEW before \in Statuses \ (Terminal \cup {"NONE"}),
           NEW after \in Statuses \ (Terminal \cup {"NONE"}), Move(p, before, after),
           UNCHANGED <<phase, cash, micro, ledger>>
    PROVE  CashExact'
<1>1. Settle(p, after)
  BY DEF Settle
<1>2. status[p] \notin Terminal \cup {"NONE"} /\ status' = [status EXCEPT ![p] = after]
  BY DEF Move
<1> QED
  BY <1>1, <1>2, ExactSettle

LEMMA ExactPayout ==
    ASSUME TypeOK, CashExact, Sent, PayoutStep
    PROVE  CashExact'
<1>1. ASSUME NEW p \in Payouts, ApprovePayout(p) PROVE CashExact'
  <2>1. /\ "REVIEW_PENDING" \in Statuses \ (Terminal \cup {"NONE"})
        /\ "QUEUED" \in Statuses \ (Terminal \cup {"NONE"})
    BY DEF Statuses, Terminal
  <2> QED
    BY <1>1, <2>1, ExactMove DEF ApprovePayout
<1>2. ASSUME NEW p \in Payouts, RejectPayout(p) PROVE CashExact'
  <2>1. /\ Settle(p, "CANCELLED") /\ status[p] \notin Terminal \cup {"NONE"}
        /\ status' = [status EXCEPT ![p] = "CANCELLED"] /\ UNCHANGED <<phase, micro>>
        /\ "CANCELLED" \in Statuses \ {"NONE"}
    BY <1>2 DEF RejectPayout, Settle, Returned, Move, Terminal, Statuses
  <2> QED
    BY <2>1, ExactSettle
<1>3. ASSUME NEW p \in Payouts, Webhook(p) PROVE CashExact'
  <2>1. transfer[p] \in Transfers /\ transfer[p] # "NONE"
    BY <1>3 DEF Webhook, Transfers, Ended
  <2>2. status[p] \in Gone
    BY <2>1 DEF Sent
  <2> QED
    BY <1>3, <2>1, <2>2, ExactResult DEF Webhook
<1>4. ASSUME NEW p \in Payouts, NEW state \in Transfers, TransferMoves(p, state)
      PROVE  CashExact'
  BY <1>4, ExactStays DEF TransferMoves, payouts, cash
<1> QED
  BY <1>1, <1>2, <1>3, <1>4, ExactRequest DEF PayoutStep

LEMMA ExactHandler ==
    ASSUME TypeOK, CashExact, Sent, NEW h \in Handlers,
           (\E p \in Payouts : Visit(h, p)) \/ ProviderStep(h) \/ Apply(h)
    PROVE  CashExact'
<1>1. /\ {"QUEUED", "SUBMITTING", "STATUS_UNCERTAIN"} \subseteq Statuses \ (Terminal \cup {"NONE"})
  BY DEF Statuses, Submitted, Terminal
<1>2. ASSUME NEW p \in Payouts, Visit(h, p) PROVE CashExact'
  <2>1. CASE BeginDispatch(h, p)
    BY <1>1, <2>1, ExactMove DEF BeginDispatch
  <2>2. CASE BeginQuery(h, p)
    BY <2>2, ExactStays DEF BeginQuery, payouts, cash
  <2> QED
    BY <1>2, <2>1, <2>2 DEF Visit
<1>3. CASE ProviderStep(h)
  BY <1>3, ExactStays DEF ProviderStep, ProviderSubmits, ProviderFails, ProviderAnswers,
       Hear, payouts, cash
<1>4. CASE Apply(h)
  <2>1. /\ payout[h] \in Payouts /\ status[payout[h]] \in Gone /\ UNCHANGED phase
        /\ reply[h] # "error" => reply[h] \in Transfers
    BY <1>4 DEF Apply, ApplySubmit, ApplyQuery, End, TypeOK, HandlerTypes, Sent
  <2>2. CASE MarkUncertain(payout[h])
    BY <1>1, <2>1, <2>2, ExactMove DEF MarkUncertain
  <2>3. CASE UNCHANGED <<cash, payouts>>
    BY <2>1, <2>3, ExactStays DEF payouts, cash
  <2>4. ASSUME NEW id, NEW brings, reply[h] # "error",
               ApplyTransferResult(payout[h], reply[h], id, brings)
        PROVE  CashExact'
    BY <2>1, <2>4, ExactResult
  <2> QED
    BY <1>4, <2>2, <2>3, <2>4 DEF Apply, ApplySubmit, ApplyQuery
<1> QED
  BY <1>2, <1>3, <1>4

LEMMA ExactStep ==
    ASSUME TypeOK, CashExact, Sent, [Next]_vars
    PROVE  CashExact'
<1>1. CASE AccountStep
  BY <1>1, ExactStays DEF AccountStep, SavePayoutAccount, ReviewPayoutAccount, payouts, cash
<1>2. CASE Restart \/ UNCHANGED vars
  BY <1>2, ExactStays DEF Restart, vars, payouts, cash
<1> QED
  BY <1>1, <1>2, ExactCommission, ExactPayout, ExactHandler DEF Next

LEMMA ExactInit == Init => CashExact /\ Sent
<1> SUFFICES ASSUME Init PROVE CashExact /\ Sent
  OBVIOUS
<1>1. Sent
  BY DEF Init, Sent
<1>2. ASSUME NEW u \in Users
      PROVE  Waiting(u) = 0 /\ Earned(u) = 0 /\ OpenCost(u) = 0 /\ PaidCost(u) = 0
  <2>1. /\ InPhase(u, {"pending", "due"}) = {} /\ InPhase(u, {"available"}) = {}
        /\ OpenOf(u) = {} /\ PaidTo(u) = {}
    BY DEF Init, InPhase, OpenOf, PaidTo
  <2>2. /\ micro \in [Payouts -> Nat] /\ Share \in [Commissions -> Nat]
    BY DEF Init
  <2>3. Part(Share, {}) \in [Commissions -> Nat] /\ \A c \in Commissions : Part(Share, {})[c] = 0
    BY <2>2, PartType
  <2>4. Part(micro, {}) \in [Payouts -> Nat] /\ \A p \in Payouts : Part(micro, {})[p] = 0
    BY <2>2, PartType
  <2> QED
    BY <2>1, <2>3, <2>4, TotalZero DEF Waiting, Earned, OpenCost, PaidCost
<1> QED
  BY <1>1, <1>2, ExactBySums DEF Init

-----------------------------------------------------------------------------
(* An answer that ends a transfer is still true when it is applied.         *)
Evidence == \A h \in Handlers : reply[h] \in Ended => transfer[payout[h]] = reply[h]

(* What a step can do to one payout.                                        *)
Same(p)     == /\ status'[p] = status[p] /\ promised'[p] = promised[p]
               /\ p \in ledger' <=> p \in ledger
Opened(p)   == /\ RequestPayout(p)
               /\ status[p] = "NONE" /\ status'[p] \in {"REVIEW_PENDING", "QUEUED"}
               /\ promised'[p] = openID[Payee[p]] /\ openID' = openID
               /\ p \in ledger' <=> p \in ledger
Advanced(p) == /\ status[p] \notin Terminal \cup {"NONE"}
               /\ status'[p] \in {"QUEUED"} \cup Submitted
               /\ status[p] \in Submitted => status'[p] \in Submitted
               /\ promised'[p] = promised[p]
               /\ p \in ledger' <=> p \in ledger
Rejected(p) == /\ status[p] = "REVIEW_PENDING" /\ status'[p] = "CANCELLED"
               /\ promised'[p] = promised[p] /\ UNCHANGED <<transfer, job, payout>>
               /\ p \in ledger' <=> p \in ledger
Finished(p) == /\ status[p] \in Submitted /\ transfer[p] \in Ended
               /\ status'[p] = TransferState(transfer[p])
               /\ promised'[p] = promised[p] /\ UNCHANGED transfer
               /\ p \in ledger' <=> p \in ledger \/ status'[p] = "SUCCESS"

Changes(p) == Same(p) \/ Opened(p) \/ Advanced(p) \/ Rejected(p) \/ Finished(p)

(* A result that is true finishes its payout, or leaves it submitted.       *)
LEMMA ResultChanges ==
    ASSUME TypeOK, NEW q \in Payouts, status[q] \in Gone, NEW state \in Transfers,
           state \in Ended => transfer[q] = state, NEW id, NEW brings,
           ApplyTransferResult(q, state, id, brings), UNCHANGED transfer
    PROVE  \A p \in Payouts : Changes(p)
<1>1. CASE ~Applicable(q, id)
  BY <1>1 DEF ApplyTransferResult, payouts, Changes, Same
<1>2. CASE Applicable(q, id)
  <2>1. /\ status[q] \in Submitted /\ Settle(q, TransferState(state))
        /\ status' = [status EXCEPT ![q] = TransferState(state)]
        /\ UNCHANGED promised
    BY <1>2 DEF ApplyTransferResult, Applicable, Gone
  <2>2. /\ status \in [Payouts -> Statuses] /\ status'[q] = TransferState(state)
        /\ \A p \in Payouts \ {q} : status'[p] = status[p]
    BY <2>1 DEF TypeOK, PayoutTypes
  <2>3. ledger' = IF TransferState(state) = "SUCCESS" THEN ledger \cup {q} ELSE ledger
    BY <2>1 DEF Settle, PayOut, GiveBack, Returned, Terminal
  <2>4. ASSUME NEW p \in Payouts \ {q} PROVE Same(p)
    BY <2>1, <2>2, <2>3 DEF Same
  <2>5. CASE state \in Ended
    BY <2>1, <2>2, <2>3, <2>4, <2>5 DEF Changes, Finished
  <2>6. CASE state \notin Ended
    <3>1. TransferState(state) \in Submitted /\ TransferState(state) # "SUCCESS"
      BY <2>6, StateType DEF Terminal
    <3>2. Advanced(q)
      BY <2>1, <2>2, <2>3, <3>1 DEF Advanced, Submitted, Terminal
    <3> QED
      BY <2>4, <3>2 DEF Changes
  <2> QED
    BY <2>5, <2>6
<1> QED
  BY <1>1, <1>2

(* Every step is one of these for every payout.                             *)
LEMMA PayoutChanges ==
    ASSUME TypeOK, Sent, Evidence, [Next]_vars
    PROVE  \A p \in Payouts : Changes(p)
<1>1. status \in [Payouts -> Statuses] /\ promised \in [Payouts -> Nat]
  BY DEF TypeOK, PayoutTypes
<1>2. CASE UNCHANGED <<status, promised, ledger>>
  BY <1>2 DEF Changes, Same
<1>3. CASE Commission \/ AccountStep \/ Restart \/ UNCHANGED vars
  BY <1>2, <1>3 DEF Commission, AccountStep, Accrue, Mature, Release, SavePayoutAccount,
       ReviewPayoutAccount, Restart, vars, payouts
<1>4. ASSUME NEW q \in Payouts, RequestPayout(q) PROVE \A p \in Payouts : Changes(p)
  <2>1. /\ status[q] = "NONE" /\ status'[q] \in {"REVIEW_PENDING", "QUEUED"}
        /\ \A p \in Payouts \ {q} : status'[p] = status[p]
    BY <1>1, <1>4 DEF RequestPayout, Move
  <2>2. promised' = [promised EXCEPT ![q] = openID[Payee[q]]] /\ UNCHANGED <<openID, ledger>>
    BY <1>4 DEF RequestPayout, accounts
  <2> QED
    BY <1>1, <1>4, <2>1, <2>2 DEF Changes, Same, Opened
<1>5. ASSUME NEW q \in Payouts, ApprovePayout(q) \/ RejectPayout(q)
      PROVE  \A p \in Payouts : Changes(p)
  BY <1>1, <1>5 DEF ApprovePayout, RejectPayout, Move, GiveBack, external, locals, Changes,
       Same, Advanced, Rejected, Terminal, Submitted
<1>6. ASSUME NEW q \in Payouts, Webhook(q) PROVE \A p \in Payouts : Changes(p)
  <2>1. transfer[q] \in Transfers /\ transfer[q] # "NONE" /\ UNCHANGED transfer
    BY <1>6 DEF Webhook, Transfers, Ended, external
  <2>2. status[q] \in Gone
    BY <2>1 DEF Sent
  <2> QED
    BY <1>6, <2>1, <2>2, ResultChanges DEF Webhook
<1>7. ASSUME NEW q \in Payouts, NEW state \in Transfers, TransferMoves(q, state)
      PROVE  \A p \in Payouts : Changes(p)
  BY <1>2, <1>7 DEF TransferMoves, payouts
<1>8. ASSUME NEW h \in Handlers, NEW q \in Payouts, Visit(h, q)
      PROVE  \A p \in Payouts : Changes(p)
  <2>1. CASE BeginDispatch(h, q)
    BY <1>1, <2>1 DEF BeginDispatch, Move, Changes, Same, Advanced, Submitted, Terminal
  <2>2. CASE BeginQuery(h, q)
    BY <1>2, <2>2 DEF BeginQuery, payouts
  <2> QED
    BY <1>8, <2>1, <2>2 DEF Visit
<1>9. ASSUME NEW h \in Handlers, ProviderStep(h) PROVE \A p \in Payouts : Changes(p)
  BY <1>2, <1>9 DEF ProviderStep, ProviderSubmits, ProviderFails, ProviderAnswers, Hear,
       payouts
<1>10. ASSUME NEW h \in Handlers, Apply(h) PROVE \A p \in Payouts : Changes(p)
  <2>1. /\ payout[h] \in Payouts /\ status[payout[h]] \in Gone /\ UNCHANGED transfer
        /\ reply[h] # "error" => reply[h] \in Transfers
        /\ reply[h] \in Ended => transfer[payout[h]] = reply[h]
    BY <1>10 DEF Apply, ApplySubmit, ApplyQuery, End, TypeOK, HandlerTypes, Sent,
         Evidence, external
  <2>2. CASE MarkUncertain(payout[h])
    BY <1>1, <2>1, <2>2 DEF MarkUncertain, Move, Changes, Same, Advanced, Submitted, Terminal
  <2>3. CASE UNCHANGED payouts
    BY <1>2, <2>3 DEF payouts
  <2>4. ASSUME NEW id, NEW brings, reply[h] # "error",
               ApplyTransferResult(payout[h], reply[h], id, brings)
        PROVE  \A p \in Payouts : Changes(p)
    BY <2>1, <2>4, ResultChanges
  <2> QED
    BY <1>10, <2>2, <2>3, <2>4 DEF Apply, ApplySubmit, ApplyQuery
<1> QED
  BY <1>3, <1>4, <1>5, <1>6, <1>7, <1>8, <1>9, <1>10 DEF Next, PayoutStep

(* What a step can do to one handler ...                                    *)
Working(h)  == /\ job'[h] = job[h] /\ payout'[h] = payout[h]
               /\ reply'[h] = reply[h] /\ sentTo'[h] = sentTo[h]
Idle(h)     == job'[h] = "none" /\ reply'[h] = "waiting"
Asking(h)   == job'[h] = "query" /\ reply'[h] = "waiting"
Sending(h)  == /\ job'[h] = "submit" /\ reply'[h] = "waiting" /\ payout'[h] \in Payouts
               /\ status[payout'[h]] = "QUEUED" /\ status'[payout'[h]] = "SUBMITTING"
               /\ sentTo'[h] = openID[Payee[payout'[h]]]
               /\ UNCHANGED transfer
               /\ \A g \in Handlers \ {h} : job'[g] = job[g] /\ payout'[g] = payout[g]
Hearing(h)  == /\ job[h] # "none" /\ UNCHANGED <<job, payout, sentTo, status>>
               /\ reply'[h] # "waiting"
               /\ reply'[h] \in Ended => transfer'[payout[h]] = reply'[h]

Works(h) == Working(h) \/ Idle(h) \/ Asking(h) \/ Sending(h) \/ Hearing(h)

(* ... and to one transfer.                                                 *)
Kept(p)  == transfer'[p] = transfer[p] /\ recipient'[p] = recipient[p]
Born(p)  == /\ transfer[p] = "NONE" /\ transfer'[p] \in {"WAIT_USER_CONFIRM", "PROCESSING"}
            /\ \E h \in Handlers :
                  /\ job[h] = "submit" /\ payout[h] = p /\ reply[h] = "waiting"
                  /\ reply'[h] # "waiting" /\ recipient'[p] = sentTo[h]
            /\ UNCHANGED status
Moved(p) == <<transfer[p], transfer'[p]>> \in Moves /\ recipient'[p] = recipient[p]
            /\ UNCHANGED status

(* Every step is one of these for every handler and every transfer.         *)
LEMMA HandlerChanges ==
    ASSUME TypeOK, [Next]_vars
    PROVE  \A h \in Handlers : Works(h)
<1>1. CASE UNCHANGED locals
  BY <1>1 DEF locals, Works, Working
<1>2. CASE Commission \/ AccountStep \/ PayoutStep \/ UNCHANGED vars
  BY <1>1, <1>2 DEF Commission, AccountStep, Accrue, Mature, Release, SavePayoutAccount,
       ReviewPayoutAccount, PayoutStep, RequestPayout, ApprovePayout, RejectPayout,
       Webhook, TransferMoves, vars
<1>3. CASE Restart
  BY <1>3 DEF Restart, Works, Idle
<1>4. ASSUME NEW g \in Handlers, NEW p \in Payouts, Visit(g, p)
      PROVE  \A h \in Handlers : Works(h)
  <2>1. /\ \A h \in Handlers \ {g} : Working(h)
        /\ payout'[g] = p /\ reply'[g] = "waiting" /\ UNCHANGED transfer
    BY <1>4 DEF Visit, BeginDispatch, BeginQuery, Start, Working, TypeOK, HandlerTypes,
         external
  <2>2. CASE BeginQuery(g, p)
    BY <2>1, <2>2 DEF BeginQuery, Start, TypeOK, HandlerTypes, Works, Asking
  <2>3. CASE BeginDispatch(g, p)
    <3>1. job'[g] = "submit" /\ sentTo'[g] = openID[Payee[p]]
      BY <2>3 DEF BeginDispatch, Start, TypeOK, HandlerTypes
    <3>2. status[p] = "QUEUED" /\ status'[p] = "SUBMITTING"
      BY <2>3 DEF BeginDispatch, Move, TypeOK, PayoutTypes
    <3> QED
      BY <2>1, <3>1, <3>2 DEF Works, Sending, Working
  <2> QED
    BY <1>4, <2>2, <2>3 DEF Visit
<1>5. ASSUME NEW g \in Handlers, ProviderStep(g)
      PROVE  \A h \in Handlers : Works(h)
  <2>1. ASSUME NEW answer \in Transfers \cup {"error"}, Hear(g, answer), job[g] # "none",
               answer \in Ended => transfer'[payout[g]] = answer
        PROVE  \A h \in Handlers : Works(h)
    <3>1. reply'[g] = answer /\ \A h \in Handlers \ {g} : reply'[h] = reply[h]
      BY <2>1 DEF Hear, TypeOK, HandlerTypes
    <3>2. answer # "waiting" /\ UNCHANGED <<job, payout, sentTo, status>>
      BY <2>1 DEF Hear, Transfers, Ended, payouts
    <3> QED
      BY <2>1, <3>1, <3>2 DEF Works, Working, Hearing
  <2>2. ASSUME NEW state \in {"WAIT_USER_CONFIRM", "PROCESSING"}, ProviderSubmits(g, state)
        PROVE  \A h \in Handlers : Works(h)
    <3>1. state \in Transfers /\ state \notin Ended /\ "error" \notin Ended /\ job[g] # "none"
      BY <2>2 DEF Transfers, Ended, ProviderSubmits
    <3> QED
      BY <2>1, <2>2, <3>1 DEF ProviderSubmits
  <2>3. CASE ProviderFails(g)
    BY <2>1, <2>3 DEF ProviderFails, Ended
  <2>4. CASE ProviderAnswers(g)
    <3>1. transfer[payout[g]] \in Transfers /\ job[g] # "none" /\ UNCHANGED transfer
      BY <2>4 DEF ProviderAnswers, TypeOK, HandlerTypes, external
    <3> QED
      BY <2>1, <2>4, <3>1 DEF ProviderAnswers
  <2> QED
    BY <1>5, <2>2, <2>3, <2>4 DEF ProviderStep
<1>6. ASSUME NEW g \in Handlers, Apply(g)
      PROVE  \A h \in Handlers : Works(h)
  BY <1>6 DEF Apply, ApplySubmit, ApplyQuery, End, TypeOK, HandlerTypes, Works, Working, Idle
<1> QED
  BY <1>2, <1>3, <1>4, <1>5, <1>6 DEF Next

LEMMA TransferChanges ==
    ASSUME TypeOK, [Next]_vars
    PROVE  \A p \in Payouts : Kept(p) \/ Born(p) \/ Moved(p)
<1>1. CASE UNCHANGED external
  BY <1>1 DEF external, Kept
<1>2. ASSUME NEW q \in Payouts, NEW state \in Transfers, TransferMoves(q, state)
      PROVE  \A p \in Payouts : Kept(p) \/ Born(p) \/ Moved(p)
  BY <1>2 DEF TransferMoves, TypeOK, HandlerTypes, Kept, Moved, payouts
<1>3. ASSUME NEW h \in Handlers, NEW state \in {"WAIT_USER_CONFIRM", "PROCESSING"},
             ProviderSubmits(h, state)
      PROVE  \A p \in Payouts : Kept(p) \/ Born(p) \/ Moved(p)
  <2>1. /\ payout[h] \in Payouts /\ job[h] = "submit" /\ reply[h] = "waiting"
        /\ reply'[h] # "waiting" /\ UNCHANGED status
    BY <1>3 DEF ProviderSubmits, Hear, TypeOK, HandlerTypes, payouts
  <2>2. /\ transfer[payout[h]] = "NONE" /\ transfer'[payout[h]] = state
        /\ recipient'[payout[h]] = sentTo[h]
        /\ \A p \in Payouts \ {payout[h]} : Kept(p)
    BY <1>3, <2>1 DEF ProviderSubmits, TypeOK, HandlerTypes, Kept
  <2> QED
    BY <2>1, <2>2 DEF Born
<1>4. CASE Commission \/ AccountStep \/ Restart \/ UNCHANGED vars
  BY <1>1, <1>4 DEF Commission, AccountStep, Accrue, Mature, Release, SavePayoutAccount,
       ReviewPayoutAccount, Restart, vars
<1>5. ASSUME NEW p \in Payouts,
             RequestPayout(p) \/ ApprovePayout(p) \/ RejectPayout(p) \/ Webhook(p)
      PROVE  UNCHANGED external
  BY <1>5 DEF RequestPayout, ApprovePayout, RejectPayout, Webhook
<1>6. ASSUME NEW h \in Handlers,
             (\E p \in Payouts : Visit(h, p)) \/ ProviderFails(h) \/ ProviderAnswers(h) \/ Apply(h)
      PROVE  UNCHANGED external
  BY <1>6 DEF Visit, BeginDispatch, BeginQuery, ProviderFails, ProviderAnswers, Apply,
       ApplySubmit, ApplyQuery, End
<1> QED
  BY <1>1, <1>2, <1>3, <1>4, <1>5, <1>6 DEF Next, PayoutStep, ProviderStep

-----------------------------------------------------------------------------
(* The OpenID of an open payout's user is the one it was asked for, and what *)
(* a handler sends it to.                                                   *)
Promise ==
    /\ \A p \in Payouts :
          status[p] \notin Terminal \cup {"NONE"} => promised[p] = openID[Payee[p]]
    /\ \A h \in Handlers : job[h] = "submit" => sentTo[h] = promised[payout[h]]

(* The accounts, the payouts and the provider's side, in one inductive        *)
(* invariant.                                                               *)
Inv == /\ TypeOK /\ CashExact /\ Sent /\ Evidence /\ SubmittedOnce
       /\ Promise /\ PaidAsPromised /\ SettledAsTransferred /\ DailyLimitKept

(* A user's OpenID changes only when no payout of the user is open.         *)
LEMMA OpenIDChanges ==
    ASSUME TypeOK, [Next]_vars
    PROVE  \A p \in Payouts :
              \/ openID'[Payee[p]] = openID[Payee[p]]
              \/ status[p] \in Terminal \cup {"NONE"} /\ UNCHANGED status
<1>1. CASE UNCHANGED openID
  BY <1>1
<1>2. ASSUME NEW u \in Users, NEW a \in BOOLEAN, SavePayoutAccount(u, a)
      PROVE  \A p \in Payouts :
                \/ openID'[Payee[p]] = openID[Payee[p]]
                \/ status[p] \in Terminal \cup {"NONE"} /\ UNCHANGED status
  <2>1. UNCHANGED status /\ \A p \in Payouts : Payee[p] = u => status[p] \in Terminal \cup {"NONE"}
    BY <1>2 DEF SavePayoutAccount, OpenOf, payouts
  <2>2. \A v \in Users \ {u} : openID'[v] = openID[v]
    BY <1>2 DEF SavePayoutAccount, TypeOK, PayoutTypes
  <2> QED
    BY <2>1, <2>2
<1>3. CASE Commission \/ PayoutStep \/ Restart \/ UNCHANGED vars
  BY <1>1, <1>3 DEF Commission, Accrue, Mature, Release, PayoutStep, RequestPayout,
       ApprovePayout, RejectPayout, Webhook, TransferMoves, Restart, vars, accounts
<1>4. ASSUME NEW h \in Handlers,
             (\E p \in Payouts : Visit(h, p)) \/ ProviderStep(h) \/ Apply(h)
      PROVE  UNCHANGED openID
  BY <1>4 DEF Visit, BeginDispatch, BeginQuery, ProviderStep, ProviderSubmits, ProviderFails,
       ProviderAnswers, Hear, Apply, ApplySubmit, ApplyQuery, End, accounts
<1>5. ASSUME NEW u \in Users, ReviewPayoutAccount(u) PROVE UNCHANGED openID
  BY <1>5 DEF ReviewPayoutAccount
<1> QED
  BY <1>1, <1>2, <1>3, <1>4, <1>5 DEF Next, AccountStep

(* Only a handler at work holds an answer, and what it works on was sent.   *)
LEMMA AtWork ==
    ASSUME TypeOK, Sent, NEW h \in Handlers
    PROVE  /\ job[h] # "none" => payout[h] \in Payouts /\ status[payout[h]] \in Gone
           /\ reply[h] # "waiting" => job[h] # "none"
BY DEF TypeOK, HandlerTypes, Sent

LEMMA EvidenceStep ==
    ASSUME TypeOK, Sent, Evidence, [Next]_vars
    PROVE  Evidence'
<1> SUFFICES ASSUME NEW h \in Handlers, reply'[h] \in Ended
             PROVE  transfer'[payout'[h]] = reply'[h]
  BY DEF Evidence
<1>1. Works(h) /\ \A p \in Payouts : Kept(p) \/ Born(p) \/ Moved(p)
  BY HandlerChanges, TransferChanges
<1>2. reply'[h] # "waiting"
  BY DEF Ended
<1>3. CASE Working(h)
  <2>1. payout[h] \in Payouts /\ transfer[payout[h]] = reply[h]
    BY <1>2, <1>3, AtWork DEF Working, Evidence
  <2>2. transfer'[payout[h]] = transfer[payout[h]]
    BY <1>1, <1>3, <2>1 DEF Working, Kept, Born, Moved, Moves, Ended
  <2> QED
    BY <1>3, <2>1, <2>2 DEF Working
<1> QED
  BY <1>1, <1>2, <1>3 DEF Works, Idle, Asking, Sending, Hearing

LEMMA OnceStep ==
    ASSUME TypeOK, Sent, SubmittedOnce, [Next]_vars
    PROVE  SubmittedOnce'
<1>1. /\ \A h \in Handlers : Works(h)
      /\ \A p \in Payouts : Kept(p) \/ Born(p) \/ Moved(p)
  BY HandlerChanges, TransferChanges
<1>2. ASSUME NEW h \in Handlers, job'[h] = "submit"
      PROVE  \/ job[h] = "submit" /\ payout'[h] = payout[h]
                /\ payout[h] \in Payouts /\ status[payout[h]] \in Gone
             \/ Sending(h)
  BY <1>1, <1>2, AtWork DEF Works, Working, Idle, Asking, Hearing
<1>3. ASSUME NEW h \in Handlers, job'[h] = "submit", reply'[h] = "waiting"
      PROVE  transfer'[payout'[h]] = "NONE"
  <2>1. CASE Sending(h)
    BY <2>1 DEF Sending, Sent, Gone, Submitted, Terminal
  <2>2. CASE ~Sending(h)
    <3>1. Working(h) /\ job[h] = "submit" /\ payout'[h] = payout[h] /\ payout[h] \in Payouts
      BY <1>1, <1>2, <1>3, <2>2 DEF Works, Idle, Asking, Hearing
    <3>2. transfer[payout[h]] = "NONE"
      BY <1>3, <3>1 DEF SubmittedOnce, Working
    <3>3. ~Born(payout[h])
      BY <1>3, <3>1 DEF Born, SubmittedOnce, Working
    <3>4. ~Moved(payout[h])
      BY <3>2 DEF Moved, Moves
    <3> QED
      BY <1>1, <3>1, <3>2, <3>3, <3>4 DEF Kept
  <2> QED
    BY <2>1, <2>2
<1>4. ASSUME NEW h \in Handlers, NEW g \in Handlers, job'[h] = "submit", job'[g] = "submit",
             payout'[g] = payout'[h], g # h
      PROVE  FALSE
  <2>1. CASE Sending(h)
    BY <1>4, <2>1, AtWork DEF Sending, Gone, Submitted, Terminal
  <2>2. CASE Sending(g)
    BY <1>4, <2>2, AtWork DEF Sending, Gone, Submitted, Terminal
  <2>3. CASE ~Sending(h) /\ ~Sending(g)
    BY <1>2, <1>4, <2>3 DEF SubmittedOnce
  <2> QED
    BY <2>1, <2>2, <2>3
<1> QED
  BY <1>3, <1>4 DEF SubmittedOnce

LEMMA PromiseStep ==
    ASSUME TypeOK, Sent, Evidence, Promise, PaidAsPromised, [Next]_vars
    PROVE  Promise' /\ PaidAsPromised'
<1>1. /\ \A p \in Payouts : Changes(p)
      /\ \A h \in Handlers : Works(h)
      /\ \A p \in Payouts : Kept(p) \/ Born(p) \/ Moved(p)
      /\ \A p \in Payouts : \/ openID'[Payee[p]] = openID[Payee[p]]
                            \/ status[p] \in Terminal \cup {"NONE"} /\ UNCHANGED status
  BY PayoutChanges, HandlerChanges, TransferChanges, OpenIDChanges
<1>2. \A p \in Payouts : status[p] \in Gone => promised'[p] = promised[p]
  BY <1>1 DEF Changes, Same, Opened, Advanced, Rejected, Finished, Gone, Submitted, Terminal
<1>3. ASSUME NEW p \in Payouts, status'[p] \notin Terminal \cup {"NONE"}
      PROVE  promised'[p] = openID'[Payee[p]]
  <2>1. CASE Opened(p)
    BY <2>1 DEF Opened
  <2>2. CASE ~Opened(p)
    <3>1. status[p] \notin Terminal \cup {"NONE"} /\ promised'[p] = promised[p]
      BY <1>1, <1>3, <2>2 DEF Changes, Same, Advanced, Rejected, Finished, Submitted, Terminal
    <3> QED
      BY <1>1, <3>1 DEF Promise
  <2> QED
    BY <2>1, <2>2
<1>4. ASSUME NEW h \in Handlers, job'[h] = "submit"
      PROVE  sentTo'[h] = promised'[payout'[h]]
  <2>1. CASE Sending(h)
    <3>1. /\ payout'[h] \in Payouts /\ status[payout'[h]] = "QUEUED"
          /\ status'[payout'[h]] = "SUBMITTING" /\ sentTo'[h] = openID[Payee[payout'[h]]]
      BY <2>1 DEF Sending
    <3>2. promised'[payout'[h]] = promised[payout'[h]]
      BY <1>1, <3>1 DEF Changes, Same, Opened, Advanced, Rejected, Finished
    <3>3. promised[payout'[h]] = openID[Payee[payout'[h]]]
      BY <3>1 DEF Promise, Terminal
    <3> QED
      BY <3>1, <3>2, <3>3
  <2>2. CASE ~Sending(h)
    <3>1. job[h] = "submit" /\ payout'[h] = payout[h] /\ sentTo'[h] = sentTo[h]
      BY <1>1, <1>4, <2>2 DEF Works, Working, Idle, Asking, Hearing
    <3> QED
      BY <1>2, <3>1, AtWork DEF Promise
  <2> QED
    BY <2>1, <2>2
<1>5. ASSUME NEW p \in Payouts, transfer'[p] # "NONE"
      PROVE  recipient'[p] = promised'[p]
  <2>1. CASE Born(p)
    <3>1. PICK h \in Handlers : /\ job[h] = "submit" /\ payout[h] = p
                                /\ recipient'[p] = sentTo[h]
      BY <2>1 DEF Born
    <3> QED
      BY <1>2, <3>1, AtWork DEF Promise
  <2>2. CASE Kept(p) \/ Moved(p)
    <3>1. transfer[p] # "NONE" /\ recipient'[p] = recipient[p]
      BY <1>5, <2>2 DEF Kept, Moved, Moves
    <3>2. status[p] \in Gone
      BY <3>1 DEF Sent
    <3> QED
      BY <1>2, <3>1, <3>2 DEF PaidAsPromised
  <2> QED
    BY <1>1, <2>1, <2>2
<1> QED
  BY <1>3, <1>4, <1>5 DEF Promise, PaidAsPromised

LEMMA SettledStep ==
    ASSUME TypeOK, Sent, Evidence, SettledAsTransferred, [Next]_vars
    PROVE  SettledAsTransferred'
<1> SUFFICES ASSUME NEW p \in Payouts
             PROVE  /\ status'[p] = "SUCCESS" => transfer'[p] = "SUCCESS"
                    /\ status'[p] \in Returned =>
                          /\ transfer'[p] \in {"NONE", "FAIL", "CANCELLED"}
                          /\ transfer'[p] = "NONE" =>
                                \A h \in Handlers : ~(job'[h] = "submit" /\ payout'[h] = p)
                    /\ p \in ledger' <=> status'[p] = "SUCCESS"
  BY DEF SettledAsTransferred
<1>1. /\ Changes(p) /\ (Kept(p) \/ Born(p) \/ Moved(p))
      /\ \A h \in Handlers : Works(h)
  BY PayoutChanges, HandlerChanges, TransferChanges
<1>2. /\ status[p] = "SUCCESS" => transfer[p] = "SUCCESS"
      /\ status[p] \in Returned =>
            /\ transfer[p] \in {"NONE", "FAIL", "CANCELLED"}
            /\ transfer[p] = "NONE" =>
                  \A h \in Handlers : ~(job[h] = "submit" /\ payout[h] = p)
      /\ p \in ledger <=> status[p] = "SUCCESS"
  BY DEF SettledAsTransferred
<1>3. CASE Same(p)
  <2>1. CASE status[p] = "SUCCESS"
    BY <1>1, <1>2, <1>3, <2>1 DEF Same, Kept, Born, Moved, Moves, Returned
  <2>2. CASE status[p] \in Returned
    <3>1. CASE transfer[p] # "NONE"
      BY <1>1, <1>2, <1>3, <2>2, <3>1 DEF Same, Kept, Born, Moved, Moves, Returned
    <3>2. CASE transfer[p] = "NONE"
      <4>1. ASSUME NEW h \in Handlers, job'[h] = "submit", payout'[h] = p PROVE FALSE
        BY <1>1, <1>2, <2>2, <3>2, <4>1 DEF Works, Working, Idle, Asking, Sending, Hearing,
             Returned
      <4>2. Kept(p)
        BY <1>1, <1>2, <2>2, <3>2 DEF Born, Moved, Moves
      <4> QED
        BY <1>2, <1>3, <2>2, <3>2, <4>1, <4>2 DEF Same, Kept, Returned
    <3> QED
      BY <3>1, <3>2
  <2>3. CASE status[p] \notin Returned \cup {"SUCCESS"}
    BY <1>2, <1>3, <2>3 DEF Same
  <2> QED
    BY <2>1, <2>2, <2>3
<1>4. CASE Opened(p) \/ Advanced(p)
  BY <1>2, <1>4 DEF Opened, Advanced, Submitted, Terminal, Returned
<1>5. CASE Rejected(p)
  <2>1. /\ transfer[p] = "NONE" /\ UNCHANGED <<transfer, job, payout>>
        /\ \A h \in Handlers : ~(job[h] = "submit" /\ payout[h] = p)
    BY <1>5, AtWork DEF Rejected, Sent, Gone, Submitted, Terminal
  <2> QED
    BY <1>2, <1>5, <2>1 DEF Rejected
<1>6. CASE Finished(p)
  <2>1. /\ status'[p] = TransferState(transfer[p]) /\ UNCHANGED transfer
        /\ transfer[p] \in Transfers /\ transfer[p] # "NONE"
        /\ p \in ledger' <=> p \in ledger \/ status'[p] = "SUCCESS"
        /\ p \notin ledger
    BY <1>2, <1>6 DEF Finished, Ended, Transfers, Submitted
  <2> QED
    BY <2>1, StateType
<1> QED
  BY <1>1, <1>3, <1>4, <1>5, <1>6 DEF Changes

(* A request is the only step that adds to the day's payouts, and it checks. *)
LEMMA DailyStep ==
    ASSUME TypeOK, Sent, Evidence, DailyLimitKept, [Next]_vars
    PROVE  DailyLimitKept'
<1>1. /\ minor \in [Payouts -> Nat] /\ status \in [Payouts -> Statuses]
      /\ Total(Part(minor, OfToday)) \in Nat /\ Total(Part(minor, OfToday)) <= DailyLimit
      /\ DailyLimitKept' <=> Total(Part(minor', OfToday')) <= DailyLimit
  BY PartTotalType DEF TypeOK, PayoutTypes, DailyLimitKept, OfToday
<1>2. ASSUME NEW p \in Payouts, RequestPayout(p)
      PROVE  DailyLimitKept'
  <2> DEFINE amount == available[Payee[p]] + DueSum(Payee[p])
             cents  == Payable(amount)
  <2>1. cents \in Nat
    <3>1. DueSum(Payee[p]) \in Nat /\ available[Payee[p]] \in Nat
      BY SumTypes DEF TypeOK, CashTypes
    <3> QED
      BY <3>1, PayableType
  <2>2. /\ Total(Part(minor, OfToday)) + cents <= DailyLimit
        /\ minor' = [minor EXCEPT ![p] = cents]
        /\ \E first \in {"REVIEW_PENDING", "QUEUED"} : Move(p, "NONE", first)
    BY <1>2 DEF RequestPayout
  <2> HIDE DEF cents
  <2>3. /\ minor' \in [Payouts -> Nat] /\ minor'[p] = cents
        /\ status[p] = "NONE" /\ status'[p] \in {"REVIEW_PENDING", "QUEUED"}
        /\ \A q \in Payouts \ {p} : minor'[q] = minor[q] /\ status'[q] = status[q]
    BY <1>1, <2>1, <2>2 DEF Move
  <2>4. /\ p \notin OfToday /\ p \in OfToday'
        /\ \A q \in Payouts \ {p} : q \in OfToday' <=> q \in OfToday
    BY <2>3 DEF OfToday, Returned
  <2>5. Total(Part(minor', OfToday')) = Total(Part(minor, OfToday))
             - (IF p \in OfToday THEN minor[p] ELSE 0)
             + (IF p \in OfToday' THEN minor'[p] ELSE 0)
    BY <1>1, <2>3, <2>4, PartChange
  <2> QED
    BY <1>1, <2>1, <2>2, <2>3, <2>4, <2>5
<1>3. CASE \A p \in Payouts : ~RequestPayout(p)
  <2>1. UNCHANGED minor
    BY <1>3 DEF Next, Commission, AccountStep, PayoutStep, Accrue, Mature, Release,
         SavePayoutAccount, ReviewPayoutAccount, ApprovePayout, RejectPayout, Webhook,
         TransferMoves, Visit, BeginDispatch, BeginQuery, ProviderStep, ProviderSubmits,
         ProviderFails, ProviderAnswers, Hear, Apply, ApplySubmit, ApplyQuery, MarkUncertain,
         ApplyTransferResult, Restart, vars, payouts
  <2>2. OfToday' \subseteq OfToday
    <3>1. \A p \in Payouts : Changes(p)
      BY PayoutChanges
    <3> QED
      BY <1>3, <3>1 DEF Changes, Same, Opened, Advanced, Rejected, Finished, OfToday,
           Returned, Terminal, Submitted
  <2>3. Total(Part(minor, OfToday' \cup (OfToday \ OfToday')))
            = Total(Part(minor, OfToday')) + Total(Part(minor, OfToday \ OfToday'))
    BY <1>1, PartUnion
  <2>4. OfToday' \cup (OfToday \ OfToday') = OfToday
    BY <2>2
  <2>5. Total(Part(minor, OfToday')) \in Nat /\ Total(Part(minor, OfToday \ OfToday')) \in Nat
    BY <1>1, PartTotalType
  <2>6. Total(Part(minor', OfToday')) = Total(Part(minor, OfToday'))
    BY <2>1
  <2>7. Total(Part(minor, OfToday)) = Total(Part(minor, OfToday'))
                                        + Total(Part(minor, OfToday \ OfToday'))
    BY <2>3, <2>4
  <2>8. Total(Part(minor, OfToday')) <= Total(Part(minor, OfToday))
    BY <2>5, <2>7
  <2>9. DailyLimit \in Nat
    OBVIOUS
  <2>10. Total(Part(minor, OfToday')) <= DailyLimit
    BY <1>1, <2>5, <2>8, <2>9
  <2> QED
    BY <1>1, <2>6, <2>10
<1> QED
  BY <1>2, <1>3

LEMMA InvInit == Init => Inv
<1> SUFFICES ASSUME Init PROVE Inv
  OBVIOUS
<1>1. TypeOK /\ CashExact /\ Sent
  BY TypeInit, ExactInit
<1>2. Evidence /\ SubmittedOnce /\ Promise /\ PaidAsPromised /\ SettledAsTransferred
  BY DEF Init, Evidence, Ended, SubmittedOnce, Promise, PaidAsPromised,
       SettledAsTransferred, Returned
<1>3. minor \in [Payouts -> Nat] /\ \A p \in Payouts : minor[p] = 0
  BY DEF Init
<1>4. DailyLimitKept
  BY <1>3, PartZero DEF DailyLimitKept
<1> QED
  BY <1>1, <1>2, <1>4 DEF Inv

LEMMA InvStep == Inv /\ [Next]_vars => Inv'
<1> SUFFICES ASSUME Inv, [Next]_vars PROVE Inv'
  OBVIOUS
<1> QED
  BY TypeStep, ExactStep, SentStep, EvidenceStep, OnceStep, PromiseStep, SettledStep,
     DailyStep DEF Inv

-----------------------------------------------------------------------------
(* For any users, commissions, payouts, handlers and limits: the columns of  *)
(* the cash accounts never become negative, and every row is well typed.    *)
(* That a release or a settlement fits its column is CashExact.             *)
THEOREM TypeCorrect == Spec => []TypeOK
<1> QED
  BY InvInit, InvStep, PTL DEF Spec, Inv

(* Commission is conserved and the four columns are exactly what the rows of *)
(* commissions and payouts sum to, whatever the order of requests, reviews,  *)
(* answers, callbacks and crashes.                                          *)
THEOREM CashConserved == Spec => []CashExact
<1> QED
  BY InvInit, InvStep, PTL DEF Spec, Inv

(* applyTransferResult and markPayoutUncertain settle a payout only as its   *)
(* transfer ended; what is rejected was never sent and never will be.       *)
THEOREM SettlementIsTrue == Spec => []SettledAsTransferred
<1> QED
  BY InvInit, InvStep, PTL DEF Spec, Inv

(* The claim of dispatchPayout keeps any two handlers, before or after a     *)
(* crash, from submitting one bill.                                         *)
THEOREM SubmissionIsUnique == Spec => []SubmittedOnce
<1> QED
  BY InvInit, InvStep, PTL DEF Spec, Inv

(* SavePayoutAccount cannot redirect a payout that was asked for.           *)
THEOREM RecipientIsPromised == Spec => []PaidAsPromised
<1> QED
  BY InvInit, InvStep, PTL DEF Spec, Inv

(* RequestPayout keeps the site's daily limit, over all users.              *)
THEOREM DailyLimitHolds == Spec => []DailyLimitKept
<1> QED
  BY InvInit, InvStep, PTL DEF Spec, Inv
=============================================================================
