------------------------- MODULE UsageBudgetProofs --------------------------
(***************************************************************************)
(* TLAPS proofs about UsageBudget, for any number of users, keys and        *)
(* concurrent relays and any amounts.  The step lemmas have one step per    *)
(* action; sums of reservations are handled by the lemmas of HoldsProofs.   *)
(***************************************************************************)
EXTENDS UsageBudget, HoldsProofs

-----------------------------------------------------------------------------
(* Type correctness.                                                        *)

(* A relay that has left "idle" serves a key, and that key has a user.      *)
LEMMA RelayUser ==
    ASSUME TypeOK, NEW r \in Relays, pc[r] # "idle"
    PROVE  rkey[r] \in Keys /\ User(r) \in Users
BY SetsAssumption DEF TypeOK, User

(* The cards in flight of a user are a natural number (used by a restart).  *)
LEMMA CardsType ==
    ASSUME TypeOK, NEW u \in Users
    PROVE  CardsInFlight(u) \in Nat
<1>1. ticket \in [Relays -> Nat]
  BY DEF TypeOK
<1> QED
  BY <1>1, SetsAssumption, PartTotalType DEF CardsInFlight

(* The database rows and the idle goroutines start well typed.              *)
LEMMA TypeInit == Init => TypeOK
BY SetsAssumption, AmountsAssumption DEF Init, TypeOK, Stages

(* The actions of one relay keep the types.                                 *)
LEMMA TypeRelay ==
    ASSUME TypeOK, NEW r \in Relays, RelayStep(r)
    PROVE  TypeOK'
<1> USE SetsAssumption, AmountsAssumption
        DEF TypeOK, Stages, userRow, keyRow, limits, locals, budget, money,
            cards, leaks, counts, Goto
<1>1. CASE GiveUp(r)
  BY <1>1 DEF GiveUp, Leave
<1>2. CASE SkipRequest(r)
  BY <1>2 DEF SkipRequest
<1>3. CASE TakeRequest(r)
  BY <1>3 DEF TakeRequest, User
<1>4. CASE MissRequest(r)
  BY <1>4 DEF MissRequest, Fault
<1>5. CASE RecheckPass(r)
  BY <1>5 DEF RecheckPass
<1>6. CASE RecheckCash(r)
  BY <1>6 DEF RecheckCash
<1>7. CASE RecheckRefuse(r)
  BY <1>7 DEF RecheckRefuse, Leave
<1>8. ASSUME NEW e \in Estimates, ReserveBudget(r, e) PROVE TypeOK'
  BY <1>8 DEF ReserveBudget, User, CashHold, QuotaHold, DailyHold
<1>9. ASSUME NEW e \in Estimates, RefuseBudget(r, e) PROVE TypeOK'
  BY <1>9 DEF RefuseBudget, Fault
<1>10. CASE Abandon(r)
  BY <1>10 DEF Abandon
<1>11. CASE ReleaseBudget(r)
  BY <1>11 DEF ReleaseBudget, User, Unhold, DropBudget, Clipped
<1>12. CASE ReleaseFails(r)
  BY <1>12 DEF ReleaseFails, Fault, User, DropBudget
<1>13. CASE RefundRequest(r)
  <2>1. ticket[r] \in Nat
    OBVIOUS
  <2>2. remaining' \in [Users -> Nat]
    BY <1>13, <2>1, RelayUser DEF RefundRequest
  <2> QED
    BY <1>13, <2>2 DEF RefundRequest, Leave
<1>14. CASE RefundFails(r)
  BY <1>14 DEF RefundFails, Fault, User, Leave
<1>15. ASSUME NEW c \in Costs, Settle(r, c) PROVE TypeOK'
  <2>1. rkey[r] \in Keys /\ User(r) \in Users /\ c \in Nat /\ ticket[r] \in Nat
    BY <1>15, RelayUser DEF Settle
  <2>2. held' \in [Users -> Nat] /\ keyHeld' \in [Keys -> Nat]
        /\ dayHeld' \in [Keys -> Nat]
    <3>1. \A h, x \in Nat : Clipped(h, x) \in Nat
      BY DEF Clipped
    <3> QED
      BY <1>15, <3>1 DEF Settle, Unhold
  <2>3. balance' \in [Users -> Int]
    BY <1>15, <2>1 DEF Settle, Clipped
  <2>4. used' \in [Keys -> Nat] /\ usedToday' \in [Keys -> Nat]
    BY <1>15, <2>1 DEF Settle, NextUsed
  <2>5. logged' \in [Keys -> Nat] /\ charged' \in [Users -> Nat]
        /\ spent' \in [Users -> Nat]
    BY <1>15, <2>1 DEF Settle
  <2>6. /\ resBal' \in [Relays -> Nat] /\ resKey' \in [Relays -> Nat]
        /\ resDay' \in [Relays -> Nat]
    BY <1>15 DEF Settle, DropBudget
  <2>7. /\ pc' \in [Relays -> Stages] /\ rkey' \in [Relays -> Keys \cup {NoKey}]
        /\ pass' \in [Relays -> BOOLEAN] /\ ticket' \in [Relays -> 0..1]
        /\ est' \in [Relays -> Nat]
        /\ \A q \in Relays : (pc'[q] = "idle") <=> (rkey'[q] = NoKey)
    BY <1>15 DEF Settle, Leave
  <2>8. UNCHANGED <<remaining, access, limits, deposited, granted, lost, leaks,
                    counts>>
    BY <1>15 DEF Settle
  <2> QED
    BY <2>2, <2>3, <2>4, <2>5, <2>6, <2>7, <2>8
<1> QED
  BY <1>1, <1>2, <1>3, <1>4, <1>5, <1>6, <1>7, <1>8, <1>9, <1>10, <1>11, <1>12,
     <1>13, <1>14, <1>15 DEF RelayStep

(* The rest of the program keeps them too.                                  *)
LEMMA TypeEnvironment ==
    ASSUME TypeOK, Environment
    PROVE  TypeOK'
<1> USE SetsAssumption, AmountsAssumption
        DEF TypeOK, Stages, userRow, keyRow, limits, locals, budget, money,
            cards, leaks, counts, Edit
<1>1. ASSUME NEW u \in Users, NEW a \in Deposits, AddBalance(u, a) PROVE TypeOK'
  BY <1>1 DEF AddBalance
<1>2. ASSUME NEW u \in Users, NEW b \in SetBalances, SetBalance(u, b) PROVE TypeOK'
  BY <1>2 DEF SetBalance
<1>3. ASSUME NEW u \in Users, NEW n \in Grants, GrantRequests(u, n) PROVE TypeOK'
  BY <1>3 DEF GrantRequests
<1>4. ASSUME NEW u \in Users, GrantPass(u) PROVE TypeOK'
  BY <1>4 DEF GrantPass
<1>5. ASSUME NEW u \in Users, PassExpires(u) PROVE TypeOK'
  BY <1>5 DEF PassExpires
<1>6. ASSUME NEW k \in Keys, NEW q \in KeyLimits, NEW d \in KeyLimits,
             SetKeyLimits(k, q, d)
      PROVE  TypeOK'
  BY <1>6 DEF SetKeyLimits
<1>7. CASE DayRollover
  BY <1>7 DEF DayRollover
<1>8. CASE CrashRestart
  <2>1. lost' \in [Users -> Nat]
    BY <1>8, CardsType DEF CrashRestart, CardsInFlight
  <2> QED
    BY <1>8, <2>1 DEF CrashRestart, Fault
<1> QED
  BY <1>1, <1>2, <1>3, <1>4, <1>5, <1>6, <1>7, <1>8 DEF Environment

(* Every step of a call, an edit or a crash keeps the types.                *)
LEMMA TypeStep == TypeOK /\ [Next]_vars => TypeOK'
<1> SUFFICES ASSUME TypeOK, [Next]_vars PROVE TypeOK'
  OBVIOUS
<1>1. ASSUME NEW r \in Relays, NEW k \in Keys, Authenticate(r, k) PROVE TypeOK'
  BY <1>1, SetsAssumption
     DEF Authenticate, Goto, TypeOK, Stages, userRow, keyRow, budget, money,
         cards, leaks
<1>2. CASE UNCHANGED vars
  BY <1>2 DEF TypeOK, vars, userRow, keyRow, locals, budget, money, cards,
              leaks, counts
<1> QED
  BY <1>1, <1>2, TypeRelay, TypeEnvironment DEF Next

(* Every reachable state is well typed.                                     *)
THEOREM TypeCorrect == Spec => []TypeOK
BY TypeInit, TypeStep, PTL DEF Spec

-----------------------------------------------------------------------------
(* One means of payment.                                                    *)

(* No step of a call mixes its means of payment: the cash hold is fixed     *)
(* when the budget is reserved, and by then the card and the pass are       *)
(* settled.                                                                 *)
LEMMA MeansRelay ==
    ASSUME TypeOK, OneMeansOfPayment, NEW r \in Relays, RelayStep(r)
    PROVE  OneMeansOfPayment'
<1> USE DEF TypeOK, Stages, OneMeansOfPayment, CashHold, CashBilling, IsAdmin,
            User, Goto, locals, budget
<1>1. CASE GiveUp(r)
  BY <1>1 DEF GiveUp, Leave
<1>2. CASE SkipRequest(r)
  BY <1>2 DEF SkipRequest
<1>3. CASE TakeRequest(r)
  BY <1>3 DEF TakeRequest
<1>4. CASE MissRequest(r)
  BY <1>4 DEF MissRequest
<1>5. CASE RecheckPass(r)
  BY <1>5 DEF RecheckPass
<1>6. CASE RecheckCash(r)
  BY <1>6 DEF RecheckCash
<1>7. CASE RecheckRefuse(r)
  BY <1>7 DEF RecheckRefuse, Leave
<1>8. ASSUME NEW e \in Estimates, ReserveBudget(r, e) PROVE OneMeansOfPayment'
  BY <1>8 DEF ReserveBudget, QuotaHold, DailyHold
<1>9. ASSUME NEW e \in Estimates, RefuseBudget(r, e) PROVE OneMeansOfPayment'
  BY <1>9 DEF RefuseBudget
<1>10. CASE Abandon(r)
  BY <1>10 DEF Abandon
<1>11. CASE ReleaseBudget(r)
  BY <1>11 DEF ReleaseBudget, DropBudget
<1>12. CASE ReleaseFails(r)
  BY <1>12 DEF ReleaseFails, DropBudget
<1>13. CASE RefundRequest(r)
  BY <1>13 DEF RefundRequest, Leave
<1>14. CASE RefundFails(r)
  BY <1>14 DEF RefundFails, Leave
<1>15. ASSUME NEW c \in Costs, Settle(r, c) PROVE OneMeansOfPayment'
  BY <1>15 DEF Settle, Leave, DropBudget
<1> QED
  BY <1>1, <1>2, <1>3, <1>4, <1>5, <1>6, <1>7, <1>8, <1>9, <1>10, <1>11, <1>12, <1>13, <1>14, <1>15 DEF RelayStep

(* Nothing else touches the locals of a call, and a crash clears all of     *)
(* them.                                                                    *)
LEMMA MeansStep == TypeOK /\ OneMeansOfPayment /\ [Next]_vars => OneMeansOfPayment'
<1> SUFFICES ASSUME TypeOK, OneMeansOfPayment, [Next]_vars
             PROVE  OneMeansOfPayment'
  OBVIOUS
<1>1. ASSUME NEW r \in Relays, NEW k \in Keys, Authenticate(r, k)
      PROVE  OneMeansOfPayment'
  BY <1>1 DEF Authenticate, Goto, TypeOK, Stages, OneMeansOfPayment, CashHold,
              CashBilling, IsAdmin, User, budget
<1>2. CASE CrashRestart
  BY <1>2 DEF CrashRestart, TypeOK, OneMeansOfPayment
<1>3. ASSUME UNCHANGED <<pc, locals, budget>> PROVE OneMeansOfPayment'
  BY <1>3 DEF OneMeansOfPayment, CashHold, CashBilling, IsAdmin, User, locals,
              budget
<1>4. CASE UNCHANGED vars
  BY <1>3, <1>4 DEF vars
<1>5. ASSUME Environment, ~CrashRestart PROVE UNCHANGED <<pc, locals, budget>>
  BY <1>5 DEF Environment, AddBalance, SetBalance, GrantRequests, GrantPass,
              PassExpires, SetKeyLimits, DayRollover
<1> QED
  BY <1>1, <1>2, <1>3, <1>4, <1>5, MeansRelay DEF Next

(* A call never pays by two means, and holds only while it may be settled.  *)
THEOREM MeansOfPayment == Spec => []OneMeansOfPayment
<1>1. Init => OneMeansOfPayment
  BY DEF Init, OneMeansOfPayment
<1> QED
  BY <1>1, MeansStep, TypeCorrect, PTL DEF Spec

-----------------------------------------------------------------------------
(* Conservation of holds and cards.                                         *)

(* What relay r contributes to the sums of one row.                         *)
CashOf(r, u)  == IF r \in RelaysOf(u) THEN resBal[r] ELSE 0
CardOf(r, u)  == IF r \in RelaysOf(u) THEN ticket[r] ELSE 0
KeyOf(r, k)   == IF r \in RelaysWith(k) THEN resKey[r] ELSE 0
DailyOf(r, k) == IF r \in RelaysWith(k) THEN resDay[r] ELSE 0

(* A step of relay r writes no other relay's locals.                        *)
OnlyRelay(r) ==
    \A q \in Relays \ {r} :
        /\ rkey'[q] = rkey[q] /\ ticket'[q] = ticket[q]
        /\ resBal'[q] = resBal[q] /\ resKey'[q] = resKey[q]
        /\ resDay'[q] = resDay[q]

(* A step of one call leaves the locals of all others alone.                *)
LEMMA RelayFrame ==
    ASSUME TypeOK, NEW r \in Relays, RelayStep(r)
    PROVE  OnlyRelay(r)
<1> USE DEF TypeOK, OnlyRelay, Goto, Leave, DropBudget, locals, budget
<1>1. CASE GiveUp(r)
  BY <1>1 DEF GiveUp
<1>2. CASE SkipRequest(r)
  BY <1>2 DEF SkipRequest
<1>3. CASE TakeRequest(r)
  BY <1>3 DEF TakeRequest
<1>4. CASE MissRequest(r)
  BY <1>4 DEF MissRequest
<1>5. CASE RecheckPass(r)
  BY <1>5 DEF RecheckPass
<1>6. CASE RecheckCash(r)
  BY <1>6 DEF RecheckCash
<1>7. CASE RecheckRefuse(r)
  BY <1>7 DEF RecheckRefuse
<1>8. ASSUME NEW e \in Estimates, ReserveBudget(r, e) PROVE OnlyRelay(r)
  BY <1>8 DEF ReserveBudget
<1>9. ASSUME NEW e \in Estimates, RefuseBudget(r, e) PROVE OnlyRelay(r)
  BY <1>9 DEF RefuseBudget
<1>10. CASE Abandon(r)
  BY <1>10 DEF Abandon
<1>11. CASE ReleaseBudget(r)
  BY <1>11 DEF ReleaseBudget
<1>12. CASE ReleaseFails(r)
  BY <1>12 DEF ReleaseFails
<1>13. CASE RefundRequest(r)
  BY <1>13 DEF RefundRequest
<1>14. CASE RefundFails(r)
  BY <1>14 DEF RefundFails
<1>15. ASSUME NEW c \in Costs, Settle(r, c) PROVE OnlyRelay(r)
  BY <1>15 DEF Settle
<1> QED
  BY <1>1, <1>2, <1>3, <1>4, <1>5, <1>6, <1>7, <1>8, <1>9, <1>10, <1>11, <1>12, <1>13, <1>14, <1>15 DEF RelayStep

(* Hence every sum changes by the change of what r contributes to it.       *)
LEMMA ReservedChange ==
    ASSUME TypeOK, TypeOK', NEW r \in Relays, OnlyRelay(r)
    PROVE  /\ \A u \in Users :
                /\ CashReserved(u) \in Nat /\ CashReserved(u)' \in Nat
                /\ CashReserved(u)' = CashReserved(u) - CashOf(r, u) + CashOf(r, u)'
                /\ CashOf(r, u) <= CashReserved(u)
                /\ CardsInFlight(u) \in Nat /\ CardsInFlight(u)' \in Nat
                /\ CardsInFlight(u)' = CardsInFlight(u) - CardOf(r, u) + CardOf(r, u)'
           /\ \A k \in Keys :
                /\ KeyReserved(k) \in Nat /\ KeyReserved(k)' \in Nat
                /\ KeyReserved(k)' = KeyReserved(k) - KeyOf(r, k) + KeyOf(r, k)'
                /\ KeyOf(r, k) <= KeyReserved(k)
                /\ DailyReserved(k) \in Nat /\ DailyReserved(k)' \in Nat
                /\ DailyReserved(k)' = DailyReserved(k) - DailyOf(r, k) + DailyOf(r, k)'
                /\ DailyOf(r, k) <= DailyReserved(k)
<1>1. IsFiniteSet(Relays)
  BY SetsAssumption
<1>2. ticket \in [Relays -> 0..1] /\ ticket' \in [Relays -> 0..1]
  BY DEF TypeOK
<1>3. /\ \A u \in Users, q \in Relays \ {r} :
            q \in RelaysOf(u)' <=> q \in RelaysOf(u)
      /\ \A k \in Keys, q \in Relays \ {r} :
            q \in RelaysWith(k)' <=> q \in RelaysWith(k)
  BY DEF OnlyRelay, RelaysOf, RelaysWith
<1>4. \A q \in Relays \ {r} :
        /\ resBal'[q] = resBal[q] /\ ticket'[q] = ticket[q]
        /\ resKey'[q] = resKey[q] /\ resDay'[q] = resDay[q]
  BY DEF OnlyRelay
<1>5. ASSUME NEW u \in Users
      PROVE  /\ CashReserved(u) \in Nat /\ CashReserved(u)' \in Nat
             /\ CashReserved(u)' = CashReserved(u) - CashOf(r, u) + CashOf(r, u)'
             /\ CashOf(r, u) <= CashReserved(u)
  <2>1. \A q \in Relays \ {r} :
          resBal'[q] = resBal[q] /\ (q \in RelaysOf(u)' <=> q \in RelaysOf(u))
    BY <1>3, <1>4
  <2>2. resBal \in [Relays -> Nat] /\ resBal' \in [Relays -> Nat]
    BY DEF TypeOK
  <2>3. /\ Total(Part(resBal, RelaysOf(u))) \in Nat
        /\ Total(Part(resBal', RelaysOf(u)')) \in Nat
        /\ Total(Part(resBal', RelaysOf(u)'))
              = Total(Part(resBal, RelaysOf(u)))
                  - (IF r \in RelaysOf(u) THEN resBal[r] ELSE 0)
                  + (IF r \in RelaysOf(u)' THEN resBal'[r] ELSE 0)
        /\ (IF r \in RelaysOf(u) THEN resBal[r] ELSE 0) <= Total(Part(resBal, RelaysOf(u)))
    BY <1>1, <2>1, <2>2, PartChange
  <2> QED
    BY <2>3 DEF CashReserved, CashOf
<1>6. ASSUME NEW u \in Users
      PROVE  /\ CardsInFlight(u) \in Nat /\ CardsInFlight(u)' \in Nat
             /\ CardsInFlight(u)' = CardsInFlight(u) - CardOf(r, u) + CardOf(r, u)'
  <2>1. \A q \in Relays \ {r} :
          ticket'[q] = ticket[q] /\ (q \in RelaysOf(u)' <=> q \in RelaysOf(u))
    BY <1>3, <1>4
  <2>2. ticket \in [Relays -> Nat] /\ ticket' \in [Relays -> Nat]
    BY <1>2
  <2>3. /\ Total(Part(ticket, RelaysOf(u))) \in Nat
        /\ Total(Part(ticket', RelaysOf(u)')) \in Nat
        /\ Total(Part(ticket', RelaysOf(u)'))
              = Total(Part(ticket, RelaysOf(u)))
                  - (IF r \in RelaysOf(u) THEN ticket[r] ELSE 0)
                  + (IF r \in RelaysOf(u)' THEN ticket'[r] ELSE 0)
        /\ (IF r \in RelaysOf(u) THEN ticket[r] ELSE 0) <= Total(Part(ticket, RelaysOf(u)))
    BY <1>1, <2>1, <2>2, PartChange
  <2> QED
    BY <2>3 DEF CardsInFlight, CardOf
<1>7. ASSUME NEW k \in Keys
      PROVE  /\ KeyReserved(k) \in Nat /\ KeyReserved(k)' \in Nat
             /\ KeyReserved(k)' = KeyReserved(k) - KeyOf(r, k) + KeyOf(r, k)'
             /\ KeyOf(r, k) <= KeyReserved(k)
  <2>1. \A q \in Relays \ {r} :
          resKey'[q] = resKey[q] /\ (q \in RelaysWith(k)' <=> q \in RelaysWith(k))
    BY <1>3, <1>4
  <2>2. resKey \in [Relays -> Nat] /\ resKey' \in [Relays -> Nat]
    BY DEF TypeOK
  <2>3. /\ Total(Part(resKey, RelaysWith(k))) \in Nat
        /\ Total(Part(resKey', RelaysWith(k)')) \in Nat
        /\ Total(Part(resKey', RelaysWith(k)'))
              = Total(Part(resKey, RelaysWith(k)))
                  - (IF r \in RelaysWith(k) THEN resKey[r] ELSE 0)
                  + (IF r \in RelaysWith(k)' THEN resKey'[r] ELSE 0)
        /\ (IF r \in RelaysWith(k) THEN resKey[r] ELSE 0) <= Total(Part(resKey, RelaysWith(k)))
    BY <1>1, <2>1, <2>2, PartChange
  <2> QED
    BY <2>3 DEF KeyReserved, KeyOf
<1>8. ASSUME NEW k \in Keys
      PROVE  /\ DailyReserved(k) \in Nat /\ DailyReserved(k)' \in Nat
             /\ DailyReserved(k)' = DailyReserved(k) - DailyOf(r, k) + DailyOf(r, k)'
             /\ DailyOf(r, k) <= DailyReserved(k)
  <2>1. \A q \in Relays \ {r} :
          resDay'[q] = resDay[q] /\ (q \in RelaysWith(k)' <=> q \in RelaysWith(k))
    BY <1>3, <1>4
  <2>2. resDay \in [Relays -> Nat] /\ resDay' \in [Relays -> Nat]
    BY DEF TypeOK
  <2>3. /\ Total(Part(resDay, RelaysWith(k))) \in Nat
        /\ Total(Part(resDay', RelaysWith(k)')) \in Nat
        /\ Total(Part(resDay', RelaysWith(k)'))
              = Total(Part(resDay, RelaysWith(k)))
                  - (IF r \in RelaysWith(k) THEN resDay[r] ELSE 0)
                  + (IF r \in RelaysWith(k)' THEN resDay'[r] ELSE 0)
        /\ (IF r \in RelaysWith(k) THEN resDay[r] ELSE 0) <= Total(Part(resDay, RelaysWith(k)))
    BY <1>1, <2>1, <2>2, PartChange
  <2> QED
    BY <2>3 DEF DailyReserved, DailyOf
<1> QED
  BY <1>5, <1>6, <1>7, <1>8

(* A step that moves no hold: r keeps its reservation, or changes its key   *)
(* while it has none.                                                       *)
HoldsStill(r) ==
    /\ UNCHANGED <<held, keyHeld, dayHeld, leaks>>
    /\ resBal'[r] = resBal[r] /\ resKey'[r] = resKey[r] /\ resDay'[r] = resDay[r]
    /\ rkey'[r] = rkey[r] \/ (resBal[r] = 0 /\ resKey[r] = 0 /\ resDay[r] = 0)

(* A step that neither changes the reservations of a call nor the held      *)
(* columns keeps their agreement.                                           *)
LEMMA HoldsQuiet ==
    ASSUME TypeOK, TypeOK', HoldConservation,
           NEW r \in Relays, OnlyRelay(r), HoldsStill(r)
    PROVE  HoldConservation'
<1>1. /\ \A u \in Users : CashOf(r, u)' = CashOf(r, u)
      /\ \A k \in Keys : KeyOf(r, k)' = KeyOf(r, k) /\ DailyOf(r, k)' = DailyOf(r, k)
  BY DEF HoldsStill, CashOf, KeyOf, DailyOf, RelaysOf, RelaysWith
<1>2. /\ \A u \in Users : CashOf(r, u) \in Nat
      /\ \A k \in Keys : KeyOf(r, k) \in Nat /\ DailyOf(r, k) \in Nat
  BY DEF TypeOK, CashOf, KeyOf, DailyOf
<1>3. /\ \A u \in Users : CashReserved(u)' = CashReserved(u)
      /\ \A k \in Keys : KeyReserved(k)' = KeyReserved(k)
                         /\ DailyReserved(k)' = DailyReserved(k)
  BY <1>1, <1>2, ReservedChange
<1> QED
  BY <1>3 DEF HoldsStill, HoldConservation, CashHoldsConserved,
              KeyHoldsConserved, DailyHoldsConserved, leaks

(* Reserving adds to the columns what the call records; settling and        *)
(* releasing subtract it, and the clipping does not bite because the        *)
(* columns cover every single reservation; a failed release moves it to the *)
(* leak.                                                                    *)
LEMMA HoldsRelay ==
    ASSUME TypeOK, TypeOK', OneMeansOfPayment, HoldConservation,
           NEW r \in Relays, RelayStep(r)
    PROVE  HoldConservation'
<1> USE DEF HoldsStill, Goto, locals, budget, leaks, userRow, keyRow
<1>0. OnlyRelay(r)
  BY RelayFrame
<1>a. HoldsStill(r) => HoldConservation'
  BY <1>0, HoldsQuiet
<1>1. ASSUME GiveUp(r) PROVE HoldsStill(r)
  BY <1>1 DEF GiveUp, Leave, OneMeansOfPayment, TypeOK, Stages
<1>2. ASSUME SkipRequest(r) PROVE HoldsStill(r)
  BY <1>2 DEF SkipRequest, OneMeansOfPayment, TypeOK, Stages
<1>3. ASSUME TakeRequest(r) PROVE HoldsStill(r)
  BY <1>3 DEF TakeRequest, OneMeansOfPayment, TypeOK, Stages
<1>4. ASSUME MissRequest(r) PROVE HoldsStill(r)
  BY <1>4 DEF MissRequest, OneMeansOfPayment, TypeOK, Stages
<1>5. ASSUME RecheckPass(r) PROVE HoldsStill(r)
  BY <1>5 DEF RecheckPass, OneMeansOfPayment, TypeOK, Stages
<1>6. ASSUME RecheckCash(r) PROVE HoldsStill(r)
  BY <1>6 DEF RecheckCash, OneMeansOfPayment, TypeOK, Stages
<1>7. ASSUME RecheckRefuse(r) PROVE HoldsStill(r)
  BY <1>7 DEF RecheckRefuse, Leave, OneMeansOfPayment, TypeOK, Stages
<1>8. ASSUME NEW e \in Estimates, RefuseBudget(r, e) PROVE HoldsStill(r)
  BY <1>8 DEF RefuseBudget, OneMeansOfPayment, TypeOK, Stages
<1>9. ASSUME Abandon(r) PROVE HoldsStill(r)
  BY <1>9 DEF Abandon, OneMeansOfPayment, TypeOK, Stages
<1>10. ASSUME RefundRequest(r) PROVE HoldsStill(r)
  BY <1>10 DEF RefundRequest, Leave, OneMeansOfPayment, TypeOK, Stages
<1>11. ASSUME RefundFails(r) PROVE HoldsStill(r)
  BY <1>11 DEF RefundFails, Leave, OneMeansOfPayment, TypeOK, Stages
<1>12. /\ \A u \in Users : CashOf(r, u) \in Nat /\ CashOf(r, u)' \in Nat
       /\ \A k \in Keys : /\ KeyOf(r, k) \in Nat /\ KeyOf(r, k)' \in Nat
                          /\ DailyOf(r, k) \in Nat /\ DailyOf(r, k)' \in Nat
  BY DEF TypeOK, CashOf, KeyOf, DailyOf
<1>13. ASSUME NEW e \in Estimates, ReserveBudget(r, e) PROVE HoldConservation'
  <2>1. rkey[r] \in Keys /\ User(r) \in Users /\ rkey'[r] = rkey[r]
    BY <1>13, RelayUser DEF ReserveBudget
  <2>2. resBal[r] = 0 /\ resKey[r] = 0 /\ resDay[r] = 0
    BY <1>13 DEF ReserveBudget, OneMeansOfPayment
  <2>3. CashHoldsConserved'
    <3>1. ASSUME NEW u \in Users PROVE held'[u] = held[u] - CashOf(r, u) + CashOf(r, u)'
      BY <1>13, <2>1, <2>2, AmountsAssumption
         DEF ReserveBudget, CashOf, RelaysOf, User, CashHold, TypeOK
    <3> QED
      BY <1>0, <1>12, <1>13, <3>1, ReservedChange
         DEF ReserveBudget, HoldConservation, CashHoldsConserved, TypeOK
  <2>4. KeyHoldsConserved'
    <3>1. ASSUME NEW k \in Keys PROVE keyHeld'[k] = keyHeld[k] - KeyOf(r, k) + KeyOf(r, k)'
      BY <1>13, <2>1, <2>2, AmountsAssumption
         DEF ReserveBudget, KeyOf, RelaysWith, QuotaHold, TypeOK
    <3> QED
      BY <1>0, <1>12, <1>13, <3>1, ReservedChange
         DEF ReserveBudget, HoldConservation, KeyHoldsConserved, TypeOK
  <2>5. DailyHoldsConserved'
    <3>1. ASSUME NEW k \in Keys PROVE dayHeld'[k] = dayHeld[k] - DailyOf(r, k) + DailyOf(r, k)'
      BY <1>13, <2>1, <2>2, AmountsAssumption
         DEF ReserveBudget, DailyOf, RelaysWith, DailyHold, TypeOK
    <3> QED
      BY <1>0, <1>12, <1>13, <3>1, ReservedChange
         DEF ReserveBudget, HoldConservation, DailyHoldsConserved, TypeOK
  <2> QED
    BY <2>3, <2>4, <2>5 DEF HoldConservation
<1>14. ASSUME pc[r] # "idle", Unhold(r), DropBudget(r), UNCHANGED leaks
       PROVE  HoldConservation'
  <2>1. rkey[r] \in Keys /\ User(r) \in Users
    BY <1>14, RelayUser
  <2>2. /\ resBal'[r] = 0 /\ resKey'[r] = 0 /\ resDay'[r] = 0
        /\ resBal[r] \in Nat /\ resKey[r] \in Nat /\ resDay[r] \in Nat
    BY <1>14 DEF DropBudget, TypeOK
  <2>3. CashHoldsConserved'
    <3>1. ASSUME NEW u \in Users PROVE CashOf(r, u)' = 0
      BY <2>2 DEF CashOf
    <3>2. CashOf(r, User(r)) = resBal[r]
      BY <2>1 DEF CashOf, RelaysOf, User
    <3>3. resBal[r] <= held[User(r)]
      BY <1>0, <2>1, <3>2, ReservedChange
         DEF HoldConservation, CashHoldsConserved, TypeOK
    <3>4. ASSUME NEW u \in Users PROVE held'[u] = held[u] - CashOf(r, u)
      BY <1>14, <2>1, <2>2, <3>2, <3>3
         DEF Unhold, Clipped, CashOf, RelaysOf, User, TypeOK
    <3>5. ASSUME NEW u \in Users
          PROVE  CashReserved(u)' = CashReserved(u) - CashOf(r, u) /\ CashReserved(u) \in Nat
      BY <1>0, <1>12, <3>1, ReservedChange
    <3> QED
      BY <1>12, <1>14, <3>4, <3>5 DEF HoldConservation, CashHoldsConserved, TypeOK
  <2>4. KeyHoldsConserved'
    <3>1. ASSUME NEW k \in Keys PROVE KeyOf(r, k)' = 0
      BY <2>2 DEF KeyOf
    <3>2. KeyOf(r, rkey[r]) = resKey[r]
      BY <2>1 DEF KeyOf, RelaysWith
    <3>3. resKey[r] <= keyHeld[rkey[r]]
      BY <1>0, <2>1, <3>2, ReservedChange
         DEF HoldConservation, KeyHoldsConserved, TypeOK
    <3>4. ASSUME NEW k \in Keys PROVE keyHeld'[k] = keyHeld[k] - KeyOf(r, k)
      BY <1>14, <2>1, <2>2, <3>2, <3>3 DEF Unhold, Clipped, KeyOf, RelaysWith, TypeOK
    <3>5. ASSUME NEW k \in Keys
          PROVE  KeyReserved(k)' = KeyReserved(k) - KeyOf(r, k) /\ KeyReserved(k) \in Nat
      BY <1>0, <1>12, <3>1, ReservedChange
    <3> QED
      BY <1>12, <1>14, <3>4, <3>5 DEF HoldConservation, KeyHoldsConserved, TypeOK
  <2>5. DailyHoldsConserved'
    <3>1. ASSUME NEW k \in Keys PROVE DailyOf(r, k)' = 0
      BY <2>2 DEF DailyOf
    <3>2. DailyOf(r, rkey[r]) = resDay[r]
      BY <2>1 DEF DailyOf, RelaysWith
    <3>3. resDay[r] <= dayHeld[rkey[r]]
      BY <1>0, <2>1, <3>2, ReservedChange
         DEF HoldConservation, DailyHoldsConserved, TypeOK
    <3>4. ASSUME NEW k \in Keys PROVE dayHeld'[k] = dayHeld[k] - DailyOf(r, k)
      BY <1>14, <2>1, <2>2, <3>2, <3>3 DEF Unhold, Clipped, DailyOf, RelaysWith, TypeOK
    <3>5. ASSUME NEW k \in Keys
          PROVE  DailyReserved(k)' = DailyReserved(k) - DailyOf(r, k) /\ DailyReserved(k) \in Nat
      BY <1>0, <1>12, <3>1, ReservedChange
    <3> QED
      BY <1>12, <1>14, <3>4, <3>5 DEF HoldConservation, DailyHoldsConserved, TypeOK
  <2> QED
    BY <2>3, <2>4, <2>5 DEF HoldConservation
<1>15. CASE ReleaseBudget(r)
  BY <1>14, <1>15 DEF ReleaseBudget
<1>16. ASSUME NEW c \in Costs, Settle(r, c) PROVE HoldConservation'
  BY <1>14, <1>16 DEF Settle
<1>17. CASE ReleaseFails(r)
  <2>1. rkey[r] \in Keys /\ User(r) \in Users /\ rkey'[r] = rkey[r]
    BY <1>17, RelayUser DEF ReleaseFails
  <2>2. /\ resBal'[r] = 0 /\ resKey'[r] = 0 /\ resDay'[r] = 0
        /\ resBal[r] \in Nat /\ resKey[r] \in Nat /\ resDay[r] \in Nat
    BY <1>17 DEF ReleaseFails, DropBudget, TypeOK
  <2>3. CashHoldsConserved'
    <3>1. ASSUME NEW u \in Users
          PROVE  leakBal'[u] = leakBal[u] + CashOf(r, u) /\ CashOf(r, u)' = 0
      BY <1>17, <2>1, <2>2 DEF ReleaseFails, CashOf, RelaysOf, User, TypeOK
    <3>2. ASSUME NEW u \in Users
          PROVE  CashReserved(u)' = CashReserved(u) - CashOf(r, u) /\ CashReserved(u) \in Nat
      BY <1>0, <1>12, <3>1, ReservedChange
    <3> QED
      BY <1>12, <1>17, <3>1, <3>2 DEF ReleaseFails, HoldConservation, CashHoldsConserved, TypeOK
  <2>4. KeyHoldsConserved'
    <3>1. ASSUME NEW k \in Keys
          PROVE  leakKey'[k] = leakKey[k] + KeyOf(r, k) /\ KeyOf(r, k)' = 0
      BY <1>17, <2>1, <2>2 DEF ReleaseFails, KeyOf, RelaysWith, TypeOK
    <3>2. ASSUME NEW k \in Keys
          PROVE  KeyReserved(k)' = KeyReserved(k) - KeyOf(r, k) /\ KeyReserved(k) \in Nat
      BY <1>0, <1>12, <3>1, ReservedChange
    <3> QED
      BY <1>12, <1>17, <3>1, <3>2 DEF ReleaseFails, HoldConservation, KeyHoldsConserved, TypeOK
  <2>5. DailyHoldsConserved'
    <3>1. ASSUME NEW k \in Keys
          PROVE  leakDay'[k] = leakDay[k] + DailyOf(r, k) /\ DailyOf(r, k)' = 0
      BY <1>17, <2>1, <2>2 DEF ReleaseFails, DailyOf, RelaysWith, TypeOK
    <3>2. ASSUME NEW k \in Keys
          PROVE  DailyReserved(k)' = DailyReserved(k) - DailyOf(r, k) /\ DailyReserved(k) \in Nat
      BY <1>0, <1>12, <3>1, ReservedChange
    <3> QED
      BY <1>12, <1>17, <3>1, <3>2 DEF ReleaseFails, HoldConservation, DailyHoldsConserved, TypeOK
  <2> QED
    BY <2>3, <2>4, <2>5 DEF HoldConservation
<1> QED
  BY <1>a, <1>1, <1>2, <1>3, <1>4, <1>5, <1>6, <1>7, <1>8, <1>9, <1>10, <1>11, <1>13, <1>15, <1>16, <1>17 DEF RelayStep

(* Edits leave the holds alone, and a restart clears both sides.            *)
LEMMA HoldsStep ==
    TypeOK /\ TypeOK' /\ OneMeansOfPayment /\ HoldConservation /\ [Next]_vars
        => HoldConservation'
<1> SUFFICES ASSUME TypeOK, TypeOK', OneMeansOfPayment, HoldConservation,
                    [Next]_vars
             PROVE  HoldConservation'
  OBVIOUS
<1>1. ASSUME NEW r \in Relays, NEW k \in Keys, Authenticate(r, k)
      PROVE  HoldConservation'
  <2>1. OnlyRelay(r)
    BY <1>1 DEF Authenticate, OnlyRelay, TypeOK, budget
  <2>2. HoldsStill(r)
    BY <1>1 DEF Authenticate, HoldsStill, OneMeansOfPayment, userRow, keyRow,
                budget, leaks
  <2> QED
    BY <2>1, <2>2, HoldsQuiet
<1>2. CASE CrashRestart
  <2>1. /\ \A r \in Relays : resBal'[r] = 0 /\ resKey'[r] = 0 /\ resDay'[r] = 0
        /\ resBal' \in [Relays -> Nat] /\ resKey' \in [Relays -> Nat]
        /\ resDay' \in [Relays -> Nat]
    BY <1>2 DEF CrashRestart
  <2>2. ASSUME NEW u \in Users PROVE CashReserved(u)' = 0
    BY <2>1, PartZero DEF CashReserved
  <2>3. ASSUME NEW k \in Keys PROVE KeyReserved(k)' = 0
    BY <2>1, PartZero DEF KeyReserved
  <2>4. ASSUME NEW k \in Keys PROVE DailyReserved(k)' = 0
    BY <2>1, PartZero DEF DailyReserved
  <2> QED
    BY <1>2, <2>2, <2>3, <2>4
       DEF CrashRestart, HoldConservation, CashHoldsConserved,
           KeyHoldsConserved, DailyHoldsConserved
<1>3. ASSUME UNCHANGED <<held, keyHeld, dayHeld, rkey, budget, leaks>>
      PROVE  HoldConservation'
  <2>1. /\ \A u \in Users : CashReserved(u)' = CashReserved(u)
        /\ \A k \in Keys : KeyReserved(k)' = KeyReserved(k)
                          /\ DailyReserved(k)' = DailyReserved(k)
    BY <1>3 DEF CashReserved, KeyReserved, DailyReserved, RelaysOf, RelaysWith,
                budget
  <2> QED
    BY <1>3, <2>1 DEF HoldConservation, CashHoldsConserved, KeyHoldsConserved,
                      DailyHoldsConserved, leaks
<1>4. ASSUME Environment, ~CrashRestart
      PROVE  UNCHANGED <<held, keyHeld, dayHeld, rkey, budget, leaks>>
  BY <1>4 DEF Environment, AddBalance, SetBalance, GrantRequests, GrantPass,
              PassExpires, SetKeyLimits, DayRollover, keyRow, userRow, locals
<1>5. CASE UNCHANGED vars
  BY <1>3, <1>5 DEF vars, keyRow, userRow, locals
<1> QED
  BY <1>1, <1>2, <1>3, <1>4, <1>5, HoldsRelay DEF Next

(* Nothing is held before the first call.                                   *)
LEMMA HoldsInit == Init => HoldConservation
<1> SUFFICES ASSUME Init PROVE HoldConservation
  OBVIOUS
<1>1. /\ \A u \in Users : CashReserved(u) = 0
      /\ \A k \in Keys : KeyReserved(k) = 0 /\ DailyReserved(k) = 0
  BY PartZero DEF Init, CashReserved, KeyReserved, DailyReserved
<1> QED
  BY <1>1 DEF Init, HoldConservation, CashHoldsConserved, KeyHoldsConserved,
              DailyHoldsConserved

(* The held columns always equal the reservations of the calls in flight    *)
(* plus what failed releases leaked: for every number of concurrent relays, *)
(* every amount, with restarts and limit edits at any moment.               *)
THEOREM HoldsConserved == Spec => []HoldConservation
BY HoldsInit, HoldsStep, TypeCorrect, MeansOfPayment, PTL DEF Spec

-----------------------------------------------------------------------------
(* Conservation of request cards.                                           *)

(* A step that moves no card.                                               *)
CardsStill(r) ==
    /\ UNCHANGED <<granted, remaining, spent, lost>>
    /\ ticket'[r] = ticket[r]
    /\ rkey'[r] = rkey[r] \/ ticket[r] = 0

(* A step that moves no card keeps their number.                            *)
LEMMA CardsQuiet ==
    ASSUME TypeOK, TypeOK', CardConservation,
           NEW r \in Relays, OnlyRelay(r), CardsStill(r)
    PROVE  CardConservation'
<1>1. \A u \in Users : CardOf(r, u)' = CardOf(r, u) /\ CardOf(r, u) \in Nat
  <2>1. ticket[r] \in Nat
    BY DEF TypeOK
  <2> QED
    BY <2>1 DEF CardsStill, CardOf, RelaysOf
<1>2. \A u \in Users : CardsInFlight(u)' = CardsInFlight(u)
  BY <1>1, ReservedChange
<1> QED
  BY <1>2 DEF CardsStill, CardConservation

(* A card goes from the account to one call and from there to exactly one   *)
(* of: spent, given back, lost.                                             *)
LEMMA CardsRelay ==
    ASSUME TypeOK, TypeOK', OneMeansOfPayment, CardConservation,
           NEW r \in Relays, RelayStep(r)
    PROVE  CardConservation'
<1> USE DEF CardsStill, Goto, locals, userRow, cards
<1>0. OnlyRelay(r)
  BY RelayFrame
<1>a. CardsStill(r) => CardConservation'
  BY <1>0, CardsQuiet
<1>1. ASSUME GiveUp(r) PROVE CardsStill(r)
  BY <1>1 DEF GiveUp, Leave, OneMeansOfPayment, TypeOK, Stages
<1>2. ASSUME SkipRequest(r) PROVE CardsStill(r)
  BY <1>2 DEF SkipRequest, OneMeansOfPayment, TypeOK, Stages
<1>3. ASSUME MissRequest(r) PROVE CardsStill(r)
  BY <1>3 DEF MissRequest, OneMeansOfPayment, TypeOK, Stages
<1>4. ASSUME RecheckPass(r) PROVE CardsStill(r)
  BY <1>4 DEF RecheckPass, OneMeansOfPayment, TypeOK, Stages
<1>5. ASSUME RecheckCash(r) PROVE CardsStill(r)
  BY <1>5 DEF RecheckCash, OneMeansOfPayment, TypeOK, Stages
<1>6. ASSUME RecheckRefuse(r) PROVE CardsStill(r)
  BY <1>6 DEF RecheckRefuse, Leave, OneMeansOfPayment, TypeOK, Stages
<1>7. ASSUME NEW e \in Estimates, ReserveBudget(r, e) PROVE CardsStill(r)
  BY <1>7 DEF ReserveBudget, OneMeansOfPayment, TypeOK, Stages
<1>8. ASSUME NEW e \in Estimates, RefuseBudget(r, e) PROVE CardsStill(r)
  BY <1>8 DEF RefuseBudget, OneMeansOfPayment, TypeOK, Stages
<1>9. ASSUME Abandon(r) PROVE CardsStill(r)
  BY <1>9 DEF Abandon, OneMeansOfPayment, TypeOK, Stages
<1>10. ASSUME ReleaseBudget(r) PROVE CardsStill(r)
  BY <1>10 DEF ReleaseBudget, OneMeansOfPayment, TypeOK, Stages
<1>11. ASSUME ReleaseFails(r) PROVE CardsStill(r)
  BY <1>11 DEF ReleaseFails, OneMeansOfPayment, TypeOK, Stages
<1>12. \A u \in Users : CardOf(r, u) \in Nat /\ CardOf(r, u)' \in Nat
  <2>1. ticket[r] \in 0..1 /\ ticket'[r] \in 0..1
    BY DEF TypeOK
  <2> QED
    BY <2>1 DEF CardOf
<1>13. ASSUME NEW u \in Users
       PROVE  /\ CardsInFlight(u)' = CardsInFlight(u) - CardOf(r, u) + CardOf(r, u)'
              /\ CardsInFlight(u) \in Nat
  BY <1>0, ReservedChange
<1>14. CASE TakeRequest(r)
  <2>1. rkey[r] \in Keys /\ User(r) \in Users /\ rkey'[r] = rkey[r]
    BY <1>14, RelayUser DEF TakeRequest
  <2>2. ticket[r] = 0 /\ ticket'[r] = 1
    BY <1>14 DEF TakeRequest, OneMeansOfPayment, TypeOK
  <2>3. ASSUME NEW u \in Users
        PROVE  remaining'[u] = remaining[u] - CardOf(r, u)' /\ CardOf(r, u) = 0
    BY <1>14, <2>1, <2>2 DEF TakeRequest, CardOf, RelaysOf, User, TypeOK
  <2> QED
    BY <1>12, <1>13, <1>14, <2>3 DEF TakeRequest, CardConservation, TypeOK
<1>15. ASSUME pc[r] # "idle", Leave(r)
       PROVE  /\ rkey[r] \in Keys /\ User(r) \in Users /\ ticket[r] \in Nat
              /\ \A u \in Users : CardOf(r, u)' = 0
              /\ \A u \in Users : CardOf(r, u) = IF u = User(r) THEN ticket[r] ELSE 0
  <2>1. rkey[r] \in Keys /\ User(r) \in Users
    BY <1>15, RelayUser
  <2>2. ticket'[r] = 0 /\ ticket[r] \in Nat
    <3>1. ticket[r] \in 0..1 /\ ticket \in [Relays -> 0..1]
      BY DEF TypeOK
    <3> QED
      BY <1>15, <3>1 DEF Leave
  <2> QED
    BY <2>1, <2>2 DEF CardOf, RelaysOf, User
<1>16. CASE RefundRequest(r)
  <2>1. ASSUME NEW u \in Users PROVE remaining'[u] = remaining[u] + CardOf(r, u)
    BY <1>15, <1>16 DEF RefundRequest, TypeOK
  <2> QED
    BY <1>12, <1>13, <1>15, <1>16, <2>1 DEF RefundRequest, CardConservation, TypeOK
<1>17. CASE RefundFails(r)
  <2>1. ASSUME NEW u \in Users PROVE lost'[u] = lost[u] + CardOf(r, u)
    BY <1>15, <1>17 DEF RefundFails, TypeOK
  <2> QED
    BY <1>12, <1>13, <1>15, <1>17, <2>1 DEF RefundFails, CardConservation, TypeOK
<1>18. ASSUME NEW c \in Costs, Settle(r, c) PROVE CardConservation'
  <2>1. ASSUME NEW u \in Users PROVE spent'[u] = spent[u] + CardOf(r, u)
    BY <1>15, <1>18 DEF Settle, TypeOK
  <2> QED
    BY <1>12, <1>13, <1>15, <1>18, <2>1 DEF Settle, CardConservation, TypeOK
<1> QED
  BY <1>a, <1>1, <1>2, <1>3, <1>4, <1>5, <1>6, <1>7, <1>8, <1>9, <1>10, <1>11, <1>14, <1>16, <1>17, <1>18 DEF RelayStep

(* Grants add to both sides; a restart loses the cards in flight.           *)
LEMMA CardsStep ==
    TypeOK /\ TypeOK' /\ OneMeansOfPayment /\ CardConservation /\ [Next]_vars
        => CardConservation'
<1> SUFFICES ASSUME TypeOK, TypeOK', OneMeansOfPayment, CardConservation,
                    [Next]_vars
             PROVE  CardConservation'
  OBVIOUS
<1>1. ASSUME NEW r \in Relays, NEW k \in Keys, Authenticate(r, k)
      PROVE  CardConservation'
  <2>1. OnlyRelay(r)
    BY <1>1 DEF Authenticate, OnlyRelay, TypeOK, budget
  <2>2. CardsStill(r)
    BY <1>1 DEF Authenticate, CardsStill, OneMeansOfPayment, userRow, cards
  <2> QED
    BY <2>1, <2>2, CardsQuiet
<1>2. CASE CrashRestart
  <2>1. /\ \A r \in Relays : ticket'[r] = 0
        /\ ticket' \in [Relays -> Nat]
    BY <1>2 DEF CrashRestart
  <2>2. ASSUME NEW u \in Users PROVE CardsInFlight(u)' = 0
    BY <2>1, PartZero DEF CardsInFlight
  <2>3. ASSUME NEW u \in Users PROVE lost'[u] = lost[u] + CardsInFlight(u)
    BY <1>2 DEF CrashRestart, CardsInFlight
  <2> QED
    BY <1>2, <2>2, <2>3, CardsType DEF CrashRestart, CardConservation, TypeOK
<1>3. ASSUME UNCHANGED <<rkey, ticket>>
      PROVE  \A u \in Users : CardsInFlight(u)' = CardsInFlight(u)
  BY <1>3 DEF CardsInFlight, RelaysOf
<1>4. ASSUME NEW u \in Users, NEW n \in Grants, GrantRequests(u, n)
      PROVE  CardConservation'
  <2>1. \A v \in Users : CardsInFlight(v)' = CardsInFlight(v)
    BY <1>3, <1>4 DEF GrantRequests, locals
  <2> QED
    BY <1>4, <2>1, CardsType, AmountsAssumption
       DEF GrantRequests, CardConservation, TypeOK
<1>5. ASSUME UNCHANGED <<rkey, ticket, remaining, cards>> PROVE CardConservation'
  <2>1. \A v \in Users : CardsInFlight(v)' = CardsInFlight(v)
    BY <1>3, <1>5
  <2> QED
    BY <1>5, <2>1 DEF CardConservation, cards
<1>6. ASSUME Environment, ~CrashRestart,
             ~\E u \in Users, n \in Grants : GrantRequests(u, n)
      PROVE  UNCHANGED <<rkey, ticket, remaining, cards>>
  BY <1>6 DEF Environment, AddBalance, SetBalance, GrantPass, PassExpires,
              SetKeyLimits, DayRollover, userRow, locals
<1>7. CASE UNCHANGED vars
  BY <1>5, <1>7 DEF vars, userRow, locals
<1> QED
  BY <1>1, <1>2, <1>4, <1>5, <1>6, <1>7, CardsRelay DEF Next

(* No request card is spent twice, refunded twice or forgotten.             *)
THEOREM CardsConserved == Spec => []CardConservation
<1>1. Init => CardConservation
  <2> SUFFICES ASSUME Init PROVE CardConservation
    OBVIOUS
  <2>1. \A u \in Users : CardsInFlight(u) = 0
    BY PartZero DEF Init, CardsInFlight
  <2> QED
    BY <2>1, AmountsAssumption DEF Init, CardConservation
<1> QED
  BY <1>1, CardsStep, TypeCorrect, MeansOfPayment, PTL DEF Spec

(* Money held and cards taken are each settled or given back exactly once.  *)
THEOREM NothingLost == Spec => []Conservation
<1>1. HoldConservation /\ CardConservation => Conservation
  BY DEF Conservation
<1> QED
  BY <1>1, HoldsConserved, CardsConserved, PTL

-----------------------------------------------------------------------------
(* Money: what is held can be paid, and what is charged was paid.           *)

(* What a live relay holds is part of the held column of its user.          *)
LEMMA HoldBound ==
    ASSUME TypeOK, TypeOK', HoldConservation, NEW r \in Relays, OnlyRelay(r),
           rkey[r] \in Keys, User(r) \in Users
    PROVE  /\ resBal[r] <= held[User(r)]
           /\ resKey[r] <= keyHeld[rkey[r]] /\ resDay[r] <= dayHeld[rkey[r]]
<1>1. /\ CashOf(r, User(r)) = resBal[r] /\ KeyOf(r, rkey[r]) = resKey[r]
      /\ DailyOf(r, rkey[r]) = resDay[r]
  BY DEF CashOf, KeyOf, DailyOf, RelaysOf, RelaysWith, User
<1>2. /\ CashReserved(User(r)) \in Nat /\ resBal[r] <= CashReserved(User(r))
      /\ KeyReserved(rkey[r]) \in Nat /\ resKey[r] <= KeyReserved(rkey[r])
      /\ DailyReserved(rkey[r]) \in Nat /\ resDay[r] <= DailyReserved(rkey[r])
  BY <1>1, ReservedChange
<1>3. resBal[r] \in Nat /\ resKey[r] \in Nat /\ resDay[r] \in Nat
  BY DEF TypeOK
<1> QED
  BY <1>2, <1>3 DEF TypeOK, HoldConservation, CashHoldsConserved,
                    KeyHoldsConserved, DailyHoldsConserved

Money == HeldCovered /\ CommissionFollowsPayment

(* If calls stay within their estimates, a settled cash call finds its cost *)
(* in the balance: its own hold is part of what the balance covers.         *)
LEMMA MoneyRelay ==
    ASSUME WithinEstimates, TypeOK, TypeOK', OneMeansOfPayment,
           HoldConservation, Money, NEW r \in Relays, RelayStep(r)
    PROVE  Money'
<1> USE DEF Money, HeldCovered, CommissionFollowsPayment, userRow, money
<1>0. OnlyRelay(r)
  BY RelayFrame
<1>a. UNCHANGED <<balance, held, money>> => Money'
  OBVIOUS
<1>1. ASSUME GiveUp(r) PROVE UNCHANGED <<balance, held, money>>
  BY <1>1 DEF GiveUp
<1>2. ASSUME SkipRequest(r) PROVE UNCHANGED <<balance, held, money>>
  BY <1>2 DEF SkipRequest
<1>3. ASSUME TakeRequest(r) PROVE UNCHANGED <<balance, held, money>>
  BY <1>3 DEF TakeRequest
<1>4. ASSUME MissRequest(r) PROVE UNCHANGED <<balance, held, money>>
  BY <1>4 DEF MissRequest
<1>5. ASSUME RecheckPass(r) PROVE UNCHANGED <<balance, held, money>>
  BY <1>5 DEF RecheckPass
<1>6. ASSUME RecheckCash(r) PROVE UNCHANGED <<balance, held, money>>
  BY <1>6 DEF RecheckCash
<1>7. ASSUME RecheckRefuse(r) PROVE UNCHANGED <<balance, held, money>>
  BY <1>7 DEF RecheckRefuse
<1>8. ASSUME NEW e \in Estimates, RefuseBudget(r, e) PROVE UNCHANGED <<balance, held, money>>
  BY <1>8 DEF RefuseBudget
<1>9. ASSUME Abandon(r) PROVE UNCHANGED <<balance, held, money>>
  BY <1>9 DEF Abandon
<1>10. ASSUME ReleaseFails(r) PROVE UNCHANGED <<balance, held, money>>
  BY <1>10 DEF ReleaseFails
<1>11. ASSUME RefundRequest(r) PROVE UNCHANGED <<balance, held, money>>
  BY <1>11 DEF RefundRequest
<1>12. ASSUME RefundFails(r) PROVE UNCHANGED <<balance, held, money>>
  BY <1>12 DEF RefundFails
<1>13. ASSUME NEW e \in Estimates, ReserveBudget(r, e) PROVE Money'
  <2>1. rkey[r] \in Keys /\ User(r) \in Users /\ e \in Nat
    BY <1>13, RelayUser, AmountsAssumption DEF ReserveBudget
  <2>2. User(r) \in Users \ Admins => held[User(r)] + CashHold(r, e) <= balance[User(r)]
    BY <1>13, <2>1 DEF ReserveBudget, Fits, CashFits, CashHold, TypeOK
  <2>3. /\ held' = [held EXCEPT ![User(r)] = @ + CashHold(r, e)]
        /\ UNCHANGED <<balance, money>>
    BY <1>13 DEF ReserveBudget
  <2> QED
    BY <2>1, <2>2, <2>3 DEF TypeOK
<1>14. CASE ReleaseBudget(r)
  <2>1. rkey[r] \in Keys /\ User(r) \in Users
    BY <1>14, RelayUser DEF ReleaseBudget
  <2>2. /\ held' = [held EXCEPT ![User(r)] = Clipped(@, resBal[r])]
        /\ UNCHANGED <<balance, money>>
    BY <1>14 DEF ReleaseBudget, Unhold
  <2>3. Clipped(held[User(r)], resBal[r]) <= held[User(r)]
    BY <2>1 DEF Clipped, TypeOK
  <2>4. \A u \in Users : held'[u] <= held[u]
    BY <2>1, <2>2, <2>3 DEF TypeOK
  <2> QED
    BY <2>2, <2>4 DEF TypeOK
<1>15. ASSUME NEW c \in Costs, Settle(r, c) PROVE Money'
  <2>1. rkey[r] \in Keys /\ User(r) \in Users /\ c \in Nat
    BY <1>15, RelayUser, AmountsAssumption DEF Settle
  <2>2. c <= est[r] /\ resBal[r] = CashHold(r, est[r])
    BY <1>15 DEF Settle, WithinEstimates, OneMeansOfPayment, CashHold, CashBilling,
                 TypeOK
  <2>3. resBal[r] <= held[User(r)]
    BY <1>0, <2>1, HoldBound
  <2>4. ASSUME NEW u \in Users \ Admins, u # User(r)
        PROVE  /\ balance'[u] = balance[u] /\ held'[u] = held[u]
               /\ charged'[u] = charged[u]
    BY <1>15, <2>4 DEF Settle, Unhold, TypeOK
  <2>5. CASE User(r) \in Users \ Admins /\ Charged(r)
    <3>1. resBal[r] = est[r] /\ est[r] \in Nat
      BY <2>2, <2>5 DEF CashHold, CashBilling, Charged, IsAdmin, TypeOK
    <3>2. balance[User(r)] >= c
      BY <2>1, <2>2, <2>3, <2>5, <3>1 DEF TypeOK
    <3>3. balance'[User(r)] = balance[User(r)] - c
      BY <1>15, <2>1, <2>5, <3>2, <3>1 DEF Settle, Clipped, TypeOK
    <3>4. held'[User(r)] = held[User(r)] - resBal[r]
      BY <1>15, <2>1, <2>3 DEF Settle, Unhold, Clipped, TypeOK
    <3>5. charged'[User(r)] = charged[User(r)] + c
      BY <1>15, <2>1, <2>5 DEF Settle, TypeOK
    <3>6. held'[User(r)] <= balance'[User(r)]
      BY <2>1, <2>2, <2>5, <3>1, <3>3, <3>4 DEF TypeOK
    <3>7. charged'[User(r)] = deposited'[User(r)] - balance'[User(r)]
      BY <1>15, <2>1, <2>5, <3>3, <3>5 DEF Settle, TypeOK
    <3> QED
      BY <1>15, <2>4, <3>6, <3>7 DEF Settle
  <2>6. CASE User(r) \in Users \ Admins /\ ~Charged(r)
    <3>1. resBal[r] = 0
      BY <2>2, <2>6 DEF CashHold, CashBilling, Charged
    <3>2. /\ balance'[User(r)] = balance[User(r)]
          /\ charged'[User(r)] = charged[User(r)]
      BY <1>15, <2>1, <2>6, <3>1 DEF Settle, TypeOK
    <3>3. held'[User(r)] = held[User(r)]
      BY <1>15, <2>1, <3>1 DEF Settle, Unhold, Clipped, TypeOK
    <3> QED
      BY <1>15, <2>4, <3>2, <3>3 DEF Settle
  <2>7. CASE User(r) \in Admins
    BY <1>15, <2>4, <2>7 DEF Settle
  <2> QED
    BY <2>1, <2>5, <2>6, <2>7
<1> QED
  BY <1>a, <1>1, <1>2, <1>3, <1>4, <1>5, <1>6, <1>7, <1>8, <1>9, <1>10, <1>11, <1>12, <1>13, <1>14, <1>15 DEF RelayStep

(* Top-ups only raise a balance, and a restart only lowers the holds.       *)
LEMMA MoneyStep ==
    /\ WithinEstimates /\ TypeOK /\ TypeOK' /\ OneMeansOfPayment
    /\ HoldConservation /\ Money /\ [Next]_vars
    => Money'
<1> SUFFICES ASSUME WithinEstimates, TypeOK, TypeOK', OneMeansOfPayment,
                    HoldConservation, Money, [Next]_vars
             PROVE  Money'
  OBVIOUS
<1> USE DEF Money, HeldCovered, CommissionFollowsPayment
<1>1. ASSUME NEW r \in Relays, NEW k \in Keys, Authenticate(r, k)
      PROVE  UNCHANGED <<balance, held, money>>
  BY <1>1 DEF Authenticate, userRow
<1>2. CASE CrashRestart
  <2>1. \A u \in Users \ Admins : balance[u] >= 0
    BY DEF TypeOK
  <2> QED
    BY <1>2, <2>1 DEF CrashRestart, money
<1>3. ASSUME NEW u \in Users, NEW a \in Deposits, AddBalance(u, a)
      PROVE  Money'
  <2>1. a \in Nat
    BY DEF WithinEstimates
  <2> QED
    BY <1>3, <2>1 DEF AddBalance, TypeOK
<1>4. ASSUME UNCHANGED <<balance, held, money>> PROVE Money'
  BY <1>4 DEF money
<1>5. ASSUME Environment, ~CrashRestart,
             ~\E u \in Users, a \in Deposits : AddBalance(u, a)
      PROVE  UNCHANGED <<balance, held, money>>
  BY <1>5 DEF WithinEstimates, Environment, GrantRequests, GrantPass,
              PassExpires, SetKeyLimits, DayRollover, userRow
<1>6. CASE UNCHANGED vars
  BY <1>4, <1>6 DEF vars, userRow
<1> QED
  BY <1>1, <1>2, <1>3, <1>4, <1>5, <1>6, MoneyRelay DEF Next

(* Within the estimates the two money properties hold together.             *)
LEMMA MoneyInvariant == WithinEstimates /\ Spec => []Money
<1>1. WithinEstimates /\ Init => Money
  BY SetsAssumption, AmountsAssumption
     DEF WithinEstimates, Init, Money, HeldCovered, CommissionFollowsPayment
<1>2. SUFFICES ASSUME WithinEstimates PROVE Spec => []Money
  OBVIOUS
<1>3. Init => Money
  BY <1>1, <1>2
<1>4. TypeOK /\ TypeOK' /\ OneMeansOfPayment /\ HoldConservation /\ Money
        /\ [Next]_vars => Money'
  BY <1>2, MoneyStep
<1> QED
  BY <1>3, <1>4, TypeCorrect, MeansOfPayment, HoldsConserved, PTL DEF Spec

(* When calls stay within their estimates, concurrent calls cannot use the  *)
(* same balance twice: the held amount never exceeds the balance.           *)
THEOREM NoDoubleUse == WithinEstimates /\ Spec => []HeldCovered
<1>1. Money => HeldCovered
  BY DEF Money
<1> QED
  BY <1>1, MoneyInvariant, PTL

(* ... and every user paid exactly what his cash calls were charged, which  *)
(* is the base of his referrer's commission.                                *)
THEOREM ChargedIsPaid == WithinEstimates /\ Spec => []CommissionFollowsPayment
<1>1. Money => CommissionFollowsPayment
  BY DEF Money
<1> QED
  BY <1>1, MoneyInvariant, PTL

-----------------------------------------------------------------------------
(* Key limits.                                                              *)

(* With fixed limits, what a call holds of its key is its whole estimate or *)
(* nothing, and the lifetime meter equals the logged cost.                  *)
KeyShape ==
    \A r \in Relays : pc[r] \in {"calling", "releasing"} =>
        /\ resKey[r] = QuotaHold(rkey[r], est[r])
        /\ resDay[r] = DailyHold(rkey[r], est[r])
KeyMeter == \A k \in Keys : used[k] = logged[k]

(* A call holds its whole estimate on every limit its key has.              *)
LEMMA KeyShapeRelay ==
    ASSUME TypeOK, KeyShape, NEW r \in Relays, RelayStep(r)
    PROVE  KeyShape'
<1> USE DEF TypeOK, Stages, KeyShape, QuotaHold, DailyHold, Goto, locals, budget,
            limits, keyRow
<1>1. CASE GiveUp(r)
  BY <1>1 DEF GiveUp, Leave
<1>2. CASE SkipRequest(r)
  BY <1>2 DEF SkipRequest
<1>3. CASE TakeRequest(r)
  BY <1>3 DEF TakeRequest
<1>4. CASE MissRequest(r)
  BY <1>4 DEF MissRequest
<1>5. CASE RecheckPass(r)
  BY <1>5 DEF RecheckPass
<1>6. CASE RecheckCash(r)
  BY <1>6 DEF RecheckCash
<1>7. CASE RecheckRefuse(r)
  BY <1>7 DEF RecheckRefuse, Leave
<1>8. ASSUME NEW e \in Estimates, ReserveBudget(r, e) PROVE KeyShape'
  BY <1>8 DEF ReserveBudget
<1>9. ASSUME NEW e \in Estimates, RefuseBudget(r, e) PROVE KeyShape'
  BY <1>9 DEF RefuseBudget
<1>10. CASE Abandon(r)
  BY <1>10 DEF Abandon
<1>11. CASE ReleaseBudget(r)
  BY <1>11 DEF ReleaseBudget, DropBudget
<1>12. CASE ReleaseFails(r)
  BY <1>12 DEF ReleaseFails, DropBudget
<1>13. CASE RefundRequest(r)
  BY <1>13 DEF RefundRequest, Leave
<1>14. CASE RefundFails(r)
  BY <1>14 DEF RefundFails, Leave
<1>15. ASSUME NEW c \in Costs, Settle(r, c) PROVE KeyShape'
  BY <1>15 DEF Settle, Leave, DropBudget
<1> QED
  BY <1>1, <1>2, <1>3, <1>4, <1>5, <1>6, <1>7, <1>8, <1>9, <1>10, <1>11, <1>12, <1>13, <1>14, <1>15 DEF RelayStep

(* This stays so while nobody edits the limits.                             *)
LEMMA KeyShapeStep ==
    ASSUME KeyLimits = {}, TypeOK, KeyShape, [Next]_vars
    PROVE  KeyShape'
<1>1. ASSUME NEW r \in Relays, NEW k \in Keys, Authenticate(r, k) PROVE KeyShape'
  BY <1>1 DEF Authenticate, Goto, TypeOK, KeyShape, QuotaHold, DailyHold, budget,
              keyRow
<1>2. CASE CrashRestart
  BY <1>2 DEF CrashRestart, KeyShape
<1>3. ASSUME UNCHANGED <<pc, rkey, est, budget, limits>> PROVE KeyShape'
  BY <1>3 DEF KeyShape, QuotaHold, DailyHold, budget, limits
<1>4. ASSUME Environment, ~CrashRestart
      PROVE  UNCHANGED <<pc, rkey, est, budget, limits>>
  BY <1>4 DEF Environment, AddBalance, SetBalance, GrantRequests, GrantPass,
              PassExpires, DayRollover, locals, keyRow, limits
<1>5. CASE UNCHANGED vars
  BY <1>3, <1>5 DEF vars, locals, keyRow, limits
<1> QED
  BY <1>1, <1>2, <1>3, <1>4, <1>5, KeyShapeRelay DEF Next

(* The columns of the key rows and the ledger of their use.                 *)
KeyColumns == <<limits, used, usedToday, keyHeld, dayHeld, logged>>
KeysInLimits == KeyMeter /\ KeyLimitsRespected

(* A reservation fits in what the limits leave, and settling replaces it by *)
(* a cost that is no larger, so that quota_used is never clipped.           *)
LEMMA KeysRelay ==
    ASSUME FixedLimits, TypeOK, TypeOK', KeyShape, HoldConservation,
           KeysInLimits, NEW r \in Relays, RelayStep(r)
    PROVE  KeysInLimits'
<1> USE DEF KeysInLimits, KeyMeter, KeyLimitsRespected, limits
<1>0. OnlyRelay(r)
  BY RelayFrame
<1>a. UNCHANGED KeyColumns => KeysInLimits'
  BY DEF KeyColumns
<1>1. ASSUME GiveUp(r) PROVE UNCHANGED KeyColumns
  BY <1>1 DEF GiveUp, KeyColumns, keyRow, money
<1>2. ASSUME SkipRequest(r) PROVE UNCHANGED KeyColumns
  BY <1>2 DEF SkipRequest, KeyColumns, keyRow, money
<1>3. ASSUME TakeRequest(r) PROVE UNCHANGED KeyColumns
  BY <1>3 DEF TakeRequest, KeyColumns, keyRow, money
<1>4. ASSUME MissRequest(r) PROVE UNCHANGED KeyColumns
  BY <1>4 DEF MissRequest, KeyColumns, keyRow, money
<1>5. ASSUME RecheckPass(r) PROVE UNCHANGED KeyColumns
  BY <1>5 DEF RecheckPass, KeyColumns, keyRow, money
<1>6. ASSUME RecheckCash(r) PROVE UNCHANGED KeyColumns
  BY <1>6 DEF RecheckCash, KeyColumns, keyRow, money
<1>7. ASSUME RecheckRefuse(r) PROVE UNCHANGED KeyColumns
  BY <1>7 DEF RecheckRefuse, KeyColumns, keyRow, money
<1>8. ASSUME NEW e \in Estimates, RefuseBudget(r, e) PROVE UNCHANGED KeyColumns
  BY <1>8 DEF RefuseBudget, KeyColumns, keyRow, money
<1>9. ASSUME Abandon(r) PROVE UNCHANGED KeyColumns
  BY <1>9 DEF Abandon, KeyColumns, keyRow, money
<1>10. ASSUME ReleaseFails(r) PROVE UNCHANGED KeyColumns
  BY <1>10 DEF ReleaseFails, KeyColumns, keyRow, money
<1>11. ASSUME RefundRequest(r) PROVE UNCHANGED KeyColumns
  BY <1>11 DEF RefundRequest, KeyColumns, keyRow, money
<1>12. ASSUME RefundFails(r) PROVE UNCHANGED KeyColumns
  BY <1>12 DEF RefundFails, KeyColumns, keyRow, money
<1>13. ASSUME NEW e \in Estimates, ReserveBudget(r, e) PROVE KeysInLimits'
  <2>1. rkey[r] \in Keys /\ e \in Nat
    BY <1>13, RelayUser, AmountsAssumption DEF ReserveBudget
  <2>2. /\ keyHeld' = [keyHeld EXCEPT ![rkey[r]] = @ + QuotaHold(rkey[r], e)]
        /\ dayHeld' = [dayHeld EXCEPT ![rkey[r]] = @ + DailyHold(rkey[r], e)]
        /\ UNCHANGED <<quota, daily, used, usedToday, logged>>
    BY <1>13 DEF ReserveBudget, money
  <2>3. /\ quota[rkey[r]] > 0 => logged[rkey[r]] + keyHeld[rkey[r]] + QuotaHold(rkey[r], e)
                                    <= quota[rkey[r]]
        /\ daily[rkey[r]] > 0 => usedToday[rkey[r]] + dayHeld[rkey[r]] + DailyHold(rkey[r], e)
                                    <= daily[rkey[r]]
    BY <1>13, <2>1 DEF ReserveBudget, Fits, QuotaFits, DailyFits, QuotaHold,
                       DailyHold, TypeOK
  <2>4. ASSUME NEW k \in Keys
        PROVE  /\ keyHeld'[k] = IF k = rkey[r] THEN keyHeld[k] + QuotaHold(k, e)
                                 ELSE keyHeld[k]
               /\ dayHeld'[k] = IF k = rkey[r] THEN dayHeld[k] + DailyHold(k, e)
                                 ELSE dayHeld[k]
               /\ QuotaHold(k, e) \in Nat /\ DailyHold(k, e) \in Nat
    BY <2>1, <2>2 DEF TypeOK, QuotaHold, DailyHold
  <2>5. ASSUME NEW k \in Keys
        PROVE  /\ quota[k] > 0 => logged[k] + keyHeld'[k] <= quota[k]
               /\ daily[k] > 0 => usedToday[k] + dayHeld'[k] <= daily[k]
    <3>1. CASE k = rkey[r]
      BY <2>3, <2>4, <3>1 DEF TypeOK
    <3>2. CASE k # rkey[r]
      BY <2>4, <3>2
    <3> QED
      BY <3>1, <3>2
  <2> QED
    BY <2>2, <2>5
<1>14. CASE ReleaseBudget(r)
  <2>1. rkey[r] \in Keys
    BY <1>14, RelayUser DEF ReleaseBudget
  <2>2. \A k \in Keys : keyHeld'[k] <= keyHeld[k] /\ dayHeld'[k] <= dayHeld[k]
    BY <1>14, <2>1 DEF ReleaseBudget, Unhold, Clipped, TypeOK
  <2>3. UNCHANGED <<quota, daily, used, usedToday, logged>>
    BY <1>14 DEF ReleaseBudget, money
  <2> QED
    BY <2>2, <2>3 DEF TypeOK
<1>15. ASSUME NEW c \in Costs, Settle(r, c) PROVE KeysInLimits'
  <2> DEFINE k == rkey[r]
  <2>1. k \in Keys /\ User(r) \in Users /\ c \in Nat
    BY <1>15, RelayUser, AmountsAssumption DEF Settle
  <2>2. c <= est[r] /\ resKey[r] = QuotaHold(k, est[r]) /\ resDay[r] = DailyHold(k, est[r])
    BY <1>15 DEF Settle, FixedLimits, KeyShape
  <2>3. resKey[r] <= keyHeld[k] /\ resDay[r] <= dayHeld[k]
    BY <1>0, <2>1, HoldBound
  <2>4. ASSUME NEW j \in Keys, j # k
        PROVE  /\ used'[j] = used[j] /\ logged'[j] = logged[j]
               /\ usedToday'[j] = usedToday[j]
               /\ keyHeld'[j] = keyHeld[j] /\ dayHeld'[j] = dayHeld[j]
    BY <1>15, <2>4 DEF Settle, Unhold, TypeOK
  <2>5. /\ logged'[k] = logged[k] + c /\ usedToday'[k] = usedToday[k] + c
        /\ UNCHANGED <<quota, daily>>
    BY <1>15, <2>1 DEF Settle, TypeOK
  <2>6. keyHeld'[k] = keyHeld[k] - resKey[r] /\ dayHeld'[k] = dayHeld[k] - resDay[r]
    BY <1>15, <2>1, <2>3 DEF Settle, Unhold, Clipped, TypeOK
  <2>7. quota[k] > 0 => c <= resKey[r] /\ used[k] + c <= quota[k]
    BY <2>1, <2>2, <2>3 DEF QuotaHold, TypeOK
  <2>8. NextUsed(k, c) = used[k] + c
    BY <2>1, <2>7 DEF NextUsed, TypeOK
  <2>9. used'[k] = used[k] + c
    <3>1. used'[k] = IF c > 0 \/ resKey[r] > 0 \/ resDay[r] > 0
                     THEN NextUsed(k, c) ELSE used[k]
      BY <1>15, <2>1 DEF Settle, TypeOK
    <3>2. ~(c > 0) => c = 0
      BY <2>1
    <3> QED
      BY <2>1, <2>8, <3>1, <3>2 DEF TypeOK
  <2>10. daily[k] > 0 => c <= resDay[r]
    BY <2>1, <2>2 DEF DailyHold, TypeOK
  <2>11. /\ used'[k] = logged'[k]
         /\ quota[k] > 0 => logged'[k] + keyHeld'[k] <= quota[k]
         /\ daily[k] > 0 => usedToday'[k] + dayHeld'[k] <= daily[k]
    BY <2>1, <2>3, <2>5, <2>6, <2>7, <2>9, <2>10 DEF TypeOK
  <2> QED
    BY <2>4, <2>5, <2>11
<1> QED
  BY <1>a, <1>1, <1>2, <1>3, <1>4, <1>5, <1>6, <1>7, <1>8, <1>9, <1>10, <1>11, <1>12, <1>13, <1>14, <1>15 DEF RelayStep

(* A new day and a restart only lower what is committed.                    *)
LEMMA KeysStep ==
    ASSUME FixedLimits, TypeOK, TypeOK', KeyShape, HoldConservation,
           KeysInLimits, [Next]_vars
    PROVE  KeysInLimits'
<1> USE DEF KeysInLimits, KeyMeter, KeyLimitsRespected
<1>1. ASSUME NEW r \in Relays, NEW k \in Keys, Authenticate(r, k)
      PROVE  UNCHANGED KeyColumns
  BY <1>1 DEF Authenticate, keyRow, KeyColumns, limits, money
<1>2. CASE CrashRestart
  BY <1>2 DEF CrashRestart, limits, money, TypeOK
<1>3. CASE DayRollover
  BY <1>3 DEF DayRollover, limits, money, TypeOK
<1>4. ASSUME UNCHANGED KeyColumns PROVE KeysInLimits'
  BY <1>4 DEF KeyColumns, limits
<1>5. ASSUME Environment, ~CrashRestart, ~DayRollover
      PROVE  UNCHANGED KeyColumns
  BY <1>5 DEF FixedLimits, Environment, AddBalance, SetBalance, GrantRequests,
              GrantPass, PassExpires, keyRow, KeyColumns, limits, money
<1>6. CASE UNCHANGED vars
  BY <1>4, <1>6 DEF vars, keyRow, KeyColumns, limits, money
<1> QED
  BY <1>1, <1>2, <1>3, <1>4, <1>5, <1>6, KeysRelay DEF Next

(* While nobody edits a key's limits, its logged cost and live reservations *)
(* together never exceed them, whatever calls run at once.                  *)
THEOREM KeysWithinLimits == FixedLimits /\ Spec => []KeyLimitsRespected
<1> SUFFICES ASSUME FixedLimits PROVE Spec => []KeyLimitsRespected
  OBVIOUS
<1>1. Init => KeyShape /\ KeysInLimits
  BY AmountsAssumption DEF Init, KeyShape, KeysInLimits, KeyMeter, KeyLimitsRespected
<1>2. TypeOK /\ KeyShape /\ [Next]_vars => KeyShape'
  BY KeyShapeStep DEF FixedLimits
<1>3. TypeOK /\ TypeOK' /\ KeyShape /\ HoldConservation /\ KeysInLimits
        /\ [Next]_vars => KeysInLimits'
  BY KeysStep
<1>4. KeysInLimits => KeyLimitsRespected
  BY DEF KeysInLimits
<1> QED
  BY <1>1, <1>2, <1>3, <1>4, TypeCorrect, HoldsConserved, PTL DEF Spec
=============================================================================
