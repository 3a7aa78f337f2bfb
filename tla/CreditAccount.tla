---------------------------- MODULE CreditAccount -----------------------------
(***************************************************************************)
(* What the recharge subsystem promises about a user's money, with no       *)
(* provider, request handler or clock: an order's credit enters the balance *)
(* once, may be held back for a refund and given back, and once it is       *)
(* repaid it is gone.  PaymentOrder implements this.                        *)
(***************************************************************************)
EXTENDS Holds

CONSTANTS
    Users, Orders,
    Buyer,          \* the user of an order
    Amount          \* the credit of an order

VARIABLES
    phase,          \* of an order's credit
    balance,        \* a user's balance_micro
    spent           \* what the user's calls have taken from it

account == <<phase, balance, spent>>

Phases == {"unpaid", "credited", "held", "repaid"}

Init ==
    /\ phase = [o \in Orders |-> "unpaid"]
    /\ balance = [u \in Users |-> 0] /\ spent = [u \in Users |-> 0]

Become(o, before, after) == phase[o] = before /\ phase' = [phase EXCEPT ![o] = after]

Credit(o) ==
    /\ Become(o, "unpaid", "credited")
    /\ balance' = [balance EXCEPT ![Buyer[o]] = @ + Amount[o]]
    /\ UNCHANGED spent

(* Only credit that has not been spent can be held.                         *)
Hold(o) ==
    /\ Become(o, "credited", "held")
    /\ balance[Buyer[o]] >= Amount[o]
    /\ balance' = [balance EXCEPT ![Buyer[o]] = @ - Amount[o]]
    /\ UNCHANGED spent

GiveBack(o) ==
    /\ Become(o, "held", "credited")
    /\ balance' = [balance EXCEPT ![Buyer[o]] = @ + Amount[o]]
    /\ UNCHANGED spent

Repay(o) == Become(o, "held", "repaid") /\ UNCHANGED <<balance, spent>>

Spend(u) ==
    /\ balance[u] > 0
    /\ balance' = [balance EXCEPT ![u] = @ - 1]
    /\ spent' = [spent EXCEPT ![u] = @ + 1]
    /\ UNCHANGED phase

Next ==
    \/ \E o \in Orders : Credit(o) \/ Hold(o) \/ GiveBack(o) \/ Repay(o)
    \/ \E u \in Users : Spend(u)

Spec == Init /\ [][Next]_account

-----------------------------------------------------------------------------
(* Types: a balance is never negative, also when refunds race with spending. *)
AccountTypes ==
    /\ phase \in [Orders -> Phases]
    /\ balance \in [Users -> Nat] /\ spent \in [Users -> Nat]
=============================================================================
