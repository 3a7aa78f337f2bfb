--------------------------- MODULE MCUsageBudget ----------------------------
(* Instances of UsageBudget for TLC: a customer with two keys (the first    *)
(* limited) and an administrator with one.                                  *)
EXTENDS UsageBudget, TLC

CONSTANTS r1, r2, customer, admin, k1, k2, ka

AllUsers  == {customer, admin}
AllKeys   == {k1, k2, ka}
TwoRelays == {r1, r2}
OnlyAdmin == {admin}
KeyOwner  == (k1 :> customer) @@ (k2 :> customer) @@ (ka :> admin)
K2Subscribed   == {k2}

TwoMicro   == [u \in AllUsers |-> IF u = customer THEN 2 ELSE 1]
OneCard    == [u \in AllUsers |-> IF u = customer THEN 1 ELSE 0]
K1Quota    == [k \in AllKeys |-> IF k = k1 THEN 4 ELSE 0]
K1Daily    == [k \in AllKeys |-> IF k = k1 THEN 3 ELSE 0]

Amounts   == {0, 1, 2}
Adjust    == {-2, 1}
JustOne   == {1}
JustZero  == {0}
None      == {}
LowLimits == {0, 1}

RelaySymmetry == Permutations(TwoRelays)
=============================================================================
