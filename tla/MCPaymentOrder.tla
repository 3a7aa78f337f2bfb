--------------------------- MODULE MCPaymentOrder ----------------------------
(* Instances of PaymentOrder for TLC: one user, one order, two requests.    *)
EXTENDS PaymentOrder

CONSTANTS u1, o1, c1, c2, reconciler

OneUser    == {u1}
OneOrder   == {o1}
TwoClients == {c1, c2}

BuyerOfOne  == [o \in OneOrder |-> u1]
AmountOfOne == [o \in OneOrder |-> 1]

AnyAct == {"paid", "mispaid", "failed"}
=============================================================================
