-------------------------- MODULE MCReferralPayout ---------------------------
(* Instances of ReferralPayout for TLC: one user, one commission and two    *)
(* payouts.  Rate and Divisor make both conversions round: 9 units pay the   *)
(* maximum of 3 and cost 4.  After a success the 5 units left would pay 3    *)
(* more, which the daily limit refuses; after a return they are 9 again.    *)
EXTENDS ReferralPayout

CONSTANTS u1, c1, p1, p2, client, reconciler

OneUser       == {u1}
OneCommission == {c1}
TwoPayouts    == {p1, p2}
OneClient     == {client}

EarnerOfOne == [c \in OneCommission |-> u1]
ShareOfOne  == [c \in OneCommission |-> 9]
PayeeOfTwo  == [p \in TwoPayouts |-> u1]
=============================================================================
