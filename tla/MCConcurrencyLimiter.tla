------------------------ MODULE MCConcurrencyLimiter ------------------------
(* One user with two keys and three concurrent calls; the user's limit is    *)
(* raised or lowered between 1 and 2, one key allows a single call.         *)
EXTENDS ConcurrencyLimiter, TLC

CONSTANTS p1, p2, p3, u1, k1, k2

ThreeProcs == {p1, p2, p3}
Depths     == {1, 2}
OneUser    == {u1}
TwoKeys    == {k1, k2}
KeyOwner   == [k \in TwoKeys |-> u1]
UserChoice == [u \in OneUser |-> {1, 2}]
KeyChoice  == [k \in TwoKeys |-> IF k = k1 THEN {1} ELSE {0}]
=============================================================================
