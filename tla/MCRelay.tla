------------------------------ MODULE MCRelay -------------------------------
(* An instance of Relay for TLC: a route of two groups that share account   *)
(* "a", which takes one call at a time, and "b" without a limit.            *)
EXTENDS Relay

TwoAccounts == {"a", "b"}
Route == <<{"a"}, {"a", "b"}>>
OneSlot == [x \in TwoAccounts |-> IF x = "a" THEN 1 ELSE 0]
OnlyA == {"a"}
AnyDepth == {0, 1}
=============================================================================
