------------------------------- MODULE Holds --------------------------------
(***************************************************************************)
(* Sums of reservations.  Every relay in flight reserves some number of     *)
(* micro units (of cash, of a key's lifetime quota, of a key's daily        *)
(* quota); the database keeps only the sum.  A reservation of n units is    *)
(* the set {r} \X 1..n, so the sum over all relays is the cardinality of a  *)
(* union of disjoint sets: TLC counts it and the finite-set library reasons *)
(* about it without induction over the relays.                              *)
(***************************************************************************)
EXTENDS Integers, FiniteSets

(* The units reserved by all relays in the domain of f.                     *)
Units(f) == UNION { {r} \X (1..f[r]) : r \in DOMAIN f }

(* How many units that is: the sum of f.                                    *)
Total(f) == Cardinality(Units(f))

(* The part of f that belongs to the relays satisfying a condition, given   *)
(* as the set of those relays.                                              *)
Part(f, S) == [r \in DOMAIN f |-> IF r \in S THEN f[r] ELSE 0]

(* SQL: CASE WHEN held >= x THEN held - x ELSE 0 END                        *)
Clipped(held, x) == IF held >= x THEN held - x ELSE 0
=============================================================================
