---------------------------- MODULE HoldsProofs -----------------------------
(***************************************************************************)
(* Lemmas on sums of reservations.  Total(f) is a cardinality, so changing  *)
(* the reservation of one relay changes one block of a disjoint union.      *)
(***************************************************************************)
EXTENDS Holds, FiniteSetTheorems, TLAPS

(* One relay's block of units is finite and has as many units as reserved.  *)
LEMMA BlockSize ==
    ASSUME NEW r, NEW n \in Nat
    PROVE  IsFiniteSet({r} \X (1..n)) /\ Cardinality({r} \X (1..n)) = n
<1>1. IsFiniteSet({r}) /\ Cardinality({r}) = 1
  BY FS_Singleton
<1>2. IsFiniteSet(1..n) /\ Cardinality(1..n) = n
  BY FS_Interval
<1>3. /\ IsFiniteSet({r} \X (1..n))
      /\ Cardinality({r} \X (1..n)) = Cardinality({r}) * Cardinality(1..n)
  BY <1>1, <1>2, FS_Product
<1> QED
  BY <1>1, <1>2, <1>3

(* The blocks of a finite set of relays form a finite set of finite sets.   *)
LEMMA UnitsFinite ==
    ASSUME NEW R, IsFiniteSet(R), NEW f \in [R -> Nat]
    PROVE  IsFiniteSet(Units(f))
<1> DEFINE block == [r \in R |-> {r} \X (1..f[r])]
           blocks == {{r} \X (1..f[r]) : r \in R}
<1>1. block \in Surjection(R, blocks)
  BY DEF Surjection
<1>2. IsFiniteSet(blocks)
  BY <1>1, FS_Surjection
<1>3. ASSUME NEW b \in blocks PROVE IsFiniteSet(b)
  <2>1. PICK r \in R : b = {r} \X (1..f[r])
    BY <1>3
  <2>2. f[r] \in Nat
    OBVIOUS
  <2> QED
    BY <2>1, <2>2, BlockSize
<1>4. IsFiniteSet(UNION blocks)
  BY <1>2, <1>3, FS_UNION
<1>5. Units(f) = UNION blocks
  BY DEF Units
<1> QED
  BY <1>4, <1>5

(* A sum of reservations is a natural number.                               *)
LEMMA TotalType ==
    ASSUME NEW R, IsFiniteSet(R), NEW f \in [R -> Nat]
    PROVE  Total(f) \in Nat
BY UnitsFinite, FS_CardinalityType DEF Total

(* A sum splits into the reservation of one relay and that of the others.   *)
LEMMA TotalSplit ==
    ASSUME NEW R, IsFiniteSet(R), NEW f \in [R -> Nat], NEW r \in R,
           NEW others, others = UNION {{q} \X (1..f[q]) : q \in R \ {r}}
    PROVE  /\ IsFiniteSet(others) /\ Cardinality(others) \in Nat
           /\ Total(f) = Cardinality(others) + f[r]
<1> DEFINE mine == {r} \X (1..f[r])
<1>1. Units(f) = others \cup mine
  <2>1. DOMAIN f = R
    OBVIOUS
  <2>2. ASSUME NEW x \in Units(f) PROVE x \in others \cup mine
    <3>1. PICK q \in R : x \in {q} \X (1..f[q])
      BY <2>1, <2>2 DEF Units
    <3>2. CASE q = r
      BY <3>1, <3>2
    <3>3. CASE q # r
      BY <3>1, <3>3
    <3> QED
      BY <3>2, <3>3
  <2>3. ASSUME NEW x \in others \cup mine PROVE x \in Units(f)
    <3>1. CASE x \in mine
      BY <3>1, <2>1 DEF Units
    <3>2. CASE x \in others
      BY <3>2, <2>1 DEF Units
    <3> QED
      BY <2>3, <3>1, <3>2
  <2> QED
    BY <2>2, <2>3
<1>2. others \cap mine = {}
  <2>1. ASSUME NEW x \in others, x \in mine PROVE FALSE
    <3>1. PICK q \in R \ {r} : x \in {q} \X (1..f[q])
      BY <2>1
    <3>2. x[1] = q /\ x[1] = r
      BY <3>1, <2>1
    <3> QED
      BY <3>2
  <2> QED
    BY <2>1
<1>3. IsFiniteSet(others) /\ Cardinality(others) \in Nat
  <2>1. others \in SUBSET Units(f)
    BY <1>1
  <2> QED
    BY <2>1, UnitsFinite, FS_Subset, FS_CardinalityType
<1>4. f[r] \in Nat
  OBVIOUS
<1>5. IsFiniteSet(mine) /\ Cardinality(mine) = f[r]
  BY <1>4, BlockSize
<1>6. Cardinality(others \cup mine)
        = Cardinality(others) + Cardinality(mine) - Cardinality(others \cap mine)
  BY <1>3, <1>5, FS_Union
<1>7. Cardinality(others \cap mine) = 0
  BY <1>2, FS_EmptySet
<1> QED
  BY <1>1, <1>3, <1>4, <1>5, <1>6, <1>7 DEF Total

(* When one relay's reservation changes, the sum changes by the difference. *)
LEMMA TotalChange ==
    ASSUME NEW R, IsFiniteSet(R), NEW f \in [R -> Nat], NEW g \in [R -> Nat],
           NEW r \in R, \A q \in R \ {r} : g[q] = f[q]
    PROVE  /\ Total(f) \in Nat /\ Total(g) \in Nat
           /\ Total(g) = Total(f) - f[r] + g[r]
           /\ f[r] <= Total(f)
<1> DEFINE rest(h) == UNION {{q} \X (1..h[q]) : q \in R \ {r}}
<1>1. rest(g) = rest(f)
  OBVIOUS
<1>2. Cardinality(rest(f)) \in Nat /\ Total(f) = Cardinality(rest(f)) + f[r]
  BY TotalSplit
<1>3. Cardinality(rest(g)) \in Nat /\ Total(g) = Cardinality(rest(g)) + g[r]
  BY TotalSplit
<1>4. f[r] \in Nat /\ g[r] \in Nat
  OBVIOUS
<1> HIDE DEF rest
<1> QED
  BY <1>1, <1>2, <1>3, <1>4

(* Nothing reserved sums to zero.                                           *)
LEMMA TotalZero ==
    ASSUME NEW R, NEW f \in [R -> Nat], \A r \in R : f[r] = 0
    PROVE  Total(f) = 0
<1>1. Units(f) = {}
  <2>1. ASSUME NEW x \in Units(f) PROVE FALSE
    <3>1. PICK q \in R : x \in {q} \X (1..f[q])
      BY <2>1 DEF Units
    <3>2. 1..f[q] = {}
      OBVIOUS
    <3> QED
      BY <3>1, <3>2
  <2> QED
    BY <2>1
<1> QED
  BY <1>1, FS_EmptySet DEF Total

(* A part of a sum is again a family of natural numbers over the relays.    *)
LEMMA PartType ==
    ASSUME NEW R, NEW f \in [R -> Nat], NEW S
    PROVE  /\ Part(f, S) \in [R -> Nat]
           /\ \A r \in R : Part(f, S)[r] = IF r \in S THEN f[r] ELSE 0
BY DEF Part

(* Parts of a sum when only relay r changes its reservation or its side.    *)
LEMMA PartChange ==
    ASSUME NEW R, IsFiniteSet(R), NEW f \in [R -> Nat], NEW g \in [R -> Nat],
           NEW S, NEW T, NEW r \in R,
           \A q \in R \ {r} : g[q] = f[q] /\ (q \in T <=> q \in S)
    PROVE  /\ Total(Part(f, S)) \in Nat /\ Total(Part(g, T)) \in Nat
           /\ Total(Part(g, T)) = Total(Part(f, S))
                                    - (IF r \in S THEN f[r] ELSE 0)
                                    + (IF r \in T THEN g[r] ELSE 0)
           /\ (IF r \in S THEN f[r] ELSE 0) <= Total(Part(f, S))
<1>1. /\ Part(f, S) \in [R -> Nat]
      /\ \A q \in R : Part(f, S)[q] = IF q \in S THEN f[q] ELSE 0
  BY PartType
<1>2. /\ Part(g, T) \in [R -> Nat]
      /\ \A q \in R : Part(g, T)[q] = IF q \in T THEN g[q] ELSE 0
  BY PartType
<1>3. \A q \in R \ {r} : Part(g, T)[q] = Part(f, S)[q]
  BY <1>1, <1>2
<1>4. /\ Total(Part(f, S)) \in Nat /\ Total(Part(g, T)) \in Nat
      /\ Total(Part(g, T)) = Total(Part(f, S)) - Part(f, S)[r] + Part(g, T)[r]
      /\ Part(f, S)[r] <= Total(Part(f, S))
  BY <1>1, <1>2, <1>3, TotalChange
<1> QED
  BY <1>1, <1>2, <1>4

(* The part of nothing is nothing.                                          *)
LEMMA PartZero ==
    ASSUME NEW R, NEW f \in [R -> Nat], NEW S, \A r \in R : f[r] = 0
    PROVE  Total(Part(f, S)) = 0
BY PartType, TotalZero

(* A part of a finite family sums to a natural number.                      *)
LEMMA PartTotalType ==
    ASSUME NEW R, IsFiniteSet(R), NEW f \in [R -> Nat], NEW S
    PROVE  Total(Part(f, S)) \in Nat
BY PartType, TotalType

(* The sum over two disjoint sets is the sum of their sums.                 *)
LEMMA PartUnion ==
    ASSUME NEW R, IsFiniteSet(R), NEW f \in [R -> Nat], NEW S, NEW T,
           \A r \in R : ~(r \in S /\ r \in T)
    PROVE  Total(Part(f, S \cup T)) = Total(Part(f, S)) + Total(Part(f, T))
<1> DEFINE A == Units(Part(f, S))
           B == Units(Part(f, T))
<1>1. /\ Part(f, S) \in [R -> Nat] /\ Part(f, T) \in [R -> Nat]
      /\ Part(f, S \cup T) \in [R -> Nat]
      /\ \A r \in R : Part(f, S)[r] = IF r \in S THEN f[r] ELSE 0
      /\ \A r \in R : Part(f, T)[r] = IF r \in T THEN f[r] ELSE 0
      /\ \A r \in R : Part(f, S \cup T)[r] = IF r \in S \cup T THEN f[r] ELSE 0
  BY PartType
<1>2. IsFiniteSet(A) /\ IsFiniteSet(B)
  BY <1>1, UnitsFinite
<1>3. ASSUME NEW g \in [R -> Nat], NEW x
      PROVE  x \in Units(g) <=> \E r \in R : x \in {r} \X (1..g[r])
  BY DEF Units
<1>4. Units(Part(f, S \cup T)) = A \cup B
  <2>1. ASSUME NEW x PROVE x \in Units(Part(f, S \cup T)) <=> x \in A \cup B
    <3>1. ASSUME NEW r \in R
          PROVE  x \in {r} \X (1..Part(f, S \cup T)[r])
                    <=> \/ x \in {r} \X (1..Part(f, S)[r])
                        \/ x \in {r} \X (1..Part(f, T)[r])
      <4>1. {r} \X (1..0) = {}
        OBVIOUS
      <4>2. CASE r \in S
        BY <1>1, <4>1, <4>2
      <4>3. CASE r \in T
        BY <1>1, <4>1, <4>3
      <4>4. CASE r \notin S /\ r \notin T
        BY <1>1, <4>1, <4>4
      <4> QED
        BY <4>2, <4>3, <4>4
    <3> QED
      BY <1>1, <1>3, <3>1
  <2> QED
    BY <2>1
<1>5. A \cap B = {}
  <2>1. ASSUME NEW x, x \in A, x \in B PROVE FALSE
    <3>1. PICK r \in R : x \in {r} \X (1..Part(f, S)[r])
      BY <1>1, <1>3, <2>1
    <3>2. PICK q \in R : x \in {q} \X (1..Part(f, T)[q])
      BY <1>1, <1>3, <2>1
    <3>3. r = q
      BY <3>1, <3>2
    <3>4. r \in S /\ q \in T
      BY <1>1, <3>1, <3>2
    <3> QED
      BY <3>3, <3>4
  <2> QED
    BY <2>1
<1>6. /\ Cardinality(A \cup B) = Cardinality(A) + Cardinality(B) - Cardinality(A \cap B)
      /\ Cardinality(A) \in Nat /\ Cardinality(B) \in Nat
  BY <1>2, FS_Union, FS_CardinalityType
<1>7. Cardinality(A \cap B) = 0
  BY <1>5, FS_EmptySet
<1> HIDE DEF A, B
<1>8. Cardinality(A \cup B) = Cardinality(A) + Cardinality(B)
  BY <1>6, <1>7
<1> QED
  BY <1>4, <1>8 DEF Total, A, B

(* The sum over fewer is no more.                                           *)
LEMMA PartSubset ==
    ASSUME NEW R, IsFiniteSet(R), NEW f \in [R -> Nat], NEW S, NEW T \in SUBSET S
    PROVE  /\ Total(Part(f, T)) \in Nat /\ Total(Part(f, S)) \in Nat
           /\ Total(Part(f, T)) <= Total(Part(f, S))
<1>1. \A r \in R : ~(r \in T /\ r \in S \ T)
  OBVIOUS
<1>2. Total(Part(f, T \cup (S \ T))) = Total(Part(f, T)) + Total(Part(f, S \ T))
  BY <1>1, PartUnion
<1>3. T \cup (S \ T) = S
  OBVIOUS
<1>4. /\ Total(Part(f, T)) \in Nat /\ Total(Part(f, S)) \in Nat
      /\ Total(Part(f, S \ T)) \in Nat
  BY PartTotalType
<1>5. Total(Part(f, S)) = Total(Part(f, T)) + Total(Part(f, S \ T))
  BY <1>2, <1>3
<1> QED
  BY <1>4, <1>5
=============================================================================
