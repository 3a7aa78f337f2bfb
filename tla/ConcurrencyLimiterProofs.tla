---------------------- MODULE ConcurrencyLimiterProofs ----------------------
(***************************************************************************)
(* Proofs about ConcurrencyLimiter, for any number of calls, users, keys   *)
(* and any limits: the counters are exact, limits are kept in the sense of *)
(* WithinAdmittedLimit, and no wake-up is lost.                            *)
(***************************************************************************)
EXTENDS ConcurrencyLimiter, FiniteSetTheorems, TLAPS

(* Among the calls that hold a slot (or a place in the queue), at most L    *)
(* came in under a limit of L or less.  This is what WithinAdmittedLimit    *)
(* needs to survive a release: whichever call leaves, the largest limit of  *)
(* those that stay still covers them.                                       *)
Under(S, limit, L) == {p \in S : limit[p] # 0 /\ limit[p] <= L}
Ranked(S, limit) == \A L \in Nat : Cardinality(Under(S, limit, L)) <= L
Waiting == {p \in Procs : queued[p]}
AllRanked ==
    /\ \A u \in Users : Ranked(Holding(u), userLimit)
    /\ \A k \in Keys : Ranked(HoldingKey(k), keyLimit)
    /\ Ranked(Waiting, maxWaiters)
    /\ \A p \in Procs : queued[p] => maxWaiters[p] # 0

LimiterInv == TypeOK /\ CountsExact /\ AllRanked

-----------------------------------------------------------------------------
(* A subset of the goroutines is finite and counted by a natural number.    *)
LEMMA Finite ==
    ASSUME NEW S, S \subseteq Procs
    PROVE  IsFiniteSet(S) /\ Cardinality(S) \in Nat
BY FS_Subset, FS_CardinalityType, LimiterAssumption

(* One joins, one leaves.                                                   *)
LEMMA Joins ==
    ASSUME NEW S, S \subseteq Procs, NEW p \in Procs, p \notin S
    PROVE  Cardinality(S \cup {p}) = Cardinality(S) + 1
BY Finite, FS_AddElement

LEMMA Leaves ==
    ASSUME NEW S, S \subseteq Procs, NEW p \in S
    PROVE  Cardinality(S) >= 1 /\ Cardinality(S \ {p}) = Cardinality(S) - 1
<1>1. IsFiniteSet(S) /\ Cardinality(S) \in Nat
  BY Finite
<1>2. Cardinality(S \ {p}) = Cardinality(S) - 1
  BY <1>1, FS_RemoveElement
<1>3. Cardinality(S \ {p}) \in Nat
  BY Finite
<1> QED
  BY <1>1, <1>2, <1>3

(* A ranked set stays ranked when calls leave it.                           *)
LEMMA RankedFewer ==
    ASSUME NEW S, S \subseteq Procs, NEW T, T \subseteq S,
           NEW f \in [Procs -> Nat], NEW g \in [Procs -> Nat],
           \A q \in T : g[q] = f[q], Ranked(S, f)
    PROVE  Ranked(T, g)
<1> SUFFICES ASSUME NEW L \in Nat PROVE Cardinality(Under(T, g, L)) <= L
  BY DEF Ranked
<1>1. Under(T, g, L) \subseteq Under(S, f, L) /\ Under(S, f, L) \subseteq Procs
  BY DEF Under
<1>2. Cardinality(Under(T, g, L)) <= Cardinality(Under(S, f, L))
  BY <1>1, Finite, FS_Subset
<1>3. Cardinality(Under(S, f, L)) <= L
  BY DEF Ranked
<1>4. Cardinality(Under(T, g, L)) \in Nat /\ Cardinality(Under(S, f, L)) \in Nat
  BY <1>1, Finite
<1> QED
  BY <1>2, <1>3, <1>4

(* It stays ranked when a call joins that finds fewer than its limit there. *)
LEMMA RankedOneMore ==
    ASSUME NEW S, S \subseteq Procs, NEW p \in Procs, p \notin S,
           NEW f \in [Procs -> Nat], Ranked(S, f),
           f[p] = 0 \/ Cardinality(S) < f[p]
    PROVE  Ranked(S \cup {p}, f)
<1> SUFFICES ASSUME NEW L \in Nat PROVE Cardinality(Under(S \cup {p}, f, L)) <= L
  BY DEF Ranked
<1>1. CASE f[p] = 0 \/ f[p] > L
  <2>1. Under(S \cup {p}, f, L) = Under(S, f, L)
    BY <1>1 DEF Under
  <2> QED
    BY <2>1 DEF Ranked
<1>2. CASE f[p] # 0 /\ f[p] <= L
  <2>1. Under(S \cup {p}, f, L) \subseteq S \cup {p}
    BY DEF Under
  <2>2. Cardinality(Under(S \cup {p}, f, L)) <= Cardinality(S \cup {p})
    BY <2>1, Finite, FS_Subset
  <2>3. Cardinality(S \cup {p}) = Cardinality(S) + 1
    BY Joins
  <2>4. Cardinality(S) \in Nat /\ Cardinality(Under(S \cup {p}, f, L)) \in Nat
    BY Finite, <2>1
  <2> QED
    BY <1>2, <2>2, <2>3, <2>4
<1> QED
  BY <1>1, <1>2

(* The largest limit of a ranked set covers the set.                        *)
LEMMA RankedCovers ==
    ASSUME NEW S, S \subseteq Procs, NEW f \in [Procs -> Nat], Ranked(S, f), S # {}
    PROVE  \E p \in S : f[p] = 0 \/ Cardinality(S) <= f[p]
<1>1. SUFFICES ASSUME \A p \in S : f[p] # 0 /\ Cardinality(S) > f[p] PROVE FALSE
  BY Finite
<1>2. PICK p \in S : TRUE
  OBVIOUS
<1>3. Cardinality(S) \in Nat /\ Cardinality(S) >= 1
  BY Leaves, Finite, <1>2
<1>4. Under(S, f, Cardinality(S) - 1) = S
  BY <1>1, <1>3 DEF Under
<1>5. Cardinality(S) <= Cardinality(S) - 1
  BY <1>3, <1>4 DEF Ranked
<1> QED
  BY <1>3, <1>5

-----------------------------------------------------------------------------
(* The invariant holds at the start.                                        *)
LEMMA InitInv == Init => LimiterInv
<1> SUFFICES ASSUME Init PROVE LimiterInv
  OBVIOUS
<1>1. TypeOK
  BY LimiterAssumption DEF Init, TypeOK, Stages
<1>2. /\ \A u \in Users : Holding(u) = {}
      /\ \A k \in Keys : HoldingKey(k) = {}
      /\ {p \in Procs : queued[p]} = {}
  BY DEF Init, Holding, HoldingKey, Holders
<1>3. CountsExact
  BY <1>2, FS_EmptySet DEF Init, CountsExact
<1>4. \A f : Ranked({}, f)
  <2> SUFFICES ASSUME NEW f, NEW L \in Nat PROVE Cardinality(Under({}, f, L)) <= L
    BY DEF Ranked
  <2>1. Under({}, f, L) = {}
    BY DEF Under
  <2> QED
    BY <2>1, FS_EmptySet
<1>5. AllRanked
  BY <1>2, <1>4 DEF AllRanked, Waiting, Init
<1> QED
  BY <1>1, <1>3, <1>5 DEF LimiterInv

(* Types are kept: counters never go below zero.                            *)
LEMMA TypeStep == TypeOK /\ [Next]_vars => TypeOK'
<1> SUFFICES ASSUME TypeOK, [Next]_vars PROVE TypeOK'
  OBVIOUS
<1> USE LimiterAssumption DEF TypeOK, Stages, Goto, shared, locals
<1>1. ASSUME NEW p \in Procs, Arrive(p) PROVE TypeOK'
  <2>1. PICK k \in Keys, depth \in QueueDepths :
           \E ul \in UserLimits[Owner[k]], kl \in KeyLimits[k] : Enter(p, k, ul, kl, depth)
    BY <1>1 DEF Arrive
  <2>2. PICK ul \in UserLimits[Owner[k]], kl \in KeyLimits[k] : Enter(p, k, ul, kl, depth)
    BY <2>1
  <2>3. ul \in Nat /\ kl \in Nat /\ depth \in Nat
    OBVIOUS
  <2> QED
    BY <2>2, <2>3 DEF Enter
<1>2. ASSUME NEW p \in Procs, Admit(p) PROVE TypeOK'
  <2>1. key[p] \in Keys /\ User(p) \in Users
    BY <1>2 DEF Admit, User
  <2>2. users' \in [Users -> Nat] /\ keys' \in [Keys -> Nat] /\ waiters' \in Nat
    BY <1>2, <2>1 DEF Admit
  <2> QED
    BY <1>2, <2>2 DEF Admit
<1>3. ASSUME NEW p \in Procs, Refuse(p) PROVE TypeOK'
  BY <1>3 DEF Refuse
<1>4. ASSUME NEW p \in Procs, Park(p) PROVE TypeOK'
  BY <1>4 DEF Park
<1>5. ASSUME NEW p \in Procs, Retry(p) PROVE TypeOK'
  BY <1>5 DEF Retry
<1>6. ASSUME NEW p \in Procs, StopWaiting(p) PROVE TypeOK'
  BY <1>6 DEF StopWaiting
<1>7. ASSUME NEW p \in Procs, Dequeue(p) PROVE TypeOK'
  BY <1>7 DEF Dequeue, Forget
<1>8. ASSUME NEW p \in Procs, Release(p) PROVE TypeOK'
  <2>1. \A n \in Nat : Decremented(n) \in Nat
    BY DEF Decremented
  <2> QED
    BY <1>8, <2>1 DEF Release
<1>9. ASSUME NEW p \in Procs, Signal(p) PROVE TypeOK'
  <2>1. woken' \in [Procs -> BOOLEAN]
    BY <1>9 DEF Signal
  <2> QED
    BY <1>9, <2>1 DEF Signal, Forget
<1>10. CASE UNCHANGED vars
  BY <1>10 DEF vars
<1> QED
  BY <1>1, <1>2, <1>3, <1>4, <1>5, <1>6, <1>7, <1>8, <1>9, <1>10 DEF Next, Step

-----------------------------------------------------------------------------
(* The slots: what the invariant says of those who hold them.               *)
SlotsExact ==
    /\ \A u \in Users : users[u] = Cardinality(Holding(u)) /\ Ranked(Holding(u), userLimit)
    /\ \A k \in Keys : keys[k] = Cardinality(HoldingKey(k)) /\ Ranked(HoldingKey(k), keyLimit)

(* The queue.                                                               *)
QueueExact ==
    /\ waiters = Cardinality(Waiting) /\ Ranked(Waiting, maxWaiters)
    /\ \A p \in Procs : queued[p] => /\ pc[p] \in {"trying", "parked", "leaving"}
                                     /\ maxWaiters[p] # 0

LEMMA InvParts == LimiterInv <=> TypeOK /\ SlotsExact /\ QueueExact
BY DEF LimiterInv, CountsExact, AllRanked, SlotsExact, QueueExact, Waiting

(* Holders are goroutines.                                                  *)
LEMMA HoldersAreProcs ==
    /\ \A u : Holding(u) \subseteq Procs
    /\ \A k : HoldingKey(k) \subseteq Procs
    /\ Waiting \subseteq Procs
BY DEF Holding, HoldingKey, Holders, Waiting

(* A step that leaves the counters and the holders alone keeps the slots.   *)
LEMMA SlotsKept ==
    ASSUME TypeOK, TypeOK', SlotsExact, UNCHANGED <<users, keys>>,
           \A q \in Procs : (pc'[q] = "holding") <=> (pc[q] = "holding"),
           \A q \in Procs : pc[q] = "holding" =>
               key'[q] = key[q] /\ userLimit'[q] = userLimit[q] /\ keyLimit'[q] = keyLimit[q]
    PROVE  SlotsExact'
<1>1. \A u \in Users : Holding(u)' = Holding(u)
  BY DEF Holding, Holders, User
<1>2. \A k \in Keys : HoldingKey(k)' = HoldingKey(k)
  BY DEF HoldingKey, Holders
<1>3. ASSUME NEW u \in Users PROVE Ranked(Holding(u), userLimit')
  <2>1. Holding(u) \subseteq Procs /\ \A q \in Holding(u) : userLimit'[q] = userLimit[q]
    BY DEF Holding, Holders
  <2>2. userLimit \in [Procs -> Nat] /\ userLimit' \in [Procs -> Nat]
    BY DEF TypeOK
  <2>3. Ranked(Holding(u), userLimit)
    BY DEF SlotsExact
  <2> QED
    BY <2>1, <2>2, <2>3, RankedFewer
<1>4. ASSUME NEW k \in Keys PROVE Ranked(HoldingKey(k), keyLimit')
  <2>1. HoldingKey(k) \subseteq Procs /\ \A q \in HoldingKey(k) : keyLimit'[q] = keyLimit[q]
    BY DEF HoldingKey, Holders
  <2>2. keyLimit \in [Procs -> Nat] /\ keyLimit' \in [Procs -> Nat]
    BY DEF TypeOK
  <2>3. Ranked(HoldingKey(k), keyLimit)
    BY DEF SlotsExact
  <2> QED
    BY <2>1, <2>2, <2>3, RankedFewer
<1>5. \A u \in Users : Ranked(Holding(u)', userLimit')
  BY <1>1, <1>3
<1>6. \A k \in Keys : Ranked(HoldingKey(k)', keyLimit')
  BY <1>2, <1>4
<1> QED
  BY <1>1, <1>2, <1>5, <1>6 DEF SlotsExact, Ranked

(* The same for the queue.                                                  *)
LEMMA QueueKept ==
    ASSUME TypeOK, TypeOK', QueueExact, UNCHANGED <<waiters, queued>>,
           \A q \in Procs : queued[q] =>
               maxWaiters'[q] = maxWaiters[q] /\ pc'[q] \in {"trying", "parked", "leaving"}
    PROVE  QueueExact'
<1>1. Waiting' = Waiting
  BY DEF Waiting
<1>2. Ranked(Waiting, maxWaiters')
  <2>1. Waiting \subseteq Procs /\ \A q \in Waiting : maxWaiters'[q] = maxWaiters[q]
    BY DEF Waiting
  <2>2. maxWaiters \in [Procs -> Nat] /\ maxWaiters' \in [Procs -> Nat]
    BY DEF TypeOK
  <2> QED
    BY <2>1, <2>2, RankedFewer DEF QueueExact
<1>3. Ranked(Waiting', maxWaiters')
  BY <1>1, <1>2
<1> QED
  BY <1>1, <1>3 DEF QueueExact, Ranked

-----------------------------------------------------------------------------
(* A call leaves the queue, or was not in it.                               *)
LEMMA LeavesQueue ==
    ASSUME TypeOK, TypeOK', QueueExact, NEW p \in Procs,
           queued' = [queued EXCEPT ![p] = FALSE],
           waiters' = (IF queued[p] /\ waiters > 0 THEN waiters - 1 ELSE waiters),
           \A q \in Procs \ {p} : maxWaiters'[q] = maxWaiters[q] /\ pc'[q] = pc[q]
    PROVE  QueueExact'
<1>1. Waiting' = Waiting \ {p}
  BY DEF Waiting, TypeOK
<1>2. waiters' = Cardinality(Waiting')
  <2>1. CASE queued[p]
    <3>1. p \in Waiting
      BY <2>1 DEF Waiting
    <3>2. Cardinality(Waiting) >= 1 /\ Cardinality(Waiting \ {p}) = Cardinality(Waiting) - 1
      BY <3>1, HoldersAreProcs, Leaves
    <3> QED
      BY <1>1, <2>1, <3>2, HoldersAreProcs, Finite DEF QueueExact
  <2>2. CASE ~queued[p]
    <3>1. Waiting \ {p} = Waiting
      BY <2>2 DEF Waiting
    <3> QED
      BY <1>1, <2>2, <3>1 DEF QueueExact
  <2> QED
    BY <2>1, <2>2
<1>3. Ranked(Waiting \ {p}, maxWaiters')
  <2>1. /\ Waiting \ {p} \subseteq Waiting /\ Waiting \subseteq Procs
        /\ \A q \in Waiting \ {p} : maxWaiters'[q] = maxWaiters[q]
    BY HoldersAreProcs
  <2>2. maxWaiters \in [Procs -> Nat] /\ maxWaiters' \in [Procs -> Nat]
    BY DEF TypeOK
  <2>3. Ranked(Waiting, maxWaiters)
    BY DEF QueueExact
  <2> QED
    BY <2>1, <2>2, <2>3, RankedFewer
<1>4. Ranked(Waiting', maxWaiters')
  BY <1>1, <1>3
<1>5. \A q \in Procs : queued'[q] => q # p /\ queued[q]
  BY DEF TypeOK
<1> QED
  BY <1>2, <1>4, <1>5 DEF QueueExact, Ranked

(* An admission: the call joins the holders of its user and of its key,     *)
(* both of which had room under its limits, and leaves the queue.           *)
LEMMA AdmitStep ==
    ASSUME TypeOK, TypeOK', SlotsExact, QueueExact, NEW p \in Procs, Admit(p)
    PROVE  SlotsExact' /\ QueueExact'
<1>1. /\ key[p] \in Keys /\ User(p) \in Users /\ pc[p] = "trying"
      /\ userLimit[p] = 0 \/ users[User(p)] < userLimit[p]
      /\ keyLimit[p] = 0 \/ keys[key[p]] < keyLimit[p]
  BY LimiterAssumption DEF Admit, TypeOK, User, Available
<1>2. /\ pc' = [pc EXCEPT ![p] = "holding"]
      /\ UNCHANGED locals
      /\ users' = [users EXCEPT ![User(p)] = @ + 1]
      /\ keys' = [keys EXCEPT ![key[p]] = @ + 1]
  BY DEF Admit, Goto
<1>3. ASSUME NEW u \in Users
      PROVE  Holding(u)' = IF u = User(p) THEN Holding(u) \cup {p} ELSE Holding(u)
  BY <1>1, <1>2 DEF Holding, Holders, User, TypeOK, locals
<1>4. ASSUME NEW k \in Keys
      PROVE  HoldingKey(k)' = IF k = key[p] THEN HoldingKey(k) \cup {p} ELSE HoldingKey(k)
  BY <1>1, <1>2 DEF HoldingKey, Holders, TypeOK, locals
<1>5. \A u \in Users, k \in Keys : p \notin Holding(u) /\ p \notin HoldingKey(k)
  BY <1>1 DEF Holding, HoldingKey, Holders
<1>6. ASSUME NEW u \in Users
      PROVE  users'[u] = Cardinality(Holding(u)') /\ Ranked(Holding(u)', userLimit')
  <2>1. users[u] = Cardinality(Holding(u)) /\ Ranked(Holding(u), userLimit)
    BY DEF SlotsExact
  <2>2. userLimit' = userLimit /\ userLimit \in [Procs -> Nat]
    BY <1>2 DEF locals, TypeOK
  <2>3. CASE u = User(p)
    <3>1. Holding(u)' = Holding(u) \cup {p}
      BY <1>3, <2>3
    <3>2. Cardinality(Holding(u) \cup {p}) = Cardinality(Holding(u)) + 1
      BY <1>1, <1>5, HoldersAreProcs, Joins
    <3>3. Ranked(Holding(u) \cup {p}, userLimit)
      BY <1>1, <1>5, <2>1, <2>2, <2>3, HoldersAreProcs, RankedOneMore
    <3>4. users'[u] = users[u] + 1
      BY <1>1, <1>2, <2>3 DEF TypeOK
    <3> QED
      BY <2>1, <2>2, <3>1, <3>2, <3>3, <3>4
  <2>4. CASE u # User(p)
    <3>1. Holding(u)' = Holding(u) /\ users'[u] = users[u]
      BY <1>1, <1>2, <1>3, <2>4 DEF TypeOK
    <3> QED
      BY <2>1, <2>2, <3>1
  <2> QED
    BY <2>3, <2>4
<1>7. ASSUME NEW k \in Keys
      PROVE  keys'[k] = Cardinality(HoldingKey(k)') /\ Ranked(HoldingKey(k)', keyLimit')
  <2>1. keys[k] = Cardinality(HoldingKey(k)) /\ Ranked(HoldingKey(k), keyLimit)
    BY DEF SlotsExact
  <2>2. keyLimit' = keyLimit /\ keyLimit \in [Procs -> Nat]
    BY <1>2 DEF locals, TypeOK
  <2>3. CASE k = key[p]
    <3>1. HoldingKey(k)' = HoldingKey(k) \cup {p}
      BY <1>4, <2>3
    <3>2. Cardinality(HoldingKey(k) \cup {p}) = Cardinality(HoldingKey(k)) + 1
      BY <1>1, <1>5, HoldersAreProcs, Joins
    <3>3. Ranked(HoldingKey(k) \cup {p}, keyLimit)
      BY <1>1, <1>5, <2>1, <2>2, <2>3, HoldersAreProcs, RankedOneMore
    <3>4. keys'[k] = keys[k] + 1
      BY <1>1, <1>2, <2>3 DEF TypeOK
    <3> QED
      BY <2>1, <2>2, <3>1, <3>2, <3>3, <3>4
  <2>4. CASE k # key[p]
    <3>1. HoldingKey(k)' = HoldingKey(k) /\ keys'[k] = keys[k]
      BY <1>1, <1>2, <1>4, <2>4 DEF TypeOK
    <3> QED
      BY <2>1, <2>2, <3>1
  <2> QED
    BY <2>3, <2>4
<1>8. SlotsExact'
  BY <1>6, <1>7 DEF SlotsExact, Ranked
<1>9. /\ queued' = [queued EXCEPT ![p] = FALSE]
      /\ waiters' = IF queued[p] /\ waiters > 0 THEN waiters - 1 ELSE waiters
  BY DEF Admit
<1>10. \A q \in Procs \ {p} : maxWaiters'[q] = maxWaiters[q] /\ pc'[q] = pc[q]
  BY <1>2 DEF locals, TypeOK
<1>11. QueueExact'
  BY <1>9, <1>10, LeavesQueue
<1> QED
  BY <1>8, <1>11

(* A release: the call leaves the holders of its user and of its key, and   *)
(* each counter, which is at least one, is decremented.                     *)
LEMMA ReleaseStep ==
    ASSUME TypeOK, TypeOK', SlotsExact, NEW p \in Procs, Release(p)
    PROVE  SlotsExact'
<1>1. key[p] \in Keys /\ User(p) \in Users /\ pc[p] = "holding"
  BY LimiterAssumption DEF Release, TypeOK, User
<1>2. /\ pc' = [pc EXCEPT ![p] = "signalling"]
      /\ UNCHANGED locals
      /\ users' = [users EXCEPT ![User(p)] = Decremented(@)]
      /\ keys' = [keys EXCEPT ![key[p]] = Decremented(@)]
  BY DEF Release, Goto
<1>3. \A n \in Nat : n >= 1 => Decremented(n) = n - 1
  BY DEF Decremented
<1>4. ASSUME NEW u \in Users
      PROVE  Holding(u)' = IF u = User(p) THEN Holding(u) \ {p} ELSE Holding(u)
  BY <1>1, <1>2 DEF Holding, Holders, User, TypeOK, locals
<1>5. ASSUME NEW k \in Keys
      PROVE  HoldingKey(k)' = IF k = key[p] THEN HoldingKey(k) \ {p} ELSE HoldingKey(k)
  BY <1>1, <1>2 DEF HoldingKey, Holders, TypeOK, locals
<1>6. p \in Holding(User(p)) /\ p \in HoldingKey(key[p])
  BY <1>1 DEF Holding, HoldingKey, Holders
<1>7. ASSUME NEW u \in Users
      PROVE  users'[u] = Cardinality(Holding(u)') /\ Ranked(Holding(u)', userLimit')
  <2>1. users[u] = Cardinality(Holding(u)) /\ Ranked(Holding(u), userLimit) /\ users[u] \in Nat
    BY DEF SlotsExact, TypeOK
  <2>2. userLimit' = userLimit /\ userLimit \in [Procs -> Nat]
    BY <1>2 DEF locals, TypeOK
  <2>3. CASE u = User(p)
    <3>1. Holding(u)' = Holding(u) \ {p} /\ Holding(u) \subseteq Procs
      BY <1>4, <2>3, HoldersAreProcs
    <3>2. Cardinality(Holding(u)) >= 1 /\ Cardinality(Holding(u) \ {p}) = Cardinality(Holding(u)) - 1
      BY <1>6, <2>3, <3>1, Leaves
    <3>3. users'[u] = users[u] - 1
      BY <1>1, <1>2, <1>3, <2>1, <2>3, <3>2 DEF TypeOK
    <3>4. Ranked(Holding(u) \ {p}, userLimit)
      BY <2>1, <2>2, <3>1, RankedFewer
    <3> QED
      BY <2>1, <2>2, <3>1, <3>2, <3>3, <3>4
  <2>4. CASE u # User(p)
    <3>1. Holding(u)' = Holding(u) /\ users'[u] = users[u]
      BY <1>1, <1>2, <1>4, <2>4 DEF TypeOK
    <3> QED
      BY <2>1, <2>2, <3>1
  <2> QED
    BY <2>3, <2>4
<1>8. ASSUME NEW k \in Keys
      PROVE  keys'[k] = Cardinality(HoldingKey(k)') /\ Ranked(HoldingKey(k)', keyLimit')
  <2>1. keys[k] = Cardinality(HoldingKey(k)) /\ Ranked(HoldingKey(k), keyLimit) /\ keys[k] \in Nat
    BY DEF SlotsExact, TypeOK
  <2>2. keyLimit' = keyLimit /\ keyLimit \in [Procs -> Nat]
    BY <1>2 DEF locals, TypeOK
  <2>3. CASE k = key[p]
    <3>1. HoldingKey(k)' = HoldingKey(k) \ {p} /\ HoldingKey(k) \subseteq Procs
      BY <1>5, <2>3, HoldersAreProcs
    <3>2. /\ Cardinality(HoldingKey(k)) >= 1
          /\ Cardinality(HoldingKey(k) \ {p}) = Cardinality(HoldingKey(k)) - 1
      BY <1>6, <2>3, <3>1, Leaves
    <3>3. keys'[k] = keys[k] - 1
      BY <1>1, <1>2, <1>3, <2>1, <2>3, <3>2 DEF TypeOK
    <3>4. Ranked(HoldingKey(k) \ {p}, keyLimit)
      BY <2>1, <2>2, <3>1, RankedFewer
    <3> QED
      BY <2>1, <2>2, <3>1, <3>2, <3>3, <3>4
  <2>4. CASE k # key[p]
    <3>1. HoldingKey(k)' = HoldingKey(k) /\ keys'[k] = keys[k]
      BY <1>1, <1>2, <1>5, <2>4 DEF TypeOK
    <3> QED
      BY <2>1, <2>2, <3>1
  <2> QED
    BY <2>3, <2>4
<1> QED
  BY <1>7, <1>8 DEF SlotsExact, Ranked

(* A call that finds no slot joins the queue, once, if there is room.       *)
LEMMA ParkStep ==
    ASSUME TypeOK, TypeOK', QueueExact, NEW p \in Procs, Park(p)
    PROVE  QueueExact'
<1>1. /\ pc[p] = "trying" /\ pc' = [pc EXCEPT ![p] = "parked"]
      /\ queued[p] \/ waiters < maxWaiters[p]
      /\ waiters' = IF queued[p] THEN waiters ELSE waiters + 1
      /\ queued' = [queued EXCEPT ![p] = TRUE]
      /\ maxWaiters' = maxWaiters
  BY DEF Park, Goto, locals
<1>2. Waiting' = Waiting \cup {p}
  BY <1>1 DEF Waiting, TypeOK
<1>3. /\ waiters = Cardinality(Waiting) /\ Ranked(Waiting, maxWaiters) /\ Waiting \subseteq Procs
      /\ maxWaiters \in [Procs -> Nat] /\ waiters \in Nat
  BY HoldersAreProcs DEF QueueExact, TypeOK
<1>4. waiters' = Cardinality(Waiting') /\ Ranked(Waiting', maxWaiters') /\ maxWaiters[p] # 0
  <2>1. CASE queued[p]
    <3>1. Waiting \cup {p} = Waiting /\ maxWaiters[p] # 0
      BY <2>1 DEF Waiting, QueueExact
    <3> QED
      BY <1>1, <1>2, <1>3, <2>1, <3>1
  <2>2. CASE ~queued[p]
    <3>1. p \notin Waiting /\ maxWaiters[p] # 0
      BY <1>1, <1>3, <2>2 DEF Waiting
    <3>2. Cardinality(Waiting \cup {p}) = Cardinality(Waiting) + 1
      BY <1>3, <3>1, Joins
    <3>3. Ranked(Waiting \cup {p}, maxWaiters)
      BY <1>1, <1>3, <2>2, <3>1, RankedOneMore
    <3> QED
      BY <1>1, <1>2, <1>3, <2>2, <3>1, <3>2, <3>3
  <2> QED
    BY <2>1, <2>2
<1>5. \A q \in Procs : queued'[q] => /\ pc'[q] \in {"trying", "parked", "leaving"}
                                     /\ maxWaiters'[q] # 0
  BY <1>1, <1>4 DEF QueueExact, TypeOK
<1> QED
  BY <1>4, <1>5 DEF QueueExact, Ranked

(* Every step keeps the invariant.                                          *)
LEMMA NextInv == LimiterInv /\ [Next]_vars => LimiterInv'
<1> SUFFICES ASSUME LimiterInv, [Next]_vars PROVE LimiterInv'
  OBVIOUS
<1>1. TypeOK /\ TypeOK' /\ SlotsExact /\ QueueExact
  BY InvParts, TypeStep
<1> SUFFICES SlotsExact' /\ QueueExact'
  BY <1>1 DEF LimiterInv, CountsExact, AllRanked, SlotsExact, QueueExact, Waiting
<1>2. ASSUME NEW p \in Procs, Arrive(p) PROVE SlotsExact' /\ QueueExact'
  <2>1. PICK k \in Keys, depth \in QueueDepths :
           \E ul \in UserLimits[Owner[k]], kl \in KeyLimits[k] : Enter(p, k, ul, kl, depth)
    BY <1>2 DEF Arrive
  <2>2. PICK ul \in UserLimits[Owner[k]], kl \in KeyLimits[k] : Enter(p, k, ul, kl, depth)
    BY <2>1
  <2>3. /\ pc[p] = "idle" /\ pc' = [pc EXCEPT ![p] = "trying"]
        /\ UNCHANGED <<users, keys, waiters, queued>>
        /\ \A q \in Procs \ {p} : /\ key'[q] = key[q] /\ userLimit'[q] = userLimit[q]
                                 /\ keyLimit'[q] = keyLimit[q] /\ maxWaiters'[q] = maxWaiters[q]
    BY <1>1, <2>2 DEF Enter, Goto, shared, TypeOK
  <2> QED
    BY <1>1, <2>3, SlotsKept, QueueKept DEF TypeOK, QueueExact
<1>3. ASSUME NEW p \in Procs, Admit(p) PROVE SlotsExact' /\ QueueExact'
  BY <1>1, <1>3, AdmitStep
<1>4. ASSUME NEW p \in Procs, Refuse(p) PROVE SlotsExact' /\ QueueExact'
  <2>1. /\ pc[p] = "trying" /\ pc' = [pc EXCEPT ![p] = "leaving"]
        /\ UNCHANGED <<users, keys, waiters, queued, key, userLimit, keyLimit, maxWaiters>>
    BY <1>4 DEF Refuse, Goto, shared, locals
  <2> QED
    BY <1>1, <2>1, SlotsKept, QueueKept DEF TypeOK, QueueExact
<1>5. ASSUME NEW p \in Procs, Park(p) PROVE SlotsExact' /\ QueueExact'
  <2>1. /\ pc[p] = "trying" /\ pc' = [pc EXCEPT ![p] = "parked"]
        /\ UNCHANGED <<users, keys, key, userLimit, keyLimit>>
    BY <1>5 DEF Park, Goto, locals
  <2>2. SlotsExact'
    BY <1>1, <2>1, SlotsKept DEF TypeOK
  <2> QED
    BY <1>1, <1>5, <2>2, ParkStep
<1>6. ASSUME NEW p \in Procs, Retry(p) PROVE SlotsExact' /\ QueueExact'
  <2>1. /\ pc[p] = "parked" /\ pc' = [pc EXCEPT ![p] = "trying"]
        /\ UNCHANGED <<users, keys, waiters, queued, key, userLimit, keyLimit, maxWaiters>>
    BY <1>6 DEF Retry, Goto, shared, locals
  <2> QED
    BY <1>1, <2>1, SlotsKept, QueueKept DEF TypeOK, QueueExact
<1>7. ASSUME NEW p \in Procs, StopWaiting(p) PROVE SlotsExact' /\ QueueExact'
  <2>1. /\ pc[p] = "parked" /\ pc' = [pc EXCEPT ![p] = "leaving"]
        /\ UNCHANGED <<users, keys, waiters, queued, key, userLimit, keyLimit, maxWaiters>>
    BY <1>7 DEF StopWaiting, Goto, shared, locals
  <2> QED
    BY <1>1, <2>1, SlotsKept, QueueKept DEF TypeOK, QueueExact
<1>8. ASSUME NEW p \in Procs, Dequeue(p) PROVE SlotsExact' /\ QueueExact'
  <2>1. /\ pc[p] = "leaving" /\ pc' = [pc EXCEPT ![p] = "idle"]
        /\ UNCHANGED <<users, keys>>
        /\ waiters' = IF queued[p] /\ waiters > 0 THEN waiters - 1 ELSE waiters
        /\ queued' = [queued EXCEPT ![p] = FALSE]
        /\ \A q \in Procs \ {p} : /\ key'[q] = key[q] /\ userLimit'[q] = userLimit[q]
                                 /\ keyLimit'[q] = keyLimit[q] /\ maxWaiters'[q] = maxWaiters[q]
    BY <1>1, <1>8 DEF Dequeue, Forget, Goto, TypeOK
  <2>2. SlotsExact'
    BY <1>1, <2>1, SlotsKept DEF TypeOK
  <2>3. \A q \in Procs \ {p} : maxWaiters'[q] = maxWaiters[q] /\ pc'[q] = pc[q]
    BY <1>1, <2>1 DEF TypeOK
  <2>4. QueueExact'
    BY <1>1, <2>1, <2>3, LeavesQueue
  <2> QED
    BY <2>2, <2>4
<1>9. ASSUME NEW p \in Procs, Release(p) PROVE SlotsExact' /\ QueueExact'
  <2>1. /\ pc[p] = "holding" /\ pc' = [pc EXCEPT ![p] = "signalling"]
        /\ UNCHANGED <<waiters, queued, maxWaiters>>
    BY <1>9 DEF Release, Goto, locals
  <2>2. QueueExact'
    BY <1>1, <2>1, QueueKept DEF TypeOK, QueueExact
  <2> QED
    BY <1>1, <1>9, <2>2, ReleaseStep
<1>10. ASSUME NEW p \in Procs, Signal(p) PROVE SlotsExact' /\ QueueExact'
  <2>1. /\ pc[p] = "signalling" /\ pc' = [pc EXCEPT ![p] = "idle"]
        /\ UNCHANGED <<users, keys, waiters, queued>>
        /\ \A q \in Procs \ {p} : /\ key'[q] = key[q] /\ userLimit'[q] = userLimit[q]
                                 /\ keyLimit'[q] = keyLimit[q] /\ maxWaiters'[q] = maxWaiters[q]
    BY <1>1, <1>10 DEF Signal, Forget, Goto, shared, TypeOK
  <2> QED
    BY <1>1, <2>1, SlotsKept, QueueKept DEF TypeOK, QueueExact
<1>11. CASE UNCHANGED vars
  <2>1. UNCHANGED <<users, keys, waiters, pc, key, userLimit, keyLimit, maxWaiters, queued>>
    BY <1>11 DEF vars, shared, locals
  <2> QED
    BY <1>1, <2>1, SlotsKept, QueueKept DEF QueueExact
<1> QED
  BY <1>2, <1>3, <1>4, <1>5, <1>6, <1>7, <1>8, <1>9, <1>10, <1>11 DEF Next, Step

(* The invariant gives the limits: of those that hold a slot, the one with  *)
(* the largest limit covers all.                                            *)
LEMMA InvSound == LimiterInv => SlotsSound
<1> SUFFICES ASSUME LimiterInv PROVE SlotsSound
  OBVIOUS
<1>1. TypeOK /\ CountsExact /\ SlotsExact /\ QueueExact
  BY InvParts DEF LimiterInv
<1>2. ASSUME NEW u \in Users, users[u] > 0
      PROVE  \E p \in Holding(u) : userLimit[p] = 0 \/ users[u] <= userLimit[p]
  <2>1. users[u] = Cardinality(Holding(u)) /\ Ranked(Holding(u), userLimit)
    BY <1>1 DEF SlotsExact
  <2>2. Holding(u) # {}
    BY <1>2, <2>1, FS_EmptySet
  <2>3. userLimit \in [Procs -> Nat] /\ Holding(u) \subseteq Procs
    BY <1>1, HoldersAreProcs DEF TypeOK
  <2> QED
    BY <2>1, <2>2, <2>3, RankedCovers
<1>3. ASSUME NEW k \in Keys, keys[k] > 0
      PROVE  \E p \in HoldingKey(k) : keyLimit[p] = 0 \/ keys[k] <= keyLimit[p]
  <2>1. keys[k] = Cardinality(HoldingKey(k)) /\ Ranked(HoldingKey(k), keyLimit)
    BY <1>1 DEF SlotsExact
  <2>2. HoldingKey(k) # {}
    BY <1>3, <2>1, FS_EmptySet
  <2>3. keyLimit \in [Procs -> Nat] /\ HoldingKey(k) \subseteq Procs
    BY <1>1, HoldersAreProcs DEF TypeOK
  <2> QED
    BY <2>1, <2>2, <2>3, RankedCovers
<1>4. ASSUME waiters > 0 PROVE \E p \in Procs : queued[p] /\ waiters <= maxWaiters[p]
  <2>1. waiters = Cardinality(Waiting) /\ Ranked(Waiting, maxWaiters)
    BY <1>1 DEF QueueExact
  <2>2. Waiting # {}
    BY <1>4, <2>1, FS_EmptySet
  <2>3. maxWaiters \in [Procs -> Nat] /\ Waiting \subseteq Procs
    BY <1>1, HoldersAreProcs DEF TypeOK
  <2>4. PICK p \in Waiting : maxWaiters[p] = 0 \/ Cardinality(Waiting) <= maxWaiters[p]
    BY <2>1, <2>2, <2>3, RankedCovers
  <2>5. p \in Procs /\ queued[p] /\ maxWaiters[p] # 0
    BY <1>1, <2>4 DEF Waiting, QueueExact
  <2> QED
    BY <2>1, <2>4, <2>5
<1> QED
  BY <1>1, <1>2, <1>3, <1>4 DEF SlotsSound, WithinAdmittedLimit

-----------------------------------------------------------------------------
(* Wake-ups: only a release makes room, and whoever released is about to    *)
(* signal; whoever signals wakes everyone who is parked.                    *)
LEMMA NextWakes == TypeOK /\ NoLostWakeup /\ [Next]_vars => NoLostWakeup'
<1> SUFFICES ASSUME TypeOK, TypeOK', NoLostWakeup, [Next]_vars,
                    NEW p \in Procs, pc'[p] = "parked", Available(p)', ~woken'[p]
             PROVE  \E q \in Procs : pc'[q] = "signalling"
  BY TypeStep DEF NoLostWakeup
<1> DEFINE Kept ==
       /\ pc[p] = "parked" /\ woken'[p] = woken[p] /\ users' = users /\ keys' = keys
       /\ key'[p] = key[p] /\ userLimit'[p] = userLimit[p] /\ keyLimit'[p] = keyLimit[p]
       /\ \A q \in Procs : pc[q] = "signalling" => pc'[q] = "signalling"
<1>1. ASSUME Kept PROVE \E q \in Procs : pc'[q] = "signalling"
  BY <1>1 DEF NoLostWakeup, Available, User
<1>2. ASSUME NEW r \in Procs, Arrive(r) PROVE \E q \in Procs : pc'[q] = "signalling"
  <2>1. PICK k \in Keys, depth \in QueueDepths :
           \E ul \in UserLimits[Owner[k]], kl \in KeyLimits[k] : Enter(r, k, ul, kl, depth)
    BY <1>2 DEF Arrive
  <2>2. PICK ul \in UserLimits[Owner[k]], kl \in KeyLimits[k] : Enter(r, k, ul, kl, depth)
    BY <2>1
  <2>3. Kept
    BY <2>2 DEF Enter, Goto, shared, TypeOK
  <2> QED
    BY <1>1, <2>3
<1>3. ASSUME NEW r \in Procs, Admit(r) PROVE \E q \in Procs : pc'[q] = "signalling"
  <2>1. /\ pc[p] = "parked" /\ pc[r] = "trying" /\ pc' = [pc EXCEPT ![r] = "holding"]
        /\ UNCHANGED <<key, userLimit, keyLimit, woken>>
        /\ users' = [users EXCEPT ![User(r)] = @ + 1]
        /\ keys' = [keys EXCEPT ![key[r]] = @ + 1]
    BY <1>3 DEF Admit, Goto, locals, TypeOK
  <2>2. key[p] \in Keys /\ User(p) \in Users
    BY <2>1, LimiterAssumption DEF TypeOK, User
  <2>3. users'[User(p)] >= users[User(p)] /\ keys'[key[p]] >= keys[key[p]]
    BY <2>1, <2>2 DEF TypeOK
  <2>4. /\ users[User(p)] \in Nat /\ users'[User(p)] \in Nat /\ userLimit[p] \in Nat
        /\ keys[key[p]] \in Nat /\ keys'[key[p]] \in Nat /\ keyLimit[p] \in Nat
    BY <2>2 DEF TypeOK
  <2>5. /\ userLimit[p] = 0 \/ users'[User(p)] < userLimit[p]
        /\ keyLimit[p] = 0 \/ keys'[key[p]] < keyLimit[p]
    BY <2>1 DEF Available, User
  <2>6. Available(p)
    BY <2>3, <2>4, <2>5 DEF Available
  <2>7. PICK q \in Procs : pc[q] = "signalling"
    BY <2>1, <2>6 DEF NoLostWakeup
  <2> QED
    BY <2>1, <2>7 DEF TypeOK
<1>4. ASSUME NEW r \in Procs, Refuse(r) PROVE \E q \in Procs : pc'[q] = "signalling"
  <2>1. Kept
    BY <1>4 DEF Refuse, Goto, shared, locals, TypeOK
  <2> QED
    BY <1>1, <2>1
<1>5. ASSUME NEW r \in Procs, Park(r) PROVE \E q \in Procs : pc'[q] = "signalling"
  <2>1. CASE p = r
    BY <1>5, <2>1 DEF Park, Available, User, locals
  <2>2. CASE p # r
    <3>1. Kept
      BY <1>5, <2>2 DEF Park, Goto, shared, locals, TypeOK
    <3> QED
      BY <1>1, <3>1
  <2> QED
    BY <2>1, <2>2
<1>6. ASSUME NEW r \in Procs, Retry(r) PROVE \E q \in Procs : pc'[q] = "signalling"
  <2>1. Kept
    BY <1>6 DEF Retry, Goto, shared, locals, TypeOK
  <2> QED
    BY <1>1, <2>1
<1>7. ASSUME NEW r \in Procs, StopWaiting(r) PROVE \E q \in Procs : pc'[q] = "signalling"
  <2>1. Kept
    BY <1>7 DEF StopWaiting, Goto, shared, locals, TypeOK
  <2> QED
    BY <1>1, <2>1
<1>8. ASSUME NEW r \in Procs, Dequeue(r) PROVE \E q \in Procs : pc'[q] = "signalling"
  <2>1. Kept
    BY <1>8 DEF Dequeue, Forget, Goto, TypeOK
  <2> QED
    BY <1>1, <2>1
<1>9. ASSUME NEW r \in Procs, Release(r) PROVE \E q \in Procs : pc'[q] = "signalling"
  BY <1>9 DEF Release, Goto, TypeOK
<1>10. ASSUME NEW r \in Procs, Signal(r) PROVE \E q \in Procs : pc'[q] = "signalling"
  <2>1. pc[p] = "parked"
    BY <1>10 DEF Signal, Goto, TypeOK
  <2>2. woken'[p] = TRUE
    BY <1>10, <2>1 DEF Signal
  <2> QED
    BY <2>2
<1>11. CASE UNCHANGED vars
  <2>1. Kept
    BY <1>11 DEF vars, shared, locals
  <2> QED
    BY <1>1, <2>1
<1> QED
  BY <1>2, <1>3, <1>4, <1>5, <1>6, <1>7, <1>8, <1>9, <1>10, <1>11 DEF Next, Step

-----------------------------------------------------------------------------
(* The limiter keeps its inductive invariant.                               *)
THEOREM Invariant == Spec => []LimiterInv
<1> QED
  BY InitInv, NextInv, PTL DEF Spec

(* Type correctness, for any number of goroutines, users and keys.          *)
THEOREM TypeCorrect == Spec => []TypeOK
<1>1. LimiterInv => TypeOK
  BY DEF LimiterInv
<1> QED
  BY <1>1, Invariant, PTL

(* Acquire and Release: the counters are the calls that hold slots or wait, *)
(* and edited limits are never exceeded by those admitted under them.       *)
THEOREM SlotsAreSound == Spec => []SlotsSound
<1> QED
  BY InvSound, Invariant, PTL

(* Release and signal: whoever is parked although his slots are free has    *)
(* been woken, or is about to be.                                           *)
THEOREM WakeupsAreKept == Spec => []NoLostWakeup
<1>1. Init => NoLostWakeup
  BY DEF Init, NoLostWakeup
<1> QED
  BY <1>1, NextWakes, TypeCorrect, PTL DEF Spec
=============================================================================
