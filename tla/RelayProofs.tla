---------------------------- MODULE RelayProofs -----------------------------
(***************************************************************************)
(* Proofs about Relay, for any number of calls, accounts and groups, any   *)
(* limits and any times: slots and the queue are counted exactly, no       *)
(* account is tried twice, and a pick goes by rows that are at most one    *)
(* TTL behind.                                                             *)
(***************************************************************************)
EXTENDS Relay, FiniteSetTheorems, WellFoundedInduction, TLAPS

(* Who has a slot of an account, and who waits.                             *)
Owners(a) == {p \in Relays : HasAccount(p) /\ account[p] = a}
Waiters   == {p \in Relays : queued[p]}

(* The group a call is in may be tried again.                               *)
RouteInv == \A p \in Relays : group[p] \notin unavailable[p]

(* The counters are exact, and what the locals of a call say of them.       *)
AccountInv ==
    \A a \in Accounts :
        /\ inFlight[a] = Cardinality(Owners(a))
        /\ Slots[a] > 0 => inFlight[a] <= Slots[a]
QueueInv  == waiting = Cardinality(Waiters) /\ \E d \in QueueDepths : waiting <= d
SlotInv   == AccountInv /\ QueueInv

TriedInv ==
    \A p \in Relays :
        /\ attempts[p] = Cardinality(tried[p]) /\ attempts[p] <= MaxAttempts
        /\ stage[p] \in Picking \cup {"new"} => attempts[p] < MaxAttempts
        /\ stage[p] = "enter" => ~ queued[p]
        /\ stage[p] = "returned" /\ result[p] = "account" => account[p] \notin tried[p]

(* An entry e agrees with the row of a: both are disabled or neither is,    *)
(* and a cooldown of the row is in the entry or about to be overwritten.    *)
Agrees(e, a) ==
    /\ (e = Disabled) = (row[a] = Disabled)
    /\ row[a] <= now \/ e >= row[a] \/ Rewriting(a)

(* Rows unchanged since a snapshot's time agree with it, also while it is   *)
(* still on its way; and a pick uses a snapshot that is young enough.       *)
SnapInv ==
    \A g \in Groups : \A a \in Members[g] :
        snap[g].loadedAt >= 0 /\ changed[a] < snap[g].loadedAt => Agrees(snap[g].entry[a], a)

Loaded(p) ==
    stage[p] = "install" =>
        /\ hand[p].shared = FALSE /\ hand[p].entry \in [Members[group[p]] -> Rows]
        /\ \A a \in Members[group[p]] : changed[a] < started[p] => Agrees(hand[p].entry[a], a)
LoadInv == \A p \in Relays : Loaded(p)

Chooses(p) ==
    stage[p] = "choose" =>
        IF hand[p].shared
        THEN snap[group[p]].loadedAt >= 0 /\ snap[group[p]].loadedAt + TTL > started[p]
        ELSE /\ hand[p].entry \in [Members[group[p]] -> Rows]
             /\ \A a \in Members[group[p]] :
                   changed[a] + TTL <= started[p] => Agrees(hand[p].entry[a], a)
PickInv == \A p \in Relays : Chooses(p)

RowInv == SnapInv /\ LoadInv /\ PickInv

RelayInv == TypeOK /\ RouteInv /\ SlotInv /\ TriedInv /\ RowInv

-----------------------------------------------------------------------------
(* The route's next group is a group, or none.                              *)
LEMMA SomeLeast ==
    ASSUME NEW S, S \subseteq Nat, S # {}
    PROVE  \E k \in S : \A j \in S : k <= j
<1>1. PICK k \in S : \A j \in S : ~ (<<j, k>> \in OpToRel(<, Nat))
  BY NatLessThanWellFounded, WFMin
<1>2. \A j \in S : ~ (j < k)
  BY <1>1 DEF OpToRel
<1> QED
  BY <1>2

LEMMA NextGroupType ==
    ASSUME NEW g \in Groups, NEW closed
    PROVE  \/ NextGroup(g, closed) \in Groups \ closed
           \/ NextGroup(g, closed) = 0 /\ g \in closed
<1> DEFINE n == Len(Members)
           at(k) == ((g - 1 + k) % n) + 1
           open == {k \in 1..n : at(k) \notin closed}
           least == CHOOSE k \in open : \A j \in open : k <= j
<1>1. Groups = 1..n /\ n \in Nat \ {0}
  BY SchedulerAssumption DEF Groups
<1>2. \A k \in 1..n : at(k) \in 1..n
  <2>1. \A m \in Nat \ {0} : \A i \in Int : (i % m) \in 0..(m - 1)
    BY SMT
  <2> HIDE DEF n
  <2> TAKE k \in 1..n
  <2>2. g - 1 + k \in Int
    BY <1>1
  <2>3. ((g - 1 + k) % n) \in 0..(n - 1)
    BY <1>1, <2>1, <2>2
  <2> QED
    BY <1>1, <2>3
<1>3. at(n) = g
  <2>1. \A m \in Nat \ {0} : \A i \in 0..(m - 1) : (i + m) % m = i
    BY SMT
  <2> HIDE DEF n
  <2>2. g - 1 \in 0..(n - 1)
    BY <1>1
  <2> QED
    BY <1>1, <2>1, <2>2
<1>4. ASSUME open # {} PROVE least \in 1..n /\ at(least) \notin closed
  <2>1. open \subseteq 1..n /\ open \subseteq Nat
    BY <1>1
  <2> HIDE DEF open
  <2>2. \E k \in open : \A j \in open : k <= j
    BY <2>1, <1>4, SomeLeast
  <2>3. least \in open
    BY <2>2
  <2> QED
    BY <2>1, <2>3 DEF open
<1>5. ASSUME open = {} PROVE g \in closed
  <2>1. n \in 1..n
    BY <1>1
  <2> HIDE DEF n, at
  <2>2. at(n) \in closed
    BY <1>5, <2>1
  <2> QED
    BY <1>3, <2>2
<1>6. NextGroup(g, closed) = IF open = {} THEN 0 ELSE at(least)
  BY DEF NextGroup
<1> HIDE DEF open, least, at, n
<1> QED
  BY <1>1, <1>2, <1>4, <1>5, <1>6

-----------------------------------------------------------------------------
(* Type correctness.                                                        *)
LEMMA TypeInit == Init => TypeOK
BY SchedulerAssumption
   DEF Init, TypeOK, Groups, Nothing, Rows, Disabled, Stages, Picking, HasAccount

(* What a report makes of the snapshots.                                    *)
LEMMA SnapshotsType ==
    ASSUME TypeOK, NEW a, NEW until \in 0..(MaxTime + Cooldown), InSnapshots(a, until)
    PROVE  /\ DOMAIN snap' = Groups
           /\ \A g \in Groups :
                 \/ snap[g] = Nothing /\ snap'[g] = Nothing
                 \/ /\ snap'[g].loadedAt = snap[g].loadedAt
                    /\ snap'[g] \in [loadedAt : 0..now, entry : [Members[g] -> Rows]]
                    /\ \A b \in Members[g] :
                          snap'[g].entry[b] = IF a = b THEN Failing(snap[g].entry[b], until)
                                                       ELSE snap[g].entry[b]
<1>1. DOMAIN snap' = Groups
  BY DEF InSnapshots
<1> SUFFICES ASSUME NEW g \in Groups
             PROVE  \/ snap[g] = Nothing /\ snap'[g] = Nothing
                    \/ /\ snap'[g].loadedAt = snap[g].loadedAt
                       /\ snap'[g] \in [loadedAt : 0..now, entry : [Members[g] -> Rows]]
                       /\ \A b \in Members[g] :
                             snap'[g].entry[b] = IF a = b THEN Failing(snap[g].entry[b], until)
                                                          ELSE snap[g].entry[b]
  BY <1>1
<1>2. snap'[g] = IF a \in DOMAIN snap[g].entry
                 THEN [snap[g] EXCEPT !.entry[a] = Failing(@, until)] ELSE snap[g]
  BY DEF InSnapshots
<1>3. CASE snap[g] = Nothing
  <2>1. DOMAIN snap[g].entry = {}
    BY <1>3 DEF Nothing
  <2> QED
    BY <1>2, <1>3, <2>1
<1>4. CASE snap[g] \in [loadedAt : 0..now, entry : [Members[g] -> Rows]]
  <2>1. \A r \in Rows : Failing(r, until) \in Rows
    BY SchedulerAssumption DEF Failing, Rows, Disabled
  <2>2. CASE a \in Members[g]
    <3> DEFINE changes == [snap[g].entry EXCEPT ![a] = Failing(@, until)]
    <3>1. snap'[g] = [loadedAt |-> snap[g].loadedAt, entry |-> changes]
      BY <1>2, <1>4, <2>2
    <3>2. snap[g].loadedAt \in 0..now /\ snap[g].entry \in [Members[g] -> Rows]
      BY <1>4
    <3>3. changes \in [Members[g] -> Rows]
      BY <2>1, <3>2
    <3>4. \A b \in Members[g] : changes[b] = IF a = b THEN Failing(snap[g].entry[b], until)
                                                     ELSE snap[g].entry[b]
      BY <3>2
    <3> HIDE DEF changes
    <3> QED
      BY <3>1, <3>2, <3>3, <3>4
  <2>3. CASE a \notin Members[g]
    BY <1>2, <1>4, <2>3
  <2> QED
    BY <2>2, <2>3
<1> QED
  BY <1>3, <1>4 DEF TypeOK

LEMMA FailingType ==
    ASSUME NEW r \in Rows, NEW until \in 0..(MaxTime + Cooldown)
    PROVE  Failing(r, until) \in Rows
BY SchedulerAssumption DEF Failing, Rows, Disabled

LEMMA FirstGroup == 1 \in Groups
BY SchedulerAssumption DEF Groups

(* The end of a call, and another turn of its loop.                         *)
LEMMA OverType ==
    ASSUME TypeOK, NEW p \in Relays, Over(p)
    PROVE  /\ stage' \in [Relays -> Stages] /\ group' \in [Relays -> Groups]
           /\ tried' \in [Relays -> SUBSET Accounts] /\ started' \in [Relays -> 0..now]
           /\ DOMAIN hand' = Relays
           /\ account' \in [Relays -> Accounts \cup {NoAccount}]
           /\ result' \in [Relays -> {"account", "none", "busy", "over"}]
           /\ attempts' \in [Relays -> Nat] /\ unavailable' \in [Relays -> SUBSET Groups]
           /\ coolUntil' \in [Relays -> 0..(MaxTime + Cooldown)]
           /\ \A q \in Relays : HasAccount(q)' => account'[q] \in Accounts
BY FirstGroup, SchedulerAssumption DEF TypeOK, Over, Goto, HasAccount, Stages, Picking

LEMMA AgainType ==
    ASSUME TypeOK, NEW p \in Relays, NEW g \in Groups, Again(p, g)
    PROVE  /\ stage' \in [Relays -> Stages] /\ group' \in [Relays -> Groups]
           /\ tried' \in [Relays -> SUBSET Accounts] /\ started' \in [Relays -> 0..now]
           /\ DOMAIN hand' = Relays
           /\ account' \in [Relays -> Accounts \cup {NoAccount}]
           /\ result' \in [Relays -> {"account", "none", "busy", "over"}]
           /\ attempts' \in [Relays -> Nat] /\ unavailable' \in [Relays -> SUBSET Groups]
           /\ coolUntil' \in [Relays -> 0..(MaxTime + Cooldown)]
           /\ \A q \in Relays : HasAccount(q)' => account'[q] \in Accounts
BY FirstGroup, SchedulerAssumption DEF TypeOK, Again, Goto, HasAccount, Stages, Picking

(* Every step keeps the types.                                              *)
LEMMA TypeStep ==
    ASSUME TypeOK, RouteInv, LoadInv, [Next]_vars
    PROVE  TypeOK'
<1> USE SchedulerAssumption, RelayAssumption
        DEF Stages, Picking, HasAccount, Goto, rows, shared, calls, loop
<1> DEFINE Quiet == UNCHANGED <<loop, edits>>
<1>1. ASSUME NEW p \in Relays, Look(p), Quiet PROVE TypeOK'
  <2>1. started' \in [Relays -> 0..now] /\ stage' \in [Relays -> Stages] /\ DOMAIN hand' = Relays
    <3>1. started' = [started EXCEPT ![p] = now] /\ now \in 0..now
      BY <1>1 DEF TypeOK, Look
    <3>2. started' \in [Relays -> 0..now]
      BY <3>1 DEF TypeOK
    <3>3. \/ Goto(p, "choose") /\ hand' = [hand EXCEPT ![p] = Current]
          \/ Goto(p, "load") /\ UNCHANGED hand
      BY <1>1 DEF Look
    <3>4. stage' \in [Relays -> Stages] /\ DOMAIN hand' = Relays
      BY <3>3 DEF TypeOK
    <3> QED
      BY <3>2, <3>4
  <2>2. \A q \in Relays : HasAccount(q)' => HasAccount(q)
    BY <1>1 DEF TypeOK, Look
  <2> QED
    BY <1>1, <2>1, <2>2 DEF TypeOK, Look
<1>2. ASSUME NEW p \in Relays, Load(p), Quiet PROVE TypeOK'
  BY <1>2 DEF TypeOK, Load
<1>3. ASSUME NEW p \in Relays, LoadFails(p), Quiet PROVE TypeOK'
  BY <1>3 DEF TypeOK, LoadFails, Answer, Drop, Current
<1>4. ASSUME NEW p \in Relays, Install(p), Quiet PROVE TypeOK'
  <2> DEFINE g == group[p]
  <2>1. CASE snap[g].loadedAt > LoadedAt(p)
    BY <1>4, <2>1 DEF TypeOK, Install
  <2>2. CASE ~ (snap[g].loadedAt > LoadedAt(p))
    <3>1. snap' = [snap EXCEPT ![g] = [loadedAt |-> started[p], entry |-> hand[p].entry]]
      BY <1>4, <2>2 DEF Install, LoadedAt
    <3>2. snap'[g] \in [loadedAt : 0..now, entry : [Members[g] -> Rows]]
      BY <1>4, <3>1 DEF TypeOK, LoadInv, Loaded, Install
    <3>3. DOMAIN hand' = Relays
      BY <1>4, <2>2 DEF Install, Orphan
    <3> QED
      BY <1>4, <3>1, <3>2, <3>3 DEF TypeOK, Install
  <2> QED
    BY <2>1, <2>2
<1>5. ASSUME NEW p \in Relays, NoneRoutable(p), Quiet PROVE TypeOK'
  BY <1>5 DEF TypeOK, NoneRoutable, Answer, Drop, Current
<1>6. ASSUME NEW p \in Relays, AllBusy(p), Quiet PROVE TypeOK'
  BY <1>6 DEF TypeOK, AllBusy, Drop, Current
<1>7. ASSUME NEW p \in Relays, Enter(p), Quiet PROVE TypeOK'
  BY <1>7 DEF TypeOK, Enter
<1>8. ASSUME NEW p \in Relays, QueueFull(p), Quiet PROVE TypeOK'
  BY <1>8 DEF TypeOK, QueueFull, Answer, Drop, Current
<1>9. ASSUME NEW p \in Relays, Retry(p), Quiet PROVE TypeOK'
  BY <1>9 DEF TypeOK, Retry
<1>10. ASSUME NEW p \in Relays, StopWaiting(p), Quiet PROVE TypeOK'
  BY <1>10 DEF TypeOK, StopWaiting, Answer, Drop, Current
<1>11. ASSUME NEW p \in Relays, NEW a \in Accounts, Choose(p, a), Quiet PROVE TypeOK'
  BY <1>11 DEF TypeOK, Choose, Answer, Drop, Current
<1>12. ASSUME NEW p \in Relays, Arrive(p) PROVE TypeOK'
  BY <1>12 DEF TypeOK, Arrive
<1>13. ASSUME NEW p \in Relays, Attempt(p) PROVE TypeOK'
  BY <1>13 DEF TypeOK, Attempt, Dequeue
<1>14. ASSUME NEW p \in Relays, Advance(p) PROVE TypeOK'
  <2> DEFINE g == NextGroup(group[p], Closing(p))
  <2>1. group[p] \in Groups
    BY DEF TypeOK
  <2>2. g \in Groups
    BY <1>14, <2>1, NextGroupType DEF Advance
  <2> HIDE DEF g
  <2>3. group' = [group EXCEPT ![p] = g]
    BY <1>14 DEF Advance, g
  <2> QED
    BY <1>14, <2>2, <2>3 DEF TypeOK, Advance, Dequeue, Closing
<1>15. ASSUME NEW p \in Relays, GiveUp(p) PROVE TypeOK'
  <2>1. Over(p) /\ Dequeue(p) /\ UNCHANGED <<now, row, changed, snap, inFlight, circuit, edits>>
    BY <1>15 DEF GiveUp
  <2>2. waiting' \in Nat /\ queued' \in [Relays -> BOOLEAN]
    BY <2>1 DEF Dequeue, TypeOK
  <2> QED
    BY <2>1, <2>2, OverType DEF TypeOK
<1>16. ASSUME NEW p \in Relays, Fail(p) PROVE TypeOK'
  BY <1>16 DEF TypeOK, Fail, FreeSlot
<1>17. ASSUME NEW p \in Relays, Succeed(p) PROVE TypeOK'
  BY <1>17 DEF TypeOK, Succeed
<1>18. ASSUME NEW p \in Relays, ReportSuccess(p) PROVE TypeOK'
  <2>1. InSnapshots(account[p], 0) /\ UNCHANGED <<now, row, changed, inFlight, circuit, waiting, calls, loop>>
    BY <1>18 DEF ReportSuccess
  <2>2. \A g \in Groups : snap'[g] = Nothing
                             \/ snap'[g] \in [loadedAt : 0..now, entry : [Members[g] -> Rows]]
    BY <2>1, SnapshotsType
  <2>3. DOMAIN snap' = Groups
    BY <2>1, SnapshotsType
  <2>4. stage' \in [Relays -> Stages] /\ \A q \in Relays : HasAccount(q)' => HasAccount(q)
    BY <1>18 DEF ReportSuccess, TypeOK
  <2> QED
    BY <2>1, <2>2, <2>3, <2>4 DEF TypeOK
<1>19. ASSUME NEW p \in Relays, Repair(p) PROVE TypeOK'
  <2>1. ASSUME account[p] \in Accounts PROVE Failing(row[account[p]], 0) \in Rows
    BY <2>1, FailingType DEF TypeOK
  <2>2. row' \in [Accounts -> Rows]
    BY <1>19, <2>1 DEF TypeOK, Repair
  <2>3. changed' \in [Accounts -> 0..now]
    BY <1>19 DEF TypeOK, Repair
  <2>4. stage' \in [Relays -> Stages] /\ \A q \in Relays : HasAccount(q)' => HasAccount(q)
    BY <1>19 DEF TypeOK, Repair
  <2> QED
    BY <1>19, <2>2, <2>3, <2>4 DEF TypeOK, Repair
<1>20. ASSUME NEW p \in Relays, Finish(p) PROVE TypeOK'
  BY <1>20 DEF TypeOK, Finish, FreeSlot
<1>21. ASSUME NEW p \in Relays, Signal(p) PROVE TypeOK'
  <2>1. UNCHANGED <<now, row, changed, snap, inFlight, circuit, waiting, queued>>
    BY <1>21 DEF Signal
  <2>2. CASE Over(p)
    BY <2>1, <2>2, OverType DEF TypeOK
  <2>3. CASE Again(p, group[p])
    BY <2>1, <2>3, AgainType DEF TypeOK
  <2>4. CASE Goto(p, "reporting") /\ UNCHANGED <<group, tried, started, hand, account, result, loop>>
    BY <2>1, <2>4 DEF TypeOK
  <2> QED
    BY <1>21, <2>2, <2>3, <2>4 DEF Signal
<1>22. ASSUME NEW p \in Relays, ReportFailure(p) PROVE TypeOK'
  <2>1. PICK cooldown \in 1..Cooldown :
           /\ coolUntil' = [coolUntil EXCEPT ![p] = now + cooldown]
           /\ InSnapshots(account[p], now + cooldown)
    BY <1>22 DEF ReportFailure
  <2>2. now + cooldown \in 0..(MaxTime + Cooldown)
    BY DEF TypeOK
  <2>3. coolUntil' \in [Relays -> 0..(MaxTime + Cooldown)]
    BY <2>1, <2>2 DEF TypeOK
  <2>4. UNCHANGED <<now, row, changed, inFlight, circuit, waiting, calls, unavailable, attempts, verdict>>
    BY <1>22 DEF ReportFailure
  <2>5. \A g \in Groups : snap'[g] = Nothing
                             \/ snap'[g] \in [loadedAt : 0..now, entry : [Members[g] -> Rows]]
    BY <2>1, <2>2, SnapshotsType
  <2>6. DOMAIN snap' = Groups
    BY <2>1, <2>2, SnapshotsType
  <2>7. stage' \in [Relays -> Stages] /\ \A q \in Relays : HasAccount(q)' => HasAccount(q)
    BY <1>22 DEF ReportFailure, TypeOK
  <2> QED
    BY <2>3, <2>4, <2>5, <2>6, <2>7 DEF TypeOK
<1>23. ASSUME NEW p \in Relays, ReportFailureForModel(p) PROVE TypeOK'
  <2>1. /\ circuit' \in [Accounts -> {"closed", "blocked", "due"}]
        /\ UNCHANGED <<now, row, changed, snap, inFlight, waiting, queued>>
    BY <1>23 DEF ReportFailureForModel, TypeOK
  <2>2. NextGroup(group[p], unavailable[p]) \in Groups
    BY NextGroupType DEF TypeOK, RouteInv
  <2>3. CASE Over(p)
    BY <1>23, <2>1, <2>3, OverType DEF TypeOK
  <2>4. CASE Again(p, NextGroup(group[p], unavailable[p]))
    BY <1>23, <2>1, <2>2, <2>4, AgainType DEF TypeOK
  <2> QED
    BY <1>23, <2>3, <2>4 DEF ReportFailureForModel
<1>24. ASSUME NEW p \in Relays, Write(p) PROVE TypeOK'
  <2>1. /\ row' \in [Accounts -> Rows] /\ changed' \in [Accounts -> 0..now]
        /\ UNCHANGED <<now, snap, inFlight, circuit, waiting, queued>>
    <3>1. ASSUME account[p] \in Accounts PROVE Failing(row[account[p]], coolUntil[p]) \in Rows
      BY <3>1, FailingType DEF TypeOK
    <3>2. row' \in [Accounts -> Rows]
      BY <1>24, <3>1 DEF TypeOK, Write
    <3>3. changed' \in [Accounts -> 0..now]
      <4>1. changed' = [changed EXCEPT ![account[p]] = now] /\ now \in 0..now
        BY <1>24 DEF TypeOK, Write
      <4> QED
        BY <4>1 DEF TypeOK
    <3> QED
      BY <1>24, <3>2, <3>3 DEF Write, TypeOK
  <2>2. NextGroup(group[p], unavailable[p]) \in Groups
    BY NextGroupType DEF TypeOK, RouteInv
  <2>3. CASE Over(p)
    BY <1>24, <2>1, <2>3, OverType DEF TypeOK
  <2>4. CASE Again(p, NextGroup(group[p], unavailable[p]))
    BY <1>24, <2>1, <2>2, <2>4, AgainType DEF TypeOK
  <2> QED
    BY <1>24, <2>3, <2>4 DEF Write
<1>25. ASSUME NEW a \in Unsteady, Edit(a) PROVE TypeOK'
  <2>1. row' \in [Accounts -> Rows]
    BY <1>25 DEF TypeOK, Edit, Rows, Disabled
  <2>2. changed' \in [Accounts -> 0..now]
    BY <1>25 DEF TypeOK, Edit
  <2> QED
    BY <1>25, <2>1, <2>2 DEF TypeOK, Edit
<1>26. ASSUME Tick, Quiet PROVE TypeOK'
  <2>1. now' \in 0..MaxTime /\ now < now'
    BY <1>26 DEF Tick, TypeOK
  <2>2. circuit' \in [Accounts -> {"closed", "blocked", "due"}]
    <3>1. \A a \in Accounts : Later(circuit[a]) \subseteq {"closed", "blocked", "due"}
      BY DEF TypeOK, Later
    <3>2. circuit' \in [Accounts -> UNION {Later(circuit[a]) : a \in Accounts}]
      BY <1>26 DEF Tick
    <3>3. UNION {Later(circuit[a]) : a \in Accounts} \subseteq {"closed", "blocked", "due"}
      BY <3>1
    <3> QED
      BY <3>2, <3>3
  <2>3. \A i : i \in 0..now => i \in 0..now'
    BY <2>1 DEF TypeOK
  <2>4. \A g \in Groups : snap'[g] = Nothing
                             \/ snap'[g] \in [loadedAt : 0..now', entry : [Members[g] -> Rows]]
    BY <1>26, <2>3 DEF Tick, TypeOK
  <2>5. changed' \in [Accounts -> 0..now'] /\ started' \in [Relays -> 0..now']
    BY <1>26, <2>3 DEF Tick, TypeOK
  <2> QED
    BY <1>26, <2>1, <2>2, <2>4, <2>5 DEF Tick, TypeOK
<1>27. ASSUME UNCHANGED vars PROVE TypeOK'
  BY <1>27 DEF TypeOK, vars, sched
<1> QED
  BY <1>1, <1>2, <1>3, <1>4, <1>5, <1>6, <1>7, <1>8, <1>9, <1>10, <1>11, <1>12, <1>13, <1>14, <1>15, <1>16, <1>17, <1>18, <1>19, <1>20, <1>21, <1>22, <1>23, <1>24, <1>25, <1>26, <1>27
     DEF Next, CallStep, LoopStep, PickStep, Mishap

-----------------------------------------------------------------------------
(* The group a call is in is one it may still use: it leaves a group that   *)
(* has no account for it, and chooses among those it has not left.          *)
LEMMA RouteStep ==
    ASSUME TypeOK, RouteInv, [Next]_vars
    PROVE  RouteInv'
<1> USE DEF rows, shared, calls, loop
<1>1. ASSUME UNCHANGED <<group, unavailable>> PROVE RouteInv'
  BY <1>1 DEF RouteInv
<1>2. ASSUME NEW p \in Relays, Over(p) PROVE RouteInv'
  BY <1>2 DEF Over, RouteInv, TypeOK
<1>3. ASSUME NEW p \in Relays, NEW g, g \notin unavailable[p], Again(p, g) PROVE RouteInv'
  BY <1>3 DEF Again, RouteInv, TypeOK
<1>4. ASSUME NEW p \in Relays PROVE NextGroup(group[p], unavailable[p]) \notin unavailable[p]
  BY <1>4, NextGroupType DEF RouteInv, TypeOK
<1>5. ASSUME NEW p \in Relays, Advance(p) PROVE RouteInv'
  <2> DEFINE g == NextGroup(group[p], Closing(p))
  <2>1. g \notin Closing(p)
    BY <1>5, NextGroupType DEF Advance, TypeOK
  <2>2. group' = [group EXCEPT ![p] = g] /\ unavailable' = [unavailable EXCEPT ![p] = Closing(p)]
    BY <1>5 DEF Advance
  <2> HIDE DEF g
  <2> QED
    BY <2>1, <2>2 DEF RouteInv, TypeOK
<1>6. ASSUME NEW p \in Relays, LoopStep(p) PROVE RouteInv'
  <2>1. CASE Attempt(p)
    BY <1>1, <2>1 DEF Attempt
  <2>2. CASE GiveUp(p)
    BY <1>2, <2>2 DEF GiveUp
  <2>3. CASE Fail(p) \/ Succeed(p) \/ ReportSuccess(p) \/ Repair(p) \/ Finish(p) \/ ReportFailure(p)
    BY <1>1, <2>3 DEF Fail, Succeed, ReportSuccess, Repair, Finish, ReportFailure
  <2>4. CASE Signal(p)
    <3>1. Over(p) \/ Again(p, group[p]) \/ UNCHANGED <<group, unavailable>>
      BY <2>4 DEF Signal
    <3> QED
      BY <1>1, <1>2, <1>3, <3>1 DEF RouteInv
  <2>5. CASE ReportFailureForModel(p) \/ Write(p)
    <3>1. Over(p) \/ Again(p, NextGroup(group[p], unavailable[p]))
      BY <2>5 DEF ReportFailureForModel, Write
    <3> QED
      BY <1>2, <1>3, <1>4, <3>1
  <2> QED
    BY <1>5, <1>6, <2>1, <2>2, <2>3, <2>4, <2>5 DEF LoopStep
<1>7. ASSUME NEW p \in Relays, PickStep(p) \/ Mishap(p), UNCHANGED <<loop, edits>> PROVE RouteInv'
  <2>1. UNCHANGED group
    BY <1>7 DEF PickStep, Mishap, Look, Load, Install, NoneRoutable, AllBusy, Enter, QueueFull,
                Retry, Choose, LoadFails, StopWaiting
  <2> QED
    BY <1>1, <1>7, <2>1
<1>8. ASSUME NEW p \in Relays, Arrive(p) PROVE RouteInv'
  BY <1>1, <1>8 DEF Arrive
<1>9. CASE (\E a \in Unsteady : Edit(a)) \/ (Tick /\ UNCHANGED <<loop, edits>>) \/ UNCHANGED vars
  BY <1>1, <1>9 DEF Edit, Tick, vars, sched
<1> QED
  BY <1>6, <1>7, <1>8, <1>9 DEF Next, CallStep

-----------------------------------------------------------------------------
(* What a call does leaves the locals of the others alone, but for their    *)
(* snapshots and their channels.                                            *)
Stays(p) ==
    \A q \in Relays \ {p} :
        /\ stage'[q] = stage[q] /\ group'[q] = group[q] /\ tried'[q] = tried[q]
        /\ started'[q] = started[q] /\ account'[q] = account[q] /\ result'[q] = result[q]
        /\ attempts'[q] = attempts[q] /\ queued'[q] = queued[q]

LEMMA PickStays ==
    ASSUME TypeOK, NEW p \in Relays, PickStep(p) \/ Mishap(p), UNCHANGED <<loop, edits>>
    PROVE  Stays(p)
<1> USE DEF TypeOK, Stays, rows, shared, calls, loop, Goto
<1>1. CASE Look(p) \/ Load(p) \/ Install(p)
  BY <1>1 DEF Look, Load, Install
<1>2. CASE NoneRoutable(p) \/ AllBusy(p) \/ Enter(p) \/ QueueFull(p) \/ Retry(p)
  BY <1>2 DEF NoneRoutable, AllBusy, Enter, QueueFull, Retry, Answer, Drop
<1>3. CASE \E a \in Accounts : Choose(p, a)
  BY <1>3 DEF Choose, Answer, Drop
<1>4. CASE Mishap(p)
  BY <1>4 DEF Mishap, LoadFails, StopWaiting, Answer, Drop
<1> QED
  BY <1>1, <1>2, <1>3, <1>4 DEF PickStep

LEMMA OverStays ==
    ASSUME TypeOK, NEW p \in Relays, Over(p), UNCHANGED queued \/ Dequeue(p)
    PROVE  Stays(p)
BY DEF TypeOK, Stays, Over, Goto, Dequeue

LEMMA AgainStays ==
    ASSUME TypeOK, NEW p \in Relays, NEW g, Again(p, g), UNCHANGED queued
    PROVE  Stays(p)
BY DEF TypeOK, Stays, Again, Goto

LEMMA LoopStays ==
    ASSUME TypeOK, NEW p \in Relays, LoopStep(p)
    PROVE  Stays(p)
<1> USE DEF rows, shared, calls, loop
<1>1. CASE Attempt(p) \/ Advance(p)
  BY <1>1 DEF Attempt, Advance, Dequeue, TypeOK, Stays, Goto
<1>2. CASE GiveUp(p)
  BY <1>2, OverStays DEF GiveUp
<1>3. CASE Fail(p) \/ Succeed(p) \/ ReportSuccess(p) \/ Repair(p) \/ Finish(p) \/ ReportFailure(p)
  BY <1>3 DEF Fail, Succeed, ReportSuccess, Repair, Finish, ReportFailure, TypeOK, Stays, Goto
<1>4. CASE Signal(p)
  <2>1. \/ Over(p) \/ Again(p, group[p])
        \/ Goto(p, "reporting") /\ UNCHANGED <<group, tried, started, account, result, loop>>
    BY <1>4 DEF Signal
  <2>2. UNCHANGED queued
    BY <1>4 DEF Signal
  <2>3. CASE Goto(p, "reporting") /\ UNCHANGED <<group, tried, started, account, result, loop>>
    BY <2>2, <2>3 DEF TypeOK, Stays, Goto
  <2> QED
    BY <2>1, <2>2, <2>3, OverStays, AgainStays
<1>5. CASE ReportFailureForModel(p) \/ Write(p)
  <2>1. Over(p) \/ Again(p, NextGroup(group[p], unavailable[p]))
    BY <1>5 DEF ReportFailureForModel, Write
  <2>2. UNCHANGED queued
    BY <1>5 DEF ReportFailureForModel, Write
  <2> QED
    BY <2>1, <2>2, OverStays, AgainStays
<1> QED
  BY <1>1, <1>2, <1>3, <1>4, <1>5 DEF LoopStep

LEMMA CallStays ==
    ASSUME TypeOK, NEW p \in Relays,
           Arrive(p) \/ CallStep(p) \/ (Mishap(p) /\ UNCHANGED <<loop, edits>>)
    PROVE  Stays(p)
<1>1. CASE Arrive(p)
  BY <1>1 DEF Arrive, TypeOK, Stays, Goto, calls, loop
<1> QED
  BY <1>1, PickStays, LoopStays DEF CallStep

-----------------------------------------------------------------------------
(* Sets of calls are finite; one joins, one leaves.                         *)
LEMMA Finite ==
    ASSUME NEW S, S \subseteq Relays
    PROVE  IsFiniteSet(S) /\ Cardinality(S) \in Nat
BY FS_Subset, FS_CardinalityType, SchedulerAssumption

LEMMA Joins ==
    ASSUME NEW S, S \subseteq Relays, NEW p \in Relays, p \notin S
    PROVE  Cardinality(S \cup {p}) = Cardinality(S) + 1
BY Finite, FS_AddElement

LEMMA Leaves ==
    ASSUME NEW S, S \subseteq Relays, NEW p \in S
    PROVE  Cardinality(S) >= 1 /\ Cardinality(S \ {p}) = Cardinality(S) - 1
<1>1. IsFiniteSet(S) /\ Cardinality(S) \in Nat /\ Cardinality(S \ {p}) \in Nat
  BY Finite
<1>2. Cardinality(S \ {p}) = Cardinality(S) - 1
  BY <1>1, FS_RemoveElement
<1> QED
  BY <1>1, <1>2

(* A call that neither takes nor leaves an account leaves the counts alone. *)
LEMMA AccountsKept ==
    ASSUME AccountInv, NEW p \in Relays, Stays(p), UNCHANGED inFlight,
           \/ ~ HasAccount(p) /\ ~ HasAccount(p)'
           \/ HasAccount(p) /\ HasAccount(p)' /\ account'[p] = account[p]
    PROVE  AccountInv'
<1>1. ASSUME NEW a \in Accounts PROVE Owners(a)' = Owners(a)
  BY DEF Owners, HasAccount, Stays
<1> QED
  BY <1>1 DEF AccountInv

(* The account chosen is one call more, within its limit.                   *)
LEMMA AccountTaken ==
    ASSUME TypeOK, AccountInv, NEW p \in Relays, NEW a \in Accounts, Choose(p, a), Stays(p)
    PROVE  AccountInv'
<1>1. ~ HasAccount(p) /\ HasAccount(p)' /\ account'[p] = a
  BY DEF Choose, Answer, Goto, HasAccount, TypeOK
<1>2. inFlight' = [inFlight EXCEPT ![a] = @ + 1] /\ (Slots[a] = 0 \/ inFlight[a] < Slots[a])
  BY DEF Choose, HasSlot
<1>3. ASSUME NEW b \in Accounts, b # a PROVE Owners(b)' = Owners(b)
  BY <1>1, <1>3 DEF Owners, HasAccount, Stays
<1>4. Owners(a)' = Owners(a) \cup {p} /\ p \notin Owners(a) /\ Owners(a) \subseteq Relays
  BY <1>1 DEF Owners, HasAccount, Stays
<1>5. Cardinality(Owners(a)') = Cardinality(Owners(a)) + 1
  BY <1>4, Joins
<1>6. inFlight[a] \in Nat /\ Slots[a] \in Nat
  BY SchedulerAssumption DEF TypeOK
<1>7. /\ inFlight'[a] = Cardinality(Owners(a)')
      /\ Slots[a] > 0 => inFlight'[a] <= Slots[a]
  BY <1>2, <1>5, <1>6 DEF AccountInv, TypeOK
<1>8. ASSUME NEW b \in Accounts, b # a PROVE inFlight'[b] = inFlight[b]
  BY <1>2, <1>8 DEF TypeOK
<1> QED
  BY <1>3, <1>7, <1>8 DEF AccountInv

(* A released account is one call fewer.                                    *)
LEMMA AccountLeft ==
    ASSUME TypeOK, AccountInv, NEW p \in Relays, HasAccount(p), ~ HasAccount(p)', Stays(p),
           FreeSlot(account[p])
    PROVE  AccountInv'
<1>1. PICK a \in Accounts : account[p] = a
  BY DEF TypeOK
<1>2. p \in Owners(a) /\ Owners(a)' = Owners(a) \ {p} /\ Owners(a) \subseteq Relays
  BY <1>1 DEF Owners, HasAccount, Stays
<1>3. ASSUME NEW b \in Accounts, b # a PROVE Owners(b)' = Owners(b)
  BY <1>1, <1>3 DEF Owners, HasAccount, Stays
<1>4. Cardinality(Owners(a)) >= 1 /\ Cardinality(Owners(a)') = Cardinality(Owners(a)) - 1
  BY <1>2, Leaves
<1>5. inFlight[a] \in Nat /\ Slots[a] \in Nat /\ inFlight[a] = Cardinality(Owners(a))
  BY <1>1, SchedulerAssumption DEF TypeOK, AccountInv
<1>6. inFlight' = [inFlight EXCEPT ![a] = IF @ > 0 THEN @ - 1 ELSE 0]
  BY <1>1 DEF FreeSlot
<1>7. inFlight'[a] = inFlight[a] - 1
  BY <1>1, <1>4, <1>5, <1>6 DEF TypeOK
<1>8. /\ inFlight'[a] = Cardinality(Owners(a)')
      /\ Slots[a] > 0 => inFlight'[a] <= Slots[a]
  BY <1>1, <1>4, <1>5, <1>7 DEF AccountInv
<1>9. ASSUME NEW b \in Accounts, b # a PROVE inFlight'[b] = inFlight[b]
  BY <1>6, <1>9 DEF TypeOK
<1> QED
  BY <1>3, <1>8, <1>9 DEF AccountInv

LEMMA AccountStep ==
    ASSUME TypeOK, AccountInv, [Next]_vars
    PROVE  AccountInv'
<1> USE DEF rows, shared, calls, loop
<1>1. ASSUME NEW p \in Relays, PickStep(p) \/ Mishap(p), UNCHANGED <<loop, edits>>
      PROVE  AccountInv'
  <2>1. Stays(p)
    BY <1>1, PickStays
  <2>2. CASE \E a \in Accounts : Choose(p, a)
    BY <2>1, <2>2, AccountTaken
  <2>3. CASE \/ Look(p) \/ Load(p) \/ Install(p) \/ NoneRoutable(p) \/ AllBusy(p)
             \/ Enter(p) \/ QueueFull(p) \/ Retry(p) \/ Mishap(p)
    <3>1. ~ HasAccount(p) /\ ~ HasAccount(p)' /\ UNCHANGED inFlight
      BY <2>3 DEF Look, Load, Install, NoneRoutable, AllBusy, Enter, QueueFull, Retry, Mishap,
                  LoadFails, StopWaiting, Answer, Goto, HasAccount, TypeOK
    <3> QED
      BY <2>1, <3>1, AccountsKept
  <2> QED
    BY <1>1, <2>2, <2>3 DEF PickStep
<1>2. ASSUME NEW p \in Relays, LoopStep(p) PROVE AccountInv'
  <2>1. Stays(p)
    BY <1>2, LoopStays
  <2>2. CASE Fail(p) \/ Finish(p)
    <3>1. HasAccount(p) /\ ~ HasAccount(p)' /\ FreeSlot(account[p])
      BY <2>2 DEF Fail, Finish, HasAccount, Goto, TypeOK
    <3> QED
      BY <2>1, <3>1, AccountLeft
  <2>3. CASE Attempt(p) \/ Succeed(p) \/ ReportSuccess(p) \/ Repair(p)
    <3>1. HasAccount(p) /\ HasAccount(p)' /\ UNCHANGED <<account, inFlight>>
      BY <2>3 DEF Attempt, Succeed, ReportSuccess, Repair, HasAccount, Goto, TypeOK
    <3> QED
      BY <2>1, <3>1, AccountsKept
  <2>4. CASE Advance(p) \/ ReportFailure(p)
    <3>1. ~ HasAccount(p) /\ ~ HasAccount(p)' /\ UNCHANGED inFlight
      BY <2>4 DEF Advance, ReportFailure, HasAccount, Goto, TypeOK
    <3> QED
      BY <2>1, <3>1, AccountsKept
  <2>5. CASE GiveUp(p) \/ Signal(p) \/ ReportFailureForModel(p) \/ Write(p)
    <3>1. ~ HasAccount(p) /\ UNCHANGED inFlight
      BY <2>5 DEF GiveUp, Signal, ReportFailureForModel, Write, HasAccount
    <3>2. Goto(p, "done") \/ Goto(p, "pick") \/ Goto(p, "reporting")
      BY <2>5 DEF GiveUp, Signal, ReportFailureForModel, Write, Over, Again
    <3>3. ~ HasAccount(p)'
      BY <3>2 DEF HasAccount, Goto, TypeOK
    <3> QED
      BY <2>1, <3>1, <3>3, AccountsKept
  <2> QED
    BY <1>2, <2>2, <2>3, <2>4, <2>5 DEF LoopStep
<1>3. ASSUME NEW p \in Relays, Arrive(p) PROVE AccountInv'
  <2>1. Stays(p)
    BY <1>3, CallStays
  <2>2. ~ HasAccount(p) /\ ~ HasAccount(p)' /\ UNCHANGED inFlight
    BY <1>3 DEF Arrive, Goto, HasAccount, TypeOK
  <2> QED
    BY <2>1, <2>2, AccountsKept
<1>4. CASE (\E a \in Unsteady : Edit(a)) \/ (Tick /\ UNCHANGED <<loop, edits>>) \/ UNCHANGED vars
  <2>1. UNCHANGED <<stage, result, account, inFlight>>
    BY <1>4 DEF Edit, Tick, vars, sched
  <2>2. ASSUME NEW a PROVE Owners(a)' = Owners(a)
    BY <2>1 DEF Owners, HasAccount
  <2> QED
    BY <2>1, <2>2 DEF AccountInv
<1> QED
  BY <1>1, <1>2, <1>3, <1>4 DEF Next, CallStep

-----------------------------------------------------------------------------
(* Leaving the queue, if the call is in it.                                 *)
LEMMA QueueLeft ==
    ASSUME TypeOK, QueueInv, NEW p \in Relays, Dequeue(p)
    PROVE  QueueInv'
<1>1. CASE queued[p]
  <2>1. Waiters' = Waiters \ {p} /\ p \in Waiters /\ Waiters \subseteq Relays
    BY <1>1 DEF Waiters, Dequeue, TypeOK
  <2>2. Cardinality(Waiters) >= 1 /\ Cardinality(Waiters') = Cardinality(Waiters) - 1
    BY <2>1, Leaves
  <2>3. waiting \in Nat /\ waiting = Cardinality(Waiters)
    BY DEF QueueInv, TypeOK
  <2>4. waiting' = waiting - 1
    BY <1>1, <2>2, <2>3 DEF Dequeue
  <2>5. PICK d \in QueueDepths : waiting <= d
    BY DEF QueueInv
  <2>6. waiting' <= d
    BY <2>3, <2>4, <2>5, SchedulerAssumption
  <2> QED
    BY <2>2, <2>3, <2>4, <2>6 DEF QueueInv
<1>2. CASE ~ queued[p]
  <2>1. Waiters' = Waiters /\ waiting' = waiting
    BY <1>2 DEF Waiters, Dequeue, TypeOK
  <2> QED
    BY <2>1 DEF QueueInv
<1> QED
  BY <1>1, <1>2

(* Joining it, while it is shorter than the policy in force allows.         *)
LEMMA QueueJoined ==
    ASSUME TypeOK, QueueInv, TriedInv, NEW p \in Relays, Enter(p)
    PROVE  QueueInv'
<1>1. Waiters' = Waiters \cup {p} /\ p \notin Waiters /\ Waiters \subseteq Relays
  BY DEF Waiters, Enter, TypeOK, TriedInv
<1>2. Cardinality(Waiters') = Cardinality(Waiters) + 1
  BY <1>1, Joins
<1>3. PICK d \in QueueDepths : waiting < d
  BY DEF Enter
<1>4. waiting' = waiting + 1 /\ waiting \in Nat
  BY DEF Enter, TypeOK
<1>5. waiting' <= d
  BY <1>3, <1>4, SchedulerAssumption
<1> QED
  BY <1>2, <1>4, <1>5 DEF QueueInv

LEMMA QueueStep ==
    ASSUME TypeOK, QueueInv, TriedInv, [Next]_vars
    PROVE  QueueInv'
<1> USE DEF rows, shared, calls, loop
<1>1. ASSUME UNCHANGED <<queued, waiting>> PROVE QueueInv'
  BY <1>1 DEF QueueInv, Waiters
<1>2. ASSUME NEW p \in Relays, PickStep(p) \/ Mishap(p) PROVE QueueInv'
  <2>1. CASE Enter(p)
    BY <2>1, QueueJoined
  <2>2. CASE ~ Enter(p)
    BY <1>1, <1>2, <2>2 DEF PickStep, Mishap, Look, Load, Install, NoneRoutable, AllBusy,
                            QueueFull, Retry, Choose, LoadFails, StopWaiting
  <2> QED
    BY <2>1, <2>2
<1>3. ASSUME NEW p \in Relays, LoopStep(p) PROVE QueueInv'
  <2>1. CASE Attempt(p) \/ Advance(p) \/ GiveUp(p)
    BY <2>1, QueueLeft DEF Attempt, Advance, GiveUp
  <2>2. CASE ~ (Attempt(p) \/ Advance(p) \/ GiveUp(p))
    BY <1>1, <1>3, <2>2 DEF LoopStep, Fail, Succeed, ReportSuccess, Repair, Finish, Signal,
                            ReportFailure, ReportFailureForModel, Write
  <2> QED
    BY <2>1, <2>2
<1>4. ASSUME NEW p \in Relays, Arrive(p) PROVE QueueInv'
  BY <1>1, <1>4 DEF Arrive
<1>5. CASE (\E a \in Unsteady : Edit(a)) \/ (Tick /\ UNCHANGED <<loop, edits>>) \/ UNCHANGED vars
  BY <1>1, <1>5 DEF Edit, Tick, vars, sched
<1> QED
  BY <1>2, <1>3, <1>4, <1>5 DEF Next, CallStep

-----------------------------------------------------------------------------
(* What TriedInv says of one call.                                          *)
TriedOnce(p) ==
    /\ attempts[p] = Cardinality(tried[p]) /\ attempts[p] <= MaxAttempts
    /\ stage[p] \in Picking \cup {"new"} => attempts[p] < MaxAttempts
    /\ stage[p] = "enter" => ~ queued[p]
    /\ stage[p] = "returned" /\ result[p] = "account" => account[p] \notin tried[p]

LEMMA TriedKept ==
    ASSUME TriedInv, NEW p \in Relays, Stays(p), TriedOnce(p)'
    PROVE  TriedInv'
BY DEF TriedInv, Stays, TriedOnce

(* An attempt adds one account.                                             *)
LEMMA OneMoreTried ==
    ASSUME TypeOK, TriedInv, NEW p \in Relays, Attempt(p)
    PROVE  TriedOnce(p)'
<1> USE SchedulerAssumption, RelayAssumption
<1>1. tried[p] \subseteq Accounts /\ IsFiniteSet(tried[p])
  BY FS_Subset DEF TypeOK
<1>2. account[p] \notin tried[p]
  BY DEF TriedInv, Attempt
<1>3. Cardinality(tried[p] \cup {account[p]}) = Cardinality(tried[p]) + 1
  BY <1>1, <1>2, FS_AddElement
<1>4. tried'[p] = tried[p] \cup {account[p]} /\ attempts'[p] = attempts[p] + 1
  BY DEF Attempt, TypeOK
<1>5. stage'[p] = "calling"
  BY DEF Attempt, Goto, TypeOK
<1>6. attempts[p] \in Nat /\ attempts[p] < MaxAttempts /\ attempts[p] = Cardinality(tried[p])
  BY DEF TypeOK, TriedInv, Attempt, Picking
<1> QED
  BY <1>3, <1>4, <1>5, <1>6 DEF TriedOnce, Picking

LEMMA TriedStep ==
    ASSUME TypeOK, TriedInv, [Next]_vars
    PROVE  TriedInv'
<1> USE RelayAssumption DEF rows, shared, calls, loop
<1>1. ASSUME NEW p \in Relays, PickStep(p) \/ Mishap(p), UNCHANGED <<loop, edits>>
      PROVE  TriedInv'
  <2>1. Stays(p) /\ TriedOnce(p)
    BY <1>1, PickStays DEF TriedInv, TriedOnce
  <2>2. tried' = tried /\ attempts' = attempts /\ attempts[p] < MaxAttempts
    BY <1>1 DEF PickStep, Mishap, Look, Load, Install, NoneRoutable, AllBusy, Enter, QueueFull,
                Retry, Choose, LoadFails, StopWaiting, TriedInv, Picking
  <2>3. CASE \E a \in Accounts : Choose(p, a)
    <3>1. PICK a \in Accounts : Choose(p, a)
      BY <2>3
    <3>2. stage'[p] = "returned" /\ account'[p] = a /\ a \notin tried[p]
      BY <3>1 DEF Choose, Answer, Goto, Routable, TypeOK
    <3> QED
      BY <2>1, <2>2, <3>2, TriedKept DEF TriedOnce
  <2>4. CASE \/ Look(p) \/ Load(p) \/ Install(p) \/ NoneRoutable(p) \/ AllBusy(p)
             \/ Enter(p) \/ QueueFull(p) \/ Retry(p) \/ Mishap(p)
    <3>1. stage'[p] = "enter" => ~ queued'[p]
      BY <2>4 DEF Look, Load, Install, NoneRoutable, AllBusy, Enter, QueueFull, Retry, Mishap,
                  LoadFails, StopWaiting, Answer, Goto, TypeOK
    <3>2. ~ (stage'[p] = "returned" /\ result'[p] = "account")
      BY <2>4 DEF Look, Load, Install, NoneRoutable, AllBusy, Enter, QueueFull, Retry, Mishap,
                  LoadFails, StopWaiting, Answer, Goto, TypeOK
    <3> QED
      BY <2>1, <2>2, <3>1, <3>2, TriedKept DEF TriedOnce
  <2> QED
    BY <1>1, <2>3, <2>4 DEF PickStep
<1>2. ASSUME NEW p \in Relays, Over(p), Stays(p) PROVE TriedInv'
  <2>1. stage'[p] = "done" /\ tried'[p] = {} /\ attempts'[p] = 0
    BY <1>2 DEF Over, Goto, TypeOK
  <2> QED
    BY <1>2, <2>1, TriedKept, FS_EmptySet DEF TriedOnce, Picking
<1>3. ASSUME NEW p \in Relays, NEW g, Again(p, g), Stays(p) PROVE TriedInv'
  <2>1. stage'[p] = "pick" /\ tried' = tried /\ attempts' = attempts /\ attempts[p] < MaxAttempts
    BY <1>3 DEF Again, Goto, TypeOK
  <2> QED
    BY <1>3, <2>1, TriedKept DEF TriedInv, TriedOnce
<1>4. ASSUME NEW p \in Relays, LoopStep(p) PROVE TriedInv'
  <2>1. Stays(p) /\ TriedOnce(p)
    BY <1>4, LoopStays DEF TriedInv, TriedOnce
  <2>2. CASE Attempt(p)
    BY <2>1, <2>2, OneMoreTried, TriedKept
  <2>3. CASE Advance(p)
    <3>1. stage'[p] = "pick" /\ tried' = tried /\ attempts' = attempts /\ stage[p] = "returned"
      BY <2>3 DEF Advance, Goto, TypeOK
    <3> QED
      BY <2>1, <3>1, TriedKept DEF TriedOnce, Picking
  <2>4. CASE Fail(p) \/ Succeed(p) \/ ReportSuccess(p) \/ Repair(p) \/ Finish(p) \/ ReportFailure(p)
    <3>1. stage'[p] \in {"clearing", "repairing", "streaming", "signalling", "writing"}
      BY <2>4 DEF Fail, Succeed, ReportSuccess, Repair, Finish, ReportFailure, Goto, TypeOK
    <3>2. tried' = tried /\ attempts' = attempts
      BY <2>4 DEF Fail, Succeed, ReportSuccess, Repair, Finish, ReportFailure
    <3> QED
      BY <2>1, <3>1, <3>2, TriedKept DEF TriedOnce, Picking
  <2>5. CASE GiveUp(p)
    BY <1>2, <2>1, <2>5 DEF GiveUp
  <2>6. CASE Signal(p) /\ ~ Over(p) /\ ~ Again(p, group[p])
    <3>1. stage'[p] = "reporting" /\ tried' = tried /\ attempts' = attempts
      BY <2>6 DEF Signal, Goto, TypeOK
    <3> QED
      BY <2>1, <3>1, TriedKept DEF TriedOnce, Picking
  <2>7. CASE ReportFailureForModel(p) \/ Write(p)
    BY <1>2, <1>3, <2>1, <2>7 DEF ReportFailureForModel, Write
  <2> QED
    BY <1>2, <1>3, <1>4, <2>1, <2>2, <2>3, <2>4, <2>5, <2>6, <2>7 DEF LoopStep
<1>5. ASSUME NEW p \in Relays, Arrive(p) PROVE TriedInv'
  <2>1. Stays(p) /\ TriedOnce(p)
    BY <1>5, CallStays DEF TriedInv, TriedOnce
  <2>2. stage[p] = "new" /\ stage'[p] = "pick" /\ tried' = tried /\ attempts' = attempts
    BY <1>5 DEF Arrive, Goto, TypeOK
  <2> QED
    BY <2>1, <2>2, TriedKept DEF TriedOnce
<1>6. CASE (\E a \in Unsteady : Edit(a)) \/ (Tick /\ UNCHANGED <<loop, edits>>) \/ UNCHANGED vars
  <2>1. UNCHANGED <<attempts, tried, stage, queued, result, account>>
    BY <1>6 DEF Edit, Tick, vars, sched
  <2> QED
    BY <2>1 DEF TriedInv
<1> QED
  BY <1>1, <1>4, <1>5, <1>6 DEF Next, CallStep

-----------------------------------------------------------------------------
(* A call that is about to write a row stays so while others step.          *)
LEMMA RewritingKept ==
    ASSUME NEW p \in Relays, Stays(p),
           \/ stage[p] \notin {"repairing", "writing"}
           \/ stage'[p] \in {"repairing", "writing"} /\ account'[p] = account[p]
    PROVE  \A a : Rewriting(a) => Rewriting(a)'
BY DEF Rewriting, Stays

LEMMA MembersType ==
    ASSUME TypeOK
    PROVE  /\ \A g \in Groups : Members[g] \subseteq Accounts
           /\ \A p \in Relays : Members[group[p]] \subseteq Accounts
BY SchedulerAssumption DEF TypeOK, Groups

(* What is known of a row is kept unless the row is written, which is later *)
(* than every snapshot that is taken or on its way.                         *)
LEMMA RowsKept ==
    ASSUME TypeOK, RowInv, NEW W, NEW P, now' \in Nat, now <= now', UNCHANGED snap,
           \A b \in Accounts \ W : /\ row'[b] = row[b] /\ changed'[b] = changed[b]
                                   /\ Rewriting(b) => Rewriting(b)',
           \A b \in Accounts \cap W : changed'[b] = now,
           \A q \in Relays \ P : /\ stage'[q] \in {"install", "choose"} => stage'[q] = stage[q]
                                 /\ stage'[q] \in {"install", "choose"} =>
                                        /\ group'[q] = group[q] /\ started'[q] = started[q]
                                        /\ hand'[q] = hand[q]
    PROVE  SnapInv' /\ \A q \in Relays \ P : Loaded(q)' /\ Chooses(q)'
<1>1. ASSUME NEW e, NEW b \in Accounts \ W, Agrees(e, b) PROVE Agrees(e, b)'
  BY <1>1 DEF Agrees, TypeOK, Rows
<1>2. ASSUME NEW b \in Accounts \cap W, NEW g \in Groups PROVE ~ (changed'[b] < snap[g].loadedAt)
  <2>1. snap[g].loadedAt \in Int /\ snap[g].loadedAt <= now /\ now \in Nat
    <3>1. snap[g] = Nothing \/ snap[g] \in [loadedAt : 0..now, entry : [Members[g] -> Rows]]
      BY DEF TypeOK
    <3>2. CASE snap[g] = Nothing
      BY <3>2, SchedulerAssumption DEF TypeOK, Nothing
    <3>3. CASE snap[g] \in [loadedAt : 0..now, entry : [Members[g] -> Rows]]
      <4>1. snap[g].loadedAt \in 0..now
        BY <3>3
      <4> QED
        BY <4>1, SchedulerAssumption DEF TypeOK
    <3> QED
      BY <3>1, <3>2, <3>3
  <2> QED
    BY <1>2, <2>1
<1>3. ASSUME NEW b \in Accounts \cap W, NEW q \in Relays
      PROVE  ~ (changed'[b] < started[q]) /\ ~ (changed'[b] + TTL <= started[q])
  BY <1>3, SchedulerAssumption DEF TypeOK
<1>4. SnapInv'
  <2> SUFFICES ASSUME NEW g \in Groups, NEW b \in Members[g],
                      snap[g].loadedAt >= 0, changed'[b] < snap[g].loadedAt
               PROVE  Agrees(snap[g].entry[b], b)'
    BY DEF SnapInv
  <2>1. b \in Accounts \ W
    BY <1>2, MembersType
  <2>2. PICK e : e = snap[g].entry[b]
    OBVIOUS
  <2>3. Agrees(e, b)
    BY <2>1, <2>2 DEF RowInv, SnapInv
  <2>4. Agrees(e, b)'
    BY <1>1, <2>1, <2>3
  <2> QED
    BY <2>2, <2>4 DEF Agrees
<1>5. ASSUME NEW q \in Relays \ P PROVE Loaded(q)'
  <2> SUFFICES ASSUME stage'[q] = "install" PROVE Loaded(q)'
    BY DEF Loaded
  <2>1. /\ stage[q] = "install" /\ group'[q] = group[q] /\ started'[q] = started[q]
        /\ hand'[q] = hand[q]
    BY <1>5
  <2>2. Loaded(q)
    BY <1>5 DEF RowInv, LoadInv
  <2>3. ASSUME NEW b \in Members[group[q]], changed'[b] < started[q]
        PROVE  Agrees(hand[q].entry[b], b)'
    <3>1. b \in Accounts \ W
      BY <1>3, <1>5, <2>3, MembersType
    <3>2. PICK e : e = hand[q].entry[b]
      OBVIOUS
    <3>3. Agrees(e, b)'
      BY <1>1, <2>1, <2>2, <2>3, <3>1, <3>2 DEF Loaded
    <3> QED
      BY <2>1, <3>2, <3>3 DEF Agrees
  <2> QED
    BY <2>1, <2>2, <2>3 DEF Loaded, Agrees
<1>6. ASSUME NEW q \in Relays \ P PROVE Chooses(q)'
  <2> SUFFICES ASSUME stage'[q] = "choose" PROVE Chooses(q)'
    BY DEF Chooses
  <2>1. /\ stage[q] = "choose" /\ group'[q] = group[q] /\ started'[q] = started[q]
        /\ hand'[q] = hand[q]
    BY <1>6
  <2>2. Chooses(q)
    BY <1>6 DEF RowInv, PickInv
  <2>3. ASSUME NEW b \in Members[group[q]], changed'[b] + TTL <= started[q], ~ hand[q].shared
        PROVE  Agrees(hand[q].entry[b], b)'
    <3>1. b \in Accounts \ W
      BY <1>3, <1>6, <2>3, MembersType
    <3>2. PICK e : e = hand[q].entry[b]
      OBVIOUS
    <3>3. Agrees(e, b)'
      BY <1>1, <2>1, <2>2, <2>3, <3>1, <3>2 DEF Chooses
    <3> QED
      BY <2>1, <3>2, <3>3 DEF Agrees
  <2> QED
    BY <2>1, <2>2, <2>3 DEF Chooses, Agrees
<1> QED
  BY <1>4, <1>5, <1>6

(* No row is written: what is known of the rows is kept by all calls but p. *)
LEMMA CallRowsKept ==
    ASSUME TypeOK, RowInv, NEW p \in Relays, now' \in Nat, now <= now',
           UNCHANGED <<row, changed, snap>>, \A b : Rewriting(b) => Rewriting(b)',
           Stays(p), \A q \in Relays \ {p} : hand'[q] = hand[q]
    PROVE  SnapInv' /\ \A q \in Relays \ {p} : Loaded(q)' /\ Chooses(q)'
<1> DEFINE W == {}
           P == {p}
<1>1. /\ \A b \in Accounts \ W : /\ row'[b] = row[b] /\ changed'[b] = changed[b]
                                 /\ Rewriting(b) => Rewriting(b)'
      /\ \A b \in Accounts \cap W : changed'[b] = now
  OBVIOUS
<1>2. \A q \in Relays \ P : stage'[q] = stage[q] /\ group'[q] = group[q]
                            /\ started'[q] = started[q] /\ hand'[q] = hand[q]
  BY DEF Stays
<1>3. SnapInv' /\ \A q \in Relays \ P : Loaded(q)' /\ Chooses(q)'
  <2> HIDE DEF W, P
  <2> QED
    BY <1>1, <1>2, RowsKept
<1> QED
  BY <1>3


(* A report changes the entries of one account whose row is about to be     *)
(* written, and tells an enabled account from a disabled one as before.     *)
LEMMA ReportedKept ==
    ASSUME TypeOK, RowInv, NEW a, NEW until \in 0..(MaxTime + Cooldown), InSnapshots(a, until),
           NEW p \in Relays, UNCHANGED <<now, row, changed, group, started, hand>>,
           \A b : Rewriting(b) => Rewriting(b)',
           \/ Rewriting(a)'
           \/ \A g \in Groups : a \in DOMAIN snap[g].entry => snap[g].entry[a] = 0 /\ until = 0,
           \A q \in Relays : stage'[q] \in {"install", "choose"} => stage'[q] = stage[q]
    PROVE  RowInv'
<1>1. ASSUME NEW e, NEW b, Agrees(e, b) PROVE Agrees(e, b)'
  BY <1>1 DEF Agrees
<1>2. ASSUME NEW e, Agrees(e, a), Rewriting(a)' PROVE Agrees(Failing(e, until), a)'
  <2>1. until # Disabled
    BY SchedulerAssumption DEF Disabled
  <2> QED
    BY <1>2, <2>1 DEF Agrees, Failing
<1>3. ASSUME NEW g \in Groups, snap'[g].loadedAt >= 0
      PROVE  /\ snap'[g].loadedAt = snap[g].loadedAt
             /\ \A b \in Members[g] :
                   snap'[g].entry[b] = IF a = b THEN Failing(snap[g].entry[b], until)
                                                ELSE snap[g].entry[b]
  BY <1>3, SnapshotsType DEF Nothing
<1>4. SnapInv'
  <2> SUFFICES ASSUME NEW g \in Groups, NEW b \in Members[g],
                      snap'[g].loadedAt >= 0, changed[b] < snap'[g].loadedAt
               PROVE  Agrees(snap[g].entry[b], b)'
    BY DEF SnapInv, Agrees
  <2>1. PICK e : e = snap[g].entry[b]
    OBVIOUS
  <2>2. Agrees(e, b)
    BY <1>3, <2>1 DEF RowInv, SnapInv
  <2>3. PICK f : f = snap'[g].entry[b]
    OBVIOUS
  <2>4. CASE f = e
    BY <1>1, <2>2, <2>3, <2>4 DEF Agrees
  <2>5. CASE f # e
    <3>1. a = b /\ f = Failing(e, until)
      BY <1>3, <2>1, <2>3, <2>5
    <3>2. b \in DOMAIN snap[g].entry
      BY <1>3, SnapshotsType DEF TypeOK, Nothing
    <3>3. Rewriting(a)'
      BY <2>1, <2>5, <3>1, <3>2 DEF Failing
    <3>4. Agrees(f, b)'
      BY <1>2, <2>2, <3>1, <3>3
    <3> QED
      BY <2>3, <3>4 DEF Agrees
  <2> QED
    BY <2>4, <2>5
<1>5. ASSUME NEW q \in Relays PROVE Loaded(q)'
  <2> SUFFICES ASSUME stage'[q] = "install" PROVE Loaded(q)'
    BY DEF Loaded
  <2>1. Loaded(q) /\ stage[q] = "install"
    BY <1>5 DEF RowInv, LoadInv
  <2>2. ASSUME NEW b \in Members[group[q]], changed[b] < started[q]
        PROVE  Agrees(hand[q].entry[b], b)'
    <3>1. PICK e : e = hand[q].entry[b]
      OBVIOUS
    <3>2. Agrees(e, b)'
      BY <1>1, <2>1, <2>2, <3>1 DEF Loaded
    <3> QED
      BY <3>1, <3>2 DEF Agrees
  <2> QED
    BY <2>1, <2>2 DEF Loaded, Agrees
<1>6. ASSUME NEW q \in Relays PROVE Chooses(q)'
  <2> SUFFICES ASSUME stage'[q] = "choose" PROVE Chooses(q)'
    BY DEF Chooses
  <2>1. Chooses(q) /\ stage[q] = "choose" /\ group[q] \in Groups
    BY <1>6 DEF RowInv, PickInv, TypeOK
  <2>2. CASE hand[q].shared
    <3>1. snap'[group[q]].loadedAt = snap[group[q]].loadedAt
      BY <2>1, <2>2, SnapshotsType DEF Nothing, Chooses
    <3> QED
      BY <2>1, <2>2, <3>1 DEF Chooses
  <2>3. ASSUME NEW b \in Members[group[q]], changed[b] + TTL <= started[q], ~ hand[q].shared
        PROVE  Agrees(hand[q].entry[b], b)'
    <3>1. PICK e : e = hand[q].entry[b]
      OBVIOUS
    <3>2. Agrees(e, b)'
      BY <1>1, <2>1, <2>3, <3>1 DEF Chooses
    <3> QED
      BY <3>1, <3>2 DEF Agrees
  <2> QED
    BY <2>1, <2>2, <2>3 DEF Chooses, Agrees
<1> QED
  BY <1>4, <1>5, <1>6 DEF RowInv, LoadInv, PickInv

(* A pick that finds its group's snapshot fresh goes by it.                 *)
LEMMA LookRows ==
    ASSUME TypeOK, RowInv, NEW p \in Relays, Look(p), Stays(p)
    PROVE  RowInv'
<1> USE DEF Look, rows, shared, Goto
<1>1. SnapInv' /\ \A q \in Relays \ {p} : Loaded(q)' /\ Chooses(q)'
  <2>1. \A b : Rewriting(b) => Rewriting(b)'
    BY RewritingKept
  <2>2. \A q \in Relays \ {p} : hand'[q] = hand[q]
    BY DEF TypeOK
  <2>3. now' \in Nat /\ now <= now' /\ UNCHANGED <<row, changed, snap>>
    BY SchedulerAssumption DEF TypeOK
  <2> QED
    BY <2>1, <2>2, <2>3, CallRowsKept DEF Stays
<1>2. Loaded(p)'
  BY DEF Loaded, TypeOK
<1>3. Chooses(p)'
  <2> SUFFICES ASSUME stage'[p] = "choose" PROVE Chooses(p)'
    BY DEF Chooses
  <2>1. Fresh(group[p]) /\ hand'[p] = Current /\ started'[p] = now
    BY DEF TypeOK
  <2>2. UNCHANGED <<snap, group, now>> /\ group[p] \in Groups
    BY DEF TypeOK
  <2>3. snap[group[p]].loadedAt >= 0 /\ snap[group[p]].loadedAt + TTL > now
    <3>1. snap[group[p]].loadedAt \in 0..now
      BY <2>1, <2>2 DEF TypeOK, Fresh, Nothing
    <3> QED
      BY <2>1, <3>1, SchedulerAssumption DEF Fresh, TypeOK
  <2> QED
    BY <2>1, <2>2, <2>3 DEF Chooses, Current
<1> QED
  BY <1>1, <1>2, <1>3 DEF RowInv, LoadInv, PickInv

(* A read is the rows as they are.                                          *)
LEMMA LoadRows ==
    ASSUME TypeOK, RowInv, NEW p \in Relays, Load(p), Stays(p)
    PROVE  RowInv'
<1> USE DEF Load, rows, shared, Goto
<1>1. SnapInv' /\ \A q \in Relays \ {p} : Loaded(q)' /\ Chooses(q)'
  <2>1. \A b : Rewriting(b) => Rewriting(b)'
    BY RewritingKept
  <2>2. \A q \in Relays \ {p} : hand'[q] = hand[q]
    BY DEF TypeOK
  <2>3. now' \in Nat /\ now <= now' /\ UNCHANGED <<row, changed, snap>>
    BY SchedulerAssumption DEF TypeOK
  <2> QED
    BY <2>1, <2>2, <2>3, CallRowsKept DEF Stays
<1>2. Loaded(p)'
  <2>1. hand'[p] = [shared |-> FALSE, entry |-> [a \in Members[group[p]] |-> row[a]]]
    BY DEF TypeOK
  <2>2. [a \in Members[group[p]] |-> row[a]] \in [Members[group[p]] -> Rows]
    BY MembersType DEF TypeOK
  <2>3. ASSUME NEW a \in Members[group[p]] PROVE Agrees(hand[p].entry[a], a)'
    <3>1. hand'[p].entry[a] = row'[a] /\ row'[a] \in Rows
      BY <2>1, MembersType DEF TypeOK
    <3> QED
      BY <3>1 DEF Agrees, Rows
  <2>4. UNCHANGED <<group, started, changed>>
    OBVIOUS
  <2> QED
    BY <2>1, <2>2, <2>3, <2>4 DEF Loaded, Agrees
<1>3. Chooses(p)'
  BY DEF Chooses, TypeOK
<1> QED
  BY <1>1, <1>2, <1>3 DEF RowInv, LoadInv, PickInv

(* A snapshot that is installed counts from the time its pick began, and a  *)
(* pick that held the one it replaces goes on with what was known of it.    *)
LEMMA InstallRows ==
    ASSUME TypeOK, RowInv, NEW p \in Relays, Install(p), Stays(p)
    PROVE  RowInv'
<1> USE DEF Install, LoadedAt, rows, Goto
<1>1. UNCHANGED <<now, row, changed, group, started, account>> /\ stage'[p] = "choose"
  BY DEF TypeOK
<1>2. ASSUME NEW e, NEW b, Agrees(e, b) PROVE Agrees(e, b)'
  <2>1. Rewriting(b) => Rewriting(b)'
    BY RewritingKept
  <2> QED
    BY <1>1, <1>2, <2>1 DEF Agrees
<1>3. PICK g \in Groups : g = group[p]
  BY DEF TypeOK
<1>4. started[p] \in Nat /\ started[p] + TTL > started[p] /\ \A q \in Relays : started[q] \in Nat
  BY SchedulerAssumption DEF TypeOK
<1>5. CASE snap[g].loadedAt > started[p]
  <2>1. UNCHANGED snap /\ hand' = [hand EXCEPT ![p] = Current]
    BY <1>3, <1>5
  <2>2. SnapInv' /\ \A q \in Relays \ {p} : Loaded(q)' /\ Chooses(q)'
    <3>1. \A b : Rewriting(b) => Rewriting(b)'
      BY RewritingKept
    <3>2. \A q \in Relays \ {p} : hand'[q] = hand[q]
      BY <2>1 DEF TypeOK
    <3>3. now' \in Nat /\ now <= now'
      BY <1>1, SchedulerAssumption DEF TypeOK
    <3> QED
      BY <1>1, <2>1, <3>1, <3>2, <3>3, CallRowsKept
  <2>3. Loaded(p)'
    BY <1>1 DEF Loaded
  <2>4. Chooses(p)'
    <3>1. snap[g].loadedAt >= 0 /\ snap[g].loadedAt + TTL > started[p]
      <4>1. snap[g].loadedAt \in Int
        BY SchedulerAssumption DEF TypeOK, Nothing
      <4> QED
        BY <1>4, <1>5, <4>1, SchedulerAssumption
    <3> QED
      BY <1>1, <1>3, <2>1, <3>1 DEF Chooses, Current, TypeOK
  <2> QED
    BY <2>2, <2>3, <2>4 DEF RowInv, LoadInv, PickInv
<1>6. CASE ~ (snap[g].loadedAt > started[p])
  <2>1. /\ snap' = [snap EXCEPT ![g] = [loadedAt |-> started[p], entry |-> hand[p].entry]]
        /\ hand' = [Orphan(hand, g) EXCEPT ![p] = Current]
    BY <1>3, <1>6
  <2>2. Loaded(p) /\ stage[p] = "install"
    BY DEF RowInv, LoadInv
  <2>3. snap'[g].loadedAt = started[p] /\ snap'[g].entry = hand[p].entry
    BY <2>1 DEF TypeOK
  <2>4. ASSUME NEW k \in Groups \ {g} PROVE snap'[k] = snap[k]
    BY <2>1, <2>4 DEF TypeOK
  <2>5. ASSUME NEW q \in Relays \ {p}
        PROVE  hand'[q] = IF group[q] = g /\ hand[q].shared
                          THEN [shared |-> FALSE, entry |-> snap[g].entry] ELSE hand[q]
    BY <2>1, <2>5 DEF Orphan
  <2>6. SnapInv'
    <3> SUFFICES ASSUME NEW k \in Groups, NEW b \in Members[k],
                        snap'[k].loadedAt >= 0, changed'[b] < snap'[k].loadedAt
                 PROVE  Agrees(snap[k].entry[b], b)'
      BY DEF SnapInv
    <3>1. PICK e : e = snap'[k].entry[b]
      OBVIOUS
    <3>2. Agrees(e, b)
      <4>1. CASE k = g
        BY <1>1, <1>3, <2>2, <2>3, <3>1, <4>1 DEF Loaded
      <4>2. CASE k # g
        BY <1>1, <2>4, <3>1, <4>2 DEF RowInv, SnapInv
      <4> QED
        BY <4>1, <4>2
    <3> QED
      BY <1>2, <3>1, <3>2 DEF Agrees
  <2>7. Loaded(p)'
    BY <1>1 DEF Loaded
  <2>8. Chooses(p)'
    <3>1. hand'[p] = Current
      BY <2>1 DEF Orphan
    <3> QED
      BY <1>1, <1>3, <1>4, <2>3, <3>1 DEF Chooses, Current
  <2>9. ASSUME NEW q \in Relays \ {p} PROVE Loaded(q)'
    <3> SUFFICES ASSUME stage'[q] = "install" PROVE Loaded(q)'
      BY DEF Loaded
    <3>1. Loaded(q) /\ stage[q] = "install"
      BY <2>9 DEF RowInv, LoadInv, Stays
    <3>2. hand'[q] = hand[q]
      BY <2>5, <2>9, <3>1 DEF Loaded
    <3>3. ASSUME NEW b \in Members[group[q]], changed[b] < started[q]
          PROVE  Agrees(hand[q].entry[b], b)'
      <4>1. PICK e : e = hand[q].entry[b]
        OBVIOUS
      <4>2. Agrees(e, b)'
        BY <1>2, <3>1, <3>3, <4>1 DEF Loaded
      <4> QED
        BY <3>2, <4>1, <4>2 DEF Agrees
    <3> QED
      BY <1>1, <3>1, <3>2, <3>3 DEF Loaded, Agrees
  <2>10. ASSUME NEW q \in Relays \ {p} PROVE Chooses(q)'
    <3> SUFFICES ASSUME stage'[q] = "choose" PROVE Chooses(q)'
      BY DEF Chooses
    <3>1. Chooses(q) /\ stage[q] = "choose" /\ group[q] \in Groups
      BY <2>10 DEF RowInv, PickInv, Stays, TypeOK
    <3>2. CASE group[q] = g /\ hand[q].shared
      <4>1. hand'[q] = [shared |-> FALSE, entry |-> snap[g].entry]
        BY <2>5, <2>10, <3>2
      <4>2. snap[g].loadedAt >= 0 /\ snap[g].loadedAt + TTL > started[q]
        BY <3>1, <3>2 DEF Chooses
      <4>3. snap[g].entry \in [Members[g] -> Rows] /\ snap[g].loadedAt \in Nat
        BY <4>2, SchedulerAssumption DEF TypeOK, Nothing
      <4>4. ASSUME NEW b \in Members[g], changed[b] + TTL <= started[q]
            PROVE  Agrees(hand[q].entry[b], b)'
        <5>1. changed[b] \in Nat
          <6>1. b \in Accounts
            BY MembersType
          <6>2. changed[b] \in 0..now
            BY <6>1 DEF TypeOK
          <6> QED
            BY <6>2
        <5>2. changed[b] < snap[g].loadedAt
          BY <1>4, <2>10, <4>2, <4>3, <4>4, <5>1, SchedulerAssumption
        <5>3. PICK e : e = snap[g].entry[b]
          OBVIOUS
        <5>4. Agrees(e, b)
          BY <4>2, <5>2, <5>3 DEF RowInv, SnapInv
        <5> QED
          BY <1>2, <4>1, <5>3, <5>4 DEF Agrees
      <4> QED
        BY <1>1, <3>2, <4>1, <4>3, <4>4 DEF Chooses, Agrees
    <3>3. CASE group[q] # g /\ hand[q].shared
      <4>1. hand'[q] = hand[q] /\ snap'[group[q]] = snap[group[q]]
        BY <2>4, <2>5, <2>10, <3>1, <3>3
      <4> QED
        BY <1>1, <3>1, <3>3, <4>1 DEF Chooses
    <3>4. CASE ~ hand[q].shared
      <4>1. hand'[q] = hand[q]
        BY <2>5, <2>10, <3>4
      <4>2. ASSUME NEW b \in Members[group[q]], changed[b] + TTL <= started[q]
            PROVE  Agrees(hand[q].entry[b], b)'
        <5>1. PICK e : e = hand[q].entry[b]
          OBVIOUS
        <5>2. Agrees(e, b)'
          BY <1>2, <3>1, <3>4, <4>2, <5>1 DEF Chooses
        <5> QED
          BY <4>1, <5>1, <5>2 DEF Agrees
      <4> QED
        BY <1>1, <3>1, <3>4, <4>1, <4>2 DEF Chooses, Agrees
    <3> QED
      BY <3>2, <3>3, <3>4
  <2> QED
    BY <2>6, <2>7, <2>8, <2>9, <2>10 DEF RowInv, LoadInv, PickInv
<1> QED
  BY <1>5, <1>6

(* Steps of a call that leave the rows, the snapshots and its hold on them. *)
LEMMA QuietRows ==
    ASSUME TypeOK, RowInv, NEW p \in Relays, Stays(p), UNCHANGED <<now, row, changed, snap>>,
           \A q \in Relays \ {p} : hand'[q] = hand[q],
           stage[p] \notin {"repairing", "writing"}, stage'[p] \notin {"install", "choose"}
    PROVE  RowInv'
<1>1. now' \in Nat /\ now <= now'
  BY SchedulerAssumption DEF TypeOK
<1>2. SnapInv' /\ \A q \in Relays \ {p} : Loaded(q)' /\ Chooses(q)'
  BY <1>1, RewritingKept, CallRowsKept
<1>3. Loaded(p)' /\ Chooses(p)'
  BY DEF Loaded, Chooses
<1> QED
  BY <1>2, <1>3 DEF RowInv, LoadInv, PickInv

(* A row is written, by a call or by an administrator.                      *)
LEMMA WrittenRows ==
    ASSUME TypeOK, RowInv, NEW a, UNCHANGED <<now, snap>>,
           \A b \in Accounts \ {a} : row'[b] = row[b] /\ changed'[b] = changed[b],
           \A b \in Accounts \ {a} : Rewriting(b) => Rewriting(b)',
           a \in Accounts => changed'[a] = now,
           \A q \in Relays : stage'[q] \in {"install", "choose"} =>
                                /\ stage'[q] = stage[q] /\ group'[q] = group[q]
                                /\ started'[q] = started[q] /\ hand'[q] = hand[q]
    PROVE  RowInv'
<1> DEFINE W == {a}
           P == {}
<1>1. now' \in Nat /\ now <= now'
  BY SchedulerAssumption DEF TypeOK
<1>2. /\ \A b \in Accounts \ W : /\ row'[b] = row[b] /\ changed'[b] = changed[b]
                                 /\ Rewriting(b) => Rewriting(b)'
      /\ \A b \in Accounts \cap W : changed'[b] = now
  OBVIOUS
<1>3. \A q \in Relays \ P : stage'[q] \in {"install", "choose"} =>
                               /\ stage'[q] = stage[q] /\ group'[q] = group[q]
                               /\ started'[q] = started[q] /\ hand'[q] = hand[q]
  OBVIOUS
<1>4. SnapInv' /\ \A q \in Relays \ P : Loaded(q)' /\ Chooses(q)'
  <2> HIDE DEF W, P
  <2> QED
    BY <1>1, <1>2, <1>3, RowsKept
<1> QED
  BY <1>4 DEF RowInv, LoadInv, PickInv

LEMMA RowStep ==
    ASSUME TypeOK, RowInv, [Next]_vars
    PROVE  RowInv'
<1> USE DEF rows, shared, calls, loop
<1>1. ASSUME NEW p \in Relays, PickStep(p) \/ Mishap(p), UNCHANGED <<loop, edits>>
      PROVE  RowInv'
  <2>1. Stays(p)
    BY <1>1, PickStays
  <2>2. CASE Look(p) \/ Load(p) \/ Install(p)
    BY <2>1, <2>2, LookRows, LoadRows, InstallRows
  <2>3. CASE \/ NoneRoutable(p) \/ AllBusy(p) \/ Enter(p) \/ QueueFull(p) \/ Retry(p) \/ Mishap(p)
             \/ \E a \in Accounts : Choose(p, a)
    <3>1. UNCHANGED <<now, row, changed, snap>> /\ \A q \in Relays \ {p} : hand'[q] = hand[q]
      BY <2>3 DEF NoneRoutable, AllBusy, Enter, QueueFull, Retry, Mishap, LoadFails, StopWaiting,
                  Choose, Answer, Drop, TypeOK
    <3>2. stage[p] \notin {"repairing", "writing"} /\ stage'[p] \notin {"install", "choose"}
      BY <2>3 DEF NoneRoutable, AllBusy, Enter, QueueFull, Retry, Mishap, LoadFails, StopWaiting,
                  Choose, Answer, Goto, TypeOK
    <3> QED
      BY <2>1, <3>1, <3>2, QuietRows
  <2> QED
    BY <1>1, <2>2, <2>3 DEF PickStep
<1>2. ASSUME NEW p \in Relays, LoopStep(p) PROVE RowInv'
  <2>1. Stays(p)
    BY <1>2, LoopStays
  <2>2. CASE Attempt(p) \/ Advance(p) \/ Fail(p) \/ Succeed(p) \/ Finish(p)
    <3>1. UNCHANGED <<now, row, changed, snap, hand>>
      BY <2>2 DEF Attempt, Advance, Fail, Succeed, Finish
    <3>2. stage[p] \notin {"repairing", "writing"} /\ stage'[p] \notin {"install", "choose"}
      BY <2>2 DEF Attempt, Advance, Fail, Succeed, Finish, Goto, TypeOK
    <3> QED
      BY <2>1, <3>1, <3>2, QuietRows
  <2>3. CASE GiveUp(p) \/ Signal(p) \/ ReportFailureForModel(p)
    <3>1. UNCHANGED <<now, row, changed, snap, hand>>
      BY <2>3 DEF GiveUp, Signal, ReportFailureForModel, Over, Again
    <3>2. stage[p] \notin {"repairing", "writing"}
      BY <2>3 DEF GiveUp, Signal, ReportFailureForModel
    <3>3. Goto(p, "done") \/ Goto(p, "pick") \/ Goto(p, "reporting")
      BY <2>3 DEF GiveUp, Signal, ReportFailureForModel, Over, Again
    <3>4. stage'[p] \notin {"install", "choose"}
      BY <3>3 DEF Goto, TypeOK
    <3> QED
      BY <2>1, <3>1, <3>2, <3>4, QuietRows
  <2>4. CASE ReportSuccess(p)
    <3>1. /\ InSnapshots(account[p], 0) /\ stage[p] = "clearing"
          /\ UNCHANGED <<now, row, changed, group, started, hand, account>>
      BY <2>4 DEF ReportSuccess
    <3>2. PICK must \in MustRepair(account[p]) :
             Goto(p, IF must THEN "repairing" ELSE "streaming")
      BY <2>4 DEF ReportSuccess
    <3>3. PICK a : a = account[p]
      OBVIOUS
    <3>4. \/ Rewriting(a)'
          \/ \A g \in Groups : a \in DOMAIN snap[g].entry => snap[g].entry[a] = 0
      <4>1. CASE must
        BY <3>1, <3>2, <3>3, <4>1 DEF Rewriting, Goto, TypeOK
      <4>2. CASE ~ must
        BY <3>2, <3>3, <4>2 DEF MustRepair
      <4> QED
        BY <4>1, <4>2
    <3>5. \A b : Rewriting(b) => Rewriting(b)'
      BY <2>1, <3>1, RewritingKept
    <3>6. \A q \in Relays : stage'[q] \in {"install", "choose"} => stage'[q] = stage[q]
      BY <3>2 DEF Goto, TypeOK
    <3>7. 0 \in 0..(MaxTime + Cooldown)
      BY SchedulerAssumption
    <3> QED
      BY <3>1, <3>3, <3>4, <3>5, <3>6, <3>7, ReportedKept
  <2>5. CASE ReportFailure(p)
    <3>1. PICK cooldown \in 1..Cooldown : InSnapshots(account[p], now + cooldown)
      BY <2>5 DEF ReportFailure
    <3>2. /\ UNCHANGED <<now, row, changed, group, started, hand, account>>
          /\ stage[p] = "reporting" /\ Goto(p, "writing")
      BY <2>5 DEF ReportFailure
    <3>3. PICK a : a = account[p]
      OBVIOUS
    <3>4. PICK until \in 0..(MaxTime + Cooldown) : until = now + cooldown
      BY SchedulerAssumption DEF TypeOK
    <3>5. Rewriting(a)'
      BY <3>2, <3>3 DEF Rewriting, Goto, TypeOK
    <3>6. \A b : Rewriting(b) => Rewriting(b)'
      BY <2>1, <3>2, RewritingKept
    <3>7. \A q \in Relays : stage'[q] \in {"install", "choose"} => stage'[q] = stage[q]
      BY <3>2 DEF Goto, TypeOK
    <3> QED
      BY <3>1, <3>2, <3>3, <3>4, <3>5, <3>6, <3>7, ReportedKept
  <2>6. CASE Repair(p) \/ Write(p)
    <3>1. PICK a : a = account[p]
      OBVIOUS
    <3>2. UNCHANGED <<now, snap, hand>> /\ changed' = [changed EXCEPT ![a] = now]
      BY <2>6, <3>1 DEF Repair, Write, Over, Again
    <3>3. \A b \in Accounts \ {a} : row'[b] = row[b] /\ changed'[b] = changed[b]
      BY <2>6, <3>1, <3>2 DEF Repair, Write, TypeOK
    <3>4. a \in Accounts => changed'[a] = now
      BY <3>2 DEF TypeOK
    <3>5. \A b : b # a => (Rewriting(b) => Rewriting(b)')
      BY <2>1, <3>1 DEF Rewriting, Stays
    <3>6. Goto(p, "done") \/ Goto(p, "pick") \/ Goto(p, "streaming")
      BY <2>6 DEF Repair, Write, Over, Again
    <3>7. \A q \in Relays : stage'[q] \in {"install", "choose"} =>
                               /\ stage'[q] = stage[q] /\ group'[q] = group[q]
                               /\ started'[q] = started[q] /\ hand'[q] = hand[q]
      BY <2>1, <3>2, <3>6 DEF Goto, Stays, TypeOK
    <3> QED
      BY <3>2, <3>3, <3>4, <3>5, <3>7, WrittenRows
  <2> QED
    BY <1>2, <2>2, <2>3, <2>4, <2>5, <2>6 DEF LoopStep
<1>3. ASSUME NEW p \in Relays, Arrive(p) PROVE RowInv'
  <2>1. Stays(p)
    BY <1>3, CallStays
  <2>2. UNCHANGED <<now, row, changed, snap, hand>> /\ stage[p] = "new" /\ stage'[p] = "pick"
    BY <1>3 DEF Arrive, Goto, TypeOK
  <2> QED
    BY <2>1, <2>2, QuietRows
<1>4. ASSUME NEW a \in Unsteady, Edit(a) PROVE RowInv'
  <2>1. UNCHANGED <<now, snap, hand, stage, group, started, account>>
    BY <1>4 DEF Edit
  <2>2. \A b : Rewriting(b) => Rewriting(b)'
    BY <2>1 DEF Rewriting
  <2>3. /\ \A b \in Accounts \ {a} : row'[b] = row[b] /\ changed'[b] = changed[b]
        /\ a \in Accounts => changed'[a] = now
    BY <1>4 DEF Edit, TypeOK
  <2> QED
    BY <2>1, <2>2, <2>3, WrittenRows
<1>5. ASSUME Tick, UNCHANGED <<loop, edits>> PROVE RowInv'
  <2> DEFINE W == {}
             P == {}
  <2>1. now' \in Nat /\ now <= now' /\ UNCHANGED snap
    BY <1>5, SchedulerAssumption DEF Tick, TypeOK
  <2>2. UNCHANGED <<row, changed, stage, group, started, hand, account>>
    BY <1>5 DEF Tick
  <2>3. \A b : Rewriting(b) => Rewriting(b)'
    BY <2>2 DEF Rewriting
  <2>4. SnapInv' /\ \A q \in Relays \ P : Loaded(q)' /\ Chooses(q)'
    <3>1. Accounts \cap W = {}
      OBVIOUS
    <3> HIDE DEF W, P
    <3> QED
      BY <2>1, <2>2, <2>3, <3>1, RowsKept
  <2> QED
    BY <2>4 DEF RowInv, LoadInv, PickInv
<1>6. ASSUME UNCHANGED vars PROVE RowInv'
  <2>1. UNCHANGED <<now, row, changed, snap, stage, group, started, hand, account>>
    BY <1>6 DEF vars, sched
  <2> QED
    BY <2>1 DEF RowInv, SnapInv, LoadInv, PickInv, Loaded, Chooses, Agrees, Rewriting
<1> QED
  BY <1>1, <1>2, <1>3, <1>4, <1>5, <1>6 DEF Next, CallStep

-----------------------------------------------------------------------------
(* The invariant holds to start with ...                                    *)
LEMMA InvariantInit == Init => RelayInv
<1> SUFFICES ASSUME Init PROVE RelayInv
  OBVIOUS
<1>1. TypeOK
  BY TypeInit
<1>2. RouteInv
  BY DEF Init, RouteInv
<1>3. SlotInv
  <2>1. ASSUME NEW a PROVE Owners(a) = {}
    BY DEF Init, Owners, HasAccount
  <2>2. Waiters = {} /\ waiting = 0 /\ inFlight = [a \in Accounts |-> 0]
    BY DEF Init, Waiters
  <2>3. \E d \in QueueDepths : 0 <= d
    <3>1. PICK d : d \in QueueDepths
      BY SchedulerAssumption
    <3>2. d \in Nat
      BY <3>1, SchedulerAssumption
    <3> QED
      BY <3>1, <3>2
  <2>4. Cardinality({}) = 0
    BY FS_EmptySet
  <2>5. QueueInv
    BY <2>2, <2>3, <2>4 DEF QueueInv
  <2>6. AccountInv
    <3>1. ASSUME NEW a \in Accounts PROVE inFlight[a] = 0 /\ Cardinality(Owners(a)) = 0 /\ Slots[a] \in Nat
      <4>1. inFlight[a] = 0
        BY <2>2
      <4>2. Cardinality(Owners(a)) = 0
        BY <2>1, <2>4
      <4> QED
        BY <4>1, <4>2, SchedulerAssumption
    <3> QED
      BY <3>1 DEF AccountInv
  <2> QED
    BY <2>5, <2>6 DEF SlotInv
<1>4. TriedInv
  BY FS_EmptySet, RelayAssumption DEF Init, TriedInv, Picking
<1>5. RowInv
  BY DEF Init, RowInv, SnapInv, LoadInv, Loaded, PickInv, Chooses, Nothing
<1> QED
  BY <1>1, <1>2, <1>3, <1>4, <1>5 DEF RelayInv

(* ... and every step keeps it.                                             *)
LEMMA InvariantStep == RelayInv /\ [Next]_vars => RelayInv'
BY TypeStep, RouteStep, AccountStep, QueueStep, TriedStep, RowStep DEF RelayInv, SlotInv, RowInv

(* Relay's inductive invariant.                                             *)
THEOREM Invariant == Spec => []RelayInv
BY InvariantInit, InvariantStep, PTL DEF Spec

(* Type correctness, for any number of calls, accounts and groups.          *)
THEOREM TypeCorrect == Spec => []TypeOK
<1>1. RelayInv => TypeOK
  BY DEF RelayInv
<1> QED
  BY <1>1, Invariant, PTL

(* Gateway.relay: whatever fails, the slots of an account are the calls     *)
(* that have it, within its limit, the queue is as long as it says, within  *)
(* its own, and a call is sent to no account twice and at most MaxAttempts  *)
(* times.                                                                   *)
THEOREM SlotsAreExact == Spec => []AccountSlotsExact
<1>1. RelayInv => AccountSlotsExact
  BY DEF RelayInv, SlotInv, AccountInv, QueueInv, TriedInv, Owners, Waiters, AccountSlotsExact
<1> QED
  BY <1>1, Invariant, PTL

(* Scheduler.pick: a row that was written a TTL before a pick began is what *)
(* the pick goes by, however many reads of the rows overlap.                *)
THEOREM PicksSeeRows == Spec => []RowsSeenInTime
<1>1. RelayInv => RowsSeenInTime
  <2> SUFFICES ASSUME RelayInv, NEW p \in Relays, stage[p] = "choose",
                      NEW a \in Members[group[p]], changed[a] + TTL <= started[p]
               PROVE  /\ (Entry(p, a) = Disabled) = (row[a] = Disabled)
                      /\ row[a] > now => Entry(p, a) > started[p] \/ Rewriting(a)
    BY DEF RowsSeenInTime
  <2>1. TypeOK /\ SnapInv /\ Chooses(p)
    BY DEF RelayInv, RowInv, PickInv
  <2>2. PICK g \in Groups : g = group[p]
    BY <2>1 DEF TypeOK
  <2>3. a \in Accounts
    BY <2>1, MembersType
  <2>4. changed[a] \in Nat /\ row[a] \in Nat /\ started[p] \in Nat /\ started[p] <= now /\ now \in Nat
    BY <2>1, <2>3, SchedulerAssumption DEF TypeOK, Rows
  <2>5. Agrees(Entry(p, a), a) /\ Entry(p, a) \in Nat
    <3>1. CASE hand[p].shared
      <4>1. snap[g].loadedAt >= 0 /\ snap[g].loadedAt + TTL > started[p]
        BY <2>1, <2>2, <3>1 DEF Chooses
      <4>2. snap[g].loadedAt \in Nat /\ snap[g].entry \in [Members[g] -> Rows]
        BY <2>1, <4>1, SchedulerAssumption DEF TypeOK, Nothing
      <4>3. changed[a] < snap[g].loadedAt
        BY <2>4, <4>1, <4>2, SchedulerAssumption
      <4> QED
        BY <2>1, <2>2, <3>1, <4>1, <4>2, <4>3 DEF SnapInv, Entry, Rows
    <3>2. CASE ~ hand[p].shared
      BY <2>1, <3>2 DEF Chooses, Entry, Rows
    <3> QED
      BY <3>1, <3>2
  <2>6. PICK e \in Nat : e = Entry(p, a)
    BY <2>5
  <2> QED
    BY <2>4, <2>5, <2>6 DEF Agrees
<1> QED
  BY <1>1, Invariant, PTL
=============================================================================
