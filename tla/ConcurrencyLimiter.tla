------------------------- MODULE ConcurrencyLimiter -------------------------
(***************************************************************************)
(* ClientConcurrencyLimiter: the in-memory user and API-key slots a call    *)
(* takes before it reserves a budget.  A process is one goroutine inside    *)
(* Acquire ... Release.  Every action is one critical section of l.mu or    *)
(* the select statement; signal() locks again after Release unlocked, so    *)
(* other goroutines run between the two.                                    *)
(*                                                                          *)
(* The notify channel is modelled by who captured the current one: closing  *)
(* it wakes exactly the goroutines parked on it, and later ones park on     *)
(* its successor.                                                           *)
(***************************************************************************)
EXTENDS Integers, FiniteSets

CONSTANTS
    Procs, Users, Keys,
    Owner,          \* the user of a key
    UserLimits,     \* the limits a user's policy may have, 0 is "unlimited"
    KeyLimits,      \* ... and a key's; a call carries the values it read
    QueueDepths,    \* ConcurrencyQueueDepth, as policies may set it
    MaxCalls,       \* bound: calls that ever enter Acquire
    NoKey

ASSUME LimiterAssumption ==
    /\ IsFiniteSet(Procs)
    /\ Owner \in [Keys -> Users] /\ NoKey \notin Keys
    /\ UserLimits \in [Users -> SUBSET Nat] /\ KeyLimits \in [Keys -> SUBSET Nat]
    /\ QueueDepths \subseteq Nat /\ MaxCalls \in Nat

VARIABLES
    users, keys, waiters,       \* the limiter's fields
    pc, key, userLimit, keyLimit, maxWaiters, queued, woken,  \* goroutine locals
    calls

shared == <<users, keys, waiters>>
locals == <<key, userLimit, keyLimit, maxWaiters>>
vars   == <<shared, pc, locals, queued, woken, calls>>

Stages == {"idle", "trying", "parked", "leaving", "holding", "signalling"}

Init ==
    /\ users = [u \in Users |-> 0] /\ keys = [k \in Keys |-> 0]
    /\ waiters = 0
    /\ pc = [p \in Procs |-> "idle"] /\ key = [p \in Procs |-> NoKey]
    /\ userLimit = [p \in Procs |-> 0] /\ keyLimit = [p \in Procs |-> 0]
    /\ maxWaiters = [p \in Procs |-> 0]
    /\ queued = [p \in Procs |-> FALSE] /\ woken = [p \in Procs |-> FALSE]
    /\ calls = 0

User(p) == Owner[key[p]]
Goto(p, stage) == pc' = [pc EXCEPT ![p] = stage]

(* A call arrives with the limits its authentication and the policy gave.   *)
Enter(p, k, ul, kl, depth) ==
    /\ pc[p] = "idle" /\ calls < MaxCalls
    /\ Goto(p, "trying")
    /\ key' = [key EXCEPT ![p] = k]
    /\ userLimit' = [userLimit EXCEPT ![p] = ul]
    /\ keyLimit' = [keyLimit EXCEPT ![p] = kl]
    /\ maxWaiters' = [maxWaiters EXCEPT ![p] = depth]
    /\ calls' = calls + 1
    /\ UNCHANGED <<shared, queued, woken>>

(* Mutant of Available: the key slot is forgotten.                          *)
AvailableUserOnly(p) == userLimit[p] = 0 \/ users[User(p)] < userLimit[p]

Available(p) ==
    /\ userLimit[p] = 0 \/ users[User(p)] < userLimit[p]
    /\ keyLimit[p] = 0 \/ keys[key[p]] < keyLimit[p]

(* Both slots are taken together; a queued call leaves the queue.           *)
Admit(p) ==
    /\ pc[p] = "trying" /\ Available(p)
    /\ users' = [users EXCEPT ![User(p)] = @ + 1]
    /\ keys' = [keys EXCEPT ![key[p]] = @ + 1]
    /\ waiters' = IF queued[p] /\ waiters > 0 THEN waiters - 1 ELSE waiters
    /\ queued' = [queued EXCEPT ![p] = FALSE]
    /\ Goto(p, "holding")
    /\ UNCHANGED <<locals, woken, calls>>

(* No slot and no room to wait: ErrConcurrencyQueueFull.                    *)
Refuse(p) ==
    /\ pc[p] = "trying" /\ ~Available(p) /\ ~queued[p] /\ waiters >= maxWaiters[p]
    /\ Goto(p, "leaving")
    /\ UNCHANGED <<shared, locals, queued, woken, calls>>

(* Join the queue once, and park on the notify channel read under the lock. *)
Park(p) ==
    /\ pc[p] = "trying" /\ ~Available(p)
    /\ queued[p] \/ waiters < maxWaiters[p]
    /\ waiters' = IF queued[p] THEN waiters ELSE waiters + 1
    /\ queued' = [queued EXCEPT ![p] = TRUE]
    /\ Goto(p, "parked")
    /\ UNCHANGED <<users, keys, locals, woken, calls>>

(* select: the channel was closed, try again ...                            *)
Retry(p) ==
    /\ pc[p] = "parked" /\ woken[p]
    /\ Goto(p, "trying")
    /\ woken' = [woken EXCEPT ![p] = FALSE]
    /\ UNCHANGED <<shared, locals, queued, calls>>

(* ... or the timer fired or the client went away: even when also woken.    *)
StopWaiting(p) ==
    /\ pc[p] = "parked"
    /\ Goto(p, "leaving")
    /\ UNCHANGED <<shared, locals, queued, woken, calls>>

Forget(p) ==
    /\ key' = [key EXCEPT ![p] = NoKey]
    /\ userLimit' = [userLimit EXCEPT ![p] = 0]
    /\ keyLimit' = [keyLimit EXCEPT ![p] = 0]
    /\ maxWaiters' = [maxWaiters EXCEPT ![p] = 0]

(* The deferred dequeue of a call that got no slot.                         *)
Dequeue(p) ==
    /\ pc[p] = "leaving"
    /\ waiters' = IF queued[p] /\ waiters > 0 THEN waiters - 1 ELSE waiters
    /\ queued' = [queued EXCEPT ![p] = FALSE]
    /\ woken' = [woken EXCEPT ![p] = FALSE]
    /\ Goto(p, "idle") /\ Forget(p)
    /\ UNCHANGED <<users, keys, calls>>

(* decrementConcurrencyCount: deleting the entry is a count of zero.        *)
Decremented(n) == IF n <= 1 THEN 0 ELSE n - 1

(* Release gives both slots back under the lock ...                         *)
Release(p) ==
    /\ pc[p] = "holding"
    /\ users' = [users EXCEPT ![User(p)] = Decremented(@)]
    /\ keys' = [keys EXCEPT ![key[p]] = Decremented(@)]
    /\ Goto(p, "signalling")
    /\ UNCHANGED <<waiters, locals, queued, woken, calls>>

(* Mutant of Signal: the channel is not closed.                             *)
SignalNobody(p) ==
    /\ pc[p] = "signalling"
    /\ Goto(p, "idle") /\ Forget(p)
    /\ UNCHANGED <<shared, queued, woken, calls>>

(* ... and signal closes the channel in a critical section of its own,      *)
(* waking everyone parked on it.                                            *)
Signal(p) ==
    /\ pc[p] = "signalling"
    /\ Goto(p, "idle") /\ Forget(p)
    /\ woken' = [q \in Procs |-> woken[q] \/ pc[q] = "parked"]
    /\ UNCHANGED <<shared, queued, calls>>

Arrive(p) ==
    \E k \in Keys, depth \in QueueDepths :
        \E ul \in UserLimits[Owner[k]], kl \in KeyLimits[k] :
            Enter(p, k, ul, kl, depth)

Step(p) ==
    \/ Admit(p) \/ Refuse(p) \/ Park(p) \/ Retry(p) \/ StopWaiting(p)
    \/ Dequeue(p) \/ Release(p) \/ Signal(p)

Next == \E p \in Procs : Arrive(p) \/ Step(p)

Spec == Init /\ [][Next]_vars

(* A call runs to its end: upstream timeouts bound how long it holds its     *)
(* slots.  No timer is relied on: StopWaiting may never happen.             *)
RunFairness ==
    \A p \in Procs :
        WF_vars(Admit(p) \/ Refuse(p) \/ Park(p) \/ Retry(p) \/ Dequeue(p)
                \/ Release(p) \/ Signal(p))

FairSpec == Spec /\ RunFairness

-----------------------------------------------------------------------------
Holders == {p \in Procs : pc[p] = "holding"}
Holding(u) == {p \in Holders : User(p) = u}
HoldingKey(k) == {p \in Holders : key[p] = k}

(* Types; a call in progress has a key.                                     *)
TypeOK ==
    /\ users \in [Users -> Nat] /\ keys \in [Keys -> Nat] /\ waiters \in Nat
    /\ pc \in [Procs -> Stages] /\ key \in [Procs -> Keys \cup {NoKey}]
    /\ userLimit \in [Procs -> Nat] /\ keyLimit \in [Procs -> Nat]
    /\ maxWaiters \in [Procs -> Nat]
    /\ queued \in [Procs -> BOOLEAN] /\ woken \in [Procs -> BOOLEAN]
    /\ calls \in Nat
    /\ \A p \in Procs : pc[p] # "idle" => key[p] \in Keys

(* The counters count the leases and the queue counts its members: no slot  *)
(* is lost by a cancelled, timed-out or refused call and none is given back *)
(* twice.                                                                   *)
CountsExact ==
    /\ \A u \in Users : users[u] = Cardinality(Holding(u))
    /\ \A k \in Keys : keys[k] = Cardinality(HoldingKey(k))
    /\ waiters = Cardinality({p \in Procs : queued[p]})
    /\ \A p \in Procs : queued[p] => pc[p] \in {"trying", "parked", "leaving"}

(* Limits may be edited while calls run, but never are more calls of a user *)
(* or of a key active, nor more calls queued, than the limit under which    *)
(* one of them was admitted or queued.                                      *)
WithinAdmittedLimit ==
    /\ \A u \in Users : users[u] > 0 =>
          \E p \in Holding(u) : userLimit[p] = 0 \/ users[u] <= userLimit[p]
    /\ \A k \in Keys : keys[k] > 0 =>
          \E p \in HoldingKey(k) : keyLimit[p] = 0 \/ keys[k] <= keyLimit[p]
    /\ waiters > 0 => \E p \in Procs : queued[p] /\ waiters <= maxWaiters[p]

(* The slots of a user and of a key are the calls that hold them, and no    *)
(* call was let in beyond the limit it, or one beside it, was admitted with. *)
SlotsSound == TypeOK /\ CountsExact /\ WithinAdmittedLimit

(* No wake-up is lost: a call parked although its slots are free has been   *)
(* woken, or the call that freed them is about to signal.                   *)
NoLostWakeup ==
    \A p \in Procs :
        pc[p] = "parked" /\ Available(p) /\ ~woken[p]
            => \E q \in Procs : pc[q] = "signalling"

(* Even if no timer ever fires, every call is eventually admitted, refused  *)
(* or gone: nobody stays parked once the calls before it have finished.     *)
NobodyStuck == \A p \in Procs : pc[p] = "parked" ~> pc[p] # "parked"
=============================================================================
