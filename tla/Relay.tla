------------------------------- MODULE Relay --------------------------------
(***************************************************************************)
(* The attempt loop of Gateway.relay over the Scheduler: a call goes        *)
(* through the groups of its route, picks an account it has not tried,      *)
(* forwards, and gives the slot back on every way out of an attempt before  *)
(* it reports how the account did.                                          *)
(***************************************************************************)
EXTENDS Scheduler

CONSTANTS
    MaxAttempts,    \* relayAttempts
    Unsteady,       \* bound: accounts that may fail or be edited
    MaxEdits        \* bound: writes of an administrator

(* The runtime policy allows one attempt at least.                          *)
ASSUME RelayAssumption ==
    MaxAttempts \in Nat \ {0} /\ Unsteady \subseteq Accounts /\ MaxEdits \in Nat

VARIABLES
    unavailable, attempts, verdict, coolUntil,      \* of a call
    edits

loop == <<unavailable, attempts, verdict, coolUntil>>
vars == <<sched, loop, edits>>

Init ==
    /\ now = 0
    /\ row = [a \in Accounts |-> 0] /\ changed = [a \in Accounts |-> 0]
    /\ snap = [g \in Groups |-> Nothing] /\ inFlight = [a \in Accounts |-> 0]
    /\ circuit = [a \in Accounts |-> "closed"] /\ waiting = 0
    /\ stage = [p \in Relays |-> "new"] /\ group = [p \in Relays |-> 1]
    /\ tried = [p \in Relays |-> {}] /\ started = [p \in Relays |-> 0]
    /\ hand = [p \in Relays |-> Current]
    /\ queued = [p \in Relays |-> FALSE] /\ woken = [p \in Relays |-> FALSE]
    /\ account = [p \in Relays |-> NoAccount] /\ result = [p \in Relays |-> "none"]
    /\ unavailable = [p \in Relays |-> {}] /\ attempts = [p \in Relays |-> 0]
    /\ verdict = [p \in Relays |-> "none"] /\ coolUntil = [p \in Relays |-> 0]
    /\ edits = 0

Arrive(p) ==
    /\ stage[p] = "new"
    /\ Goto(p, "pick")
    /\ UNCHANGED <<now, rows, shared, calls, loop, edits>>

(* What a call's goroutine knew goes with it.                               *)
Over(p) ==
    /\ Goto(p, "done")
    /\ group' = [group EXCEPT ![p] = 1] /\ tried' = [tried EXCEPT ![p] = {}]
    /\ account' = [account EXCEPT ![p] = NoAccount]
    /\ result' = [result EXCEPT ![p] = "none"] /\ UNCHANGED <<started, hand>>
    /\ unavailable' = [unavailable EXCEPT ![p] = {}]
    /\ attempts' = [attempts EXCEPT ![p] = 0]
    /\ verdict' = [verdict EXCEPT ![p] = "none"]
    /\ coolUntil' = [coolUntil EXCEPT ![p] = 0]

-----------------------------------------------------------------------------
(* advanceGroup: the next group round the route that is not unavailable,    *)
(* which may be the same again, or 0.                                       *)
NextGroup(g, closed) ==
    LET n == Len(Members)
        at(k) == ((g - 1 + k) % n) + 1
        open == {k \in 1..n : at(k) \notin closed}
    IN  IF open = {} THEN 0 ELSE at(CHOOSE k \in open : \A j \in open : k <= j)

Closing(p) == unavailable[p] \cup {group[p]}

(* An account was picked: it is tried, and the attempt counts.              *)
Attempt(p) ==
    /\ stage[p] = "returned" /\ result[p] = "account"
    /\ Dequeue(p)
    /\ tried' = [tried EXCEPT ![p] = @ \cup {account[p]}]
    /\ attempts' = [attempts EXCEPT ![p] = @ + 1]
    /\ Goto(p, "calling")
    /\ UNCHANGED <<now, rows, snap, inFlight, circuit, group, started, hand, account, result,
                   unavailable, verdict, coolUntil, edits>>

(* The group has no account, or only busy ones: on to the next ...          *)
Advance(p) ==
    LET g == NextGroup(group[p], Closing(p)) IN
    /\ stage[p] = "returned" /\ result[p] \in {"none", "busy"} /\ g # 0
    /\ Dequeue(p)
    /\ unavailable' = [unavailable EXCEPT ![p] = Closing(p)]
    /\ group' = [group EXCEPT ![p] = g] /\ result' = [result EXCEPT ![p] = "none"]
    /\ Goto(p, "pick")
    /\ UNCHANGED <<now, rows, snap, inFlight, circuit, tried, started, hand, account,
                   attempts, verdict, coolUntil, edits>>

(* ... or the call ends: 429, 503, the last upstream error, 500, nothing.   *)
GiveUp(p) ==
    /\ stage[p] = "returned"
    /\ \/ result[p] = "over"
       \/ result[p] \in {"none", "busy"} /\ NextGroup(group[p], Closing(p)) = 0
    /\ Dequeue(p)
    /\ Over(p)
    /\ UNCHANGED <<now, rows, snap, inFlight, circuit, edits>>

-----------------------------------------------------------------------------
(* How an attempt ended: a failure of the account or of the model on it,    *)
(* which are reported; a protocol it does not speak, which is not; or the   *)
(* call is over: served, refused by the upstream for good, hung up.         *)
Reported == {"account", "model"}
Endings(p) == IF account[p] \in Unsteady THEN Reported \cup {"unsupported", "over"}
                                        ELSE {"over"}

(* Slip of Fail: an account that cannot take the request keeps its slot.    *)
FailUnreleased(p) ==
    /\ stage[p] = "calling"
    /\ \E v \in Endings(p) :
          /\ verdict' = [verdict EXCEPT ![p] = v]
          /\ IF v = "unsupported" THEN UNCHANGED inFlight ELSE FreeSlot(account[p])
    /\ Goto(p, "signalling")
    /\ UNCHANGED <<now, rows, snap, circuit, waiting, calls, unavailable, attempts, coolUntil,
                   edits>>

(* forward ended without a success: the slot is released first.             *)
Fail(p) ==
    /\ stage[p] = "calling"
    /\ \E v \in Endings(p) : verdict' = [verdict EXCEPT ![p] = v]
    /\ FreeSlot(account[p])
    /\ Goto(p, "signalling")
    /\ UNCHANGED <<now, rows, snap, circuit, waiting, calls, unavailable, attempts, coolUntil,
                   edits>>

(* forward succeeded: the circuit of the model is closed ...                *)
Succeed(p) ==
    /\ stage[p] = "calling"
    /\ circuit' = [circuit EXCEPT ![account[p]] = "closed"]
    /\ Goto(p, "clearing")
    /\ UNCHANGED <<now, rows, snap, inFlight, waiting, calls, loop, edits>>

(* ... the snapshots' entries are cleaned, the row only if they were not    *)
(* clean before ...                                                         *)
ReportSuccess(p) ==
    /\ stage[p] = "clearing"
    /\ InSnapshots(account[p], 0)
    /\ \E must \in MustRepair(account[p]) : Goto(p, IF must THEN "repairing" ELSE "streaming")
    /\ UNCHANGED <<now, rows, inFlight, circuit, waiting, calls, loop, edits>>
Repair(p) ==
    /\ stage[p] = "repairing"
    /\ row' = [row EXCEPT ![account[p]] = Failing(@, 0)]
    /\ changed' = [changed EXCEPT ![account[p]] = now]
    /\ Goto(p, "streaming")
    /\ UNCHANGED <<now, shared, calls, loop, edits>>

(* ... and the answer is piped to the client before the slot is released.   *)
Finish(p) ==
    /\ stage[p] = "streaming"
    /\ verdict' = [verdict EXCEPT ![p] = "over"]
    /\ FreeSlot(account[p])
    /\ Goto(p, "signalling")
    /\ UNCHANGED <<now, rows, snap, circuit, waiting, calls, unavailable, attempts, coolUntil,
                   edits>>

-----------------------------------------------------------------------------
(* The head of the loop: attempts are left and the client is there.         *)
Again(p, g) ==
    /\ attempts[p] < MaxAttempts
    /\ Goto(p, "pick")
    /\ group' = [group EXCEPT ![p] = g]
    /\ account' = [account EXCEPT ![p] = NoAccount]
    /\ result' = [result EXCEPT ![p] = "none"] /\ verdict' = [verdict EXCEPT ![p] = "none"]
    /\ coolUntil' = [coolUntil EXCEPT ![p] = 0]
    /\ UNCHANGED <<tried, started, hand, unavailable, attempts>>

Signal(p) ==
    /\ stage[p] = "signalling"
    /\ SignalSlot
    /\ CASE verdict[p] \in Reported -> /\ Goto(p, "reporting")
                                     /\ UNCHANGED <<group, tried, started, hand, account,
                                                    result, loop>>
         [] verdict[p] = "over" -> Over(p)
         [] OTHER -> Again(p, group[p]) \/ Over(p)
    /\ UNCHANGED <<now, rows, shared, queued, edits>>

(* ReportFailure: the cooldown of this kind of failure, which may be shorter *)
(* than an earlier one, in every snapshot, then in the row ...              *)
ReportFailure(p) ==
    /\ stage[p] = "reporting" /\ verdict[p] = "account"
    /\ \E cooldown \in 1..Cooldown :
          /\ coolUntil' = [coolUntil EXCEPT ![p] = now + cooldown]
          /\ InSnapshots(account[p], now + cooldown)
    /\ Goto(p, "writing")
    /\ UNCHANGED <<now, rows, inFlight, circuit, waiting, calls, unavailable, attempts,
                   verdict, edits>>
Write(p) ==
    /\ stage[p] = "writing"
    /\ row' = [row EXCEPT ![account[p]] = Failing(@, coolUntil[p])]
    /\ changed' = [changed EXCEPT ![account[p]] = now]
    /\ Again(p, NextGroup(group[p], unavailable[p])) \/ Over(p)
    /\ UNCHANGED <<now, shared, queued, woken, edits>>

(* ... or ReportFailureForModel opens the circuit of the model.  Then the   *)
(* next group of the route, which may be the same.                          *)
ReportFailureForModel(p) ==
    /\ stage[p] = "reporting" /\ verdict[p] = "model"
    /\ circuit' = [circuit EXCEPT ![account[p]] = "blocked"]
    /\ Again(p, NextGroup(group[p], unavailable[p])) \/ Over(p)
    /\ UNCHANGED <<now, rows, snap, inFlight, waiting, queued, woken, edits>>

(* An administrator disables an account, or activates it and so forgives    *)
(* its failures.  Neither tells the scheduler.                              *)
Edit(a) ==
    /\ now + TTL <= MaxTime /\ edits < MaxEdits /\ edits' = edits + 1
    /\ row' = [row EXCEPT ![a] = IF @ = Disabled THEN 0 ELSE Disabled]
    /\ changed' = [changed EXCEPT ![a] = now]
    /\ UNCHANGED <<now, shared, stage, calls, loop>>

-----------------------------------------------------------------------------
PickStep(p) ==
    \/ Look(p) \/ Load(p) \/ Install(p) \/ NoneRoutable(p) \/ AllBusy(p)
    \/ Enter(p) \/ QueueFull(p) \/ Retry(p) \/ \E a \in Accounts : Choose(p, a)
Mishap(p) == LoadFails(p) \/ StopWaiting(p)
LoopStep(p) ==
    \/ Attempt(p) \/ Advance(p) \/ GiveUp(p) \/ Fail(p) \/ Succeed(p) \/ ReportSuccess(p)
    \/ Repair(p) \/ Finish(p) \/ Signal(p) \/ ReportFailure(p) \/ ReportFailureForModel(p)
    \/ Write(p)
CallStep(p) == LoopStep(p) \/ (PickStep(p) /\ UNCHANGED <<loop, edits>>)

Next ==
    \/ \E p \in Relays : \/ Arrive(p) \/ CallStep(p)
                         \/ Mishap(p) /\ UNCHANGED <<loop, edits>>
    \/ \E a \in Unsteady : Edit(a)
    \/ Tick /\ UNCHANGED <<loop, edits>>

Spec == Init /\ [][Next]_vars

(* A call runs on: forward has its timeouts and the ticker of the select    *)
(* always fires.  No timer, hang-up or end of a cooldown is relied on.      *)
Fairness == \A p \in Relays : WF_vars(CallStep(p))

FairSpec == Spec /\ Fairness

-----------------------------------------------------------------------------
HasAccount(p) ==
    \/ stage[p] \in {"calling", "clearing", "repairing", "streaming"}
    \/ stage[p] = "returned" /\ result[p] = "account"

Picking == {"pick", "load", "install", "choose", "enter", "parked", "returned"}
Stages ==
    Picking \cup {"new", "calling", "clearing", "repairing", "streaming", "signalling",
                  "reporting", "writing", "done"}

Rows == 0..Disabled

TypeOK ==
    /\ now \in 0..MaxTime
    /\ row \in [Accounts -> Rows] /\ changed \in [Accounts -> 0..now]
    /\ DOMAIN snap = Groups
    /\ \A g \in Groups : \/ snap[g] = Nothing
                         \/ snap[g] \in [loadedAt : 0..now, entry : [Members[g] -> Rows]]
    /\ inFlight \in [Accounts -> Nat] /\ waiting \in Nat
    /\ circuit \in [Accounts -> {"closed", "blocked", "due"}]
    /\ stage \in [Relays -> Stages] /\ group \in [Relays -> Groups]
    /\ tried \in [Relays -> SUBSET Accounts] /\ started \in [Relays -> 0..now]
    /\ DOMAIN hand = Relays /\ queued \in [Relays -> BOOLEAN]
    /\ account \in [Relays -> Accounts \cup {NoAccount}]
    /\ result \in [Relays -> {"account", "none", "busy", "over"}]
    /\ unavailable \in [Relays -> SUBSET Groups] /\ attempts \in [Relays -> Nat]
    /\ coolUntil \in [Relays -> 0..(MaxTime + Cooldown)]
    /\ \A p \in Relays : HasAccount(p) => account[p] \in Accounts

(* An account's slots are the calls that were given it and have not left    *)
(* it, on any of the ways out of an attempt, never more than it allows; the *)
(* queue counts the calls that wait; and no call is sent to an account      *)
(* twice.                                                                   *)
AccountSlotsExact ==
    /\ TypeOK
    /\ \A a \in Accounts :
          /\ inFlight[a] = Cardinality({p \in Relays : HasAccount(p) /\ account[p] = a})
          /\ Slots[a] > 0 => inFlight[a] <= Slots[a]
    /\ waiting = Cardinality({p \in Relays : queued[p]}) /\ \E d \in QueueDepths : waiting <= d
    /\ \A p \in Relays : /\ attempts[p] = Cardinality(tried[p])
                         /\ attempts[p] <= MaxAttempts

(* A call is about to write the row of an account, as a pick may know.      *)
Rewriting(a) ==
    \E q \in Relays : stage[q] \in {"repairing", "writing"} /\ account[q] = a

(* What an administrator or a failed call wrote at least one TTL before a   *)
(* pick began is what the pick goes by, however long its read of the rows   *)
(* or another's took: no account disabled then, or cooling since, is picked, *)
(* unless a call that has used it since is about to write the row.          *)
RowsSeenInTime ==
    \A p \in Relays : stage[p] = "choose" =>
        \A a \in Members[group[p]] :
            changed[a] + TTL <= started[p] =>
                /\ (Entry(p, a) = Disabled) = (row[a] = Disabled)
                /\ row[a] > now => Entry(p, a) > started[p] \/ Rewriting(a)

(* Every call ends, whatever fails, also if no timer fires and no cooldown  *)
(* is over: the loop over groups and attempts and the queue let it go.      *)
CallEnds == \A p \in Relays : stage[p] = "pick" ~> stage[p] = "done"
=============================================================================
