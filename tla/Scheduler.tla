----------------------------- MODULE Scheduler ------------------------------
(***************************************************************************)
(* Scheduler: picks an upstream account for a relay.  It keeps a snapshot  *)
(* of each group's rows for snapshotTTL, the calls in flight of each       *)
(* account, the circuit of the one model asked for, and a queue of calls   *)
(* whose accounts are all busy.  A step is one critical section of s.mu,   *)
(* one statement of the database or one turn of the select.                *)
(*                                                                         *)
(* A pick holds a pointer to a snapshot: hand[p].shared says that it still *)
(* is the group's, which ReportFailure changes; a snapshot that has been   *)
(* replaced is hand[p].entry, which nobody changes.  Which of several      *)
(* accounts is best (session binding, priority, score) is left open.       *)
(***************************************************************************)
EXTENDS Integers, FiniteSets, Sequences

CONSTANTS
    Relays, Accounts,
    Members,        \* Members[g]: the accounts of group g of the route
    Slots,          \* Concurrency of an account, 0 is "unlimited"
    TTL,            \* snapshotTTL, in ticks
    Cooldown,       \* the longest of the policy's cooldowns
    QueueDepths,    \* ConcurrencyQueueDepth, as policies may set it
    MaxTime,        \* bound of the clock
    NoAccount

(* A call has a group to start with; the policy allows no empty queue, and  *)
(* snapshots are used for a while.                                          *)
ASSUME SchedulerAssumption ==
    /\ IsFiniteSet(Relays) /\ IsFiniteSet(Accounts)
    /\ Members \in Seq(SUBSET Accounts) /\ Members # <<>>
    /\ Slots \in [Accounts -> Nat]
    /\ TTL \in Nat \ {0} /\ Cooldown \in Nat /\ MaxTime \in Nat
    /\ QueueDepths \in SUBSET Nat /\ QueueDepths # {}

VARIABLES
    now,
    row, changed,       \* upstream_accounts, and when an account's row last changed (ghost)
    snap, inFlight, circuit, waiting,                   \* the scheduler's fields
    stage, group, tried, started, hand, queued, woken, account, result  \* a call's locals

Groups == DOMAIN Members
rows   == <<row, changed>>
shared == <<snap, inFlight, circuit, waiting>>
calls  == <<group, tried, started, hand, queued, woken, account, result>>
sched  == <<now, rows, shared, stage, calls>>

(* A row says from when on it may be picked: its cooldown, or Disabled.  A   *)
(* disabled row's cooldown tells nothing, as enabling it forgets it.        *)
Disabled == MaxTime + Cooldown + 1
Failing(until, new) == IF until = Disabled THEN until ELSE new

Nothing == [loadedAt |-> -1, entry |-> <<>>]
Current == [shared |-> TRUE, entry |-> <<>>]

Goto(p, s) == stage' = [stage EXCEPT ![p] = s]

(* A pick returns: its clock reading and snapshot go with it.               *)
Drop(p) ==
    started' = [started EXCEPT ![p] = 0] /\ hand' = [hand EXCEPT ![p] = Current]
Answer(p, r) ==
    result' = [result EXCEPT ![p] = r] /\ Goto(p, "returned") /\ Drop(p)

(* The snapshot of g is replaced: who held it keeps the old one.            *)
Orphan(h, g) ==
    [q \in Relays |-> IF group[q] = g /\ h[q].shared
                      THEN [shared |-> FALSE, entry |-> snap[g].entry] ELSE h[q]]

-----------------------------------------------------------------------------
(* pick() reads the clock, and a snapshot younger than the TTL is used.     *)
Fresh(g) == snap[g].loadedAt >= 0 /\ now - snap[g].loadedAt < TTL

Look(p) ==
    /\ stage[p] = "pick"
    /\ started' = [started EXCEPT ![p] = now]
    /\ IF Fresh(group[p])
       THEN Goto(p, "choose") /\ hand' = [hand EXCEPT ![p] = Current]
       ELSE Goto(p, "load") /\ UNCHANGED hand
    /\ UNCHANGED <<now, rows, shared, group, tried, queued, woken, account, result>>

(* Otherwise the rows are read, with the lock released ...                  *)
Load(p) ==
    /\ stage[p] = "load"
    /\ hand' = [hand EXCEPT ![p] = [shared |-> FALSE,
                                    entry |-> [a \in Members[group[p]] |-> row[a]]]]
    /\ Goto(p, "install")
    /\ UNCHANGED <<now, rows, shared, group, tried, started, queued, woken, account, result>>

LoadFails(p) ==
    /\ stage[p] = "load"
    /\ Answer(p, "over")
    /\ UNCHANGED <<now, rows, shared, group, tried, queued, woken, account>>

(* Slip of LoadedAt: when it is installed.                                  *)
LoadedAtInstall(p) == now

(* The time a snapshot counts from: when its pick began.                    *)
LoadedAt(p) == started[p]

(* ... and installed, unless one that was begun later is there already.     *)
Install(p) ==
    LET g == group[p] IN
    /\ stage[p] = "install"
    /\ IF snap[g].loadedAt > LoadedAt(p)
       THEN UNCHANGED snap /\ hand' = [hand EXCEPT ![p] = Current]
       ELSE /\ snap' = [snap EXCEPT ![g] = [loadedAt |-> LoadedAt(p), entry |-> hand[p].entry]]
            /\ hand' = [Orphan(hand, g) EXCEPT ![p] = Current]
    /\ Goto(p, "choose")
    /\ UNCHANGED <<now, rows, inFlight, circuit, waiting, group, tried, started, queued,
                   woken, account, result>>

Entry(p, a) == IF hand[p].shared THEN snap[group[p]].entry[a] ELSE hand[p].entry[a]

(* entryExclusionReasonLocked: active, not tried, not cooling, and its      *)
(* circuit for the model closed or due for a probe.                         *)
Routable(p) ==
    {a \in Members[group[p]] :
        /\ a \notin tried[p] /\ Entry(p, a) <= started[p]
        /\ circuit[a] \in {"closed", "due"}}

HasSlot(a) == Slots[a] = 0 \/ inFlight[a] < Slots[a]

(* An account with a free slot is taken; a due circuit is probed by it and  *)
(* closed to others for another while.                                      *)
Choose(p, a) ==
    /\ stage[p] = "choose" /\ a \in Routable(p) /\ HasSlot(a)
    /\ inFlight' = [inFlight EXCEPT ![a] = @ + 1]
    /\ circuit' = [circuit EXCEPT ![a] = IF @ = "due" THEN "blocked" ELSE @]
    /\ account' = [account EXCEPT ![p] = a]
    /\ Answer(p, "account")
    /\ UNCHANGED <<now, rows, snap, waiting, group, tried, queued, woken>>

(* ErrNoAccount: none is routable, which a queued call learns as well.      *)
NoneRoutable(p) ==
    /\ stage[p] = "choose" /\ Routable(p) = {}
    /\ Answer(p, "none")
    /\ UNCHANGED <<now, rows, shared, group, tried, queued, woken, account>>

(* ErrAccountConcurrencyBusy: on to the queue, or back to it.               *)
AllBusy(p) ==
    /\ stage[p] = "choose" /\ Routable(p) # {}
    /\ \A a \in Routable(p) : ~ HasSlot(a)
    /\ Goto(p, IF queued[p] THEN "parked" ELSE "enter") /\ Drop(p)
    /\ UNCHANGED <<now, rows, shared, group, tried, queued, woken, account, result>>

(* PickForSessionWait joins the queue and captures the channel once: when   *)
(* it has been closed, every later turn of the select finds it closed.      *)
Enter(p) ==
    /\ stage[p] = "enter" /\ \E maxWaiters \in QueueDepths : waiting < maxWaiters
    /\ waiting' = waiting + 1
    /\ queued' = [queued EXCEPT ![p] = TRUE]
    /\ Goto(p, "parked")
    /\ UNCHANGED <<now, rows, snap, inFlight, circuit, group, tried, started, hand, woken,
                   account, result>>
QueueFull(p) ==
    /\ stage[p] = "enter" /\ \E maxWaiters \in QueueDepths : waiting >= maxWaiters
    /\ Answer(p, "busy")
    /\ UNCHANGED <<now, rows, shared, group, tried, queued, woken, account>>

(* Slip of Retry: without the ticker.                                       *)
RetryWhenWoken(p) ==
    /\ stage[p] = "parked" /\ woken[p]
    /\ Goto(p, "pick")
    /\ UNCHANGED <<now, rows, shared, calls>>

(* The channel was closed, or the ticker fired.                             *)
Retry(p) ==
    /\ stage[p] = "parked"
    /\ Goto(p, "pick")
    /\ UNCHANGED <<now, rows, shared, calls>>

(* The timer fired, or the client hung up.                                  *)
StopWaiting(p) ==
    /\ stage[p] = "parked"
    /\ \E r \in {"busy", "over"} : Answer(p, r)
    /\ UNCHANGED <<now, rows, shared, group, tried, queued, woken, account>>

(* The deferred dequeue of PickForSessionWait.                              *)
Dequeue(p) ==
    /\ waiting' = IF queued[p] /\ waiting > 0 THEN waiting - 1 ELSE waiting
    /\ queued' = [queued EXCEPT ![p] = FALSE]
    /\ woken' = [woken EXCEPT ![p] = FALSE]

-----------------------------------------------------------------------------
(* Release gives the slot back in one critical section ...                  *)
FreeSlot(a) == inFlight' = [inFlight EXCEPT ![a] = IF @ > 0 THEN @ - 1 ELSE 0]

(* ... and signalSlot closes the channel in another.                        *)
SignalSlot == woken' = [q \in Relays |-> woken[q] \/ queued[q]]

(* A report sets the cooldown of an account in every snapshot.              *)
InSnapshots(a, until) ==
    snap' = [g \in Groups |-> IF a \in DOMAIN snap[g].entry
                              THEN [snap[g] EXCEPT !.entry[a] = Failing(@, until)] ELSE snap[g]]

(* ReportSuccess writes the row if an entry cools, and also if one counts   *)
(* errors or names the last, which this module leaves open.                 *)
MustRepair(a) ==
    {TRUE} \cup (IF \E g \in Groups : a \in DOMAIN snap[g].entry /\ snap[g].entry[a] # 0
                THEN {} ELSE {FALSE})

(* What time does to a circuit: after a 5xx a probe is due in 10 s and the  *)
(* failure forgotten later, after a 403 or 404 it is over in 5 min.         *)
Later(c) ==
    CASE c = "blocked" -> {"blocked", "due", "closed"}
      [] c = "due"     -> {"due", "closed"}
      [] c = "closed"  -> {"closed"}

Tick ==
    /\ now < MaxTime /\ now' = now + 1
    /\ circuit' \in {c \in [Accounts -> UNION {Later(circuit[a]) : a \in Accounts}] :
                        \A a \in Accounts : c[a] \in Later(circuit[a])}
    /\ UNCHANGED <<rows, snap, inFlight, waiting, stage, calls>>
=============================================================================
