------------------------------ MODULE Console ------------------------------
(***************************************************************************)
(* One view of the console on the screen: the user opens and closes its    *)
(* forms, turns its pages and presses its buttons while earlier requests   *)
(* are still in flight, and the answers come in any order (api/client.ts:  *)
(* one fetch per call, no timeout, no cancellation).  What each handler    *)
(* does is in ConsoleViews; rows stand for what the view lists, as the     *)
(* set of changes of this visit they show.                                 *)
(***************************************************************************)
EXTENDS ConsoleViews, Sequences, FiniteSets

CONSTANTS
    Views,          \* the views looked at
    MaxRuns,        \* bound: requests in flight, a poll apart
    MaxChanges,     \* bound: changes in one visit, by view
    MaxOpens        \* bound: forms opened in one visit, by view

ASSUME ViewsAssumption == Views \subseteq DOMAIN ViewOf
ASSUME BoundsAssumption == MaxRuns \in Nat /\ {MaxChanges, MaxOpens} \subseteq [Views -> Nat]

VARIABLES
    view, here,     \* the view, and whether it is mounted
    page, rows,     \* the page asked for; the page and the changes shown
    stale, crossed, \* the last list failed; it had been overtaken
    forms, opened,  \* which opening of each form is on screen, 0 for none
    flags,          \* the busy flags that are up
    runs,           \* requests in flight, in the order they were sent
    sent, acked,    \* changes sent, and answered
    timer, job,     \* the view's timer is set; what the page waits for
    mishap          \* what went wrong in the last step, and in which handler

vars == <<view, here, page, rows, stale, crossed, forms, opened, flags, runs, sent, acked,
          timer, job, mishap>>

H(name)   == HandlerOf[view][name]
Shown     == ViewOf[view]
Pages     == 0..1
Changes   == 1..MaxChanges[view]
NoRows    == [page |-> 2, has |-> {}]
Kinds     == DOMAIN Shown.forms
NoForms   == [k \in Kinds |-> 0]
IsList(r) == H(r.h).sends = "list"
Alters(h) == h.sends \in {"change", "create", "replace"}
InFlight(name) == {i \in DOMAIN runs : runs[i].h = name}
Down(h)   == {h.flag} \ {None}

\* A request of handler h: sent from opening n, to open opening new, for
\* change id, when known had been answered; down are the flags its end
\* lowers, late says that what it reads has been overtaken.
Run(h, n, new, id, known, asked, down) ==
    [h |-> h.name, n |-> n, new |-> new, id |-> id, from |-> known, page |-> asked,
     job |-> job, late |-> FALSE, down |-> down \cup Down(h)]

TypeOK ==
    /\ view \in Views /\ here \in BOOLEAN /\ page \in Pages
    /\ rows \in [page : Pages \cup {2}, has : SUBSET Changes]
    /\ {stale, crossed, timer} \subseteq BOOLEAN
    /\ opened \in 0..MaxOpens[view] /\ forms \in [Kinds -> 0..MaxOpens[view]]
    /\ \A r \in {runs[i] : i \in DOMAIN runs} :
          /\ r.h \in DOMAIN HandlerOf[view] /\ {r.n, r.new} \subseteq 0..MaxOpens[view]
          /\ r.from \subseteq sent /\ r.page \in Pages
    /\ sent \subseteq Changes /\ acked \subseteq sent
    /\ job \in {"none", "running", "ended"}

Blank ==
    /\ page' = 0 /\ rows' = NoRows /\ stale' = FALSE /\ crossed' = FALSE
    /\ forms' = NoForms /\ opened' = 0 /\ sent' = {} /\ acked' = {}
    /\ timer' = FALSE /\ job' = "none"

Init ==
    /\ view \in Views /\ here = FALSE /\ page = 0 /\ rows = NoRows
    /\ stale = FALSE /\ crossed = FALSE /\ forms = [k \in DOMAIN ViewOf[view].forms |-> 0]
    /\ opened = 0 /\ flags = {} /\ runs = <<>> /\ sent = {} /\ acked = {}
    /\ timer = FALSE /\ job = "none" /\ mishap = {}

-----------------------------------------------------------------------------
(* The user *)

\* The page beneath is out of reach while a form is open.
Uncovered == \A k \in Kinds : forms[k] = 0

Enter ==
    /\ ~here /\ here' = TRUE
    /\ LET h == H(Shown.mount)
       IN  runs' = <<Run(h, 0, 0, 0, {}, 0, {})>> /\ flags' = Down(h)
    /\ mishap' = {}
    /\ Blank /\ UNCHANGED view

\* Another page of the site, or the reload of request() after a 401: the
\* answers still due find the view gone, but some of them set its timer.
Leaks(h) == "arm" \in h.done \/ (h.next # None /\ "arm" \in H(h.next).done)
Leave ==
    /\ here /\ here' = FALSE
    /\ runs' = <<>> /\ flags' = {}
    /\ mishap' = {<<"leaks", n>> : n \in {m \in {runs[i].h : i \in DOMAIN runs} : Leaks(H(m))}}
    /\ Blank /\ UNCHANGED view

OpenForm(k) ==
    /\ here /\ Uncovered /\ k \in Shown.opens /\ opened < MaxOpens[view]
    /\ opened' = opened + 1 /\ forms' = [forms EXCEPT ![k] = opened + 1]
    /\ mishap' = {}
    /\ UNCHANGED <<view, here, page, rows, stale, crossed, flags, runs, sent, acked, timer, job>>

CloseForm(k) ==
    /\ here /\ forms[k] # 0 /\ Shown.forms[k] \cap flags = {}
    /\ forms' = [forms EXCEPT ![k] = 0]
    /\ mishap' = {}
    /\ UNCHANGED <<view, here, page, rows, stale, crossed, opened, flags, runs, sent, acked, timer, job>>

Within(h)  == IF h.on = Page THEN Uncovered ELSE h.on \in Kinds /\ forms[h.on] # 0
Numbers(h) == h.opens \/ "open" \in h.done
Free(h)    == h.off \cap flags = {} /\ h.when \subseteq flags

Press(h) ==
    /\ here /\ h.view = view /\ Len(runs) < MaxRuns
    /\ Within(h) /\ Free(h)
    /\ Alters(h) => Cardinality(sent) < MaxChanges[view]
    /\ Numbers(h) => opened < MaxOpens[view]
    /\ LET id  == IF Alters(h) THEN Cardinality(sent) + 1 ELSE 0
           new == IF Numbers(h) THEN opened + 1 ELSE 0
           n   == IF h.opens THEN new ELSE IF h.on \in Kinds THEN forms[h.on] ELSE 0
           twin == {i \in InFlight(h.name) : runs[i].n = n}
           unfilled == {i \in DOMAIN runs : n # 0 /\ runs[i].n = n /\ H(runs[i].h).opens}
       IN  /\ runs' = Append(runs, Run(h, n, new, id, acked, page, {}))
           /\ sent' = sent \cup ({id} \ {0})
           /\ opened' = IF Numbers(h) THEN new ELSE opened
           /\ forms' = IF h.opens THEN [forms EXCEPT ![h.form] = new] ELSE forms
           /\ mishap' = {<<m, h.name>> : m \in
                  {x \in {"twice"} : h.sends = "create" /\ twin # {}} \cup
                  {x \in {"overwrites"} : h.sends = "replace" /\ twin # {}} \cup
                  {x \in {"incomplete"} : h.sends = "change" /\ unfilled # {}}}
    /\ flags' = flags \cup Down(h)
    /\ UNCHANGED <<view, here, page, rows, stale, crossed, acked, timer, job>>

\* A page, a filter or a sort order: read at once, whatever is in flight.
Turn ==
    /\ here /\ Shown.turns /\ Uncovered /\ Len(runs) < MaxRuns
    /\ page' = 1 - page
    /\ LET h == H(Shown.list)
       IN  /\ runs' = Append(runs, Run(h, 0, 0, 0, acked, 1 - page, {}))
           /\ flags' = flags \cup Down(h)
    /\ mishap' = {}
    /\ UNCHANGED <<view, here, rows, stale, crossed, forms, opened, sent, acked, timer, job>>

-----------------------------------------------------------------------------
(* Answers, timers and the server *)

\* users.save reads the form again between its two requests.
Rereads(h)   == h.next # None /\ Alters(h) /\ h.on \in Kinds
Thrown(h)    == Rereads(h) /\ forms[h.form] = 0
Room(h)      == Alters(h) => Cardinality(sent) < MaxChanges[view]
Adopts(h, ok) == IF ok /\ "adopt" \in h.done /\ "waiting" \notin flags THEN BOOLEAN ELSE {FALSE}
Awaits(h, adopted) == H(h.next).when \subseteq flags \cup {f \in {"waiting"} : adopted}
GoesOn(h, ok, adopted) ==
    CASE h.next = None -> {FALSE}
      [] h.next # None /\ ~ok -> {"next" \in h.fail /\ Awaits(h, adopted)}
      [] h.next # None /\ ok /\ h.done \cap {"open", "fill"} # {} -> {FALSE, Room(H(h.next))}
      [] OTHER -> {~Thrown(h) /\ Awaits(h, adopted)}
Effects(h, ok, go) ==
    CASE ok /\ Thrown(h) -> {}
      [] OTHER -> (IF ok THEN h.done ELSE h.fail) \ (IF go THEN {"open", "fill", "arm"} ELSE {})

\* The second request of a change is part of it; others are changes of their own.
NextId(r, h, go) ==
    IF ~go \/ ~Alters(H(h.next)) THEN 0 ELSE IF r.id # 0 THEN r.id ELSE Cardinality(sent) + 1
Finishes(r, h, ok, go) == ok /\ r.id # 0 /\ ~Thrown(h) /\ NextId(r, h, go) # r.id

\* What is sent after the answer: the next request, the list again.
After(r, h, ok, go) ==
    LET known == IF Finishes(r, h, ok, go) THEN acked \cup {r.id} ELSE acked
        kept  == IF h.held THEN r.down ELSE {}
    IN  (IF go THEN <<Run(H(h.next), r.n, 0, NextId(r, h, go), known, page, kept)>> ELSE <<>>) \o
        (IF "reload" \in Effects(h, ok, go)
         THEN <<Run(H(Shown.list), 0, 0, 0, known, page, kept)>> ELSE <<>>)

\* A change answered now is not in the lists under way; a list answered now
\* overtakes those sent before it.
Overtaken(i, finished) ==
    [j \in 1..Len(runs) - 1 |->
        LET q == runs[IF j < i THEN j ELSE j + 1]
        IN  [q EXCEPT !.late = @ \/ (IsList(q) /\ (finished \/ (j < i /\ IsList(runs[i]) /\ ~runs[i].late)))]]

\* The order waited for is another one: answers about an order, asked for
\* earlier, need not be about it.
OfBefore(rs) == [j \in DOMAIN rs |-> IF IsList(rs[j]) THEN rs[j] ELSE [rs[j] EXCEPT !.job = "none"]]

\* Whether the answer shows that what the page waits for has ended.
Ended(r) == IF r.job = "ended" THEN {TRUE} ELSE IF job = "ended" \/ r.late THEN BOOLEAN ELSE {FALSE}

Mishaps(r, h, ok, go) ==
    LET e     == Effects(h, ok, go)
        now   == IF h.form = None THEN 0 ELSE forms[h.form]
        other == now \notin {0, r.n}
    IN  {<<m, h.name>> : m \in
            {x \in {"closes"} : "close" \in e /\ other} \cup
            {x \in {"fills"} : "fill" \in e /\ other} \cup
            {x \in {"replaces"} : "open" \in e /\ other} \cup
            {x \in {"misdirects"} : go /\ Rereads(h) /\ other} \cup
            {x \in {"unsaved"} : ~ok /\ h.early /\ "reload" \notin e}}

Answer(i, ok) ==
    LET r == runs[i]
        h == H(r.h)
    IN  \E adopted \in Adopts(h, ok) : \E go \in GoesOn(h, ok, adopted) :
        LET e     == Effects(h, ok, go)
            waits == adopted \/ "wait" \in e
            finished == Finishes(r, h, ok, go)
            others == Overtaken(i, finished)
            after == After(r, h, ok, go)
        IN  /\ UNCHANGED <<view, here, page, opened>>
            /\ runs' = (IF waits THEN OfBefore(others) ELSE others) \o after
            /\ sent' = sent \cup ({NextId(r, h, go)} \ {0})
            /\ acked' = IF finished THEN acked \cup {r.id} ELSE acked
            /\ IF ok /\ IsList(r)
               THEN /\ \E has \in SUBSET sent : r.from \subseteq has /\ rows' = [page |-> r.page, has |-> has]
                    /\ crossed' = r.late
               ELSE /\ rows' = IF "patch" \in e /\ rows # NoRows THEN [rows EXCEPT !.has = @ \cup {r.id}] ELSE rows
                    /\ crossed' = crossed
            /\ stale' = IF IsList(r) THEN ~ok ELSE stale
            /\ forms' = IF "close" \in e THEN [forms EXCEPT ![h.form] = 0]
                        ELSE IF "open" \in e THEN [forms EXCEPT ![h.form] = r.new] ELSE forms
            /\ timer' = (timer \/ "arm" \in e)
            /\ job' = IF waits THEN "running" ELSE job
            /\ \E ended \in IF e \cap {"look", "glance"} = {} THEN {FALSE}
                            ELSE IF "look" \in e THEN Ended(r) ELSE Ended(r) \cup {FALSE} :
                  flags' = ((flags \ (IF h.held /\ after # <<>> THEN {} ELSE r.down))
                               \cup UNION {after[j].down : j \in DOMAIN after}
                               \cup {f \in {"waiting"} : waits \/ ("look" \in e /\ IsList(r) /\ r.job = "running")})
                           \ {f \in {"waiting"} : ended}
            /\ mishap' = Mishaps(r, h, ok, go)

\* An interval stays set; a timeout is set again by the answer.  Bound: one
\* request of the timer in flight.
Tick ==
    /\ here /\ timer /\ InFlight(Shown.tick) = {}
    /\ LET h == H(Shown.tick)
       IN  /\ Free(h)
           /\ timer' = ("arm" \notin h.done)
           /\ runs' = Append(runs, Run(h, 0, 0, 0, acked, page, {}))
           /\ flags' = flags \cup Down(h)
    /\ mishap' = {}
    /\ UNCHANGED <<view, here, page, rows, stale, crossed, forms, opened, sent, acked, job>>

\* The order is dropped from the page, not cancelled.
Drop ==
    /\ here /\ Shown.drops /\ Uncovered /\ "waiting" \in flags
    /\ flags' = flags \ {"waiting"} /\ job' = "none" /\ runs' = OfBefore(runs)
    /\ mishap' = {}
    /\ UNCHANGED <<view, here, page, rows, stale, crossed, forms, opened, sent, acked, timer>>

\* The update has been carried out, the order has been paid.
EndJob ==
    /\ here /\ job = "running" /\ job' = "ended"
    /\ mishap' = {}
    /\ UNCHANGED <<view, here, page, rows, stale, crossed, forms, opened, flags, runs, sent, acked, timer>>

Next ==
    \/ Enter \/ Leave \/ Turn \/ Tick \/ Drop \/ EndJob
    \/ \E k \in Kinds : OpenForm(k) \/ CloseForm(k)
    \/ \E n \in DOMAIN HandlerOf[view] : Press(H(n))
    \/ \E i \in DOMAIN runs, ok \in BOOLEAN : Answer(i, ok)

\* The browser ends every request sooner or later and lets the timers run;
\* polls do not fail for ever.  What the page waits for need not end.  Only
\* a view with a timer waits for something, so only there is it asked.
Oldest   == Shown.tick # None /\ runs # <<>> /\ \E ok \in BOOLEAN : Answer(1, ok)
PollSeen == \E i \in InFlight(Shown.tick) : Answer(i, TRUE)
Spec == Init /\ [][Next]_vars /\ WF_vars(Oldest) /\ WF_vars(Tick) /\ SF_vars(PollSeen)

-----------------------------------------------------------------------------
(* Properties *)

\* Once every request has been answered, the rows shown are those of the page
\* asked for and show every change the page was told of, unless the last
\* list failed or had been overtaken when it was shown.
ShowsOwnChanges ==
    (here /\ runs = <<>> /\ rows # NoRows /\ ~stale /\ ~crossed)
        => rows.page = page /\ acked \subseteq rows.has

\* A busy flag is up only while a request in flight is to lower it, and a
\* flag that keeps its own handler away is raised for one request at a time.
Exclusive(f) == \A n \in DOMAIN HandlerOf[view] :
                   H(n).flag = f => f \in H(n).off /\ H(n).sends # "list"
BusyExact ==
    /\ flags \ {"waiting"} \subseteq UNION {runs[i].down : i \in DOMAIN runs}
    /\ \A i, j \in DOMAIN runs : i # j => \A f \in runs[i].down \cap runs[j].down : ~Exclusive(f)

\* What does go wrong, and in which handlers:
\*   twice       what a press creates is created again by the next one
\*   overwrites  a list written back undoes the one still under way
\*   incomplete  a form is saved before what it shows has been read
\*   closes, fills, replaces   an answer closes, fills in or replaces another
\*               opening of the form than the one its request was sent from
\*   misdirects  the second request of a save goes to whom the form is now about
\*   unsaved     a failed change stays on the page
\*   leaks       an answer sets the timer of a view that has been left
Known ==
    [twice      |-> {<<"proxies", "save">>, <<"redeem", "generate">>, <<"silences", "create">>,
                     <<"keys", "rotate">>, <<"accounts", "import">>},
     overwrites |-> {<<"skills", "toggle">>},
     incomplete |-> {<<"users", "save">>},
     closes     |-> {<<"users", "edit">>, <<"users", "rates">>, <<"prices", "save">>,
                     <<"models", "save">>, <<"proxies", "save">>, <<"alerts", "save">>,
                     <<"payment", "provider">>, <<"errors", "resolve">>, <<"accounts", "save">>,
                     <<"accounts", "groups">>, <<"accounts", "complete">>, <<"accounts", "message">>},
     fills      |-> {<<"users", "edit">>, <<"redeem", "generate">>, <<"keys", "setup">>,
                     <<"accounts", "oauth">>, <<"accounts", "inline">>, <<"accounts", "import">>},
     replaces   |-> {<<"keys", "rotate">>},
     misdirects |-> {<<"users", "save">>},
     unsaved    |-> {<<"referrals", "toggle">>},
     leaks      |-> {<<"updates", "load">>, <<"updates", "poll">>, <<"updates", "request">>,
                     <<"monitoring", "mount">>, <<"monitoring", "first">>, <<"wallet", "mount">>,
                     <<"wallet", "first">>}]

\* Apart from those, no handler sends a creation twice or writes a list over
\* another, and no answer reaches a form, a row or a timer that is not its own.
OnlyKnownMishaps == \A m \in mishap : <<view, m[2]>> \in Known[m[1]]

\* The views are sound together: the rows, the busy flags and the forms.
ConsoleSound == TypeOK /\ ShowsOwnChanges /\ BusyExact /\ OnlyKnownMishaps

\* A page that waits for an update or a payment stops waiting some time after
\* it has ended, unless the polls have stopped: a failed one of the updates
\* view sets no timer again.
PollsStopped == ~timer /\ \A i \in DOMAIN runs : ~Leaks(H(runs[i].h))
WaitingEnds ==
    (here /\ "waiting" \in flags /\ job = "ended")
        ~> (~here \/ "waiting" \notin flags \/ job # "ended" \/ PollsStopped)
=============================================================================
