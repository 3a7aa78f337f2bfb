----------------------------- MODULE ModelRequests -----------------------------
(***************************************************************************)
(* The requests the canvas makes with the credential of KeySession         *)
(* (workbench/src/services/api/image.ts, video.ts, audio.ts): an image, an *)
(* edit of one, a streamed text, a video (a task created, then polled), a  *)
(* sound.  Each captures the configuration when it is asked, and is a      *)
(* sequence of awaits an AbortSignal can end at any point; the session     *)
(* goes on changing under them.                                            *)
(***************************************************************************)
EXTENDS KeySession, ImageSize, StreamText

CONSTANTS
    Asks,           \* bound: requests in the life of the page
    NodeModels,     \* what a node's metadata.model may say
    Settings,       \* <<quality, size>> an image may be asked with
    Scripts,        \* what a server may stream
    MaxPolls        \* polls of a video task, 120 in the code

ASSUME PollsAssumption == MaxPolls \in Nat \ {0}

VARIABLE asks

requestVars == <<sessionVars, asks>>

NoAsk ==
    [kind |-> "none", stage |-> "none", key |-> NoKey, model |-> NoModel, crossed |-> FALSE,
     quality |-> "auto", size |-> AutoSize, sentSize |-> AutoSize, script |-> 0, at |-> 0, stream |-> Fresh,
     sent |-> 0, used |-> {}, polls |-> 0, task |-> "none", way |-> "none",
     aborted |-> FALSE, cut |-> 0, outcome |-> "none", timer |-> FALSE]

Stages   == {"none", "reading", "posting", "streaming", "polling", "waiting", "fetching", "ended"}
Network  == {"posting", "streaming", "polling", "fetching"}
Outcomes == {"none", "done", "failed", "canceled", "timeout"}

RequestTypeOK(a) ==
    /\ a.kind \in {"none", "image", "edit", "text", "video", "audio"} /\ a.stage \in Stages
    /\ a.key \in ApiKeys \cup {NoKey} /\ a.used \subseteq ApiKeys /\ a.outcome \in Outcomes
    /\ a.polls \in 0..MaxPolls /\ a.sent \in 0..MaxPolls + 2
    /\ a.task \in {"none", "running", "made", "broken"} /\ a.way \in {"none", "url", "content"}

-----------------------------------------------------------------------------
(* Asking *)

\* (A slip: the key of the moment is used.)
SendsWithCurrent(a) == [a EXCEPT !.sent = @ + 1, !.used = @ \cup ({config.cred} \ {NoKey})]
\* The fields of a request that leaves with the captured credential, and of
\* one that is over.
Sends(a)      == [a EXCEPT !.sent = @ + 1, !.used = @ \cup {a.key}]
Ended(a, how) == [a EXCEPT !.stage = "ended", !.outcome = how]
\* (A request whose end needs no more than its calls forgets the rest.)
Over(a, how)  ==
    [NoAsk EXCEPT !.kind = a.kind, !.stage = "ended", !.outcome = how, !.key = a.key, !.sent = a.sent,
                  !.used = a.used, !.aborted = a.aborted, !.cut = a.cut]
SetAsk(q, a)     == asks' = [asks EXCEPT ![q] = a]

\* The calls of the canvas once isAiConfigReady: a refused size throws
\* before anything is sent; references are read before the request.
Asked(kind, v, setting, script) ==
    [NoAsk EXCEPT !.kind = kind, !.key = config.cred, !.crossed = crossed, !.script = script,
        !.stage = IF kind \in {"edit", "video"} THEN "reading" ELSE "posting",
        !.model = IF kind \in {"image", "edit"} THEN Resolved(config, v) ELSE NoModel,
        !.quality = setting[1], !.size = setting[2],
        !.sentSize = IF kind \in {"image", "edit"} THEN RequestSize(setting[1], setting[2]) ELSE AutoSize]
Begun(a) ==
    IF a.sentSize = Refused THEN Ended(a, "failed")
    ELSE IF a.stage = "posting" THEN Sends(a) ELSE a

\* (Bound: the variety of settings and streams is tried by the last act, on
\* a page where nothing else is in flight.)
Plain == <<"auto", AutoSize>>
Varied(choices, usual) == IF acts = 1 /\ InFlight = {} THEN choices ELSE {usual}

Ask(q, kind) ==
    /\ asks[q].stage = "none" /\ session.status = "authenticated" /\ Ready(config)
    /\ acts > 0 /\ acts' = acts - 1
    /\ \E how \in (IF kind \in {"image", "edit"}
                   THEN (NodeModels \X {Plain}) \cup ({NoModel} \X Varied(Settings, Plain))
                   ELSE {<<NoModel, Plain>>}),
          script \in (IF kind = "text" THEN Varied(DOMAIN Scripts, 1) ELSE {0}) :
             SetAsk(q, Begun(Asked(kind, how[1], how[2], script)))
    /\ UNCHANGED <<token, stored, active, session, config, calls, crossed, switched>>

\* imageToDataUrl of every reference; axios sends nothing for a signal that
\* is aborted already.
Read(q) ==
    /\ asks[q].stage = "reading"
    /\ \/ asks[q].aborted /\ SetAsk(q, Over(asks[q], "canceled"))
       \/ ~asks[q].aborted /\ SetAsk(q, Sends([asks[q] EXCEPT !.stage = "posting"]))
       \/ SetAsk(q, Over(asks[q], "failed"))
    /\ UNCHANGED sessionVars

\* The answer to the POST: the images, and the balance read again 800 ms
\* later; the sound; the stream; the task, which the provider may have
\* created although the answer is lost, and which is polled at once.
AnswerPost(q) ==
    LET a == asks[q] IN
    /\ a.stage = "posting"
    /\ \/ a.kind \in {"image", "edit"} /\ SetAsk(q, [Over(a, "done") EXCEPT !.timer = TRUE])
       \/ a.kind = "audio" /\ SetAsk(q, Over(a, "done"))
       \/ a.kind = "text" /\ SetAsk(q, [a EXCEPT !.stage = "streaming"])
       \/ a.kind = "video" /\ SetAsk(q, Sends([a EXCEPT !.stage = "polling", !.task = "running", !.polls = 1]))
       \/ SetAsk(q, Over(a, "failed"))
       \/ a.kind = "video" /\ SetAsk(q, [Over(a, "failed") EXCEPT !.task = "running"])
    /\ UNCHANGED sessionVars

-----------------------------------------------------------------------------
(* A video *)

\* The provider; not the program's.  (A task nobody asks for is let be.)
TaskMoves(q) ==
    /\ asks[q].task = "running" /\ asks[q].stage # "ended"
    /\ \E t \in {"made", "broken"} : SetAsk(q, [asks[q] EXCEPT !.task = t])
    /\ UNCHANGED sessionVars

\* pollOpenAIVideoTask and the loop around it: a result has a URL or is the
\* task's content; the last poll does not wait; a poll that fails ends all.
AnswerPoll(q) ==
    LET a == asks[q] IN
    /\ a.stage = "polling"
    /\ \/ a.task = "running" /\ SetAsk(q, IF a.polls = MaxPolls THEN Ended(a, "timeout")
                                       ELSE [a EXCEPT !.stage = "waiting"])
       \/ a.task = "made" /\ SetAsk(q, [a EXCEPT !.stage = "fetching", !.way = "url"])
       \/ a.task = "made" /\ SetAsk(q, Sends([a EXCEPT !.stage = "fetching", !.way = "content"]))
       \/ a.task = "broken" /\ SetAsk(q, Over(a, "failed"))
       \/ SetAsk(q, Over(a, "failed"))
    /\ UNCHANGED sessionVars

\* delay(2500) is over.
Wake(q) ==
    /\ asks[q].stage = "waiting"
    /\ SetAsk(q, Sends([asks[q] EXCEPT !.stage = "polling", !.polls = @ + 1]))
    /\ UNCHANGED sessionVars

\* A URL that cannot be downloaded is kept as the result.
AnswerFetch(q) ==
    LET a == asks[q] IN
    /\ a.stage = "fetching"
    /\ \/ SetAsk(q, Ended(a, "done"))
       \/ a.way = "content" /\ SetAsk(q, Over(a, "failed"))
    /\ UNCHANGED sessionVars

-----------------------------------------------------------------------------
(* A text *)

\* reader.read(): the next bytes, any number of them.
Chunk(q) ==
    LET a == asks[q]
        bytes == Written(Scripts[a.script])
    IN  /\ a.stage = "streaming"
        /\ \E n \in a.at + 1..Len(bytes) :
              LET st == Consume(a.stream, SubSeq(bytes, a.at + 1, n))
                  b  == [a EXCEPT !.at = n, !.stream = st]
              IN  SetAsk(q, IF Failed(st) THEN Ended(b, "failed") ELSE b)
        /\ UNCHANGED sessionVars

\* The stream is done, wherever the server left off, or the connection broke.
StreamEnds(q) ==
    LET a  == asks[q]
        st == Flush(a.stream)
    IN  /\ a.stage = "streaming"
        /\ \/ SetAsk(q, Ended([a EXCEPT !.stream = st], IF Failed(st) THEN "failed" ELSE "done"))
           \/ SetAsk(q, Over(a, "failed"))
        /\ UNCHANGED sessionVars

-----------------------------------------------------------------------------
(* Stopping, the timer, the page *)

\* controller.abort(): what is on the network or waiting is rejected at once.
Abort(q) ==
    LET a == [asks[q] EXCEPT !.aborted = TRUE, !.cut = asks[q].sent] IN
    /\ asks[q].stage \in Network \cup {"reading", "waiting"} /\ ~asks[q].aborted
    /\ acts > 0 /\ acts' = acts - 1
    /\ SetAsk(q, IF a.stage = "reading" THEN a ELSE Over(a, "canceled"))
    /\ UNCHANGED <<token, stored, active, session, config, calls, crossed, switched>>

UsageTimer(q, s) ==
    /\ asks[q].timer /\ SetAsk(q, [asks[q] EXCEPT !.timer = FALSE])
    /\ IF token = Nobody THEN UNCHANGED sessionVars ELSE RefreshUsage(s) /\ UNCHANGED acts

Leave == Reload /\ asks' = [q \in Asks |-> NoAsk]

RequestsInit == SessionInit /\ acts = MaxActs /\ asks = [q \in Asks |-> NoAsk]

AnswerAny(q) == Read(q) \/ AnswerPost(q) \/ AnswerPoll(q) \/ Wake(q) \/ AnswerFetch(q) \/ StreamEnds(q)

RequestsNext ==
    \/ SessionNext /\ UNCHANGED asks
    \/ \E q \in Asks : \/ \E kind \in {"image", "edit", "text", "video", "audio"} : Ask(q, kind)
                       \/ AnswerAny(q) \/ TaskMoves(q) \/ Chunk(q) \/ Abort(q)
                       \/ \E s \in Slots : UsageTimer(q, s)
    \/ Leave

\* The browser answers or fails every request and fires every timer: while
\* something is pending, one of these steps is eventually taken.
Progress ==
    \/ \E s \in Slots : (Serve(s) \/ Settle(s) \/ FirstRefresh(s)) /\ UNCHANGED asks
    \/ \E q \in Asks : AnswerAny(q) \/ \E s \in Slots : UsageTimer(q, s)
RequestsFairness == WF_requestVars(Progress)

RequestsSpec == RequestsInit /\ [][RequestsNext]_requestVars /\ RequestsFairness

-----------------------------------------------------------------------------
(* Properties *)

(* One request, one credential: whatever is chosen while it runs, every     *)
(* call of a request is made with the key it was asked with, and an image   *)
(* is asked of a model that key offers.                                     *)
OneCredential(a) ==
    /\ a.stage # "none" => a.key # NoKey /\ a.used \subseteq {a.key}
    /\ a.model # NoModel /\ ~a.crossed /\ ImagesOf(a.key) # {} => a.model.name \in ImagesOf(a.key)

(* A stopped request sends nothing more and ends as canceled (as failed if  *)
(* a reference could not be read), and nothing else does.                   *)
StopsForGood(a) ==
    /\ a.aborted => a.sent = a.cut /\ a.outcome \in {"none", "canceled", "failed"}
    /\ a.aborted /\ a.outcome = "failed" => a.sent = 0
    /\ a.outcome = "canceled" => a.aborted

(* A video is reported made only when the provider made it; it is given up  *)
(* as late only after MaxPolls polls, none of which found it.               *)
VideoHonest(a) ==
    /\ a.kind = "video" /\ a.outcome = "done" => a.task = "made"
    /\ a.outcome = "timeout" => a.polls = MaxPolls /\ a.sent = MaxPolls + 1
    /\ a.kind = "video" /\ a.polls > 0 => a.sent \in {a.polls + 1, a.polls + 2}

(* However the stream is cut into chunks, the answer is that of the events  *)
(* delivered: half an event or an error fails it, and nothing else does.    *)
ReplyExact(a) ==
    a.kind = "text" /\ a.at > 0 =>
        LET s == Scripts[a.script] IN
        /\ a.outcome = "done" => ~Fails(s, a.at) /\ Reply(a.stream) = Answer(s, a.at)
        /\ Failed(a.stream) => Fails(s, a.at) /\ a.outcome \in {"failed", "canceled"}
        /\ ~Failed(a.stream) => IsPrefix(a.stream.text, Answer(s, a.at))

(* services/api: what holds of every request at every moment, whatever the  *)
(* session does under it.                                                   *)
RequestsSound ==
    \A q \in Asks : /\ RequestTypeOK(asks[q]) /\ OneCredential(asks[q])
                    /\ StopsForGood(asks[q]) /\ VideoHonest(asks[q])

(* What a request sends and shows: the size it is asked with, the text that *)
(* was streamed.                                                            *)
AnswersExact ==
    \A q \in Asks :
        /\ ReplyExact(asks[q])
        /\ asks[q].kind \in {"image", "edit"} =>
               SizeHonest(asks[q].quality, asks[q].size, asks[q].sentSize)

(* The page always comes to rest: whatever the site and the providers       *)
(* answer, the loading screen goes, the drawer stops spinning, every        *)
(* request ends, and a finished image has had the balance read again.       *)
AtRest ==
    /\ session.status # "loading" /\ ~session.busy /\ InFlight = {}
    /\ \A q \in Asks : asks[q].stage \in {"none", "ended"} /\ ~asks[q].timer
WorkbenchSettles == []<>AtRest
=============================================================================
