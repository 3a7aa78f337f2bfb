-------------------------- MODULE CanvasGeneration --------------------------
(***************************************************************************)
(* Generations on the canvas of CanvasGraph: handleGenerateNode,           *)
(* handleRetryNode, maskEditImageNode and generateAngleNode as runs that   *)
(* interleave with editing and with one another.  A run is one call of a   *)
(* handler; its stages are what it awaits.  generationRequestsRef maps a   *)
(* target node to the run whose AbortController is registered for it, and  *)
(* runningNodeId is the one node whose panel shows "stop".                 *)
(*                                                                         *)
(* The items of a node are metadata.images or metadata.texts.  "batch" is  *)
(* the run that created them (their ids are fresh in every run), "shown"   *)
(* the item the node's own content came from, 0 when it came from none.    *)
(***************************************************************************)
EXTENDS CanvasGraph

CONSTANTS
    Runs,       \* bound: calls of the generation handlers, 1..n
    Items,      \* bound: results asked for by one of them, 1..n
    MaxSteps    \* bound: calls and editing steps together

Marks   == {"idle", "loading", "success", "error"}
Other   == 1 + Cardinality(Items)       \* an item id that is in no batch
NoItems == [i \in Items |-> "none"]
GenSet  == [status : Marks, items : [Items -> Marks \cup {"none"}],
            primary : {0, Other} \cup Items, shown : {0, Other} \cup Items,
            batch : {0} \cup Runs]
NewGen  == [status |-> "idle", items |-> NoItems, primary |-> 0, shown |-> 0, batch |-> 0]

(* imageMetadata over a node that forgets its batch; videoMetadata and      *)
(* audioMetadata keep it; a text keeps what it shows.                       *)
GenSettled(gen, type) ==
    IF type = "image" THEN [NewGen EXCEPT !.status = "success"]
    ELSE [gen EXCEPT !.status = "success", !.shown = IF type = "text" THEN @ ELSE 0]
(* (A slip: the items are reset, the node goes on spinning.)                *)
GenCutItems(gen, status) ==
    [gen EXCEPT !.items = [i \in Items |-> IF @[i] = "loading" THEN "error" ELSE @[i]]]
(* resetInterruptedGeneration, also used for a stopped run with "idle".     *)
GenCut(gen, status) ==
    IF gen.status # "loading" THEN gen
    ELSE [gen EXCEPT !.status = status,
                     !.items = [i \in Items |-> IF @[i] = "loading" THEN "error" ELSE @[i]]]
GenInterrupted(gen) == GenCut(gen, "error")

(* What CanvasGraph leaves open is what generations make of it.             *)
ASSUME GenerationAssumption ==
    /\ Gens = GenSet /\ FreshGen = NewGen
    /\ \A gen \in GenSet, type \in Media \cup {"text"} : Settled(gen, type) = GenSettled(gen, type)
    /\ \A gen \in GenSet : Interrupted(gen) = GenInterrupted(gen)
    /\ IsFiniteSet(Runs) /\ Runs = 1..Cardinality(Runs)
    /\ IsFiniteSet(Items) /\ Items = 1..Cardinality(Items)
    /\ MaxSteps \in Nat

(* A page that loads a document has no run of its own yet (batch), and      *)
(* resetInterruptedGeneration lets nothing load.                            *)
ASSUME LoadedAssumption ==
    \A c \in Canvases, n \in Ids : c.nodes[n].gen.batch = 0 /\ c.nodes[n].gen.status # "loading"

Kinds  == {"image", "text", "video", "audio", "retry", "single"}
Stages == {"none", "hydrating", "resolving", "asking", "storing", "over", "lost"}
NoRun  == [kind |-> "image", stage |-> "none", origin |-> 0, root |-> 0, type |-> "image",
           left |-> {}, done |-> {}, halt |-> "no", config |-> FALSE,
           marks |-> FALSE, empty |-> FALSE, item |-> 0, batch |-> 0]
RunSet == [kind : Kinds, stage : Stages, origin : 0..MaxNodes, root : 0..MaxNodes,
           type : Media \cup {"text", "config"}, left : SUBSET Items, done : SUBSET Items,
           halt : {"no", "stopped", "replaced"}, config : BOOLEAN, marks : BOOLEAN, empty : BOOLEAN,
           item : {0, Other} \cup Items, batch : {0} \cup Runs]

VARIABLES
    runs,       \* the calls
    requests,   \* generationRequestsRef: target -> run, 0 is no entry
    running,    \* runningNodeId
    confirm     \* the node of the open "stop generation?" dialog

genVars == <<runs, requests, running, confirm>>
vars    == <<graphVars, genVars>>

GenTypeOK ==
    /\ runs \in [Runs -> RunSet] /\ requests \in [Ids -> {0} \cup Runs]
    /\ running \in 0..MaxNodes /\ confirm \in 0..MaxNodes

Init ==
    /\ GraphInit
    /\ runs = [r \in Runs |-> NoRun] /\ requests = [n \in Ids |-> 0]
    /\ running = 0 /\ confirm = 0

InFlight(r)  == runs[r].stage \in {"hydrating", "asking", "storing"}
Registers(r) == runs[r].kind \in {"retry", "single"}   \* only under its target
(* The runningNodeId a request is registered with.                          *)
Shows(r)     == IF Registers(r) THEN runs[r].root ELSE runs[r].origin
Aborted(r)   == runs[r].halt # "no"
Steps        == (MaxEdits - edits) + Cardinality({r \in Runs : runs[r].stage # "none"})
IsNext(r)    == /\ Steps < MaxSteps /\ runs[r].stage = "none"
                /\ \A q \in Runs : q < r => runs[q].stage # "none"

(* startGenerationRequest: the controller registered for the target before, *)
(* if it is another one, is aborted.                                        *)
Aborting(rs, req, target, r) ==
    [q \in Runs |-> IF q = req[target] /\ q # r THEN [rs[q] EXCEPT !.halt = "replaced"] ELSE rs[q]]
(* finishGenerationRequest: only an entry that still holds this controller. *)
FinishedAnyway(req, targets, r) ==   \* (A slip: whoever holds the entry.)
    [n \in Ids |-> IF n \in targets THEN 0 ELSE req[n]]
Finished(req, targets, r) ==
    [n \in Ids |-> IF n \in targets /\ req[n] = r THEN 0 ELSE req[n]]

SetGen(ns, n, gen)  == IF n \in Live(ns) THEN [ns EXCEPT ![n].gen = gen] ELSE ns
Marked(ns, n, mark) ==
    IF n \in Live(ns) THEN [ns EXCEPT ![n].gen.status = mark] ELSE ns
GraphKeeps == UNCHANGED <<picker, clipboard, entry, jobs, edits>>

(* The end of a handler: its finally.                                       *)
End(r, rs, req, targets) ==
    /\ runs' = [rs EXCEPT ![r].stage = "over"]
    /\ requests' = Finished(req, targets, r)
    /\ running' = 0 /\ UNCHANGED confirm

-----------------------------------------------------------------------------
(* handleGenerateNode up to the hydration of its references.  The panel     *)
(* offers it unless it shows "stop"; the retry button of a failed text with *)
(* several variants calls it too.  What it knows of the node is captured.   *)
ModeOf(type) == IF type = "config" THEN {"image", "text", "video", "audio"} ELSE {type}
Generate(r, n, mode) ==
    LET node == nodes[n]
    IN  /\ IsNext(r) /\ confirm = 0
        /\ n \in Live(nodes) /\ node.type # "group" /\ mode \in ModeOf(node.type)
        /\ running # n \/ (node.type = "text" /\ node.gen.status = "error")
        /\ runs' = [Aborting(runs, requests, n, r) EXCEPT ![r] =
               [NoRun EXCEPT !.kind = mode, !.stage = "hydrating", !.origin = n, !.root = n,
                    !.type = mode, !.config = (node.type = "config"),
                    !.marks = (node.type # "image" /\ ~ (mode = "text" /\ node.type = "text"
                                                           /\ node.filled)),
                    !.empty = (node.type = mode /\ ~ node.filled)]]
        /\ requests' = [requests EXCEPT ![n] = r]
        /\ running' = n
        /\ UNCHANGED confirm /\ UNCHANGED graphVars

(* Stopped meanwhile, or nothing to say: the handler returns.               *)
HydratedToNothing(r) ==
    /\ runs[r].stage = "hydrating"
    /\ Aborted(r) \/ runs[r].kind \in {"text", "audio"}
    /\ End(r, runs, requests, {runs[r].origin})
    /\ UNCHANGED graphVars
(* A reference that cannot be read rejects outside the try: nothing is      *)
(* cleaned up, the node shows "stop" until it is used.                      *)
HydrationFails(r) ==
    /\ runs[r].stage = "hydrating"
    /\ runs' = [runs EXCEPT ![r].stage = "lost"]
    /\ UNCHANGED <<requests, running, confirm>> /\ UNCHANGED graphVars

(* The root of the results: the node itself when it is empty and of the     *)
(* type asked for, a new child connected to it otherwise, the source being  *)
(* gone or not.                                                             *)
Loading(r, asked) ==
    [NewGen EXCEPT !.status = "loading", !.batch = IF asked = {} THEN 0 ELSE r,
                   !.items = [i \in Items |-> IF i \in asked THEN "loading" ELSE "none"],
                   !.primary = IF runs[r].kind = "text" THEN 1 ELSE 0]
Foreign(item) == IF item = 0 THEN 0 ELSE Other     \* the id of a former batch
(* Writing into the empty node: an image keeps its metadata, and with it    *)
(* its group; the others are written anew.                                  *)
InPlace(r, ns, gen) ==
    LET n == runs[r].origin
    IN  IF n \notin Live(ns) THEN ns
        ELSE IF runs[r].kind = "image"
             THEN SetGen(ns, n, [gen EXCEPT !.primary = Foreign(ns[n].gen.primary),
                                            !.shown = Foreign(ns[n].gen.shown)])
             ELSE [ns EXCEPT ![n] = Node(runs[r].kind, 0, FALSE, gen)]
SourceMark(r) ==
    IF runs[r].kind \in {"image", "text"}
    THEN IF runs[r].config THEN "loading" ELSE IF runs[r].kind = "image" THEN "success" ELSE "keep"
    ELSE "success"
Started(r, asked) ==
    LET run   == runs[r]
        mark  == SourceMark(r)
        after == IF mark = "keep" THEN nodes ELSE Marked(nodes, run.origin, mark)
    IN  IF run.empty
        THEN /\ nodes' = InPlace(r, nodes, Loading(r, asked))
             /\ runs' = [runs EXCEPT ![r].stage = "asking", ![r].left = asked]
             /\ UNCHANGED <<made, conns, requests>>
        ELSE /\ made < MaxNodes /\ made' = made + 1
             /\ nodes' = [after EXCEPT ![made + 1] =
                             Node(run.kind, 0, FALSE, Loading(r, asked))]
             /\ conns' = conns \cup {<<run.origin, made + 1>>}
             /\ runs' = [runs EXCEPT ![r].stage = "asking", ![r].left = asked,
                                     ![r].root = made + 1]
             /\ requests' = [requests EXCEPT ![made + 1] = r]
Start(r) ==
    /\ runs[r].stage = "hydrating" /\ ~ Aborted(r)
    /\ IF runs[r].kind \in {"image", "text"}
       THEN \E k \in Items : Started(r, 1..k) ELSE Started(r, {})
    /\ UNCHANGED <<running, confirm>> /\ GraphKeeps

-----------------------------------------------------------------------------
(* One image of a batch: generated, downloaded and stored, all under the    *)
(* signal, so an aborted run comes here no more.  The first to arrive is    *)
(* shown; the configuration turns to success with it.                       *)
Owns(ns, r)     == runs[r].root \in Live(ns) /\ ns[runs[r].root].gen.batch = r
ItemMark(ns, r, i, mark) ==
    IF Owns(ns, r) THEN [ns EXCEPT ![runs[r].root].gen.items[i] = mark] ELSE ns
ShowItem(ns, n, i) ==
    [ns EXCEPT ![n].filled = TRUE, ![n].gen.primary = i, ![n].gen.shown = i]
IdOf(r, i) == IF Owns(nodes, r) THEN i ELSE Other
ImageWritten(r, i) ==
    LET n     == runs[r].root
        after == ItemMark(nodes, r, i, "success")
        first == n \in Live(nodes) /\ nodes[n].gen.primary = 0
        shown == IF first THEN ShowItem(after, n, IdOf(r, i)) ELSE after
    IN  IF runs[r].config THEN Marked(shown, runs[r].origin, "success") ELSE shown
(* One text: it replaces what the node shows if it is its primary.          *)
TextShown(ns, r, i) ==
    IF runs[r].root \in Live(ns) /\ ns[runs[r].root].gen.primary = i
    THEN ShowItem(ns, runs[r].root, i) ELSE ns
TextWritten(r, i) == TextShown(ItemMark(nodes, r, i, "success"), r, i)

(* After Promise.all: an aborted run resets at most its configuration, the  *)
(* others settle the root and the configuration.  A text root keeps only    *)
(* the texts that were completed.                                           *)
KeepTexts(ns, r, done) ==
    LET n    == runs[r].root
        gen  == ns[n].gen
        show == IF Owns(ns, r) /\ gen.primary \in done THEN gen.primary
                ELSE IF done = {} THEN 0 ELSE CHOOSE i \in done : \A j \in done : i <= j
    IN  IF n \notin Live(ns) THEN ns
        ELSE [ns EXCEPT ![n].filled = (show # 0),
                 ![n].gen = [gen EXCEPT !.primary = show, !.shown = show, !.batch = r,
                                !.items = [i \in Items |-> IF i \in done THEN "success"
                                                           ELSE "none"]]]
Closed(ns, r, done) ==
    LET run  == runs[r]
        mark == IF done # {} THEN "success" ELSE "error"
        kept == IF run.kind = "text" THEN KeepTexts(ns, r, done) ELSE ns
    IN  IF Aborted(r)
        THEN IF run.kind = "image" /\ run.config /\ run.origin \in Live(ns)
                /\ ns[run.origin].gen.status = "loading"
             THEN Marked(ns, run.origin, "idle") ELSE ns
        ELSE LET root == Marked(kept, run.root, mark)
             IN  IF run.config THEN Marked(root, run.origin, mark) ELSE root

(* The answer for one item, and with the last one the end of the handler.   *)
ItemAnswered(r, i, ns, done) ==
    LET rs == [runs EXCEPT ![r].left = @ \ {i}, ![r].done = done]
    IN  /\ runs[r].stage = "asking" /\ i \in runs[r].left
        /\ IF runs[r].left = {i}
           THEN /\ nodes' = Closed(ns, r, done)
                /\ End(r, rs, requests, {runs[r].root, runs[r].origin})
           ELSE nodes' = ns /\ runs' = rs /\ UNCHANGED <<requests, running, confirm>>
        /\ UNCHANGED <<conns, made>> /\ GraphKeeps
ImageArrives(r, i) ==
    /\ runs[r].kind = "image" /\ ~ Aborted(r)
    /\ ItemAnswered(r, i, ImageWritten(r, i), runs[r].done \cup {i})
TextArrives(r, i) ==
    /\ runs[r].kind = "text" /\ ~ Aborted(r)
    /\ ItemAnswered(r, i, TextWritten(r, i), runs[r].done \cup {i})
ItemFails(r, i) ==
    /\ runs[r].kind \in {"image", "text"} /\ ~ Aborted(r)
    /\ ItemAnswered(r, i, ItemMark(nodes, r, i, "error"), runs[r].done)
ImageCanceled(r, i) ==               \* (A slip: a stopped text waits on.)
    /\ runs[r].kind = "image" /\ Aborted(r)
    /\ ItemAnswered(r, i, nodes, runs[r].done)
ItemCanceled(r, i) ==
    /\ runs[r].kind \in {"image", "text"} /\ Aborted(r)
    /\ ItemAnswered(r, i, nodes, runs[r].done)
(* onDelta: the primary text is shown while it streams.                     *)
TextStreams(r, i) ==
    /\ runs[r].kind = "text" /\ runs[r].stage = "asking" /\ i \in runs[r].left
    /\ ~ Aborted(r)
    /\ nodes' = TextShown(nodes, r, i) /\ nodes' # nodes
    /\ UNCHANGED <<conns, made>> /\ GraphKeeps /\ UNCHANGED genVars

-----------------------------------------------------------------------------
(* Video and audio: one answer under the signal, then a store without it,   *)
(* so what a stopped run already answered is still written.                 *)
MediaKinds == {"video", "audio"}
OneResult(r) ==
    \/ runs[r].kind \in MediaKinds
    \/ runs[r].kind = "retry" /\ runs[r].type \in MediaKinds
MediaAnswered(r) ==
    /\ OneResult(r) /\ runs[r].stage = "asking" /\ ~ Aborted(r)
    /\ runs' = [runs EXCEPT ![r].stage = "storing"]
    /\ UNCHANGED <<requests, running, confirm>> /\ UNCHANGED graphVars
MediaStoredAnyway(r) ==              \* (A slip: a deleted node comes back.)
    /\ OneResult(r) /\ runs[r].stage = "storing"
    /\ nodes' = [nodes EXCEPT ![runs[r].root].filled = TRUE]
    /\ End(r, runs, requests, {runs[r].root, runs[r].origin})
    /\ UNCHANGED <<conns, made>> /\ GraphKeeps
MediaStored(r) ==
    LET n == runs[r].root
    IN  /\ OneResult(r) /\ runs[r].stage = "storing"
        /\ nodes' = IF n \in Live(nodes)
                    THEN [nodes EXCEPT ![n].filled = TRUE, ![n].gen.shown = 0,
                                       ![n].gen.status = "success"]
                    ELSE nodes
        /\ End(r, runs, requests, {n} \cup IF Registers(r) THEN {} ELSE {runs[r].origin})
        /\ UNCHANGED <<conns, made>> /\ GraphKeeps
(* The catch of handleGenerateNode; an error of the store counts also when  *)
(* the run was stopped.                                                     *)
MediaFails(r) ==
    LET run  == runs[r]
        both == Marked(Marked(nodes, run.root, "error"), run.origin, "error")
    IN  /\ run.kind \in MediaKinds
        /\ run.stage = "storing" \/ (run.stage = "asking" /\ ~ Aborted(r))
        /\ nodes' = IF run.marks THEN both
                    ELSE IF run.root # run.origin THEN Marked(nodes, run.root, "error") ELSE nodes
        /\ End(r, runs, requests, {run.root, run.origin})
        /\ UNCHANGED <<conns, made>> /\ GraphKeeps
(* Any single request that was aborted: isGenerationCanceled, no mark.      *)
Canceled(r) ==
    /\ runs[r].kind \notin {"image", "text"} /\ runs[r].stage = "asking" /\ Aborted(r)
    /\ End(r, runs, requests, {runs[r].root} \cup IF Registers(r) THEN {} ELSE {runs[r].origin})
    /\ UNCHANGED graphVars

-----------------------------------------------------------------------------
(* handleRetryNode(node) and, for one image of a batch, (node, imageId): it *)
(* resolves its references before it registers anything, and neither button *)
(* asks whether the node is already running.                                *)
Count(gen) == Cardinality({i \in Items : gen.items[i] # "none"})
Upstream[k \in 0..MaxNodes, n \in Ids] ==
    IF k = 0 THEN {n}
    ELSE LET near == Upstream[k - 1, n]
         IN  near \cup {e[1] : e \in {e \in conns : e[2] \in near}}
(* findRetrySourceNode: a configuration upstream, else the node.            *)
RetrySources(n) ==
    LET above == {c \in Ids \ {n} : nodes[c].type = "config" /\ c \in Upstream[MaxNodes, n]}
    IN  IF above = {} THEN {n} ELSE above
Retry(r, n, i) ==
    LET node == nodes[n]
    IN  /\ IsNext(r) /\ confirm = 0 /\ n \in Live(nodes) /\ node.type # "group"
        /\ IF i = 0 THEN node.gen.status = "error"
           ELSE node.type = "image" /\ node.gen.items[i] = "error" /\ Count(node.gen) > 1
        /\ \E source \in RetrySources(n) :
              runs' = [runs EXCEPT ![r] =
                 [NoRun EXCEPT !.kind = "retry", !.stage = "resolving", !.origin = source,
                      !.root = n, !.type = node.type, !.batch = node.gen.batch,
                      !.item = IF i # 0 THEN i ELSE IF node.type # "image" THEN 0
                               ELSE IF node.gen.primary # 0 THEN node.gen.primary ELSE Other,
                      !.marks = (i = 0)]]
        /\ UNCHANGED <<requests, running, confirm>> /\ UNCHANGED graphVars

(* What a failed retry leaves: content is kept and counts as success.       *)
RetryItem(ns, r, mark) ==
    LET run == runs[r]
    IN  IF run.root \in Live(ns) /\ ns[run.root].gen.batch = run.batch
           /\ run.item \in Items /\ ns[run.root].gen.items[run.item] # "none"
        THEN [ns EXCEPT ![run.root].gen.items[run.item] = mark] ELSE ns
RetryFailed(r) ==
    LET n == runs[r].root
        after == IF runs[r].marks THEN nodes ELSE RetryItem(nodes, r, "error")
    IN  Marked(after, n, IF nodes[n].filled THEN "success" ELSE "error")
RetryRefused(r) ==
    /\ runs[r].stage = "resolving"
    /\ nodes' \in {nodes, RetryFailed(r)}       \* no prompt, or a reference is gone
    /\ runs' = [runs EXCEPT ![r].stage = "over"]
    /\ UNCHANGED <<requests, running, confirm>>
    /\ UNCHANGED <<conns, made>> /\ GraphKeeps
RetryStarts(r) ==
    LET n == runs[r].root
        after == IF runs[r].marks THEN nodes ELSE RetryItem(nodes, r, "loading")
    IN  /\ runs[r].stage = "resolving"
        /\ nodes' = Marked(after, n, "loading")
        /\ runs' = [Aborting(runs, requests, n, r) EXCEPT ![r].stage = "asking"]
        /\ requests' = [requests EXCEPT ![n] = r]
        /\ running' = n /\ UNCHANGED confirm
        /\ UNCHANGED <<conns, made>> /\ GraphKeeps
(* The new image takes the failed one's place, and is shown when the whole  *)
(* node was retried or showed nothing; a node of another kind becomes an    *)
(* image.                                                                   *)
RetryImage(r) ==
    LET run   == runs[r]
        n     == run.root
        after == RetryItem(nodes, r, "success")
        shown == IF run.marks \/ ~ nodes[n].filled THEN ShowItem(after, n, run.item) ELSE after
    IN  IF n \in Live(nodes) THEN Marked([shown EXCEPT ![n].type = "image"], n, "success") ELSE nodes
RetryText(r) ==
    LET n == runs[r].root
    IN  IF n \in Live(nodes)
        THEN [nodes EXCEPT ![n].type = "text", ![n].filled = TRUE, ![n].gen.shown = 0,
                           ![n].gen.status = "success"]
        ELSE nodes
(* onDelta: what streams is content, and what is left when the retry fails. *)
RetryStreams(r) ==
    /\ runs[r].kind = "retry" /\ runs[r].stage = "asking" /\ ~ Aborted(r)
    /\ runs[r].type = "text"
    /\ nodes' = Marked(RetryText(r), runs[r].root, "loading") /\ nodes' # nodes
    /\ UNCHANGED <<conns, made>> /\ GraphKeeps /\ UNCHANGED genVars
RetrySucceeds(r) ==
    /\ runs[r].kind = "retry" /\ runs[r].stage = "asking" /\ ~ Aborted(r)
    /\ runs[r].type \notin MediaKinds
    /\ nodes' = IF runs[r].type = "text" THEN RetryText(r) ELSE RetryImage(r)
    /\ End(r, runs, requests, {runs[r].root})
    /\ UNCHANGED <<conns, made>> /\ GraphKeeps
RetryFails(r) ==
    /\ runs[r].kind = "retry"
    /\ runs[r].stage = "storing" \/ (runs[r].stage = "asking" /\ ~ Aborted(r))
    /\ nodes' = RetryFailed(r)
    /\ End(r, runs, requests, {runs[r].root})
    /\ UNCHANGED <<conns, made>> /\ GraphKeeps

-----------------------------------------------------------------------------
(* maskEditImageNode and generateAngleNode: a child that is loading from    *)
(* the start, registered under its own id.                                  *)
EditImage(r, n) ==
    LET child == made + 1
    IN  /\ IsNext(r) /\ confirm = 0 /\ made < MaxNodes
        /\ n \in Live(nodes) /\ nodes[n].type = "image" /\ nodes[n].filled
        /\ Insert(Node("image", 0, FALSE, [NewGen EXCEPT !.status = "loading"]))
        /\ conns' = conns \cup {<<n, child>>}
        /\ runs' = [runs EXCEPT ![r] = [NoRun EXCEPT !.kind = "single", !.stage = "asking",
                                            !.origin = n, !.root = child]]
        /\ requests' = [requests EXCEPT ![child] = r]
        /\ running' = child /\ UNCHANGED confirm /\ GraphKeeps
ImageEdited(r) ==
    LET n == runs[r].root
    IN  /\ runs[r].kind = "single" /\ runs[r].stage = "asking" /\ ~ Aborted(r)
        /\ nodes' = IF n \in Live(nodes)
                    THEN [nodes EXCEPT ![n].filled = TRUE, ![n].gen.shown = 0,
                                       ![n].gen.status = "success"]
                    ELSE nodes
        /\ End(r, runs, requests, {n})
        /\ UNCHANGED <<conns, made>> /\ GraphKeeps
ImageEditFails(r) ==
    /\ runs[r].kind = "single" /\ runs[r].stage = "asking" /\ ~ Aborted(r)
    /\ nodes' = Marked(nodes, runs[r].root, "error")
    /\ End(r, runs, requests, {runs[r].root})
    /\ UNCHANGED <<conns, made>> /\ GraphKeeps

-----------------------------------------------------------------------------
(* confirmStopGeneration opens a dialog; its answer stops every request     *)
(* that shows at that node: the targets and origins still loading go idle.  *)
AskStop ==
    /\ running # 0 /\ running \in Live(nodes) /\ confirm = 0 /\ confirm' = running
    /\ UNCHANGED <<runs, requests, running>> /\ UNCHANGED graphVars
DismissStop ==
    /\ confirm # 0 /\ confirm' = 0
    /\ UNCHANGED <<runs, requests, running>> /\ UNCHANGED graphVars
ConfirmStop ==
    LET targets  == {t \in Ids : requests[t] # 0 /\ Shows(requests[t]) = confirm}
        stopped  == {requests[t] : t \in targets}
        affected == targets \cup {runs[r].origin : r \in stopped}
    IN  /\ confirm # 0 /\ confirm' = 0
        /\ runs' = [r \in Runs |-> IF r \in stopped /\ ~ Aborted(r)
                                   THEN [runs[r] EXCEPT !.halt = "stopped"] ELSE runs[r]]
        /\ requests' = [t \in Ids |-> IF t \in targets THEN 0 ELSE requests[t]]
        /\ running' = IF running = confirm THEN 0 ELSE running
        /\ nodes' = [n \in Ids |-> IF n \in affected
                                   THEN [nodes[n] EXCEPT !.gen = GenCut(@, "idle")] ELSE nodes[n]]
        /\ UNCHANGED <<conns, made>> /\ GraphKeeps

(* The buttons of an open batch: setBatchPrimary, deleteBatchImage and      *)
(* duplicateBatchImage.  The image of a deleted item stays on the node.     *)
HasItem(n, i) == nodes[n].gen.items[i] # "none"
SetBatchPrimary(n, i) ==
    /\ Edit /\ nodes[n].type \in {"image", "text"} /\ nodes[n].gen.items[i] = "success"
    /\ nodes' = [nodes EXCEPT ![n].filled = TRUE, ![n].gen.primary = i, ![n].gen.shown = i]
    /\ UNCHANGED <<conns, made>> /\ Keep
DeleteBatchImage(n, i) ==
    LET rest == {j \in Items \ {i} : HasItem(n, j)}
        next == IF rest = {} THEN 0 ELSE CHOOSE j \in rest : \A k \in rest : j <= k
    IN  /\ Edit /\ nodes[n].type = "image" /\ nodes[n].gen.items[i] = "error"
        /\ Count(nodes[n].gen) > 1
        /\ nodes' = [nodes EXCEPT ![n].gen.items[i] = "none",
                                  ![n].gen.primary = IF @ = i THEN next ELSE @]
        /\ UNCHANGED <<conns, made>> /\ Keep
DuplicateBatchImage(n, i) ==
    /\ nodes[n].gen.items[i] = "success" /\ ExtractImage(n)

(* Editing goes on meanwhile.  A deleted running node, and clearing the     *)
(* canvas, take "stop" away without aborting anything.                      *)
EditDocument == EditNext /\ UNCHANGED genVars
DeleteSelected(S) ==
    /\ DeleteNodes(S) /\ running' = IF running \in S THEN 0 ELSE running
    /\ UNCHANGED <<runs, requests, confirm>>
Clear == ClearCanvas /\ running' = 0 /\ UNCHANGED <<runs, requests, confirm>>
Reload ==
    /\ ReloadPage
    /\ runs' = [r \in Runs |-> IF runs[r].stage = "none" THEN runs[r]
                               ELSE [runs[r] EXCEPT !.stage = "over"]]
    /\ requests' = [n \in Ids |-> 0] /\ running' = 0 /\ confirm' = 0

Begin ==
    \/ \E r \in Runs, n \in Live(nodes), mode \in Media \cup {"text"} : Generate(r, n, mode)
    \/ \E r \in Runs, n \in Live(nodes), i \in {0} \cup Items : Retry(r, n, i)
    \/ \E r \in Runs, n \in Live(nodes) : EditImage(r, n)
Answer(r) ==
    \/ HydrationFails(r) \/ Start(r)
    \/ \E i \in Items : ImageArrives(r, i) \/ TextArrives(r, i) \/ ItemFails(r, i)
    \/ \E i \in Items : TextStreams(r, i)
    \/ MediaAnswered(r) \/ MediaStored(r) \/ MediaFails(r)
    \/ RetryRefused(r) \/ RetryStarts(r) \/ RetryStreams(r)
    \/ RetrySucceeds(r) \/ RetryFails(r)
    \/ ImageEdited(r) \/ ImageEditFails(r)
(* What happens to an aborted run whether or not anything answers.          *)
GiveUp(r) == HydratedToNothing(r) \/ Canceled(r) \/ \E i \in Items : ItemCanceled(r, i)
Batch ==
    /\ \E n \in Live(nodes), i \in Items :
          SetBatchPrimary(n, i) \/ DeleteBatchImage(n, i) \/ DuplicateBatchImage(n, i)
    /\ UNCHANGED genVars
Edits ==
    /\ EditDocument \/ Batch \/ Clear \/ Reload \/ \E S \in Selections : DeleteSelected(S)
    /\ edits' # edits => Steps < MaxSteps
Stop  == AskStop \/ DismissStop \/ ConfirmStop
Next  == Begin \/ Stop \/ Edits \/ \E r \in Runs : Answer(r) \/ GiveUp(r)

(* An aborted fetch rejects; nothing is assumed of the answers, except that *)
(* a stored file is written or not.                                         *)
Fairness == \A r \in Runs : WF_vars(GiveUp(r)) /\ WF_vars(MediaStored(r))
Spec == Init /\ [][Next]_vars /\ Fairness

-----------------------------------------------------------------------------
TypeOK == GraphTypeOK /\ GenTypeOK

(* generationRequestsRef is exact: an entry belongs to a run in flight that *)
(* targets or started on that node (or to one lost while it hydrated); a    *)
(* run that was not aborted is registered under its target, so it can be    *)
(* stopped and no second live run writes to that node; and when a node      *)
(* shows "stop" there is something for it to stop.                          *)
RequestsOwned ==
    \A n \in Ids : LET r == requests[n] IN
        r # 0 => /\ InFlight(r) \/ runs[r].stage = "lost"
                 /\ n = runs[r].root \/ (~ Registers(r) /\ n = runs[r].origin)
LiveRunRegistered ==
    \A r \in Runs : InFlight(r) /\ ~ Aborted(r) =>
        /\ requests[runs[r].root] = r
        /\ ~ Registers(r) => requests[runs[r].origin] = r
StopWorks == running # 0 => \E n \in Ids : requests[n] # 0 /\ Shows(requests[n]) = running
RegistryExact == RequestsOwned /\ LiveRunRegistered /\ StopWorks

(* A live run finds the items it still owes loading, whatever was undone,   *)
(* retried or stopped around it; and as long as only generations changed    *)
(* the document, a node that is loading is waited for by a run, or was left *)
(* by a run that another one replaced.                                      *)
OwedItemsLoading ==
    \A r \in Runs : runs[r].stage = "asking" /\ ~ Aborted(r) /\ Owns(nodes, r)
        => \/ \A i \in runs[r].left : nodes[runs[r].root].gen.items[i] \in {"loading", "none"}
           \/ \E q \in Runs : runs[q].halt = "stopped" /\ runs[q].origin = runs[r].root
Untouched == edits = MaxEdits
LoadingServed ==
    Untouched => \A n \in Live(nodes) : nodes[n].gen.status = "loading" =>
        \E r \in Runs : /\ n \in {runs[r].root, runs[r].origin}
                        /\ runs[r].halt = "replaced" \/ (InFlight(r) /\ ~ Aborted(r))
(* Under the same condition a node that reports success has content, and an *)
(* image shows its primary item.                                            *)
SuccessShown ==
    Untouched => \A n \in Live(nodes) : LET gen == nodes[n].gen IN
        /\ gen.status = "success" /\ nodes[n].type \in Media => nodes[n].filled
        /\ gen.primary \in Items /\ nodes[n].type = "image"
              /\ gen.items[gen.primary] = "success" => gen.shown = gen.primary
ResultsHonest == OwedItemsLoading /\ LoadingServed /\ SuccessShown

(* Documents of which this can be said were themselves left by generations. *)
NodeShown(node) ==
    /\ node.gen.status = "success" /\ node.type \in Media => node.filled
    /\ node.type = "image" => node.gen.primary = node.gen.shown
    /\ node.type = "image" /\ node.gen.primary # 0 => node.filled
GeneratedCanvases == \A c \in Canvases, n \in Ids : NodeShown(c.nodes[n])

(* A run that was stopped, or replaced by another on its node, ends without *)
(* waiting for any answer; what it stored is written first.                 *)
AbortedEnds == \A r \in Runs : (InFlight(r) /\ Aborted(r)) ~> runs[r].stage \in {"over", "lost"}

(* Every generation step is an edit the document allows: results are added  *)
(* or rewritten, nothing else moves.                                        *)
Plain(ns) == [n \in Ids |-> [ns[n] EXCEPT !.gen = 0]]
PlainGraph(g) == [nodes |-> Plain(g.nodes), conns |-> g.conns]
PlainSettled(gen, type) == 0
PlainInterrupted(gen)   == 0
G == INSTANCE CanvasGraph WITH
        Gens <- {0}, FreshGen <- 0, Settled <- PlainSettled, Interrupted <- PlainInterrupted,
        Canvases <- {[c EXCEPT !.nodes = Plain(@)] : c \in Canvases},
        nodes <- Plain(nodes), clipboard <- PlainGraph(clipboard), entry <- PlainGraph(entry)
ImplementsGraph == G!GraphSpec
=============================================================================
