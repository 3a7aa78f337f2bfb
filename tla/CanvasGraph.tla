---------------------------- MODULE CanvasGraph ----------------------------
(***************************************************************************)
(* The document a canvas edits: the nodes and connections of               *)
(* pages/canvas/project.tsx, with every operation that adds, removes,      *)
(* groups or connects them.  Each action is one event handler or the tail  *)
(* of an asynchronous one (an upload, a crop) after its last await.        *)
(*                                                                         *)
(* Geometry is a choice: the handlers that look for the node or the group  *)
(* under the pointer take any candidate their filters let through.  A node *)
(* keeps its type, the group it names (0: none), whether it has content,   *)
(* and "gen", its generation metadata, which the handlers here only copy.  *)
(* CanvasGeneration gives "gen" its meaning and adds the runs.             *)
(***************************************************************************)
EXTENDS Naturals, FiniteSets

CONSTANTS
    MaxNodes,       \* bound: ids that are ever given to a node
    MaxEdits,       \* bound: editing steps
    MaxPieces,      \* bound: the pieces an image is split into
    Gens, FreshGen, \* generation metadata, and that of a new node
    Settled(_, _),  \* metadata after content of a type was put in the node
    Interrupted(_), \* metadata as resetInterruptedGeneration loads it
    Canvases        \* the canvases a project may load: [nodes, conns, made]

Ids     == 1..MaxNodes
Media   == {"image", "video", "audio"}
Types   == {"config", "text", "group"} \cup Media
Node(type, group, filled, gen) ==
    [type |-> type, group |-> group, filled |-> filled, gen |-> gen]
NodeSet == [type : Types \cup {"none"}, group : 0..MaxNodes, filled : BOOLEAN, gen : Gens]
Blank   == Node("none", 0, FALSE, FreshGen)
Graph   == [nodes : [Ids -> NodeSet], conns : SUBSET (Ids \X Ids)]
Empty   == [nodes |-> [n \in Ids |-> Blank], conns |-> {}]
Jobs    == [op : {"child", "pieces", "file", "replace"}, node : 0..MaxNodes, type : Media]

VARIABLES
    nodes,      \* Ids -> NodeSet, Blank for an id that is not on the canvas
    conns,      \* the connections, <<from, to>>
    made,       \* ids given out so far (nanoid: never given twice)
    picker,     \* referencePickerNodeId, 0 is null
    clipboard,  \* clipboardRef: the copied nodes and their connections
    entry,      \* one entry of the undo history, taken at any moment
    jobs,       \* uploads and image edits under way, with what they captured
    edits       \* steps left

graphVars == <<nodes, conns, made, picker, clipboard, entry, jobs, edits>>

Live(ns)       == {n \in Ids : ns[n].type # "none"}
(* resourceKind; a text's prompt counts, so every text is one.              *)
Resource(ns, n) == ns[n].type = "text" \/ (ns[n].filled /\ ns[n].type \in Media)
(* isCanvasReferenceNode: a resource, or a group that holds one.            *)
Reference(ns, n) ==
    \/ Resource(ns, n)
    \/ ns[n].type = "group" /\ \E m \in Ids : ns[m].group = n /\ Resource(ns, m)

(* normalizeConnection: what may be joined, and in which direction.  A      *)
(* configuration shows only its target handle, a group only its source.     *)
CanJoin(ns, a, b) ==
    /\ {a, b} \subseteq Live(ns) /\ a # b
    /\ ns[b].type # "group"
    /\ ~ (ns[a].type = "config" /\ ns[b].type = "config")
Joined(ns, a, b, handle) ==
    IF ns[b].type # "config" /\ ns[a].type = "config" /\ handle = "target"
    THEN <<b, a>> ELSE <<a, b>>
Handles(type) == CASE type = "config" -> {"target"}
                   [] type = "group"  -> {"source"}
                   [] OTHER           -> {"source", "target"}

GraphTypeOK ==
    /\ nodes \in [Ids -> NodeSet] /\ conns \subseteq Ids \X Ids
    /\ made \in 0..MaxNodes /\ picker \in 0..MaxNodes
    /\ clipboard \in Graph /\ entry \in Graph
    /\ jobs \subseteq Jobs /\ edits \in 0..MaxEdits

GraphInit ==
    /\ \E c \in Canvases : nodes = c.nodes /\ conns = c.conns /\ made = c.made
    /\ entry = [nodes |-> nodes, conns |-> conns]
    /\ picker = 0 /\ clipboard = Empty /\ jobs = {} /\ edits = MaxEdits

Edit      == edits > 0 /\ edits' = edits - 1
Filled(type) == Node(type, 0, TRUE, Settled(FreshGen, type))
Document  == [nodes |-> nodes, conns |-> conns]
Keep      == UNCHANGED <<picker, clipboard, entry, jobs>>

(* A new node with the next id: setNodes(prev => [...prev, node]).          *)
Insert(node) ==
    /\ made < MaxNodes /\ made' = made + 1
    /\ nodes' = [nodes EXCEPT ![made + 1] = node]

(* createNode, insertAssistantText, createTextNodeFromClipboard and the     *)
(* stored video of handleAssetInsert.                                       *)
CreateNode(type, filled) ==
    /\ Edit /\ (filled => type \in {"text", "video"})
    /\ Insert(IF filled THEN Filled(type) ELSE Node(type, 0, FALSE, FreshGen))
    /\ UNCHANGED conns /\ Keep

(* connectNodes, from a handle of a to the node b under the pointer.        *)
ConnectNodes(a, b, handle) ==
    /\ Edit /\ picker = 0 /\ CanJoin(nodes, a, b) /\ handle \in Handles(nodes[a].type)
    /\ Joined(nodes, a, b, handle) \notin conns
    /\ conns' = conns \cup {Joined(nodes, a, b, handle)}
    /\ UNCHANGED <<nodes, made>> /\ Keep

(* createConnectedNode: the handle was dropped on the empty canvas.         *)
CreateConnected(a, type, handle) ==
    /\ Edit /\ picker = 0 /\ a \in Live(nodes) /\ handle \in Handles(nodes[a].type)
    /\ Insert(Node(type, 0, FALSE, FreshGen))
    /\ CanJoin(nodes', a, made + 1)
    /\ conns' = conns \cup {Joined(nodes', a, made + 1, handle)}
    /\ Keep

(* deleteNodes: children of a deleted group stay, without a group.          *)
(* (A slip: the children keep naming the deleted group.)                    *)
WithoutRegrouping(ns, dead) == [n \in Ids |-> IF n \in dead THEN Blank ELSE ns[n]]
Without(ns, dead) ==
    [n \in Ids |-> IF n \in dead THEN Blank
                   ELSE IF ns[n].group \in dead THEN [ns[n] EXCEPT !.group = 0]
                   ELSE ns[n]]
DeleteNodes(dead) ==
    /\ Edit /\ dead # {} /\ dead \subseteq Live(nodes)
    /\ nodes' = Without(nodes, dead)
    /\ conns' = {e \in conns : e[1] \notin dead /\ e[2] \notin dead}
    /\ picker' = IF picker \in dead THEN 0 ELSE picker
    /\ UNCHANGED <<made, clipboard, entry, jobs>>

(* deleteConnection and disconnectNodeReference.                            *)
DeleteConnection(e) ==
    /\ Edit /\ conns' = conns \ {e}
    /\ UNCHANGED <<nodes, made>> /\ Keep

(* startNodeReferenceSelection and exitNodeReferenceSelection.              *)
StartPicker(n) ==
    /\ Edit /\ n \in Live(nodes) /\ nodes[n].type # "group" /\ picker = 0
    /\ picker' = n
    /\ UNCHANGED <<nodes, conns, made, clipboard, entry, jobs>>
ExitPicker ==
    /\ picker # 0 /\ picker' = 0
    /\ UNCHANGED <<nodes, conns, made, clipboard, entry, jobs, edits>>

(* selectNodeReference: not a member of a group already connected.  The     *)
(* picker's own node is not looked up again; no configuration is a          *)
(* reference.                                                               *)
PickReference(n) ==
    /\ Edit /\ picker # 0 /\ n \in Live(nodes) /\ n # picker
    /\ <<n, picker>> \notin conns /\ <<nodes[n].group, picker>> \notin conns
    /\ Reference(nodes, n)
    /\ conns' = conns \cup {<<n, picker>>}
    /\ UNCHANGED <<nodes, made>> /\ Keep

(* clearCanvas empties the document; the picker is not reset.               *)
ClearCanvas ==
    /\ Edit /\ nodes' = Empty.nodes /\ conns' = {}
    /\ UNCHANGED made /\ Keep

(* duplicateNode: the copy names the group of the source, and no edge.      *)
DuplicateNode(n) ==
    /\ Edit /\ n \in Live(nodes) /\ Insert(nodes[n])
    /\ UNCHANGED conns /\ Keep

(* copySelectedNodes: a snapshot, with the connections inside it.           *)
CopyNodes(chosen) ==
    /\ Edit /\ chosen # {} /\ chosen \subseteq Live(nodes)
    /\ clipboard' = [nodes |-> [n \in Ids |-> IF n \in chosen THEN nodes[n] ELSE Blank],
                     conns |-> conns \cap (chosen \X chosen)]
    /\ UNCHANGED <<nodes, conns, made, picker, entry, jobs>>

(* pasteCopiedNodes: idMap renames nodes, connections and groups together;  *)
(* a group that was not copied is left behind.                              *)
Pasted == Live(clipboard.nodes)
(* (A slip: an id is skipped.)                                              *)
IdMapSkipping == [n \in Pasted |-> made + 1 + Cardinality({m \in Pasted : m <= n})]
IdMap  == [n \in Pasted |-> made + Cardinality({m \in Pasted : m <= n})]
PasteNodes(idMap) ==
    LET new       == {idMap[n] : n \in Pasted}
        origin(m) == CHOOSE n \in Pasted : idMap[n] = m
        group(n)  == LET g == clipboard.nodes[n].group
                     IN  IF g \in Pasted THEN idMap[g] ELSE 0
    IN  /\ nodes' = [m \in Ids |-> IF m \in new
                        THEN [clipboard.nodes[origin(m)] EXCEPT !.group = group(origin(m))]
                        ELSE nodes[m]]
        /\ conns' = conns \cup {<<idMap[e[1]], idMap[e[2]]>> : e \in clipboard.conns}
PasteCopied ==
    /\ Edit /\ Pasted # {} /\ made + Cardinality(Pasted) <= MaxNodes
    /\ made' = made + Cardinality(Pasted)
    /\ PasteNodes(IdMap)
    /\ Keep

(* finishNodeDrag over the nodes handleNodeMouseDown took along: those      *)
(* selected, and the children of the groups among them.  Dropped on a group *)
(* they all join it; a dragged group is never dropped on another, but each  *)
(* node of such a drag looks for a group around it.                         *)
Groups(ns)      == {g \in Ids : ns[g].type = "group"}
DragSet(chosen) == chosen \cup {n \in Live(nodes) : nodes[n].group \in chosen}
Regroup(moved, of) ==
    [n \in Ids |-> IF n \in moved \ Groups(nodes)
                   THEN [nodes[n] EXCEPT !.group = of[n]] ELSE nodes[n]]
DropNodes(chosen) ==
    LET moved   == DragSet(chosen)
        carried == moved \cap Groups(nodes)
    IN  /\ Edit /\ picker = 0 /\ chosen # {} /\ chosen \subseteq Live(nodes)
        /\ IF carried = {}
           THEN \E target \in {0} \cup Groups(nodes) :
                    nodes' = Regroup(moved, [n \in Ids |-> target])
           ELSE \E of \in [moved -> {0} \cup Groups(nodes)] :
                    nodes' = Regroup(moved, [n \in Ids |-> IF n \in moved THEN of[n] ELSE 0])
        /\ UNCHANGED <<conns, made>> /\ Keep

(* createImageReversePromptNodes: a filled text and a configuration, the    *)
(* image and the text connected to it.                                      *)
ReversePrompt(n) ==
    /\ Edit /\ nodes[n].type = "image" /\ nodes[n].filled
    /\ made + 2 <= MaxNodes /\ made' = made + 2
    /\ nodes' = [nodes EXCEPT ![made + 1] = Filled("text"),
                              ![made + 2] = Node("config", 0, FALSE, FreshGen)]
    /\ conns' = conns \cup {<<n, made + 2>>, <<made + 1, made + 2>>}
    /\ Keep

(* generateImageFromTextNode: the text becomes the prompt of a new          *)
(* configuration behind it.                                                 *)
ImageFromText(n) ==
    /\ Edit /\ nodes[n].type = "text"
    /\ made < MaxNodes /\ made' = made + 1
    /\ nodes' = [nodes EXCEPT ![n].filled = TRUE, ![n].gen = Settled(@, "text"),
                              ![made + 1] = Node("config", 0, FALSE, FreshGen)]
    /\ conns' = conns \cup {<<n, made + 1>>}
    /\ Keep

(* handleNodeContentChange.                                                 *)
WriteText(n, filled) ==
    /\ Edit /\ nodes[n].type = "text" /\ nodes[n].filled # filled
    /\ nodes' = [nodes EXCEPT ![n].filled = filled]
    /\ UNCHANGED <<conns, made>> /\ Keep

(* The handlers that await an upload capture their node before it:          *)
(* cropImageNode, upscaleImageNode and captureVideoNodeFrame ("child"),     *)
(* splitImageNode ("pieces"), handleImageInputChange on a node ("replace")  *)
(* and the files dropped, pasted or inserted ("file").                      *)
StartJob(j) ==
    /\ Edit /\ j \notin jobs
    /\ \/ /\ j.op = "child" /\ j.type = "image"
          /\ j.node \in Live(nodes) /\ nodes[j.node].filled
          /\ nodes[j.node].type \in {"image", "video"}
       \/ /\ j.op = "pieces" /\ j.type = "image"
          /\ j.node \in Live(nodes) /\ nodes[j.node].filled /\ nodes[j.node].type = "image"
       \/ j.op = "file" /\ j.node = 0
       \/ j.op = "replace" /\ j.node \in Live(nodes) /\ nodes[j.node].type \in Media
    /\ jobs' = jobs \cup {j}
    /\ UNCHANGED <<nodes, conns, made, picker, clipboard, entry>>
(* The connection comes from the captured node, wherever it is now.         *)
ChildReady(j) ==
    /\ j.op = "child"
    /\ Insert(Filled("image"))
    /\ conns' = conns \cup {<<j.node, made + 1>>}
PiecesReady(j) ==
    /\ j.op = "pieces"
    /\ \E k \in 1..MaxPieces :
          LET new == (made + 1)..(made + k)
          IN  /\ made + k <= MaxNodes /\ made' = made + k
              /\ nodes' = [n \in Ids |-> IF n \in new
                              THEN Filled("image") ELSE nodes[n]]
              /\ conns' = conns \cup ({j.node} \X new)
FileReady(j) ==
    /\ j.op = "file"
    /\ Insert(Filled(j.type))
    /\ UNCHANGED conns
(* A node that is gone is not brought back; an image forgets its batch.     *)
ReplacementReady(j) ==
    /\ j.op = "replace"
    /\ nodes' = IF j.node \in Live(nodes)
                THEN [nodes EXCEPT ![j.node].type = j.type, ![j.node].filled = TRUE,
                                   ![j.node].gen = Settled(@, j.type)]
                ELSE nodes
    /\ UNCHANGED <<conns, made>>
FinishJob(j) ==
    /\ j \in jobs /\ jobs' = jobs \ {j}
    /\ ChildReady(j) \/ PiecesReady(j) \/ FileReady(j) \/ ReplacementReady(j)
    /\ UNCHANGED <<picker, clipboard, entry, edits>>
FailJob(j) ==
    /\ j \in jobs /\ jobs' = jobs \ {j}
    /\ UNCHANGED <<nodes, conns, made, picker, clipboard, entry, edits>>

(* A history entry is the document as it was loaded or of some later        *)
(* moment; applyHistory puts it back.  CanvasProject models which entries   *)
(* there are.                                                               *)
CommitEntry ==
    /\ Edit /\ entry # Document /\ entry' = Document
    /\ UNCHANGED <<nodes, conns, made, picker, clipboard, jobs>>
ApplyEntry ==
    /\ Edit /\ nodes' = entry.nodes /\ conns' = entry.conns
    /\ UNCHANGED <<made, picker, clipboard, entry, jobs>>

(* The page is loaded again: the saved document comes back with its         *)
(* generations interrupted, everything held in memory is gone.              *)
Interrupt(ns) == [n \in Ids |-> [ns[n] EXCEPT !.gen = Interrupted(@)]]
ReloadPage ==
    /\ Edit /\ nodes' = Interrupt(nodes) /\ entry' = [nodes |-> nodes', conns |-> conns]
    /\ picker' = 0 /\ clipboard' = Empty /\ jobs' = {}
    /\ UNCHANGED <<conns, made>>

(* What a generation does to the document: a child of the node it was       *)
(* started on, and content (or none) for a node, which may take the type of *)
(* the result and, when it is rewritten from scratch, leave its group.      *)
AddResult(n, type) ==
    /\ Insert(Node(type, 0, FALSE, FreshGen))
    /\ conns' = conns \cup {<<n, made + 1>>}
    /\ UNCHANGED edits /\ Keep
Rewrite(n, type, group, filled) ==
    /\ nodes[n].type \notin {"group", "none"} /\ group \in {0, nodes[n].group}
    /\ type = "config" => nodes[n].type = type
    /\ nodes' = [nodes EXCEPT ![n].type = type, ![n].group = group, ![n].filled = filled]
(* One image of a batch becomes a node of its own.                          *)
ExtractImage(n) ==
    /\ Edit /\ nodes[n].type = "image" /\ Insert(Filled("image"))
    /\ UNCHANGED conns /\ Keep

CreateTypes == {"config", "image", "text", "video", "audio"}
Selections  == (SUBSET Live(nodes)) \ {{}}
EditNext ==
    \/ \E t \in Types, f \in BOOLEAN : CreateNode(t, f)
    \/ \E a, b \in Live(nodes), h \in {"source", "target"} : ConnectNodes(a, b, h)
    \/ \E a \in Live(nodes), t \in CreateTypes, h \in {"source", "target"} :
            CreateConnected(a, t, h)
    \/ \E S \in Selections : CopyNodes(S) \/ DropNodes(S)
    \/ \E e \in conns : DeleteConnection(e)
    \/ \E n \in Live(nodes) : StartPicker(n) \/ PickReference(n) \/ DuplicateNode(n)
                              \/ ReversePrompt(n) \/ ImageFromText(n)
    \/ \E n \in Live(nodes), f \in BOOLEAN : WriteText(n, f)
    \/ ExitPicker \/ PasteCopied \/ CommitEntry \/ ApplyEntry
    \/ \E j \in Jobs : StartJob(j)
    \/ \E j \in jobs : FinishJob(j) \/ FailJob(j)
RemoveNext == ClearCanvas \/ \E S \in Selections : DeleteNodes(S)
ResultNext ==
    \/ \E n \in 1..made, t \in Media \cup {"text"} : AddResult(n, t)
    \/ \E n \in Ids : ExtractImage(n)
    \/ /\ UNCHANGED <<conns, made>> /\ Keep
       /\ Edit \/ UNCHANGED edits            \* by hand (setBatchPrimary), or a result
       /\ \E n \in Live(nodes), t \in Types \ {"group"}, g \in 0..MaxNodes, f \in BOOLEAN :
             Rewrite(n, t, g, f)
GraphNext == EditNext \/ RemoveNext \/ ReloadPage \/ ResultNext
GraphSpec == GraphInit /\ [][GraphNext]_graphVars

-----------------------------------------------------------------------------
(* The document and every copy of it that may come back (the clipboard, an  *)
(* undo entry) name only groups that are in the same copy.                  *)
Grouped(ns)   == \A n \in Ids : ns[n].group # 0 => ns[ns[n].group].type = "group"
(* A group is never in a group, and a node that is gone keeps no group.     *)
FlatGroups(ns) == \A n \in Ids : ns[n].type \in {"group", "none"} => ns[n].group = 0

(* Every group a node names is on the canvas, through deletion, copies,     *)
(* paste, drags and undo: getGroupResourceNodes and the drag of a group     *)
(* read the members from it.                                                *)
GroupsLive == Grouped(nodes) /\ FlatGroups(nodes)

(* Between two nodes that are on the canvas only connections that           *)
(* normalizeConnection allows: none into a group, none between two          *)
(* configurations, whichever handler added it and whatever the nodes have   *)
(* become since.                                                            *)
LegalConns(ns, cs) ==
    \A e \in cs : {e[1], e[2]} \subseteq Live(ns)
        => /\ e[1] # e[2] /\ ns[e[2]].type # "group"
           /\ ~ (ns[e[1]].type = "config" /\ ns[e[2]].type = "config")
ConnectionsLegal == LegalConns(nodes, conns)

(* Both, for the document on the screen.                                    *)
DocumentSound == GroupsLive /\ ConnectionsLegal

(* A document in which m ids were given out.                                *)
SoundDocument(ns, cs, m) ==
    /\ ns \in [Ids -> NodeSet] /\ cs \subseteq (1..m) \X (1..m)
    /\ \A n \in Ids : n > m => ns[n].type = "none"
    /\ Grouped(ns) /\ FlatGroups(ns) /\ LegalConns(ns, cs)
(* What is supposed of the constants; a project loads a document that a      *)
(* canvas saved.                                                           *)
ASSUME GraphAssumption ==
    /\ MaxNodes \in Nat /\ MaxEdits \in Nat /\ MaxPieces \in Nat
    /\ FreshGen \in Gens
    /\ \A gen \in Gens, type \in Media \cup {"text"} : Settled(gen, type) \in Gens
    /\ \A gen \in Gens : Interrupted(gen) \in Gens
ASSUME CanvasesAssumption ==
    \A c \in Canvases :
        /\ c \in [nodes : [Ids -> NodeSet], conns : SUBSET (Ids \X Ids), made : 0..MaxNodes]
        /\ SoundDocument(c.nodes, c.conns, c.made)
=============================================================================
