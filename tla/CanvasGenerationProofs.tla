------------------------ MODULE CanvasGenerationProofs ------------------------
(***************************************************************************)
(* Theorems about the canvas: whatever editing, uploads, undo and           *)
(* generations do to a document in whatever order, it stays sound, and what *)
(* a node shows of its generations is so.                                   *)
(***************************************************************************)
EXTENDS CanvasGeneration, FiniteSetTheorems, WellFoundedInduction, TLAPS

USE GraphAssumption

(* Documents as values first.  A node may be there, or be a group: Kept says *)
(* that a step leaves both as they are, but for nodes it takes away.        *)
Legal(ns, a, b) ==
    /\ a # b /\ ns[b].type # "group"
    /\ ~ (ns[a].type = "config" /\ ns[b].type = "config")

(* What a new node must be.                                                 *)
Welcome(ns, node) ==
    /\ node \in NodeSet /\ node.type # "none"
    /\ node.type = "group" => node.group = 0
    /\ node.group # 0 => ns[node.group].type = "group"

LEMMA NodeFields ==
    ASSUME NEW ns \in [Ids -> NodeSet], NEW n \in Ids
    PROVE  /\ ns[n] \in NodeSet
           /\ ns[n].type \in Types \cup {"none"} /\ ns[n].group \in 0..MaxNodes
           /\ ns[n].filled \in BOOLEAN /\ ns[n].gen \in Gens
           /\ ns[n].group # 0 => ns[n].group \in Ids
BY DEF NodeSet, Ids

LEMMA NewNode ==
    ASSUME NEW type \in Types, NEW filled \in BOOLEAN, NEW gen \in Gens
    PROVE  /\ Node(type, 0, filled, gen) \in NodeSet
           /\ \A ns : Welcome(ns, Node(type, 0, filled, gen))
BY DEF Welcome, Node, NodeSet, Types, Media

LEMMA FilledNode ==
    ASSUME NEW type \in Media \cup {"text"}
    PROVE  /\ Filled(type).type = type /\ Filled(type).group = 0
           /\ \A ns : Welcome(ns, Filled(type))
BY NewNode DEF Filled, Types, Node

(* A node with the next id.                                                 *)
Grown(ns, m, node, new, k) ==
    /\ m < MaxNodes /\ k = m + 1 /\ Welcome(ns, node) /\ new = [ns EXCEPT ![k] = node]
LEMMA DocumentGrows ==
    ASSUME NEW ns, NEW cs, NEW m \in Nat, SoundDocument(ns, cs, m),
           NEW node, NEW new, NEW k, Grown(ns, m, node, new, k)
    PROVE  /\ SoundDocument(new, cs, k) /\ new[k] = node /\ k \in Ids
           /\ \A n \in Ids \ {k} : new[n] = ns[n]
<1> USE DEF Grown
<1>1. k \in Ids
  BY DEF Ids
<1>2. ns \in [Ids -> NodeSet]
  BY DEF SoundDocument
<1>3. /\ new \in [Ids -> NodeSet] /\ new[k] = node
      /\ \A n \in Ids \ {k} : new[n] = ns[n]
  BY <1>1, <1>2 DEF Welcome
<1>7. ASSUME NEW n \in Ids, new[n].group # 0 PROVE new[new[n].group].type = "group"
  <2>1. new[n].group \in Ids /\ ns[new[n].group].type = "group"
    <3>1. CASE n = k
      BY <1>3, <1>7, <3>1, NodeFields DEF Welcome
    <3>2. CASE n # k
      BY <1>2, <1>3, <1>7, <3>2, NodeFields DEF SoundDocument, Grouped
    <3> QED
      BY <3>1, <3>2
  <2> QED
    BY <1>3, <1>1, <2>1 DEF SoundDocument
<1>8. FlatGroups(new)
  BY <1>3 DEF FlatGroups, SoundDocument, Welcome
<1>9. LegalConns(new, cs)
  <2> SUFFICES ASSUME NEW e \in cs, {e[1], e[2]} \subseteq Live(new)
               PROVE  Legal(new, e[1], e[2])
    BY DEF LegalConns, Legal
  <2>2. e[1] \in Ids \ {k} /\ e[2] \in Ids \ {k}
    BY DEF Ids, SoundDocument
  <2> QED
    BY <1>3, <2>2 DEF Legal, SoundDocument, LegalConns, Live
<1>10. SoundDocument(new, cs, k)
  BY <1>3, <1>7, <1>8, <1>9 DEF SoundDocument, Grouped, Ids
<1> QED
  BY <1>1, <1>3, <1>10

(* A connection between two ids that were given out.                        *)
LEMMA DocumentJoins ==
    ASSUME NEW ns, NEW cs, NEW m, SoundDocument(ns, cs, m),
           NEW es, es \subseteq (1..m) \X (1..m),
           \A e \in es : {e[1], e[2]} \subseteq Live(ns) => Legal(ns, e[1], e[2])
    PROVE  SoundDocument(ns, cs \cup es, m)
BY DEF SoundDocument, LegalConns, Legal

(* Fewer connections.                                                       *)
LEMMA DocumentLoosens ==
    ASSUME NEW ns, NEW cs, NEW m, SoundDocument(ns, cs, m), NEW es, es \subseteq cs
    PROVE  SoundDocument(ns, es, m)
BY DEF SoundDocument, LegalConns

(* Ids given out for something else.                                        *)
LEMMA DocumentWaits ==
    ASSUME NEW ns, NEW cs, NEW m \in Nat, NEW k \in Nat, m <= k, SoundDocument(ns, cs, m)
    PROVE  SoundDocument(ns, cs, k)
BY DEF SoundDocument, Ids

(* The nodes stay what they are, up to content, a change of type that makes  *)
(* neither groups nor configurations, and the group they are in.            *)
Reshaped(ns, new) ==
    /\ new \in [Ids -> NodeSet]
    /\ \A n \in Ids :
          /\ \/ new[n].type = ns[n].type
             \/ /\ {new[n].type, ns[n].type} \cap {"group", "none"} = {}
                /\ new[n].type # "config"
          /\ \/ new[n].group \in {0, ns[n].group}
             \/ /\ ns[n].type \notin {"group", "none"}
                /\ ns[new[n].group].type = "group"
LEMMA DocumentReshaped ==
    ASSUME NEW ns, NEW cs, NEW m, SoundDocument(ns, cs, m), NEW new, Reshaped(ns, new)
    PROVE  SoundDocument(new, cs, m)
<1>1. ns \in [Ids -> NodeSet] /\ new \in [Ids -> NodeSet]
  BY DEF SoundDocument, Reshaped
<1>2. ASSUME NEW n \in Ids
      PROVE  /\ new[n].type = "none" <=> ns[n].type = "none"
             /\ new[n].type = "group" <=> ns[n].type = "group"
             /\ new[n].type = "config" => ns[n].type = "config"
  BY DEF Reshaped
<1>4. Grouped(new)
  <2> SUFFICES ASSUME NEW n \in Ids, new[n].group # 0 PROVE new[new[n].group].type = "group"
    BY DEF Grouped
  <2> QED
    BY <1>2, <1>1, NodeFields DEF Reshaped, SoundDocument, Grouped
<1>6. LegalConns(new, cs)
  <2> SUFFICES ASSUME NEW e \in cs, {e[1], e[2]} \subseteq Live(new)
               PROVE  Legal(new, e[1], e[2])
    BY DEF LegalConns, Legal
  <2> QED
    BY <1>2 DEF Legal, Live, SoundDocument, LegalConns
<1> QED
  BY <1>1, <1>4, <1>2, <1>6 DEF SoundDocument, FlatGroups, Reshaped

(* Nodes taken away; the members of a deleted group leave it.               *)
LEMMA DocumentWithout ==
    ASSUME NEW ns, NEW cs, NEW m, SoundDocument(ns, cs, m), NEW dead
    PROVE  /\ SoundDocument(Without(ns, dead), cs, m)
           /\ \A n \in Ids : Without(ns, dead)[n].type = IF n \in dead THEN "none" ELSE ns[n].type
<1> DEFINE new == Without(ns, dead)
<1>1. ns \in [Ids -> NodeSet]
  BY DEF SoundDocument
<1>3. ASSUME NEW n \in Ids
      PROVE  /\ new[n] \in NodeSet
             /\ new[n].type = IF n \in dead THEN "none" ELSE ns[n].type
             /\ new[n].group = IF n \in dead \/ ns[n].group \in dead THEN 0 ELSE ns[n].group
  <2>1. CASE n \in dead
    BY <2>1 DEF Without, Blank, Node, NodeSet
  <2>2. CASE n \notin dead /\ ns[n].group \in dead
    BY <1>1, <2>2 DEF Without, NodeSet
  <2>3. CASE n \notin dead /\ ns[n].group \notin dead
    BY <1>1, <2>3 DEF Without
  <2> QED
    BY <2>1, <2>2, <2>3
<1> HIDE DEF new
<1>5. Grouped(new)
  <2> SUFFICES ASSUME NEW n \in Ids, new[n].group # 0 PROVE new[new[n].group].type = "group"
    BY DEF Grouped
  <2> QED
    BY <1>3, <1>1, NodeFields DEF SoundDocument, Grouped
<1>7. LegalConns(new, cs)
  <2> SUFFICES ASSUME NEW e \in cs, {e[1], e[2]} \subseteq Live(new)
               PROVE  Legal(new, e[1], e[2])
    BY DEF LegalConns, Legal
  <2> QED
    BY <1>3 DEF Legal, Live, SoundDocument, LegalConns
<1>8. \A n \in Ids : n > m => new[n].type = "none"
  BY <1>3 DEF SoundDocument
<1> QED
  BY <1>3, <1>5, <1>7, <1>8 DEF SoundDocument, new, Without, FlatGroups

-----------------------------------------------------------------------------
(* The state of the editor.  An id is a group's in the document or in the    *)
(* undo entry, or it is another node's, never both; so the node of the       *)
(* picker and those that wait for a file do not become groups.              *)
GroupIds == Groups(nodes) \cup Groups(entry.nodes)
NodeIds  == {n \in Ids : \/ nodes[n].type \notin {"group", "none"}
                         \/ entry.nodes[n].type \notin {"group", "none"}}
SortsFixed == GroupIds \cap NodeIds = {}
Held ==
    /\ picker # 0 => picker \in 1..made /\ picker \notin GroupIds
    /\ \A j \in jobs : /\ j.op # "file" => j.node \in 1..made
                       /\ j.op = "replace" => j.node \notin GroupIds

(* What was copied may name groups that were not.                           *)
SoundClipboard ==
    /\ clipboard \in Graph
    /\ clipboard.conns \subseteq Pasted \X Pasted
    /\ FlatGroups(clipboard.nodes) /\ LegalConns(clipboard.nodes, clipboard.conns)
    /\ \A n \in Pasted : clipboard.nodes[n].group \in Pasted
          => clipboard.nodes[clipboard.nodes[n].group].type = "group"

GraphInv ==
    /\ made \in 0..MaxNodes /\ edits \in 0..MaxEdits
    /\ picker \in 0..MaxNodes /\ jobs \subseteq Jobs /\ entry \in Graph
    /\ SoundDocument(nodes, conns, made)
    /\ SoundDocument(entry.nodes, entry.conns, made)
    /\ SoundClipboard /\ SortsFixed /\ Held

LEMMA GraphInvSound == GraphInv => GraphTypeOK /\ DocumentSound
<1> SUFFICES ASSUME GraphInv PROVE GraphTypeOK /\ DocumentSound
  OBVIOUS
<1>2. DocumentSound
  BY DEF GraphInv, SoundDocument, DocumentSound, GroupsLive, ConnectionsLegal
<1> QED
  BY <1>2 DEF GraphInv, GraphTypeOK, SoundClipboard, Ids, SoundDocument

(* Nodes on the canvas come and go, but none becomes a group or stops being  *)
(* one.                                                                     *)
SortsStay ==
    \A n \in Ids : n <= made /\ nodes'[n].type # "none"
        => nodes[n].type # "none" /\ (nodes'[n].type = "group" <=> nodes[n].type = "group")

(* What a step of the editor keeps: the invariant, and of the ids given out  *)
(* none becomes a group's.                                                  *)
OldSorts == made <= made' /\ \A n \in 1..made : n \in GroupIds' => n \in GroupIds
Kept     == GraphInv' /\ OldSorts

LEMMA SortsKept ==
    ASSUME GraphInv, made' \in Nat, made <= made', entry' = entry, SortsStay,
           picker' \in {0, picker}, jobs' \subseteq jobs
    PROVE  SortsFixed' /\ Held' /\ OldSorts
<1>1. made \in Nat
  BY DEF GraphInv
<1>2. ASSUME NEW n \in Ids, n <= made
      PROVE  /\ n \in GroupIds' => n \in GroupIds
             /\ n \in NodeIds' => n \in NodeIds
  BY <1>2 DEF SortsStay, GroupIds, NodeIds, Groups
<1>3. ASSUME NEW n \in Ids, ~ (n <= made)
      PROVE  ~ (n \in GroupIds' /\ n \in NodeIds')
  BY <1>1, <1>3 DEF GraphInv, SoundDocument, Ids, GroupIds, NodeIds, Groups
<1>5. ASSUME NEW n \in 1..made, n \notin GroupIds PROVE n \in 1..made' /\ n \notin GroupIds'
  BY <1>1, <1>2, <1>5 DEF GraphInv, Ids
<1>8. \A j \in jobs' : /\ j.op # "file" => j.node \in 1..made'
                       /\ j.op = "replace" => j.node \notin GroupIds'
  BY <1>5, <1>1 DEF GraphInv, Held
<1>9. OldSorts
  BY <1>2 DEF GraphInv, Ids, OldSorts
<1> QED
  BY <1>2, <1>3, <1>5, <1>8, <1>9 DEF Held, GroupIds, Groups, SortsFixed, GraphInv

(* What an action that leaves clipboard and undo alone has to show.         *)
LEMMA Edited ==
    ASSUME GraphInv, made' \in made..MaxNodes, SoundDocument(nodes', conns', made'), SortsStay,
           edits' \in 0..MaxEdits, UNCHANGED <<clipboard, entry>>,
           picker' \in {0, picker}, jobs' \subseteq jobs
    PROVE  Kept
<1>1. made \in Nat /\ made' \in Nat /\ made <= made' /\ made' \in 0..MaxNodes
  BY DEF GraphInv
<1>5. SoundClipboard'
  BY DEF GraphInv, SoundClipboard, Pasted
<1>6. picker' \in 0..MaxNodes /\ jobs' \subseteq Jobs
  BY DEF GraphInv
<1>7. SoundDocument(nodes, conns, made)'
  OBVIOUS
<1> QED
  BY <1>1, SortsKept, DocumentWaits, <1>5, <1>6, <1>7 DEF GraphInv, Kept

(* A node with the next id.                                                 *)
LEMMA Inserted ==
    ASSUME GraphInv, NEW node, Welcome(nodes, node), Insert(node)
    PROVE  /\ made' = made + 1 /\ made' \in made..MaxNodes /\ made' \in Ids
           /\ SoundDocument(nodes', conns, made')
           /\ nodes'[made'] = node
           /\ \A n \in Ids \ {made'} : nodes'[n] = nodes[n]
           /\ SortsStay
<1>1. /\ made \in Nat /\ made < MaxNodes /\ made' = made + 1
      /\ nodes' = [nodes EXCEPT ![made + 1] = node]
      /\ SoundDocument(nodes, conns, made)
  BY DEF GraphInv, Insert
<1>2. /\ SoundDocument(nodes', conns, made')
      /\ \A n \in Ids \ {made'} : nodes'[n] = nodes[n]
      /\ nodes'[made'] = node /\ made' \in Ids
  <2>1. Grown(nodes, made, node, nodes', made')
    BY <1>1 DEF Grown
  <2>2. made \in Nat /\ SoundDocument(nodes, conns, made)
    BY <1>1
  <2> QED
    BY <2>1, <2>2, DocumentGrows
<1> QED
  BY <1>1, <1>2 DEF SortsStay, Ids

(* A change of nodes that keeps their sorts.                                *)
LEMMA ReshapedStep ==
    ASSUME GraphInv, Reshaped(nodes, nodes')
    PROVE  SoundDocument(nodes', conns, made) /\ SortsStay
BY DocumentReshaped DEF GraphInv, SortsStay, Reshaped

-----------------------------------------------------------------------------
(* One lemma for each kind of action of the editor.                         *)
LEMMA EditCounts == GraphInv /\ Edit => edits' \in 0..MaxEdits
BY DEF GraphInv, Edit

LEMMA SortsStill == ASSUME GraphInv, nodes' = nodes PROVE SortsStay
BY DEF SortsStay

(* The document stands still.                                               *)
LEMMA QuietEdit ==
    ASSUME GraphInv, UNCHANGED <<nodes, conns, made, clipboard, entry>>,
           edits' \in 0..MaxEdits, picker' \in {0, picker}, jobs' \subseteq jobs
    PROVE  Kept
BY Edited, SortsStill DEF GraphInv

(* Only connections are added, or removed.                                  *)
LEMMA ConnectedEdit ==
    ASSUME GraphInv, NEW es, es \subseteq (1..made) \X (1..made),
           \A e \in es : {e[1], e[2]} \subseteq Live(nodes) => Legal(nodes, e[1], e[2]),
           conns' \subseteq conns \cup es, edits' \in 0..MaxEdits,
           UNCHANGED <<nodes, made>>, Keep
    PROVE  Kept
<1>2. SoundDocument(nodes, conns', made)
  BY DocumentJoins, DocumentLoosens DEF GraphInv
<1> QED
  BY <1>2, Edited, SortsStill DEF Keep, GraphInv

(* Only the nodes change, none its sort.                                    *)
LEMMA ReshapedEdit ==
    ASSUME GraphInv, Reshaped(nodes, nodes'), edits' \in 0..MaxEdits,
           UNCHANGED <<conns, made>>, UNCHANGED <<picker, clipboard, entry>>,
           jobs' \subseteq jobs
    PROVE  Kept
BY ReshapedStep, Edited DEF GraphInv

(* A new node, joined to nodes that were there.                             *)
LEMMA InsertedEdit ==
    ASSUME GraphInv, NEW node, Welcome(nodes, node), Insert(node), edits' \in 0..MaxEdits,
           NEW es, es \subseteq (1..made') \X (1..made'), conns' = conns \cup es,
           \A e \in es : {e[1], e[2]} \subseteq Live(nodes') => Legal(nodes', e[1], e[2]),
           UNCHANGED <<picker, clipboard, entry>>, jobs' \subseteq jobs
    PROVE  Kept
BY Inserted, DocumentJoins, Edited

LEMMA InsertedAlone ==
    ASSUME GraphInv, NEW node, Welcome(nodes, node), Insert(node), edits' \in 0..MaxEdits,
           UNCHANGED conns, UNCHANGED <<picker, clipboard, entry>>, jobs' \subseteq jobs
    PROVE  Kept
BY Inserted, Edited

LEMMA LiveMade == GraphInv => Live(nodes) \subseteq 1..made
BY DEF GraphInv, SoundDocument, Live, Ids

LEMMA CreateNodeKeeps ==
    ASSUME GraphInv, NEW type \in Types, NEW filled \in BOOLEAN, CreateNode(type, filled)
    PROVE  Kept
<1> DEFINE node == IF filled THEN Filled(type) ELSE Node(type, 0, FALSE, FreshGen)
<1>1. Welcome(nodes, node)
  <2>1. CASE filled
    BY <2>1, FilledNode DEF CreateNode, Media
  <2>2. CASE ~ filled
    BY <2>2, NewNode
  <2> QED
    BY <2>1, <2>2
<1>2. Insert(node) /\ Edit /\ UNCHANGED conns /\ Keep
  BY DEF CreateNode
<1> HIDE DEF node
<1> QED
  BY <1>1, <1>2, EditCounts, InsertedAlone DEF Keep

(* normalizeConnection joins only what may be joined.                       *)
LEMMA JoinedLegal ==
    ASSUME NEW ns, NEW a, NEW b, NEW handle, CanJoin(ns, a, b)
    PROVE  /\ Joined(ns, a, b, handle) \in {<<a, b>>, <<b, a>>}
           /\ Legal(ns, Joined(ns, a, b, handle)[1], Joined(ns, a, b, handle)[2])
<1>1. CASE ns[b].type # "config" /\ ns[a].type = "config" /\ handle = "target"
  BY <1>1 DEF CanJoin, Joined, Legal
<1>2. CASE ~ (ns[b].type # "config" /\ ns[a].type = "config" /\ handle = "target")
  BY <1>2 DEF CanJoin, Joined, Legal
<1> QED
  BY <1>1, <1>2

LEMMA ConnectNodesKeeps ==
    ASSUME GraphInv, NEW a, NEW b, NEW handle, ConnectNodes(a, b, handle)
    PROVE  Kept
<1> DEFINE e == Joined(nodes, a, b, handle)
           es == {e}
<1>1. /\ Edit /\ CanJoin(nodes, a, b) /\ conns' = conns \cup {e}
      /\ UNCHANGED <<nodes, made>> /\ Keep
  BY DEF ConnectNodes
<1>3. e \in {<<a, b>>, <<b, a>>} /\ Legal(nodes, e[1], e[2])
  BY <1>1, JoinedLegal
<1> HIDE DEF e
<1>4. es \subseteq (1..made) \X (1..made)
  BY <1>1, LiveMade, <1>3 DEF CanJoin
<1>5. \A d \in es : {d[1], d[2]} \subseteq Live(nodes) => Legal(nodes, d[1], d[2])
  BY <1>3
<1>6. conns' \subseteq conns \cup es /\ edits' \in 0..MaxEdits
  BY <1>1, EditCounts
<1> HIDE DEF es
<1> QED
  BY <1>1, <1>4, <1>5, <1>6, ConnectedEdit

LEMMA CreateConnectedKeeps ==
    ASSUME GraphInv, NEW a \in Live(nodes), NEW type \in CreateTypes, NEW handle,
           CreateConnected(a, type, handle)
    PROVE  Kept
<1> DEFINE node == Node(type, 0, FALSE, FreshGen)
           e == Joined(nodes', a, made', handle)
           es == {e}
<1>1. Welcome(nodes, node)
  BY NewNode DEF CreateTypes, Types, Media
<1>2. Insert(node) /\ Edit /\ Keep
  BY DEF CreateConnected
<1>3. made' = made + 1 /\ made' \in Ids /\ made' \in made..MaxNodes
  BY <1>1, <1>2, Inserted
<1>4. CanJoin(nodes', a, made') /\ conns' = conns \cup {e}
  BY <1>3 DEF CreateConnected
<1>6. e \in {<<a, made'>>, <<made', a>>} /\ Legal(nodes', e[1], e[2])
  BY <1>4, JoinedLegal
<1> HIDE DEF e, node
<1>7. es \subseteq (1..made') \X (1..made')
  BY <1>3, LiveMade, <1>6 DEF GraphInv, Ids
<1>8. \A d \in es : {d[1], d[2]} \subseteq Live(nodes') => Legal(nodes', d[1], d[2])
  BY <1>6
<1>9. UNCHANGED <<picker, clipboard, entry>> /\ jobs' \subseteq jobs /\ edits' \in 0..MaxEdits
  BY <1>2, EditCounts DEF Keep
<1>10. conns' = conns \cup es
  BY <1>4
<1> HIDE DEF es
<1> QED
  BY <1>1, <1>2, <1>7, <1>8, <1>9, <1>10, InsertedEdit

LEMMA DeleteNodesKeeps ==
    ASSUME GraphInv, NEW dead, DeleteNodes(dead)
    PROVE  Kept
<1>1. /\ Edit /\ nodes' = Without(nodes, dead) /\ conns' \subseteq conns
      /\ picker' \in {0, picker} /\ UNCHANGED <<made, clipboard, entry, jobs>>
  BY DEF DeleteNodes
<1>2. /\ SoundDocument(Without(nodes, dead), conns, made)
      /\ \A n \in Ids : Without(nodes, dead)[n].type = IF n \in dead THEN "none"
                                                       ELSE nodes[n].type
  BY DocumentWithout DEF GraphInv
<1> QED
  BY <1>1, <1>2, DocumentLoosens, EditCounts, Edited DEF SortsStay, GraphInv

LEMMA EmptyDocument ==
    /\ \A m \in Nat : SoundDocument(Empty.nodes, {}, m)
    /\ \A n \in Ids : Empty.nodes[n].type = "none"
<1>2. /\ Empty.nodes \in [Ids -> NodeSet]
      /\ \A n \in Ids : Empty.nodes[n].type = "none" /\ Empty.nodes[n].group = 0
  BY DEF Empty, Blank, Node, NodeSet
<1> QED
  BY <1>2 DEF SoundDocument, Grouped, FlatGroups, LegalConns

LEMMA ClearCanvasKeeps == ASSUME GraphInv, ClearCanvas PROVE Kept
<1>1. /\ Edit /\ nodes' = Empty.nodes /\ conns' = {} /\ made' = made /\ made \in Nat
      /\ UNCHANGED <<picker, clipboard, entry, jobs>>
  BY DEF ClearCanvas, Keep, GraphInv
<1> QED
  BY <1>1, EmptyDocument, EditCounts, Edited DEF GraphInv, SortsStay

LEMMA StartPickerKeeps == ASSUME GraphInv, NEW n, StartPicker(n) PROVE Kept
<1>1. n \in Live(nodes) /\ nodes[n].type # "group" /\ n \in 1..made /\ n \in Ids
  BY LiveMade DEF StartPicker, Live
<1>2. n \in NodeIds /\ n \notin GroupIds
  BY <1>1 DEF NodeIds, Live, GraphInv, SortsFixed
<1>3. UNCHANGED <<nodes, conns, made, clipboard, entry, jobs>> /\ picker' = n /\ Edit
  BY DEF StartPicker
<1>4. Held'
  BY <1>1, <1>2, <1>3 DEF Held, GraphInv, GroupIds, Groups
<1>5. SortsFixed'
  BY <1>3 DEF SortsFixed, GraphInv, GroupIds, NodeIds, Groups
<1>6. SoundClipboard'
  BY <1>3 DEF GraphInv, SoundClipboard, Pasted
<1>7. SoundDocument(nodes, conns, made)' /\ SoundDocument(entry.nodes, entry.conns, made)'
  BY <1>3 DEF GraphInv
<1>8. n \in 0..MaxNodes
  BY <1>1 DEF Ids
<1>9. OldSorts
  BY <1>3 DEF OldSorts, GraphInv, GroupIds, Groups
<1> QED
  BY <1>3, <1>4, <1>5, <1>6, <1>7, <1>8, <1>9, EditCounts DEF GraphInv, Kept

LEMMA PickReferenceKeeps == ASSUME GraphInv, NEW n, PickReference(n) PROVE Kept
<1>1. /\ Edit /\ picker # 0 /\ n \in Live(nodes) /\ n # picker /\ Reference(nodes, n)
      /\ conns' = conns \cup {<<n, picker>>} /\ UNCHANGED <<nodes, made>> /\ Keep
  BY DEF PickReference
<1>2. n \in 1..made /\ picker \in 1..made /\ picker \notin GroupIds
  BY <1>1, LiveMade DEF GraphInv, Held
<1>4. nodes[n].type # "config"
  BY <1>1 DEF Reference, Resource, Media
<1> DEFINE es == {<<n, picker>>}
<1>6. es \subseteq (1..made) \X (1..made)
  BY <1>2
<1>7. \A d \in es : {d[1], d[2]} \subseteq Live(nodes) => Legal(nodes, d[1], d[2])
  BY <1>1, <1>2, <1>4 DEF Legal, GroupIds, Groups, GraphInv, Ids
<1>8. conns' \subseteq conns \cup es /\ edits' \in 0..MaxEdits
  BY <1>1, EditCounts
<1> HIDE DEF es
<1> QED
  BY <1>1, <1>6, <1>7, <1>8, ConnectedEdit

LEMMA DuplicateKeeps == ASSUME GraphInv, NEW n \in Live(nodes), DuplicateNode(n) PROVE Kept
<1>3. Welcome(nodes, nodes[n])
  BY DEF Welcome, GraphInv, SoundDocument, Grouped, FlatGroups, Live
<1> QED
  BY <1>3, EditCounts, InsertedAlone DEF Keep, DuplicateNode

LEMMA ExtractKeeps == ASSUME GraphInv, NEW n, ExtractImage(n) PROVE Kept
BY FilledNode, EditCounts, InsertedAlone DEF Keep, ExtractImage, Media

-----------------------------------------------------------------------------
(* Several nodes with the next ids.                                         *)
LEMMA DocumentExtended ==
    ASSUME NEW ns, NEW cs, NEW m \in Nat, NEW k \in Nat, m <= k, SoundDocument(ns, cs, m),
           NEW new \in [Ids -> NodeSet], \A n \in Ids : n <= m => new[n] = ns[n],
           \A n \in Ids : n > k => new[n].type = "none",
           \A n \in Ids : n > m => /\ new[n].group # 0 => new[new[n].group].type = "group"
                                   /\ new[n].type \in {"group", "none"} => new[n].group = 0
    PROVE  SoundDocument(new, cs, k)
<1>1. ns \in [Ids -> NodeSet] /\ cs \subseteq (1..k) \X (1..k)
  BY DEF SoundDocument
<1>2. ASSUME NEW n \in Ids, n <= m, new[n].group # 0 PROVE new[new[n].group].type = "group"
  <2>1. ns[n].group \in Ids /\ ns[ns[n].group].type = "group" /\ new[n] = ns[n]
    BY <1>1, <1>2, NodeFields DEF SoundDocument, Grouped
  <2> QED
    BY <2>1 DEF SoundDocument, Ids
<1>3. \A n \in Ids : n <= m \/ n > m
  BY DEF Ids
<1>6. LegalConns(new, cs)
  <2> SUFFICES ASSUME NEW e \in cs, {e[1], e[2]} \subseteq Live(new)
               PROVE  Legal(new, e[1], e[2])
    BY DEF LegalConns, Legal
  <2>2. e[1] \in Ids /\ e[2] \in Ids
    BY DEF Live
  <2> QED
    BY <2>2 DEF Legal, SoundDocument, LegalConns, Live
<1> QED
  BY <1>1, <1>2, <1>3, <1>6 DEF SoundDocument, Grouped, FlatGroups

LEMMA ExtendedEdit ==
    ASSUME GraphInv, made' \in made..MaxNodes, nodes' \in [Ids -> NodeSet],
           \A n \in Ids : n <= made => nodes'[n] = nodes[n],
           \A n \in Ids : n > made' => nodes'[n].type = "none",
           \A n \in Ids : n > made =>
               /\ nodes'[n].group # 0 => nodes'[nodes'[n].group].type = "group"
               /\ nodes'[n].type \in {"group", "none"} => nodes'[n].group = 0,
           NEW es, es \subseteq (1..made') \X (1..made'), conns' = conns \cup es,
           \A e \in es : {e[1], e[2]} \subseteq Live(nodes') => Legal(nodes', e[1], e[2]),
           edits' \in 0..MaxEdits, UNCHANGED <<picker, clipboard, entry>>, jobs' \subseteq jobs
    PROVE  Kept
<1>2. SoundDocument(nodes', conns, made')
  BY DocumentExtended DEF GraphInv
<1>4. SortsStay
  BY DEF SortsStay
<1> QED
  BY <1>2, DocumentJoins, <1>4, Edited

(* Ids are given to what is pasted in order: each its own.                  *)
LEMMA Ranks ==
    ASSUME NEW P, P \subseteq Ids
    PROVE  /\ IsFiniteSet(P) /\ Cardinality(P) \in Nat
           /\ \A a \in P : Cardinality({n \in P : n <= a}) \in 1..Cardinality(P)
           /\ \A a, b \in P : a # b =>
                 Cardinality({n \in P : n <= a}) # Cardinality({n \in P : n <= b})
<1> DEFINE upTo(a) == {n \in P : n <= a}
<1>1. IsFiniteSet(P) /\ Cardinality(P) \in Nat
  <2>1. IsFiniteSet(Ids)
    BY FS_Interval DEF Ids
  <2> QED
    BY <2>1, FS_Subset, FS_CardinalityType
<1>2. ASSUME NEW a \in P PROVE /\ IsFiniteSet(upTo(a)) /\ Cardinality(upTo(a)) \in 1..Cardinality(P)
  <2>1. upTo(a) \in SUBSET P /\ a \in upTo(a)
    BY DEF Ids
  <2>2. IsFiniteSet(upTo(a)) /\ Cardinality(upTo(a)) <= Cardinality(P)
    BY <1>1, <2>1, FS_Subset
  <2>3. Cardinality(upTo(a)) \in Nat /\ Cardinality(upTo(a)) # 0
    BY <2>1, <2>2, FS_CardinalityType, FS_EmptySet
  <2> QED
    BY <1>1, <2>2, <2>3
<1>3. ASSUME NEW a \in P, NEW b \in P, a < b PROVE Cardinality(upTo(a)) # Cardinality(upTo(b))
  <2>1. a \in Int /\ b \in Int /\ \A n \in P : n \in Int
    BY DEF Ids
  <2>2. \A n \in P : n <= a => n <= b
    BY <1>3, <2>1
  <2>3. b <= b /\ ~ (b <= a)
    BY <1>3, <2>1
  <2>4. upTo(a) \in SUBSET upTo(b) /\ b \in upTo(b) /\ b \notin upTo(a)
    BY <2>2, <2>3
  <2> HIDE DEF upTo
  <2> QED
    BY <2>4, <1>2, FS_Subset
<1>4. ASSUME NEW a \in P, NEW b \in P, a # b PROVE Cardinality(upTo(a)) # Cardinality(upTo(b))
  <2> HIDE DEF upTo
  <2> QED
    BY <1>3, <1>4 DEF Ids
<1> QED
  BY <1>1, <1>2, <1>4

LEMMA PasteSound ==
    ASSUME GraphInv, NEW c \in Nat, made + c <= MaxNodes, made' = made + c,
           NEW idMap, \A n \in Pasted : idMap[n] \in (made + 1)..(made + c),
           \A a, b \in Pasted : a # b => idMap[a] # idMap[b],
           PasteNodes(idMap), edits' \in 0..MaxEdits, Keep
    PROVE  Kept
<1> DEFINE new       == {idMap[n] : n \in Pasted}
           origin(m) == CHOOSE n \in Pasted : idMap[n] = m
           clip      == clipboard.nodes
           group(n)  == LET g == clip[n].group IN IF g \in Pasted THEN idMap[g] ELSE 0
           es        == {<<idMap[e[1]], idMap[e[2]]>> : e \in clipboard.conns}
<1>1. /\ clip \in [Ids -> NodeSet] /\ Pasted \subseteq Ids /\ made \in Nat
      /\ clipboard.conns \subseteq Pasted \X Pasted
      /\ nodes \in [Ids -> NodeSet]
  BY DEF GraphInv, SoundClipboard, Graph, Pasted, Live, SoundDocument
<1>2. made' \in Nat /\ made' \in made..MaxNodes
  BY <1>1
<1>3. ASSUME NEW m \in new PROVE origin(m) \in Pasted /\ idMap[origin(m)] = m
  OBVIOUS
<1>4. ASSUME NEW n \in Pasted PROVE idMap[n] \in new /\ origin(idMap[n]) = n
  <2>1. idMap[n] \in new
    OBVIOUS
  <2> HIDE DEF new, origin
  <2> QED
    BY <2>1, <1>3
<1>5. /\ nodes' = [m \in Ids |-> IF m \in new
                     THEN [clip[origin(m)] EXCEPT !.group = group(origin(m))] ELSE nodes[m]]
      /\ conns' = conns \cup es
  BY DEF PasteNodes
<1>6. ASSUME NEW n \in Pasted
      PROVE  /\ idMap[n] \in Ids /\ idMap[n] \in 1..made' /\ idMap[n] > made /\ idMap[n] <= made'
             /\ group(n) \in 0..MaxNodes
  <2>1. ASSUME NEW q \in Pasted
        PROVE  idMap[q] \in Ids /\ idMap[q] \in 1..made' /\ idMap[q] > made /\ idMap[q] <= made'
    BY <1>1, SMTT(30) DEF Ids
  <2> QED
    BY <2>1 DEF Ids
<1>7. ASSUME NEW n \in Pasted
      PROVE  /\ nodes'[idMap[n]] \in NodeSet /\ nodes'[idMap[n]].type = clip[n].type
             /\ nodes'[idMap[n]].group = group(n)
  <2>1. nodes'[idMap[n]] = [clip[n] EXCEPT !.group = group(n)]
    BY <1>4, <1>5, <1>6
  <2>2. clip[n] \in NodeSet /\ group(n) \in 0..MaxNodes
    BY <1>1, <1>6
  <2> HIDE DEF group, clip
  <2> QED
    BY <2>1, <2>2 DEF NodeSet
<1>8. ASSUME NEW m \in Ids, m \notin new PROVE nodes'[m] = nodes[m]
  BY <1>5, <1>8
<1>9. \A m \in Ids : m \in new => m > made /\ m <= made'
  BY <1>6
<1>10. \A m \in new : \E n \in Pasted : m = idMap[n]
  OBVIOUS
<1>11. \A e \in es : \E d \in clipboard.conns : e = <<idMap[d[1]], idMap[d[2]]>>
  OBVIOUS
<1>12. ASSUME NEW n \in Pasted
       PROVE  /\ group(n) # 0 => nodes'[group(n)].type = "group"
              /\ clip[n].type \in {"group", "none"} => group(n) = 0
  <2>1. ASSUME group(n) # 0
        PROVE  clip[n].group \in Pasted /\ group(n) = idMap[clip[n].group]
    BY <2>1
  <2>2. clip[n].type \in {"group", "none"} => clip[n].group = 0
    BY <1>1 DEF GraphInv, SoundClipboard, FlatGroups
  <2>3. 0 \notin Pasted
    BY <1>1 DEF Ids
  <2>4. clip[n].group \in Pasted => clip[clip[n].group].type = "group"
    BY DEF GraphInv, SoundClipboard
  <2> HIDE DEF group, clip
  <2> QED
    BY <1>7, <2>1, <2>2, <2>3, <2>4
<1>13. nodes' \in [Ids -> NodeSet]
  <2>2. nodes' = [m \in Ids |-> nodes'[m]]
    BY <1>5
  <2> QED
    BY <1>1, <1>7, <1>8, <1>10, <2>2
<1> HIDE DEF new, origin, clip, group, es
<1>14. ASSUME NEW m \in Ids, m <= made PROVE nodes'[m] = nodes[m]
  BY <1>1, <1>8, <1>9, <1>14 DEF Ids
<1>15. ASSUME NEW m \in Ids, m > made' PROVE nodes'[m].type = "none"
  BY <1>1, <1>2, <1>9, <1>15, <1>8 DEF Ids, GraphInv, SoundDocument
<1>16. ASSUME NEW m \in Ids, m > made
       PROVE  /\ nodes'[m].group # 0 => nodes'[nodes'[m].group].type = "group"
              /\ nodes'[m].type \in {"group", "none"} => nodes'[m].group = 0
  <2>1. CASE m \in new
    BY <1>7, <1>10, <1>12, <2>1
  <2>2. CASE m \notin new
    BY <1>8, <1>16, <2>2 DEF GraphInv, SoundDocument, FlatGroups
  <2> QED
    BY <2>1, <2>2
<1>17. es \subseteq (1..made') \X (1..made')
  BY <1>1, <1>6, <1>11
<1>18. ASSUME NEW e \in es, {e[1], e[2]} \subseteq Live(nodes') PROVE Legal(nodes', e[1], e[2])
  <2>1. PICK d \in clipboard.conns : e = <<idMap[d[1]], idMap[d[2]]>>
    BY <1>11
  <2>2. d[1] \in Pasted /\ d[2] \in Pasted
    BY <1>1
  <2> QED
    BY <1>7, <2>1, <2>2 DEF Legal, GraphInv, SoundClipboard, LegalConns, Pasted, clip
<1>19. conns' = conns \cup es
  BY <1>5
<1> QED
  BY <1>2, <1>13, <1>14, <1>15, <1>16, <1>17, <1>18, <1>19, ExtendedEdit DEF Keep

LEMMA PasteKeeps == ASSUME GraphInv, PasteCopied PROVE Kept
<1> DEFINE c == Cardinality(Pasted)
<1>1. /\ Pasted \subseteq Ids /\ made \in Nat /\ Edit /\ Keep /\ PasteNodes(IdMap)
      /\ made' = made + c /\ made + c <= MaxNodes
  BY DEF PasteCopied, Pasted, Live, GraphInv
<1>2. /\ c \in Nat
      /\ \A a \in Pasted : Cardinality({n \in Pasted : n <= a}) \in 1..c
      /\ \A a, b \in Pasted : a # b =>
           Cardinality({n \in Pasted : n <= a}) # Cardinality({n \in Pasted : n <= b})
  BY <1>1, Ranks
<1>3. \A n \in Pasted : IdMap[n] = made + Cardinality({m \in Pasted : m <= n})
  BY DEF IdMap
<1>4. \A n \in Pasted : IdMap[n] \in (made + 1)..(made + c)
  <2> SUFFICES ASSUME NEW a \in Pasted PROVE IdMap[a] \in (made + 1)..(made + c)
    OBVIOUS
  <2>1. PICK x \in 1..c : x = Cardinality({n \in Pasted : n <= a})
    BY <1>2
  <2>2. IdMap[a] = made + x
    BY <1>3, <2>1
  <2> HIDE DEF c
  <2> QED
    BY <1>1, <1>2, <2>2
<1>5. \A a, b \in Pasted : a # b => IdMap[a] # IdMap[b]
  <2> SUFFICES ASSUME NEW a \in Pasted, NEW b \in Pasted, a # b PROVE IdMap[a] # IdMap[b]
    OBVIOUS
  <2>1. PICK x \in 1..c : x = Cardinality({n \in Pasted : n <= a})
    BY <1>2
  <2>2. PICK y \in 1..c : y = Cardinality({n \in Pasted : n <= b})
    BY <1>2
  <2>3. x # y
    BY <1>2, <2>1, <2>2
  <2> QED
    BY <1>1, <1>3, <2>1, <2>2, <2>3
<1> HIDE DEF c
<1> QED
  BY <1>1, <1>2, <1>4, <1>5, EditCounts, PasteSound

-----------------------------------------------------------------------------
(* The rest of the editor's actions.                                        *)
LEMMA RegroupReshapes ==
    ASSUME GraphInv, NEW moved, moved \subseteq Live(nodes),
           NEW of, \A n \in moved : of[n] \in {0} \cup Groups(nodes)
    PROVE  Reshaped(nodes, Regroup(moved, of))
<1> DEFINE new == Regroup(moved, of)
<1>1. nodes \in [Ids -> NodeSet]
  BY DEF GraphInv, SoundDocument
<1>2. ASSUME NEW n \in Ids
      PROVE  /\ new[n] \in NodeSet /\ new[n].type = nodes[n].type
             /\ \/ new[n].group = nodes[n].group
                \/ /\ nodes[n].type \notin {"group", "none"} /\ new[n].group = of[n]
                   /\ of[n] \in {0} \cup Groups(nodes)
  <2>1. CASE n \in moved \ Groups(nodes)
    <3>1. new[n] = [nodes[n] EXCEPT !.group = of[n]] /\ nodes[n] \in NodeSet
      BY <1>1, <2>1 DEF Regroup
    <3>3. nodes[n].type \notin {"group", "none"}
      BY <2>1 DEF Live, Groups
    <3> HIDE DEF new
    <3> QED
      BY <3>1, <2>1, <3>3 DEF NodeSet, Groups, Ids
  <2>2. CASE n \notin moved \ Groups(nodes)
    BY <1>1, <2>2 DEF Regroup
  <2> QED
    BY <2>1, <2>2
<1> HIDE DEF new
<1> QED
  BY <1>2 DEF Reshaped, new, Regroup, Groups

LEMMA DropNodesKeeps == ASSUME GraphInv, NEW chosen, DropNodes(chosen) PROVE Kept
<1> DEFINE moved == DragSet(chosen)
<1>1. /\ Edit /\ Keep /\ UNCHANGED <<conns, made>> /\ moved \subseteq Live(nodes)
  BY DEF DropNodes, DragSet
<1>2. \E of : /\ \A n \in moved : of[n] \in {0} \cup Groups(nodes)
              /\ nodes' = Regroup(moved, of)
  <2>1. CASE moved \cap Groups(nodes) = {}
    <3>1. PICK target \in {0} \cup Groups(nodes) :
              nodes' = Regroup(moved, [n \in Ids |-> target])
      BY <2>1 DEF DropNodes
    <3> QED
      BY <3>1, <1>1 DEF Live
  <2>2. CASE moved \cap Groups(nodes) # {}
    <3>1. PICK of \in [moved -> {0} \cup Groups(nodes)] :
              nodes' = Regroup(moved, [n \in Ids |-> IF n \in moved THEN of[n] ELSE 0])
      BY <2>2 DEF DropNodes
    <3> DEFINE all == [n \in Ids |-> IF n \in moved THEN of[n] ELSE 0]
    <3> QED
      BY <3>1, <1>1 DEF Live
  <2> QED
    BY <2>1, <2>2
<1> QED
  BY <1>1, <1>2, RegroupReshapes, EditCounts, ReshapedEdit DEF Keep

LEMMA WriteTextKeeps ==
    ASSUME GraphInv, NEW n \in Live(nodes), NEW filled \in BOOLEAN, WriteText(n, filled)
    PROVE  Kept
<1>1. /\ Edit /\ Keep /\ UNCHANGED <<conns, made>> /\ n \in Ids
      /\ nodes' = [nodes EXCEPT ![n].filled = filled] /\ nodes \in [Ids -> NodeSet]
  BY DEF WriteText, GraphInv, SoundDocument, Live
<1> QED
  BY <1>1, EditCounts, ReshapedEdit DEF Keep, Reshaped, NodeSet

(* A node of a kind that can be read from a file, or a text, takes content.  *)
LEMMA ReplacedReshapes ==
    ASSUME NEW ns \in [Ids -> NodeSet], NEW n \in Ids, ns[n].type \notin {"group", "none"},
           NEW type \in Media \cup {"text"}, NEW new,
           new = [ns EXCEPT ![n].type = type, ![n].filled = TRUE, ![n].gen = Settled(@, type)]
    PROVE  Reshaped(ns, new)
<1>1. type \in Types /\ type \notin {"group", "none", "config"}
  BY DEF Types, Media
<1>2. Settled(ns[n].gen, type) \in Gens
  BY NodeFields
<1>3. new \in [Ids -> NodeSet]
  BY <1>1, <1>2 DEF NodeSet
<1> QED
  BY <1>1, <1>3 DEF Reshaped, NodeSet

LEMMA ImageFromTextKeeps ==
    ASSUME GraphInv, NEW n \in Live(nodes), ImageFromText(n)
    PROVE  Kept
<1> DEFINE written == [nodes EXCEPT ![n].type = "text", ![n].filled = TRUE,
                                    ![n].gen = Settled(@, "text")]
           config  == Node("config", 0, FALSE, FreshGen)
           new     == [written EXCEPT ![made + 1] = config]
           es      == {<<n, made + 1>>}
<1>1. /\ Edit /\ Keep /\ nodes[n].type = "text" /\ made < MaxNodes /\ made' = made + 1
      /\ nodes' = [nodes EXCEPT ![n].filled = TRUE, ![n].gen = Settled(@, "text"),
                                ![made + 1] = config]
      /\ conns' = conns \cup es
  BY DEF ImageFromText
<1>2. /\ nodes \in [Ids -> NodeSet] /\ n \in Ids /\ n \in 1..made /\ made \in Nat
      /\ SoundDocument(nodes, conns, made) /\ n # made + 1 /\ made + 1 \in Ids
  BY <1>1, LiveMade, SMTT(30) DEF GraphInv, SoundDocument, Live, Ids
<1>3. Reshaped(nodes, written)
  BY <1>1, <1>2, ReplacedReshapes, Zenon
<1>4. nodes' = new
  BY <1>1, <1>2 DEF NodeSet
<1>5. Welcome(written, config) /\ config.type = "config"
  BY NewNode DEF Types, Node
<1> HIDE DEF written, config
<1>7. /\ SoundDocument(new, conns, made + 1) /\ new[made + 1] = config
      /\ \A k \in Ids \ {made + 1} : new[k] = written[k]
  <2>1. PICK id : id = made + 1
    OBVIOUS
  <2>2. Grown(written, made, config, new, id)
    BY <1>1, <1>5, <2>1 DEF Grown
  <2> HIDE DEF new
  <2> QED
    BY <1>2, <1>3, DocumentReshaped, <2>1, <2>2, DocumentGrows
<1> HIDE DEF new
<1>8. SoundDocument(nodes', conns, made')
  BY <1>1, <1>4, <1>7
<1>9. SortsStay
  <2> SUFFICES ASSUME NEW k \in Ids, k <= made
               PROVE  /\ nodes'[k].type = "none" <=> nodes[k].type = "none"
                      /\ nodes'[k].type = "group" <=> nodes[k].type = "group"
    BY DEF SortsStay
  <2>1. nodes'[k] = written[k]
    BY <1>2, <1>4, <1>7
  <2> QED
    BY <1>3, <2>1 DEF Reshaped
<1>10. nodes'[n].type # "config"
  BY <1>1, <1>2, <1>3, <1>4, <1>7, ZenonT(60) DEF Reshaped
<1>11. \A e \in es : e[1] = n /\ e[2] = made + 1
  OBVIOUS
<1>12. es \subseteq (1..made') \X (1..made')
  BY <1>1, <1>2
<1> HIDE DEF es
<1>13. ASSUME NEW e \in es PROVE Legal(nodes', e[1], e[2])
  BY <1>2, <1>4, <1>5, <1>7, <1>10, <1>11 DEF Legal
<1>14. SoundDocument(nodes', conns', made')
  <2>1. conns' = conns \cup es
    BY <1>1
  <2> QED
    BY <1>8, <1>12, <1>13, <2>1, DocumentJoins
<1> QED
  BY <1>1, <1>9, <1>14, <1>2, EditCounts, Edited DEF Keep

LEMMA ReversePromptKeeps ==
    ASSUME GraphInv, NEW n \in Live(nodes), ReversePrompt(n)
    PROVE  Kept
<1> DEFINE text   == Filled("text")
           config == Node("config", 0, FALSE, FreshGen)
           mid    == [nodes EXCEPT ![made + 1] = text]
           es     == {<<n, made + 2>>, <<made + 1, made + 2>>}
<1>1. /\ Edit /\ Keep /\ nodes[n].type = "image" /\ made + 2 <= MaxNodes /\ made' = made + 2
      /\ nodes' = [mid EXCEPT ![made + 2] = config] /\ conns' = conns \cup es
  BY DEF ReversePrompt
<1>2. /\ nodes \in [Ids -> NodeSet] /\ n \in Ids /\ n \in 1..made /\ made \in Nat
      /\ SoundDocument(nodes, conns, made) /\ made + 1 \in Ids /\ made + 2 \in Ids
      /\ made + 1 \in Nat /\ made < MaxNodes /\ made + 1 < MaxNodes /\ (made + 1) + 1 = made + 2
  BY <1>1, LiveMade DEF GraphInv, SoundDocument, Live, Ids
<1>3. Welcome(nodes, text) /\ Welcome(mid, config) /\ text.type = "text" /\ config.type = "config"
  BY NewNode, FilledNode DEF Types, Node
<1> HIDE DEF text, config
<1>4. /\ SoundDocument(mid, conns, made + 1) /\ mid[made + 1] = text
      /\ \A k \in Ids \ {made + 1} : mid[k] = nodes[k]
  <2>1. PICK id : id = made + 1
    OBVIOUS
  <2>2. Grown(nodes, made, text, mid, id)
    BY <1>2, <1>3, <2>1 DEF Grown
  <2> HIDE DEF mid
  <2> QED
    BY <1>2, <2>1, <2>2, DocumentGrows
<1> HIDE DEF mid
<1>5. PICK m \in Nat : m = made + 1
  BY <1>2
<1>6. /\ SoundDocument(nodes', conns, made') /\ nodes'[made + 2] = config
      /\ \A k \in Ids \ {made + 2} : nodes'[k] = mid[k]
  <2>1. made' = m + 1 /\ made + 2 = made' /\ m < MaxNodes /\ SoundDocument(mid, conns, m)
    BY <1>1, <1>2, <1>4, <1>5
  <2>2. Grown(mid, m, config, nodes', made')
    BY <1>1, <1>3, <2>1 DEF Grown
  <2> QED
    BY <2>1, <2>2, DocumentGrows
<1>7. /\ nodes'[made + 1] = text
      /\ \A k \in Ids : k <= made => nodes'[k] = nodes[k]
  BY <1>2, <1>4, <1>6 DEF Ids
<1>8. \A e \in es : e[1] \in {n, made + 1} /\ e[2] = made + 2
  OBVIOUS
<1>9. es \subseteq (1..made') \X (1..made')
  BY <1>1, <1>2
<1> HIDE DEF es
<1>10. ASSUME NEW e \in es PROVE Legal(nodes', e[1], e[2])
  BY <1>2, <1>7, <1>1, <1>3, <1>6, <1>8 DEF Legal
<1>11. SoundDocument(nodes', conns', made')
  BY <1>1, <1>6, <1>9, <1>10, DocumentJoins
<1> QED
  BY <1>1, <1>11, <1>2, <1>7, EditCounts, Edited DEF Keep, SortsStay

(* A job keeps the id of a node that was on the canvas when it began.       *)
LEMMA StartJobKeeps == ASSUME GraphInv, NEW j \in Jobs, StartJob(j) PROVE Kept
<1>1. /\ Edit /\ jobs' = jobs \cup {j}
      /\ UNCHANGED <<nodes, conns, made, picker, clipboard, entry>>
  BY DEF StartJob
<1>2. /\ j.op # "file" => j.node \in 1..made
      /\ j.op = "replace" => j.node \notin GroupIds
  BY LiveMade DEF StartJob, Live, Media, NodeIds, GraphInv, SortsFixed
<1>3. Held'
  BY <1>1, <1>2 DEF GroupIds, Groups, Held, GraphInv
<1>5. SoundClipboard'
  BY <1>1 DEF GraphInv, SoundClipboard, Pasted
<1>7. OldSorts
  BY <1>1 DEF OldSorts, GraphInv, GroupIds, Groups
<1> QED
  BY <1>1, <1>3, <1>5, <1>7, EditCounts DEF GraphInv, Kept, SortsFixed, GroupIds, NodeIds,
     Groups

(* A child of a node that was on the canvas once.                           *)
LEMMA ChildKeeps ==
    ASSUME GraphInv, NEW n \in 1..made, NEW node, Welcome(nodes, node), Insert(node),
           node.type \notin {"group", "config"}, conns' = conns \cup {<<n, made + 1>>},
           edits' \in 0..MaxEdits, UNCHANGED <<picker, clipboard, entry>>, jobs' \subseteq jobs
    PROVE  Kept
<1> DEFINE es == {<<n, made + 1>>}
<1>1. made' = made + 1 /\ nodes'[made'] = node /\ made \in Nat
  BY Inserted DEF GraphInv
<1>2. es \subseteq (1..made') \X (1..made')
  BY <1>1
<1>3. \A e \in es : e[1] = n /\ e[2] = made'
  BY <1>1
<1>4. conns' = conns \cup es
  OBVIOUS
<1> HIDE DEF es
<1>5. ASSUME NEW e \in es PROVE Legal(nodes', e[1], e[2])
  BY <1>1, <1>3 DEF Legal
<1> QED
  BY <1>2, <1>4, <1>5, InsertedEdit

LEMMA FinishJobKeeps == ASSUME GraphInv, NEW j, FinishJob(j) PROVE Kept
<1>1. /\ j \in Jobs /\ j \in jobs /\ jobs' \subseteq jobs
      /\ UNCHANGED <<picker, clipboard, entry, edits>> /\ edits' \in 0..MaxEdits
      /\ ChildReady(j) \/ PiecesReady(j) \/ FileReady(j) \/ ReplacementReady(j)
  BY DEF FinishJob, GraphInv
<1>2. j.type \in Media
  BY <1>1 DEF Jobs
<1>3. /\ j.op # "file" => j.node \in 1..made
      /\ j.op = "replace" => j.node \notin GroupIds
  BY <1>1 DEF GraphInv, Held
<1>4. \A type \in Media : /\ Filled(type).type = type /\ Filled(type).group = 0
                          /\ \A ns : Welcome(ns, Filled(type))
  BY FilledNode
<1>5. CASE ChildReady(j)
  BY <1>3, <1>5, <1>4, <1>1, ChildKeeps DEF ChildReady, Media
<1>6. CASE PiecesReady(j)
  <2>1. PICK k \in 1..MaxPieces :
            /\ made + k <= MaxNodes /\ made' = made + k
            /\ nodes' = [n \in Ids |-> IF n \in (made + 1)..(made + k)
                                       THEN Filled("image") ELSE nodes[n]]
            /\ conns' = conns \cup ({j.node} \X ((made + 1)..(made + k)))
    BY <1>6 DEF PiecesReady
  <2> DEFINE es == {j.node} \X ((made + 1)..made')
  <2>2. /\ made \in Nat /\ made' \in Nat /\ made' \in made..MaxNodes /\ made <= made'
        /\ conns' = conns \cup es
        /\ nodes \in [Ids -> NodeSet] /\ j.node \in 1..made
    BY <1>3, <1>6, <2>1 DEF GraphInv, SoundDocument, PiecesReady
  <2>3. /\ Filled("image").type = "image" /\ Filled("image").group = 0
        /\ Filled("image") \in NodeSet
    BY <1>4 DEF Media, Welcome
  <2>4. ASSUME NEW n \in Ids
        PROVE  nodes'[n] = IF made < n /\ n <= made' THEN Filled("image") ELSE nodes[n]
    BY <2>1, <2>2 DEF Ids
  <2>5. nodes' \in [Ids -> NodeSet]
    BY <2>2, <2>3, <2>4, <2>1
  <2>6. ASSUME NEW n \in Ids PROVE n <= made \/ (made < n /\ n <= made') \/ (n > made' /\ n > made)
    BY <2>2 DEF Ids
  <2>7. ASSUME NEW n \in Ids, n <= made PROVE nodes'[n] = nodes[n]
    BY <2>2, <2>4, <2>7 DEF Ids
  <2>8. ASSUME NEW n \in Ids, n > made' PROVE nodes'[n] = nodes[n] /\ nodes[n].type = "none"
    BY <2>2, <2>4, <2>8 DEF Ids, GraphInv, SoundDocument
  <2>9. ASSUME NEW n \in Ids, n > made
        PROVE  /\ nodes'[n].group # 0 => nodes'[nodes'[n].group].type = "group"
               /\ nodes'[n].type \in {"group", "none"} => nodes'[n].group = 0
    BY <2>3, <2>4, <2>9 DEF GraphInv, SoundDocument, FlatGroups
  <2>10. es \subseteq (1..made') \X (1..made')
    BY <2>2
  <2>11. \A e \in es : e[1] = j.node /\ e[2] \in (made + 1)..made'
    OBVIOUS
  <2> HIDE DEF es
  <2>12. ASSUME NEW e \in es PROVE Legal(nodes', e[1], e[2])
    BY <2>2, <2>11, <2>3, <2>4 DEF Ids, Legal
  <2> QED
    BY <1>1, <2>2, <2>5, <2>7, <2>8, <2>9, <2>10, <2>12, ExtendedEdit
<1>7. CASE FileReady(j)
  BY <1>1, <1>2, <1>4, <1>7, InsertedAlone DEF FileReady
<1>8. CASE ReplacementReady(j)
  <2>1. UNCHANGED <<conns, made>>
    BY <1>8 DEF ReplacementReady
  <2>2. CASE j.node \in Live(nodes)
    <3>3. Reshaped(nodes, nodes')
      BY <1>2, <1>3, <1>8, <2>2, ReplacedReshapes, Zenon DEF ReplacementReady, GroupIds,
         Groups, Live, GraphInv, SoundDocument
    <3> QED
      BY <1>1, <2>1, <3>3, ReshapedEdit
  <2>3. CASE j.node \notin Live(nodes)
    BY <1>1, <1>8, <2>1, <2>3, QuietEdit DEF ReplacementReady
  <2> QED
    BY <2>2, <2>3
<1> QED
  BY <1>1, <1>5, <1>6, <1>7, <1>8

LEMMA FailJobKeeps == ASSUME GraphInv, NEW j, FailJob(j) PROVE Kept
BY QuietEdit DEF FailJob, GraphInv

(* The clipboard takes a part of the document.                              *)
LEMMA CopyKeeps == ASSUME GraphInv, NEW chosen, CopyNodes(chosen) PROVE Kept
<1> DEFINE copied == [n \in Ids |-> IF n \in chosen THEN nodes[n] ELSE Blank]
<1>1. /\ Edit /\ chosen \subseteq Live(nodes)
      /\ clipboard' = [nodes |-> copied, conns |-> conns \cap (chosen \X chosen)]
      /\ UNCHANGED <<nodes, conns, made, picker, entry, jobs>>
  BY DEF CopyNodes
<1>2. /\ Blank \in NodeSet /\ Blank.type = "none" /\ Blank.group = 0
      /\ nodes \in [Ids -> NodeSet] /\ conns \subseteq Ids \X Ids
  <2>1. 1..made \subseteq Ids
    BY DEF GraphInv, Ids
  <2> QED
    BY <2>1 DEF Blank, Node, NodeSet, GraphInv, SoundDocument
<1>3. /\ copied \in [Ids -> NodeSet]
      /\ \A n \in Ids : copied[n] = IF n \in chosen THEN nodes[n] ELSE Blank
  BY <1>2
<1> HIDE DEF copied
<1>4. clipboard'.nodes = copied /\ clipboard'.conns = conns \cap (chosen \X chosen)
  BY <1>1
<1>5. Pasted' = chosen
  BY <1>1, <1>2, <1>3, <1>4 DEF Pasted, Live
<1>6. clipboard' \in Graph
  BY <1>1, <1>2, <1>3 DEF Graph
<1>7. FlatGroups(copied)
  BY <1>2, <1>3 DEF FlatGroups, GraphInv, SoundDocument
<1>8. LegalConns(copied, conns \cap (chosen \X chosen))
  <2> SUFFICES ASSUME NEW e \in conns, e \in chosen \X chosen PROVE Legal(copied, e[1], e[2])
    BY DEF LegalConns, Legal
  <2> QED
    BY <1>1, <1>3 DEF Legal, Live, GraphInv, SoundDocument, LegalConns
<1>9. ASSUME NEW n \in chosen, copied[n].group \in chosen
      PROVE  copied[copied[n].group].type = "group"
  <2>1. n \in Ids /\ copied[n] = nodes[n] /\ copied[n].group \in Ids
    BY <1>1, <1>3, <1>9 DEF Live
  <2> QED
    BY <1>3, <1>9, <2>1 DEF GraphInv, SoundDocument, Grouped, Ids
<1>10. SoundClipboard'
  BY <1>4, <1>5, <1>6, <1>7, <1>8, <1>9 DEF SoundClipboard
<1>11. SortsFixed' /\ Held'
  BY <1>1 DEF SortsFixed, Held, GraphInv, GroupIds, NodeIds, Groups
<1>14. OldSorts
  BY <1>1 DEF OldSorts, GraphInv, GroupIds, Groups
<1> QED
  BY <1>1, <1>10, <1>11, EditCounts, <1>14 DEF GraphInv, Kept

(* The undo entry and the document change places.                           *)
LEMMA EntryKeeps ==
    ASSUME GraphInv, CommitEntry \/ ApplyEntry
    PROVE  Kept
<1>1. /\ Edit /\ UNCHANGED <<made, picker, clipboard, jobs>>
      /\ \/ entry' = Document /\ UNCHANGED <<nodes, conns>>
         \/ nodes' = entry.nodes /\ conns' = entry.conns /\ entry' = entry
  BY DEF CommitEntry, ApplyEntry
<1>2. \/ /\ nodes' = nodes /\ conns' = conns
         /\ entry'.nodes = nodes /\ entry'.conns = conns /\ entry' = Document
      \/ nodes' = entry.nodes /\ conns' = entry.conns /\ entry' = entry
  BY <1>1 DEF Document
<1>4. /\ SoundDocument(nodes', conns', made') /\ SoundDocument(entry'.nodes, entry'.conns, made')
      /\ entry' \in Graph
  BY <1>1, <1>2, GraphInvSound DEF GraphInv, Document, Graph, GraphTypeOK
<1>5. GroupIds' \subseteq GroupIds /\ NodeIds' \subseteq NodeIds
  BY <1>2 DEF GroupIds, NodeIds, Groups
<1>6. SortsFixed'
  BY <1>5 DEF SortsFixed, GraphInv
<1>7. Held'
  BY <1>1, <1>5 DEF Held, GraphInv
<1>8. SoundClipboard'
  BY <1>1 DEF GraphInv, SoundClipboard, Pasted
<1>9. edits' \in 0..MaxEdits
  BY <1>1, EditCounts
<1>10. SoundDocument(nodes, conns, made)' /\ SoundDocument(entry.nodes, entry.conns, made)'
  BY <1>4
<1>11. made' \in 0..MaxNodes /\ picker' \in 0..MaxNodes /\ jobs' \subseteq Jobs
  BY <1>1 DEF GraphInv
<1>12. OldSorts
  BY <1>1, <1>5 DEF OldSorts, GraphInv
<1> QED
  BY <1>4, <1>6, <1>7, <1>8, <1>9, <1>10, <1>11, <1>12 DEF GraphInv, Kept

(* A page that is loaded again keeps the document and nothing else.         *)
LEMMA ReloadKeeps == ASSUME GraphInv, ReloadPage PROVE Kept
<1>1. /\ Edit /\ nodes' = Interrupt(nodes) /\ entry' = [nodes |-> nodes', conns |-> conns]
      /\ picker' = 0 /\ clipboard' = Empty /\ jobs' = {} /\ UNCHANGED <<conns, made>>
  BY DEF ReloadPage
<1>2. nodes \in [Ids -> NodeSet] /\ SoundDocument(nodes, conns, made) /\ made \in Nat
  BY DEF GraphInv, SoundDocument
<1>3. Reshaped(nodes, nodes')
  BY <1>1, <1>2 DEF Interrupt, Reshaped, NodeSet
<1>5. entry'.nodes = nodes' /\ entry'.conns = conns
  BY <1>1
<1>6. SoundDocument(nodes, conns, made)' /\ SoundDocument(entry.nodes, entry.conns, made)'
  BY <1>1, <1>2, <1>3, DocumentReshaped, <1>5
<1>7. entry' \in Graph
  BY <1>3, GraphInvSound, <1>1 DEF GraphTypeOK, Reshaped, Graph
<1>8. SortsFixed'
  BY <1>5 DEF SortsFixed, GroupIds, NodeIds, Groups
<1>9. SoundClipboard'
  BY <1>1, <1>2, EmptyDocument DEF Empty, SoundDocument, Pasted, Live, Graph, SoundClipboard
<1>10. Held'
  BY <1>1 DEF Held
<1>11. edits' \in 0..MaxEdits
  BY <1>1, EditCounts
<1>12. OldSorts
  <2>1. GroupIds' \subseteq GroupIds
    BY <1>3, <1>5 DEF Reshaped, GroupIds, Groups
  <2> QED
    BY <1>1, <2>1 DEF OldSorts, GraphInv
<1> QED
  BY <1>1, <1>6, <1>7, <1>8, <1>9, <1>10, <1>11, <1>12 DEF GraphInv, Kept

(* What generations do: a child, or a node rewritten.                       *)
LEMMA AddResultKeeps ==
    ASSUME GraphInv, NEW n \in 1..made, NEW type \in Media \cup {"text"}, AddResult(n, type)
    PROVE  Kept
<1> DEFINE node == Node(type, 0, FALSE, FreshGen)
<1>1. type \in Types /\ type \notin {"group", "config"}
  BY DEF Types, Media
<1>2. Welcome(nodes, node) /\ node.type = type
  BY <1>1, NewNode DEF Node
<1>3. /\ Insert(node) /\ conns' = conns \cup {<<n, made + 1>>} /\ UNCHANGED edits /\ Keep
      /\ edits' \in 0..MaxEdits
  BY DEF AddResult, GraphInv
<1> HIDE DEF node
<1> QED
  BY <1>1, <1>2, <1>3, ChildKeeps DEF Keep

LEMMA RewriteKeeps ==
    ASSUME GraphInv, NEW n \in Live(nodes), NEW type \in Types \ {"group"},
           NEW group \in 0..MaxNodes, NEW filled \in BOOLEAN, Rewrite(n, type, group, filled),
           UNCHANGED <<conns, made>>, Edit \/ UNCHANGED edits, Keep
    PROVE  Kept
<1>1. /\ nodes[n].type \notin {"group", "none"} /\ group \in {0, nodes[n].group}
      /\ type = "config" => nodes[n].type = type
      /\ nodes' = [nodes EXCEPT ![n].type = type, ![n].group = group, ![n].filled = filled]
      /\ nodes \in [Ids -> NodeSet] /\ n \in Ids
  BY DEF Rewrite, GraphInv, SoundDocument, Live
<1>2. /\ nodes' \in [Ids -> NodeSet] /\ type \notin {"group", "none"}
      /\ nodes'[n].type = type /\ nodes'[n].group = group
      /\ \A k \in Ids \ {n} : nodes'[k] = nodes[k]
  <2>1. type \in Types \cup {"none"} /\ type \notin {"group", "none"}
    BY DEF Types, Media
  <2>2. nodes' \in [Ids -> NodeSet]
    BY <1>1, <2>1, ZenonT(60) DEF NodeSet
  <2> QED
    BY <2>1, <2>2, <1>1 DEF NodeSet
<1>4. edits' \in 0..MaxEdits
  BY EditCounts DEF GraphInv
<1> QED
  BY <1>1, <1>2, <1>4, ReshapedEdit DEF Keep, Reshaped

(* Every step of the editor, and every step it allows a generation.         *)
LEMMA EditKeeps == ASSUME GraphInv, EditNext PROVE Kept
<1>1. ASSUME NEW type \in Types, NEW filled \in BOOLEAN, CreateNode(type, filled) PROVE Kept
  BY <1>1, CreateNodeKeeps
<1>2. ASSUME NEW a, NEW b, NEW h, ConnectNodes(a, b, h) PROVE Kept
  BY <1>2, ConnectNodesKeeps
<1>3. ASSUME NEW a \in Live(nodes), NEW type \in CreateTypes, NEW h, CreateConnected(a, type, h)
      PROVE  Kept
  BY <1>3, CreateConnectedKeeps
<1>4. ASSUME NEW S, CopyNodes(S) \/ DropNodes(S) PROVE Kept
  BY <1>4, CopyKeeps, DropNodesKeeps
<1>5. ASSUME NEW e, DeleteConnection(e) PROVE Kept
  <2>2. PICK es : es = {}
    OBVIOUS
  <2>4. es \subseteq (1..made) \X (1..made) /\ \A d \in es : Legal(nodes, d[1], d[2])
    BY <2>2
  <2> QED
    BY <1>5, EditCounts, <2>4, ConnectedEdit DEF DeleteConnection
<1>6. ASSUME NEW n \in Live(nodes),
             \/ StartPicker(n) \/ PickReference(n) \/ DuplicateNode(n)
             \/ ReversePrompt(n) \/ ImageFromText(n)
      PROVE  Kept
  BY <1>6, StartPickerKeeps, PickReferenceKeeps, DuplicateKeeps, ReversePromptKeeps,
     ImageFromTextKeeps
<1>7. ASSUME NEW n \in Live(nodes), NEW filled \in BOOLEAN, WriteText(n, filled) PROVE Kept
  BY <1>7, WriteTextKeeps
<1>8. CASE ExitPicker
  BY <1>8, QuietEdit DEF ExitPicker, GraphInv
<1>9. CASE PasteCopied \/ CommitEntry \/ ApplyEntry
  BY <1>9, PasteKeeps, EntryKeeps
<1>10. ASSUME NEW j \in Jobs, StartJob(j) PROVE Kept
  BY <1>10, StartJobKeeps
<1>11. ASSUME NEW j \in jobs, FinishJob(j) \/ FailJob(j) PROVE Kept
  BY <1>11, FinishJobKeeps, FailJobKeeps
<1> QED
  BY <1>1, <1>2, <1>3, <1>4, <1>5, <1>6, <1>7, <1>8, <1>9, <1>10, <1>11 DEF EditNext

LEMMA GraphStep == GraphInv /\ [GraphNext]_graphVars => Kept
<1> SUFFICES ASSUME GraphInv, [GraphNext]_graphVars PROVE Kept
  OBVIOUS
<1>1. CASE EditNext
  BY <1>1, EditKeeps
<1>2. CASE RemoveNext
  BY <1>2, ClearCanvasKeeps, DeleteNodesKeeps DEF RemoveNext
<1>3. CASE ReloadPage
  BY <1>3, ReloadKeeps
<1>4. CASE ResultNext
  <2>1. ASSUME NEW n \in 1..made, NEW type \in Media \cup {"text"}, AddResult(n, type)
        PROVE  Kept
    BY <2>1, AddResultKeeps
  <2>2. ASSUME NEW n \in Ids, ExtractImage(n) PROVE Kept
    BY <2>2, ExtractKeeps
  <2>3. ASSUME UNCHANGED <<conns, made>>, Edit \/ UNCHANGED edits, Keep, NEW n \in Live(nodes),
               NEW type \in Types \ {"group"}, NEW group \in 0..MaxNodes,
               NEW filled \in BOOLEAN, Rewrite(n, type, group, filled)
        PROVE  Kept
    BY <2>3, RewriteKeeps
  <2> QED
    BY <1>4, <2>1, <2>2, <2>3 DEF ResultNext
<1>5. CASE UNCHANGED graphVars
  BY <1>5, QuietEdit DEF graphVars, GraphInv
<1> QED
  BY <1>1, <1>2, <1>3, <1>4, <1>5 DEF GraphNext

LEMMA GraphStart == GraphInit => GraphInv
<1> SUFFICES ASSUME GraphInit PROVE GraphInv
  OBVIOUS
<1>1. /\ SoundDocument(nodes, conns, made) /\ made \in 0..MaxNodes
      /\ entry = [nodes |-> nodes, conns |-> conns]
      /\ picker = 0 /\ clipboard = Empty /\ jobs = {} /\ edits = MaxEdits
  <2>1. PICK c \in Canvases : /\ nodes = c.nodes /\ conns = c.conns /\ made = c.made
                               /\ entry = [nodes |-> nodes, conns |-> conns]
                               /\ picker = 0 /\ clipboard = Empty /\ jobs = {} /\ edits = MaxEdits
    BY DEF GraphInit
  <2> QED
    BY <2>1, CanvasesAssumption
<1>2. entry.nodes = nodes /\ entry.conns = conns
  BY <1>1
<1>4. SortsFixed
  BY <1>2 DEF SortsFixed, GroupIds, NodeIds, Groups
<1>5. SoundClipboard
  BY <1>1, EmptyDocument DEF Empty, SoundDocument, Pasted, Live, Graph, SoundClipboard
<1> QED
  BY <1>1, <1>2, <1>4, <1>5 DEF GraphInv, Held, Ids, Graph, SoundDocument

(* Whatever the order of editing, uploads that come back late, copies, undo  *)
(* and results: every group a node names is on the canvas and flat, and     *)
(* every connection between two nodes is one normalizeConnection allows.    *)
THEOREM EditorKeepsDocument == GraphSpec => [](GraphTypeOK /\ DocumentSound)
<1>3. GraphInv => GraphTypeOK /\ DocumentSound
  BY GraphInvSound
<1> QED
  BY GraphStart, GraphStep, <1>3, PTL DEF GraphSpec, Kept

-----------------------------------------------------------------------------
(* Generations.  What a node knows of its generation, field by field.        *)
LEMMA Sizes ==
    /\ 0 \notin Runs /\ Runs \subseteq Nat /\ 0 \notin Items /\ Items \subseteq Nat
    /\ \A k \in Items : 1..k \subseteq Items
    /\ Cardinality(Items) \in Nat /\ Other \in Nat
<1>1. Cardinality(Items) \in Nat /\ Cardinality(Runs) \in Nat
  BY GenerationAssumption, FS_CardinalityType
<1>2. PICK k \in Nat : k = Cardinality(Items)
  BY <1>1
<1>3. PICK l \in Nat : l = Cardinality(Runs)
  BY <1>1
<1> QED
  BY <1>1, <1>2, <1>3, GenerationAssumption DEF Other

LEMMA NewGenType ==
    /\ NewGen \in GenSet /\ NewGen.items = NoItems /\ NewGen.batch = 0
    /\ NewGen.primary = 0 /\ NewGen.shown = 0 /\ NewGen.status = "idle"
BY DEF NewGen, GenSet, NoItems, Marks

LEMMA GenFields ==
    ASSUME NEW gen \in GenSet
    PROVE  /\ gen.status \in Marks /\ gen.items \in [Items -> Marks \cup {"none"}]
           /\ gen.primary \in {0, Other} \cup Items /\ gen.shown \in {0, Other} \cup Items
           /\ gen.batch \in {0} \cup Runs
           /\ \A mark \in Marks : [gen EXCEPT !.status = mark] \in GenSet
           /\ \A i \in {0, Other} \cup Items : /\ [gen EXCEPT !.shown = i] \in GenSet
                                               /\ [gen EXCEPT !.primary = i] \in GenSet
           /\ \A items \in [Items -> Marks \cup {"none"}] : [gen EXCEPT !.items = items] \in GenSet
BY DEF GenSet

(* A node takes content, or generation metadata, and stays what it is.       *)
Taking(node, filled, gen) == [node EXCEPT !.filled = filled, !.gen = gen]
LEMMA NodeTakes ==
    ASSUME NEW node \in NodeSet, NEW filled \in BOOLEAN, NEW gen \in GenSet
    PROVE  /\ Taking(node, filled, gen) \in NodeSet
           /\ Taking(node, filled, gen).type = node.type
           /\ Taking(node, filled, gen).group = node.group
           /\ Taking(node, filled, gen).filled = filled
           /\ Taking(node, filled, gen).gen = gen
BY GenerationAssumption DEF NodeSet, Taking

(* What generations may do to the nodes: none comes or goes, a group stays   *)
(* one, and no node moves to another group.                                 *)
Rewritten(ns, new) ==
    /\ new \in [Ids -> NodeSet]
    /\ \A n \in Ids :
          /\ \/ new[n].type = ns[n].type
             \/ /\ {new[n].type, ns[n].type} \cap {"group", "none"} = {}
                /\ new[n].type # "config"
          /\ new[n].group \in {0, ns[n].group}

LEMMA RewrittenReshapes ==
    ASSUME NEW ns, NEW new, Rewritten(ns, new) PROVE Reshaped(ns, new)
BY DEF Rewritten, Reshaped

LEMMA RewrittenStill == ASSUME NEW ns \in [Ids -> NodeSet] PROVE Rewritten(ns, ns)
BY DEF Rewritten

LEMMA RewrittenAgain ==
    ASSUME NEW ns, NEW mid, NEW new, Rewritten(ns, mid), Rewritten(mid, new)
    PROVE  Rewritten(ns, new)
<1> SUFFICES ASSUME NEW n \in Ids
             PROVE  /\ \/ new[n].type = ns[n].type
                       \/ /\ {new[n].type, ns[n].type} \cap {"group", "none"} = {}
                          /\ new[n].type # "config"
                    /\ new[n].group \in {0, ns[n].group}
  BY DEF Rewritten
<1> QED
  BY DEF Rewritten

LEMMA RewrittenLive == ASSUME NEW ns, NEW new, Rewritten(ns, new) PROVE Live(new) = Live(ns)
BY DEF Rewritten, Live

LEMMA OneRewritten ==
    ASSUME NEW ns \in [Ids -> NodeSet], NEW n \in Ids, NEW node \in NodeSet,
           \/ node.type = ns[n].type
           \/ /\ {node.type, ns[n].type} \cap {"group", "none"} = {}
              /\ node.type # "config",
           node.group \in {0, ns[n].group}
    PROVE  Rewritten(ns, [ns EXCEPT ![n] = node])
BY DEF Rewritten

LEMMA OneTakes ==
    ASSUME NEW ns \in [Ids -> NodeSet], NEW n \in Ids, NEW filled \in BOOLEAN, NEW gen \in GenSet,
           NEW new, new = [ns EXCEPT ![n] = Taking(ns[n], filled, gen)]
    PROVE  Rewritten(ns, new)
<1>1. /\ Taking(ns[n], filled, gen) \in NodeSet
      /\ Taking(ns[n], filled, gen).type = ns[n].type
      /\ Taking(ns[n], filled, gen).group = ns[n].group
  BY NodeTakes
<1> QED
  BY <1>1, OneRewritten

LEMMA GenOfNode ==
    ASSUME NEW ns \in [Ids -> NodeSet], NEW n \in Ids
    PROVE  ns[n].gen \in GenSet /\ ns[n].filled \in BOOLEAN
BY GenerationAssumption, NodeFields

LEMMA MarkedRewrites ==
    ASSUME NEW ns \in [Ids -> NodeSet], NEW n, NEW mark \in Marks
    PROVE  Rewritten(ns, Marked(ns, n, mark))
<1>1. CASE n \in Live(ns)
  <2>1. n \in Ids
    BY <1>1 DEF Live
  <2>2. PICK gen \in GenSet : gen = [ns[n].gen EXCEPT !.status = mark]
    BY <2>1, GenOfNode, GenFields
  <2>3. PICK filled \in BOOLEAN : filled = ns[n].filled
    BY <2>1, GenOfNode
  <2>4. Marked(ns, n, mark) = [ns EXCEPT ![n] = Taking(ns[n], filled, gen)]
    BY <1>1, <2>1, <2>2, <2>3 DEF Marked, Taking, NodeSet
  <2> QED
    BY <2>1, <2>4, OneTakes
<1>2. CASE n \notin Live(ns)
  BY <1>2, RewrittenStill DEF Marked
<1> QED
  BY <1>1, <1>2

LEMMA ItemMarkRewrites ==
    ASSUME NEW ns \in [Ids -> NodeSet], NEW r, NEW i \in Items, NEW mark \in Marks
    PROVE  Rewritten(ns, ItemMark(ns, r, i, mark))
<1> DEFINE n == runs[r].root
<1>1. CASE Owns(ns, r)
  <2>1. n \in Ids
    BY <1>1 DEF Owns, Live
  <2>4. PICK gen \in GenSet : gen = [ns[n].gen EXCEPT !.items = [ns[n].gen.items EXCEPT ![i] = mark]]
    BY <2>1, GenOfNode, GenFields, Zenon
  <2>5. PICK filled \in BOOLEAN : filled = ns[n].filled
    BY <2>1, GenOfNode
  <2>6. ItemMark(ns, r, i, mark) = [ns EXCEPT ![n] = Taking(ns[n], filled, gen)]
    BY <1>1, <2>1, <2>4, <2>5, Zenon DEF ItemMark, Taking, NodeSet
  <2> QED
    BY <2>1, <2>6, OneTakes
<1>2. CASE ~ Owns(ns, r)
  BY <1>2, RewrittenStill, SMTT(30) DEF ItemMark
<1> QED
  BY <1>1, <1>2

LEMMA RetryItemRewrites ==
    ASSUME NEW ns \in [Ids -> NodeSet], NEW r, NEW mark \in Marks
    PROVE  Rewritten(ns, RetryItem(ns, r, mark))
<1> DEFINE n == runs[r].root
           i == runs[r].item
           new == RetryItem(ns, r, mark)
<1>1. CASE new = ns
  BY <1>1, RewrittenStill
<1>2. CASE /\ n \in Live(ns) /\ i \in Items
           /\ new = [ns EXCEPT ![n].gen.items[i] = mark]
  <2>1. n \in Ids
    BY <1>2 DEF Live
  <2>2. ns[n].gen.items \in [Items -> Marks \cup {"none"}]
    BY <2>1, GenOfNode, GenFields
  <2>4. PICK gen \in GenSet : gen = [ns[n].gen EXCEPT !.items = [ns[n].gen.items EXCEPT ![i] = mark]]
    BY <2>1, <1>2, <2>2, GenOfNode, GenFields, Zenon
  <2>5. PICK filled \in BOOLEAN : filled = ns[n].filled
    BY <2>1, GenOfNode
  <2>6. new = [ns EXCEPT ![n] = Taking(ns[n], filled, gen)]
    BY <1>2, <2>1, <2>4, <2>5, Zenon DEF Taking, NodeSet
  <2> QED
    BY <2>1, <2>6, OneTakes
<1> QED
  BY <1>1, <1>2 DEF RetryItem

LEMMA ShowItemRewrites ==
    ASSUME NEW ns \in [Ids -> NodeSet], NEW n \in Ids, NEW i \in {0, Other} \cup Items
    PROVE  Rewritten(ns, ShowItem(ns, n, i))
<1>1. PICK gen \in GenSet : gen = [ns[n].gen EXCEPT !.primary = i, !.shown = i]
  <2>1. PICK mid \in GenSet : mid = [ns[n].gen EXCEPT !.primary = i]
    BY GenOfNode, GenFields
  <2> QED
    BY <2>1, GenFields
<1>2. ShowItem(ns, n, i) = [ns EXCEPT ![n] = Taking(ns[n], TRUE, gen)]
  BY <1>1 DEF ShowItem, Taking, NodeSet
<1> QED
  BY <1>2, OneTakes

LEMMA TextShownRewrites ==
    ASSUME NEW ns \in [Ids -> NodeSet], NEW r, NEW i \in Items
    PROVE  Rewritten(ns, TextShown(ns, r, i))
BY ShowItemRewrites, RewrittenStill DEF TextShown, Live

LEMMA StoredRewrites ==
    ASSUME NEW ns \in [Ids -> NodeSet], NEW n \in Ids, NEW new,
           new = [ns EXCEPT ![n].filled = TRUE, ![n].gen.shown = 0, ![n].gen.status = "success"]
    PROVE  Rewritten(ns, new)
<1>1. PICK gen \in GenSet : gen = [ns[n].gen EXCEPT !.shown = 0, !.status = "success"]
  <2>1. PICK mid \in GenSet : mid = [ns[n].gen EXCEPT !.shown = 0]
    BY GenOfNode, GenFields
  <2> QED
    BY <2>1, GenFields DEF Marks
<1>2. new = [ns EXCEPT ![n] = Taking(ns[n], TRUE, gen)]
  BY <1>1 DEF Taking, NodeSet
<1> QED
  BY <1>2, OneTakes

LEMMA TypedRewrites ==
    ASSUME NEW ns \in [Ids -> NodeSet], NEW n \in Ids, ns[n].type \notin {"group", "none"},
           NEW type \in Media \cup {"text"}, NEW new, new = [ns EXCEPT ![n].type = type]
    PROVE  Rewritten(ns, new)
<1>1. type \in Types /\ type \notin {"group", "none", "config"}
  BY DEF Types, Media
<1>2. PICK node \in NodeSet :
          /\ node = [ns[n] EXCEPT !.type = type]
          /\ node.type = type /\ node.group = ns[n].group
  BY <1>1 DEF NodeSet
<1> QED
  BY <1>2, <1>1 DEF Rewritten

(* The least of a set of numbers.                                           *)
LEMMA LeastOf ==
    ASSUME NEW S, S \subseteq Nat, S # {}
    PROVE  \E i \in S : \A j \in S : i <= j
<1>1. PICK i \in S : \A j \in S : ~ (<<j, i>> \in OpToRel(<, Nat))
  BY NatLessThanWellFounded, WFMin, Zenon
<1>2. \A j \in S : ~ (j < i)
  BY <1>1 DEF OpToRel
<1> QED
  BY <1>2

LEMMA KeepTextsRewrites ==
    ASSUME NEW ns \in [Ids -> NodeSet], NEW r \in Runs, NEW done \in SUBSET Items
    PROVE  Rewritten(ns, KeepTexts(ns, r, done))
<1> DEFINE n     == runs[r].root
           old   == ns[n].gen
           first == CHOOSE i \in done : \A j \in done : i <= j
           show  == IF Owns(ns, r) /\ old.primary \in done THEN old.primary
                    ELSE IF done = {} THEN 0 ELSE first
           kept  == [i \in Items |-> IF i \in done THEN "success" ELSE "none"]
<1>1. CASE n \notin Live(ns)
  BY <1>1, RewrittenStill DEF KeepTexts
<1>2. CASE n \in Live(ns)
  <2>1. n \in Ids /\ old \in GenSet
    BY <1>2, GenOfNode DEF Live
  <2>2. show \in {0, Other} \cup Items
    BY LeastOf, Sizes
  <2>3. kept \in [Items -> Marks \cup {"none"}]
    BY DEF Marks
  <2>4. KeepTexts(ns, r, done)
          = [ns EXCEPT ![n].filled = (show # 0),
                       ![n].gen = [old EXCEPT !.primary = show, !.shown = show, !.batch = r,
                                              !.items = kept]]
    BY <1>2 DEF KeepTexts
  <2> HIDE DEF show, kept
  <2>5. PICK gen \in GenSet :
            gen = [old EXCEPT !.primary = show, !.shown = show, !.batch = r, !.items = kept]
    BY <2>1, <2>2, <2>3 DEF GenSet
  <2>6. KeepTexts(ns, r, done) = [ns EXCEPT ![n] = Taking(ns[n], show # 0, gen)]
    BY <2>1, <2>4, <2>5 DEF Taking, NodeSet
  <2> QED
    BY <2>1, <2>6, OneTakes
<1> QED
  BY <1>1, <1>2

LEMMA InMarks == {"idle", "loading", "success", "error"} \subseteq Marks
BY DEF Marks

LEMMA ClosedRewrites ==
    ASSUME NEW ns \in [Ids -> NodeSet], NEW r \in Runs, NEW done \in SUBSET Items
    PROVE  Rewritten(ns, Closed(ns, r, done))
<1> DEFINE run  == runs[r]
           mark == IF done # {} THEN "success" ELSE "error"
           kept == IF run.kind = "text" THEN KeepTexts(ns, r, done) ELSE ns
           root == Marked(kept, run.root, mark)
<1>1. CASE Aborted(r)
  BY InMarks, MarkedRewrites, <1>1, RewrittenStill DEF Closed
<1>2. CASE ~ Aborted(r)
  <2>1. mark \in Marks
    BY InMarks
  <2>2. Rewritten(ns, kept) /\ kept \in [Ids -> NodeSet]
    BY KeepTextsRewrites, RewrittenStill DEF Rewritten
  <2> HIDE DEF kept, mark
  <2>3. Rewritten(kept, root)
    BY <2>1, <2>2, MarkedRewrites
  <2>4. Rewritten(ns, root) /\ root \in [Ids -> NodeSet]
    BY <2>2, <2>3, RewrittenAgain DEF Rewritten
  <2> HIDE DEF root
  <2>6. Closed(ns, r, done) = IF run.config THEN Marked(root, run.origin, mark) ELSE root
    BY <1>2 DEF Closed, root, kept, mark
  <2> QED
    BY <2>4, <2>1, MarkedRewrites, RewrittenAgain, <2>6
<1> QED
  BY <1>1, <1>2

LEMMA ImageWrittenRewrites ==
    ASSUME nodes \in [Ids -> NodeSet], NEW r \in Runs, NEW i \in Items
    PROVE  Rewritten(nodes, ImageWritten(r, i))
<1> DEFINE n     == runs[r].root
           after == ItemMark(nodes, r, i, "success")
           first == n \in Live(nodes) /\ nodes[n].gen.primary = 0
           shown == IF first THEN ShowItem(after, n, IdOf(r, i)) ELSE after
<1>1. Rewritten(nodes, after) /\ after \in [Ids -> NodeSet]
  BY ItemMarkRewrites, InMarks DEF Rewritten
<1> HIDE DEF after
<1>3. Rewritten(nodes, shown) /\ shown \in [Ids -> NodeSet]
  <2>1. CASE first
    <3>2. Rewritten(nodes, ShowItem(after, n, IdOf(r, i)))
      BY <1>1, <2>1, ShowItemRewrites, RewrittenAgain DEF IdOf, Live
    <3> QED
      BY <2>1, <3>2 DEF Rewritten
  <2>2. CASE ~ first
    BY <1>1, <2>2
  <2> QED
    BY <2>1, <2>2
<1> HIDE DEF shown
<1> QED
  BY <1>3, InMarks, MarkedRewrites, RewrittenAgain DEF ImageWritten, shown, after

LEMMA TextWrittenRewrites ==
    ASSUME nodes \in [Ids -> NodeSet], NEW r \in Runs, NEW i \in Items
    PROVE  Rewritten(nodes, TextWritten(r, i))
<1>1. PICK mid \in [Ids -> NodeSet] :
          mid = ItemMark(nodes, r, i, "success") /\ Rewritten(nodes, mid)
  BY ItemMarkRewrites, InMarks DEF Rewritten
<1> QED
  BY <1>1, TextShownRewrites, RewrittenAgain DEF TextWritten

LEMMA RetryFailedRewrites ==
    ASSUME nodes \in [Ids -> NodeSet], NEW r \in Runs
    PROVE  Rewritten(nodes, RetryFailed(r))
<1>1. PICK mid \in [Ids -> NodeSet] :
          /\ mid = IF runs[r].marks THEN nodes ELSE RetryItem(nodes, r, "error")
          /\ Rewritten(nodes, mid)
  BY RetryItemRewrites, RewrittenStill, InMarks DEF Rewritten
<1>2. PICK mark \in Marks : mark = IF nodes[runs[r].root].filled THEN "success" ELSE "error"
  BY InMarks
<1> QED
  BY <1>1, <1>2, MarkedRewrites, RewrittenAgain DEF RetryFailed

LEMMA RetryImageRewrites ==
    ASSUME nodes \in [Ids -> NodeSet], NEW r \in Runs, runs[r].item \in {0, Other} \cup Items,
           runs[r].root \in Live(nodes) => nodes[runs[r].root].type \notin {"group", "none"}
    PROVE  Rewritten(nodes, RetryImage(r))
<1> DEFINE n == runs[r].root
<1>1. CASE n \notin Live(nodes)
  BY <1>1, RewrittenStill, SMTT(30) DEF RetryImage
<1>2. CASE n \in Live(nodes)
  <2>1. n \in Ids
    BY <1>2 DEF Live
  <2>2. PICK mid \in [Ids -> NodeSet] :
            mid = RetryItem(nodes, r, "success") /\ Rewritten(nodes, mid)
    BY RetryItemRewrites, InMarks DEF Rewritten
  <2>3. PICK shown \in [Ids -> NodeSet] :
            /\ shown = IF runs[r].marks \/ ~ nodes[n].filled
                       THEN ShowItem(mid, n, runs[r].item) ELSE mid
            /\ Rewritten(nodes, shown)
    <3>2. Rewritten(nodes, ShowItem(mid, n, runs[r].item))
      BY <2>2, <2>1, ShowItemRewrites, RewrittenAgain
    <3> QED
      BY <2>2, <3>2 DEF Rewritten
  <2>4. shown[n].type \notin {"group", "none"}
    BY <1>2, <2>1, <2>3 DEF Rewritten
  <2>5. PICK typed \in [Ids -> NodeSet] :
            typed = [shown EXCEPT ![n].type = "image"] /\ Rewritten(shown, typed)
    <3> DEFINE new == [shown EXCEPT ![n].type = "image"]
    <3>2. Rewritten(shown, new)
      BY <2>1, <2>4, TypedRewrites, Zenon DEF Media
    <3> QED
      BY <3>2 DEF Rewritten
  <2>6. Rewritten(typed, Marked(typed, n, "success"))
    BY InMarks, MarkedRewrites
  <2> QED
    BY <2>3, <2>5, <2>6, <1>2, <2>2, RewrittenAgain, Zenon DEF RetryImage
<1> QED
  BY <1>1, <1>2

LEMMA RetryTextRewrites ==
    ASSUME nodes \in [Ids -> NodeSet], NEW r \in Runs,
           runs[r].root \in Live(nodes) => nodes[runs[r].root].type \notin {"group", "none"}
    PROVE  Rewritten(nodes, RetryText(r))
<1> DEFINE n == runs[r].root
<1>1. CASE n \notin Live(nodes)
  BY <1>1, RewrittenStill DEF RetryText
<1>2. CASE n \in Live(nodes)
  <2>1. n \in Ids
    BY <1>2 DEF Live
  <2>2. PICK typed \in [Ids -> NodeSet] :
            typed = [nodes EXCEPT ![n].type = "text"] /\ Rewritten(nodes, typed)
    <3> DEFINE new == [nodes EXCEPT ![n].type = "text"]
    <3>2. Rewritten(nodes, new)
      BY <2>1, <1>2, TypedRewrites
    <3> QED
      BY <3>2 DEF Rewritten
  <2>4. Rewritten(typed, RetryText(r))
    BY <2>1, <1>2, <2>2, StoredRewrites, Zenon DEF RetryText
  <2> QED
    BY <2>2, <2>4, RewrittenAgain
<1> QED
  BY <1>1, <1>2

-----------------------------------------------------------------------------
(* The invariant of the canvas with its runs.  A run works on nodes that     *)
(* were on the canvas once and never become groups; while it hydrates its   *)
(* root is the node it was started on.                                      *)
RunsPlaced ==
    \A r \in Runs : runs[r].stage # "none" =>
        {runs[r].origin, runs[r].root} \subseteq (1..made) \ GroupIds
StagesFit ==
    \A r \in Runs :
        /\ runs[r].stage = "hydrating" => runs[r].root = runs[r].origin /\ ~ Registers(r)
        /\ runs[r].stage = "resolving" => Registers(r)
CanvasInv == GraphInv /\ GenTypeOK /\ RunsPlaced /\ StagesFit /\ RegistryExact

LEMMA EntryMade == ASSUME CanvasInv, NEW n \in Ids, requests[n] # 0 PROVE n \in 1..made
<1>2. /\ InFlight(requests[n]) \/ runs[requests[n]].stage = "lost"
      /\ n = runs[requests[n]].root \/ n = runs[requests[n]].origin
  BY DEF CanvasInv, RegistryExact, RequestsOwned
<1> QED
  BY <1>2 DEF CanvasInv, RunsPlaced, GenTypeOK, InFlight

LEMMA RunNode ==
    ASSUME CanvasInv, NEW r \in Runs, runs[r].stage # "none",
           NEW n \in {runs[r].origin, runs[r].root}
    PROVE  /\ n \in 1..made /\ n \in Ids /\ n \notin GroupIds /\ nodes[n].type # "group"
           /\ n \in Live(nodes) => nodes[n].type \notin {"group", "none"}
<1>1. n \in 1..made /\ n \notin GroupIds
  BY DEF CanvasInv, RunsPlaced
<1> QED
  BY <1>1 DEF GroupIds, Groups, Live, CanvasInv, GraphInv, Ids

(* Where the nodes of a run may be after a step.                            *)
LEMMA StillPlaced ==
    ASSUME CanvasInv, Kept,
           \A r \in Runs : runs'[r].stage # "none" =>
               \/ /\ runs[r].stage # "none"
                  /\ {runs'[r].origin, runs'[r].root} \subseteq {runs[r].origin, runs[r].root}
               \/ {runs'[r].origin, runs'[r].root} \subseteq (1..made') \ GroupIds'
    PROVE  RunsPlaced'
<1>1. ASSUME NEW n \in (1..made) \ GroupIds PROVE n \in (1..made') \ GroupIds'
  BY DEF Kept, OldSorts, GraphInv, CanvasInv
<1> SUFFICES ASSUME NEW r \in Runs, runs'[r].stage # "none"
             PROVE  {runs'[r].origin, runs'[r].root} \subseteq (1..made') \ GroupIds'
  BY DEF RunsPlaced
<1>2. CASE {runs'[r].origin, runs'[r].root} \subseteq (1..made') \ GroupIds'
  BY <1>2
<1>3. CASE /\ runs[r].stage # "none"
           /\ {runs'[r].origin, runs'[r].root} \subseteq {runs[r].origin, runs[r].root}
  BY <1>1, <1>3 DEF CanvasInv, RunsPlaced
<1> QED
  BY <1>2, <1>3

LEMMA RunFields ==
    ASSUME NEW run \in RunSet
    PROVE  /\ run.stage \in Stages /\ run.kind \in Kinds
           /\ run.origin \in 0..MaxNodes /\ run.root \in 0..MaxNodes
           /\ run.left \in SUBSET Items /\ run.done \in SUBSET Items
           /\ run.item \in {0, Other} \cup Items
BY DEF RunSet

SameTask(a, b) == b.kind = a.kind /\ b.origin = a.origin /\ b.root = a.root /\ b.halt = a.halt
LEMMA StageSet ==
    ASSUME NEW run \in RunSet, NEW stage \in Stages
    PROVE  \E new \in RunSet : /\ new = [run EXCEPT !.stage = stage]
                               /\ SameTask(run, new) /\ new.stage = stage
<1> DEFINE new == [run EXCEPT !.stage = stage]
<1>1. new \in RunSet /\ SameTask(run, new) /\ new.stage = stage
  BY DEF RunSet, SameTask
<1> QED
  BY <1>1

(* What a step may do to the runs and to what is registered.  A run goes on  *)
(* (or stops without having registered anything), one ends, one takes over  *)
(* a node, one gets a child to work on.                                     *)
OnlyRun(r)     == runs' \in [Runs -> RunSet] /\ \A q \in Runs \ {r} : runs'[q] = runs[q]
GoesQuietly(r) ==
    /\ OnlyRun(r) /\ SameTask(runs[r], runs'[r]) /\ UNCHANGED <<requests, running, confirm>>
    /\ runs[r].stage \notin {"none", "lost"} /\ runs'[r].stage \in Stages \ {"none", "hydrating", "resolving"}
    /\ InFlight(r)' => InFlight(r)
    /\ InFlight(r) => InFlight(r)' \/ runs'[r].stage = "lost"
Ends(r, targets) ==
    /\ OnlyRun(r) /\ SameTask(runs[r], runs'[r]) /\ runs'[r].stage = "over"
    /\ runs[r].stage # "none" /\ UNCHANGED confirm
    /\ requests' = Finished(requests, targets, r) /\ running' = 0

LEMMA QuietRunKeeps ==
    ASSUME CanvasInv, Kept, NEW r \in Runs, GoesQuietly(r) PROVE CanvasInv'
<1> USE DEF SameTask, OnlyRun, GoesQuietly
<1>1. \A q \in Runs : SameTask(runs[q], runs'[q])
  OBVIOUS
<1>2. \A q \in Runs : /\ (InFlight(q) => InFlight(q)' \/ runs'[q].stage = "lost")
                      /\ (InFlight(q)' => InFlight(q))
                      /\ (runs[q].stage = "lost" => runs'[q].stage = "lost")
                      /\ (runs'[q].stage # "none" => runs[q].stage # "none")
                      /\ (runs'[q].stage = "hydrating" => runs[q].stage = "hydrating")
                      /\ (runs'[q].stage = "resolving" => runs[q].stage = "resolving")
                      /\ (Registers(q)' <=> Registers(q)) /\ Shows(q)' = Shows(q)
                      /\ (Aborted(q)' <=> Aborted(q))
  BY <1>1 DEF InFlight, Registers, Shows, Aborted
<1>4. RunsPlaced'
  BY <1>1, <1>2, StillPlaced
<1>6. RequestsOwned'
  BY <1>1, <1>2 DEF CanvasInv, RegistryExact, RequestsOwned, GenTypeOK
<1>7. LiveRunRegistered'
  BY <1>1, <1>2 DEF CanvasInv, RegistryExact, LiveRunRegistered
<1>8. StopWorks'
  BY <1>2 DEF CanvasInv, RegistryExact, StopWorks, GenTypeOK
<1> QED
  BY <1>4, <1>1, <1>2, <1>6, <1>7, <1>8 DEF CanvasInv, RegistryExact, Kept, GenTypeOK,
     StagesFit

LEMMA EndKeeps ==
    ASSUME CanvasInv, Kept, NEW r \in Runs, NEW targets, Ends(r, targets),
           runs[r].root \in targets, ~ Registers(r) => runs[r].origin \in targets
    PROVE  CanvasInv'
<1> USE DEF SameTask, OnlyRun, Ends
<1>1. \A q \in Runs : SameTask(runs[q], runs'[q])
  OBVIOUS
<1>2. \A q \in Runs \ {r} : /\ InFlight(q)' <=> InFlight(q)
                            /\ runs'[q].stage = runs[q].stage
                            /\ (Registers(q)' <=> Registers(q))
                            /\ (Aborted(q)' <=> Aborted(q))
  BY <1>1 DEF InFlight, Registers, Aborted
<1>3. ~ InFlight(r)' /\ runs'[r].stage # "hydrating" /\ r # 0 /\ 0 \notin Runs
  BY Sizes DEF InFlight
<1>4. \A n \in Ids : requests'[n] = IF n \in targets /\ requests[n] = r THEN 0 ELSE requests[n]
  BY DEF Finished
<1>5. requests' \in [Ids -> {0} \cup Runs]
  BY DEF Finished, CanvasInv, GenTypeOK
<1>8. RunsPlaced'
  BY <1>1, <1>2, StillPlaced
<1>9. StagesFit'
  BY <1>1, <1>2, <1>3 DEF CanvasInv, StagesFit
<1>10. RequestsOwned'
  BY <1>1, <1>2, <1>4, <1>5, <1>3 DEF CanvasInv, RegistryExact, RequestsOwned
<1>11. LiveRunRegistered'
  <2> SUFFICES ASSUME NEW q \in Runs, InFlight(q)', ~ Aborted(q)'
               PROVE  /\ requests'[runs'[q].root] = q
                      /\ ~ Registers(q)' => requests'[runs'[q].origin] = q
    BY DEF LiveRunRegistered
  <2>1. q # r /\ InFlight(q) /\ ~ Aborted(q)
    BY <1>2, <1>3
  <2> QED
    BY <1>1, <1>2, <1>4, <2>1, RunNode DEF CanvasInv, RegistryExact, LiveRunRegistered,
       InFlight
<1> QED
  BY <1>5, <1>8, <1>9, <1>10, <1>11 DEF CanvasInv, RegistryExact, Kept, GenTypeOK, GraphInv,
     StopWorks

OwnsEntry(q, n) ==
    /\ InFlight(q) \/ runs[q].stage = "lost"
    /\ n = runs[q].root \/ (~ Registers(q) /\ n = runs[q].origin)
LEMMA EntriesOwned ==
    ASSUME CanvasInv, NEW n \in Ids, NEW q \in Runs, requests[n] = q PROVE OwnsEntry(q, n)
BY Sizes DEF CanvasInv, RegistryExact, RequestsOwned, OwnsEntry

(* r is registered under n; whoever was is aborted.                         *)
TakesOver(r, n) ==
    /\ runs' \in [Runs -> RunSet]
    /\ \A q \in Runs \ {r} :
           runs'[q] = IF q = requests[n] THEN [runs[q] EXCEPT !.halt = "replaced"] ELSE runs[q]
    /\ runs[r].stage \in {"none", "resolving"} /\ runs'[r].stage \in {"hydrating", "asking"}
    /\ runs'[r].root = n
    /\ ~ Registers(r)' => runs'[r].origin = n
    /\ runs'[r].stage = "hydrating" => ~ Registers(r)'
    /\ requests' = [requests EXCEPT ![n] = r] /\ running' = n /\ UNCHANGED confirm

LEMMA TakeOverKeeps ==
    ASSUME CanvasInv, Kept, NEW r \in Runs, NEW n \in Ids, TakesOver(r, n),
           {runs'[r].origin, runs'[r].root} \subseteq (1..made') \ GroupIds'
    PROVE  CanvasInv'
<1> USE DEF TakesOver
<1>1. ASSUME NEW q \in Runs \ {r}
      PROVE  /\ runs'[q].stage = runs[q].stage /\ runs'[q].root = runs[q].root
             /\ runs'[q].origin = runs[q].origin /\ runs'[q].kind = runs[q].kind
             /\ ~ Aborted(q)' => ~ Aborted(q) /\ q # requests[n]
  <2>1. CASE q = requests[n]
    BY <2>1 DEF CanvasInv, GenTypeOK, RunSet, Aborted
  <2>2. CASE q # requests[n]
    BY <2>2 DEF Aborted
  <2> QED
    BY <2>1, <2>2
<1>2. \A q \in Runs \ {r} : /\ InFlight(q)' <=> InFlight(q)
                            /\ (Registers(q)' <=> Registers(q))
                            /\ Shows(q)' = Shows(q)
  BY <1>1 DEF InFlight, Registers, Shows
<1>3. InFlight(r)' /\ Shows(r)' = n /\ ~ InFlight(r) /\ runs[r].stage # "lost"
  BY DEF InFlight, Shows
<1>4. requests' \in [Ids -> {0} \cup Runs] /\ requests \in [Ids -> {0} \cup Runs]
  BY DEF CanvasInv, GenTypeOK
<1>5. \A k \in Ids : requests'[k] = IF k = n THEN r ELSE requests[k]
  BY <1>4
<1>6. \A k \in Ids : requests[k] # r
  BY <1>3, Sizes DEF CanvasInv, RegistryExact, RequestsOwned
<1>8. RunsPlaced'
  BY <1>1, StillPlaced
<1>9. StagesFit'
  BY <1>1, <1>2 DEF CanvasInv, StagesFit
<1>10. RequestsOwned'
  <2> SUFFICES ASSUME NEW k \in Ids, NEW q \in Runs, requests'[k] = q PROVE OwnsEntry(q, k)'
    BY <1>4 DEF RequestsOwned, OwnsEntry
  <2>1. CASE k = n
    BY <1>3, <1>5, <2>1 DEF OwnsEntry
  <2>2. CASE k # n
    BY <1>5, <1>6, <2>2, EntriesOwned, <1>1, <1>2 DEF OwnsEntry
  <2> QED
    BY <2>1, <2>2
<1>11. LiveRunRegistered'
  <2> SUFFICES ASSUME NEW q \in Runs, InFlight(q)', ~ Aborted(q)'
               PROVE  /\ requests'[runs'[q].root] = q
                      /\ ~ Registers(q)' => requests'[runs'[q].origin] = q
    BY DEF LiveRunRegistered
  <2>1. CASE q = r
    BY <1>5, <2>1
  <2>2. CASE q # r
    BY <1>1, <1>2, <2>2, RunNode, <1>5 DEF CanvasInv, RegistryExact, LiveRunRegistered,
       InFlight
  <2> QED
    BY <2>1, <2>2
<1>12. StopWorks'
  BY <1>5, Sizes, <1>3 DEF StopWorks
<1> QED
  BY <1>4, <1>8, <1>9, <1>10, <1>11, <1>12 DEF CanvasInv, RegistryExact, Kept, GenTypeOK, Ids

(* r, hydrated, gets a child to write into.                                 *)
GetsChild(r, child) ==
    /\ OnlyRun(r) /\ runs[r].stage = "hydrating" /\ runs'[r].stage = "asking"
    /\ runs'[r].kind = runs[r].kind /\ runs'[r].origin = runs[r].origin
    /\ runs'[r].halt = runs[r].halt /\ runs'[r].root = child
    /\ requests' = [requests EXCEPT ![child] = r] /\ UNCHANGED <<running, confirm>>

LEMMA ChildRunKeeps ==
    ASSUME CanvasInv, Kept, NEW r \in Runs, NEW child \in Ids, GetsChild(r, child),
           child \notin 1..made, child \in (1..made') \ GroupIds'
    PROVE  CanvasInv'
<1> USE DEF GetsChild, OnlyRun
<1>1. InFlight(r) /\ InFlight(r)' /\ ~ Registers(r) /\ ~ Registers(r)' /\ Shows(r)' = Shows(r)
      /\ (Aborted(r)' <=> Aborted(r))
  BY DEF InFlight, Registers, Shows, Aborted, CanvasInv, StagesFit
<1>2. \A q \in Runs \ {r} : /\ InFlight(q)' <=> InFlight(q)
                            /\ (Registers(q)' <=> Registers(q))
                            /\ Shows(q)' = Shows(q)
                            /\ (Aborted(q)' <=> Aborted(q))
  BY DEF InFlight, Registers, Shows, Aborted
<1>3. requests' \in [Ids -> {0} \cup Runs] /\ requests \in [Ids -> {0} \cup Runs]
  BY DEF CanvasInv, GenTypeOK
<1>4. \A k \in Ids : requests'[k] = IF k = child THEN r ELSE requests[k]
  BY <1>3
<1>7. RunsPlaced'
  BY RunNode, StillPlaced DEF Kept, OldSorts, CanvasInv, GraphInv
<1>9. RequestsOwned'
  <2> SUFFICES ASSUME NEW k \in Ids, NEW q \in Runs, requests'[k] = q PROVE OwnsEntry(q, k)'
    BY <1>3 DEF RequestsOwned, OwnsEntry
  <2>1. CASE k = child
    BY <1>1, <1>4, <2>1 DEF OwnsEntry
  <2>2. CASE k # child
    BY <1>4, <2>2, EntriesOwned, <1>1, <1>2 DEF CanvasInv, StagesFit, OwnsEntry
  <2> QED
    BY <2>1, <2>2
<1>10. LiveRunRegistered'
  <2> SUFFICES ASSUME NEW q \in Runs, InFlight(q)', ~ Aborted(q)'
               PROVE  /\ requests'[runs'[q].root] = q
                      /\ ~ Registers(q)' => requests'[runs'[q].origin] = q
    BY DEF LiveRunRegistered
  <2>1. InFlight(q) /\ ~ Aborted(q)
    BY <1>1, <1>2
  <2> QED
    BY <1>1, <1>2, <1>4, <2>1, RunNode DEF CanvasInv, RegistryExact, LiveRunRegistered,
       InFlight
<1>11. StopWorks'
  <2> SUFFICES ASSUME running # 0, StopWorks PROVE StopWorks'
    BY DEF CanvasInv, RegistryExact, StopWorks
  <2>1. PICK k \in Ids : requests[k] # 0 /\ Shows(requests[k]) = running
    BY DEF StopWorks
  <2>2. requests'[k] = requests[k] /\ requests[k] \in Runs
    BY <1>3, <1>4, EntryMade, Sizes, <2>1
  <2> QED
    BY <2>1, <2>2, <1>1, <1>2 DEF StopWorks
<1> QED
  BY <1>3, <1>7, <1>2, <1>9, <1>10, <1>11 DEF CanvasInv, RegistryExact, Kept, GenTypeOK,
     StagesFit

-----------------------------------------------------------------------------
(* The steps of a run.                                                      *)
LEMMA RewriteStep ==
    ASSUME CanvasInv, Rewritten(nodes, nodes'), UNCHANGED <<conns, made>>, GraphKeeps
    PROVE  Kept
BY RewrittenReshapes, ReshapedEdit DEF GraphKeeps, CanvasInv, GraphInv

LEMMA StillStep == ASSUME CanvasInv, UNCHANGED graphVars PROVE Kept
BY QuietEdit DEF graphVars, CanvasInv, GraphInv

LEMMA NodesTyped == CanvasInv => nodes \in [Ids -> NodeSet]
BY DEF CanvasInv, GraphInv, SoundDocument

LEMMA EndShape ==
    ASSUME CanvasInv, NEW r \in Runs, runs[r].stage # "none", NEW rs \in [Runs -> RunSet],
           \A q \in Runs \ {r} : rs[q] = runs[q], SameTask(runs[r], rs[r]),
           NEW targets, End(r, rs, requests, targets)
    PROVE  Ends(r, targets)
<1>1. /\ runs' = [rs EXCEPT ![r].stage = "over"] /\ requests' = Finished(requests, targets, r)
      /\ running' = 0 /\ UNCHANGED confirm
  BY DEF End
<1>2. PICK run \in RunSet : /\ run = [rs[r] EXCEPT !.stage = "over"]
                            /\ SameTask(rs[r], run) /\ run.stage = "over"
  BY StageSet DEF Stages
<1> QED
  BY <1>1, <1>2 DEF Ends, OnlyRun, SameTask

LEMMA EndStep ==
    ASSUME CanvasInv, Kept, NEW r \in Runs, runs[r].stage # "none",
           NEW targets, runs[r].root \in targets, ~ Registers(r) => runs[r].origin \in targets,
           End(r, runs, requests, targets)
    PROVE  CanvasInv'
BY EndShape, EndKeeps DEF CanvasInv, GenTypeOK, SameTask

(* The stage of a run moves on.                                             *)
LEMMA StageStep ==
    ASSUME CanvasInv, Kept, NEW r \in Runs, NEW stage \in Stages,
           runs' = [runs EXCEPT ![r].stage = stage], UNCHANGED <<requests, running, confirm>>,
           runs[r].stage \notin {"none", "lost"}, stage \notin {"none", "hydrating", "resolving"},
           stage \in {"asking", "storing"} => InFlight(r),
           InFlight(r) => stage \in {"asking", "storing", "lost"}
    PROVE  CanvasInv'
<1>1. runs \in [Runs -> RunSet]
  BY DEF CanvasInv, GenTypeOK
<1>2. PICK run \in RunSet : /\ run = [runs[r] EXCEPT !.stage = stage]
                            /\ SameTask(runs[r], run) /\ run.stage = stage
  BY <1>1, StageSet
<1> QED
  BY <1>2, <1>1, QuietRunKeeps DEF GoesQuietly, OnlyRun, InFlight

LEMMA HydratedToNothingKeeps ==
    ASSUME CanvasInv, NEW r \in Runs, HydratedToNothing(r) PROVE CanvasInv'
BY StillStep, EndStep DEF HydratedToNothing, CanvasInv, StagesFit

LEMMA HydrationFailsKeeps ==
    ASSUME CanvasInv, NEW r \in Runs, HydrationFails(r) PROVE CanvasInv'
BY StillStep, StageStep DEF HydrationFails, Stages, InFlight

LEMMA MediaAnsweredKeeps ==
    ASSUME CanvasInv, NEW r \in Runs, MediaAnswered(r) PROVE CanvasInv'
BY StillStep, StageStep DEF MediaAnswered, Stages, InFlight

LEMMA MediaStoredKeeps ==
    ASSUME CanvasInv, NEW r \in Runs, MediaStored(r) PROVE CanvasInv'
<1> DEFINE n == runs[r].root
           targets == {n} \cup IF Registers(r) THEN {} ELSE {runs[r].origin}
<1>1. /\ runs[r].stage = "storing" /\ End(r, runs, requests, targets)
      /\ UNCHANGED <<conns, made>> /\ GraphKeeps
  BY DEF MediaStored
<1>2. Rewritten(nodes, nodes')
  <2>1. CASE n \in Live(nodes)
    BY <2>1, StoredRewrites, NodesTyped, Zenon DEF MediaStored, Live
  <2>2. CASE n \notin Live(nodes)
    BY <2>2, RewrittenStill, NodesTyped DEF MediaStored
  <2> QED
    BY <2>1, <2>2, SMTT(30)
<1>3. n \in targets /\ (~ Registers(r) => runs[r].origin \in targets)
  OBVIOUS
<1> HIDE DEF targets
<1> QED
  BY <1>1, <1>2, <1>3, RewriteStep, EndStep

LEMMA MediaFailsKeeps ==
    ASSUME CanvasInv, NEW r \in Runs, MediaFails(r) PROVE CanvasInv'
<1> DEFINE run == runs[r]
<1>1. /\ run.stage # "none" /\ End(r, runs, requests, {run.root, run.origin})
      /\ UNCHANGED <<conns, made>> /\ GraphKeeps
      /\ \/ nodes' = Marked(Marked(nodes, run.root, "error"), run.origin, "error")
         \/ nodes' = Marked(nodes, run.root, "error")
         \/ nodes' = nodes
  BY DEF MediaFails
<1>2. PICK mid \in [Ids -> NodeSet] :
          mid = Marked(nodes, run.root, "error") /\ Rewritten(nodes, mid)
  BY MarkedRewrites, InMarks, NodesTyped DEF Rewritten
<1>3. Rewritten(nodes, Marked(mid, run.origin, "error"))
  BY <1>2, MarkedRewrites, InMarks, RewrittenAgain
<1>4. Rewritten(nodes, nodes')
  BY <1>1, <1>2, <1>3, RewrittenStill, NodesTyped
<1> QED
  BY <1>1, <1>4, RewriteStep, EndStep

LEMMA CanceledKeeps ==
    ASSUME CanvasInv, NEW r \in Runs, Canceled(r) PROVE CanvasInv'
<1> DEFINE targets == {runs[r].root} \cup IF Registers(r) THEN {} ELSE {runs[r].origin}
<1> HIDE DEF targets
<1> QED
  BY StillStep, EndStep DEF Canceled

LEMMA RetryRefusedKeeps ==
    ASSUME CanvasInv, NEW r \in Runs, RetryRefused(r) PROVE CanvasInv'
BY RewrittenStill, RetryFailedRewrites, NodesTyped, RewriteStep, StageStep DEF RetryRefused,
   Stages, InFlight

LEMMA RetrySucceedsKeeps ==
    ASSUME CanvasInv, NEW r \in Runs, RetrySucceeds(r) PROVE CanvasInv'
<1>1. /\ runs[r].stage = "asking" /\ Registers(r) /\ End(r, runs, requests, {runs[r].root})
      /\ UNCHANGED <<conns, made>> /\ GraphKeeps
      /\ nodes' = RetryText(r) \/ nodes' = RetryImage(r)
  BY DEF RetrySucceeds, Registers
<1>3. Rewritten(nodes, nodes')
  BY <1>1, RunNode, RunFields, RetryTextRewrites, RetryImageRewrites, NodesTyped DEF CanvasInv,
     GenTypeOK
<1> QED
  BY <1>1, <1>3, RewriteStep, EndStep

LEMMA RetryFailsKeeps ==
    ASSUME CanvasInv, NEW r \in Runs, RetryFails(r) PROVE CanvasInv'
BY RetryFailedRewrites, NodesTyped, RewriteStep, EndStep DEF RetryFails, Registers

LEMMA ImageEditedKeeps ==
    ASSUME CanvasInv, NEW r \in Runs, ImageEdited(r) \/ ImageEditFails(r) PROVE CanvasInv'
<1> DEFINE n == runs[r].root
<1>2. Rewritten(nodes, nodes')
  <2>1. CASE ImageEdited(r) /\ n \in Live(nodes)
    BY <2>1, StoredRewrites, NodesTyped, Zenon DEF ImageEdited, Live
  <2>2. CASE ImageEdited(r) /\ n \notin Live(nodes)
    BY <2>2, RewrittenStill, NodesTyped DEF ImageEdited
  <2>3. CASE ImageEditFails(r)
    BY <2>3, MarkedRewrites, InMarks, NodesTyped DEF ImageEditFails
  <2> QED
    BY <2>1, <2>2, <2>3, SMTT(30)
<1> QED
  BY <1>2, RewriteStep, EndStep, SMTT(30) DEF ImageEdited, ImageEditFails, Registers

(* One item is answered, and with the last one the run ends.                *)
LEMMA ItemAnsweredKeeps ==
    ASSUME CanvasInv, NEW r \in Runs, NEW i \in Items, NEW ns, Rewritten(nodes, ns),
           NEW done \in SUBSET Items, ItemAnswered(r, i, ns, done)
    PROVE  CanvasInv'
<1> DEFINE rs      == [runs EXCEPT ![r].left = @ \ {i}, ![r].done = done]
           targets == {runs[r].root, runs[r].origin}
<1>1. runs \in [Runs -> RunSet] /\ runs[r].left \in SUBSET Items
  BY RunFields DEF CanvasInv, GenTypeOK
<1>2. PICK run \in RunSet : /\ run = [runs[r] EXCEPT !.left = @ \ {i}, !.done = done]
                            /\ SameTask(runs[r], run) /\ run.stage = runs[r].stage
  <2> DEFINE run == [runs[r] EXCEPT !.left = @ \ {i}, !.done = done]
  <2>1. runs[r] \in RunSet /\ runs[r].left \ {i} \in SUBSET Items
    BY <1>1
  <2>2. run \in RunSet /\ SameTask(runs[r], run) /\ run.stage = runs[r].stage
    BY <2>1 DEF RunSet, SameTask
  <2> QED
    BY <2>2
<1>3. /\ rs \in [Runs -> RunSet] /\ rs[r] = run
      /\ \A q \in Runs \ {r} : rs[q] = runs[q]
  BY <1>2, <1>1
<1>4. /\ runs[r].stage = "asking" /\ UNCHANGED <<conns, made>> /\ GraphKeeps
      /\ \/ nodes' = Closed(ns, r, done) /\ End(r, rs, requests, targets)
         \/ nodes' = ns /\ runs' = rs /\ UNCHANGED <<requests, running, confirm>>
  BY DEF ItemAnswered
<1>5. Rewritten(ns, Closed(ns, r, done))
  BY ClosedRewrites DEF Rewritten
<1>6. Kept
  BY <1>4, <1>5, RewrittenAgain, RewriteStep
<1>7. CASE End(r, rs, requests, targets)
  <2> HIDE DEF rs
  <2>2. Ends(r, targets)
    BY <1>3, <1>7, <1>2, <1>4, EndShape
  <2> QED
    BY <1>6, <2>2, EndKeeps
<1>8. CASE runs' = rs /\ UNCHANGED <<requests, running, confirm>>
  <2> HIDE DEF rs
  <2> QED
    BY <1>6, <1>3, <1>4, <1>8, <1>2, QuietRunKeeps DEF GoesQuietly, OnlyRun, InFlight, Stages
<1> QED
  BY <1>4, <1>7, <1>8

LEMMA ItemKeeps ==
    ASSUME CanvasInv, NEW r \in Runs, NEW i \in Items,
           ImageArrives(r, i) \/ TextArrives(r, i) \/ ItemFails(r, i) \/ ItemCanceled(r, i)
    PROVE  CanvasInv'
<1>1. /\ nodes \in [Ids -> NodeSet] /\ runs[r].done \in SUBSET Items
      /\ runs[r].done \cup {i} \in SUBSET Items
  BY NodesTyped, RunFields DEF CanvasInv, GenTypeOK
<1>2. CASE ImageArrives(r, i)
  BY <1>1, <1>2, ImageWrittenRewrites, ItemAnsweredKeeps DEF ImageArrives
<1>3. CASE TextArrives(r, i)
  BY <1>1, <1>3, TextWrittenRewrites, ItemAnsweredKeeps DEF TextArrives
<1>4. CASE ItemFails(r, i)
  BY <1>1, <1>4, ItemMarkRewrites, InMarks, ItemAnsweredKeeps DEF ItemFails
<1>5. CASE ItemCanceled(r, i)
  BY <1>1, <1>5, RewrittenStill, ItemAnsweredKeeps DEF ItemCanceled
<1> QED
  BY <1>2, <1>3, <1>4, <1>5

(* A step of the document alone.                                            *)
LEMMA RunsStill ==
    ASSUME CanvasInv, Kept, UNCHANGED <<runs, requests, confirm>>, running' \in {0, running}
    PROVE  CanvasInv'
<1>3. StagesFit'
  BY DEF CanvasInv, StagesFit, Registers
<1>4. RegistryExact'
  BY DEF CanvasInv, RegistryExact, RequestsOwned, LiveRunRegistered, StopWorks,
         InFlight, Registers, Aborted, Shows
<1> QED
  BY StillPlaced, <1>3, <1>4 DEF CanvasInv, Kept, GenTypeOK

LEMMA TextStreamsKeeps ==
    ASSUME CanvasInv, NEW r \in Runs, NEW i \in Items, TextStreams(r, i) PROVE CanvasInv'
BY TextShownRewrites, NodesTyped, RewriteStep, RunsStill DEF TextStreams, genVars

(* What a retried text streams.                                             *)
LEMMA RetryStreamsRewrites ==
    ASSUME CanvasInv, NEW r \in Runs, RetryStreams(r)
    PROVE  \E mid \in [Ids -> NodeSet], mark \in Marks :
              /\ mid = RetryText(r) /\ mark = "loading"
              /\ nodes' = Marked(mid, runs[r].root, mark)
              /\ Rewritten(nodes, mid) /\ Rewritten(mid, nodes')
<1>1. Rewritten(nodes, RetryText(r))
  BY RunNode, NodesTyped, RetryTextRewrites DEF RetryStreams
<1>2. PICK mid \in [Ids -> NodeSet] : mid = RetryText(r) /\ Rewritten(nodes, mid)
  BY <1>1 DEF Rewritten
<1>3. PICK mark \in Marks : mark = "loading"
  BY InMarks
<1>4. nodes' = Marked(mid, runs[r].root, mark)
  BY <1>2, <1>3 DEF RetryStreams
<1> QED
  BY <1>2, <1>3, <1>4, MarkedRewrites

LEMMA RetryStreamsKeeps ==
    ASSUME CanvasInv, NEW r \in Runs, RetryStreams(r) PROVE CanvasInv'
<1>1. Rewritten(nodes, nodes')
  BY RetryStreamsRewrites, RewrittenAgain
<1>2. Kept
  BY <1>1, RewriteStep DEF RetryStreams
<1> QED
  BY <1>2, RunsStill DEF RetryStreams, genVars

(* The runs take over a node.                                               *)
LEMMA AbortingRuns ==
    ASSUME CanvasInv, NEW r \in Runs, NEW n \in Ids,
           NEW rs, rs = Aborting(runs, requests, n, r)
    PROVE  /\ rs \in [Runs -> RunSet] /\ rs[r] = runs[r]
           /\ \A q \in Runs \ {r} :
                 rs[q] = IF q = requests[n] THEN [runs[q] EXCEPT !.halt = "replaced"] ELSE runs[q]
BY DEF Aborting, RunSet, CanvasInv, GenTypeOK

LEMMA NoRunType ==
    /\ NoRun \in RunSet /\ NoRun.halt = "no" /\ NoRun.stage = "none"
    /\ NoRun.origin = 0 /\ NoRun.root = 0
BY GraphAssumption DEF NoRun, RunSet, Kinds, Stages, Media

Flagged(run, type, config, marks, empty) ==
    [run EXCEPT !.type = type, !.config = config, !.marks = marks, !.empty = empty]
LEMMA FlaggedType ==
    ASSUME NEW run \in RunSet, NEW type \in Media \cup {"text", "config"},
           NEW config \in BOOLEAN, NEW marks \in BOOLEAN, NEW empty \in BOOLEAN,
           NEW new, new = Flagged(run, type, config, marks, empty)
    PROVE  new \in RunSet /\ SameTask(run, new) /\ new.stage = run.stage
<1>1. new \in RunSet
  BY Zenon DEF RunSet, Flagged
<1>3. new.stage = run.stage
  BY DEF RunSet, Flagged
<1> QED
  BY <1>1, <1>3 DEF RunSet, SameTask, Flagged

LEMMA LiveNode ==
    ASSUME CanvasInv, NEW n \in Live(nodes), nodes[n].type # "group"
    PROVE  n \in Ids /\ n \in (1..made) \ GroupIds
BY LiveMade DEF CanvasInv, GraphInv, SortsFixed, Live, NodeIds

LEMMA GenerateKeeps ==
    ASSUME CanvasInv, NEW r \in Runs, NEW n \in Live(nodes), NEW mode \in Media \cup {"text"},
           Generate(r, n, mode)
    PROVE  CanvasInv'
<1> DEFINE node  == nodes[n]
           new(config, marks, empty) ==
               [NoRun EXCEPT !.kind = mode, !.stage = "hydrating", !.origin = n, !.root = n,
                    !.type = mode, !.config = config, !.marks = marks, !.empty = empty]
<1>1. /\ runs[r].stage = "none" /\ nodes[n].type # "group"
      /\ requests' = [requests EXCEPT ![n] = r] /\ running' = n
      /\ UNCHANGED confirm /\ UNCHANGED graphVars
  BY DEF Generate, IsNext
<1>2. n \in Ids /\ n \in (1..made) \ GroupIds /\ n \in 0..MaxNodes
  BY <1>1, LiveNode DEF Ids
<1>3. PICK rs : rs = Aborting(runs, requests, n, r)
  OBVIOUS
<1>5. PICK config, marks, empty \in BOOLEAN :
          runs' = [Aborting(runs, requests, n, r) EXCEPT ![r] = new(config, marks, empty)]
  BY Zenon DEF Generate
<1>6. PICK run \in RunSet : /\ run = new(config, marks, empty)
                            /\ run.stage = "hydrating" /\ run.kind = mode
                            /\ run.root = n /\ run.origin = n
  <2>1. mode \in Kinds /\ mode \in Media \cup {"text", "config"} /\ "hydrating" \in Stages
    BY DEF Kinds, Media, Stages
  <2>2. PICK mid \in RunSet :
            /\ mid = [NoRun EXCEPT !.kind = mode, !.stage = "hydrating", !.origin = n, !.root = n]
            /\ mid.stage = "hydrating" /\ mid.kind = mode /\ mid.root = n /\ mid.origin = n
    <3> DEFINE mid == [NoRun EXCEPT !.kind = mode, !.stage = "hydrating", !.origin = n, !.root = n]
    <3>1. /\ mid \in RunSet
          /\ mid.stage = "hydrating" /\ mid.kind = mode /\ mid.root = n /\ mid.origin = n
      BY <1>2, <2>1, NoRunType DEF RunSet
    <3> QED
      BY <3>1
  <2>3. PICK run : run = Flagged(mid, mode, config, marks, empty)
    OBVIOUS
  <2>4. run \in RunSet /\ SameTask(mid, run) /\ run.stage = mid.stage
    BY <2>1, <2>3, FlaggedType, SMTT(30)
  <2> QED
    BY <2>2, <2>4, <2>3 DEF SameTask, Flagged
<1> HIDE DEF new
<1>7. /\ runs' \in [Runs -> RunSet] /\ runs'[r] = run
      /\ \A q \in Runs \ {r} :
            runs'[q] = IF q = requests[n] THEN [runs[q] EXCEPT !.halt = "replaced"] ELSE runs[q]
  BY <1>3, <1>5, <1>6, <1>2, AbortingRuns DEF CanvasInv, GenTypeOK
<1>10. TakesOver(r, n)
  BY <1>1, <1>6, <1>7 DEF TakesOver, Registers, Media
<1>12. {runs'[r].origin, runs'[r].root} \subseteq (1..made') \ GroupIds'
  BY <1>1, <1>2, <1>6, <1>7 DEF graphVars, GroupIds, Groups
<1> QED
  BY <1>2, <1>10, <1>1, StillStep, <1>12, TakeOverKeeps

LEMMA RetryStartsKeeps ==
    ASSUME CanvasInv, NEW r \in Runs, RetryStarts(r) PROVE CanvasInv'
<1> DEFINE n == runs[r].root
           after == IF runs[r].marks THEN nodes ELSE RetryItem(nodes, r, "loading")
<1>1. /\ runs[r].stage = "resolving" /\ nodes' = Marked(after, n, "loading")
      /\ runs' = [Aborting(runs, requests, n, r) EXCEPT ![r].stage = "asking"]
      /\ requests' = [requests EXCEPT ![n] = r] /\ running' = n /\ UNCHANGED confirm
      /\ UNCHANGED <<conns, made>> /\ GraphKeeps
  BY DEF RetryStarts
<1>2. n \in Ids /\ runs \in [Runs -> RunSet]
  BY <1>1, RunNode DEF CanvasInv, GenTypeOK
<1>3. Kept
  <2>1. Rewritten(nodes, after) /\ after \in [Ids -> NodeSet]
    BY RetryItemRewrites, RewrittenStill, InMarks, NodesTyped DEF Rewritten
  <2> HIDE DEF after
  <2> QED
    BY <1>1, <2>1, MarkedRewrites, InMarks, RewrittenAgain, RewriteStep
<1>4. PICK run \in RunSet : /\ run = [runs[r] EXCEPT !.stage = "asking"]
                            /\ SameTask(runs[r], run) /\ run.stage = "asking"
  BY <1>2, StageSet DEF Stages
<1>5. /\ runs' \in [Runs -> RunSet] /\ runs'[r] = run
      /\ \A q \in Runs \ {r} :
            runs'[q] = IF q = requests[n] THEN [runs[q] EXCEPT !.halt = "replaced"] ELSE runs[q]
  <2>0. PICK rs : rs = Aborting(runs, requests, n, r)
    OBVIOUS
  <2>1. /\ rs \in [Runs -> RunSet] /\ rs[r] = runs[r]
        /\ \A q \in Runs \ {r} :
              rs[q] = IF q = requests[n] THEN [runs[q] EXCEPT !.halt = "replaced"] ELSE runs[q]
    BY <1>2, <2>0, AbortingRuns
  <2> QED
    BY <2>1, <1>1, <1>4, <2>0
<1>6. Registers(r)' /\ runs'[r].root = n /\ runs'[r].origin = runs[r].origin
  BY <1>1, <1>4, <1>5 DEF Registers, SameTask, CanvasInv, StagesFit
<1>7. TakesOver(r, n)
  BY <1>1, <1>4, <1>5, <1>6 DEF TakesOver
<1>8. {runs'[r].origin, runs'[r].root} \subseteq (1..made') \ GroupIds'
  BY <1>1, RunNode, <1>3, <1>6 DEF Kept, OldSorts
<1> QED
  BY <1>2, <1>3, <1>7, <1>8, TakeOverKeeps

(* The references are read: the results start to load.                      *)
LEMMA LoadingType ==
    ASSUME NEW r \in Runs, NEW asked \in SUBSET Items
    PROVE  Loading(r, asked) \in GenSet
<1>1. PICK k \in Nat : k = Cardinality(Items)
  BY Sizes
<1> DEFINE items   == [i \in Items |-> IF i \in asked THEN "loading" ELSE "none"]
           batch   == IF asked = {} THEN 0 ELSE r
           primary == IF runs[r].kind = "text" THEN 1 ELSE 0
<1>3. /\ items \in [Items -> Marks \cup {"none"}] /\ batch \in {0} \cup Runs
      /\ primary \in {0, Other} \cup Items /\ "loading" \in Marks
  BY <1>1, GenerationAssumption DEF Marks, Other
<1>4. Loading(r, asked) = [NewGen EXCEPT !.status = "loading", !.batch = batch, !.items = items,
                                         !.primary = primary]
  BY DEF Loading
<1> HIDE DEF items, batch, primary
<1> QED
  BY <1>3, <1>4, NewGenType DEF GenSet

LEMMA InPlaceRewrites ==
    ASSUME nodes \in [Ids -> NodeSet], NEW r \in Runs, NEW gen \in GenSet,
           runs[r].kind \in Media \cup {"text"},
           runs[r].origin \in Live(nodes) => nodes[runs[r].origin].type \notin {"group", "none"}
    PROVE  Rewritten(nodes, InPlace(r, nodes, gen))
<1> DEFINE n == runs[r].origin
<1>1. CASE n \notin Live(nodes)
  BY <1>1, RewrittenStill DEF InPlace
<1>2. CASE n \in Live(nodes)
  <2>1. n \in Ids /\ nodes[n].type \notin {"group", "none"}
    BY <1>2 DEF Live
  <2>2. CASE runs[r].kind = "image"
    <3>1. PICK primary, shown \in {0, Other} \cup Items :
              /\ primary = Foreign(nodes[n].gen.primary) /\ shown = Foreign(nodes[n].gen.shown)
      BY DEF Foreign
    <3>2. PICK mid \in GenSet : mid = [gen EXCEPT !.primary = primary]
      BY GenFields
    <3>3. PICK new \in GenSet : new = [gen EXCEPT !.primary = primary, !.shown = shown]
      BY GenFields, <3>2
    <3>4. PICK filled \in BOOLEAN : filled = nodes[n].filled
      BY <2>1, GenOfNode
    <3>5. InPlace(r, nodes, gen) = [nodes EXCEPT ![n].gen = new]
      BY <1>2, <2>2, <3>1, <3>3 DEF InPlace, SetGen
    <3>6. PICK k \in Ids : k = n
      BY <2>1
    <3>7. InPlace(r, nodes, gen) = [nodes EXCEPT ![k] = Taking(nodes[k], filled, new)]
      BY <3>4, <3>5, <3>6 DEF Taking, NodeSet
    <3> QED
      BY <3>7, OneTakes
  <2>3. CASE runs[r].kind # "image"
    <3>1. PICK node \in NodeSet : /\ node = Node(runs[r].kind, 0, FALSE, gen)
                                  /\ node.type = runs[r].kind /\ node.group = 0
      <4>1. gen \in Gens /\ runs[r].kind \in Types
        BY GenerationAssumption DEF Types
      <4> QED
        BY <4>1, NewNode DEF Node
    <3>3. PICK k \in Ids : k = n
      BY <2>1
    <3>4. {node.type, nodes[k].type} \cap {"group", "none"} = {} /\ node.type # "config"
      BY <2>1, <3>1, <3>3 DEF Media
    <3> QED
      BY <1>2, <2>3, <3>1, <3>3, <3>4, OneRewritten DEF InPlace
  <2> QED
    BY <2>2, <2>3
<1> QED
  BY <1>1, <1>2

LEMMA AskingRun ==
    ASSUME NEW run \in RunSet, NEW asked \in SUBSET Items
    PROVE  \E new \in RunSet : /\ new = [run EXCEPT !.stage = "asking", !.left = asked]
                               /\ SameTask(run, new) /\ new.stage = "asking"
<1>1. PICK mid \in RunSet : /\ mid = [run EXCEPT !.stage = "asking"]
                            /\ SameTask(run, mid) /\ mid.stage = "asking"
  BY StageSet DEF Stages
<1> DEFINE new == [mid EXCEPT !.left = asked]
<1>2. new \in RunSet /\ SameTask(mid, new) /\ new.stage = mid.stage
  BY DEF RunSet, SameTask
<1>3. new = [run EXCEPT !.stage = "asking", !.left = asked]
  BY <1>1
<1> QED
  BY <1>1, <1>2, <1>3 DEF SameTask

Childed(run, asked, n) == [run EXCEPT !.stage = "asking", !.left = asked, !.root = n]
LEMMA ChildRun ==
    ASSUME NEW run \in RunSet, NEW asked \in SUBSET Items, NEW n \in 0..MaxNodes,
           NEW new, new = Childed(run, asked, n)
    PROVE  /\ new \in RunSet /\ new.stage = "asking" /\ new.root = n
           /\ new.kind = run.kind /\ new.origin = run.origin /\ new.halt = run.halt
<1>1. PICK mid \in RunSet : /\ mid = [run EXCEPT !.stage = "asking", !.left = asked]
                            /\ SameTask(run, mid) /\ mid.stage = "asking"
  BY AskingRun
<1>2. new = [mid EXCEPT !.root = n]
  BY <1>1 DEF Childed
<1>3. /\ new \in RunSet /\ new.stage = mid.stage /\ new.root = n
      /\ new.kind = mid.kind /\ new.origin = mid.origin /\ new.halt = mid.halt
  BY <1>2 DEF RunSet
<1> QED
  BY <1>1, <1>3 DEF SameTask

LEMMA GrownChild ==
    ASSUME NEW ns, NEW cs, NEW m \in Nat, SoundDocument(ns, cs, m),
           NEW node, NEW new, NEW k, Grown(ns, m, node, new, k),
           node.type \notin {"group", "config"}, NEW a \in 1..m,
           NEW joined, joined = cs \cup {<<a, k>>}
    PROVE  SoundDocument(new, joined, k)
<1> HIDE GraphAssumption
<1> DEFINE es == {<<a, k>>}
<1>0. k = m + 1
  BY DEF Grown
<1>1. /\ SoundDocument(new, cs, k) /\ new[k] = node /\ k = m + 1
      /\ \A n \in Ids \ {k} : new[n] = ns[n]
  BY <1>0, DocumentGrows
<1>2. es \subseteq (1..k) \X (1..k) /\ joined = cs \cup es
  BY <1>1
<1>3. \A e \in es : e[1] = a /\ e[2] = k
  OBVIOUS
<1> HIDE DEF es
<1>4. ASSUME NEW e \in es PROVE Legal(new, e[1], e[2])
  BY <1>1, <1>3 DEF Legal
<1> QED
  BY <1>1, <1>2, <1>4, DocumentJoins

LEMMA ResultChild ==
    ASSUME CanvasInv, NEW mid, Rewritten(nodes, mid), NEW result, Welcome(mid, result),
           result.type \notin {"group", "config"}, NEW from \in 1..made, made < MaxNodes,
           made' = made + 1, nodes' = [mid EXCEPT ![made'] = result],
           conns' = conns \cup {<<from, made'>>}, GraphKeeps
    PROVE  /\ Kept /\ made' \in Ids /\ made' \notin 1..made
           /\ made' \in (1..made') \ GroupIds'
<1>1. made \in Nat /\ SoundDocument(mid, conns, made) /\ nodes \in [Ids -> NodeSet]
  BY RewrittenReshapes, DocumentReshaped DEF CanvasInv, GraphInv, SoundDocument
<1>2. Grown(mid, made, result, nodes', made')
  BY DEF Grown
<1>3. /\ nodes'[made'] = result /\ made' \in Ids
      /\ \A n \in Ids \ {made'} : nodes'[n] = mid[n]
  BY <1>1, <1>2, DocumentGrows DEF Rewritten
<1>5. SortsStay
  <2> SUFFICES ASSUME NEW n \in Ids, n <= made, nodes'[n].type # "none"
               PROVE  nodes[n].type # "none" /\ (nodes'[n].type = "group" <=> nodes[n].type = "group")
    BY DEF SortsStay
  <2>1. nodes'[n] = mid[n]
    BY <1>1, <1>3 DEF Ids
  <2> QED
    BY <2>1 DEF Rewritten
<1>6. /\ GraphInv /\ made' \in made..MaxNodes /\ edits' \in 0..MaxEdits
       /\ UNCHANGED <<picker, clipboard, entry, jobs>>
  BY <1>1 DEF CanvasInv, GraphInv, GraphKeeps
<1>7. Kept
  BY <1>1, <1>2, GrownChild, <1>5, <1>6, Edited
<1> QED
  BY <1>3, <1>7, <1>1, <1>6 DEF CanvasInv, GraphInv, SoundDocument, GroupIds, Groups

LEMMA StartedKeeps ==
    ASSUME CanvasInv, NEW r \in Runs, runs[r].stage = "hydrating", ~ Aborted(r),
           NEW asked \in SUBSET Items, Started(r, asked), UNCHANGED <<running, confirm>>,
           GraphKeeps
    PROVE  CanvasInv'
<1> DEFINE run == runs[r]
<1>1. /\ run \in RunSet /\ runs \in [Runs -> RunSet] /\ nodes \in [Ids -> NodeSet]
      /\ Loading(r, asked) \in GenSet
  BY NodesTyped, LoadingType DEF CanvasInv, GenTypeOK
<1>2. /\ run.origin \in 1..made
      /\ run.origin \in Live(nodes) => nodes[run.origin].type \notin {"group", "none"}
  BY RunNode
<1>3. run.kind \in Media \cup {"text"}
  BY <1>1, RunFields DEF CanvasInv, StagesFit, Registers, Kinds, Media
<1>4. CASE run.empty
  <2>1. /\ nodes' = InPlace(r, nodes, Loading(r, asked))
        /\ runs' = [runs EXCEPT ![r].stage = "asking", ![r].left = asked]
        /\ UNCHANGED <<made, conns, requests>>
    BY <1>4 DEF Started
  <2>2. PICK new \in RunSet : /\ new = [run EXCEPT !.stage = "asking", !.left = asked]
                              /\ SameTask(run, new) /\ new.stage = "asking"
    BY <1>1, AskingRun, Zenon
  <2>6. Kept
    BY <2>1, <1>1, <1>2, <1>3, InPlaceRewrites, RewriteStep
  <2> QED
    BY <2>6, <2>1, <2>2, <1>1, QuietRunKeeps DEF GoesQuietly, OnlyRun, InFlight, Stages
<1>5. CASE ~ run.empty
  <2>1. PICK result : result = Node(run.kind, 0, FALSE, Loading(r, asked))
    OBVIOUS
  <2>2. PICK mid : mid = IF SourceMark(r) = "keep" THEN nodes
                         ELSE Marked(nodes, run.origin, SourceMark(r))
    OBVIOUS
  <2>3. /\ made < MaxNodes /\ made' = made + 1
        /\ nodes' = [mid EXCEPT ![made'] = result]
        /\ conns' = conns \cup {<<run.origin, made'>>}
        /\ runs' = [runs EXCEPT ![r].stage = "asking", ![r].left = asked, ![r].root = made']
        /\ requests' = [requests EXCEPT ![made'] = r]
    BY <1>5, <2>1, <2>2 DEF Started
  <2>4. Rewritten(nodes, mid)
    BY InMarks, <1>1, <2>2, MarkedRewrites, RewrittenStill DEF SourceMark
  <2>5. Welcome(mid, result) /\ result.type \notin {"group", "config"}
    BY <1>1, <1>3, GenerationAssumption, <2>1, NewNode DEF Types, Media, Node
  <2>6. PICK from \in 1..made : from = run.origin
    BY <1>2
  <2>7. /\ Kept /\ made' \in Ids /\ made' \notin 1..made
        /\ made' \in (1..made') \ GroupIds'
    BY <2>3, <2>4, <2>5, <2>6, ResultChild
  <2>8. PICK child \in Ids : child = made'
    BY <2>7
  <2>9. PICK new : new = Childed(run, asked, child)
    OBVIOUS
  <2>10. /\ new \in RunSet /\ new.stage = "asking" /\ new.root = child
         /\ new.kind = run.kind /\ new.origin = run.origin /\ new.halt = run.halt
    BY <1>1, <2>9, ChildRun DEF Ids
  <2>12. GetsChild(r, child)
    BY <2>3, <2>8, <2>10, <2>9, <1>1 DEF GetsChild, OnlyRun, Childed
  <2> QED
    BY <2>7, <2>8, <2>12, ChildRunKeeps
<1> QED
  BY <1>4, <1>5

LEMMA StartKeeps == ASSUME CanvasInv, NEW r \in Runs, Start(r) PROVE CanvasInv'
BY Sizes, StartedKeeps DEF Start

(* A retry waits for its references; nothing is registered yet.             *)
Resolves(r) ==
    /\ OnlyRun(r) /\ runs[r].stage = "none" /\ runs'[r].stage = "resolving" /\ Registers(r)'
    /\ UNCHANGED <<requests, running, confirm>>

LEMMA ResolveKeeps ==
    ASSUME CanvasInv, Kept, NEW r \in Runs, Resolves(r),
           {runs'[r].origin, runs'[r].root} \subseteq (1..made') \ GroupIds'
    PROVE  CanvasInv'
<1> USE DEF Resolves, OnlyRun
<1>1. GenTypeOK'
  BY DEF CanvasInv, GenTypeOK
<1>2. \A q \in Runs \ {r} : /\ InFlight(q)' <=> InFlight(q)
                            /\ (Registers(q)' <=> Registers(q))
                            /\ Shows(q)' = Shows(q)
                            /\ (Aborted(q)' <=> Aborted(q))
  BY DEF InFlight, Registers, Shows, Aborted
<1>4. ASSUME NEW k \in Ids, NEW q \in Runs, requests[k] = q PROVE q # r /\ OwnsEntry(q, k)
  BY <1>4, EntriesOwned DEF OwnsEntry, InFlight
<1>7. RequestsOwned'
  <2> SUFFICES ASSUME NEW k \in Ids, NEW q \in Runs, requests'[k] = q PROVE OwnsEntry(q, k)'
    BY <1>1 DEF RequestsOwned, OwnsEntry, GenTypeOK
  <2> QED
    BY <1>2, <1>4 DEF OwnsEntry
<1>8. LiveRunRegistered'
  BY <1>2 DEF CanvasInv, RegistryExact, LiveRunRegistered, InFlight
<1>9. StopWorks'
  <2> SUFFICES ASSUME running # 0 PROVE \E k \in Ids : requests[k] # 0 /\ Shows(requests[k])' = running
    BY DEF StopWorks
  <2>1. PICK k \in Ids : requests[k] # 0 /\ Shows(requests[k]) = running
    BY DEF CanvasInv, RegistryExact, StopWorks
  <2>2. PICK q \in Runs : q = requests[k]
    BY <2>1 DEF CanvasInv, GenTypeOK
  <2> QED
    BY <2>1, <2>2, <1>2, <1>4
<1> QED
  BY <1>1, StillPlaced, <1>2, <1>7, <1>8, <1>9 DEF CanvasInv, RegistryExact, Kept, StagesFit

RetryOf(source, n, type, batch, item, marks) ==
    [NoRun EXCEPT !.kind = "retry", !.stage = "resolving", !.origin = source, !.root = n,
                  !.type = type, !.batch = batch, !.item = item, !.marks = marks]
LEMMA RetryOfType ==
    ASSUME NEW source \in 0..MaxNodes, NEW n \in 0..MaxNodes,
           NEW type \in Media \cup {"text", "config"}, NEW batch \in {0} \cup Runs,
           NEW item \in {0, Other} \cup Items, NEW marks \in BOOLEAN,
           NEW run, run = RetryOf(source, n, type, batch, item, marks)
    PROVE  /\ run \in RunSet /\ run.stage = "resolving" /\ run.kind = "retry"
           /\ run.origin = source /\ run.root = n
<1>2. PICK mid \in RunSet :
          /\ mid = [NoRun EXCEPT !.kind = "retry", !.stage = "resolving", !.origin = source,
                                 !.root = n]
          /\ mid.stage = "resolving" /\ mid.kind = "retry" /\ mid.origin = source /\ mid.root = n
  <2> DEFINE mid == [NoRun EXCEPT !.kind = "retry", !.stage = "resolving", !.origin = source,
                                  !.root = n]
  <2>1. /\ mid \in RunSet
        /\ mid.stage = "resolving" /\ mid.kind = "retry" /\ mid.origin = source /\ mid.root = n
    BY NoRunType DEF RunSet, Kinds, Stages
  <2> QED
    BY <2>1
<1>3. run = [mid EXCEPT !.type = type, !.batch = batch, !.item = item, !.marks = marks]
  BY <1>2 DEF RetryOf
<1>4. run \in RunSet
  BY <1>3 DEF RunSet
<1> QED
  BY <1>2, <1>4, <1>3 DEF RunSet

LEMMA RetryKeeps ==
    ASSUME CanvasInv, NEW r \in Runs, NEW n \in Live(nodes), NEW i \in {0} \cup Items,
           Retry(r, n, i)
    PROVE  CanvasInv'
<1> DEFINE node == nodes[n]
<1>1. /\ runs[r].stage = "none" /\ node.type # "group"
      /\ UNCHANGED <<requests, running, confirm>> /\ UNCHANGED graphVars
  BY DEF Retry, IsNext
<1>2. PICK item : item = IF i # 0 THEN i ELSE IF node.type # "image" THEN 0
                         ELSE IF node.gen.primary # 0 THEN node.gen.primary ELSE Other
  OBVIOUS
<1>3. PICK marks \in BOOLEAN : marks = (i = 0)
  OBVIOUS
<1>4. PICK source \in RetrySources(n) :
          runs' = [runs EXCEPT ![r] = RetryOf(source, n, node.type, node.gen.batch, item, marks)]
  BY <1>2, <1>3, Zenon DEF Retry, RetryOf
<1>5. /\ n \in Ids /\ n \in 0..MaxNodes /\ n \in (1..made) \ GroupIds
      /\ nodes \in [Ids -> NodeSet] /\ runs \in [Runs -> RunSet]
  BY <1>1, LiveNode, NodesTyped DEF Ids, CanvasInv, GenTypeOK
<1>6. source \in 0..MaxNodes /\ source \in (1..made) \ GroupIds
  <2>1. CASE source = n
    BY <1>5, <2>1
  <2>2. CASE source \in Ids /\ nodes[source].type = "config"
    BY <2>2, LiveNode DEF Live, Ids
  <2> QED
    BY <2>1, <2>2, Zenon DEF RetrySources
<1>7. /\ node.type \in Media \cup {"text", "config"} /\ node.gen \in GenSet
      /\ node.gen.batch \in {0} \cup Runs /\ item \in {0, Other} \cup Items
  BY <1>5, NodeFields, GenOfNode, <1>1, <1>2, GenFields DEF Live, Types
<1> HIDE DEF node
<1>8. PICK run : run = RetryOf(source, n, node.type, node.gen.batch, item, marks)
  OBVIOUS
<1>9. /\ run \in RunSet /\ run.stage = "resolving" /\ run.kind = "retry"
      /\ run.origin = source /\ run.root = n
  <2>1. PICK type \in Media \cup {"text", "config"} : type = node.type
    BY <1>7
  <2>2. PICK batch \in {0} \cup Runs : batch = node.gen.batch
    BY <1>7
  <2>3. run = RetryOf(source, n, type, batch, item, marks)
    BY <1>8, <2>1, <2>2
  <2>4. n \in 0..MaxNodes /\ source \in 0..MaxNodes /\ item \in {0, Other} \cup Items
    BY <1>5, <1>6, <1>7
  <2>6. run.stage = "resolving" /\ run.kind = "retry" /\ run.origin = source /\ run.root = n
    BY <2>3, <2>4, RetryOfType
  <2> QED
    BY <2>3, <2>4, RetryOfType, <2>6
<1>10. runs' \in [Runs -> RunSet] /\ runs'[r] = run /\ \A q \in Runs \ {r} : runs'[q] = runs[q]
  BY <1>4, <1>5, <1>8, <1>9
<1>13. {runs'[r].origin, runs'[r].root} \subseteq (1..made') \ GroupIds'
  BY <1>1, <1>5, <1>6, <1>9, <1>10 DEF graphVars, GroupIds, Groups
<1> QED
  BY <1>1, <1>9, <1>10, StillStep, <1>13, ResolveKeeps DEF Resolves, OnlyRun, Registers

(* An edited image: a run that owns its new node from the start.            *)
EditOf(n, child) ==
    [NoRun EXCEPT !.kind = "single", !.stage = "asking", !.origin = n, !.root = child]
LEMMA EditOfType ==
    ASSUME NEW n \in 0..MaxNodes, NEW child \in 0..MaxNodes, NEW run, run = EditOf(n, child)
    PROVE  /\ run \in RunSet /\ run.stage = "asking" /\ run.kind = "single"
           /\ run.origin = n /\ run.root = child
<1>1. "single" \in Kinds /\ "asking" \in Stages
  BY DEF Kinds, Stages
<1> QED
  BY <1>1, NoRunType DEF EditOf, RunSet

LEMMA EditImageKeeps ==
    ASSUME CanvasInv, NEW r \in Runs, NEW n \in Live(nodes), EditImage(r, n) PROVE CanvasInv'
<1>1. PICK result : result = Node("image", 0, FALSE, [NewGen EXCEPT !.status = "loading"])
  OBVIOUS
<1>2. /\ runs[r].stage = "none" /\ nodes[n].type # "group"
      /\ made < MaxNodes /\ made' = made + 1 /\ nodes' = [nodes EXCEPT ![made'] = result]
      /\ conns' = conns \cup {<<n, made'>>} /\ GraphKeeps
      /\ runs' = [runs EXCEPT ![r] = EditOf(n, made')]
      /\ requests' = [requests EXCEPT ![made'] = r] /\ running' = made' /\ UNCHANGED confirm
  BY <1>1 DEF EditImage, IsNext, Insert, EditOf
<1>3. /\ n \in 1..made /\ n \in 0..MaxNodes /\ n \in (1..made) \ GroupIds
      /\ nodes \in [Ids -> NodeSet] /\ runs \in [Runs -> RunSet]
  BY <1>2, LiveNode, NodesTyped DEF Ids, CanvasInv, GenTypeOK
<1>4. Welcome(nodes, result) /\ result.type \notin {"group", "config"}
  <2>1. PICK gen \in Gens : gen = [NewGen EXCEPT !.status = "loading"]
    BY NewGenType, GenFields, InMarks, GenerationAssumption
  <2> QED
    BY <1>1, <2>1, NewNode DEF Types, Media, Node
<1>6. /\ Kept /\ made' \in Ids /\ made' \notin 1..made /\ made' \in (1..made') \ GroupIds'
  BY <1>2, <1>3, <1>4, RewrittenStill, ResultChild
<1>7. PICK child \in Ids : child = made'
  BY <1>6
<1>8. PICK run : run = EditOf(n, child)
  OBVIOUS
<1>9. /\ run \in RunSet /\ run.stage = "asking" /\ run.kind = "single"
      /\ run.origin = n /\ run.root = child
  BY <1>3, <1>8, EditOfType DEF Ids
<1>10. runs' \in [Runs -> RunSet] /\ runs'[r] = run /\ \A q \in Runs \ {r} : runs'[q] = runs[q]
  BY <1>2, <1>3, <1>7, <1>8, <1>9
<1>11. requests[child] \notin Runs
  BY <1>6, <1>7, EntryMade, Sizes
<1>12. TakesOver(r, child)
  BY <1>9, <1>10, <1>2, <1>7, <1>11 DEF Registers, TakesOver
<1>13. {runs'[r].origin, runs'[r].root} \subseteq (1..made') \ GroupIds'
  BY <1>3, <1>6, <1>7, <1>9, <1>10 DEF Kept, OldSorts, CanvasInv, GraphInv
<1> QED
  BY <1>6, <1>12, <1>13, TakeOverKeeps

-----------------------------------------------------------------------------
(* The dialog that stops what shows at a node.                              *)
LEMMA DialogKeeps ==
    ASSUME CanvasInv, AskStop \/ DismissStop PROVE CanvasInv'
<1>1. /\ UNCHANGED <<runs, requests, running>> /\ UNCHANGED graphVars
      /\ confirm' = running \/ confirm' = 0
  BY DEF AskStop, DismissStop
<1>2. Kept
  BY <1>1, StillStep
<1>5. StagesFit'
  BY <1>1 DEF CanvasInv, StagesFit, Registers
<1>6. RegistryExact'
  BY <1>1 DEF CanvasInv, RegistryExact, RequestsOwned, LiveRunRegistered, StopWorks,
              InFlight, Registers, Aborted, Shows
<1> QED
  BY <1>2, <1>1, StillPlaced, <1>5, <1>6 DEF CanvasInv, Kept, GenTypeOK

LEMMA CutType ==
    ASSUME NEW gen \in GenSet, NEW status \in Marks PROVE GenCut(gen, status) \in GenSet
<1>1. PICK items : items = [i \in Items |-> IF gen.items[i] = "loading" THEN "error"
                                            ELSE gen.items[i]]
  OBVIOUS
<1>2. items \in [Items -> Marks \cup {"none"}]
  BY <1>1, GenFields, InMarks
<1>3. GenCut(gen, status) = IF gen.status # "loading" THEN gen
                            ELSE [gen EXCEPT !.status = status, !.items = items]
  BY <1>1 DEF GenCut
<1> QED
  BY <1>2, <1>3 DEF GenSet

LEMMA ConfirmStopKeeps == ASSUME CanvasInv, ConfirmStop PROVE CanvasInv'
<1> DEFINE targets  == {t \in Ids : requests[t] # 0 /\ Shows(requests[t]) = confirm}
           stopped  == {requests[t] : t \in targets}
           affected == targets \cup {runs[r].origin : r \in stopped}
<1>1. /\ confirm # 0 /\ confirm' = 0
      /\ runs' = [r \in Runs |-> IF r \in stopped /\ ~ Aborted(r)
                                 THEN [runs[r] EXCEPT !.halt = "stopped"] ELSE runs[r]]
      /\ requests' = [t \in Ids |-> IF t \in targets THEN 0 ELSE requests[t]]
      /\ running' = IF running = confirm THEN 0 ELSE running
      /\ nodes' = [n \in Ids |-> IF n \in affected
                                 THEN [nodes[n] EXCEPT !.gen = GenCut(@, "idle")] ELSE nodes[n]]
      /\ UNCHANGED <<conns, made>> /\ GraphKeeps
  BY DEF ConfirmStop
<1>2. /\ nodes \in [Ids -> NodeSet] /\ runs \in [Runs -> RunSet]
      /\ requests \in [Ids -> {0} \cup Runs] /\ running \in 0..MaxNodes
  BY NodesTyped DEF CanvasInv, GenTypeOK
<1>3. \A r \in stopped : \E t \in targets : r = requests[t]
  OBVIOUS
<1>4. Kept
  <2> HIDE DEF affected
  <2>1. ASSUME NEW n \in Ids
        PROVE  /\ nodes'[n] \in NodeSet /\ nodes'[n].type = nodes[n].type
               /\ nodes'[n].group = nodes[n].group
    <3>1. PICK gen \in GenSet : gen = GenCut(nodes[n].gen, "idle")
      BY <1>2, GenOfNode, CutType, InMarks
    <3>2. PICK filled \in BOOLEAN : filled = nodes[n].filled
      BY <1>2, GenOfNode
    <3>3. nodes'[n] = nodes[n] \/ nodes'[n] = Taking(nodes[n], filled, gen)
      BY <1>1, <1>2, <3>1, <3>2 DEF Taking, NodeSet
    <3> QED
      BY <1>2, <3>3, NodeTakes
  <2> QED
    BY <1>1, <2>1, RewriteStep DEF Rewritten
<1> HIDE DEF affected
<1>5. ASSUME NEW r \in Runs
      PROVE  /\ runs'[r] \in RunSet /\ runs'[r].stage = runs[r].stage
             /\ runs'[r].root = runs[r].root /\ runs'[r].origin = runs[r].origin
             /\ runs'[r].kind = runs[r].kind
             /\ ~ Aborted(r)' => ~ Aborted(r) /\ r \notin stopped
  <2> HIDE DEF stopped
  <2>2. CASE r \in stopped /\ ~ Aborted(r)
    <3>1. runs[r] \in RunSet /\ runs'[r] = [runs[r] EXCEPT !.halt = "stopped"]
      BY <1>1, <1>2, <2>2
    <3> QED
      BY <2>2, <3>1 DEF RunSet, Aborted
  <2>3. CASE ~ (r \in stopped /\ ~ Aborted(r))
    BY <1>1, <2>3, <1>2 DEF Aborted
  <2> QED
    BY <2>2, <2>3
<1>6. \A r \in Runs : /\ InFlight(r)' <=> InFlight(r)
                      /\ (Registers(r)' <=> Registers(r))
                      /\ Shows(r)' = Shows(r)
  BY <1>5 DEF InFlight, Registers, Shows
<1>7. \A t \in Ids : requests'[t] = IF t \in targets THEN 0 ELSE requests[t]
  BY <1>1
<1>8. requests' \in [Ids -> {0} \cup Runs]
  <2> HIDE DEF targets
  <2> QED
    BY <1>1, <1>2
<1>9. GenTypeOK'
  <2>1. runs' \in [Runs -> RunSet]
    <3> HIDE DEF stopped
    <3> QED
      BY <1>1, <1>5
  <2> QED
    BY <1>1, <1>2, <1>8, <2>1 DEF GenTypeOK
<1>10. RunsPlaced'
  BY <1>4, <1>5, StillPlaced
<1>11. StagesFit'
  BY <1>5, <1>6 DEF CanvasInv, StagesFit
<1>12. RequestsOwned'
  <2> HIDE DEF targets
  <2> SUFFICES ASSUME NEW k \in Ids, NEW q \in Runs, requests'[k] = q PROVE OwnsEntry(q, k)'
    BY <1>8 DEF RequestsOwned, OwnsEntry
  <2> QED
    BY <1>5, <1>6, <1>7, Sizes, EntriesOwned DEF OwnsEntry
<1>13. LiveRunRegistered'
  <2> SUFFICES ASSUME NEW q \in Runs, InFlight(q)', ~ Aborted(q)'
               PROVE  /\ requests'[runs'[q].root] = q
                      /\ ~ Registers(q)' => requests'[runs'[q].origin] = q
    BY DEF LiveRunRegistered
  <2>1. InFlight(q) /\ ~ Aborted(q) /\ q \notin stopped
    BY <1>5, <1>6
  <2>5. \A t \in Ids : requests[t] = q => t \notin targets
    BY <2>1
  <2> HIDE DEF targets, stopped
  <2> QED
    BY <1>5, <1>6, <1>7, <2>1, RunNode, <2>5 DEF CanvasInv, RegistryExact, LiveRunRegistered,
       InFlight
<1>14. StopWorks'
  <2> SUFFICES ASSUME running' # 0, NEW k \in Ids, requests[k] # 0, Shows(requests[k]) = running,
                      NEW q \in Runs, q = requests[k]
               PROVE  \E t \in Ids, p \in Runs :
                          requests'[t] # 0 /\ requests'[t] = p /\ Shows(p)' = running'
    BY <1>1, <1>2 DEF CanvasInv, RegistryExact, StopWorks
  <2>1. running # confirm /\ running' = running
    BY <1>1
  <2>2. k \notin targets
    BY <2>1
  <2> HIDE DEF targets
  <2> QED
    BY <1>6, <1>7, <2>1, <2>2
<1> QED
  BY <1>4, <1>9, <1>10, <1>11, <1>12, <1>13, <1>14 DEF CanvasInv, RegistryExact, Kept

-----------------------------------------------------------------------------
(* Editing around the runs.                                                 *)
LEMMA BatchStep ==
    ASSUME CanvasInv, Edit, Rewritten(nodes, nodes'), UNCHANGED <<conns, made>>, Keep
    PROVE  Kept
BY EditCounts, RewrittenReshapes, ReshapedEdit DEF Keep, CanvasInv

LEMMA DeleteItemRewrites ==
    ASSUME nodes \in [Ids -> NodeSet], NEW n \in Ids, NEW i \in Items,
           nodes[n].type = "image", DeleteBatchImage(n, i)
    PROVE  Rewritten(nodes, nodes')
<1> DEFINE old   == nodes[n].gen
           rest  == {j \in Items \ {i} : HasItem(n, j)}
           next  == IF rest = {} THEN 0 ELSE CHOOSE j \in rest : \A k \in rest : j <= k
           new   == IF old.primary = i THEN next ELSE old.primary
           items == [old.items EXCEPT ![i] = "none"]
<1>1. nodes' = [nodes EXCEPT ![n].gen.items[i] = "none",
                             ![n].gen.primary = IF @ = i THEN next ELSE @]
  BY DEF DeleteBatchImage
<1>2. next \in {0} \cup Items
  <2>1. rest # {} => next \in rest
    <3>1. rest \subseteq Nat
      BY Sizes
    <3> HIDE DEF rest
    <3> QED
      BY <3>1, LeastOf
  <2> QED
    BY <2>1
<1> HIDE DEF next
<1>3. old \in GenSet /\ old.items \in [Items -> Marks \cup {"none"}]
  BY GenOfNode, GenFields
<1>4. new \in {0, Other} \cup Items /\ items \in [Items -> Marks \cup {"none"}]
  BY <1>2, <1>3, GenFields
<1>5. PICK gen \in GenSet : gen = [old EXCEPT !.items = items, !.primary = new]
  BY <1>3, <1>4 DEF GenSet
<1>6. PICK filled \in BOOLEAN : filled = nodes[n].filled
  BY GenOfNode
<1>7. nodes' = [nodes EXCEPT ![n] = Taking(nodes[n], filled, gen)]
  <2>1. PICK mid : mid = [nodes[n] EXCEPT !.gen.items[i] = "none"]
    OBVIOUS
  <2>2. mid = [nodes[n] EXCEPT !.gen = [old EXCEPT !.items = items]] /\ nodes[n] \in NodeSet
    BY <1>3, <2>1 DEF NodeSet
  <2>3. mid.gen = [old EXCEPT !.items = items] /\ mid.gen.primary = old.primary
    BY <1>3, <2>2 DEF NodeSet, GenSet
  <2>4. nodes' = [nodes EXCEPT ![n] = [mid EXCEPT !.gen.primary = new]]
    <3>1. PICK most : most = [nodes EXCEPT ![n].gen.items[i] = "none"]
      OBVIOUS
    <3>2. most = [nodes EXCEPT ![n] = mid] /\ most[n] = mid
      BY <2>1, <3>1
    <3>3. nodes' = [most EXCEPT ![n].gen.primary = IF @ = i THEN next ELSE @]
      BY <1>1, <3>1
    <3> QED
      BY <3>2, <2>3, <3>3
  <2>6. [mid EXCEPT !.gen = gen] = Taking(nodes[n], filled, gen)
    BY <1>6, <2>2 DEF Taking, NodeSet
  <2> QED
    BY <2>4, <1>3, <1>5, <2>3, <2>6 DEF GenSet
<1> QED
  BY <1>7, OneTakes

LEMMA BatchKeeps == ASSUME CanvasInv, Batch PROVE CanvasInv'
<1>1. PICK n \in Live(nodes), i \in Items :
          SetBatchPrimary(n, i) \/ DeleteBatchImage(n, i) \/ DuplicateBatchImage(n, i)
  BY DEF Batch
<1>2. n \in Ids /\ nodes \in [Ids -> NodeSet]
  BY NodesTyped DEF Live
<1>3. CASE SetBatchPrimary(n, i)
  BY <1>3, <1>2, ShowItemRewrites, BatchStep, RunsStill, Zenon DEF SetBatchPrimary, ShowItem,
     Batch, genVars
<1>4. CASE DeleteBatchImage(n, i)
  BY <1>2, <1>4, DeleteItemRewrites, BatchStep, RunsStill, Zenon DEF DeleteBatchImage, Batch,
     genVars
<1>5. CASE DuplicateBatchImage(n, i)
  BY <1>5, ExtractKeeps, RunsStill DEF DuplicateBatchImage, CanvasInv, Batch, genVars
<1> QED
  BY <1>1, <1>3, <1>4, <1>5

(* A page that is loaded again has no runs, and none is registered.         *)
LEMMA RunsReload == ASSUME CanvasInv, Reload PROVE CanvasInv'
<1>1. Kept
  BY ReloadKeeps DEF Reload, CanvasInv
<1>2. /\ requests' = [n \in Ids |-> 0] /\ running' = 0 /\ confirm' = 0
      /\ runs' = [r \in Runs |-> IF runs[r].stage = "none" THEN runs[r]
                                 ELSE [runs[r] EXCEPT !.stage = "over"]]
  BY DEF Reload
<1>3. ASSUME NEW r \in Runs
      PROVE  /\ runs'[r] \in RunSet /\ SameTask(runs[r], runs'[r])
             /\ runs'[r].stage \in {"none", "over"}
             /\ runs'[r].stage # "none" => runs[r].stage # "none"
  <2>1. runs[r] \in RunSet /\ "over" \in Stages
    BY DEF CanvasInv, GenTypeOK, Stages
  <2>2. CASE runs[r].stage = "none"
    BY <1>2, <2>1, <2>2 DEF SameTask
  <2>3. CASE runs[r].stage # "none"
    <3>1. PICK run \in RunSet : /\ run = [runs[r] EXCEPT !.stage = "over"]
                                /\ SameTask(runs[r], run) /\ run.stage = "over"
      BY <2>1, StageSet
    <3> QED
      BY <1>2, <2>3, <3>1
  <2> QED
    BY <2>2, <2>3
<1>6. StagesFit'
  BY <1>3 DEF StagesFit
<1>7. RegistryExact'
  BY <1>3, <1>2 DEF InFlight, RegistryExact, RequestsOwned, LiveRunRegistered, StopWorks
<1> QED
  BY <1>1, <1>2, <1>3, StillPlaced, <1>6, <1>7 DEF CanvasInv, Kept, GenTypeOK, SameTask

LEMMA EditsKeep == ASSUME CanvasInv, Edits PROVE CanvasInv'
<1>1. CASE EditDocument
  BY <1>1, EditKeeps, RunsStill DEF EditDocument, CanvasInv, genVars
<1>2. CASE Batch
  BY <1>2, BatchKeeps
<1>3. CASE Clear
  BY <1>3, ClearCanvasKeeps, RunsStill DEF Clear, CanvasInv
<1>4. CASE Reload
  BY <1>4, RunsReload
<1>5. ASSUME NEW S, DeleteSelected(S) PROVE CanvasInv'
  BY <1>5, DeleteNodesKeeps, RunsStill DEF DeleteSelected, CanvasInv
<1> QED
  BY <1>1, <1>2, <1>3, <1>4, <1>5 DEF Edits

LEMMA CanvasStart == Init => CanvasInv
<1> SUFFICES ASSUME Init PROVE CanvasInv
  OBVIOUS
<1>2. /\ runs = [r \in Runs |-> NoRun] /\ requests = [n \in Ids |-> 0]
      /\ running = 0 /\ confirm = 0
  BY DEF Init
<1>3. \A r \in Runs : runs[r] = NoRun /\ runs[r].stage = "none"
  BY <1>2, NoRunType
<1>5. RunsPlaced /\ StagesFit
  BY <1>3 DEF RunsPlaced, StagesFit
<1>6. RegistryExact
  BY <1>3, <1>2 DEF InFlight, RegistryExact, RequestsOwned, LiveRunRegistered, StopWorks
<1> QED
  BY GraphStart, <1>2, NoRunType, <1>5, <1>6 DEF CanvasInv, Init, GenTypeOK

LEMMA CanvasStep == CanvasInv /\ [Next]_vars => CanvasInv'
<1> SUFFICES ASSUME CanvasInv, [Next]_vars PROVE CanvasInv'
  OBVIOUS
<1>1. CASE Begin
  BY <1>1, GenerateKeeps, RetryKeeps, EditImageKeeps DEF Begin
<1>2. CASE Stop
  BY <1>2, DialogKeeps, ConfirmStopKeeps DEF Stop
<1>3. CASE Edits
  BY <1>3, EditsKeep
<1>4. ASSUME NEW r \in Runs, Answer(r) PROVE CanvasInv'
  BY <1>4, HydrationFailsKeeps, StartKeeps, ItemKeeps, TextStreamsKeeps, MediaAnsweredKeeps,
     MediaStoredKeeps, MediaFailsKeeps, RetryRefusedKeeps, RetryStartsKeeps, RetryStreamsKeeps,
     RetrySucceedsKeeps, RetryFailsKeeps, ImageEditedKeeps DEF Answer
<1>5. ASSUME NEW r \in Runs, GiveUp(r) PROVE CanvasInv'
  BY <1>5, HydratedToNothingKeeps, CanceledKeeps, ItemKeeps DEF GiveUp
<1>6. CASE UNCHANGED vars
  BY <1>6, StillStep, RunsStill DEF vars, genVars
<1> QED
  BY <1>1, <1>2, <1>3, <1>4, <1>5, <1>6 DEF Next

(* Every variable of the canvas and of its runs keeps its type.             *)
THEOREM CanvasTypes == Spec => []TypeOK
BY GraphInvSound, CanvasStart, CanvasStep, PTL DEF Spec, CanvasInv, TypeOK

(* Generations write into the document from whatever they captured when      *)
(* they began, while it is edited, cleared, undone or loaded again: groups  *)
(* and connections stay as sound as the editor alone keeps them.            *)
THEOREM GenerationsKeepDocument == Spec => []DocumentSound
BY GraphInvSound, CanvasStart, CanvasStep, PTL DEF Spec, CanvasInv

(* An entry of generationRequestsRef belongs to a run that still works on    *)
(* that node, a run that was not aborted is registered under its target and *)
(* can be stopped, and where "stop" shows there is something to stop.       *)
THEOREM RequestsRegistered == Spec => []RegistryExact
BY CanvasStart, CanvasStep, PTL DEF Spec, CanvasInv
-----------------------------------------------------------------------------
(* The document without what generations know of its nodes.                 *)
Bare(node) == [node EXCEPT !.gen = 0]

LEMMA BareFields ==
    ASSUME NEW node \in NodeSet
    PROVE  /\ Bare(node) = Node(node.type, node.group, node.filled, 0)
           /\ Bare(node).type = node.type /\ Bare(node).group = node.group
           /\ Bare(node).filled = node.filled
BY DEF Bare, Node, NodeSet

LEMMA PlainFields ==
    ASSUME NEW ns \in [Ids -> NodeSet]
    PROVE  /\ DOMAIN Plain(ns) = Ids /\ Live(Plain(ns)) = Live(ns) /\ Groups(Plain(ns)) = Groups(ns)
           /\ \A n \in Ids : /\ Plain(ns)[n] = Bare(ns[n])
                             /\ Plain(ns)[n].type = ns[n].type
                             /\ Plain(ns)[n].group = ns[n].group
                             /\ Plain(ns)[n].filled = ns[n].filled
<1>1. DOMAIN Plain(ns) = Ids /\ \A n \in Ids : Plain(ns)[n] = Bare(ns[n])
  BY DEF Plain, Bare
<1>2. ASSUME NEW n \in Ids
      PROVE  /\ Plain(ns)[n].type = ns[n].type /\ Plain(ns)[n].group = ns[n].group
             /\ Plain(ns)[n].filled = ns[n].filled
  BY <1>1, BareFields
<1> QED
  BY <1>1, <1>2 DEF Live, Groups

LEMMA PlainEqual ==
    ASSUME NEW ns \in [Ids -> NodeSet], NEW new \in [Ids -> NodeSet],
           \A n \in Ids : /\ new[n].type = ns[n].type /\ new[n].group = ns[n].group
                          /\ new[n].filled = ns[n].filled
    PROVE  Plain(new) = Plain(ns)
<1>1. ASSUME NEW n \in Ids PROVE Bare(new[n]) = Bare(ns[n])
  BY BareFields
<1> QED
  BY <1>1 DEF Plain, Bare

LEMMA PlainPut ==
    ASSUME NEW ns \in [Ids -> NodeSet], NEW n \in Ids, NEW node \in NodeSet,
           NEW new, new = [ns EXCEPT ![n] = node]
    PROVE  Plain(new) = [Plain(ns) EXCEPT ![n] = Bare(node)]
BY DEF Plain, Bare

LEMMA SameSets ==
    /\ G!Ids = Ids /\ G!Types = Types /\ G!Media = Media /\ G!CreateTypes = CreateTypes
    /\ G!Jobs = Jobs
    /\ \A ns : G!Live(ns) = Live(ns) /\ G!Groups(ns) = Groups(ns)
    /\ \A t, g, f, x : G!Node(t, g, f, x) = Node(t, g, f, x)
BY DEF G!Ids, Ids, G!Types, Types, G!Media, Media, G!CreateTypes, CreateTypes, G!Jobs, Jobs,
       G!Live, Live, G!Groups, Groups, G!Node, Node

LEMMA BareNode ==
    ASSUME NEW t \in Types \cup {"none"}, NEW g \in 0..MaxNodes, NEW f \in BOOLEAN, NEW gen \in Gens
    PROVE  Bare(Node(t, g, f, gen)) = Node(t, g, f, 0)
<1>1. PICK node \in NodeSet : /\ node = Node(t, g, f, gen) /\ node.type = t /\ node.group = g
                              /\ node.filled = f
  <2>2. /\ Node(t, g, f, gen).type = t /\ Node(t, g, f, gen).group = g
        /\ Node(t, g, f, gen).filled = f
    BY DEF Node
  <2> QED
    BY <2>2 DEF Node, NodeSet
<1> QED
  BY <1>1, BareFields

LEMMA SameNodes ==
    /\ G!Blank = Bare(Blank)
    /\ \A t \in Media \cup {"text"} : G!Filled(t) = Bare(Filled(t))
    /\ \A t \in Types : Node(t, 0, FALSE, 0) = Bare(Node(t, 0, FALSE, FreshGen))
<1>1. Media \cup {"text"} \subseteq Types /\ 0 \in 0..MaxNodes
  BY DEF Types, Media
<1>3. ASSUME NEW t \in Media \cup {"text"} PROVE G!Filled(t) = Bare(Filled(t))
  BY <1>1, BareNode, SameSets DEF G!Filled, Filled, PlainSettled
<1>4. ASSUME NEW t \in Types PROVE Node(t, 0, FALSE, 0) = Bare(Node(t, 0, FALSE, FreshGen))
  BY <1>1, BareNode
<1> QED
  BY <1>1, BareNode, SameSets, <1>3, <1>4 DEF G!Blank, Blank

(* Each step of the editor is the same step of the plain editor.            *)
LEMMA KeepMaps == Keep => G!Keep
BY DEF Keep, G!Keep

LEMMA EditMaps == Edit => G!Edit
BY DEF Edit, G!Edit

LEMMA InsertMaps ==
    ASSUME GraphInv, NEW node \in NodeSet, Insert(node)
    PROVE  G!Insert(Bare(node))
<1>1. /\ made < MaxNodes /\ made' = made + 1 /\ nodes' = [nodes EXCEPT ![made + 1] = node]
      /\ nodes \in [Ids -> NodeSet] /\ made + 1 \in Ids
  BY DEF Insert, GraphInv, SoundDocument, Ids
<1> QED
  BY <1>1, PlainPut DEF G!Insert

LEMMA CreateNodeMaps ==
    ASSUME GraphInv, NEW type \in Types, NEW filled \in BOOLEAN, CreateNode(type, filled)
    PROVE  G!CreateNode(type, filled)
<1>1. /\ Edit /\ (filled => type \in {"text", "video"}) /\ UNCHANGED conns /\ Keep
      /\ Insert(IF filled THEN Filled(type) ELSE Node(type, 0, FALSE, FreshGen))
  BY DEF CreateNode
<1>2. CASE filled
  BY <1>1, <1>2, FilledNode, InsertMaps, SameNodes, KeepMaps, EditMaps DEF Media, Welcome,
     G!CreateNode
<1>3. CASE ~ filled
  BY NewNode, <1>1, <1>3, InsertMaps, SameNodes, SameSets, KeepMaps, EditMaps DEF G!CreateNode
<1> QED
  BY <1>2, <1>3

LEMMA TypedNodes ==
    ASSUME GraphInv
    PROVE  /\ nodes \in [Ids -> NodeSet] /\ entry.nodes \in [Ids -> NodeSet]
           /\ clipboard.nodes \in [Ids -> NodeSet]
BY DEF GraphInv, SoundDocument, SoundClipboard, Graph

(* What may be joined, and how, does not depend on generations.             *)
LEMMA JoinMaps ==
    ASSUME NEW ns \in [Ids -> NodeSet], NEW a \in Ids, NEW b \in Ids
    PROVE  /\ CanJoin(ns, a, b) => G!CanJoin(Plain(ns), a, b)
           /\ \A h : G!Joined(Plain(ns), a, b, h) = Joined(ns, a, b, h)
           /\ \A t : G!Handles(t) = Handles(t)
<1>3. \A t : G!Handles(t) = Handles(t)
  BY DEF Handles, G!Handles
<1> QED
  BY PlainFields, SameSets, <1>3 DEF CanJoin, G!CanJoin, Joined, G!Joined

LEMMA ReferenceMaps ==
    ASSUME NEW ns \in [Ids -> NodeSet], NEW n \in Ids, Reference(ns, n)
    PROVE  G!Reference(Plain(ns), n)
BY PlainFields, SameSets DEF Reference, G!Reference, Resource, G!Resource

LEMMA WithoutMaps ==
    ASSUME NEW ns \in [Ids -> NodeSet], NEW dead
    PROVE  Plain(Without(ns, dead)) = G!Without(Plain(ns), dead)
<1>1. ASSUME NEW n \in Ids
      PROVE  Bare(Without(ns, dead)[n]) = G!Without(Plain(ns), dead)[n]
  <2>1. CASE n \in dead
    BY <2>1, SameNodes, SameSets DEF Without, G!Without
  <2>2. CASE n \notin dead /\ ns[n].group \in dead
    <3>3. Bare([ns[n] EXCEPT !.group = 0]) = [Bare(ns[n]) EXCEPT !.group = 0]
      BY DEF Bare, NodeSet
    <3> QED
      BY <2>2, PlainFields, SameSets, <3>3 DEF Without, G!Without
  <2>3. CASE n \notin dead /\ ns[n].group \notin dead
    BY <2>3, PlainFields, SameSets DEF Without, G!Without
  <2> QED
    BY <2>1, <2>2, <2>3
<1>3. G!Without(Plain(ns), dead) = [n \in Ids |-> G!Without(Plain(ns), dead)[n]]
  BY SameSets DEF G!Without
<1> QED
  BY <1>1, <1>3 DEF Plain, Bare

LEMMA ConnectNodesMaps ==
    ASSUME GraphInv, NEW a \in Live(nodes), NEW b \in Live(nodes), NEW h, ConnectNodes(a, b, h)
    PROVE  G!ConnectNodes(a, b, h)
<1>1. a \in Ids /\ b \in Ids /\ nodes \in [Ids -> NodeSet]
  BY TypedNodes DEF Live
<1>2. /\ Edit /\ picker = 0 /\ CanJoin(nodes, a, b) /\ h \in Handles(nodes[a].type)
      /\ Joined(nodes, a, b, h) \notin conns /\ conns' = conns \cup {Joined(nodes, a, b, h)}
      /\ UNCHANGED <<nodes, made>> /\ Keep
  BY DEF ConnectNodes
<1> QED
  BY <1>2, <1>1, JoinMaps, PlainFields, KeepMaps, EditMaps DEF G!ConnectNodes

LEMMA CreateConnectedMaps ==
    ASSUME GraphInv, NEW a \in Live(nodes), NEW type \in CreateTypes, NEW h,
           CreateConnected(a, type, h)
    PROVE  G!CreateConnected(a, type, h)
<1> DEFINE node == Node(type, 0, FALSE, FreshGen)
<1>1. /\ Edit /\ picker = 0 /\ h \in Handles(nodes[a].type) /\ Insert(node)
      /\ CanJoin(nodes', a, made + 1) /\ Keep
      /\ conns' = conns \cup {Joined(nodes', a, made + 1, h)}
  BY DEF CreateConnected
<1>2. type \in Types /\ a \in Ids /\ nodes \in [Ids -> NodeSet] /\ node \in NodeSet
  BY TypedNodes, NewNode DEF CreateTypes, Types, Media, Live
<1>3. G!Insert(G!Node(type, 0, FALSE, 0))
  BY <1>1, <1>2, InsertMaps, SameNodes, SameSets
<1>4. nodes' \in [Ids -> NodeSet] /\ made + 1 \in Ids
  <2> HIDE DEF node
  <2> QED
    BY <1>2, <1>1 DEF Insert, GraphInv, Ids
<1>5. /\ G!CanJoin(Plain(nodes'), a, made + 1)
      /\ G!Joined(Plain(nodes'), a, made + 1, h) = Joined(nodes', a, made + 1, h)
  BY <1>1, <1>2, <1>4, JoinMaps
<1>6. h \in G!Handles(Plain(nodes)[a].type) /\ a \in G!Live(Plain(nodes))
  BY <1>1, <1>2, JoinMaps, PlainFields, SameSets
<1> QED
  BY <1>1, <1>3, <1>5, <1>6, KeepMaps, EditMaps DEF G!CreateConnected

LEMMA DeleteNodesMaps ==
    ASSUME GraphInv, NEW dead, DeleteNodes(dead)
    PROVE  G!DeleteNodes(dead)
BY TypedNodes, WithoutMaps, PlainFields, SameSets, EditMaps DEF DeleteNodes, G!DeleteNodes

LEMMA DeleteConnectionMaps == ASSUME NEW e, DeleteConnection(e) PROVE G!DeleteConnection(e)
BY KeepMaps, EditMaps DEF DeleteConnection, G!DeleteConnection

LEMMA PickerMaps ==
    ASSUME GraphInv, NEW n \in Live(nodes)
    PROVE  /\ StartPicker(n) => G!StartPicker(n)
           /\ PickReference(n) => G!PickReference(n)
           /\ ExitPicker => G!ExitPicker
<1>1. /\ n \in Ids /\ nodes \in [Ids -> NodeSet] /\ n \in G!Live(Plain(nodes))
      /\ Plain(nodes)[n].type = nodes[n].type /\ Plain(nodes)[n].group = nodes[n].group
  BY TypedNodes, PlainFields, SameSets DEF Live
<1>4. ExitPicker => G!ExitPicker
  BY DEF ExitPicker, G!ExitPicker
<1> QED
  BY <1>1, EditMaps, KeepMaps, ReferenceMaps, <1>4 DEF StartPicker, G!StartPicker,
     PickReference, G!PickReference

LEMMA ClearCanvasMaps == ASSUME GraphInv, ClearCanvas PROVE G!ClearCanvas
<1>3. G!Empty.nodes = [n \in Ids |-> Bare(Blank)]
  BY SameNodes, SameSets DEF G!Empty
<1>4. Plain(nodes') = G!Empty.nodes
  BY <1>3 DEF ClearCanvas, Empty, Plain, Bare
<1> QED
  BY <1>4, KeepMaps, EditMaps DEF ClearCanvas, G!ClearCanvas

LEMMA DuplicateMaps ==
    ASSUME GraphInv, NEW n \in Live(nodes), DuplicateNode(n) PROVE G!DuplicateNode(n)
BY TypedNodes, PlainFields, SameSets, InsertMaps, KeepMaps, EditMaps DEF DuplicateNode,
   G!DuplicateNode, Live

LEMMA ExtractMaps ==
    ASSUME GraphInv, NEW n \in Ids, ExtractImage(n) PROVE G!ExtractImage(n)
<1>2. G!Insert(G!Filled("image"))
  BY FilledNode, InsertMaps, SameNodes DEF ExtractImage, Media, Welcome
<1> QED
  BY <1>2, TypedNodes, PlainFields, KeepMaps, EditMaps DEF ExtractImage, G!ExtractImage

LEMMA CopyMaps ==
    ASSUME GraphInv, NEW chosen, CopyNodes(chosen) PROVE G!CopyNodes(chosen)
<1> DEFINE copied == [n \in Ids |-> IF n \in chosen THEN nodes[n] ELSE Blank]
           plain  == [n \in Ids |-> IF n \in chosen THEN Plain(nodes)[n] ELSE Bare(Blank)]
<1>1. /\ chosen # {} /\ chosen \subseteq Live(nodes) /\ nodes \in [Ids -> NodeSet] /\ Edit
      /\ clipboard' = [nodes |-> copied, conns |-> conns \cap (chosen \X chosen)]
      /\ UNCHANGED <<nodes, conns, made, picker, entry, jobs>>
  BY TypedNodes DEF CopyNodes
<1>2. Plain(copied) = plain
  <2>1. ASSUME NEW n \in Ids PROVE Bare(copied[n]) = plain[n]
    BY <1>1, PlainFields
  <2> QED
    BY <2>1 DEF Plain, Bare
<1>5. plain = [n \in G!Ids |-> IF n \in chosen THEN Plain(nodes)[n] ELSE G!Blank]
  BY SameSets, SameNodes
<1> HIDE DEF plain, copied
<1> QED
  BY <1>1, <1>2, PlainFields, SameSets, <1>5, EditMaps DEF G!CopyNodes, PlainGraph

LEMMA WriteTextMaps ==
    ASSUME GraphInv, NEW n \in Live(nodes), NEW filled \in BOOLEAN, WriteText(n, filled)
    PROVE  G!WriteText(n, filled)
<1>1. /\ n \in Ids /\ nodes \in [Ids -> NodeSet] /\ nodes[n] \in NodeSet
      /\ Plain(nodes)[n] = Bare(nodes[n]) /\ Plain(nodes)[n].type = nodes[n].type
      /\ Plain(nodes)[n].filled = nodes[n].filled /\ DOMAIN Plain(nodes) = Ids
  BY TypedNodes, PlainFields DEF Live
<1>3. PICK node \in NodeSet : node = [nodes[n] EXCEPT !.filled = filled]
  BY <1>1 DEF NodeSet
<1>5. Plain(nodes') = [Plain(nodes) EXCEPT ![n] = Bare(node)]
  <2>1. nodes' = [nodes EXCEPT ![n] = node]
    BY <1>3 DEF WriteText
  <2>2. nodes \in [Ids -> NodeSet] /\ n \in Ids /\ node \in NodeSet
    BY <1>1
  <2> QED
    BY <2>1, <2>2, PlainPut
<1>6. Plain(nodes') = [Plain(nodes) EXCEPT ![n].filled = filled]
  BY <1>1, <1>3, <1>5 DEF Bare, NodeSet
<1> QED
  BY <1>1, <1>6, KeepMaps, EditMaps DEF WriteText, G!WriteText

\* (An entry that differs in generations only: to the plain editor, it puts
\* back what is there.)
LEMMA EntryMaps ==
    ASSUME GraphInv
    PROVE  /\ ApplyEntry => G!ApplyEntry
           /\ CommitEntry => G!CommitEntry \/ G!ApplyEntry
<1>1. ApplyEntry => G!ApplyEntry
  BY EditMaps DEF ApplyEntry, G!ApplyEntry, PlainGraph
<1>2. ASSUME CommitEntry PROVE G!CommitEntry \/ G!ApplyEntry
  <2>1. /\ PlainGraph(entry') = G!Document /\ Edit
        /\ UNCHANGED <<nodes, conns, made, picker, clipboard, jobs>>
    BY <1>2 DEF CommitEntry, PlainGraph, Document, G!Document
  <2>2. CASE PlainGraph(entry) = G!Document
    BY <2>2, <2>1, EditMaps DEF G!Document, G!ApplyEntry
  <2>3. CASE PlainGraph(entry) # G!Document
    BY <2>1, <2>3, EditMaps DEF G!CommitEntry
  <2> QED
    BY <2>2, <2>3
<1> QED
  BY <1>1, <1>2

LEMMA BareGroup ==
    ASSUME NEW node \in NodeSet, NEW g
    PROVE  Bare([node EXCEPT !.group = g]) = [Bare(node) EXCEPT !.group = g]
BY DEF Bare, NodeSet

LEMMA DropNodesMaps ==
    ASSUME GraphInv, NEW chosen, DropNodes(chosen) PROVE G!DropNodes(chosen)
<1>1. /\ nodes \in [Ids -> NodeSet] /\ G!Live(Plain(nodes)) = Live(nodes)
      /\ G!Groups(Plain(nodes)) = Groups(nodes)
      /\ \A n \in Ids : Plain(nodes)[n] = Bare(nodes[n]) /\ Plain(nodes)[n].group = nodes[n].group
  BY TypedNodes, PlainFields, SameSets
<1>2. G!DragSet(chosen) = DragSet(chosen)
  BY <1>1 DEF DragSet, G!DragSet, Live
<1>3. ASSUME NEW moved, NEW of PROVE Plain(Regroup(moved, of)) = G!Regroup(moved, of)
  <2>1. ASSUME NEW n \in Ids
        PROVE  Bare(Regroup(moved, of)[n])
                  = IF n \in moved \ Groups(nodes) THEN [Plain(nodes)[n] EXCEPT !.group = of[n]]
                    ELSE Plain(nodes)[n]
    <3>1. nodes[n] \in NodeSet
      BY <1>1
    <3>2. CASE n \in moved \ Groups(nodes)
      <4>1. Regroup(moved, of)[n] = [nodes[n] EXCEPT !.group = of[n]]
        BY <3>2 DEF Regroup
      <4>2. Bare(Regroup(moved, of)[n]) = [Bare(nodes[n]) EXCEPT !.group = of[n]]
        BY <3>1, <4>1, BareGroup
      <4> QED
        BY <1>1, <3>2, <4>2
    <3>3. CASE n \notin moved \ Groups(nodes)
      BY <1>1, <3>3 DEF Regroup
    <3> QED
      BY <3>2, <3>3
  <2>2. Plain(Regroup(moved, of)) = [n \in Ids |-> Bare(Regroup(moved, of)[n])]
    BY DEF Plain, Bare
  <2> QED
    BY <1>1, <2>1, <2>2, SameSets DEF G!Regroup
<1>4. /\ Edit /\ Keep /\ picker = 0 /\ chosen # {} /\ chosen \subseteq Live(nodes)
      /\ UNCHANGED <<conns, made>>
  BY DEF DropNodes
<1>5. CASE /\ DragSet(chosen) \cap Groups(nodes) = {}
           /\ \E target \in {0} \cup Groups(nodes) :
                 nodes' = Regroup(DragSet(chosen), [n \in Ids |-> target])
  <2>1. PICK target \in {0} \cup Groups(nodes) :
            nodes' = Regroup(DragSet(chosen), [n \in Ids |-> target])
    BY <1>5
  <2>2. Plain(nodes') = G!Regroup(G!DragSet(chosen), [n \in G!Ids |-> target])
    BY <1>2, <1>3, <2>1, SameSets
  <2> QED
    BY <1>1, <1>2, <1>4, <1>5, <2>2, KeepMaps, EditMaps DEF G!DropNodes
<1>6. CASE /\ DragSet(chosen) \cap Groups(nodes) # {}
           /\ \E of \in [DragSet(chosen) -> {0} \cup Groups(nodes)] :
                 nodes' = Regroup(DragSet(chosen),
                                  [n \in Ids |-> IF n \in DragSet(chosen) THEN of[n] ELSE 0])
  <2>1. PICK of \in [DragSet(chosen) -> {0} \cup Groups(nodes)] :
            nodes' = Regroup(DragSet(chosen),
                             [n \in Ids |-> IF n \in DragSet(chosen) THEN of[n] ELSE 0])
    BY <1>6
  <2>2. Plain(nodes') = G!Regroup(G!DragSet(chosen),
                                  [n \in G!Ids |-> IF n \in G!DragSet(chosen) THEN of[n] ELSE 0])
    BY <1>2, <1>3, <2>1, SameSets
  <2> QED
    BY <1>1, <1>2, <1>4, <1>6, <2>2, KeepMaps, EditMaps DEF G!DropNodes
<1> QED
  BY <1>5, <1>6 DEF DropNodes

LEMMA SameCounts == \A S : G!Cardinality(S) = Cardinality(S)
BY Zenon DEF G!Cardinality, Cardinality, G!IsFiniteSet, IsFiniteSet

LEMMA PasteMaps == ASSUME GraphInv, PasteCopied PROVE G!PasteCopied
<1> DEFINE clip == clipboard.nodes
           new       == {IdMap[n] : n \in Pasted}
           origin(m) == CHOOSE n \in Pasted : IdMap[n] = m
           group(n)  == IF clip[n].group \in Pasted THEN IdMap[clip[n].group] ELSE 0
<1>1. /\ Edit /\ Pasted # {} /\ made + Cardinality(Pasted) <= MaxNodes
      /\ made' = made + Cardinality(Pasted) /\ Keep
      /\ nodes' = [m \in Ids |-> IF m \in new
                                 THEN [clip[origin(m)] EXCEPT !.group = group(origin(m))]
                                 ELSE nodes[m]]
      /\ conns' = conns \cup {<<IdMap[e[1]], IdMap[e[2]]>> : e \in clipboard.conns}
  BY DEF PasteCopied, PasteNodes
<1>2. /\ nodes \in [Ids -> NodeSet] /\ clip \in [Ids -> NodeSet] /\ Pasted \subseteq Ids
      /\ Live(clip) = Pasted
  BY TypedNodes DEF Pasted, Live
<1>3. PlainGraph(clipboard).nodes = Plain(clip) /\ PlainGraph(clipboard).conns = clipboard.conns
  BY DEF PlainGraph
<1>4. G!Pasted = Pasted /\ G!IdMap = IdMap
  <2> DEFINE ranked(P) == [n \in P |-> made + Cardinality({m \in P : m <= n})]
  <2>2. IdMap = ranked(Pasted)
    BY DEF IdMap
  <2>3. G!IdMap = ranked(G!Pasted)
    BY SameCounts DEF G!IdMap
  <2> HIDE DEF ranked
  <2> QED
    BY <1>2, <1>3, PlainFields, SameSets, <2>2, <2>3 DEF G!Pasted
<1>5. /\ \A n \in Ids : Plain(clip)[n] = Bare(clip[n]) /\ Plain(clip)[n].group = clip[n].group
      /\ \A n \in Ids : Plain(nodes)[n] = Bare(nodes[n])
  BY <1>2, PlainFields
<1>6. ASSUME NEW m \in Ids
      PROVE  Bare(nodes'[m]) = IF m \in new
                               THEN [Plain(clip)[origin(m)] EXCEPT !.group = group(origin(m))]
                               ELSE Plain(nodes)[m]
  <2>1. CASE m \in new
    <3>2. PICK n \in Pasted : n = origin(m)
      BY <2>1
    <3>3. n \in Ids /\ clip[n] \in NodeSet
      BY <1>2, <3>2
    <3> HIDE DEF group, origin
    <3>5. Bare(nodes'[m]) = [Bare(clip[n]) EXCEPT !.group = group(n)]
      BY <3>3, <1>1, <2>1, <3>2, BareGroup
    <3> QED
      BY <1>5, <2>1, <3>2, <3>3, <3>5
  <2>2. CASE m \notin new
    BY <1>1, <1>5, <2>2
  <2> QED
    BY <2>1, <2>2
<1>7. Plain(nodes') = [m \in Ids |-> IF m \in new
                                     THEN [Plain(clip)[origin(m)] EXCEPT !.group = group(origin(m))]
                                     ELSE Plain(nodes)[m]]
  <2> HIDE DEF new, origin, group
  <2> QED
    BY <1>6 DEF Plain, Bare
<1>8. \A n \in Pasted : group(n) = IF Plain(clip)[n].group \in Pasted
                                   THEN IdMap[Plain(clip)[n].group] ELSE 0
  BY <1>2, <1>5, SMTT(30)
<1>9. G!PasteNodes(G!IdMap)
  <2>1. \A m \in new : origin(m) \in Pasted
    OBVIOUS
  <2>2. Plain(nodes') = [m \in Ids |->
            IF m \in new
            THEN [Plain(clip)[origin(m)] EXCEPT
                     !.group = IF Plain(clip)[origin(m)].group \in Pasted
                               THEN IdMap[Plain(clip)[origin(m)].group] ELSE 0]
            ELSE Plain(nodes)[m]]
    <3> HIDE DEF new, origin, group, clip
    <3> QED
      BY <1>7, <1>8, <2>1
  <2> QED
    BY <1>1, <1>3, <1>4, <2>2, SameSets DEF G!PasteNodes
<1> QED
  <2> HIDE DEF clip, new, origin, group
  <2>1. G!Pasted = Pasted
    BY <1>4
  <2> QED
    BY <1>9, <1>1, KeepMaps, EditMaps, <2>1, SameCounts DEF G!PasteCopied

LEMMA ReversePromptMaps ==
    ASSUME GraphInv, NEW n \in Live(nodes), ReversePrompt(n) PROVE G!ReversePrompt(n)
<1> DEFINE text   == Filled("text")
           config == Node("config", 0, FALSE, FreshGen)
           mid    == [nodes EXCEPT ![made + 1] = text]
<1>1. /\ Edit /\ Keep /\ nodes[n].type = "image" /\ nodes[n].filled
      /\ made + 2 <= MaxNodes /\ made' = made + 2
      /\ nodes' = [mid EXCEPT ![made + 2] = config]
      /\ conns' = conns \cup {<<n, made + 2>>, <<made + 1, made + 2>>}
  BY DEF ReversePrompt
<1>2. /\ nodes \in [Ids -> NodeSet] /\ n \in Ids /\ made + 1 \in Ids /\ made + 2 \in Ids
      /\ Plain(nodes)[n].type = nodes[n].type /\ Plain(nodes)[n].filled = nodes[n].filled
  <2>2. made + 1 \in Ids /\ made + 2 \in Ids
    BY <1>1 DEF GraphInv, Ids
  <2> QED
    BY TypedNodes, <2>2, PlainFields DEF Live
<1>3. /\ text \in NodeSet /\ config \in NodeSet
      /\ Bare(text) = G!Filled("text") /\ Bare(config) = G!Node("config", 0, FALSE, 0)
  BY NewNode, FilledNode, SameNodes, SameSets DEF Types, Welcome
<1> HIDE DEF text, config
<1>4. mid \in [Ids -> NodeSet] /\ Plain(mid) = [Plain(nodes) EXCEPT ![made + 1] = Bare(text)]
  <2>2. PICK m \in Ids : m = made + 1
    BY <1>2
  <2> QED
    BY <1>2, <1>3, <2>2 DEF Plain, Bare
<1> HIDE DEF mid
<1>5. Plain(nodes') = [Plain(mid) EXCEPT ![made + 2] = Bare(config)]
  <2>1. PICK m \in Ids : m = made + 2
    BY <1>2
  <2>3. Plain(nodes') = [Plain(mid) EXCEPT ![m] = Bare(config)]
    BY <1>4, <1>1, <2>1 DEF Plain, Bare
  <2> QED
    BY <2>1, <2>3
<1>6. Plain(nodes') = [Plain(nodes) EXCEPT ![made + 1] = G!Filled("text"),
                                           ![made + 2] = G!Node("config", 0, FALSE, 0)]
  BY <1>3, <1>4, <1>5
<1> QED
  BY <1>1, <1>2, <1>6, KeepMaps, EditMaps DEF G!ReversePrompt

LEMMA ImageFromTextMaps ==
    ASSUME GraphInv, NEW n \in Live(nodes), ImageFromText(n) PROVE G!ImageFromText(n)
<1> DEFINE config == Node("config", 0, FALSE, FreshGen)
<1>1. /\ Edit /\ Keep /\ nodes[n].type = "text" /\ made < MaxNodes /\ made' = made + 1
      /\ nodes' = [nodes EXCEPT ![n].filled = TRUE, ![n].gen = Settled(@, "text"),
                                ![made + 1] = config]
      /\ conns' = conns \cup {<<n, made + 1>>}
  BY DEF ImageFromText
<1>2. /\ nodes \in [Ids -> NodeSet] /\ n \in Ids /\ made + 1 \in Ids
      /\ Plain(nodes)[n].type = nodes[n].type
  <2>1. nodes \in [Ids -> NodeSet] /\ n \in Ids /\ made \in 0..MaxNodes
    BY TypedNodes DEF GraphInv, Live
  <2> QED
    BY <1>1, <2>1, PlainFields DEF Ids
<1>3. config \in NodeSet /\ Bare(config) = G!Node("config", 0, FALSE, 0)
  BY NewNode, SameNodes, SameSets DEF Types
<1>4. PICK gen \in Gens : gen = Settled(nodes[n].gen, "text")
  BY <1>2, NodeFields
<1>5. PICK node \in NodeSet : node = [nodes[n] EXCEPT !.filled = TRUE, !.gen = gen]
  BY <1>2 DEF NodeSet
<1>6. PICK mid : mid = [nodes EXCEPT ![n] = node]
  OBVIOUS
<1>7. mid \in [Ids -> NodeSet] /\ Plain(mid) = [Plain(nodes) EXCEPT ![n].filled = TRUE, ![n].gen = 0]
  <2>2. nodes \in [Ids -> NodeSet] /\ n \in Ids
    BY <1>2
  <2>3. Bare(node) = [Bare(nodes[n]) EXCEPT !.filled = TRUE, !.gen = 0]
    BY <2>2, <1>5 DEF Bare, NodeSet
  <2>4. Plain(mid) = [Plain(nodes) EXCEPT ![n] = Bare(node)]
    BY <1>6, <2>2 DEF Plain, Bare
  <2>5. Plain(nodes)[n] = Bare(nodes[n]) /\ DOMAIN Plain(nodes) = Ids
    BY <2>2, PlainFields
  <2> QED
    BY <1>2, <1>6, <2>3, <2>4, <2>5
<1>8. nodes' = [mid EXCEPT ![made + 1] = config]
  <2> HIDE DEF config
  <2> QED
    BY <1>1, <1>2, <1>4, <1>5, <1>6
<1> HIDE DEF config
<1>9. Plain(nodes') = [Plain(mid) EXCEPT ![made + 1] = Bare(config)]
  <2>1. PICK m \in Ids : m = made + 1
    BY <1>2
  <2> QED
    BY <2>1, <1>7, <1>8 DEF Plain, Bare
<1>10. Plain(nodes') = [Plain(nodes) EXCEPT ![n].filled = TRUE, ![n].gen = PlainSettled(@, "text"),
                                            ![made + 1] = G!Node("config", 0, FALSE, 0)]
  BY <1>3, <1>7, <1>9 DEF PlainSettled
<1> QED
  BY <1>1, <1>2, <1>10, KeepMaps, EditMaps DEF G!ImageFromText

\* Uploads and image edits.
LEMMA StartJobMaps == ASSUME GraphInv, NEW j \in Jobs, StartJob(j) PROVE G!StartJob(j)
<1>3. j.op = "replace" => nodes[j.node].type \in Media /\ j.node \in Live(nodes)
  BY DEF StartJob
<1>5. \/ /\ j.op = "child" /\ j.type = "image"
         /\ j.node \in G!Live(Plain(nodes)) /\ Plain(nodes)[j.node].filled
         /\ Plain(nodes)[j.node].type \in {"image", "video"}
      \/ /\ j.op = "pieces" /\ j.type = "image"
         /\ j.node \in G!Live(Plain(nodes)) /\ Plain(nodes)[j.node].filled
         /\ Plain(nodes)[j.node].type = "image"
      \/ j.op = "file" /\ j.node = 0
      \/ /\ j.op = "replace" /\ j.node \in G!Live(Plain(nodes))
         /\ Plain(nodes)[j.node].type \in G!Media
  BY TypedNodes, PlainFields, SameSets DEF Live, StartJob
<1> QED
  BY <1>5, EditMaps DEF G!StartJob, StartJob

LEMMA FailJobMaps == ASSUME NEW j, FailJob(j) PROVE G!FailJob(j)
BY DEF FailJob, G!FailJob

LEMMA PiecesMap == ASSUME GraphInv, NEW j, PiecesReady(j) PROVE G!PiecesReady(j)
<1>1. PICK k \in 1..MaxPieces :
          /\ made + k <= MaxNodes /\ made' = made + k
          /\ nodes' = [n \in Ids |-> IF n \in (made + 1)..(made + k)
                                     THEN Filled("image") ELSE nodes[n]]
          /\ conns' = conns \cup ({j.node} \X ((made + 1)..(made + k)))
  BY DEF PiecesReady
<1>3. \A n \in Ids : Plain(nodes)[n] = Bare(nodes[n])
  BY TypedNodes, PlainFields
<1>4. \A n \in Ids : Bare(nodes'[n]) = IF n \in (made + 1)..(made + k)
                                       THEN G!Filled("image") ELSE Plain(nodes)[n]
  BY <1>1, SameNodes, <1>3 DEF Media
<1>6. Plain(nodes') = [n \in G!Ids |-> IF n \in (made + 1)..(made + k)
                                       THEN G!Filled("image") ELSE Plain(nodes)[n]]
  BY <1>4, SameSets DEF Plain, Bare
<1> QED
  BY <1>1, <1>6 DEF G!PiecesReady, PiecesReady

LEMMA ReplacementMaps ==
    ASSUME GraphInv, NEW j \in Jobs, ReplacementReady(j) PROVE G!ReplacementReady(j)
<1>1. /\ j.op = "replace" /\ UNCHANGED <<conns, made>> /\ j.type \in Media
      /\ nodes \in [Ids -> NodeSet] /\ G!Live(Plain(nodes)) = Live(nodes)
  BY TypedNodes, PlainFields, SameSets DEF ReplacementReady, Jobs
<1>2. CASE j.node \notin Live(nodes)
  BY <1>1, <1>2 DEF ReplacementReady, G!ReplacementReady
<1>3. CASE j.node \in Live(nodes)
  <2>1. PICK n \in Ids : n = j.node
    BY <1>3 DEF Live
  <2>3. PICK gen \in Gens : gen = Settled(nodes[n].gen, j.type)
    BY <1>1, NodeFields
  <2>5. PICK node \in NodeSet :
            node = [nodes[n] EXCEPT !.type = j.type, !.filled = TRUE, !.gen = gen]
    BY <1>1 DEF NodeSet, Types
  <2>6. Bare(node) = [Bare(nodes[n]) EXCEPT !.type = j.type, !.filled = TRUE, !.gen = 0]
    BY <1>1, <2>5 DEF Bare, NodeSet
  <2>7. nodes' = [nodes EXCEPT ![n] = node]
    BY <1>1, <1>3, <2>1, <2>3, <2>5 DEF ReplacementReady
  <2>8. Plain(nodes') = [Plain(nodes) EXCEPT ![n] = Bare(node)]
    BY <1>1, <2>7, PlainPut
  <2>9. Plain(nodes)[n] = Bare(nodes[n]) /\ DOMAIN Plain(nodes) = Ids
    BY <1>1, PlainFields
  <2>10. Plain(nodes') = [Plain(nodes) EXCEPT ![n].type = j.type, ![n].filled = TRUE,
                                              ![n].gen = PlainSettled(@, j.type)]
    BY <2>6, <2>8, <2>9 DEF PlainSettled
  <2> QED
    BY <1>1, <1>3, <2>1, <2>10 DEF G!ReplacementReady
<1> QED
  BY <1>2, <1>3

LEMMA FinishJobMaps == ASSUME GraphInv, NEW j, FinishJob(j) PROVE G!FinishJob(j)
<1>1. /\ j \in jobs /\ j \in Jobs /\ jobs' = jobs \ {j}
      /\ UNCHANGED <<picker, clipboard, entry, edits>>
      /\ ChildReady(j) \/ PiecesReady(j) \/ FileReady(j) \/ ReplacementReady(j)
  BY DEF FinishJob, GraphInv
<1>2. \A type \in Media : Filled(type) \in NodeSet /\ Bare(Filled(type)) = G!Filled(type)
  BY FilledNode, SameNodes DEF Welcome
<1>3. ASSUME ChildReady(j) PROVE G!ChildReady(j)
  BY <1>2, <1>3, InsertMaps DEF Media, ChildReady, G!ChildReady
<1>4. ASSUME FileReady(j) PROVE G!FileReady(j)
  BY <1>1, <1>2, <1>4, InsertMaps DEF Jobs, FileReady, G!FileReady
<1> QED
  BY <1>1, <1>3, <1>4, PiecesMap, ReplacementMaps DEF G!FinishJob

LEMMA EmptyMaps == PlainGraph(Empty) = G!Empty
<1>3. G!Empty = [nodes |-> [n \in Ids |-> Bare(Blank)], conns |-> {}]
  BY SameNodes, SameSets DEF G!Empty
<1> QED
  BY <1>3 DEF PlainGraph, Empty, Plain, Bare

\* Reloading: what is interrupted is the generation.
LEMMA ReloadMaps == ASSUME GraphInv, ReloadPage PROVE G!ReloadPage
<1>1. /\ Edit /\ nodes' = Interrupt(nodes) /\ entry' = [nodes |-> nodes', conns |-> conns]
      /\ picker' = 0 /\ clipboard' = Empty /\ jobs' = {} /\ UNCHANGED <<conns, made>>
  BY DEF ReloadPage
<1>2. nodes \in [Ids -> NodeSet] /\ \A n \in Ids : Plain(nodes)[n] = Bare(nodes[n])
  BY TypedNodes, PlainFields
<1>3. ASSUME NEW n \in Ids
      PROVE  Bare(nodes'[n]) = [Plain(nodes)[n] EXCEPT !.gen = PlainInterrupted(@)]
  BY <1>1, <1>2 DEF Interrupt, Bare, NodeSet, PlainInterrupted
<1>4. Plain(nodes') = [n \in Ids |-> Bare(nodes'[n])]
  BY DEF Plain, Bare
<1>7. PlainGraph(clipboard') = G!Empty
  BY <1>1, EmptyMaps
<1> QED
  BY <1>1, <1>3, <1>4, SameSets, <1>7, EditMaps DEF G!ReloadPage, PlainGraph, G!Interrupt

LEMMA EditMapsAll == ASSUME GraphInv, EditNext PROVE G!EditNext
<1>0. /\ G!Live(Plain(nodes)) = Live(nodes) /\ G!Selections = Selections
      /\ Live(nodes) \subseteq Ids
  BY TypedNodes, PlainFields, SameSets DEF G!Selections, Selections, Live
<1>1. ASSUME NEW type \in Types, NEW filled \in BOOLEAN, CreateNode(type, filled)
      PROVE  G!EditNext
  BY <1>1, CreateNodeMaps, SameSets DEF G!EditNext
<1>2. ASSUME NEW a \in Live(nodes), NEW b \in Live(nodes), NEW h \in {"source", "target"},
             ConnectNodes(a, b, h)
      PROVE  G!EditNext
  BY <1>2, ConnectNodesMaps, <1>0 DEF G!EditNext
<1>3. ASSUME NEW a \in Live(nodes), NEW type \in CreateTypes, NEW h \in {"source", "target"},
             CreateConnected(a, type, h)
      PROVE  G!EditNext
  BY <1>3, CreateConnectedMaps, <1>0, SameSets DEF G!EditNext
<1>4. ASSUME NEW S \in Selections, CopyNodes(S) \/ DropNodes(S) PROVE G!EditNext
  BY <1>4, CopyMaps, DropNodesMaps, <1>0 DEF G!EditNext
<1>5. ASSUME NEW e \in conns, DeleteConnection(e) PROVE G!EditNext
  BY <1>5, DeleteConnectionMaps DEF G!EditNext
<1>6. ASSUME NEW n \in Live(nodes),
             \/ StartPicker(n) \/ PickReference(n) \/ DuplicateNode(n)
             \/ ReversePrompt(n) \/ ImageFromText(n)
      PROVE  G!EditNext
  BY <1>6, PickerMaps, DuplicateMaps, ReversePromptMaps, ImageFromTextMaps, <1>0 DEF G!EditNext
<1>7. ASSUME NEW n \in Live(nodes), NEW filled \in BOOLEAN, WriteText(n, filled) PROVE G!EditNext
  BY <1>7, WriteTextMaps, <1>0 DEF G!EditNext
<1>8. CASE ExitPicker
  BY <1>8 DEF ExitPicker, G!ExitPicker, G!EditNext
<1>9. CASE PasteCopied \/ CommitEntry \/ ApplyEntry
  BY <1>9, PasteMaps, EntryMaps DEF G!EditNext
<1>10. ASSUME NEW j \in Jobs, StartJob(j) PROVE G!EditNext
  BY <1>10, StartJobMaps, SameSets DEF G!EditNext
<1>11. ASSUME NEW j \in jobs, FinishJob(j) \/ FailJob(j) PROVE G!EditNext
  BY <1>11, FinishJobMaps, FailJobMaps DEF G!EditNext
<1> QED
  BY <1>1, <1>2, <1>3, <1>4, <1>5, <1>6, <1>7, <1>8, <1>9, <1>10, <1>11 DEF EditNext

(* What generations leave alone: the nodes outside S keep type, group and    *)
(* content.                                                                 *)
Touches(ns, new, S) ==
    \A m \in Ids \ S : /\ new[m].type = ns[m].type /\ new[m].group = ns[m].group
                       /\ new[m].filled = ns[m].filled

LEMMA TouchesAgain ==
    ASSUME NEW ns, NEW mid, NEW new, NEW S, Touches(ns, mid, S), Touches(mid, new, S)
    PROVE  Touches(ns, new, S)
BY DEF Touches

LEMMA TouchesStill == ASSUME NEW ns, NEW S PROVE Touches(ns, ns, S)
BY DEF Touches

LEMMA TouchesOne ==
    ASSUME NEW ns \in [Ids -> NodeSet], NEW S, NEW n \in S, NEW node, NEW new, 
           new = [ns EXCEPT ![n] = node]
    PROVE  Touches(ns, new, S)
BY DEF Touches

LEMMA MarkTouches ==
    ASSUME NEW ns \in [Ids -> NodeSet], NEW S, NEW n, NEW mark
    PROVE  Touches(ns, Marked(ns, n, mark), S)
BY DEF Touches, Marked, Live, NodeSet

LEMMA ItemMarkTouches ==
    ASSUME NEW ns \in [Ids -> NodeSet], NEW S, NEW r, NEW i, NEW mark
    PROVE  /\ Touches(ns, ItemMark(ns, r, i, mark), S)
           /\ Touches(ns, RetryItem(ns, r, mark), S)
<1>2. Touches(ns, RetryItem(ns, r, mark), S)
  BY DEF Touches, RetryItem, Live, NodeSet
<1> QED
  BY <1>2 DEF Touches, ItemMark, Owns, Live, NodeSet

LEMMA TextShownTouches ==
    ASSUME NEW ns \in [Ids -> NodeSet], NEW S, NEW r, NEW i,
           runs[r].root \in Live(ns) => runs[r].root \in S
    PROVE  Touches(ns, TextShown(ns, r, i), S)
BY DEF Touches, TextShown, ShowItem

LEMMA KeepTextsTouches ==
    ASSUME NEW ns \in [Ids -> NodeSet], NEW S, NEW r, NEW done,
           runs[r].root \in Live(ns) => runs[r].root \in S
    PROVE  Touches(ns, KeepTexts(ns, r, done), S)
<1> DEFINE n == runs[r].root
<1>1. CASE n \in Live(ns)
  BY <1>1 DEF KeepTexts, Touches
<1>2. CASE n \notin Live(ns)
  BY <1>2 DEF Touches, KeepTexts
<1> QED
  BY <1>1, <1>2

LEMMA ClosedTouches ==
    ASSUME NEW ns \in [Ids -> NodeSet], NEW S, NEW r \in Runs, NEW done \in SUBSET Items,
           runs[r].root \in Live(ns) => runs[r].root \in S
    PROVE  Touches(ns, Closed(ns, r, done), S)
<1> DEFINE run  == runs[r]
           mark == IF done # {} THEN "success" ELSE "error"
           kept == IF run.kind = "text" THEN KeepTexts(ns, r, done) ELSE ns
           root == Marked(kept, run.root, mark)
<1>1. CASE Aborted(r)
  BY <1>1, MarkTouches, TouchesStill DEF Closed
<1>2. CASE ~ Aborted(r)
  <2>1. mark \in Marks
    BY InMarks
  <2>2. Touches(ns, kept, S) /\ kept \in [Ids -> NodeSet]
    BY KeepTextsRewrites, KeepTextsTouches, TouchesStill DEF Rewritten
  <2> HIDE DEF kept, mark
  <2>3. Touches(kept, root, S) /\ root \in [Ids -> NodeSet]
    BY <2>1, <2>2, MarkTouches, MarkedRewrites DEF Rewritten
  <2> HIDE DEF root
  <2>5. Closed(ns, r, done) = IF run.config THEN Marked(root, run.origin, mark) ELSE root
    BY <1>2 DEF Closed, root, kept, mark
  <2> QED
    BY <2>2, <2>3, MarkTouches, TouchesAgain, <2>5
<1> QED
  BY <1>1, <1>2

LEMMA ImageWrittenTouches ==
    ASSUME nodes \in [Ids -> NodeSet], NEW S, NEW r \in Runs, NEW i \in Items,
           runs[r].root \in Live(nodes) => runs[r].root \in S
    PROVE  Touches(nodes, ImageWritten(r, i), S)
<1> DEFINE n     == runs[r].root
           after == ItemMark(nodes, r, i, "success")
           first == n \in Live(nodes) /\ nodes[n].gen.primary = 0
           shown == IF first THEN ShowItem(after, n, IdOf(r, i)) ELSE after
<1>1. Touches(nodes, after, S) /\ after \in [Ids -> NodeSet]
  BY ItemMarkTouches, ItemMarkRewrites, InMarks DEF Rewritten
<1>2. IdOf(r, i) \in {0, Other} \cup Items /\ (first => n \in Ids /\ n \in S)
  BY DEF IdOf, Live
<1> HIDE DEF after
<1>3. Touches(nodes, shown, S) /\ shown \in [Ids -> NodeSet]
  <2>1. CASE first
    <3>1. shown = ShowItem(after, n, IdOf(r, i))
      BY <2>1
    <3>2. Touches(after, shown, S)
      <4>1. PICK k \in S : k = n
        BY <1>2, <2>1, SMTT(30)
      <4>2. ASSUME NEW m \in Ids \ S PROVE shown[m] = after[m]
        BY <1>1, <3>1, <4>1 DEF ShowItem
      <4> QED
        BY <4>2 DEF Touches
    <3>3. Rewritten(after, shown)
      BY <1>1, <1>2, <2>1, <3>1, ShowItemRewrites
    <3> QED
      BY <1>1, <3>2, <3>3, TouchesAgain DEF Rewritten
  <2>2. CASE ~ first
    BY <1>1, <2>2
  <2> QED
    BY <2>1, <2>2
<1> HIDE DEF shown
<1>4. Touches(nodes, Marked(shown, runs[r].origin, "success"), S)
  BY <1>3, MarkTouches, TouchesAgain
<1>5. ImageWritten(r, i) = IF runs[r].config THEN Marked(shown, runs[r].origin, "success")
                           ELSE shown
  BY DEF ImageWritten, shown, after
<1> QED
  BY <1>3, <1>4, <1>5

LEMMA TextWrittenTouches ==
    ASSUME nodes \in [Ids -> NodeSet], NEW S, NEW r \in Runs, NEW i \in Items,
           runs[r].root \in Live(nodes) => runs[r].root \in S
    PROVE  Touches(nodes, TextWritten(r, i), S)
<1>1. PICK mid \in [Ids -> NodeSet] : /\ mid = ItemMark(nodes, r, i, "success")
                                      /\ Rewritten(nodes, mid) /\ Touches(nodes, mid, S)
  BY ItemMarkRewrites, ItemMarkTouches, InMarks DEF Rewritten
<1>3. Touches(mid, TextShown(mid, r, i), S)
  BY <1>1, RewrittenLive, TextShownTouches
<1> QED
  BY <1>1, <1>3, TouchesAgain DEF TextWritten

LEMMA RetryFailedTouches ==
    ASSUME nodes \in [Ids -> NodeSet], NEW S, NEW r \in Runs
    PROVE  Touches(nodes, RetryFailed(r), S)
<1>1. PICK mid \in [Ids -> NodeSet] :
          /\ mid = IF runs[r].marks THEN nodes ELSE RetryItem(nodes, r, "error")
          /\ Touches(nodes, mid, S)
  BY RetryItemRewrites, RewrittenStill, ItemMarkTouches, TouchesStill, InMarks DEF Rewritten
<1>2. PICK mark \in Marks : mark = IF nodes[runs[r].root].filled THEN "success" ELSE "error"
  BY InMarks
<1> QED
  BY <1>1, <1>2, MarkTouches, TouchesAgain DEF RetryFailed

LEMMA RetryTouches ==
    ASSUME nodes \in [Ids -> NodeSet], NEW S, NEW r \in Runs,
           runs[r].root \in Live(nodes) => runs[r].root \in S
    PROVE  Touches(nodes, RetryImage(r), S) /\ Touches(nodes, RetryText(r), S)
<1> DEFINE n == runs[r].root
<1>1. Touches(nodes, RetryText(r), S)
  BY DEF Touches, RetryText
<1>2. CASE n \notin Live(nodes)
  BY <1>1, <1>2, TouchesStill DEF RetryImage
<1>3. CASE n \in Live(nodes)
  <2>1. PICK mid \in [Ids -> NodeSet] : mid = RetryItem(nodes, r, "success") /\ Touches(nodes, mid, S)
    BY RetryItemRewrites, ItemMarkTouches, InMarks, Zenon DEF Rewritten
  <2>2. \A m \in Ids \ S : RetryImage(r)[m] = mid[m]
    BY <1>3, <2>1, Zenon DEF RetryImage, ShowItem, Marked
  <2> QED
    BY <1>1, <2>1, <2>2 DEF Touches
<1> QED
  BY <1>2, <1>3

LEMMA InPlaceTouches ==
    ASSUME nodes \in [Ids -> NodeSet], NEW S, NEW r \in Runs, NEW gen,
           runs[r].origin \in Live(nodes) => runs[r].origin \in S
    PROVE  Touches(nodes, InPlace(r, nodes, gen), S)
<1>1. CASE runs[r].origin \notin Live(nodes)
  BY <1>1, TouchesStill DEF InPlace
<1>2. CASE runs[r].origin \in Live(nodes)
  BY <1>2 DEF InPlace, SetGen, Touches
<1> QED
  BY <1>1, <1>2

(* Every step of the canvas is one of the plain editor, or none.            *)
PlainStep == [G!GraphNext]_(G!graphVars)

LEMMA StillMaps == UNCHANGED graphVars => PlainStep
BY DEF PlainStep, graphVars, G!graphVars

LEMMA RewriteMaps ==
    ASSUME CanvasInv, NEW n, n \in Live(nodes) => nodes[n].type # "group",
           Rewritten(nodes, nodes'), Touches(nodes, nodes', {n} \cap Live(nodes)),
           UNCHANGED <<conns, made>>, Keep, UNCHANGED edits \/ (Edit /\ n \in Live(nodes))
    PROVE  PlainStep
<1>1. nodes \in [Ids -> NodeSet] /\ nodes' \in [Ids -> NodeSet]
  BY NodesTyped DEF Rewritten
<1>2. CASE n \notin Live(nodes)
  BY <1>1, <1>2, PlainEqual DEF Touches, PlainStep, G!graphVars, Keep
<1>3. CASE n \in Live(nodes)
  <2>1. /\ n \in Ids /\ n \in G!Live(Plain(nodes)) /\ nodes[n].type \notin {"group", "none"}
        /\ Plain(nodes)[n].type = nodes[n].type /\ Plain(nodes)[n].group = nodes[n].group
        /\ DOMAIN Plain(nodes) = Ids
    BY <1>1, <1>3, PlainFields, SameSets DEF Live
  <2>2. PICK type, group, filled : type = nodes'[n].type /\ group = nodes'[n].group
                                   /\ filled = nodes'[n].filled
    OBVIOUS
  <2>3. /\ type \in Types \ {"group"} /\ group \in 0..MaxNodes /\ filled \in BOOLEAN
        /\ group \in {0, nodes[n].group}
        /\ type = "config" => nodes[n].type = type
    BY <1>1, <2>1, <2>2, NodeFields, Zenon DEF Rewritten
  <2>4. ASSUME NEW m \in Ids
        PROVE  Bare(nodes'[m])
                  = IF m = n THEN [Plain(nodes)[n] EXCEPT !.type = type, !.group = group,
                                                          !.filled = filled]
                    ELSE Plain(nodes)[m]
    <3>1. nodes[m] \in NodeSet /\ nodes'[m] \in NodeSet /\ Plain(nodes)[m] = Bare(nodes[m])
      BY <1>1, PlainFields
    <3>2. CASE m = n
      <4>2. [Bare(nodes[n]) EXCEPT !.type = type, !.group = group, !.filled = filled]
                = Node(type, group, filled, 0)
        <5>1. type \in Types \cup {"none"} /\ group \in 0..MaxNodes /\ filled \in BOOLEAN
          BY <2>3
        <5>2. PICK node \in NodeSet : node = nodes[n]
          BY <3>1, <3>2
        <5> DEFINE new == [node EXCEPT !.type = type, !.group = group, !.filled = filled]
        <5>3. new \in NodeSet
          BY <5>1 DEF NodeSet
        <5>4. new.type = type /\ new.group = group /\ new.filled = filled
          BY DEF NodeSet
        <5>5. Bare(new) = [Bare(node) EXCEPT !.type = type, !.group = group, !.filled = filled]
          BY <5>1 DEF Bare, NodeSet
        <5> HIDE DEF new
        <5>6. Bare(new) = Node(type, group, filled, 0)
          BY <5>3, <5>4, BareFields
        <5> QED
          BY <5>2, <5>5, <5>6
      <4> QED
        BY <3>1, <3>2, <2>2, BareFields, <4>2
    <3>3. CASE m # n
      BY <3>3, <3>1, BareFields DEF Touches
    <3> QED
      BY <3>2, <3>3
  <2>5. Plain(nodes') = [m \in Ids |-> Bare(nodes'[m])]
    BY DEF Plain, Bare
  <2>6. Plain(nodes') = [Plain(nodes) EXCEPT ![n].type = type, ![n].group = group,
                                             ![n].filled = filled]
    BY <2>1, <2>4, <2>5
  <2>7. G!Rewrite(n, type, group, filled)
    BY <2>1, <2>3, <2>6 DEF G!Rewrite
  <2>8. G!Keep /\ (G!Edit \/ UNCHANGED edits)
    BY KeepMaps, EditMaps
  <2>9. G!ResultNext
    BY <2>1, <2>3, <2>7, <2>8, SameSets DEF G!ResultNext
  <2> QED
    BY <2>9 DEF PlainStep, G!GraphNext
<1> QED
  BY <1>2, <1>3

\* As generations use it: the root of a run is rewritten.
LEMMA RootMaps ==
    ASSUME CanvasInv, NEW r \in Runs, runs[r].stage # "none", Rewritten(nodes, nodes'),
           Touches(nodes, nodes', {runs[r].root} \cap Live(nodes)),
           UNCHANGED <<conns, made>>, GraphKeeps
    PROVE  PlainStep
BY RunNode, RewriteMaps DEF GraphKeeps, Keep

LEMMA ResultMaps ==
    ASSUME CanvasInv, NEW mid, Rewritten(nodes, mid), Touches(nodes, mid, {}),
           NEW type \in Media \cup {"text"}, NEW gen \in Gens, NEW from \in 1..made,
           made < MaxNodes, made' = made + 1,
           nodes' = [mid EXCEPT ![made + 1] = Node(type, 0, FALSE, gen)],
           conns' = conns \cup {<<from, made + 1>>}, GraphKeeps
    PROVE  PlainStep
<1>1. /\ nodes \in [Ids -> NodeSet] /\ mid \in [Ids -> NodeSet] /\ made + 1 \in Ids
      /\ type \in Types
  BY NodesTyped DEF Rewritten, CanvasInv, GraphInv, Ids, Types
<1>2. PICK node \in NodeSet : node = Node(type, 0, FALSE, gen) /\ Bare(node) = Node(type, 0, FALSE, 0)
  <2>1. type \in Types \cup {"none"} /\ 0 \in 0..MaxNodes /\ FALSE \in BOOLEAN
    BY <1>1
  <2> QED
    BY <1>1, <2>1, NewNode, BareNode
<1>3. Plain(mid) = Plain(nodes)
  BY <1>1, PlainEqual DEF Touches
<1>4. PICK m \in Ids : m = made + 1
  BY <1>1
<1>7. G!Insert(G!Node(type, 0, FALSE, 0))
  BY <1>2, <1>3, <1>4, <1>1, SameSets DEF G!Insert, Plain, Bare
<1> QED
  BY <1>7, KeepMaps, SameSets DEF PlainStep, G!GraphNext, G!ResultNext, G!AddResult,
     GraphKeeps, Keep

-----------------------------------------------------------------------------
LEMMA MediaStoredMaps == ASSUME CanvasInv, NEW r \in Runs, MediaStored(r) PROVE PlainStep
<1> DEFINE n == runs[r].root
           S == {n} \cap Live(nodes)
<1>1. /\ runs[r].stage = "storing" /\ UNCHANGED <<conns, made>> /\ GraphKeeps
      /\ nodes \in [Ids -> NodeSet]
  BY NodesTyped DEF MediaStored
<1>2. CASE n \in Live(nodes)
  <2>1. n \in Ids /\ n \in S
    BY <1>2 DEF Live
  <2>2. nodes' = [nodes EXCEPT ![n].filled = TRUE, ![n].gen.shown = 0, ![n].gen.status = "success"]
    BY <1>2, SMTT(30) DEF MediaStored
  <2>3. Rewritten(nodes, nodes')
    BY <1>1, <2>1, <2>2, StoredRewrites, Zenon
  <2>4. Touches(nodes, nodes', S)
    BY <1>1, <2>1, <2>2 DEF Touches
  <2> QED
    BY <1>1, <2>3, <2>4, RootMaps
<1>3. CASE n \notin Live(nodes)
  BY <1>1, <1>3, StillMaps DEF MediaStored, GraphKeeps, graphVars
<1> QED
  BY <1>2, <1>3

LEMMA MediaFailsMaps == ASSUME CanvasInv, NEW r \in Runs, MediaFails(r) PROVE PlainStep
<1> DEFINE run == runs[r]
           S   == {run.root} \cap Live(nodes)
<1>1. /\ run.stage # "none" /\ UNCHANGED <<conns, made>> /\ GraphKeeps
      /\ \/ nodes' = Marked(Marked(nodes, run.root, "error"), run.origin, "error")
         \/ nodes' = Marked(nodes, run.root, "error")
         \/ nodes' = nodes
  BY DEF MediaFails
<1>2. PICK mid \in [Ids -> NodeSet] : /\ mid = Marked(nodes, run.root, "error")
                                      /\ Rewritten(nodes, mid) /\ Touches(nodes, mid, S)
  BY MarkedRewrites, MarkTouches, InMarks, NodesTyped DEF Rewritten
<1>3. /\ Rewritten(nodes, Marked(mid, run.origin, "error"))
      /\ Touches(nodes, Marked(mid, run.origin, "error"), S)
  BY <1>2, MarkedRewrites, MarkTouches, InMarks, RewrittenAgain, TouchesAgain
<1>4. Rewritten(nodes, nodes') /\ Touches(nodes, nodes', S)
  BY <1>1, <1>2, <1>3, RewrittenStill, TouchesStill, NodesTyped
<1> HIDE DEF S
<1> QED
  BY <1>1, <1>4, RootMaps DEF S

LEMMA RetryFailedMaps ==
    ASSUME CanvasInv, NEW r \in Runs, runs[r].stage # "none", nodes' = RetryFailed(r),
           UNCHANGED <<conns, made>>, GraphKeeps
    PROVE  PlainStep
BY RetryFailedRewrites, RetryFailedTouches, NodesTyped, RootMaps

LEMMA RetryStepsMap ==
    ASSUME CanvasInv, NEW r \in Runs,
           \/ RetryRefused(r) \/ RetryStarts(r) \/ RetryStreams(r)
           \/ RetrySucceeds(r) \/ RetryFails(r)
    PROVE  PlainStep
<1> DEFINE n == runs[r].root
           S == {n} \cap Live(nodes)
<1>0. nodes \in [Ids -> NodeSet]
  BY NodesTyped
<1>1. CASE RetryRefused(r)
  <2>1. CASE nodes' = nodes
    BY <1>1, <2>1, StillMaps DEF RetryRefused, GraphKeeps, graphVars
  <2>2. CASE nodes' = RetryFailed(r)
    BY <1>1, <2>2, RetryFailedMaps DEF RetryRefused
  <2> QED
    BY <1>1, <2>1, <2>2 DEF RetryRefused
<1>2. CASE RetryStarts(r)
  <2>1. PICK after \in [Ids -> NodeSet] :
            /\ after = IF runs[r].marks THEN nodes ELSE RetryItem(nodes, r, "loading")
            /\ Rewritten(nodes, after) /\ Touches(nodes, after, S)
    BY <1>0, RetryItemRewrites, RewrittenStill, ItemMarkTouches, TouchesStill, InMarks DEF Rewritten
  <2>2. /\ nodes' = Marked(after, n, "loading") /\ runs[r].stage # "none"
        /\ UNCHANGED <<conns, made>> /\ GraphKeeps
    BY <1>2, <2>1 DEF RetryStarts
  <2>3. Rewritten(nodes, nodes') /\ Touches(nodes, nodes', S)
    BY <2>1, <2>2, MarkedRewrites, MarkTouches, InMarks, RewrittenAgain, TouchesAgain
  <2> QED
    BY <2>2, <2>3, RootMaps
<1>3. CASE RetrySucceeds(r)
  BY <1>3, RunNode, RunFields, <1>0, RetryTextRewrites, RetryImageRewrites, RetryTouches,
     RootMaps DEF RetrySucceeds, CanvasInv, GenTypeOK
<1>4. CASE RetryFails(r)
  BY <1>4, RetryFailedMaps DEF RetryFails
<1>5. CASE RetryStreams(r)
  <2>1. PICK mid \in [Ids -> NodeSet] :
            /\ mid = RetryText(r) /\ Rewritten(nodes, mid) /\ Rewritten(mid, nodes')
            /\ \E mark \in Marks : nodes' = Marked(mid, n, mark)
    BY <1>5, RetryStreamsRewrites
  <2>2. Touches(mid, nodes', S)
    BY <2>1, MarkTouches
  <2>3. Touches(nodes, mid, S)
    BY <2>1, <1>0, RetryTouches
  <2> QED
    BY <1>5, <2>1, <2>2, <2>3, RewrittenAgain, TouchesAgain, RootMaps DEF RetryStreams
<1> QED
  BY <1>1, <1>2, <1>3, <1>4, <1>5

LEMMA ImageEditedMaps ==
    ASSUME CanvasInv, NEW r \in Runs, ImageEdited(r) \/ ImageEditFails(r) PROVE PlainStep
<1> DEFINE n == runs[r].root
           S == {n} \cap Live(nodes)
<1>1. /\ runs[r].stage = "asking" /\ UNCHANGED <<conns, made>> /\ GraphKeeps
      /\ nodes \in [Ids -> NodeSet]
  BY NodesTyped DEF ImageEdited, ImageEditFails
<1>2. CASE ImageEdited(r) /\ n \in Live(nodes)
  <2>1. n \in Ids /\ n \in S
    BY <1>2 DEF Live
  <2>2. nodes' = [nodes EXCEPT ![n].filled = TRUE, ![n].gen.shown = 0, ![n].gen.status = "success"]
    BY <1>2, SMTT(30) DEF ImageEdited
  <2>3. Rewritten(nodes, nodes')
    BY <1>1, <2>1, <2>2, StoredRewrites, Zenon
  <2>4. Touches(nodes, nodes', S)
    BY <1>1, <2>1, <2>2 DEF Touches
  <2> QED
    BY <1>1, <2>3, <2>4, RootMaps
<1>3. CASE ImageEdited(r) /\ n \notin Live(nodes)
  BY <1>1, <1>3, StillMaps DEF ImageEdited, GraphKeeps, graphVars
<1>4. CASE ImageEditFails(r)
  BY <1>1, <1>4, MarkedRewrites, MarkTouches, InMarks, RootMaps DEF ImageEditFails
<1> QED
  BY <1>2, <1>3, <1>4, SMTT(30)

(* An answered item, and with the last one what settles the root.           *)
LEMMA ItemAnsweredMaps ==
    ASSUME CanvasInv, NEW r \in Runs, NEW i \in Items, NEW ns, Rewritten(nodes, ns),
           Touches(nodes, ns, {runs[r].root} \cap Live(nodes)),
           NEW done \in SUBSET Items, ItemAnswered(r, i, ns, done)
    PROVE  PlainStep
<1> DEFINE S == {runs[r].root} \cap Live(nodes)
<1>3. Touches(ns, Closed(ns, r, done), S) /\ Rewritten(ns, Closed(ns, r, done))
  BY RewrittenLive, ClosedTouches, ClosedRewrites DEF Rewritten
<1> QED
  BY <1>3, TouchesAgain, RewrittenAgain, RootMaps DEF ItemAnswered

LEMMA ItemMaps ==
    ASSUME CanvasInv, NEW r \in Runs, NEW i \in Items,
           ImageArrives(r, i) \/ TextArrives(r, i) \/ ItemFails(r, i) \/ ItemCanceled(r, i)
    PROVE  PlainStep
<1> DEFINE S == {runs[r].root} \cap Live(nodes)
<1>1. /\ nodes \in [Ids -> NodeSet] /\ runs[r].done \in SUBSET Items
      /\ runs[r].done \cup {i} \in SUBSET Items
  BY NodesTyped, RunFields DEF CanvasInv, GenTypeOK
<1>2. CASE ImageArrives(r, i)
  BY <1>1, ImageWrittenRewrites, ImageWrittenTouches, <1>2, ItemAnsweredMaps DEF ImageArrives
<1>3. CASE TextArrives(r, i)
  BY <1>1, TextWrittenRewrites, TextWrittenTouches, <1>3, ItemAnsweredMaps DEF TextArrives
<1>4. CASE ItemFails(r, i)
  BY <1>1, InMarks, ItemMarkRewrites, ItemMarkTouches, <1>4, ItemAnsweredMaps DEF ItemFails
<1>5. CASE ItemCanceled(r, i)
  BY <1>1, RewrittenStill, TouchesStill, <1>5, ItemAnsweredMaps DEF ItemCanceled
<1> QED
  BY <1>2, <1>3, <1>4, <1>5

LEMMA TextStreamsMaps ==
    ASSUME CanvasInv, NEW r \in Runs, NEW i \in Items, TextStreams(r, i) PROVE PlainStep
BY TextShownRewrites, TextShownTouches, NodesTyped, RootMaps DEF TextStreams

(* The first results: in the node itself, or in a child.                    *)
LEMMA StartMaps == ASSUME CanvasInv, NEW r \in Runs, Start(r) PROVE PlainStep
<1> DEFINE run == runs[r]
           S   == {run.root} \cap Live(nodes)
<1>1. PICK asked \in SUBSET Items : Started(r, asked)
  BY Sizes DEF Start
<1>2. run.stage = "hydrating" /\ GraphKeeps /\ run.root = run.origin
  BY DEF Start, CanvasInv, StagesFit
<1>3. /\ run \in RunSet /\ nodes \in [Ids -> NodeSet] /\ Loading(r, asked) \in GenSet
      /\ run.origin \in 1..made
      /\ run.origin \in Live(nodes) => nodes[run.origin].type \notin {"group", "none"}
  BY <1>2, RunNode, NodesTyped, LoadingType DEF CanvasInv, GenTypeOK
<1>4. run.kind \in Media \cup {"text"}
  BY <1>2, <1>3, RunFields DEF CanvasInv, StagesFit, Registers, Kinds, Media
<1>5. CASE run.empty
  <2>1. nodes' = InPlace(r, nodes, Loading(r, asked)) /\ UNCHANGED <<made, conns>>
    BY <1>1, <1>5 DEF Started
  <2>2. Rewritten(nodes, nodes') /\ Touches(nodes, nodes', S)
    BY <1>2, <1>3, <1>4, <2>1, InPlaceRewrites, InPlaceTouches
  <2> QED
    BY <1>2, <2>1, <2>2, RootMaps
<1>6. CASE ~ run.empty
  <2>1. PICK mid : mid = IF SourceMark(r) = "keep" THEN nodes
                         ELSE Marked(nodes, run.origin, SourceMark(r))
    OBVIOUS
  <2>2. PICK gen \in Gens : gen = Loading(r, asked)
    BY <1>3, GenerationAssumption
  <2>3. /\ made < MaxNodes /\ made' = made + 1
        /\ nodes' = [mid EXCEPT ![made + 1] = Node(run.kind, 0, FALSE, gen)]
        /\ conns' = conns \cup {<<run.origin, made + 1>>}
    BY <1>1, <1>6, <2>1, <2>2 DEF Started
  <2>4. Rewritten(nodes, mid) /\ Touches(nodes, mid, {})
    BY InMarks, <1>3, <2>1, MarkedRewrites, MarkTouches, RewrittenStill, TouchesStill DEF
       SourceMark
  <2>5. PICK from \in 1..made : from = run.origin
    BY <1>3
  <2>6. PICK type \in Media \cup {"text"} : type = run.kind
    BY <1>4
  <2> QED
    BY <1>2, <2>2, <2>3, <2>4, <2>5, <2>6, ResultMaps
<1> QED
  BY <1>5, <1>6

LEMMA EditImageMaps ==
    ASSUME CanvasInv, NEW r \in Runs, NEW n \in Live(nodes), EditImage(r, n) PROVE PlainStep
<1>1. PICK gen \in Gens : gen = [NewGen EXCEPT !.status = "loading"]
  BY NewGenType, GenFields, InMarks, GenerationAssumption
<1>4. PICK from \in 1..made : from = n
  BY LiveMade DEF CanvasInv
<1>5. Rewritten(nodes, nodes) /\ Touches(nodes, nodes, {}) /\ "image" \in Media \cup {"text"}
  BY NodesTyped, RewrittenStill, TouchesStill DEF Media
<1> QED
  BY <1>1, <1>4, <1>5, ResultMaps DEF Insert, EditImage

(* Stopping writes only what generations know.                              *)
LEMMA ConfirmStopMaps == ASSUME CanvasInv, ConfirmStop PROVE PlainStep
<1>1. PICK affected :
          nodes' = [n \in Ids |-> IF n \in affected
                                  THEN [nodes[n] EXCEPT !.gen = GenCut(@, "idle")] ELSE nodes[n]]
  BY DEF ConfirmStop
<1>2. UNCHANGED <<conns, made>> /\ GraphKeeps /\ nodes \in [Ids -> NodeSet]
  BY NodesTyped DEF ConfirmStop
<1>3. ASSUME NEW n \in Ids PROVE Bare(nodes'[n]) = Bare(nodes[n])
  BY <1>2, <1>1 DEF Bare, NodeSet
<1> QED
  BY <1>2, <1>3 DEF PlainStep, G!graphVars, GraphKeeps, Plain, Bare

(* The buttons of a batch are edits of the document.                        *)
LEMMA BatchMaps == ASSUME CanvasInv, Batch PROVE PlainStep
<1>1. PICK n \in Live(nodes), i \in Items :
          SetBatchPrimary(n, i) \/ DeleteBatchImage(n, i) \/ DuplicateBatchImage(n, i)
  BY DEF Batch
<1>2. n \in Ids /\ nodes \in [Ids -> NodeSet] /\ n \in {n} \cap Live(nodes)
  BY NodesTyped DEF Live
<1>3. CASE SetBatchPrimary(n, i)
  BY <1>3, <1>2, ShowItemRewrites, RewriteMaps, Zenon DEF SetBatchPrimary, ShowItem, Touches
<1>4. CASE DeleteBatchImage(n, i)
  BY <1>4, <1>2, DeleteItemRewrites, RewriteMaps, Zenon DEF DeleteBatchImage, Touches
<1>5. CASE DuplicateBatchImage(n, i)
  BY <1>2, <1>5, ExtractMaps, SameSets DEF DuplicateBatchImage, CanvasInv, G!ResultNext,
     PlainStep, G!GraphNext
<1> QED
  BY <1>1, <1>3, <1>4, <1>5

LEMMA EditsMap == ASSUME CanvasInv, Edits PROVE PlainStep
<1>0. GraphInv
  BY DEF CanvasInv
<1>1. CASE EditDocument
  BY <1>0, <1>1, EditMapsAll DEF EditDocument, PlainStep, G!GraphNext
<1>2. CASE Batch
  BY <1>2, BatchMaps
<1>3. CASE Clear
  BY <1>0, <1>3, ClearCanvasMaps DEF Clear, G!RemoveNext, PlainStep, G!GraphNext
<1>4. CASE Reload
  BY <1>0, <1>4, ReloadMaps DEF Reload, PlainStep, G!GraphNext
<1>5. ASSUME NEW S \in Selections, DeleteSelected(S) PROVE PlainStep
  BY <1>0, <1>5, DeleteNodesMaps, TypedNodes, PlainFields, SameSets DEF DeleteSelected,
     G!Selections, Selections, G!RemoveNext, PlainStep, G!GraphNext
<1> QED
  BY <1>1, <1>2, <1>3, <1>4, <1>5 DEF Edits

LEMMA StepMaps == CanvasInv /\ [Next]_vars => PlainStep
<1> SUFFICES ASSUME CanvasInv, [Next]_vars PROVE PlainStep
  OBVIOUS
<1>1. CASE Begin
  BY <1>1, EditImageMaps, StillMaps, Zenon DEF Begin, Generate, Retry
<1>2. CASE Stop
  BY <1>2, ConfirmStopMaps, StillMaps DEF Stop, AskStop, DismissStop
<1>3. CASE Edits
  BY <1>3, EditsMap
<1>4. ASSUME NEW r \in Runs, Answer(r) PROVE PlainStep
  <2>1. CASE HydrationFails(r) \/ MediaAnswered(r)
    BY <2>1, StillMaps DEF HydrationFails, MediaAnswered
  <2> QED
    BY <1>4, <2>1, StartMaps, ItemMaps, TextStreamsMaps, MediaStoredMaps, MediaFailsMaps,
       RetryStepsMap, ImageEditedMaps DEF Answer
<1>5. ASSUME NEW r \in Runs, GiveUp(r) PROVE PlainStep
  <2>1. CASE HydratedToNothing(r) \/ Canceled(r)
    BY <2>1, StillMaps DEF HydratedToNothing, Canceled
  <2> QED
    BY <1>5, <2>1, ItemMaps DEF GiveUp
<1>6. CASE UNCHANGED vars
  BY <1>6, StillMaps DEF vars
<1> QED
  BY <1>1, <1>2, <1>3, <1>4, <1>5, <1>6 DEF Next

LEMMA StartMapped == Init => G!GraphInit
<1> SUFFICES ASSUME Init PROVE G!GraphInit
  OBVIOUS
<1>1. PICK c \in Canvases : nodes = c.nodes /\ conns = c.conns /\ made = c.made
  BY DEF Init, GraphInit
<1>4. \E d \in {[e EXCEPT !.nodes = Plain(@)] : e \in Canvases} :
          Plain(nodes) = d.nodes /\ conns = d.conns /\ made = d.made
  <2> DEFINE d == [c EXCEPT !.nodes = Plain(@)]
  <2>1. d \in {[e EXCEPT !.nodes = Plain(@)] : e \in Canvases}
    BY <1>1
  <2>2. d.nodes = Plain(nodes) /\ d.conns = conns /\ d.made = made
    BY <1>1, CanvasesAssumption
  <2> HIDE DEF d
  <2> QED
    BY <2>1, <2>2
<1> QED
  BY <1>4, EmptyMaps DEF G!GraphInit, Init, GraphInit, PlainGraph

(* To the editor, a generation is nothing but results added to the document  *)
(* and nodes rewritten: every behaviour of the canvas, seen without what    *)
(* the runs know, is one of the editor alone.                               *)
THEOREM Implements == Spec => ImplementsGraph
<1>3. CanvasInv /\ [Next]_vars => CanvasInv'
  BY CanvasStep
<1> QED
  BY StepMaps, CanvasStart, StartMapped, <1>3, PTL DEF Spec, ImplementsGraph, G!GraphSpec,
     PlainStep

-----------------------------------------------------------------------------
(* What a step leaves of a node: its items, or what it shows.               *)
SameItems(a, b) == b.gen.batch = a.gen.batch /\ b.gen.items = a.gen.items
SameLook(a, b)  == /\ b.type = a.type /\ b.filled = a.filled
                   /\ b.gen.primary = a.gen.primary /\ b.gen.shown = a.gen.shown
SameButStatus(a, b) == SameItems(a, b) /\ SameLook(a, b)

LEMMA GenTaken ==
    ASSUME NEW node \in NodeSet, NEW gen \in GenSet, NEW new, new = [node EXCEPT !.gen = gen]
    PROVE  /\ new \in NodeSet /\ new.gen = gen /\ new.type = node.type
           /\ new.filled = node.filled /\ new.group = node.group
<1>1. PICK filled \in BOOLEAN : filled = node.filled
  BY DEF NodeSet
<1>2. new = Taking(node, filled, gen)
  BY <1>1 DEF Taking, NodeSet
<1> QED
  BY <1>1, <1>2, NodeTakes

LEMMA MarkedIs ==
    ASSUME NEW ns \in [Ids -> NodeSet], NEW n, NEW mark \in Marks,
           NEW new, new = Marked(ns, n, mark)
    PROVE  /\ new \in [Ids -> NodeSet]
           /\ \A m \in Ids : SameButStatus(ns[m], new[m])
           /\ \A m \in Ids : new[m].gen.status = IF m = n /\ m \in Live(ns) THEN mark
                                                 ELSE ns[m].gen.status
<1>1. CASE n \in Live(ns)
  <2>1. n \in Ids
    BY <1>1 DEF Live
  <2>2. ns[n] \in NodeSet /\ ns[n].gen \in GenSet
    BY <2>1, GenOfNode
  <2>3. PICK gen \in GenSet : gen = [ns[n].gen EXCEPT !.status = mark]
    BY <2>2, GenFields
  <2>4. /\ gen.status = mark /\ gen.batch = ns[n].gen.batch /\ gen.items = ns[n].gen.items
        /\ gen.primary = ns[n].gen.primary /\ gen.shown = ns[n].gen.shown
    BY <2>2, <2>3 DEF GenSet
  <2>5. PICK node : node = [ns[n] EXCEPT !.gen = gen]
    OBVIOUS
  <2>51. /\ node \in NodeSet /\ node.gen = gen /\ node.type = ns[n].type
         /\ node.filled = ns[n].filled
    BY <2>2, <2>5, GenTaken
  <2>6. new = [ns EXCEPT ![n] = node]
    BY <1>1, <2>3, <2>5 DEF Marked
  <2> QED
    BY <1>1, <2>4, <2>51, <2>6, <2>1 DEF SameButStatus, SameItems, SameLook
<1>2. CASE n \notin Live(ns)
  BY <1>2 DEF Marked, SameButStatus, SameItems, SameLook
<1> QED
  BY <1>1, <1>2

(* One node is put in place of another.                                     *)
LEMMA PutIs ==
    ASSUME NEW ns \in [Ids -> NodeSet], NEW n \in Ids, NEW node \in NodeSet,
           NEW new, new = [ns EXCEPT ![n] = node]
    PROVE  /\ new \in [Ids -> NodeSet] /\ new[n] = node
           /\ \A m \in Ids \ {n} : new[m] = ns[m]
OBVIOUS

SetItem(ns, n, i, mark) == [ns EXCEPT ![n].gen.items[i] = mark]
LEMMA ItemSetIs ==
    ASSUME NEW ns \in [Ids -> NodeSet], NEW n \in Ids, NEW i \in Items, NEW mark \in Marks,
           NEW new, new = SetItem(ns, n, i, mark)
    PROVE  /\ new \in [Ids -> NodeSet] /\ \A m \in Ids \ {n} : new[m] = ns[m]
           /\ SameLook(ns[n], new[n])
           /\ new[n].gen.status = ns[n].gen.status /\ new[n].gen.batch = ns[n].gen.batch
           /\ new[n].gen.items[i] = mark
           /\ \A j \in Items \ {i} : new[n].gen.items[j] = ns[n].gen.items[j]
<1>1. ns[n] \in NodeSet /\ ns[n].gen \in GenSet
  BY GenOfNode
<1>2. ns[n].gen.items \in [Items -> Marks \cup {"none"}]
  BY <1>1, GenFields
<1>3. PICK items \in [Items -> Marks \cup {"none"}] : items = [ns[n].gen.items EXCEPT ![i] = mark]
  BY <1>2
<1>5. PICK gen \in GenSet : gen = [ns[n].gen EXCEPT !.items = items]
  BY <1>1, GenFields
<1>7. PICK node : node = [ns[n] EXCEPT !.gen = gen]
  OBVIOUS
<1>8. /\ node \in NodeSet /\ node.gen = gen /\ node.type = ns[n].type
      /\ node.filled = ns[n].filled
  BY <1>1, <1>7, GenTaken
<1>9. new = [ns EXCEPT ![n] = node]
  BY <1>3, <1>5, <1>7 DEF SetItem
<1>10. /\ new \in [Ids -> NodeSet] /\ new[n] = node
       /\ \A m \in Ids \ {n} : new[m] = ns[m]
  BY <1>8, <1>9
<1> QED
  BY <1>2, <1>3, <1>1, <1>5, <1>8, <1>10 DEF SameLook, GenSet

LEMMA ShowItemIs ==
    ASSUME NEW ns \in [Ids -> NodeSet], NEW n \in Ids, NEW i \in {0, Other} \cup Items,
           NEW new, new = ShowItem(ns, n, i)
    PROVE  /\ new \in [Ids -> NodeSet] /\ \A m \in Ids \ {n} : new[m] = ns[m]
           /\ SameItems(ns[n], new[n]) /\ new[n].gen.status = ns[n].gen.status
           /\ new[n].type = ns[n].type /\ new[n].filled
           /\ new[n].gen.primary = i /\ new[n].gen.shown = i
<1>1. ns[n] \in NodeSet /\ ns[n].gen \in GenSet
  BY GenOfNode
<1>2. PICK gen : gen = [ns[n].gen EXCEPT !.primary = i, !.shown = i]
  OBVIOUS
<1>3. /\ gen.status = ns[n].gen.status /\ gen.batch = ns[n].gen.batch
      /\ gen.items = ns[n].gen.items /\ gen.primary = i /\ gen.shown = i
  BY <1>1, <1>2 DEF GenSet
<1>4. gen \in GenSet
  BY <1>1, <1>2 DEF GenSet
<1>5. PICK node : node = Taking(ns[n], TRUE, gen)
  OBVIOUS
<1>6. new = [ns EXCEPT ![n] = node]
  BY <1>2, <1>5 DEF ShowItem, Taking, NodeSet
<1>7. node \in NodeSet /\ node.type = ns[n].type /\ node.filled /\ node.gen = gen
  BY <1>1, <1>4, <1>5, NodeTakes
<1> QED
  BY <1>3, <1>7, <1>6, PutIs DEF SameItems

Storing(ns, n) ==
    [ns EXCEPT ![n].filled = TRUE, ![n].gen.shown = 0, ![n].gen.status = "success"]
LEMMA StoredIs ==
    ASSUME NEW ns \in [Ids -> NodeSet], NEW n \in Ids, NEW new, new = Storing(ns, n)
    PROVE  /\ new \in [Ids -> NodeSet] /\ \A m \in Ids \ {n} : new[m] = ns[m]
           /\ SameItems(ns[n], new[n]) /\ new[n].gen.status = "success"
           /\ new[n].type = ns[n].type /\ new[n].filled
           /\ new[n].gen.primary = ns[n].gen.primary /\ new[n].gen.shown = 0
<1>1. ns[n] \in NodeSet /\ ns[n].gen \in GenSet
  BY GenOfNode
<1>2. PICK gen : gen = [ns[n].gen EXCEPT !.shown = 0, !.status = "success"]
  OBVIOUS
<1>3. /\ gen.status = "success" /\ gen.batch = ns[n].gen.batch /\ gen.items = ns[n].gen.items
      /\ gen.primary = ns[n].gen.primary /\ gen.shown = 0
  BY <1>1, <1>2 DEF GenSet
<1>4. gen \in GenSet
  BY <1>1, <1>2, InMarks DEF GenSet
<1>5. PICK node : node = Taking(ns[n], TRUE, gen)
  OBVIOUS
<1>6. new = [ns EXCEPT ![n] = node]
  BY <1>2, <1>5 DEF Storing, Taking, NodeSet
<1>7. node \in NodeSet /\ node.type = ns[n].type /\ node.filled /\ node.gen = gen
  BY <1>1, <1>4, <1>5, NodeTakes
<1> QED
  BY <1>3, <1>7, <1>6 DEF SameItems

Typing(ns, n, type) == [ns EXCEPT ![n].type = type]
LEMMA TypedIs ==
    ASSUME NEW ns \in [Ids -> NodeSet], NEW n \in Ids, NEW type \in Types,
           NEW new, new = Typing(ns, n, type)
    PROVE  /\ new \in [Ids -> NodeSet] /\ \A m \in Ids \ {n} : new[m] = ns[m]
           /\ new[n].gen = ns[n].gen /\ new[n].type = type /\ new[n].filled = ns[n].filled
<1>2. PICK node : node = [ns[n] EXCEPT !.type = type]
  OBVIOUS
<1> QED
  BY <1>2, PutIs DEF Typing, NodeSet

LEMMA KeepTextsIs ==
    ASSUME NEW ns \in [Ids -> NodeSet], NEW r \in Runs, NEW done \in SUBSET Items,
           NEW new, new = KeepTexts(ns, r, done)
    PROVE  /\ new \in [Ids -> NodeSet]
           /\ \A m \in Ids : m # runs[r].root => new[m] = ns[m]
           /\ \A m \in Ids : /\ new[m].type = ns[m].type
                             /\ new[m].gen.status = ns[m].gen.status
                             /\ new[m].gen.batch \in {ns[m].gen.batch, r}
<1> DEFINE n == runs[r].root
<1>1. new \in [Ids -> NodeSet]
  BY KeepTextsRewrites DEF Rewritten
<1>2. CASE n \notin Live(ns)
  BY <1>1, <1>2 DEF KeepTexts
<1>3. CASE n \in Live(ns)
  <2>1. n \in Ids /\ ns[n] \in NodeSet /\ ns[n].gen \in GenSet
    BY <1>3, GenOfNode DEF Live
  <2>2. PICK show, items, filled :
            new = [ns EXCEPT ![n].filled = filled,
                             ![n].gen = [ns[n].gen EXCEPT !.primary = show, !.shown = show,
                                                          !.batch = r, !.items = items]]
    BY <1>3, Zenon DEF KeepTexts
  <2>3. PICK gen : gen = [ns[n].gen EXCEPT !.primary = show, !.shown = show,
                                           !.batch = r, !.items = items]
    OBVIOUS
  <2>4. gen.status = ns[n].gen.status /\ gen.batch = r
    BY <2>1, <2>3 DEF GenSet
  <2>5. PICK node : node = [ns[n] EXCEPT !.filled = filled, !.gen = gen]
    OBVIOUS
  <2>6. node.type = ns[n].type /\ node.gen = gen
    BY <2>1, <2>5 DEF NodeSet
  <2>7. new = [ns EXCEPT ![n] = node]
    BY <2>1, <2>2, <2>3, <2>5, ZenonT(40) DEF NodeSet
  <2>8. new[n] = node /\ \A m \in Ids \ {n} : new[m] = ns[m]
    BY <2>1, <2>7
  <2> QED
    BY <1>1, <2>4, <2>6, <2>8
<1> QED
  BY <1>2, <1>3

LEMMA RetryItemIs ==
    ASSUME NEW ns \in [Ids -> NodeSet], NEW r \in Runs, NEW mark \in Marks,
           NEW new, new = RetryItem(ns, r, mark), NEW n, n = runs[r].root
    PROVE  /\ new \in [Ids -> NodeSet]
           /\ \A m \in Ids : /\ m # n => new[m] = ns[m]
                             /\ SameLook(ns[m], new[m])
                             /\ new[m].gen.status = ns[m].gen.status
                             /\ new[m].gen.batch = ns[m].gen.batch
           /\ \A m \in Ids, j \in Items :
                 \/ new[m].gen.items[j] = ns[m].gen.items[j]
                 \/ /\ m = n /\ j = runs[r].item /\ new[m].gen.items[j] = mark
                    /\ ns[m].gen.batch = runs[r].batch
<1>1. CASE /\ n \in Live(ns) /\ ns[n].gen.batch = runs[r].batch /\ runs[r].item \in Items
           /\ new = [ns EXCEPT ![n].gen.items[runs[r].item] = mark]
  <2>1. PICK i \in Items : i = runs[r].item
    BY <1>1
  <2>2. n \in Ids /\ new = SetItem(ns, n, i, mark)
    BY <1>1, <2>1 DEF Live, SetItem
  <2>3. /\ new \in [Ids -> NodeSet] /\ \A m \in Ids \ {n} : new[m] = ns[m]
        /\ SameLook(ns[n], new[n])
        /\ new[n].gen.status = ns[n].gen.status /\ new[n].gen.batch = ns[n].gen.batch
        /\ new[n].gen.items[i] = mark
        /\ \A j \in Items \ {i} : new[n].gen.items[j] = ns[n].gen.items[j]
    BY <2>2, ItemSetIs, SMTT(30)
  <2>4. SameLook(ns[n], new[n]) /\ \A m \in Ids \ {n} : SameLook(ns[m], new[m])
    BY <2>3 DEF SameLook
  <2> QED
    BY <1>1, <2>1, <2>3, <2>4, Zenon
<1>2. CASE new = ns
  BY <1>2 DEF SameLook
<1> QED
  BY <1>1, <1>2, Zenon DEF RetryItem

LEMMA CutIs ==
    ASSUME NEW gen \in GenSet, NEW status \in Marks, NEW new, new = GenCut(gen, status)
    PROVE  /\ new \in GenSet /\ new.batch = gen.batch
           /\ new.primary = gen.primary /\ new.shown = gen.shown
           /\ new.status = IF gen.status = "loading" THEN status ELSE gen.status
<1>1. new \in GenSet
  BY CutType
<1>2. PICK items : new = IF gen.status # "loading" THEN gen
                         ELSE [gen EXCEPT !.status = status, !.items = items]
  BY Zenon DEF GenCut
<1>3. CASE gen.status = "loading"
  BY <1>2, <1>3, <1>1 DEF GenSet
<1>4. CASE gen.status # "loading"
  BY <1>1, <1>2, <1>4
<1> QED
  BY <1>3, <1>4

(* The empty node a generation was started on becomes its root.             *)
LEMMA InPlaceIs ==
    ASSUME nodes \in [Ids -> NodeSet], NEW r \in Runs, NEW gen \in GenSet,
           runs[r].kind \in Media \cup {"text"}, NEW n, n = runs[r].origin, n \in Live(nodes),
           NEW new, new = InPlace(r, nodes, gen)
    PROVE  /\ \A m \in Ids \ {n} : new[m] = nodes[m]
           /\ new[n].gen.status = gen.status /\ new[n].gen.batch = gen.batch
           /\ new[n].gen.items = gen.items
           /\ runs[r].kind = "image" =>
                 /\ new[n].type = nodes[n].type /\ new[n].filled = nodes[n].filled
                 /\ new[n].gen.primary = Foreign(nodes[n].gen.primary)
                 /\ new[n].gen.shown = Foreign(nodes[n].gen.shown)
           /\ runs[r].kind # "image" => new[n].type = runs[r].kind
<1>1. n \in Ids /\ nodes[n] \in NodeSet /\ nodes[n].gen \in GenSet
  BY GenOfNode, SMTT(30) DEF Live
<1>2. CASE runs[r].kind = "image"
  <2>1. PICK primary, shown \in {0, Other} \cup Items :
            primary = Foreign(nodes[n].gen.primary) /\ shown = Foreign(nodes[n].gen.shown)
    BY DEF Foreign
  <2>2. PICK got : got = [gen EXCEPT !.primary = primary, !.shown = shown]
    OBVIOUS
  <2>3. /\ got \in GenSet /\ got.primary = primary /\ got.shown = shown
        /\ got.status = gen.status /\ got.batch = gen.batch /\ got.items = gen.items
    BY <2>2 DEF GenSet
  <2>4. PICK node : node = [nodes[n] EXCEPT !.gen = got]
    BY Zenon
  <2>5. /\ node.gen = got /\ node.type = nodes[n].type /\ node.filled = nodes[n].filled
    BY <1>1, <2>3, <2>4, GenTaken
  <2>6. new = [nodes EXCEPT ![n] = node]
    BY <1>2, <2>1, <2>2, <2>4, Zenon DEF InPlace, SetGen
  <2>7. new[n] = node /\ \A m \in Ids \ {n} : new[m] = nodes[m]
    BY <1>1, <2>6
  <2> QED
    BY <1>2, <2>1, <2>3, <2>5, <2>7
<1>3. CASE runs[r].kind # "image"
  <2>1. PICK node : node = Node(runs[r].kind, 0, FALSE, gen)
    OBVIOUS
  <2>2. new = [nodes EXCEPT ![n] = node]
    BY <1>3, <2>1 DEF InPlace
  <2>4. node.type = runs[r].kind /\ node.gen = gen
    BY <2>1 DEF Node
  <2> QED
    BY <1>3, <1>1, <2>2, <2>4
<1> QED
  BY <1>2, <1>3

-----------------------------------------------------------------------------
(* What is owed.  A live generation finds each item it waits for loading,   *)
(* or gone, or a stopped run began on that node; in the document and in the *)
(* one an undo brings back.                                                 *)
Due(r)     == runs[r].stage = "asking" /\ ~ Aborted(r) /\ ~ Registers(r)
Excused(n) == \E q \in Runs : runs[q].halt = "stopped" /\ runs[q].origin = n
Waits(gen, items) == \A i \in items : gen.items[i] \in {"loading", "none"}
Owed(ns, r) ==
    ns[runs[r].root].gen.batch = r =>
        Waits(ns[runs[r].root].gen, runs[r].left) \/ Excused(runs[r].root)
OwedNow == \A r \in Runs : Due(r) => Owed(nodes, r) /\ Owed(entry.nodes, r)

(* A batch is of a run that has got as far as asking.                       *)
Early(r) == runs[r].stage \in {"none", "hydrating"}
Batches  == {nodes[n].gen.batch : n \in Ids} \cup {entry.nodes[n].gen.batch : n \in Ids}
                \cup {clipboard.nodes[n].gen.batch : n \in Ids} \cup {runs[q].batch : q \in Runs}
Unborn   == \A r \in Runs : Early(r) => r \notin Batches

(* A retry that is still resolving was asked about an item that had failed. *)
Late(q, r) ==
    runs[q].stage = "resolving" /\ ~ runs[q].marks /\ Due(r)
          /\ runs[q].root = runs[r].root /\ runs[q].batch = r
      => runs[q].item \notin runs[r].left \/ Excused(runs[r].root)
(* No other generation began on the child a live one writes into.           *)
Alone(q, r) ==
    Due(r) /\ runs[r].root # runs[r].origin /\ q # r /\ ~ Registers(q) /\ runs[q].stage # "none"
      => runs[q].origin # runs[r].root
PairsFit == \A q, r \in Runs : Late(q, r) /\ Alone(q, r)

(* A run that is stopped is not registered any more, and one registered     *)
(* under its target alone is not when it is replaced.                       *)
StopsClean ==
    \A t \in Ids, q \in Runs : requests[t] = q =>
        runs[q].halt # "stopped" /\ (Registers(q) => runs[q].halt = "no")
TaskFits(r) ==
    /\ runs[r].stage \in {"none", "resolving"} => runs[r].halt = "no"
    /\ Registers(r) => runs[r].left = {}
    /\ runs[r].kind = "retry" /\ ~ runs[r].marks => runs[r].type = "image"
    /\ runs[r].stage = "storing" => OneResult(r)
    /\ runs[r].kind \in MediaKinds /\ runs[r].stage # "none" => runs[r].marks
TasksFit == \A r \in Runs : TaskFits(r)
OwedInv  == OwedNow /\ Unborn /\ PairsFit /\ StopsClean /\ TasksFit

-----------------------------------------------------------------------------
(* What a step does to the runs: one goes on (or begins), the others may be *)
(* halted.                                                                  *)
SameTrait(a, b) ==
    /\ b.kind = a.kind /\ b.origin = a.origin /\ b.type = a.type /\ b.config = a.config
    /\ b.marks = a.marks /\ b.empty = a.empty /\ b.item = a.item /\ b.batch = a.batch
OnlyHalts(a, b) ==
    /\ SameTrait(a, b) /\ b.root = a.root /\ b.stage = a.stage /\ b.left = a.left /\ b.done = a.done
    /\ a.halt = "stopped" => b.halt = "stopped"
    /\ b.halt = "no" => a.halt = "no"
    /\ a.stage \in {"none", "resolving"} => b.halt = a.halt
Continues(a, b) ==
    /\ SameTrait(a, b) /\ b.root = a.root /\ b.left \subseteq a.left /\ b.halt = a.halt
    /\ a.stage # "none" /\ b.stage \in {"asking", "storing", "over", "lost"}
    /\ b.stage = "asking" => a.stage = "asking"
OthersHalt(r) == \A q \in Runs : q # r => OnlyHalts(runs[q], runs'[q])

LEMMA HaltsItself == ASSUME NEW a PROVE OnlyHalts(a, a)
BY DEF OnlyHalts, SameTrait

(* What both have in common.                                                *)
Follows(a, b) ==
    /\ SameTrait(a, b) /\ b.root = a.root /\ b.left \subseteq a.left
    /\ b.stage \in {"hydrating", "resolving", "asking"} => a.stage = b.stage
    /\ b.stage = "none" <=> a.stage = "none"
    /\ b.halt = "no" => a.halt = "no"
    /\ a.halt = "stopped" => b.halt = "stopped"
LEMMA HaltFollows == ASSUME NEW a, NEW b, OnlyHalts(a, b) PROVE Follows(a, b)
BY DEF OnlyHalts, Follows
LEMMA ContinueFollows == ASSUME NEW a, NEW b, Continues(a, b) PROVE Follows(a, b)
BY DEF Continues, Follows

(* Nobody who was stopped is forgotten.                                     *)
Remembers(r) ==
    /\ OthersHalt(r)
    /\ r \in Runs /\ runs[r].halt = "stopped" =>
          runs'[r].halt = "stopped" /\ runs'[r].origin = runs[r].origin
LEMMA ExcusedStays ==
    ASSUME NEW r, Remembers(r), NEW n, Excused(n) PROVE Excused(n)'
<1>1. PICK q \in Runs : runs[q].halt = "stopped" /\ runs[q].origin = n
  BY DEF Excused
<1> QED
  BY <1>1 DEF Excused, Remembers, OthersHalt, OnlyHalts, SameTrait

LEMMA DueBefore ==
    ASSUME NEW p, Follows(runs[p], runs'[p]), Due(p)' PROVE Due(p)
BY SMTT(30) DEF Follows, SameTrait, Due, Aborted, Registers

(* The items of p, in a document that takes the place of another.           *)
WaitsOn(old, new, p) ==
    new[runs[p].root].gen.batch = p =>
        /\ old[runs[p].root].gen.batch = p
        /\ \A i \in runs'[p].left : new[runs[p].root].gen.items[i]
                                       \in {old[runs[p].root].gen.items[i], "loading", "none"}
LEMMA OwedAgain ==
    ASSUME NEW r, Remembers(r), NEW p, Follows(runs[p], runs'[p]),
           NEW old, NEW new, Owed(old, p), WaitsOn(old, new, p)
    PROVE  Owed(new, p)'
<1>0. PICK n : n = runs[p].root
  OBVIOUS
<1>1. runs'[p].root = n /\ runs'[p].left \subseteq runs[p].left
  BY <1>0 DEF Follows
<1>2. CASE new[n].gen.batch # p
  BY <1>1, <1>2 DEF Owed
<1>3. CASE new[n].gen.batch = p /\ Excused(n)
  BY <1>3, ExcusedStays, <1>0, <1>1 DEF Owed, Excused
<1>4. CASE new[n].gen.batch = p /\ Waits(old[n].gen, runs[p].left)
  <2>1. Waits(new[n].gen, runs'[p].left)
    BY <1>0, <1>1, <1>4 DEF WaitsOn, Waits
  <2> QED
    BY <1>0, <1>1, <2>1, SMTT(30) DEF Owed, Waits
<1> QED
  BY <1>0, <1>2, <1>3, <1>4 DEF Owed, WaitsOn

LEMMA PairStays ==
    ASSUME NEW r, Remembers(r), NEW q, NEW p, Late(q, p), Alone(q, p),
           Follows(runs[q], runs'[q]), Follows(runs[p], runs'[p])
    PROVE  Late(q, p)' /\ Alone(q, p)'
<1>1. Due(p)' => Due(p)
  BY DueBefore
<1>2. ASSUME Due(p)' PROVE runs'[p].root = runs[p].root /\ runs'[p].left \subseteq runs[p].left
                          /\ runs'[p].origin = runs[p].origin
  BY DEF Follows, SameTrait
<1>3. /\ runs'[q].root = runs[q].root /\ runs'[q].origin = runs[q].origin
      /\ runs'[q].kind = runs[q].kind /\ runs'[q].marks = runs[q].marks
      /\ runs'[q].item = runs[q].item /\ runs'[q].batch = runs[q].batch
      /\ runs'[q].stage = "resolving" => runs[q].stage = "resolving"
      /\ runs'[q].stage # "none" => runs[q].stage # "none"
  BY DEF Follows, SameTrait
<1>4. Late(q, p)'
  <2> SUFFICES ASSUME runs'[q].stage = "resolving", ~ runs'[q].marks, Due(p)',
                      runs'[q].root = runs'[p].root, runs'[q].batch = p
               PROVE  runs'[q].item \notin runs'[p].left \/ Excused(runs[p].root)'
    BY <1>2 DEF Late, Excused
  <2> QED
    BY <1>2, <1>3, <1>1, ExcusedStays DEF Late
<1> QED
  BY <1>4, <1>1, <1>2, <1>3 DEF Alone, Registers

(* Where batches come from.                                                 *)
Known == Batches \cup {0} \cup {p \in Runs : ~ Early(p)'}
LEMMA UnbornStays ==
    ASSUME Unborn, \A p \in Runs : Early(p)' => Early(p), Batches' \subseteq Known
    PROVE  Unborn'
BY Sizes DEF Unborn, Known
LEMMA BatchesStay ==
    ASSUME \A n \in Ids : /\ nodes'[n].gen.batch \in Known
                          /\ entry'.nodes[n].gen.batch \in Known
                          /\ clipboard'.nodes[n].gen.batch \in Known,
           \A q \in Runs : runs'[q].batch \in Known
    PROVE  Batches' \subseteq Known
BY DEF Batches

-----------------------------------------------------------------------------
(* A run goes on, the others do nothing.                                    *)
GoesOn(r) ==
    /\ Continues(runs[r], runs'[r]) /\ \A q \in Runs : q # r => runs'[q] = runs[q]
    /\ runs'[r].stage = "storing" => OneResult(r)
    /\ \A t \in Ids : requests'[t] \in {0, requests[t]}
    /\ UNCHANGED <<entry, clipboard>>
    /\ \A n \in Ids : nodes'[n].gen.batch \in {nodes[n].gen.batch, r}

LEMMA ThoseWhoGo ==
    ASSUME NEW r, GoesOn(r), NEW p \in Runs
    PROVE  Remembers(r) /\ Follows(runs[p], runs'[p])
<1>1. \A q \in Runs : q # r => OnlyHalts(runs[q], runs'[q])
  BY HaltsItself DEF GoesOn
<1>2. Remembers(r)
  BY <1>1 DEF Remembers, OthersHalt, GoesOn, Continues, SameTrait
<1>3. CASE p = r
  BY <1>3, <1>2, ContinueFollows DEF GoesOn
<1>4. CASE p # r
  BY <1>4, <1>1, <1>2, HaltFollows
<1> QED
  BY <1>3, <1>4

LEMMA StillOwed ==
    ASSUME NEW r, Remembers(r), NEW p, Follows(runs[p], runs'[p]), Owed(nodes, p),
           WaitsOn(nodes, nodes', p) \/ Excused(runs[p].root)
    PROVE  Owed(nodes, p)'
<1>0. CASE Excused(runs[p].root)
  <2>1. PICK n : n = runs[p].root
    OBVIOUS
  <2> QED
    BY <1>0, <2>1, ExcusedStays DEF Owed, Excused, Follows
<1> SUFFICES ASSUME WaitsOn(nodes, nodes', p) PROVE Owed(nodes, p)'
  BY <1>0
<1>1. PICK old, new : old = nodes /\ new = nodes'
  OBVIOUS
<1> QED
  BY <1>1, OwedAgain DEF Owed
LEMMA EntryOwed ==
    ASSUME NEW r, Remembers(r), NEW p, Follows(runs[p], runs'[p]), Owed(entry.nodes, p),
           entry' = entry
    PROVE  Owed(entry.nodes, p)'
<1>1. PICK old : old = entry.nodes
  OBVIOUS
<1>2. Owed(old, p) /\ WaitsOn(old, old, p)
  BY <1>1 DEF WaitsOn
<1> QED
  BY <1>1, <1>2, OwedAgain DEF Owed

LEMMA OneGoesOn ==
    ASSUME OwedInv, NEW r \in Runs, GoesOn(r),
           \A p \in Runs : Due(p)' => WaitsOn(nodes, nodes', p) \/ Excused(runs[p].root)
    PROVE  OwedInv'
<1>1. \A p \in Runs : Remembers(r) /\ Follows(runs[p], runs'[p])
  BY ThoseWhoGo
<1>2. OwedNow'
  <2> SUFFICES ASSUME NEW p \in Runs, Due(p)' PROVE Owed(nodes, p)' /\ Owed(entry.nodes, p)'
    BY DEF OwedNow
  <2>2. Owed(nodes, p) /\ Owed(entry.nodes, p)
    BY <1>1, DueBefore DEF OwedInv, OwedNow
  <2> QED
    BY <1>1, <2>2, EntryOwed, StillOwed DEF GoesOn
<1>3. Unborn'
  <2>3. \A q \in Runs : runs'[q].batch = runs[q].batch
    BY <1>1 DEF Follows, SameTrait
  <2>4. Batches' \subseteq Known
    <3>1. /\ \A n \in Ids : /\ nodes[n].gen.batch \in Known
                            /\ entry.nodes[n].gen.batch \in Known
                            /\ clipboard.nodes[n].gen.batch \in Known
          /\ \A q \in Runs : runs[q].batch \in Known
      BY DEF Known, Batches
    <3> QED
      BY <2>3, <3>1, BatchesStay, SMTT(30) DEF GoesOn, Known, Early, Continues
  <2> QED
    BY <1>1, <2>4, UnbornStays DEF OwedInv, Early, Follows
<1>4. PairsFit'
  <2> SUFFICES ASSUME NEW q \in Runs, NEW p \in Runs PROVE Late(q, p)' /\ Alone(q, p)'
    BY DEF PairsFit
  <2> QED
    BY <1>1, PairStays DEF OwedInv, PairsFit
<1>5. StopsClean'
  <2> SUFFICES ASSUME NEW t \in Ids, NEW q \in Runs, requests'[t] = q
               PROVE  runs'[q].halt # "stopped" /\ (Registers(q)' => runs'[q].halt = "no")
    BY DEF StopsClean
  <2> QED
    BY Sizes DEF OwedInv, StopsClean, Registers, GoesOn, Continues, SameTrait
<1>6. TasksFit'
  <2> SUFFICES ASSUME NEW q \in Runs PROVE TaskFits(q)'
    BY DEF TasksFit
  <2>1. TaskFits(q)
    BY DEF OwedInv, TasksFit
  <2>2. CASE q # r
    BY <2>1, <2>2 DEF GoesOn, TaskFits, Registers, OneResult
  <2>3. CASE q = r
    BY <2>1, <2>3 DEF GoesOn, Continues, SameTrait, TaskFits, Registers, OneResult
  <2> QED
    BY <2>2, <2>3
<1> QED
  BY <1>2, <1>3, <1>4, <1>5, <1>6 DEF OwedInv

LEMMA StageTrait ==
    ASSUME NEW run \in RunSet, NEW stage \in Stages, NEW new, new = [run EXCEPT !.stage = stage]
    PROVE  /\ new \in RunSet /\ SameTrait(run, new) /\ new.stage = stage
           /\ new.root = run.root /\ new.left = run.left /\ new.done = run.done
           /\ new.halt = run.halt
<1>3. /\ new.kind = run.kind /\ new.origin = run.origin /\ new.type = run.type
      /\ new.item = run.item /\ new.batch = run.batch
  BY DEF RunSet
<1>4. new.config = run.config /\ new.marks = run.marks /\ new.empty = run.empty
  BY DEF RunSet
<1> QED
  BY <1>3, <1>4 DEF SameTrait, RunSet

LeftOnly(run, left, done) == [run EXCEPT !.left = left, !.done = done]
LEMMA LeftTrait ==
    ASSUME NEW run \in RunSet, NEW left \in SUBSET Items, NEW done \in SUBSET Items,
           NEW new, new = LeftOnly(run, left, done)
    PROVE  /\ new \in RunSet /\ SameTrait(run, new) /\ new.stage = run.stage
           /\ new.root = run.root /\ new.left = left /\ new.done = done
           /\ new.halt = run.halt
<1>3. /\ new.kind = run.kind /\ new.origin = run.origin /\ new.type = run.type
      /\ new.item = run.item /\ new.batch = run.batch
  BY DEF RunSet, LeftOnly
<1>4. new.config = run.config /\ new.marks = run.marks /\ new.empty = run.empty
  BY DEF RunSet, LeftOnly
<1> QED
  BY <1>3, <1>4 DEF SameTrait, RunSet, LeftOnly

(* The stage of r moves on, in the document as a step leaves it.            *)
LEMMA StageGoes ==
    ASSUME CanvasInv, NEW r \in Runs, runs[r].stage # "none",
           NEW stage \in {"asking", "storing", "over", "lost"},
           stage = "asking" => runs[r].stage = "asking", stage = "storing" => OneResult(r),
           runs' = [runs EXCEPT ![r].stage = stage],
           \A t \in Ids : requests'[t] \in {0, requests[t]}, UNCHANGED <<entry, clipboard>>,
           \A n \in Ids : nodes'[n].gen.batch \in {nodes[n].gen.batch, r}
    PROVE  GoesOn(r)
<1>1. stage \in Stages /\ runs \in [Runs -> RunSet]
  BY DEF CanvasInv, GenTypeOK, Stages
<1>2. PICK run : run = [runs[r] EXCEPT !.stage = stage]
  OBVIOUS
<1>5. runs'[r] = run /\ \A q \in Runs \ {r} : runs'[q] = runs[q]
  BY <1>1, <1>2
<1>7. \A q \in Runs : q # r => runs'[q] = runs[q]
  BY <1>5
<1> QED
  BY <1>1, <1>2, StageTrait, <1>5, <1>7 DEF GoesOn, Continues

LEMMA DueNode ==
    ASSUME CanvasInv, NEW r, GoesOn(r), NEW p \in Runs, Due(p)'
    PROVE  /\ Due(p) /\ runs[p].root \in Ids /\ requests[runs[p].root] = p
           /\ runs'[p].left \subseteq runs[p].left
BY ThoseWhoGo, DueBefore, RunNode DEF CanvasInv, RegistryExact, LiveRunRegistered, Due,
   InFlight, Follows

LEMMA QuietlyGoesOn ==
    ASSUME CanvasInv, OwedInv, NEW r \in Runs, GoesOn(r),
           \A n \in Ids : SameItems(nodes[n], nodes'[n])
    PROVE  OwedInv'
<1>1. ASSUME NEW p \in Runs, Due(p)' PROVE WaitsOn(nodes, nodes', p)
  BY <1>1, DueNode, Zenon DEF WaitsOn, SameItems
<1> QED
  BY <1>1, OneGoesOn, SMTT(30)

LEMMA SameItemsAll ==
    ASSUME NEW ns, NEW new, new = ns
    PROVE  \A n \in Ids : /\ SameItems(ns[n], new[n])
                          /\ SameLook(ns[n], new[n]) /\ ns[n].gen.status = new[n].gen.status
BY DEF SameItems, SameLook
LEMMA BatchesSame ==
    ASSUME NEW ns, NEW new, \A n \in Ids : SameItems(ns[n], new[n])
    PROVE  \A n \in Ids : new[n].gen.batch = ns[n].gen.batch
BY DEF SameItems

(* A run whose end leaves all items alone.                                  *)
LEMMA QuietEnd ==
    ASSUME CanvasInv, OwedInv, NEW r \in Runs, runs[r].stage # "none", NEW targets,
           End(r, runs, requests, targets), UNCHANGED <<entry, clipboard>>,
           \A n \in Ids : SameItems(nodes[n], nodes'[n])
    PROVE  OwedInv'
<1>3. GoesOn(r)
  BY BatchesSame, StageGoes DEF End, Finished
<1> QED
  BY <1>3, QuietlyGoesOn

LEMMA HydrationOwes ==
    ASSUME CanvasInv, OwedInv, NEW r \in Runs, HydratedToNothing(r) \/ Canceled(r)
    PROVE  OwedInv'
<1>1. UNCHANGED <<entry, clipboard>> /\ nodes' = nodes
  BY DEF HydratedToNothing, Canceled, graphVars
<1>2. \A n \in Ids : SameItems(nodes[n], nodes'[n])
  BY <1>1, SameItemsAll
<1>3. CASE HydratedToNothing(r)
  BY <1>1, <1>2, <1>3, QuietEnd DEF HydratedToNothing
<1>4. CASE Canceled(r)
  <2>1. PICK targets : targets = {runs[r].root} \cup IF Registers(r) THEN {} ELSE {runs[r].origin}
    OBVIOUS
  <2> QED
    BY <1>1, <1>2, <1>4, <2>1, QuietEnd DEF Canceled
<1> QED
  BY <1>3, <1>4

LEMMA StageOwes ==
    ASSUME CanvasInv, OwedInv, NEW r \in Runs, HydrationFails(r) \/ MediaAnswered(r)
    PROVE  OwedInv'
<1>1. UNCHANGED <<entry, clipboard>> /\ nodes' = nodes /\ requests' = requests
  BY DEF HydrationFails, MediaAnswered, graphVars
<1>2. \A n \in Ids : SameItems(nodes[n], nodes'[n])
  BY <1>1, SameItemsAll
<1>3. \A n \in Ids : nodes'[n].gen.batch \in {nodes[n].gen.batch, r}
  BY <1>1
<1>4. CASE HydrationFails(r)
  BY <1>1, <1>2, <1>3, <1>4, StageGoes, QuietlyGoesOn DEF HydrationFails
<1>5. CASE MediaAnswered(r)
  BY <1>1, <1>2, <1>3, <1>5, StageGoes, QuietlyGoesOn DEF MediaAnswered
<1> QED
  BY <1>4, <1>5

Stored(ns, n) ==
    IF n \in Live(ns)
    THEN Storing(ns, n) ELSE ns
LEMMA StoredLeaves ==
    ASSUME NEW ns \in [Ids -> NodeSet], NEW n, NEW new, new = Stored(ns, n)
    PROVE  \A m \in Ids : SameItems(ns[m], new[m])
<1>1. CASE n \in Live(ns)
  <2>2. SameItems(ns[n], new[n]) /\ \A m \in Ids \ {n} : new[m] = ns[m]
    BY <1>1, StoredIs DEF Live, Stored
  <2> QED
    BY <2>2 DEF SameItems
<1>2. CASE n \notin Live(ns)
  BY <1>2, SameItemsAll DEF Stored
<1> QED
  BY <1>1, <1>2

LEMMA MarkedLeaves ==
    ASSUME NEW ns \in [Ids -> NodeSet], NEW n, NEW mark \in Marks,
           NEW new, new = Marked(ns, n, mark)
    PROVE  \A m \in Ids : SameItems(ns[m], new[m])
BY MarkedIs DEF SameButStatus

LEMMA MediaStoredOwes ==
    ASSUME CanvasInv, OwedInv, NEW r \in Runs, MediaStored(r) PROVE OwedInv'
<1>1. PICK targets : targets = {runs[r].root} \cup IF Registers(r) THEN {} ELSE {runs[r].origin}
  OBVIOUS
<1>2. /\ runs[r].stage # "none" /\ End(r, runs, requests, targets) /\ UNCHANGED <<entry, clipboard>>
      /\ nodes' = IF runs[r].root \in Live(nodes)
                  THEN [nodes EXCEPT ![runs[r].root].filled = TRUE, ![runs[r].root].gen.shown = 0,
                                     ![runs[r].root].gen.status = "success"]
                  ELSE nodes
  BY <1>1 DEF MediaStored, GraphKeeps
<1>3. \A m \in Ids : SameItems(nodes[m], nodes'[m])
  <2>1. PICK n, new : n = runs[r].root /\ new = nodes'
    BY SMTT(30)
  <2>2. /\ nodes \in [Ids -> NodeSet]
        /\ new = Stored(nodes, n)
    BY <1>2, <2>1, NodesTyped DEF Stored, Storing
  <2> QED
    BY <2>1, <2>2, StoredLeaves
<1> QED
  BY <1>2, <1>3, QuietEnd, Zenon

LEMMA ImageEditedOwes ==
    ASSUME CanvasInv, OwedInv, NEW r \in Runs, ImageEdited(r) \/ ImageEditFails(r) PROVE OwedInv'
<1>1. /\ runs[r].stage # "none" /\ End(r, runs, requests, {runs[r].root})
      /\ UNCHANGED <<entry, clipboard>>
  BY DEF ImageEdited, ImageEditFails, GraphKeeps
<1>2. PICK new : new = nodes'
  OBVIOUS
<1>3. CASE ImageEdited(r)
  <2>1. PICK n : n = runs[r].root
    BY SMTT(30)
  <2>2. /\ nodes \in [Ids -> NodeSet]
        /\ new = Stored(nodes, n)
    BY <1>2, <1>3, <2>1, NodesTyped DEF ImageEdited, Stored, Storing
  <2> QED
    BY <1>1, <1>2, <2>2, StoredLeaves, QuietEnd
<1>4. CASE ImageEditFails(r)
  BY <1>1, <1>2, <1>4, MarkedLeaves, NodesTyped, InMarks, QuietEnd DEF ImageEditFails
<1> QED
  BY <1>3, <1>4

LEMMA MediaFailsOwes ==
    ASSUME CanvasInv, OwedInv, NEW r \in Runs, MediaFails(r) PROVE OwedInv'
<1>1. /\ runs[r].stage # "none" /\ End(r, runs, requests, {runs[r].root, runs[r].origin})
      /\ UNCHANGED <<entry, clipboard>>
      /\ \/ nodes' = Marked(Marked(nodes, runs[r].root, "error"), runs[r].origin, "error")
         \/ nodes' = Marked(nodes, runs[r].root, "error")
         \/ nodes' = nodes
  BY DEF MediaFails, GraphKeeps
<1>2. PICK mid : mid = Marked(nodes, runs[r].root, "error")
  OBVIOUS
<1>3. PICK new : new = nodes'
  OBVIOUS
<1>4. mid \in [Ids -> NodeSet] /\ \A m \in Ids : SameItems(nodes[m], mid[m])
  BY <1>2, MarkedIs, InMarks, NodesTyped DEF SameButStatus
<1>5. CASE new = Marked(mid, runs[r].origin, "error")
  BY <1>4, <1>5, MarkedLeaves, InMarks, <1>1, <1>3, QuietEnd DEF SameItems
<1>6. CASE new = mid
  BY <1>1, <1>3, <1>4, <1>6, QuietEnd
<1>7. CASE new = nodes
  BY <1>1, <1>3, <1>7, SameItemsAll, QuietEnd
<1> QED
  BY <1>1, <1>2, <1>3, <1>5, <1>6, <1>7

(* A retry touches the item it was asked about, of the batch it saw.        *)
RetryTouched(r, new, m, j) ==
    /\ m = runs[r].root /\ j = runs[r].item /\ ~ runs[r].marks
    /\ nodes[m].gen.batch = runs[r].batch
LEMMA RetryFailedIs ==
    ASSUME nodes \in [Ids -> NodeSet], NEW r \in Runs, NEW new, new = RetryFailed(r)
    PROVE  /\ \A m \in Ids : /\ SameLook(nodes[m], new[m]) /\ new[m].gen.batch = nodes[m].gen.batch
                             /\ new[m].gen.status = IF m = runs[r].root /\ m \in Live(nodes)
                                    THEN IF nodes[m].filled THEN "success" ELSE "error"
                                    ELSE nodes[m].gen.status
           /\ \A m \in Ids, j \in Items :
                 new[m].gen.items[j] = nodes[m].gen.items[j] \/ RetryTouched(r, new, m, j)
           /\ \A m \in Ids : m # runs[r].root \/ runs[r].marks => SameItems(nodes[m], new[m])
<1>0. PICK n : n = runs[r].root
  OBVIOUS
<1>1. PICK mid : mid = IF runs[r].marks THEN nodes ELSE RetryItem(nodes, r, "error")
  OBVIOUS
<1>2. PICK mark \in Marks : mark = IF nodes[n].filled THEN "success" ELSE "error"
  BY InMarks
<1>3. new = Marked(mid, n, mark)
  BY <1>0, <1>1, <1>2 DEF RetryFailed
<1>4. /\ mid \in [Ids -> NodeSet]
      /\ \A m \in Ids : /\ m # n \/ runs[r].marks => SameItems(nodes[m], mid[m])
                        /\ SameLook(nodes[m], mid[m])
                        /\ mid[m].gen.status = nodes[m].gen.status
                        /\ mid[m].gen.batch = nodes[m].gen.batch
      /\ \A m \in Ids, j \in Items :
            mid[m].gen.items[j] = nodes[m].gen.items[j] \/ RetryTouched(r, new, m, j)
  <2>1. CASE runs[r].marks
    BY <1>1, <2>1 DEF SameItems, SameLook
  <2>2. CASE ~ runs[r].marks
    <3>2. PICK error \in Marks : error = "error"
      BY InMarks
    <3> QED
      BY <1>0, <2>2, <1>1, <3>2, RetryItemIs DEF SameItems, RetryTouched
  <2> QED
    BY <2>1, <2>2
<1>5. /\ \A m \in Ids : SameButStatus(mid[m], new[m])
      /\ \A m \in Ids : new[m].gen.status = IF m = n /\ m \in Live(mid) THEN mark
                                            ELSE mid[m].gen.status
  BY <1>3, <1>4, MarkedIs
<1>8. \A m \in Ids : new[m].gen.status = IF m = runs[r].root /\ m \in Live(nodes)
                          THEN IF nodes[m].filled THEN "success" ELSE "error"
                          ELSE nodes[m].gen.status
  <2> TAKE m \in Ids
  <2>1. new[m].gen.status = IF m = n /\ m \in Live(nodes) THEN mark ELSE nodes[m].gen.status
    BY <1>4, <1>5 DEF Live, SameLook
  <2>2. CASE m = n
    BY <1>0, <1>2, <2>1, <2>2
  <2>3. CASE m # n
    BY <1>0, <2>1, <2>3
  <2> QED
    BY <2>2, <2>3
<1>9. \A m \in Ids, j \in Items :
         new[m].gen.items[j] = nodes[m].gen.items[j] \/ RetryTouched(r, new, m, j)
  BY <1>4, <1>5 DEF SameButStatus, SameItems
<1> QED
  BY <1>0, <1>4, <1>5, <1>8, <1>9 DEF SameButStatus, SameLook, SameItems

LEMMA RetryRefusedOwes ==
    ASSUME CanvasInv, OwedInv, NEW r \in Runs, RetryRefused(r) PROVE OwedInv'
<1>1. /\ runs[r].stage = "resolving" /\ runs' = [runs EXCEPT ![r].stage = "over"]
      /\ requests' = requests /\ UNCHANGED <<entry, clipboard>>
      /\ nodes' \in {nodes, RetryFailed(r)}
  BY DEF RetryRefused, GraphKeeps
<1>2. PICK new : new = nodes'
  OBVIOUS
<1>3. CASE new = nodes
  BY <1>2, <1>3, SameItemsAll, <1>1, StageGoes, QuietlyGoesOn
<1>4. CASE new = RetryFailed(r)
  <2>1. /\ \A m \in Ids : new[m].gen.batch = nodes[m].gen.batch
        /\ \A m \in Ids, j \in Items :
              new[m].gen.items[j] = nodes[m].gen.items[j] \/ RetryTouched(r, new, m, j)
    BY <1>4, RetryFailedIs, NodesTyped
  <2>2. GoesOn(r)
    BY <1>1, <1>2, <2>1, StageGoes
  <2>3. ASSUME NEW p \in Runs, Due(p)'
        PROVE  WaitsOn(nodes, nodes', p) \/ Excused(runs[p].root)
    <3>1. Due(p) /\ runs[p].root \in Ids /\ runs'[p].left \subseteq runs[p].left
      BY <2>2, <2>3, DueNode
    <3>3. CASE Excused(runs[p].root)
      BY <3>3, SMTT(30)
    <3>4. CASE ~ Excused(runs[p].root)
      <4>2. ASSUME nodes[runs[p].root].gen.batch = p, NEW i \in runs'[p].left
            PROVE  new[runs[p].root].gen.items[i] = nodes[runs[p].root].gen.items[i]
        BY <3>1, RunFields, <4>2, <1>1, <3>4, <2>1 DEF RetryTouched, CanvasInv, GenTypeOK,
           OwedInv, PairsFit, Late
      <4> QED
        BY <1>2, <2>1, <3>1, <4>2 DEF WaitsOn
    <3> QED
      BY <3>3, <3>4
  <2> QED
    BY <2>2, <2>3, OneGoesOn
<1> QED
  BY <1>1, <1>2, <1>3, <1>4

(* Only what a live run works on may change for the others.                 *)
LEMMA LivePair ==
    ASSUME CanvasInv, NEW r \in Runs, InFlight(r), ~ Aborted(r), NEW p \in Runs, Due(p),
           runs[p].root = runs[r].root
    PROVE  p = r
BY DEF CanvasInv, RegistryExact, LiveRunRegistered, Due, InFlight

LEMMA OthersWait ==
    ASSUME CanvasInv, NEW r \in Runs, GoesOn(r), InFlight(r), ~ Aborted(r),
           \A m \in Ids : m # runs[r].root => SameItems(nodes[m], nodes'[m]),
           NEW p \in Runs, p # r, Due(p)'
    PROVE  WaitsOn(nodes, nodes', p)
<1>1. Due(p) /\ runs[p].root \in Ids
  BY DueNode
<1>2. runs[p].root # runs[r].root
  BY <1>1, LivePair
<1> QED
  BY <1>1, <1>2 DEF WaitsOn, SameItems

LEMMA RetryFailsOwes ==
    ASSUME CanvasInv, OwedInv, NEW r \in Runs, RetryFails(r) PROVE OwedInv'
<1>1. /\ runs[r].stage # "none" /\ End(r, runs, requests, {runs[r].root})
      /\ UNCHANGED <<entry, clipboard>> /\ runs[r].kind = "retry"
      /\ runs[r].stage = "storing" \/ (runs[r].stage = "asking" /\ ~ Aborted(r))
  BY DEF RetryFails, GraphKeeps
<1>2. PICK new : new = nodes' /\ new = RetryFailed(r)
  BY DEF RetryFails
<1>3. /\ \A m \in Ids : new[m].gen.batch = nodes[m].gen.batch
      /\ \A m \in Ids : m # runs[r].root \/ runs[r].marks => SameItems(nodes[m], new[m])
  BY <1>2, RetryFailedIs, NodesTyped
<1>4. CASE runs[r].marks
  BY <1>1, <1>2, <1>3, <1>4, QuietEnd
<1>5. CASE ~ runs[r].marks
  <2>3. runs[r].stage = "asking" /\ ~ Aborted(r)
    BY <1>1, <1>5 DEF OwedInv, TasksFit, TaskFits, OneResult, MediaKinds
  <2>5. GoesOn(r) /\ InFlight(r)
    BY <1>1, <1>2, <1>3, <2>3, StageGoes DEF InFlight, End, Finished
  <2>7. \A m \in Ids : m # runs[r].root => SameItems(nodes[m], nodes'[m])
    BY <1>2, <1>3
  <2>8. ASSUME NEW p \in Runs, Due(p)' PROVE WaitsOn(nodes, nodes', p)
    BY <2>3, <2>5, <1>1, <2>7, <2>8, OthersWait DEF Due, Registers, GoesOn, Continues,
       SameTrait
  <2> QED
    BY <2>5, <2>8, OneGoesOn
<1> QED
  BY <1>4, <1>5

LEMMA RetryTextIs ==
    ASSUME nodes \in [Ids -> NodeSet], NEW r \in Runs, NEW n, n = runs[r].root,
           NEW new, new = RetryText(r)
    PROVE  /\ \A m \in Ids : SameItems(nodes[m], new[m]) /\ (m # n => new[m] = nodes[m])
           /\ n \in Live(nodes) => new[n].gen.status = "success" /\ new[n].type = "text"
           /\ n \notin Live(nodes) => new = nodes
<1>1. CASE n \in Live(nodes)
  <2>1. n \in Ids
    BY <1>1 DEF Live
  <2>0. PICK text \in Types : text = "text"
    BY DEF Types, Media
  <2>2. PICK mid : mid = Typing(nodes, n, text)
    OBVIOUS
  <2>3. /\ mid \in [Ids -> NodeSet] /\ \A m \in Ids \ {n} : mid[m] = nodes[m]
        /\ mid[n].gen = nodes[n].gen /\ mid[n].type = text
    BY <2>1, <2>2, TypedIs
  <2>40. PICK got : got = Storing(mid, n)
    BY SMTT(30)
  <2>4. new = got
    BY <1>1, <2>0, <2>2, <2>40 DEF RetryText, Typing, Storing
  <2>5. /\ got \in [Ids -> NodeSet] /\ \A m \in Ids \ {n} : got[m] = mid[m]
        /\ SameItems(mid[n], got[n]) /\ got[n].gen.status = "success"
        /\ got[n].type = mid[n].type
    BY <2>3, <2>1, <2>40, StoredIs
  <2> QED
    BY <1>1, <2>0, <2>1, <2>3, <2>4, <2>5 DEF SameItems
<1>2. CASE n \notin Live(nodes)
  BY <1>2 DEF RetryText, SameItems
<1> QED
  BY <1>1, <1>2

LEMMA RetryImageIs ==
    ASSUME nodes \in [Ids -> NodeSet], NEW r \in Runs, runs[r].item \in {0, Other} \cup Items,
           NEW n, n = runs[r].root, NEW new, new = RetryImage(r)
    PROVE  /\ \A m \in Ids : new[m].gen.batch = nodes[m].gen.batch /\ (m # n => new[m] = nodes[m])
           /\ n \in Live(nodes) =>
                 /\ new[n].gen.status = "success" /\ new[n].type = "image"
                 /\ new[n].filled
                 /\ \/ new[n].gen.primary = runs[r].item /\ new[n].gen.shown = runs[r].item
                    \/ /\ ~ runs[r].marks
                       /\ new[n].gen.primary = nodes[n].gen.primary
                       /\ new[n].gen.shown = nodes[n].gen.shown
           /\ n \notin Live(nodes) => new = nodes
<1>1. CASE n \in Live(nodes)
  <2>1. n \in Ids
    BY <1>1 DEF Live
  <2>2. PICK success \in Marks : success = "success"
    BY InMarks
  <2>3. PICK mid : mid = RetryItem(nodes, r, success)
    OBVIOUS
  <2>4. /\ mid \in [Ids -> NodeSet]
        /\ \A m \in Ids : /\ m # n => mid[m] = nodes[m]
                          /\ SameLook(nodes[m], mid[m])
                          /\ mid[m].gen.batch = nodes[m].gen.batch
    BY <2>3, RetryItemIs
  <2>5. PICK shown : shown = IF runs[r].marks \/ ~ nodes[n].filled
                             THEN ShowItem(mid, n, runs[r].item) ELSE mid
    OBVIOUS
  <2>6. /\ shown \in [Ids -> NodeSet] /\ \A m \in Ids \ {n} : shown[m] = mid[m]
        /\ shown[n].gen.batch = mid[n].gen.batch /\ shown[n].filled
        /\ \/ shown[n].gen.primary = runs[r].item /\ shown[n].gen.shown = runs[r].item
           \/ /\ ~ runs[r].marks
              /\ shown[n].gen.primary = mid[n].gen.primary
              /\ shown[n].gen.shown = mid[n].gen.shown
    <3>1. CASE runs[r].marks \/ ~ nodes[n].filled
      <4>1. PICK i \in {0, Other} \cup Items : i = runs[r].item
        OBVIOUS
      <4>2. shown = ShowItem(mid, n, i)
        BY <2>5, <3>1, <4>1
      <4>3. /\ shown \in [Ids -> NodeSet] /\ \A m \in Ids \ {n} : shown[m] = mid[m]
            /\ SameItems(mid[n], shown[n]) /\ shown[n].filled
            /\ shown[n].gen.primary = i /\ shown[n].gen.shown = i
        BY <2>4, <2>1, <4>2, ShowItemIs
      <4> QED
        BY <4>1, <4>3 DEF SameItems
    <3>2. CASE ~ (runs[r].marks \/ ~ nodes[n].filled)
      BY <2>5, <3>2, <2>1, <2>4 DEF SameLook
    <3> QED
      BY <3>1, <3>2
  <2>70. PICK image \in Types : image = "image"
    BY DEF Types, Media
  <2>7. PICK typed : typed = Typing(shown, n, image)
    OBVIOUS
  <2>8. /\ typed \in [Ids -> NodeSet] /\ \A m \in Ids \ {n} : typed[m] = shown[m]
        /\ typed[n].gen = shown[n].gen /\ typed[n].type = image
        /\ typed[n].filled = shown[n].filled
    <3>1. shown \in [Ids -> NodeSet]
      BY <2>6, SMTT(30)
    <3> QED
      BY <2>1, <2>7, <3>1, TypedIs
  <2>9. new = Marked(typed, n, success)
    BY <1>1, <2>2, <2>3, <2>5, <2>7, <2>70 DEF RetryImage, Typing
  <2>11. /\ \A m \in Ids : SameButStatus(typed[m], new[m])
         /\ new \in [Ids -> NodeSet]
         /\ \A m \in Ids : new[m].gen.status = IF m = n /\ m \in Live(typed) THEN success
                                               ELSE typed[m].gen.status
    BY <2>2, <2>8, <2>9, MarkedIs, SMTT(30)
  <2>12. \A m \in Ids : new[m].gen.batch = nodes[m].gen.batch
    BY <2>4, <2>6, <2>8, <2>11 DEF SameButStatus, SameItems
  <2>13. \A m \in Ids \ {n} : new[m] = nodes[m]
    <3>1. \A m \in Ids \ {n} : new[m] = typed[m]
      BY <2>9 DEF Marked
    <3> QED
      BY <2>4, <2>6, <2>8, <3>1
  <2>14. new[n].gen.status = "success" /\ new[n].type = "image"
    BY <2>1, <2>2, <2>8, <2>70, <2>11, SMTT(30) DEF SameButStatus, SameLook, Live
  <2>15. new[n].filled
    BY <2>1, <2>6, <2>8, <2>11 DEF SameButStatus, SameLook
  <2>16. \/ new[n].gen.primary = runs[r].item /\ new[n].gen.shown = runs[r].item
         \/ /\ ~ runs[r].marks
            /\ new[n].gen.primary = nodes[n].gen.primary
            /\ new[n].gen.shown = nodes[n].gen.shown
    BY <2>1, <2>4, <2>6, <2>8, <2>11 DEF SameButStatus, SameLook
  <2> QED
    BY <1>1, <2>12, <2>13, <2>14, <2>15, <2>16
<1>2. CASE n \notin Live(nodes)
  BY <1>2 DEF RetryImage
<1> QED
  BY <1>1, <1>2

LEMMA RetryStreamsIs ==
    ASSUME CanvasInv, NEW r \in Runs, RetryStreams(r), NEW n, n = runs[r].root,
           NEW new, new = nodes'
    PROVE  /\ \A m \in Ids : SameItems(nodes[m], new[m]) /\ (m # n => new[m] = nodes[m])
           /\ n \in Live(nodes) => new[n].gen.status = "loading" /\ new[n].type = "text"
           /\ n \notin Live(nodes) => new = nodes
<1>1. PICK mid \in [Ids -> NodeSet], mark \in Marks :
          mid = RetryText(r) /\ mark = "loading" /\ new = Marked(mid, n, mark)
  BY RetryStreamsRewrites
<1>2. /\ \A m \in Ids : SameItems(nodes[m], mid[m]) /\ (m # n => mid[m] = nodes[m])
      /\ n \in Live(nodes) => mid[n].type = "text"
      /\ n \notin Live(nodes) => mid = nodes
  BY <1>1, NodesTyped, RetryTextIs
<1>3. /\ \A m \in Ids : SameButStatus(mid[m], new[m])
      /\ \A m \in Ids : new[m].gen.status = IF m = n /\ m \in Live(mid) THEN mark
                                            ELSE mid[m].gen.status
  BY <1>1, MarkedIs
<1>4. \A m \in Ids : m # n => new[m] = mid[m]
  BY <1>1 DEF Marked
<1>5. \A m \in Ids : SameItems(nodes[m], new[m])
  BY <1>2, <1>3 DEF SameItems, SameButStatus
<1>6. n \in Live(nodes) => new[n].gen.status = "loading" /\ new[n].type = "text"
  BY <1>1, <1>2, <1>3 DEF Live, SameButStatus, SameLook
<1>7. n \notin Live(nodes) => new = nodes
  BY <1>1, <1>2 DEF Marked
<1> QED
  BY <1>2, <1>4, <1>5, <1>6, <1>7

LEMMA RetryStreamsOwes ==
    ASSUME CanvasInv, OwedInv, NEW r \in Runs, RetryStreams(r) PROVE OwedInv'
<1>1. PICK n, new : n = runs[r].root /\ new = nodes'
  OBVIOUS
<1>2. /\ runs' = runs /\ requests' = requests /\ UNCHANGED <<entry, clipboard>>
      /\ runs[r].stage = "asking"
  BY DEF RetryStreams, genVars, GraphKeeps
<1>3. \A m \in Ids : SameItems(nodes[m], nodes'[m])
  BY <1>1, RetryStreamsIs
<1>4. GoesOn(r)
  BY <1>2, <1>3 DEF GoesOn, Continues, SameTrait, SameItems
<1> QED
  BY <1>3, <1>4, QuietlyGoesOn

LEMMA RetrySucceedsOwes ==
    ASSUME CanvasInv, OwedInv, NEW r \in Runs, RetrySucceeds(r) PROVE OwedInv'
<1>1. /\ runs[r].stage = "asking" /\ ~ Aborted(r) /\ End(r, runs, requests, {runs[r].root})
      /\ UNCHANGED <<entry, clipboard>> /\ runs[r].kind = "retry"
      /\ nodes' = RetryText(r) \/ nodes' = RetryImage(r)
  BY DEF RetrySucceeds, GraphKeeps
<1>2. PICK n, new : n = runs[r].root /\ new = nodes'
  OBVIOUS
<1>3. /\ \A m \in Ids : new[m].gen.batch = nodes[m].gen.batch
      /\ \A m \in Ids : m # n => new[m] = nodes[m]
  <2>1. CASE new = RetryText(r)
    BY <1>2, <2>1, RetryTextIs, NodesTyped DEF SameItems
  <2>2. CASE new = RetryImage(r)
    BY RunFields, <1>2, <2>2, RetryImageIs, NodesTyped DEF CanvasInv, GenTypeOK
  <2> QED
    BY <1>1, <1>2, <2>1, <2>2
<1>5. GoesOn(r) /\ InFlight(r)
  BY <1>1, <1>2, <1>3, StageGoes DEF InFlight, End, Finished
<1>8. ASSUME NEW p \in Runs, Due(p)' PROVE WaitsOn(nodes, nodes', p)
  BY <1>1, <1>5, <1>2, <1>3, <1>8, OthersWait DEF Due, Registers, GoesOn, Continues, SameTrait,
     SameItems
<1> QED
  BY <1>5, <1>8, OneGoesOn

-----------------------------------------------------------------------------
(* An answer writes one item of the root.                                   *)
LEMMA ItemMarkIs ==
    ASSUME NEW ns \in [Ids -> NodeSet], NEW r \in Runs, NEW i \in Items, NEW mark \in Marks,
           NEW n, n = runs[r].root, NEW new, new = ItemMark(ns, r, i, mark)
    PROVE  /\ new \in [Ids -> NodeSet] /\ Live(new) = Live(ns)
           /\ \A m \in Ids : /\ m # n => new[m] = ns[m]
                             /\ SameLook(ns[m], new[m])
                             /\ new[m].gen.status = ns[m].gen.status
                             /\ new[m].gen.batch = ns[m].gen.batch
                             /\ \A j \in Items \ {i} : new[m].gen.items[j] = ns[m].gen.items[j]
<1>1. CASE n \in Live(ns) /\ new = SetItem(ns, n, i, mark)
  <2>1. n \in Ids
    BY <1>1 DEF Live
  <2>2. /\ new \in [Ids -> NodeSet] /\ \A m \in Ids \ {n} : new[m] = ns[m]
        /\ SameLook(ns[n], new[n])
        /\ new[n].gen.status = ns[n].gen.status /\ new[n].gen.batch = ns[n].gen.batch
        /\ \A j \in Items \ {i} : new[n].gen.items[j] = ns[n].gen.items[j]
    <3>1. PICK got : got = SetItem(ns, n, i, mark)
      OBVIOUS
    <3>2. /\ got \in [Ids -> NodeSet] /\ \A m \in Ids \ {n} : got[m] = ns[m]
          /\ SameLook(ns[n], got[n])
          /\ got[n].gen.status = ns[n].gen.status /\ got[n].gen.batch = ns[n].gen.batch
          /\ \A j \in Items \ {i} : got[n].gen.items[j] = ns[n].gen.items[j]
      BY <2>1, <3>1, ItemSetIs, SMTT(30)
    <3>3. new = got
      BY <1>1, <3>1
    <3> QED
      BY <3>2, <3>3
  <2>3. \A m \in Ids : SameLook(ns[m], new[m])
    BY <2>1, <2>2 DEF SameLook
  <2>4. Live(new) = Live(ns)
    BY <2>3 DEF Live, SameLook
  <2> QED
    BY <2>2, <2>3, <2>4, SMTT(30)
<1>2. CASE new = ns
  BY <1>2 DEF SameLook
<1>3. (n \in Live(ns) /\ new = SetItem(ns, n, i, mark)) \/ new = ns
  BY DEF ItemMark, Owns, SetItem
<1> QED
  BY <1>1, <1>2, <1>3

LEMMA TextShownIs ==
    ASSUME NEW ns \in [Ids -> NodeSet], NEW r \in Runs, NEW i \in Items,
           NEW n, n = runs[r].root, NEW new, new = TextShown(ns, r, i)
    PROVE  /\ new \in [Ids -> NodeSet]
           /\ \A m \in Ids : /\ m # n => new[m] = ns[m]
                             /\ SameItems(ns[m], new[m]) /\ new[m].type = ns[m].type
                             /\ new[m].gen.status = ns[m].gen.status
           /\ new # ns => /\ n \in Live(ns) /\ new[n].filled
                          /\ new[n].gen.primary = i /\ new[n].gen.shown = i
<1>1. CASE n \in Live(ns) /\ new = ShowItem(ns, n, i)
  <2>1. n \in Ids
    BY <1>1 DEF Live
  <2>0. PICK k \in {0, Other} \cup Items : k = i
    OBVIOUS
  <2>2. PICK got : got = ShowItem(ns, n, k)
    OBVIOUS
  <2>4. new = got
    BY <1>1, <2>0, <2>2
  <2> QED
    BY <1>1, <2>0, <2>1, <2>2, ShowItemIs, <2>4 DEF SameItems
<1>2. CASE new = ns
  BY <1>2 DEF SameItems
<1>3. (n \in Live(ns) /\ new = ShowItem(ns, n, i)) \/ new = ns
  BY DEF TextShown
<1> QED
  BY <1>1, <1>2, <1>3

(* What an answer may write, whatever it is.                                *)
OneItem(r, i, ns) ==
    /\ ns \in [Ids -> NodeSet] /\ Live(ns) = Live(nodes)
    /\ \A m \in Ids : /\ ns[m].gen.batch = nodes[m].gen.batch /\ ns[m].type = nodes[m].type
                      /\ m # runs[r].root =>
                            SameItems(nodes[m], ns[m]) /\ SameLook(nodes[m], ns[m])
                      /\ \A j \in Items \ {i} : ns[m].gen.items[j] = nodes[m].gen.items[j]

LEMMA OneItemAgain ==
    ASSUME NEW r, NEW i, NEW mid, OneItem(r, i, mid),
           NEW ns \in [Ids -> NodeSet], Live(ns) = Live(nodes),
           \A m \in Ids : /\ SameItems(mid[m], ns[m]) /\ ns[m].type = nodes[m].type
                          /\ m # runs[r].root => SameLook(nodes[m], ns[m])
    PROVE  OneItem(r, i, ns)
<1>3. \A m \in Ids : \A j \in Items \ {i} : ns[m].gen.items[j] = nodes[m].gen.items[j]
  BY DEF OneItem, SameItems
<1> QED
  BY <1>3 DEF OneItem, SameItems

LEMMA ItemMarkWrites ==
    ASSUME CanvasInv, NEW r \in Runs, NEW i \in Items, NEW mark \in Marks,
           NEW ns, ns = ItemMark(nodes, r, i, mark)
    PROVE  /\ OneItem(r, i, ns)
           /\ \A m \in Ids : SameLook(nodes[m], ns[m]) /\ ns[m].gen.status = nodes[m].gen.status
<1>1. PICK n : n = runs[r].root
  OBVIOUS
<1> QED
  BY <1>1, ItemMarkIs, NodesTyped DEF OneItem, SameItems, SameLook

LEMMA TextWrites ==
    ASSUME CanvasInv, NEW r \in Runs, NEW i \in Items, NEW ns, ns = TextWritten(r, i)
    PROVE  /\ OneItem(r, i, ns)
           /\ \A m \in Ids : /\ ns[m].gen.status = nodes[m].gen.status
                             /\ \/ SameLook(nodes[m], ns[m])
                                \/ ns[m].filled /\ ns[m].gen.primary = ns[m].gen.shown
<1>1. PICK n : n = runs[r].root
  OBVIOUS
<1>2. PICK success \in Marks : success = "success"
  BY InMarks
<1>3. PICK mid : mid = ItemMark(nodes, r, i, success)
  OBVIOUS
<1>4. /\ OneItem(r, i, mid)
      /\ \A m \in Ids : SameLook(nodes[m], mid[m]) /\ mid[m].gen.status = nodes[m].gen.status
  BY <1>3, ItemMarkWrites
<1>5. mid \in [Ids -> NodeSet] /\ ns = TextShown(mid, r, i)
  BY <1>2, <1>3, <1>4 DEF TextWritten, OneItem
<1>6. PICK new : new = TextShown(mid, r, i)
  OBVIOUS
<1>7. /\ new \in [Ids -> NodeSet]
      /\ \A m \in Ids : /\ m # n => new[m] = mid[m]
                        /\ SameItems(mid[m], new[m]) /\ new[m].type = mid[m].type
                        /\ new[m].gen.status = mid[m].gen.status
      /\ new # mid => /\ n \in Live(mid) /\ new[n].filled
                      /\ new[n].gen.primary = i /\ new[n].gen.shown = i
  BY <1>1, <1>5, <1>6, TextShownIs
<1>8. ns = new
  BY <1>5, <1>6
<1>12. \A m \in Ids : \/ SameLook(nodes[m], ns[m])
                      \/ ns[m].filled /\ ns[m].gen.primary = ns[m].gen.shown
  <2>1. CASE new = mid
    BY <1>4, <1>8, <2>1
  <2>2. CASE new # mid
    BY <1>1, <1>4, <1>7, <1>8, <2>2
  <2> QED
    BY <2>1, <2>2
<1> QED
  BY <1>1, <1>4, <1>7, <1>8, <1>12 DEF OneItem, SameItems, SameLook, Live

LEMMA ImageWrites ==
    ASSUME CanvasInv, NEW r \in Runs, NEW i \in Items, NEW ns, ns = ImageWritten(r, i)
    PROVE  /\ OneItem(r, i, ns)
           /\ \A m \in Ids : /\ \/ ns[m].gen.status = nodes[m].gen.status
                                \/ /\ m = runs[r].origin /\ runs[r].config
                                   /\ ns[m].gen.status = "success"
                             /\ \/ SameLook(nodes[m], ns[m])
                                \/ ns[m].filled /\ ns[m].gen.primary = ns[m].gen.shown
           /\ runs[r].root \in Live(nodes) /\ nodes[runs[r].root].gen.primary = 0
                 => ns[runs[r].root].filled
<1>1. PICK n : n = runs[r].root
  OBVIOUS
<1>2. PICK success \in Marks : success = "success"
  BY InMarks
<1>3. PICK mid : mid = ItemMark(nodes, r, i, success)
  OBVIOUS
<1>4. /\ OneItem(r, i, mid)
      /\ \A m \in Ids : SameLook(nodes[m], mid[m]) /\ mid[m].gen.status = nodes[m].gen.status
  BY <1>3, ItemMarkWrites
<1>5. mid \in [Ids -> NodeSet] /\ Live(mid) = Live(nodes)
  BY <1>4 DEF OneItem
<1>6. PICK first \in BOOLEAN : first = (n \in Live(nodes) /\ nodes[n].gen.primary = 0)
  OBVIOUS
<1>7. PICK k \in {0, Other} \cup Items : k = IdOf(r, i)
  BY DEF IdOf
<1>8. PICK shown : shown = IF first THEN ShowItem(mid, n, k) ELSE mid
  OBVIOUS
<1>9. /\ shown \in [Ids -> NodeSet]
      /\ \A m \in Ids : /\ SameItems(mid[m], shown[m]) /\ shown[m].type = mid[m].type
                        /\ shown[m].gen.status = mid[m].gen.status
                        /\ \/ m # n /\ shown[m] = mid[m]
                           \/ shown[m] = mid[m]
                           \/ shown[m].filled /\ shown[m].gen.primary = shown[m].gen.shown
      /\ first => shown[n].filled
  <2>1. CASE first
    <3>1. n \in Ids
      BY <1>6, <2>1 DEF Live
    <3> QED
      BY <3>1, <1>5, <1>8, <2>1, ShowItemIs DEF SameItems
  <2>2. CASE ~ first
    BY <1>8, <2>2, <1>5 DEF SameItems
  <2> QED
    BY <2>1, <2>2
<1>10. PICK new : new = IF runs[r].config THEN Marked(shown, runs[r].origin, success) ELSE shown
  OBVIOUS
<1>11. ns = new
  BY <1>1, <1>2, <1>3, <1>6, <1>7, <1>8, <1>10 DEF ImageWritten
<1>12. /\ new \in [Ids -> NodeSet]
       /\ \A m \in Ids : /\ SameButStatus(shown[m], new[m])
                         /\ \/ new[m].gen.status = shown[m].gen.status
                            \/ /\ m = runs[r].origin /\ runs[r].config
                               /\ new[m].gen.status = success
  <2>1. CASE runs[r].config
    BY <1>10, <2>1, <1>9, MarkedIs
  <2>2. CASE ~ runs[r].config
    BY <1>9, <1>10, <2>2 DEF SameButStatus, SameItems, SameLook
  <2> QED
    BY <2>1, <2>2
<1>13. /\ ns \in [Ids -> NodeSet]
       /\ \A m \in Ids : SameItems(mid[m], ns[m]) /\ ns[m].type = nodes[m].type
  BY <1>4, <1>9, <1>11, <1>12 DEF SameButStatus, SameItems, SameLook
<1>14. \A m \in Ids : m # n => SameLook(nodes[m], ns[m])
  <2>1. \A m \in Ids : m # n => shown[m] = mid[m]
    BY <1>8, <1>9 DEF ShowItem
  <2> QED
    BY <1>4, <1>11, <1>12, <2>1 DEF SameButStatus, SameLook
<1>16. OneItem(r, i, ns)
  BY <1>1, <1>4, <1>13, <1>14, OneItemAgain DEF Live
<1>17. \A m \in Ids : \/ ns[m].gen.status = nodes[m].gen.status
                      \/ /\ m = runs[r].origin /\ runs[r].config
                         /\ ns[m].gen.status = "success"
  BY <1>2, <1>4, <1>9, <1>11, <1>12
<1>18. \A m \in Ids : \/ SameLook(nodes[m], ns[m])
                      \/ ns[m].filled /\ ns[m].gen.primary = ns[m].gen.shown
  <2> TAKE m \in Ids
  <2>1. SameLook(shown[m], ns[m]) /\ SameLook(nodes[m], mid[m])
    BY <1>4, <1>11, <1>12 DEF SameButStatus
  <2>2. CASE shown[m] = mid[m]
    BY <2>1, <2>2 DEF SameLook
  <2>3. CASE shown[m].filled /\ shown[m].gen.primary = shown[m].gen.shown
    BY <2>1, <2>3 DEF SameLook
  <2> QED
    BY <1>9, <2>2, <2>3
<1>19. n \in Live(nodes) /\ nodes[n].gen.primary = 0 => ns[n].filled
  <2> SUFFICES ASSUME n \in Live(nodes), nodes[n].gen.primary = 0 PROVE ns[n].filled
    OBVIOUS
  <2> QED
    BY <1>11, <1>12, <1>6, <1>9 DEF SameButStatus, SameLook, Live
<1> QED
  BY <1>1, <1>16, <1>17, <1>18, <1>19

(* How a run that ends leaves the nodes.                                    *)
LEMMA ClosedIs ==
    ASSUME CanvasInv, NEW r \in Runs, NEW ns \in [Ids -> NodeSet], NEW done \in SUBSET Items,
           NEW new, new = Closed(ns, r, done)
    PROVE  /\ new \in [Ids -> NodeSet]
           /\ \A m \in Ids : /\ new[m].type = ns[m].type
                             /\ new[m].gen.batch \in {ns[m].gen.batch, r}
                             /\ m # runs[r].root \/ runs[r].kind # "text" \/ Aborted(r)
                                  => SameButStatus(ns[m], new[m])
           /\ Aborted(r) => \A m \in Ids : new[m].gen.status \in {ns[m].gen.status, "idle"}
           /\ ~ Aborted(r) => \A m \in Ids :
                 IF m \in Live(ns) /\ (m = runs[r].root \/ (m = runs[r].origin /\ runs[r].config))
                 THEN new[m].gen.status = IF done # {} THEN "success" ELSE "error"
                 ELSE new[m].gen.status = ns[m].gen.status
<1>1. PICK n : n = runs[r].root
  OBVIOUS
<1>2. CASE Aborted(r)
  <2>1. PICK idle \in Marks : idle = "idle"
    BY InMarks
  <2>2. new = Marked(ns, runs[r].origin, idle) \/ new = ns
    BY <1>2, <2>1 DEF Closed
  <2>3. CASE new = ns
    BY <1>2, <2>3 DEF SameButStatus, SameItems, SameLook
  <2>4. CASE new = Marked(ns, runs[r].origin, idle)
    <3>1. /\ new \in [Ids -> NodeSet] /\ \A m \in Ids : SameButStatus(ns[m], new[m])
          /\ \A m \in Ids : new[m].gen.status = IF m = runs[r].origin /\ m \in Live(ns) THEN idle
                                                ELSE ns[m].gen.status
      <4>1. PICK got : got = Marked(ns, runs[r].origin, idle)
        OBVIOUS
      <4> QED
        BY <4>1, MarkedIs, <2>4
    <3> QED
      BY <1>2, <3>1, <2>1 DEF SameButStatus, SameItems, SameLook
  <2> QED
    BY <2>2, <2>3, <2>4
<1>3. CASE ~ Aborted(r)
  <2>1. PICK mark \in Marks : mark = IF done # {} THEN "success" ELSE "error"
    BY InMarks
  <2>2. PICK kept : kept = IF runs[r].kind = "text" THEN KeepTexts(ns, r, done) ELSE ns
    OBVIOUS
  <2>3. /\ kept \in [Ids -> NodeSet]
        /\ \A m \in Ids : m # n \/ runs[r].kind # "text" => kept[m] = ns[m]
        /\ \A m \in Ids : /\ kept[m].type = ns[m].type
                          /\ kept[m].gen.status = ns[m].gen.status
                          /\ kept[m].gen.batch \in {ns[m].gen.batch, r}
    <3>1. CASE runs[r].kind = "text"
      BY <2>2, <3>1, <1>1, KeepTextsIs
    <3>2. CASE runs[r].kind # "text"
      BY <2>2, <3>2
    <3> QED
      BY <3>1, <3>2
  <2>4. Live(kept) = Live(ns)
    BY <2>3 DEF Live
  <2>5. PICK root : root = Marked(kept, n, mark)
    OBVIOUS
  <2>6. /\ root \in [Ids -> NodeSet]
        /\ \A m \in Ids : SameButStatus(kept[m], root[m])
        /\ \A m \in Ids : root[m].gen.status = IF m = n /\ m \in Live(kept) THEN mark
                                              ELSE kept[m].gen.status
    BY <2>3, <2>5, MarkedIs
  <2>8. PICK got : got = IF runs[r].config THEN Marked(root, runs[r].origin, mark) ELSE root
    OBVIOUS
  <2>9. new = got
    BY <1>1, <1>3, <2>1, <2>2, <2>5, <2>8 DEF Closed
  <2>10. /\ got \in [Ids -> NodeSet]
         /\ \A m \in Ids : /\ SameButStatus(root[m], got[m])
                           /\ got[m].gen.status =
                                 IF m = runs[r].origin /\ runs[r].config /\ m \in Live(ns) THEN mark
                                 ELSE root[m].gen.status
    <3>1. CASE runs[r].config
      BY <2>8, <3>1, <2>6, MarkedIs, <2>4 DEF Live, SameButStatus, SameLook
    <3>2. CASE ~ runs[r].config
      BY <2>6, <2>8, <3>2 DEF SameButStatus, SameItems, SameLook
    <3> QED
      BY <3>1, <3>2
  <2>11. \A m \in Ids : SameButStatus(kept[m], new[m])
    BY <2>6, <2>9, <2>10 DEF SameButStatus, SameItems, SameLook
  <2>12. \A m \in Ids : /\ new[m].type = ns[m].type
                        /\ new[m].gen.batch \in {ns[m].gen.batch, r}
    BY <2>3, <2>11 DEF SameButStatus, SameItems, SameLook
  <2>13. \A m \in Ids : m # n \/ runs[r].kind # "text" => SameButStatus(ns[m], new[m])
    BY <2>3, <2>11
  <2>14. \A m \in Ids :
            IF m \in Live(ns) /\ (m = n \/ (m = runs[r].origin /\ runs[r].config))
            THEN new[m].gen.status = mark ELSE new[m].gen.status = ns[m].gen.status
    BY <2>3, <2>4, <2>6, <2>9, <2>10
  <2> QED
    BY <1>1, <1>3, <2>1, <2>9, <2>10, <2>12, <2>13, <2>14
<1> QED
  BY <1>2, <1>3

LEMMA AnswerGoes ==
    ASSUME CanvasInv, NEW r \in Runs, NEW i \in Items, NEW ns \in [Ids -> NodeSet],
           \A m \in Ids : ns[m].gen.batch = nodes[m].gen.batch,
           NEW done \in SUBSET Items, ItemAnswered(r, i, ns, done)
    PROVE  /\ GoesOn(r) /\ runs[r].stage = "asking" /\ runs'[r].left = runs[r].left \ {i}
           /\ runs'[r].done = done
           /\ \/ nodes' = Closed(ns, r, done) /\ runs'[r].stage = "over"
              \/ nodes' = ns /\ runs'[r].stage = "asking"
<1>1. runs \in [Runs -> RunSet] /\ runs[r].left \in SUBSET Items
  BY RunFields DEF CanvasInv, GenTypeOK
<1>2. PICK left \in SUBSET Items : left = runs[r].left \ {i}
  BY <1>1
<1>3. PICK run : run = LeftOnly(runs[r], left, done)
  OBVIOUS
<1>4. /\ run \in RunSet /\ SameTrait(runs[r], run) /\ run.stage = runs[r].stage
      /\ run.root = runs[r].root /\ run.left = left /\ run.done = done
      /\ run.halt = runs[r].halt
  BY <1>1, <1>3, LeftTrait
<1>5. PICK rs : rs = [runs EXCEPT ![r].left = @ \ {i}, ![r].done = done]
  OBVIOUS
<1>6. rs = [runs EXCEPT ![r] = run]
  BY <1>2, <1>3, <1>5 DEF LeftOnly
<1>7. rs \in [Runs -> RunSet] /\ rs[r] = run /\ \A q \in Runs \ {r} : rs[q] = runs[q]
  BY <1>1, <1>4, <1>6
<1>8. /\ runs[r].stage = "asking" /\ UNCHANGED <<entry, clipboard>>
      /\ \/ /\ nodes' = Closed(ns, r, done)
            /\ End(r, rs, requests, {runs[r].root, runs[r].origin})
         \/ nodes' = ns /\ runs' = rs /\ UNCHANGED <<requests, running, confirm>>
  BY <1>5 DEF ItemAnswered, GraphKeeps
<1>9. CASE nodes' = ns /\ runs' = rs /\ UNCHANGED <<requests, running, confirm>>
  BY <1>2, <1>4, <1>7, <1>8, <1>9 DEF Continues, GoesOn
<1>10. CASE nodes' = Closed(ns, r, done) /\ End(r, rs, requests, {runs[r].root, runs[r].origin})
  <2>1. PICK over \in Stages : over = "over"
    BY DEF Stages
  <2>2. PICK last : last = [run EXCEPT !.stage = over]
    OBVIOUS
  <2>3. /\ SameTrait(run, last) /\ last.stage = over /\ last.root = run.root
        /\ last.left = run.left /\ last.done = run.done /\ last.halt = run.halt
    BY <1>4, <2>1, <2>2, StageTrait
  <2>5. runs'[r] = last /\ \A q \in Runs : q # r => runs'[q] = runs[q]
    BY <1>7, <1>10, <2>1, <2>2 DEF End
  <2>6. Continues(runs[r], runs'[r])
    BY <1>2, <1>4, <1>8, <2>1, <2>3, <2>5 DEF Continues, SameTrait
  <2>8. \A n \in Ids : nodes'[n].gen.batch \in {nodes[n].gen.batch, r}
    <3>1. PICK new : new = Closed(ns, r, done)
      OBVIOUS
    <3> QED
      BY <1>10, <3>1, ClosedIs
  <2>9. runs'[r].stage = "over" /\ runs'[r].left = left /\ runs'[r].done = done
    BY <1>4, <2>1, <2>3, <2>5
  <2>10. GoesOn(r)
    BY <1>8, <2>5, <2>6, <1>10, <2>8, <2>9 DEF GoesOn, End, Finished
  <2> QED
    BY <1>2, <1>8, <1>10, <2>9, <2>10
<1> QED
  BY <1>8, <1>9, <1>10

LEMMA AnswerOwes ==
    ASSUME CanvasInv, OwedInv, NEW r \in Runs, NEW i \in Items, NEW ns, OneItem(r, i, ns),
           Aborted(r) => \A m \in Ids : SameItems(nodes[m], ns[m]),
           NEW done \in SUBSET Items, ItemAnswered(r, i, ns, done)
    PROVE  OwedInv'
<1>1. /\ ns \in [Ids -> NodeSet] /\ \A m \in Ids : ns[m].gen.batch = nodes[m].gen.batch
  BY DEF OneItem
<1>2. /\ GoesOn(r) /\ runs[r].stage = "asking" /\ runs'[r].left = runs[r].left \ {i}
      /\ \/ nodes' = Closed(ns, r, done) /\ runs'[r].stage = "over"
         \/ nodes' = ns /\ runs'[r].stage = "asking"
  BY <1>1, AnswerGoes
<1>3. PICK new : new = Closed(ns, r, done)
  OBVIOUS
<1>6. \A m \in Ids : m # runs[r].root \/ Aborted(r) => SameItems(nodes[m], nodes'[m])
  BY <1>2, <1>3, <1>1, ClosedIs DEF SameItems, SameButStatus, OneItem
<1>7. CASE Aborted(r)
  BY <1>2, <1>6, <1>7, QuietlyGoesOn
<1>8. CASE ~ Aborted(r)
  <2>2. ASSUME NEW p \in Runs, Due(p)', p # r PROVE WaitsOn(nodes, nodes', p)
    BY <1>2, <1>6, <1>8, <2>2, OthersWait, SMTT(30) DEF InFlight
  <2>3. ASSUME Due(r)' PROVE WaitsOn(nodes, nodes', r)
    <3>1. nodes' = ns
      BY <1>2, <2>3 DEF Due
    <3>2. runs[r].root \in Ids
      BY <1>2, <2>3, DueNode
    <3>3. \A j \in runs'[r].left : j \in Items \ {i}
      BY <1>2, RunFields DEF CanvasInv, GenTypeOK
    <3>4. \A j \in Items \ {i} : ns[runs[r].root].gen.items[j] = nodes[runs[r].root].gen.items[j]
      BY <3>2 DEF OneItem
    <3> QED
      BY <1>1, <3>1, <3>2, <3>3, <3>4 DEF WaitsOn
  <2> QED
    BY <1>2, <2>2, <2>3, OneGoesOn
<1> QED
  BY <1>7, <1>8

LEMMA ItemOwes ==
    ASSUME CanvasInv, OwedInv, NEW r \in Runs, NEW i \in Items,
           ImageArrives(r, i) \/ TextArrives(r, i) \/ ItemFails(r, i) \/ ItemCanceled(r, i)
    PROVE  OwedInv'
<1>1. PICK done \in SUBSET Items : done = runs[r].done
  BY RunFields DEF CanvasInv, GenTypeOK
<1>2. PICK more \in SUBSET Items : more = done \cup {i}
  OBVIOUS
<1>3. CASE ImageArrives(r, i)
  <2>1. PICK ns : ns = ImageWritten(r, i)
    OBVIOUS
  <2> QED
    BY <2>1, ImageWrites, <1>1, <1>2, <1>3, AnswerOwes DEF ImageArrives
<1>4. CASE TextArrives(r, i)
  <2>1. PICK ns : ns = TextWritten(r, i)
    OBVIOUS
  <2> QED
    BY <2>1, TextWrites, <1>1, <1>2, <1>4, AnswerOwes DEF TextArrives
<1>5. CASE ItemFails(r, i)
  <2>1. PICK error \in Marks : error = "error"
    BY InMarks
  <2>2. PICK ns : ns = ItemMark(nodes, r, i, error)
    OBVIOUS
  <2> QED
    BY <2>2, ItemMarkWrites, <1>1, <1>5, <2>1, AnswerOwes DEF ItemFails
<1>6. CASE ItemCanceled(r, i)
  <2>1. PICK ns : ns = nodes
    OBVIOUS
  <2> QED
    BY <2>1, NodesTyped, <1>1, <1>6, AnswerOwes DEF OneItem, SameItems, SameLook, ItemCanceled
<1> QED
  BY <1>3, <1>4, <1>5, <1>6

LEMMA StreamOwes ==
    ASSUME CanvasInv, OwedInv, NEW r \in Runs, NEW i \in Items, TextStreams(r, i)
    PROVE  OwedInv'
<1>1. PICK n, new : n = runs[r].root /\ new = TextShown(nodes, r, i)
  OBVIOUS
<1>3. /\ nodes' = new /\ runs' = runs /\ requests' = requests /\ UNCHANGED <<entry, clipboard>>
      /\ runs[r].stage = "asking"
  BY <1>1, SMTT(30) DEF TextStreams, genVars, GraphKeeps
<1> QED
  BY <1>1, TextShownIs, NodesTyped, <1>3, QuietlyGoesOn DEF GoesOn, Continues, SameTrait,
     SameItems

-----------------------------------------------------------------------------
(* A run begins, or asks: the rest is at most halted.                       *)
Begins(r) ==
    /\ OthersHalt(r) /\ runs[r].halt # "stopped" /\ UNCHANGED <<entry, clipboard>>
    /\ Early(r)' => Early(r)
    /\ runs'[r].batch \in Known /\ \A n \in Ids : nodes'[n].gen.batch \in Known

LEMMA KnownBatches ==
    /\ \A n \in Ids : /\ nodes[n].gen.batch \in Known
                      /\ entry.nodes[n].gen.batch \in Known
                      /\ clipboard.nodes[n].gen.batch \in Known
    /\ \A q \in Runs : runs[q].batch \in Known
    /\ 0 \in Known
BY DEF Known, Batches

LEMMA OneBegins ==
    ASSUME OwedInv, NEW r \in Runs, Begins(r),
           \A p \in Runs \ {r} : Due(p)' => WaitsOn(nodes, nodes', p),
           Due(r)' => Owed(nodes, r)' /\ Owed(entry.nodes, r)',
           \A q \in Runs : /\ Late(q, r)' /\ Alone(q, r)'
                           /\ Late(r, q)' /\ Alone(r, q)',
           StopsClean', TaskFits(r)'
    PROVE  OwedInv'
<1>1. Remembers(r) /\ \A p \in Runs \ {r} : Follows(runs[p], runs'[p])
  BY HaltFollows DEF Begins, Remembers, OthersHalt
<1>2. OwedNow'
  <2> SUFFICES ASSUME NEW p \in Runs \ {r}, Due(p)'
               PROVE  Owed(nodes, p)' /\ Owed(entry.nodes, p)'
    BY DEF OwedNow
  <2>2. Owed(nodes, p) /\ Owed(entry.nodes, p)
    BY <1>1, DueBefore DEF OwedInv, OwedNow
  <2> QED
    BY <1>1, <2>2, StillOwed, EntryOwed DEF Begins
<1>3. Unborn'
  BY <1>1, KnownBatches, BatchesStay, UnbornStays DEF Early, Follows, Begins, SameTrait,
     OwedInv
<1>4. PairsFit'
  <2> SUFFICES ASSUME NEW q \in Runs \ {r}, NEW p \in Runs \ {r} PROVE Late(q, p)' /\ Alone(q, p)'
    BY DEF PairsFit
  <2> QED
    BY <1>1, PairStays DEF OwedInv, PairsFit
<1>5. TasksFit'
  <2> SUFFICES ASSUME NEW q \in Runs \ {r} PROVE TaskFits(q)'
    BY DEF TasksFit
  <2>1. TaskFits(q) /\ OnlyHalts(runs[q], runs'[q])
    BY DEF OwedInv, TasksFit, Begins, OthersHalt
  <2> QED
    BY <2>1 DEF OnlyHalts, SameTrait, TaskFits, Registers, OneResult
<1> QED
  BY <1>2, <1>3, <1>4, <1>5 DEF OwedInv

(* r takes over a node.                                                     *)
LEMMA TakenOver ==
    ASSUME CanvasInv, OwedInv, NEW r \in Runs, NEW n \in Ids, TakesOver(r, n), runs'[r].halt = "no"
    PROVE  OthersHalt(r) /\ StopsClean'
<1>1. /\ runs \in [Runs -> RunSet] /\ requests \in [Ids -> {0} \cup Runs]
      /\ runs[r].stage \in {"none", "resolving"}
      /\ \A q \in Runs \ {r} :
            runs'[q] = IF q = requests[n] THEN [runs[q] EXCEPT !.halt = "replaced"] ELSE runs[q]
      /\ requests' = [requests EXCEPT ![n] = r]
  BY DEF TakesOver, CanvasInv, GenTypeOK
<1>2. ASSUME NEW q \in Runs \ {r}, q = requests[n]
      PROVE  /\ runs[q].halt # "stopped" /\ runs[q].stage \notin {"none", "resolving"}
             /\ OnlyHalts(runs[q], runs'[q]) /\ runs'[q].halt = "replaced"
  <2>3. runs[q].stage \notin {"none", "resolving"}
    BY <1>2, EntriesOwned DEF OwnsEntry, InFlight
  <2>4. PICK run : run = runs[q]
    OBVIOUS
  <2>5. PICK new : new = [run EXCEPT !.halt = "replaced"]
    OBVIOUS
  <2>6. run \in RunSet /\ runs'[q] = new
    BY <1>1, <1>2, <2>4, <2>5
  <2>9. /\ new.root = run.root /\ new.stage = run.stage /\ new.left = run.left
        /\ new.done = run.done /\ new.halt = "replaced"
    BY <2>5, <2>6 DEF RunSet
  <2>10. SameTrait(run, new)
    BY <2>5, <2>6 DEF SameTrait, RunSet
  <2> QED
    BY <1>2, <2>3, <2>4, <2>6, <2>9, <2>10 DEF OnlyHalts, OwedInv, StopsClean
<1>3. ASSUME NEW q \in Runs \ {r}, q # requests[n] PROVE runs'[q] = runs[q]
  BY <1>1, <1>3
<1>5. StopsClean'
  <2> SUFFICES ASSUME NEW t \in Ids, NEW q \in Runs, requests'[t] = q
               PROVE  runs'[q].halt # "stopped" /\ (Registers(q)' => runs'[q].halt = "no")
    BY DEF StopsClean
  <2>1. CASE q = r
    BY <2>1
  <2>2. CASE q # r
    <3>1. t # n /\ requests[t] = q
      BY <1>1, <2>2
    <3>3. CASE q = requests[n]
      BY <3>1, <3>3, EntriesOwned, <1>2, <2>2 DEF OwnsEntry, OnlyHalts, SameTrait, Registers
    <3>4. CASE q # requests[n]
      BY <1>3, <2>2, <3>1, <3>4 DEF Registers, OwedInv, StopsClean
    <3> QED
      BY <3>3, <3>4
  <2> QED
    BY <2>1, <2>2
<1> QED
  BY <1>2, <1>3, HaltsItself, <1>5 DEF OthersHalt

Generating(mode, n, config, marks, empty) ==
    [NoRun EXCEPT !.kind = mode, !.stage = "hydrating", !.origin = n, !.root = n,
                  !.type = mode, !.config = config, !.marks = marks, !.empty = empty]
LEMMA GeneratingIs ==
    ASSUME NEW mode \in Media \cup {"text"}, NEW n \in Ids,
           NEW config \in BOOLEAN, NEW marks \in BOOLEAN, NEW empty \in BOOLEAN,
           NEW run, run = Generating(mode, n, config, marks, empty)
    PROVE  /\ run \in RunSet
           /\ run.kind = mode /\ run.stage = "hydrating" /\ run.origin = n /\ run.root = n
           /\ run.type = mode /\ run.left = {} /\ run.done = {} /\ run.halt = "no"
           /\ run.item = 0 /\ run.batch = 0
           /\ run.config = config /\ run.marks = marks /\ run.empty = empty
<1>1. PICK zero : zero = [NoRun EXCEPT !.kind = mode, !.stage = "hydrating",
                                       !.origin = n, !.root = n, !.type = mode]
  OBVIOUS
<1>2. zero = [kind |-> mode, stage |-> "hydrating", origin |-> n, root |-> n, type |-> mode,
              left |-> {}, done |-> {}, halt |-> "no", config |-> FALSE,
              marks |-> FALSE, empty |-> FALSE, item |-> 0, batch |-> 0]
  BY <1>1, Zenon DEF NoRun
<1>4. zero \in RunSet
  BY <1>2 DEF Ids, Kinds, Media, Stages, RunSet
<1>5. run = [zero EXCEPT !.config = config, !.marks = marks, !.empty = empty]
  BY <1>1, Zenon DEF Generating, NoRun
<1>7. /\ run.kind = mode /\ run.stage = "hydrating" /\ run.origin = n /\ run.root = n
      /\ run.type = mode /\ run.left = {} /\ run.done = {} /\ run.halt = "no"
      /\ run.item = 0 /\ run.batch = 0
  BY <1>2, <1>4, <1>5 DEF RunSet
<1>8. run.config = config /\ run.marks = marks /\ run.empty = empty
  BY <1>4, <1>5 DEF RunSet
<1> QED
  BY <1>4, <1>5, <1>7, <1>8 DEF RunSet

LEMMA GenerateShape ==
    ASSUME CanvasInv, NEW r \in Runs, NEW n \in Live(nodes), NEW mode \in Media \cup {"text"},
           Generate(r, n, mode), NEW run, run = runs'[r]
    PROVE  /\ TakesOver(r, n) /\ n \in Ids /\ UNCHANGED graphVars /\ runs[r].stage = "none"
           /\ nodes[n].type # "group" /\ mode \in ModeOf(nodes[n].type)
           /\ run.kind = mode /\ run.stage = "hydrating" /\ run.origin = n /\ run.root = n
           /\ run.type = mode /\ run.left = {} /\ run.done = {} /\ run.halt = "no"
           /\ run.item = 0 /\ run.batch = 0
           /\ run.config <=> nodes[n].type = "config"
           /\ run.marks <=> nodes[n].type # "image"
                               /\ ~ (mode = "text" /\ nodes[n].type = "text" /\ nodes[n].filled)
           /\ run.empty <=> nodes[n].type = mode /\ ~ nodes[n].filled
<1>1. /\ runs[r].stage = "none" /\ nodes[n].type # "group" /\ mode \in ModeOf(nodes[n].type)
      /\ requests' = [requests EXCEPT ![n] = r] /\ running' = n
      /\ UNCHANGED confirm /\ UNCHANGED graphVars
  BY DEF Generate, IsNext
<1>2. n \in Ids
  BY <1>1, LiveNode
<1>3. PICK config \in BOOLEAN : config = (nodes[n].type = "config")
  OBVIOUS
<1>4. PICK marks \in BOOLEAN : marks = (nodes[n].type # "image"
                               /\ ~ (mode = "text" /\ nodes[n].type = "text" /\ nodes[n].filled))
  OBVIOUS
<1>5. PICK empty \in BOOLEAN : empty = (nodes[n].type = mode /\ ~ nodes[n].filled)
  OBVIOUS
<1>6. PICK new : new = Generating(mode, n, config, marks, empty)
  OBVIOUS
<1>7. /\ new \in RunSet
      /\ new.kind = mode /\ new.stage = "hydrating" /\ new.origin = n /\ new.root = n
      /\ new.type = mode /\ new.left = {} /\ new.done = {} /\ new.halt = "no"
      /\ new.item = 0 /\ new.batch = 0
      /\ new.config = config /\ new.marks = marks /\ new.empty = empty
  BY <1>2, <1>6, GeneratingIs
<1>8. PICK rs : rs = Aborting(runs, requests, n, r)
  OBVIOUS
<1>9. /\ rs \in [Runs -> RunSet] /\ rs[r] = runs[r]
      /\ \A q \in Runs \ {r} :
            rs[q] = IF q = requests[n] THEN [runs[q] EXCEPT !.halt = "replaced"] ELSE runs[q]
  <2>1. n \in Ids /\ runs \in [Runs -> RunSet]
    BY <1>2 DEF CanvasInv, GenTypeOK
  <2> QED
    BY <1>8, <2>1, AbortingRuns
<1>10. runs' = [rs EXCEPT ![r] = new]
  BY <1>3, <1>4, <1>5, <1>6, <1>8 DEF Generate, Generating
<1>11. /\ runs' \in [Runs -> RunSet] /\ runs'[r] = new
       /\ \A q \in Runs \ {r} :
             runs'[q] = IF q = requests[n] THEN [runs[q] EXCEPT !.halt = "replaced"] ELSE runs[q]
  BY <1>7, <1>9, <1>10
<1>13. TakesOver(r, n)
  BY <1>1, <1>7, <1>11 DEF TakesOver, Registers, Media
<1> QED
  BY <1>1, <1>2, <1>3, <1>4, <1>5, <1>7, <1>11, <1>13

LEMMA GenerateOwes ==
    ASSUME CanvasInv, OwedInv, NEW r \in Runs, NEW n \in Live(nodes),
           NEW mode \in Media \cup {"text"}, Generate(r, n, mode)
    PROVE  OwedInv'
<1>1. PICK run : run = runs'[r]
  OBVIOUS
<1>2. /\ TakesOver(r, n) /\ n \in Ids /\ UNCHANGED graphVars /\ runs[r].stage = "none"
      /\ run.kind = mode /\ run.stage = "hydrating" /\ run.origin = n /\ run.root = n
      /\ run.left = {} /\ run.halt = "no" /\ run.batch = 0
  <2>1. TakesOver(r, n) /\ n \in Ids /\ UNCHANGED graphVars /\ runs[r].stage = "none"
    BY <1>1, GenerateShape
  <2>2. run.kind = mode /\ run.stage = "hydrating" /\ run.origin = n /\ run.root = n
    BY <1>1, GenerateShape
  <2>3. run.left = {} /\ run.halt = "no" /\ run.batch = 0
    BY <1>1, GenerateShape
  <2> QED
    BY <2>1, <2>2, <2>3, Zenon
<1>5. OthersHalt(r) /\ StopsClean'
  BY <1>1, <1>2, TakenOver
<1>6. Begins(r)
  BY <1>2, <1>1, <1>5, KnownBatches DEF OwedInv, TasksFit, TaskFits, Early, Begins, graphVars
<1>7. ~ Due(r)' /\ runs'[r].stage # "resolving"
  BY <1>1, <1>2 DEF Due
<1>8. \A p \in Runs \ {r} : Due(p)' => WaitsOn(nodes, nodes', p)
  BY <1>2 DEF WaitsOn, graphVars
<1>9. TaskFits(r)'
  BY <1>2, <1>1, GenerateShape DEF MediaKinds, ModeOf, Registers, Media, TaskFits
<1>10. ASSUME NEW q \in Runs, Due(q)' PROVE runs'[q].root # n
  <2>1. q # r
    BY <1>7, <1>10
  <2>3. Due(q) /\ runs'[q].root = runs[q].root
    BY <1>10, <1>5, <2>1, HaltFollows, DueBefore DEF OnlyHalts, OthersHalt
  <2>5. requests[runs[q].root] = q
    BY <2>3 DEF CanvasInv, RegistryExact, LiveRunRegistered, Due, InFlight
  <2>6. ASSUME runs[q].root = n PROVE FALSE
    BY <1>2, <2>1, <2>5, <2>6, <1>10 DEF TakesOver, CanvasInv, GenTypeOK, RunSet, Due, Aborted
  <2> QED
    BY <2>3, <2>6
<1>11. \A q \in Runs : Late(q, r)' /\ Alone(q, r)' /\ Late(r, q)'
  BY <1>7 DEF Late, Alone
<1>12. \A q \in Runs : Alone(r, q)'
  BY <1>1, <1>2, <1>10 DEF Alone
<1> QED
  BY <1>5, <1>6, <1>7, <1>8, <1>9, <1>11, <1>12, OneBegins

LEMMA RetryStartsShape ==
    ASSUME CanvasInv, NEW r \in Runs, RetryStarts(r), NEW n, n = runs[r].root
    PROVE  /\ TakesOver(r, n) /\ n \in Ids /\ UNCHANGED <<entry, clipboard>>
           /\ UNCHANGED <<made, edits, jobs>>
           /\ runs[r].stage = "resolving" /\ runs'[r].stage = "asking"
           /\ SameTrait(runs[r], runs'[r]) /\ runs'[r].root = n /\ runs'[r].left = runs[r].left
           /\ runs'[r].done = runs[r].done /\ runs'[r].halt = runs[r].halt
           /\ \A m \in Ids : /\ m # n => nodes'[m] = nodes[m]
                             /\ SameLook(nodes[m], nodes'[m])
                             /\ nodes'[m].gen.batch = nodes[m].gen.batch
                             /\ nodes'[m].gen.status = IF m = n /\ m \in Live(nodes)
                                                       THEN "loading" ELSE nodes[m].gen.status
                             /\ \A j \in Items :
                                   nodes'[m].gen.items[j] \in {nodes[m].gen.items[j], "loading"}
<1>1. PICK loading \in Marks : loading = "loading"
  BY InMarks
<1>2. PICK mid : mid = IF runs[r].marks THEN nodes ELSE RetryItem(nodes, r, loading)
  OBVIOUS
<1>3. PICK new : new = Marked(mid, n, loading)
  OBVIOUS
<1>4. /\ runs[r].stage = "resolving" /\ nodes' = new
      /\ runs' = [Aborting(runs, requests, n, r) EXCEPT ![r].stage = "asking"]
      /\ requests' = [requests EXCEPT ![n] = r] /\ running' = n /\ UNCHANGED confirm
      /\ UNCHANGED <<entry, clipboard>> /\ UNCHANGED <<made, edits, jobs>>
  BY <1>1, <1>2, <1>3 DEF RetryStarts, GraphKeeps
<1>5. n \in Ids /\ runs \in [Runs -> RunSet]
  BY <1>4, RunNode DEF CanvasInv, GenTypeOK
<1>6. PICK asking \in Stages : asking = "asking"
  BY DEF Stages
<1>7. PICK run : run = [runs[r] EXCEPT !.stage = asking]
  OBVIOUS
<1>8. /\ run \in RunSet /\ SameTrait(runs[r], run) /\ run.stage = asking /\ run.root = runs[r].root
      /\ run.left = runs[r].left /\ run.done = runs[r].done /\ run.halt = runs[r].halt
  BY <1>5, <1>7, StageTrait
<1>9. PICK rs : rs = Aborting(runs, requests, n, r)
  OBVIOUS
<1>10. /\ rs \in [Runs -> RunSet] /\ rs[r] = runs[r]
       /\ \A q \in Runs \ {r} :
             rs[q] = IF q = requests[n] THEN [runs[q] EXCEPT !.halt = "replaced"] ELSE runs[q]
  BY <1>5, <1>9, AbortingRuns
<1>12. /\ runs' \in [Runs -> RunSet] /\ runs'[r] = run
       /\ \A q \in Runs \ {r} :
             runs'[q] = IF q = requests[n] THEN [runs[q] EXCEPT !.halt = "replaced"] ELSE runs[q]
  BY <1>8, <1>10, <1>4, <1>6, <1>7, <1>9
<1>14. TakesOver(r, n)
  BY <1>4, <1>6, <1>8, <1>12 DEF TakesOver, Registers, SameTrait, CanvasInv, StagesFit
<1>15. /\ mid \in [Ids -> NodeSet]
       /\ \A m \in Ids : /\ m # n => mid[m] = nodes[m]
                         /\ SameLook(nodes[m], mid[m])
                         /\ mid[m].gen.status = nodes[m].gen.status
                         /\ mid[m].gen.batch = nodes[m].gen.batch
                         /\ \A j \in Items : mid[m].gen.items[j] \in {nodes[m].gen.items[j], loading}
  <2>1. CASE runs[r].marks
    BY <1>2, <2>1, NodesTyped DEF SameLook
  <2>2. CASE ~ runs[r].marks
    BY <1>2, <2>2, RetryItemIs, NodesTyped
  <2> QED
    BY <2>1, <2>2
<1>17. /\ \A m \in Ids : SameButStatus(mid[m], new[m])
       /\ \A m \in Ids : new[m].gen.status = IF m = n /\ m \in Live(mid) THEN loading
                                             ELSE mid[m].gen.status
  BY <1>3, <1>15, MarkedIs
<1>18. \A m \in Ids : m # n => new[m] = nodes[m]
  BY <1>3, <1>15 DEF Marked
<1>19. \A m \in Ids : SameLook(nodes[m], new[m])
  BY <1>15, <1>17 DEF SameButStatus, SameLook
<1>20. \A m \in Ids : new[m].gen.batch = nodes[m].gen.batch
  BY <1>15, <1>17 DEF SameButStatus, SameItems
<1>21. \A m \in Ids : new[m].gen.status = IF m = n /\ m \in Live(nodes) THEN "loading"
                                          ELSE nodes[m].gen.status
  BY <1>1, <1>15, <1>17 DEF Live, SameLook
<1>22. \A m \in Ids : \A j \in Items : new[m].gen.items[j] \in {nodes[m].gen.items[j], "loading"}
  BY <1>1, <1>15, <1>17 DEF SameButStatus, SameItems
<1>23. /\ runs'[r].stage = "asking" /\ SameTrait(runs[r], runs'[r]) /\ runs'[r].root = n
       /\ runs'[r].left = runs[r].left /\ runs'[r].done = runs[r].done
       /\ runs'[r].halt = runs[r].halt
  BY <1>6, <1>8, <1>12
<1>24. nodes' = new /\ UNCHANGED <<entry, clipboard>> /\ UNCHANGED <<made, edits, jobs>>
       /\ runs[r].stage = "resolving" /\ n \in Ids
  BY <1>4, <1>5
<1> QED
  BY <1>14, <1>18, <1>19, <1>20, <1>21, <1>22, <1>23, <1>24

LEMMA RetryStartsOwes ==
    ASSUME CanvasInv, OwedInv, NEW r \in Runs, RetryStarts(r) PROVE OwedInv'
<1>1. PICK n : n = runs[r].root
  OBVIOUS
<1>2. /\ TakesOver(r, n) /\ n \in Ids /\ UNCHANGED <<entry, clipboard>>
      /\ runs[r].stage = "resolving" /\ runs'[r].stage = "asking"
      /\ SameTrait(runs[r], runs'[r]) /\ runs'[r].root = n /\ runs'[r].left = runs[r].left
      /\ runs'[r].halt = runs[r].halt
  BY <1>1, RetryStartsShape
<1>3. \A m \in Ids : /\ nodes'[m].gen.batch = nodes[m].gen.batch
                     /\ \A j \in Items :
                           nodes'[m].gen.items[j] \in {nodes[m].gen.items[j], "loading"}
  BY <1>1, RetryStartsShape
<1>4. TaskFits(r) /\ runs[r].halt = "no"
  BY <1>2 DEF OwedInv, TasksFit, TaskFits
<1>5. Registers(r) /\ Registers(r)'
  BY <1>2 DEF CanvasInv, StagesFit, Registers, SameTrait
<1>6. OthersHalt(r) /\ StopsClean'
  BY <1>2, <1>4, TakenOver
<1>7. Begins(r)
  BY <1>2, <1>3, <1>4, <1>6, KnownBatches DEF Begins, Early, SameTrait
<1>8. ~ Due(r)' /\ runs'[r].stage # "resolving"
  BY <1>2, <1>5, SMTT(30) DEF Due
<1>9. ASSUME NEW p \in Runs \ {r}, Due(p)' PROVE WaitsOn(nodes, nodes', p)
  <2>2. Due(p) /\ runs'[p].left \subseteq runs[p].left
    BY <1>9, <1>6, HaltFollows, DueBefore DEF OnlyHalts, OthersHalt
  <2>3. runs[p].root \in Ids
    BY <2>2, RunNode DEF Due
  <2>4. runs[p].left \subseteq Items
    BY RunFields DEF CanvasInv, GenTypeOK
  <2> QED
    BY <1>3, <2>2, <2>3, <2>4 DEF WaitsOn
<1>10. TaskFits(r)'
  BY <1>2, <1>4, <1>5 DEF TaskFits, SameTrait, Registers
<1>11. \A q \in Runs : /\ Late(q, r)' /\ Alone(q, r)'
                       /\ Late(r, q)' /\ Alone(r, q)'
  BY <1>5, <1>8 DEF Late, Alone
<1> QED
  BY <1>6, <1>7, <1>8, <1>9, <1>10, <1>11, OneBegins

LEMMA EditOfIs ==
    ASSUME NEW n \in 0..MaxNodes, NEW child \in 0..MaxNodes, NEW run, run = EditOf(n, child)
    PROVE  /\ run \in RunSet /\ run.stage = "asking" /\ run.kind = "single"
           /\ run.origin = n /\ run.root = child /\ run.type = "image" /\ run.left = {}
           /\ run.done = {} /\ run.halt = "no" /\ run.batch = 0 /\ ~ run.config
<1>1. run = [kind |-> "single", stage |-> "asking", origin |-> n, root |-> child, type |-> "image",
             left |-> {}, done |-> {}, halt |-> "no", config |-> FALSE,
             marks |-> FALSE, empty |-> FALSE, item |-> 0, batch |-> 0]
  BY Zenon DEF NoRun, EditOf
<1>2. /\ run.type = "image" /\ run.left = {} /\ run.done = {} /\ run.halt = "no"
      /\ run.batch = 0
  BY <1>1
<1>3. ~ run.config
  BY <1>1
<1> QED
  BY <1>2, <1>3, EditOfType

LEMMA EditImageShape ==
    ASSUME CanvasInv, NEW r \in Runs, NEW n \in Live(nodes), EditImage(r, n),
           NEW child, child = made', NEW run, run = runs'[r]
    PROVE  /\ TakesOver(r, child) /\ child \in Ids /\ child \notin 1..made /\ requests[child] = 0
           /\ UNCHANGED <<entry, clipboard, edits, jobs>> /\ runs[r].stage = "none" /\ n \in 1..made
           /\ run.stage = "asking" /\ run.kind = "single" /\ run.origin = n /\ run.root = child
           /\ run.left = {} /\ run.halt = "no" /\ run.batch = 0 /\ ~ run.config
           /\ \A m \in Ids \ {child} : nodes'[m] = nodes[m]
           /\ nodes'[child].type = "image" /\ nodes'[child].gen.batch = 0
           /\ nodes'[child].gen.primary = 0 /\ nodes'[child].gen.shown = 0
           /\ nodes'[child].gen.status = "loading"
<1>1. PICK gen : gen = [NewGen EXCEPT !.status = "loading"]
  OBVIOUS
<1>2. PICK result : result = Node("image", 0, FALSE, gen)
  OBVIOUS
<1>3. /\ runs[r].stage = "none" /\ nodes[n].type # "group"
      /\ made < MaxNodes /\ child = made + 1 /\ nodes' = [nodes EXCEPT ![child] = result]
      /\ GraphKeeps
      /\ runs' = [runs EXCEPT ![r] = EditOf(n, child)]
      /\ requests' = [requests EXCEPT ![child] = r] /\ running' = child /\ UNCHANGED confirm
  BY <1>1, <1>2 DEF EditImage, IsNext, Insert, EditOf
<1>4. /\ n \in 1..made /\ n \in 0..MaxNodes
      /\ nodes \in [Ids -> NodeSet] /\ runs \in [Runs -> RunSet] /\ made \in Nat
  BY <1>3, LiveNode, NodesTyped DEF Ids, CanvasInv, GenTypeOK, GraphInv
<1>5. child \in Ids /\ child \notin 1..made
  BY <1>3, <1>4 DEF Ids
<1>6. gen \in GenSet /\ gen.status = "loading" /\ gen.batch = 0 /\ gen.primary = 0 /\ gen.shown = 0
  BY <1>1, NewGenType, InMarks DEF GenSet
<1>7. result.type = "image" /\ result.gen = gen
  BY <1>2 DEF Node
<1>8. nodes'[child] = result /\ \A m \in Ids \ {child} : nodes'[m] = nodes[m]
  BY <1>3, <1>4, <1>5
<1>9. PICK new : new = EditOf(n, child)
  OBVIOUS
<1>10. /\ new \in RunSet /\ new.stage = "asking" /\ new.kind = "single"
       /\ new.origin = n /\ new.root = child /\ new.left = {}
       /\ new.halt = "no" /\ new.batch = 0 /\ ~ new.config
  BY <1>5, <1>4, <1>9, EditOfIs DEF Ids
<1>11. runs' \in [Runs -> RunSet] /\ runs'[r] = new /\ \A q \in Runs \ {r} : runs'[q] = runs[q]
  BY <1>3, <1>4, <1>9, <1>10
<1>12. requests[child] = 0
  BY <1>5, EntryMade
<1>13. TakesOver(r, child)
  BY <1>10, <1>11, <1>12, Sizes, <1>3 DEF Registers, TakesOver
<1> QED
  BY <1>3, <1>4, <1>5, <1>6, <1>7, <1>8, <1>10, <1>11, <1>12, <1>13 DEF GraphKeeps

LEMMA EditImageOwes ==
    ASSUME CanvasInv, OwedInv, NEW r \in Runs, NEW n \in Live(nodes), EditImage(r, n)
    PROVE  OwedInv'
<1>1. PICK child, run : child = made' /\ run = runs'[r]
  OBVIOUS
<1>2. /\ TakesOver(r, child) /\ child \in Ids /\ child \notin 1..made
      /\ UNCHANGED <<entry, clipboard>> /\ runs[r].stage = "none"
      /\ run.stage = "asking" /\ run.kind = "single" /\ run.left = {}
      /\ run.halt = "no" /\ run.batch = 0
      /\ \A m \in Ids \ {child} : nodes'[m] = nodes[m]
      /\ nodes'[child].gen.batch = 0
  BY <1>1, EditImageShape
<1>3. OthersHalt(r) /\ StopsClean'
  BY <1>1, <1>2, TakenOver
<1>4. Begins(r)
  BY <1>2, KnownBatches, <1>1, <1>3 DEF OwedInv, TasksFit, TaskFits, Begins, Early
<1>5. Registers(r)'
  BY <1>1, <1>2 DEF Registers
<1>6. ~ Due(r)' /\ runs'[r].stage # "resolving"
  BY <1>1, <1>2, <1>5, SMTT(30) DEF Due
<1>7. ASSUME NEW p \in Runs \ {r}, Due(p)' PROVE WaitsOn(nodes, nodes', p)
  BY <1>3, <1>7, HaltFollows, DueBefore, <1>2, RunNode, Zenon DEF OthersHalt, Due, WaitsOn
<1>8. TaskFits(r)'
  BY <1>1, <1>2 DEF TaskFits, MediaKinds
<1>9. \A q \in Runs : /\ Late(q, r)' /\ Alone(q, r)'
                      /\ Late(r, q)' /\ Alone(r, q)'
  BY <1>5, <1>6 DEF Late, Alone
<1> QED
  BY <1>3, <1>4, <1>6, <1>7, <1>8, <1>9, OneBegins

-----------------------------------------------------------------------------
(* A generation has its references and asks.                                *)
LEMMA AskedIs ==
    ASSUME NEW run \in RunSet, NEW asked \in SUBSET Items, NEW n \in 0..MaxNodes,
           NEW new, new = Childed(run, asked, n)
    PROVE  /\ new \in RunSet /\ SameTrait(run, new) /\ new.stage = "asking" /\ new.root = n
           /\ new.left = asked /\ new.done = run.done /\ new.halt = run.halt
<1>2. new.left = asked /\ new.done = run.done /\ new.halt = run.halt
  BY DEF RunSet, Childed
<1>3. /\ new.kind = run.kind /\ new.origin = run.origin /\ new.type = run.type
      /\ new.item = run.item /\ new.batch = run.batch
  BY DEF RunSet, Childed
<1>4. new.config = run.config /\ new.marks = run.marks /\ new.empty = run.empty
  BY DEF RunSet, Childed
<1> QED
  BY ChildRun, <1>2, <1>3, <1>4 DEF SameTrait

LEMMA LoadingIs ==
    ASSUME NEW r \in Runs, NEW asked \in SUBSET Items, runs[r].kind = "text" => 1 \in Items,
           NEW gen, gen = Loading(r, asked)
    PROVE  /\ gen \in GenSet /\ gen.status = "loading" /\ gen.batch \in {0, r}
           /\ \A i \in Items : gen.items[i] = IF i \in asked THEN "loading" ELSE "none"
           /\ gen.primary = IF runs[r].kind = "text" THEN 1 ELSE 0
           /\ gen.shown = 0
<1>1. PICK batch \in {0} \cup Runs : batch = IF asked = {} THEN 0 ELSE r
  OBVIOUS
<1>2. PICK items : items = [i \in Items |-> IF i \in asked THEN "loading" ELSE "none"]
  OBVIOUS
<1>3. items \in [Items -> Marks \cup {"none"}]
  BY <1>2, InMarks
<1>4. PICK primary \in {0, Other} \cup Items : primary = IF runs[r].kind = "text" THEN 1 ELSE 0
  OBVIOUS
<1>5. PICK loading \in Marks : loading = "loading"
  BY InMarks
<1>6. gen = [NewGen EXCEPT !.status = loading, !.batch = batch, !.items = items,
                           !.primary = primary]
  BY <1>1, <1>2, <1>4, <1>5 DEF Loading
<1>7. NewGen \in GenSet /\ NewGen.shown = 0
  BY NewGenType
<1>8. gen \in GenSet
  BY <1>3, <1>6, <1>7 DEF GenSet
<1>9. /\ gen.status = loading /\ gen.batch = batch /\ gen.items = items /\ gen.primary = primary
      /\ gen.shown = 0
  BY <1>6, <1>7 DEF GenSet
<1> QED
  BY <1>1, <1>2, <1>4, <1>5, <1>8, <1>9

LEMMA StartPlace ==
    ASSUME CanvasInv, NEW r \in Runs, Start(r), NEW n, n = runs[r].origin
    PROVE  \E asked \in SUBSET Items :
               /\ Started(r, asked) /\ (runs[r].kind = "text" => 1 \in asked)
               /\ runs[r].stage = "hydrating" /\ ~ Aborted(r) /\ UNCHANGED <<entry, clipboard>>
               /\ UNCHANGED <<edits, jobs>> /\ runs[r] \in RunSet /\ runs[r].root = n
               /\ n \in 1..made /\ n \in Ids /\ ~ Registers(r)
               /\ runs[r].kind \in Media \cup {"text"}
<1>1. /\ runs[r].stage = "hydrating" /\ ~ Aborted(r) /\ UNCHANGED <<entry, clipboard>>
      /\ UNCHANGED <<edits, jobs>>
  BY DEF Start, GraphKeeps
<1>2. runs[r] \in RunSet /\ runs[r].root = n /\ ~ Registers(r)
  BY <1>1 DEF CanvasInv, GenTypeOK, StagesFit
<1>3. n \in 1..made /\ n \in Ids
  BY <1>1, RunNode
<1>4. runs[r].kind \in Media \cup {"text"}
  BY <1>2, RunFields DEF Registers, Kinds, Media
<1>5. CASE runs[r].kind \in {"image", "text"}
  <2>1. PICK k \in Items : Started(r, 1..k)
    BY <1>5 DEF Start
  <2> QED
    BY <1>1, <1>2, <1>3, <1>4, <2>1, Sizes
<1>6. CASE runs[r].kind \notin {"image", "text"}
  BY <1>6, <1>1, <1>2, <1>3, <1>4 DEF Start
<1> QED
  BY <1>5, <1>6

LEMMA StartInPlace ==
    ASSUME CanvasInv, NEW r \in Runs, NEW n, n = runs[r].origin, runs[r].empty,
           NEW asked \in SUBSET Items, Started(r, asked), runs[r].kind = "text" => 1 \in asked,
           runs[r] \in RunSet, runs[r].root = n, n \in Ids, runs[r].kind \in Media \cup {"text"},
           NEW run, run = runs'[r]
    PROVE  /\ \A q \in Runs : q # r => runs'[q] = runs[q]
           /\ SameTrait(runs[r], run) /\ run.stage = "asking" /\ run.root = n
           /\ run.left = asked /\ run.done = runs[r].done /\ run.halt = runs[r].halt
           /\ UNCHANGED <<made, requests>>
           /\ \A m \in Ids \ {n} : nodes'[m] = nodes[m]
           /\ n \notin Live(nodes) => nodes' = nodes
           /\ n \in Live(nodes) =>
                 /\ nodes'[n].gen.status = "loading" /\ nodes'[n].gen.batch \in {0, r}
                 /\ \A i \in asked : nodes'[n].gen.items[i] = "loading"
                 /\ runs[r].kind = "image" =>
                       /\ nodes'[n].type = nodes[n].type /\ nodes'[n].filled = nodes[n].filled
                       /\ nodes'[n].gen.primary = Foreign(nodes[n].gen.primary)
                       /\ nodes'[n].gen.shown = Foreign(nodes[n].gen.shown)
                 /\ runs[r].kind # "image" => nodes'[n].type = runs[r].kind
<1>1. PICK gen : gen = Loading(r, asked)
  OBVIOUS
<1>2. /\ gen \in GenSet /\ gen.status = "loading" /\ gen.batch \in {0, r}
      /\ \A i \in Items : gen.items[i] = IF i \in asked THEN "loading" ELSE "none"
  BY <1>1, LoadingIs
<1>3. PICK new : new = InPlace(r, nodes, gen)
  OBVIOUS
<1>4. /\ nodes' = new /\ UNCHANGED <<made, requests>>
      /\ runs' = [runs EXCEPT ![r].stage = "asking", ![r].left = asked]
  BY <1>1, <1>3 DEF Started
<1>5. PICK got : got = Childed(runs[r], asked, n)
  OBVIOUS
<1>6. /\ got \in RunSet /\ SameTrait(runs[r], got) /\ got.stage = "asking" /\ got.root = n
      /\ got.left = asked /\ got.done = runs[r].done /\ got.halt = runs[r].halt
  BY <1>5, AskedIs DEF Ids
<1>7. got = [runs[r] EXCEPT !.stage = "asking", !.left = asked]
  BY <1>5 DEF Childed, RunSet
<1>8. runs \in [Runs -> RunSet] /\ nodes \in [Ids -> NodeSet]
  BY NodesTyped DEF CanvasInv, GenTypeOK
<1>9. run = got /\ \A q \in Runs : q # r => runs'[q] = runs[q]
  BY <1>4, <1>7, <1>8
<1>10. CASE n \notin Live(nodes)
  BY <1>3, <1>10, <1>4, <1>6, <1>9 DEF InPlace
<1>11. CASE n \in Live(nodes)
  BY <1>2, <1>3, <1>8, <1>11, InPlaceIs, <1>4, <1>6, <1>9
<1> QED
  BY <1>10, <1>11

LEMMA StartChild ==
    ASSUME CanvasInv, NEW r \in Runs, NEW n, n = runs[r].origin, ~ runs[r].empty,
           NEW asked \in SUBSET Items, Started(r, asked), runs[r].kind = "text" => 1 \in asked,
           runs[r] \in RunSet, n \in Ids, runs[r].kind \in Media \cup {"text"},
           NEW run, run = runs'[r], NEW child, child = made'
    PROVE  /\ \A q \in Runs : q # r => runs'[q] = runs[q]
           /\ SameTrait(runs[r], run) /\ run.stage = "asking" /\ run.root = child
           /\ run.left = asked /\ run.done = runs[r].done /\ run.halt = runs[r].halt
           /\ child \in Ids /\ child \notin 1..made
           /\ requests' = [requests EXCEPT ![child] = r]
           /\ \A m \in Ids \ {child} :
                 /\ SameButStatus(nodes[m], nodes'[m])
                 /\ nodes'[m].gen.status =
                       IF m = n /\ m \in Live(nodes) /\ SourceMark(r) # "keep"
                       THEN SourceMark(r) ELSE nodes[m].gen.status
           /\ nodes'[child].type = runs[r].kind /\ ~ nodes'[child].filled
           /\ nodes'[child].gen.status = "loading" /\ nodes'[child].gen.batch \in {0, r}
           /\ nodes'[child].gen.primary = IF runs[r].kind = "text" THEN 1 ELSE 0
           /\ nodes'[child].gen.shown = 0
           /\ \A i \in asked : nodes'[child].gen.items[i] = "loading"
<1>1. PICK gen : gen = Loading(r, asked)
  OBVIOUS
<1>2. /\ gen \in GenSet /\ gen.status = "loading" /\ gen.batch \in {0, r}
      /\ gen.primary = IF runs[r].kind = "text" THEN 1 ELSE 0
      /\ gen.shown = 0 /\ \A i \in asked : gen.items[i] = "loading"
  BY <1>1, LoadingIs
<1>3. PICK mid : mid = IF SourceMark(r) = "keep" THEN nodes ELSE Marked(nodes, n, SourceMark(r))
  OBVIOUS
<1>4. PICK result : result = Node(runs[r].kind, 0, FALSE, gen)
  OBVIOUS
<1>5. result.type = runs[r].kind /\ ~ result.filled /\ result.gen = gen
  BY <1>4 DEF Node
<1>6. /\ made < MaxNodes /\ child = made + 1
      /\ nodes' = [mid EXCEPT ![child] = result]
      /\ runs' = [runs EXCEPT ![r].stage = "asking", ![r].left = asked, ![r].root = child]
      /\ requests' = [requests EXCEPT ![child] = r]
  BY <1>1, <1>3, <1>4 DEF Started
<1>7. child \in Ids /\ child \notin 1..made
  BY <1>6 DEF Ids, CanvasInv, GraphInv
<1>8. PICK got : got = Childed(runs[r], asked, child)
  OBVIOUS
<1>9. /\ got \in RunSet /\ SameTrait(runs[r], got) /\ got.stage = "asking" /\ got.root = child
      /\ got.left = asked /\ got.done = runs[r].done /\ got.halt = runs[r].halt
  BY <1>7, <1>8, AskedIs DEF Ids
<1>10. runs \in [Runs -> RunSet] /\ nodes \in [Ids -> NodeSet]
  BY NodesTyped DEF CanvasInv, GenTypeOK
<1>11. run = got /\ \A q \in Runs : q # r => runs'[q] = runs[q]
  BY <1>6, <1>8, <1>10 DEF Childed
<1>12. /\ mid \in [Ids -> NodeSet] /\ \A m \in Ids : SameButStatus(nodes[m], mid[m])
       /\ \A m \in Ids : mid[m].gen.status =
             IF m = n /\ m \in Live(nodes) /\ SourceMark(r) # "keep"
             THEN SourceMark(r) ELSE nodes[m].gen.status
  <2>1. CASE SourceMark(r) = "keep"
    BY <1>3, <1>10, <2>1 DEF SameButStatus, SameItems, SameLook
  <2>2. CASE SourceMark(r) # "keep"
    <3>1. PICK mark \in Marks : mark = SourceMark(r)
      BY <2>2, InMarks DEF SourceMark
    <3> QED
      BY <2>2, <3>1, <1>10, <1>3, MarkedIs
  <2> QED
    BY <2>1, <2>2
<1>13. nodes'[child] = result /\ \A m \in Ids \ {child} : nodes'[m] = mid[m]
  BY <1>6, <1>7, <1>12
<1>14. \A m \in Ids \ {child} : SameButStatus(nodes[m], nodes'[m])
  BY <1>12, <1>13
<1>15. \A m \in Ids \ {child} : nodes'[m].gen.status =
             IF m = n /\ m \in Live(nodes) /\ SourceMark(r) # "keep"
             THEN SourceMark(r) ELSE nodes[m].gen.status
  BY <1>12, <1>13
<1> QED
  BY <1>2, <1>5, <1>6, <1>7, <1>9, <1>11, <1>13, <1>14, <1>15

(* Whatever a run asks for first is a new batch.                            *)
LEMMA FirstBatch ==
    ASSUME OwedInv, NEW r \in Runs, Early(r)
    PROVE  /\ \A n \in Ids : nodes[n].gen.batch # r /\ entry.nodes[n].gen.batch # r
           /\ \A q \in Runs : runs[q].batch # r
BY DEF OwedInv, Unborn, Batches

LEMMA StartOwes == ASSUME CanvasInv, OwedInv, NEW r \in Runs, Start(r) PROVE OwedInv'
<1>1. PICK n, run, child : n = runs[r].origin /\ run = runs'[r] /\ child = made'
  OBVIOUS
<1>2. PICK asked \in SUBSET Items :
           /\ Started(r, asked) /\ (runs[r].kind = "text" => 1 \in asked)
           /\ runs[r].stage = "hydrating" /\ ~ Aborted(r) /\ UNCHANGED <<entry, clipboard>>
           /\ runs[r] \in RunSet /\ runs[r].root = n
           /\ n \in 1..made /\ n \in Ids /\ ~ Registers(r)
           /\ runs[r].kind \in Media \cup {"text"}
  BY <1>1, StartPlace
<1>4. /\ \A m \in Ids : nodes[m].gen.batch # r /\ entry.nodes[m].gen.batch # r
      /\ \A q \in Runs : runs[q].batch # r
  BY <1>2, FirstBatch DEF Early
<1>5. /\ \A q \in Runs : q # r => runs'[q] = runs[q]
      /\ SameTrait(runs[r], run) /\ run.stage = "asking"
      /\ run.left = asked /\ run.halt = runs[r].halt /\ run.root \in {n, child} /\ run.root \in Ids
  <2>1. CASE runs[r].empty
    BY <1>1, <1>2, <2>1, StartInPlace
  <2>2. CASE ~ runs[r].empty
    BY <1>1, <1>2, <2>2, StartChild
  <2> QED
    BY <2>1, <2>2
<1>6. /\ \A m \in Ids : m # run.root => SameItems(nodes[m], nodes'[m])
      /\ nodes'[run.root].gen.batch \in {0, r, nodes[run.root].gen.batch}
      /\ nodes'[run.root].gen.batch = r => Waits(nodes'[run.root].gen, asked)
      /\ run.root = n \/ (run.root = child /\ child \notin 1..made)
  <2>1. CASE runs[r].empty
    BY <1>1, <1>2, <1>4, <2>1, StartInPlace DEF SameItems, Waits
  <2>2. CASE ~ runs[r].empty
    BY <1>1, <1>2, <2>2, StartChild DEF SameButStatus, Waits
  <2> QED
    BY <2>1, <2>2
<1>7. \A t \in Ids : requests'[t] \in {requests[t], r}
  <2>2. CASE runs[r].empty
    BY <1>1, <1>2, <2>2, StartInPlace
  <2>3. CASE ~ runs[r].empty
    BY <1>1, <1>2, <2>3, StartChild DEF CanvasInv, GenTypeOK
  <2> QED
    BY <2>2, <2>3
<1>8. run.halt = "no" /\ runs[r].halt = "no"
  BY <1>2, <1>5 DEF Aborted
<1>9. OthersHalt(r)
  BY <1>5, HaltsItself DEF OthersHalt
<1>10. Begins(r)
  <2>1. ~ Early(r)'
    BY <1>1, <1>5 DEF Early
  <2>3. \A m \in Ids : nodes'[m].gen.batch \in Known
    BY <1>5, <1>6, <2>1, KnownBatches DEF SameItems, Known
  <2>4. runs'[r].batch \in Known
    BY <1>1, <1>5, KnownBatches DEF SameTrait
  <2> QED
    BY <1>2, <1>8, <1>9, <2>1, <2>3, <2>4 DEF Begins
<1>11. ASSUME NEW p \in Runs \ {r}, Due(p)'
       PROVE  Due(p) /\ runs'[p] = runs[p] /\ runs[p].root \in Ids /\ runs[p].root # run.root
  BY <1>5, <1>11, RunNode, <1>2, LivePair, <1>6, SMTT(30) DEF Due, Aborted, Registers, InFlight
<1>12. \A p \in Runs \ {r} : Due(p)' => WaitsOn(nodes, nodes', p)
  BY <1>6, <1>11 DEF WaitsOn, SameItems
<1>13. Owed(nodes, r)' /\ Owed(entry.nodes, r)'
  BY <1>2, <1>4, <1>5, <1>1, <1>6 DEF Owed
<1>14. \A q \in Runs : Late(q, r)' /\ Late(r, q)'
  BY <1>1, <1>4, <1>5 DEF SameTrait, Late
<1>15. ASSUME NEW q \in Runs PROVE Alone(q, r)' /\ Alone(r, q)'
  <2>1. run.origin = n
    BY <1>1, <1>5 DEF SameTrait
  <2>2. Alone(q, r)'
    <3>1. CASE q = r \/ run.root = n
      BY <1>1, <2>1, <3>1 DEF Alone
    <3>2. CASE q # r /\ run.root # n
      BY <1>5, <1>6, <3>2, RunNode, <1>1 DEF Alone
    <3> QED
      BY <3>1, <3>2
  <2>3. Alone(r, q)'
    <3>1. CASE q = r
      BY <2>2, <3>1
    <3>2. CASE q # r
      BY <1>11, <3>2, <1>1, <1>2, <2>1 DEF OwedInv, PairsFit, Alone
    <3> QED
      BY <3>1, <3>2
  <2> QED
    BY <2>2, <2>3
<1>16. StopsClean'
  <2> SUFFICES ASSUME NEW t \in Ids, NEW q \in Runs, requests'[t] = q
               PROVE  runs'[q].halt # "stopped" /\ (Registers(q)' => runs'[q].halt = "no")
    BY DEF StopsClean
  <2>1. CASE q = r
    BY <1>1, <1>8, <2>1
  <2>2. CASE q # r
    BY <1>5, <1>7, <2>2 DEF OwedInv, StopsClean, Registers
  <2> QED
    BY <2>1, <2>2
<1>17. TaskFits(r)'
  BY <1>5, <1>1, <1>2 DEF OwedInv, TasksFit, SameTrait, Registers, TaskFits
<1> QED
  BY <1>10, <1>12, <1>13, <1>14, <1>15, <1>16, <1>17, OneBegins

-----------------------------------------------------------------------------
(* A retry resolves its references; an item it is asked about has failed.   *)
LEMMA RetryShape ==
    ASSUME CanvasInv, NEW r \in Runs, NEW n \in Live(nodes), NEW i \in {0} \cup Items,
           Retry(r, n, i), NEW run, run = runs'[r]
    PROVE  /\ UNCHANGED <<requests, running, confirm>> /\ UNCHANGED graphVars
           /\ runs[r].stage = "none" /\ \A q \in Runs : q # r => runs'[q] = runs[q]
           /\ run.stage = "resolving" /\ run.kind = "retry" /\ run.origin \in Live(nodes)
           /\ run.root = n /\ n \in Ids /\ run.type = nodes[n].type
           /\ run.batch = nodes[n].gen.batch /\ run.left = {} /\ run.done = {}
           /\ run.halt = "no" /\ ~ run.config
           /\ (run.marks <=> i = 0)
           /\ i # 0 => /\ run.item = i /\ nodes[n].type = "image"
                       /\ nodes[n].gen.items[i] = "error"
           /\ i = 0 /\ nodes[n].type # "image" => run.item = 0
<1> DEFINE node == nodes[n]
<1>1. /\ runs[r].stage = "none" /\ node.type # "group"
      /\ UNCHANGED <<requests, running, confirm>> /\ UNCHANGED graphVars
      /\ i # 0 => node.type = "image" /\ node.gen.items[i] = "error"
  BY DEF Retry, IsNext
<1>2. PICK item : item = IF i # 0 THEN i ELSE IF node.type # "image" THEN 0
                         ELSE IF node.gen.primary # 0 THEN node.gen.primary ELSE Other
  OBVIOUS
<1>3. PICK marks \in BOOLEAN : marks = (i = 0)
  OBVIOUS
<1>4. PICK source \in RetrySources(n) :
          runs' = [runs EXCEPT ![r] = RetryOf(source, n, node.type, node.gen.batch, item, marks)]
  BY <1>2, <1>3, Zenon DEF Retry, RetryOf
<1>5. /\ n \in Ids /\ n \in 0..MaxNodes
      /\ nodes \in [Ids -> NodeSet] /\ runs \in [Runs -> RunSet]
  BY <1>1, LiveNode, NodesTyped DEF Ids, CanvasInv, GenTypeOK
<1>6. source \in 0..MaxNodes /\ source \in Live(nodes)
  <2>1. CASE source = n
    BY <1>5, <2>1
  <2>2. CASE source \in Ids /\ nodes[source].type = "config"
    BY <2>2 DEF Live, Ids
  <2> QED
    BY <2>1, <2>2, Zenon DEF RetrySources
<1>7. /\ node.type \in Media \cup {"text", "config"}
      /\ node.gen.batch \in {0} \cup Runs /\ item \in {0, Other} \cup Items
  BY <1>5, NodeFields, GenOfNode, <1>1, <1>2, GenFields DEF Live, Types
<1> HIDE DEF node
<1>8. PICK new : new = RetryOf(source, n, node.type, node.gen.batch, item, marks)
  OBVIOUS
<1>9. PICK type \in Media \cup {"text", "config"}, batch \in {0} \cup Runs :
          type = node.type /\ batch = node.gen.batch
  BY <1>7
<1>11. /\ new.stage = "resolving" /\ new.kind = "retry"
       /\ new.origin = source /\ new.root = n /\ new.type = type /\ new.batch = batch
       /\ new.item = item /\ new.left = {} /\ new.done = {} /\ new.halt = "no"
       /\ (new.marks <=> marks) /\ ~ new.config
  BY <1>8, <1>9 DEF NoRun, RetryOf
<1>12. run = new /\ \A q \in Runs : q # r => runs'[q] = runs[q]
  BY <1>4, <1>5, <1>8, <1>11
<1>13. (run.marks <=> i = 0) /\ ~ run.config
  BY <1>3, <1>11, <1>12
<1>14. i # 0 => run.item = i
  BY <1>2, <1>11, <1>12
<1>15. run.type = nodes[n].type /\ run.batch = nodes[n].gen.batch
  BY <1>9, <1>11, <1>12 DEF node
<1>16. run.stage = "resolving" /\ run.kind = "retry" /\ run.origin \in Live(nodes)
        /\ run.root = n /\ run.left = {} /\ run.done = {} /\ run.halt = "no"
  BY <1>6, <1>11, <1>12
<1>17. i # 0 => nodes[n].type = "image" /\ nodes[n].gen.items[i] = "error"
  BY <1>1 DEF node
<1>18. i = 0 /\ nodes[n].type # "image" => run.item = 0
  BY <1>2, <1>11, <1>12 DEF node
<1> QED
  BY <1>1, <1>5, <1>12, <1>13, <1>14, <1>15, <1>16, <1>17, <1>18

LEMMA RetryOwes ==
    ASSUME CanvasInv, OwedInv, NEW r \in Runs, NEW n \in Live(nodes), NEW i \in {0} \cup Items,
           Retry(r, n, i)
    PROVE  OwedInv'
<1>1. PICK run : run = runs'[r]
  OBVIOUS
<1>2. /\ UNCHANGED requests /\ UNCHANGED <<nodes, entry, clipboard>>
      /\ runs[r].stage = "none" /\ \A q \in Runs : q # r => runs'[q] = runs[q]
      /\ run.stage = "resolving" /\ run.kind = "retry"
      /\ run.root = n /\ n \in Ids /\ run.type = nodes[n].type
      /\ run.batch = nodes[n].gen.batch /\ run.left = {} /\ run.halt = "no"
      /\ (run.marks <=> i = 0)
      /\ i # 0 => /\ run.item = i /\ nodes[n].type = "image"
                  /\ nodes[n].gen.items[i] = "error"
  BY <1>1, RetryShape DEF graphVars
<1>3. TaskFits(r) /\ runs[r].halt = "no"
  BY <1>2 DEF OwedInv, TasksFit, TaskFits
<1>4. OthersHalt(r)
  BY <1>2, HaltsItself DEF OthersHalt
<1>5. Begins(r)
  BY <1>1, <1>2, <1>3, <1>4, KnownBatches DEF Begins, Early
<1>6. Registers(r)' /\ ~ Due(r)'
  BY <1>1, <1>2 DEF Registers, Due
<1>7. \A p \in Runs \ {r} : Due(p)' => WaitsOn(nodes, nodes', p)
  BY <1>2 DEF WaitsOn
<1>8. \A q \in Runs : /\ Late(q, r)' /\ Alone(q, r)' /\ Alone(r, q)'
  BY <1>6 DEF Late, Alone
<1>9. ASSUME NEW q \in Runs PROVE Late(r, q)'
  <2> SUFFICES ASSUME ~ run.marks, Due(q)', n = runs'[q].root, run.batch = q
               PROVE  run.item \notin runs'[q].left \/ Excused(n)'
    BY <1>1, <1>2 DEF Late, Excused
  <2>1. q # r /\ runs'[q] = runs[q]
    BY <1>2, <1>6, Zenon
  <2>2. Due(q) /\ runs[q].root = n
    BY <2>1 DEF Due, Aborted, Registers
  <2>4. run.item = i /\ nodes[n].gen.items[i] = "error"
    BY <1>2, Zenon
  <2>5. CASE Waits(nodes[n].gen, runs[q].left)
    BY <2>1, <2>4, <2>5 DEF Waits
  <2>6. CASE Excused(n)
    BY <1>3, <1>4, <2>6, ExcusedStays DEF Remembers
  <2> QED
    BY <1>2, <2>2, <2>5, <2>6, Zenon DEF Owed, OwedInv, OwedNow
<1>10. StopsClean'
  <2> SUFFICES ASSUME NEW t \in Ids, NEW q \in Runs, requests'[t] = q
               PROVE  runs'[q].halt # "stopped" /\ (Registers(q)' => runs'[q].halt = "no")
    BY DEF StopsClean
  <2>1. CASE q = r
    BY <1>1, <1>2, <2>1
  <2>2. CASE q # r
    BY <1>2, <2>2 DEF OwedInv, StopsClean, Registers
  <2> QED
    BY <2>1, <2>2
<1>11. TaskFits(r)'
  BY <1>1, <1>2 DEF TaskFits, MediaKinds
<1> QED
  BY <1>5, <1>6, <1>7, <1>8, <1>9, <1>10, <1>11, OneBegins

-----------------------------------------------------------------------------
(* Steps in which no run goes on: runs may be halted, the document changes. *)
AllHalt == \A q \in Runs : OnlyHalts(runs[q], runs'[q])
LEMMA AllFollow ==
    ASSUME AllHalt
    PROVE  Remembers(0) /\ \A p \in Runs : Follows(runs[p], runs'[p])
BY Sizes, HaltFollows DEF AllHalt, Remembers, OthersHalt

LEMMA NoneGoesOn ==
    ASSUME OwedInv, AllHalt, StopsClean',
           \A n \in Ids : /\ nodes'[n].gen.batch \in Known
                          /\ entry'.nodes[n].gen.batch \in Known
                          /\ clipboard'.nodes[n].gen.batch \in Known,
           \A p \in Runs : Due(p)' => Owed(nodes, p)' /\ Owed(entry.nodes, p)'
    PROVE  OwedInv'
<1>1. Remembers(0) /\ \A p \in Runs : Follows(runs[p], runs'[p])
  BY AllFollow
<1>3. Unborn'
  BY <1>1, KnownBatches, BatchesStay, UnbornStays DEF Early, Follows, SameTrait, OwedInv
<1>4. PairsFit'
  <2> SUFFICES ASSUME NEW q \in Runs, NEW p \in Runs PROVE Late(q, p)' /\ Alone(q, p)'
    BY DEF PairsFit
  <2> QED
    BY <1>1, PairStays DEF OwedInv, PairsFit
<1>5. TasksFit'
  <2> SUFFICES ASSUME NEW q \in Runs PROVE TaskFits(q)'
    BY DEF TasksFit
  <2>1. TaskFits(q) /\ OnlyHalts(runs[q], runs'[q])
    BY DEF OwedInv, TasksFit, AllHalt
  <2> QED
    BY <2>1 DEF OnlyHalts, SameTrait, TaskFits, Registers, OneResult
<1> QED
  BY <1>3, <1>4, <1>5 DEF OwedInv, OwedNow

LEMMA SameOwes ==
    ASSUME OwedInv, UNCHANGED <<nodes, entry, clipboard, runs, requests>> PROVE OwedInv'
<1>2. StopsClean'
  BY DEF OwedInv, StopsClean, Registers
<1>3. \A p \in Runs : Due(p)' => Owed(nodes, p)' /\ Owed(entry.nodes, p)'
  BY DEF OwedInv, OwedNow, Due, Owed, Excused, Aborted, Registers, Waits
<1> QED
  BY HaltsItself, <1>2, <1>3, KnownBatches, NoneGoesOn DEF AllHalt

(* A cut node keeps its batch, and the items that were not loading.         *)
Cut(node, status) == [node EXCEPT !.gen = GenCut(@, status)]
LEMMA CutNode ==
    ASSUME NEW ns \in [Ids -> NodeSet], NEW n \in Ids, NEW status \in Marks,
           NEW new, new = Cut(ns[n], status)
    PROVE  /\ SameLook(ns[n], new) /\ new.gen.batch = ns[n].gen.batch
           /\ new.gen.status = IF ns[n].gen.status = "loading" THEN status ELSE ns[n].gen.status
<1>1. PICK gen : gen = GenCut(ns[n].gen, status)
  OBVIOUS
<1>2. ns[n] \in NodeSet /\ ns[n].gen \in GenSet
  BY GenOfNode
<1> QED
  BY <1>1, <1>2, CutIs, GenTaken DEF SameLook, Cut

(* What ConfirmStop stops.                                                  *)
StopTargets == {t \in Ids : requests[t] # 0 /\ Shows(requests[t]) = confirm}
StoppedRuns == {requests[t] : t \in StopTargets}
LEMMA StopShape ==
    ASSUME CanvasInv, OwedInv, ConfirmStop
    PROVE  /\ AllHalt /\ UNCHANGED <<entry, clipboard, edits, jobs>> /\ StoppedRuns \subseteq Runs
           /\ \A t \in Ids : requests'[t] = IF t \in StopTargets THEN 0 ELSE requests[t]
           /\ \A q \in Runs : runs'[q].halt = IF q \in StoppedRuns /\ ~ Aborted(q) THEN "stopped"
                                              ELSE runs[q].halt
           /\ \A n \in Ids : n \notin StopTargets /\ (\A q \in StoppedRuns : runs[q].origin # n)
                                => nodes'[n] = nodes[n]
           /\ \A n \in Ids : n \in StopTargets \/ (\E q \in StoppedRuns : runs[q].origin = n)
                 => nodes'[n] = Cut(nodes[n], "idle")
<1> DEFINE T == StopTargets
           S == StoppedRuns
           affected == T \cup {runs[q].origin : q \in S}
<1>1. /\ runs' = [r \in Runs |-> IF r \in S /\ ~ Aborted(r)
                                 THEN [runs[r] EXCEPT !.halt = "stopped"] ELSE runs[r]]
      /\ requests' = [t \in Ids |-> IF t \in T THEN 0 ELSE requests[t]]
      /\ nodes' = [n \in Ids |-> IF n \in affected
                                 THEN [nodes[n] EXCEPT !.gen = GenCut(@, "idle")] ELSE nodes[n]]
      /\ GraphKeeps
  BY DEF ConfirmStop, StopTargets, StoppedRuns
<1>2. S \subseteq Runs
  BY DEF CanvasInv, GenTypeOK, StopTargets, StoppedRuns
<1>3. ASSUME NEW q \in Runs
      PROVE  /\ OnlyHalts(runs[q], runs'[q])
             /\ runs'[q].halt = IF q \in S /\ ~ Aborted(q) THEN "stopped" ELSE runs[q].halt
  <2>1. CASE ~ (q \in S /\ ~ Aborted(q))
    BY <1>1, <2>1, HaltsItself
  <2>2. CASE q \in S /\ ~ Aborted(q)
    <3>1. PICK run, new : run = runs[q] /\ new = [run EXCEPT !.halt = "stopped"]
      OBVIOUS
    <3>2. run \in RunSet /\ runs'[q] = new
      BY <1>1, <2>2, <3>1 DEF CanvasInv, GenTypeOK
    <3>5. /\ new.root = run.root /\ new.stage = run.stage /\ new.left = run.left
          /\ new.done = run.done /\ new.halt = "stopped"
      BY <3>1, <3>2 DEF RunSet
    <3>6. PICK t \in Ids : requests[t] = q
      BY <2>2 DEF StopTargets, StoppedRuns
    <3>8. SameTrait(run, new)
      BY <3>1, <3>2 DEF SameTrait, RunSet
    <3>9. OnlyHalts(run, new)
      BY <3>5, <3>1, <3>6, EntriesOwned, <3>8 DEF OnlyHalts, OwnsEntry, InFlight
    <3> QED
      BY <2>2, <3>1, <3>2, <3>5, <3>9
  <2> QED
    BY <2>1, <2>2
<1>4. \A n \in Ids : n \in affected <=> n \in T \/ \E q \in S : runs[q].origin = n
  OBVIOUS
<1> HIDE DEF affected
<1> QED
  BY <1>1, <1>2, <1>3, <1>4 DEF AllHalt, GraphKeeps, Cut


LEMMA StopOwes == ASSUME CanvasInv, OwedInv, ConfirmStop PROVE OwedInv'
<1> DEFINE T == StopTargets
           S == StoppedRuns
<1>3. /\ AllHalt /\ UNCHANGED <<entry, clipboard>> /\ S \subseteq Runs
      /\ \A t \in Ids : requests'[t] = IF t \in T THEN 0 ELSE requests[t]
      /\ \A q \in Runs : runs'[q].halt = IF q \in S /\ ~ Aborted(q) THEN "stopped"
                                         ELSE runs[q].halt
  BY StopShape
<1>4. \A n \in Ids : n \notin T /\ (\A q \in S : runs[q].origin # n) => nodes'[n] = nodes[n]
  BY StopShape
<1>5. Remembers(0) /\ \A p \in Runs : Follows(runs[p], runs'[p])
  BY <1>3, AllFollow
<1>6. StopsClean'
  <2> SUFFICES ASSUME NEW t \in Ids, NEW q \in Runs, requests'[t] = q
               PROVE  runs'[q].halt # "stopped" /\ (Registers(q)' => runs'[q].halt = "no")
    BY DEF StopsClean
  <2>1. t \notin T /\ requests[t] = q
    BY <1>3, Sizes
  <2>3. q \notin S
    BY <2>1, Sizes DEF StopTargets, StoppedRuns
  <2> QED
    BY <2>1, <1>3, <1>5, <2>3 DEF OwedInv, StopsClean, Follows, SameTrait, Registers
<1>7. \A n \in Ids : nodes'[n].gen.batch = nodes[n].gen.batch
  <2> SUFFICES ASSUME NEW n \in Ids PROVE nodes'[n].gen.batch = nodes[n].gen.batch
    OBVIOUS
  <2>1. PICK idle \in Marks : idle = "idle"
    BY InMarks
  <2>3. PICK new : new = Cut(nodes[n], idle)
    OBVIOUS
  <2> QED
    BY <2>1, StopShape, <2>3, CutNode, NodesTyped
<1>8. ASSUME NEW p \in Runs, Due(p)' PROVE Owed(nodes, p)' /\ Owed(entry.nodes, p)'
  <2>1. Due(p) /\ runs'[p].halt = "no" /\ p \notin S
    BY <1>3, <1>5, <1>8, DueBefore DEF Due, Aborted
  <2>2. Owed(nodes, p) /\ Owed(entry.nodes, p)
    BY <2>1 DEF OwedInv, OwedNow
  <2>3. Owed(entry.nodes, p)'
    BY <1>3, <1>5, <2>2, EntryOwed
  <2>4. PICK n : n = runs[p].root
    OBVIOUS
  <2>5. n \in Ids /\ runs'[p].root = n
    BY <1>5, <2>1, <2>4, RunNode DEF Due, Follows
  <2>6. InFlight(p) /\ ~ Aborted(p) /\ ~ Registers(p)
    BY <2>1 DEF Due, InFlight
  <2>7. requests[n] = p /\ requests[runs[p].origin] = p
    BY <2>4, <2>6 DEF CanvasInv, RegistryExact, LiveRunRegistered
  <2>8. n \notin T
    BY <2>1, <2>7 DEF StoppedRuns
  <2>9. CASE \A q \in S : runs[q].origin # n
    BY <1>4, <2>5, <2>8, <2>9, <2>4, <1>5, <2>2, StillOwed, <2>3, Zenon DEF WaitsOn
  <2>10. ASSUME NEW q \in S, runs[q].origin = n PROVE Owed(nodes, p)'
    <3>1. q \in Runs /\ runs'[q].origin = n /\ q # p
      BY <1>3, <1>5, <2>1, <2>10 DEF Follows, SameTrait
    <3>2. CASE ~ Aborted(q)
      BY <1>3, <3>1, <3>2, <2>5 DEF Excused, Owed
    <3>3. CASE Aborted(q)
      <4>1. PICK t \in T : requests[t] = q
        BY DEF StoppedRuns
      <4>2. t \in Ids /\ Shows(q) = confirm
        BY <4>1 DEF StopTargets
      <4>3. ~ Registers(q)
        BY <3>1, <3>3, <4>1, <4>2 DEF OwedInv, StopsClean, Aborted
      <4>5. runs[q].stage # "none"
        BY <3>1, <4>1, <4>2, EntriesOwned DEF OwnsEntry, InFlight
      <4>6. runs[p].root = runs[p].origin
        BY <3>1, <2>1, <2>4, <2>10, <4>3, <4>5 DEF OwedInv, PairsFit, Alone
      <4>7. Shows(p) = confirm
        BY <2>4, <2>6, <2>10, <4>2, <4>3, <4>6 DEF Shows
      <4> QED
        BY <2>8, <2>5, <2>7, <4>7, Sizes DEF StopTargets
    <3> QED
      BY <3>2, <3>3
  <2> QED
    BY <2>3, <2>9, <2>10
<1> QED
  BY <1>3, <1>6, <1>7, <1>8, KnownBatches, NoneGoesOn

LEMMA ReloadOwes == ASSUME CanvasInv, OwedInv, Reload PROVE OwedInv'
<1>1. /\ nodes' = Interrupt(nodes) /\ entry'.nodes = nodes' /\ clipboard' = Empty
      /\ runs' = [r \in Runs |-> IF runs[r].stage = "none" THEN runs[r]
                                 ELSE [runs[r] EXCEPT !.stage = "over"]]
      /\ requests' = [n \in Ids |-> 0]
  BY DEF Reload, ReloadPage
<1>2. ASSUME NEW q \in Runs
      PROVE  /\ SameTrait(runs[q], runs'[q]) /\ runs'[q].left = runs[q].left
             /\ runs'[q].halt = runs[q].halt /\ runs'[q].stage \in {"none", "over"}
             /\ runs'[q].stage = "none" <=> runs[q].stage = "none"
  <2>1. CASE runs[q].stage = "none"
    BY <1>1, <2>1 DEF SameTrait
  <2>2. CASE runs[q].stage # "none"
    <3>1. PICK run \in RunSet, over \in Stages : run = runs[q] /\ over = "over"
      BY DEF CanvasInv, GenTypeOK, Stages
    <3>2. PICK new : new = [run EXCEPT !.stage = over]
      OBVIOUS
    <3> QED
      BY <2>2, <3>1, <3>2, StageTrait, <1>1
  <2> QED
    BY <2>1, <2>2
<1>4. OwedNow' /\ PairsFit'
  BY <1>2 DEF OwedNow, PairsFit, Late, Alone, Due
<1>6. TasksFit'
  <2> SUFFICES ASSUME NEW q \in Runs PROVE TaskFits(q)'
    BY DEF TasksFit
  <2> QED
    BY <1>2 DEF TaskFits, SameTrait, Registers, OwedInv, TasksFit
<1>7. Unborn'
  <2>3. ASSUME NEW n \in Ids
        PROVE  nodes'[n].gen.batch \in Known /\ entry'.nodes[n].gen.batch \in Known
    <3>1. PICK status \in Marks : status = "error"
      BY InMarks
    <3>2. PICK new : new = Cut(nodes[n], status)
      OBVIOUS
    <3>5. nodes'[n] = new
      BY <1>1, <3>1, <3>2, NodesTyped, GenOfNode, GenerationAssumption DEF Interrupt,
         GenInterrupted, Cut
    <3> QED
      BY <1>1, <3>2, CutNode, NodesTyped, <3>5, KnownBatches
  <2>4. \A n \in Ids : clipboard'.nodes[n].gen.batch = 0
    BY <1>1, GenerationAssumption, NewGenType DEF Empty, Blank, Node
  <2> QED
    BY <1>2, KnownBatches, <2>3, <2>4, BatchesStay, UnbornStays DEF OwedInv, Early, SameTrait
<1> QED
  BY <1>4, <1>1, Sizes, <1>6, <1>7 DEF OwedInv, StopsClean

-----------------------------------------------------------------------------
(* Editing: a node keeps its batch, or has none, or is new.                 *)
Harmless(n, node) ==
    \/ node.gen.batch = 0
    \/ n \notin 1..made /\ node.gen.batch \in Batches
    \/ /\ node.gen.batch = nodes[n].gen.batch
       /\ \A i \in Items : node.gen.items[i] \in {nodes[n].gen.items[i], "none"}
EditedSafely ==
    /\ UNCHANGED <<runs, requests>>
    /\ entry' = entry \/ entry'.nodes = nodes
    /\ \A n \in Ids : clipboard'.nodes[n].gen.batch \in Batches \cup {0}
    /\ (\A n \in Ids : Harmless(n, nodes'[n])) \/ nodes' = entry.nodes

LEMMA EditOwes == ASSUME CanvasInv, OwedInv, EditedSafely PROVE OwedInv'
<1>1. AllHalt
  BY HaltsItself DEF AllHalt, EditedSafely
<1>2. Remembers(0) /\ \A p \in Runs : Follows(runs[p], runs'[p])
  BY <1>1, AllFollow
<1>4. \A n \in Ids : /\ nodes'[n].gen.batch \in Known
                     /\ entry'.nodes[n].gen.batch \in Known
                     /\ clipboard'.nodes[n].gen.batch \in Known
  BY Zenon DEF Known, Batches, EditedSafely, Harmless
<1>5. ASSUME NEW p \in Runs, Due(p)' PROVE Owed(nodes, p)' /\ Owed(entry.nodes, p)'
  <2>1. Due(p)
    BY <1>2, <1>5, DueBefore
  <2>2. Owed(nodes, p) /\ Owed(entry.nodes, p)
    BY <2>1 DEF OwedInv, OwedNow
  <2>3. PICK n : n = runs[p].root
    OBVIOUS
  <2>4. n \in Ids /\ n \in 1..made /\ runs[p].left \subseteq Items /\ runs'[p] = runs[p]
    BY <2>1, <2>3, RunNode, RunFields DEF Due, CanvasInv, GenTypeOK, EditedSafely
  <2>5. PICK doc, back, new, old :
            doc = nodes /\ back = entry.nodes /\ new = nodes' /\ old = entry'.nodes
    OBVIOUS
  <2>6. Owed(doc, p)' /\ Owed(back, p)'
    BY <2>2, <2>5, <1>2, OwedAgain, Zenon DEF WaitsOn
  <2>7. Owed(new, p)'
    <3>1. CASE nodes' = entry.nodes
      BY <2>5, <2>6, <3>1
    <3>2. CASE Harmless(n, nodes'[n])
      BY Sizes, <2>3, <2>4, <2>5, <3>2, <2>2, <1>2, OwedAgain, Zenon DEF WaitsOn, Harmless
    <3> QED
      BY <2>4, <3>1, <3>2 DEF EditedSafely
  <2> QED
    BY <2>5, <2>7, <2>6 DEF Owed, EditedSafely
<1> QED
  BY <1>1, <1>4, <1>5, NoneGoesOn DEF OwedInv, StopsClean, Registers, EditedSafely

(* Content put in by hand.                                                  *)
LEMMA SettledIs ==
    ASSUME NEW gen \in GenSet, NEW type \in Media \cup {"text"}, NEW new, new = Settled(gen, type)
    PROVE  /\ new \in GenSet
           /\ new.batch = 0 \/ (new.batch = gen.batch /\ new.items = gen.items)
<1>1. new = GenSettled(gen, type)
  BY GenerationAssumption
<1>2. CASE type = "image"
  BY <1>1, <1>2, NewGenType, InMarks DEF GenSettled, GenSet
<1>3. CASE type # "image"
  <2>1. PICK success \in Marks : success = "success"
    BY InMarks
  <2>2. PICK shown \in {0, Other} \cup Items : shown = IF type = "text" THEN gen.shown ELSE 0
    BY GenFields
  <2>3. new = [gen EXCEPT !.status = success, !.shown = shown]
    BY <1>1, <1>3, <2>1, <2>2 DEF GenSettled
  <2> QED
    BY <2>3 DEF GenSet
<1> QED
  BY <1>2, <1>3

LEMMA MintedHarmless ==
    /\ \A n, type, group, filled : Harmless(n, Node(type, group, filled, FreshGen))
    /\ \A n : \A type \in Media \cup {"text"} : Harmless(n, Filled(type))
    /\ \A n : Harmless(n, Blank)
    /\ \A n : Harmless(n, nodes[n])
<1>1. FreshGen \in GenSet /\ FreshGen.batch = 0
  BY NewGenType, GenerationAssumption
<1>2. ASSUME NEW type \in Media \cup {"text"} PROVE Filled(type).gen.batch = 0
  <2>1. PICK gen : gen = Settled(FreshGen, type)
    OBVIOUS
  <2> QED
    BY <2>1, <1>1, SettledIs DEF Filled, Node
<1> QED
  BY <1>1, <1>2 DEF Harmless, Node, Blank

(* Edits that leave the runs alone, and the copies of the document.         *)
OnlyNodes == UNCHANGED <<runs, requests, entry, clipboard>>
LEMMA NodesEdited ==
    ASSUME OnlyNodes, \A n \in Ids : Harmless(n, nodes'[n]) PROVE EditedSafely
BY DEF OnlyNodes, EditedSafely, Batches

LEMMA InsertEdits ==
    ASSUME CanvasInv, OnlyNodes, NEW node, Insert(node), Harmless(made + 1, node)
    PROVE  EditedSafely
BY NodesTyped, MintedHarmless, NodesEdited DEF Insert, Ids, CanvasInv, GraphInv


(* Only the generation metadata counts here.                                *)
LEMMA SameGen ==
    ASSUME NEW n, NEW node, node.gen = nodes[n].gen PROVE Harmless(n, node)
BY DEF Harmless

LEMMA GroupGiven ==
    ASSUME NEW node \in NodeSet, NEW group, NEW new, new = [node EXCEPT !.group = group]
    PROVE  new.gen = node.gen
BY DEF NodeSet

LEMMA NewNodesEdit ==
    ASSUME CanvasInv, UNCHANGED genVars,
           \/ \E t \in Types, f \in BOOLEAN : CreateNode(t, f)
           \/ \E a \in Live(nodes), t \in CreateTypes, h \in {"source", "target"} :
                 CreateConnected(a, t, h)
           \/ \E n \in Live(nodes) : DuplicateNode(n) \/ ReversePrompt(n) \/ ImageFromText(n)
    PROVE  EditedSafely
<1>0. made \in Nat /\ nodes \in [Ids -> NodeSet]
  BY NodesTyped DEF CanvasInv, GraphInv
<1>1. ASSUME NEW t \in Types, NEW f \in BOOLEAN, CreateNode(t, f) PROVE EditedSafely
  <2>1. PICK node : node = IF f THEN Filled(t) ELSE Node(t, 0, FALSE, FreshGen)
    OBVIOUS
  <2> QED
    BY <1>1, <2>1, MintedHarmless, InsertEdits DEF Media, CreateNode, Keep, OnlyNodes, genVars
<1>2. ASSUME NEW a \in Live(nodes), NEW t \in CreateTypes, NEW h \in {"source", "target"},
             CreateConnected(a, t, h)
      PROVE  EditedSafely
  <2>1. PICK node : node = Node(t, 0, FALSE, FreshGen)
    OBVIOUS
  <2> QED
    BY <1>2, <2>1, MintedHarmless, InsertEdits DEF CreateConnected, Keep, OnlyNodes, genVars
<1>3. ASSUME NEW n \in Live(nodes), DuplicateNode(n) PROVE EditedSafely
  BY <1>3, <1>0, InsertEdits DEF DuplicateNode, Keep, OnlyNodes, genVars, Harmless, Batches,
     Live
<1>4. ASSUME NEW n \in Live(nodes), ReversePrompt(n) PROVE EditedSafely
  <2>1. PICK text, config : text = Filled("text") /\ config = Node("config", 0, FALSE, FreshGen)
    OBVIOUS
  <2>4. \A m : Harmless(m, text) /\ Harmless(m, config) /\ Harmless(m, nodes[m])
    BY <2>1, MintedHarmless
  <2> QED
    BY <1>4, <2>1, <1>0, <2>4, NodesEdited DEF ReversePrompt, Keep, OnlyNodes, genVars
<1>5. ASSUME NEW n \in Live(nodes), ImageFromText(n) PROVE EditedSafely
  <2>1. PICK config, gen, text :
            /\ config = Node("config", 0, FALSE, FreshGen) /\ gen = Settled(nodes[n].gen, "text")
            /\ text = Taking(nodes[n], TRUE, gen)
    OBVIOUS
  <2>2. n \in Ids /\ nodes[n] \in NodeSet /\ nodes[n].gen \in GenSet
    BY <1>0, GenOfNode DEF Live
  <2>3. /\ gen \in GenSet
        /\ gen.batch = 0 \/ (gen.batch = nodes[n].gen.batch /\ gen.items = nodes[n].gen.items)
    BY <2>1, <2>2, SettledIs
  <2>4. text.gen = gen
    BY <2>1, <2>2, <2>3, NodeTakes
  <2>6. nodes' = [nodes EXCEPT ![n] = text, ![made + 1] = config] /\ OnlyNodes
    BY <1>0, <1>5, <2>1, <2>2 DEF ImageFromText, Keep, OnlyNodes, genVars, Taking
  <2>9. \A m \in Ids : Harmless(m, config) /\ Harmless(m, nodes[m])
    BY <2>1, MintedHarmless
  <2>10. \A m \in Ids : Harmless(m, nodes'[m])
    BY <1>0, <2>6, <2>3, <2>4, <2>9 DEF Harmless
  <2> QED
    BY <2>6, <2>10, NodesEdited
<1> QED
  BY <1>1, <1>2, <1>3, <1>4, <1>5


LEMMA TouchedNodesEdit ==
    ASSUME CanvasInv, UNCHANGED genVars,
           \/ \E S \in Selections : DropNodes(S)
           \/ \E n \in Live(nodes), f \in BOOLEAN : WriteText(n, f)
           \/ \E n \in Live(nodes), i \in Items : SetBatchPrimary(n, i) \/ DeleteBatchImage(n, i)
    PROVE  EditedSafely
<1>0. nodes \in [Ids -> NodeSet] /\ \A n \in Ids : nodes[n] \in NodeSet /\ nodes[n].gen \in GenSet
  BY NodesTyped, GenOfNode
<1>1. ASSUME NEW S \in Selections, DropNodes(S) PROVE EditedSafely
  <2>2. PICK of : nodes' = Regroup(DragSet(S), of)
    BY <1>1 DEF DropNodes
  <2>3. ASSUME NEW n \in Ids PROVE Harmless(n, nodes'[n])
    <3>1. PICK node, new : node = nodes[n] /\ new = [node EXCEPT !.group = of[n]]
      OBVIOUS
    <3>3. new.gen = node.gen
      BY <1>0, <3>1, GroupGiven
    <3> QED
      BY <3>1, <2>2, <3>3, SameGen DEF Regroup
  <2> QED
    BY <1>1, <2>3, NodesEdited DEF DropNodes, Keep, OnlyNodes, genVars
<1>2. ASSUME NEW n \in Live(nodes), NEW f \in BOOLEAN, WriteText(n, f) PROVE EditedSafely
  <2>1. /\ OnlyNodes /\ nodes' = [nodes EXCEPT ![n].filled = f]
    BY <1>2 DEF WriteText, Keep, OnlyNodes, genVars
  <2>3. PICK node : node = [nodes[n] EXCEPT !.filled = f]
    OBVIOUS
  <2>5. \A m \in Ids : nodes'[m].gen = nodes[m].gen
    BY <1>0, <2>1, <2>3 DEF NodeSet, Live
  <2> QED
    BY <2>1, <2>5, SameGen, NodesEdited
<1>3. ASSUME NEW n \in Live(nodes), NEW i \in Items, SetBatchPrimary(n, i) PROVE EditedSafely
  <2>1. /\ OnlyNodes /\ nodes' = ShowItem(nodes, n, i) /\ n \in Ids
    BY <1>3, Zenon DEF SetBatchPrimary, ShowItem, Keep, OnlyNodes, genVars, Live
  <2>2. PICK k \in {0, Other} \cup Items : k = i
    OBVIOUS
  <2>3. PICK new : new = ShowItem(nodes, n, k)
    OBVIOUS
  <2>6. \A m \in Ids : Harmless(m, new[m])
    BY <1>0, <2>1, <2>3, ShowItemIs DEF Harmless, SameItems
  <2> QED
    BY <2>1, <2>2, <2>3, <2>6, NodesEdited
<1>4. ASSUME NEW n \in Live(nodes), NEW i \in Items, DeleteBatchImage(n, i) PROVE EditedSafely
  <2> DEFINE rest  == {j \in Items \ {i} : HasItem(n, j)}
             first == IF rest = {} THEN 0 ELSE CHOOSE j \in rest : \A k \in rest : j <= k
  <2>a. nodes' = [nodes EXCEPT ![n].gen.items[i] = "none",
                               ![n].gen.primary = IF @ = i THEN first ELSE @]
    BY <1>4 DEF DeleteBatchImage
  <2> HIDE DEF rest, first
  <2>0. PICK next : nodes' = [nodes EXCEPT ![n].gen.items[i] = "none",
                                           ![n].gen.primary = IF @ = i THEN next ELSE @]
    BY <2>a
  <2>1. OnlyNodes /\ n \in Ids
    BY <1>4 DEF DeleteBatchImage, Keep, OnlyNodes, genVars, Live
  <2>2. PICK primary : primary = IF nodes[n].gen.primary = i THEN next ELSE nodes[n].gen.primary
    OBVIOUS
  <2>3. PICK gen : gen = [nodes[n].gen EXCEPT !.items[i] = "none", !.primary = primary]
    OBVIOUS
  <2>4. /\ gen.batch = nodes[n].gen.batch
        /\ \A j \in Items : gen.items[j] \in {nodes[n].gen.items[j], "none"}
    BY <1>0, <2>1, <2>3, GenFields DEF GenSet
  <2>5. PICK node : node = [nodes[n] EXCEPT !.gen = gen]
    OBVIOUS
  <2>6. node.gen = gen
    BY <1>0, <2>1, <2>5 DEF NodeSet
  <2>8. \A m \in Ids : nodes'[m] = nodes[m] \/ (m = n /\ nodes'[m] = node)
    BY <1>0, <2>0, <2>1, <2>2, <2>3, <2>5
  <2>9. \A m \in Ids : Harmless(m, nodes'[m])
    BY <2>4, <2>6, <2>8 DEF Harmless
  <2> QED
    BY <2>1, <2>9, NodesEdited, SMTT(30)
<1> QED
  BY <1>1, <1>2, <1>3, <1>4

LEMMA GoneNodesEdit ==
    ASSUME CanvasInv, UNCHANGED <<runs, requests>>,
           ClearCanvas \/ \E S \in Selections : DeleteNodes(S)
    PROVE  EditedSafely
<1>1. CASE ClearCanvas
  BY <1>1, MintedHarmless, NodesEdited DEF ClearCanvas, Keep, OnlyNodes, Empty
<1>2. ASSUME NEW S \in Selections, DeleteNodes(S) PROVE EditedSafely
  <2>1. OnlyNodes /\ nodes' = Without(nodes, S)
    BY <1>2 DEF DeleteNodes, OnlyNodes
  <2>2. ASSUME NEW n \in Ids PROVE Harmless(n, nodes'[n])
    <3>1. PICK node, new : node = nodes[n] /\ new = [node EXCEPT !.group = 0]
      OBVIOUS
    <3>3. new.gen = node.gen
      BY NodesTyped, GenOfNode, <3>1, GroupGiven
    <3>4. Harmless(n, Blank)
      BY MintedHarmless
    <3> QED
      BY <3>1, <2>1, <3>3, <3>4, SameGen DEF Without
  <2> QED
    BY <2>1, <2>2, NodesEdited
<1> QED
  BY <1>1, <1>2


LEMMA SameNodesEdit ==
    ASSUME CanvasInv, UNCHANGED genVars,
           \/ UNCHANGED <<nodes, entry, clipboard>>
           \/ \E S \in Selections : CopyNodes(S)
           \/ CommitEntry \/ ApplyEntry
    PROVE  EditedSafely
<1>1. \A n \in Ids : Harmless(n, nodes[n])
  BY MintedHarmless, SMTT(30)
<1>2. \A n \in Ids : nodes[n].gen.batch \in Batches /\ clipboard.nodes[n].gen.batch \in Batches
  BY DEF Batches
<1>3. CASE UNCHANGED <<nodes, entry, clipboard>>
  BY <1>1, <1>2, <1>3 DEF EditedSafely, genVars
<1>4. ASSUME NEW S \in Selections, CopyNodes(S) PROVE EditedSafely
  BY <1>4, NewGenType, GenerationAssumption, <1>2, <1>1 DEF CopyNodes, Blank, Node,
     EditedSafely, genVars
<1>5. CASE CommitEntry \/ ApplyEntry
  BY <1>1, <1>2, <1>5 DEF CommitEntry, ApplyEntry, Document, EditedSafely, genVars
<1> QED
  BY <1>3, <1>4, <1>5

LEMMA PasteEdits == ASSUME CanvasInv, UNCHANGED genVars, PasteCopied PROVE EditedSafely
<1> DEFINE origin(m) == CHOOSE n \in Pasted : IdMap[n] = m
<1>1. OnlyNodes /\ made \in Nat /\ Pasted \subseteq Ids
  BY DEF PasteCopied, Keep, OnlyNodes, genVars, Pasted, Live, CanvasInv, GraphInv
<1>3. ASSUME NEW n \in Pasted PROVE IdMap[n] \notin 1..made
  <2>1. IsFiniteSet({m \in Pasted : m <= n})
    <3>1. IsFiniteSet(Ids)
      BY FS_Interval DEF Ids
    <3> QED
      BY <1>1, <3>1, FS_Subset
  <2>2. {m \in Pasted : m <= n} # {}
    BY <1>1 DEF Ids
  <2>3. PICK c \in Nat : c = Cardinality({m \in Pasted : m <= n}) /\ c # 0
    BY <2>1, <2>2, FS_CardinalityType, FS_EmptySet
  <2> QED
    BY <1>1, <2>3 DEF IdMap
<1>4. ASSUME NEW m \in Ids PROVE Harmless(m, nodes'[m])
  <2>1. CASE m \notin {IdMap[n] : n \in Pasted}
    BY <2>1, MintedHarmless DEF PasteCopied, PasteNodes
  <2>2. CASE m \in {IdMap[n] : n \in Pasted}
    <3>1. PICK o : o = origin(m)
      OBVIOUS
    <3>2. o \in Pasted /\ IdMap[o] = m
      BY <2>2, <3>1
    <3>3. PICK node, group, new : /\ node = clipboard.nodes[o]
                                  /\ new = [node EXCEPT !.group = group]
                                  /\ nodes'[m] = new
      BY <2>2, <3>1, Zenon DEF PasteCopied, PasteNodes
    <3>5. new.gen = node.gen
      BY <3>3, <1>1, <3>2, GroupGiven DEF CanvasInv, GraphInv, SoundClipboard, Graph
    <3>6. node.gen.batch \in Batches
      BY <1>1, <3>2, <3>3 DEF Batches
    <3> QED
      BY <1>3, <3>2, <3>3, <3>5, <3>6 DEF Harmless
  <2> QED
    BY <2>1, <2>2
<1> QED
  BY <1>1, <1>4, NodesEdited

LEMMA JobEdits ==
    ASSUME CanvasInv, UNCHANGED genVars, NEW j \in jobs, FinishJob(j) PROVE EditedSafely
<1>1. OnlyNodes /\ j.type \in Media /\ nodes \in [Ids -> NodeSet]
  BY NodesTyped DEF FinishJob, OnlyNodes, genVars, CanvasInv, GraphInv, Jobs
<1>2. ASSUME NEW type \in Media, Insert(Filled(type)) PROVE EditedSafely
  <2>1. PICK node : node = Filled(type)
    OBVIOUS
  <2> QED
    BY <1>1, <1>2, <2>1, MintedHarmless, InsertEdits
<1>3. CASE ChildReady(j) \/ FileReady(j)
  BY <1>1, <1>2, <1>3 DEF Media, ChildReady, FileReady
<1>4. CASE PiecesReady(j)
  <2>1. PICK node : node = Filled("image")
    OBVIOUS
  <2>3. \A n : Harmless(n, node) /\ Harmless(n, nodes[n])
    BY <2>1, MintedHarmless DEF Media
  <2>4. \A n \in Ids : Harmless(n, nodes'[n])
    BY <1>4, <2>1, <2>3 DEF PiecesReady
  <2> QED
    BY <1>1, <2>4, NodesEdited
<1>5. CASE ReplacementReady(j)
  <2>1. CASE j.node \notin Live(nodes)
    BY <1>5, <2>1, <1>1, MintedHarmless, NodesEdited DEF ReplacementReady
  <2>2. CASE j.node \in Live(nodes)
    <3>1. PICK n \in Ids, type \in Media : n = j.node /\ type = j.type
      BY <1>1, <2>2 DEF Live
    <3>2. PICK gen, node : /\ gen = Settled(nodes[n].gen, type)
                           /\ node = [nodes[n] EXCEPT !.type = type, !.filled = TRUE, !.gen = gen]
      BY Zenon
    <3>3. nodes[n] \in NodeSet /\ nodes[n].gen \in GenSet
      BY <1>1, GenOfNode
    <3>4. gen.batch = 0 \/ (gen.batch = nodes[n].gen.batch /\ gen.items = nodes[n].gen.items)
      BY <3>2, <3>3, SettledIs
    <3>5. node.gen = gen
      BY <3>2, <3>3 DEF NodeSet
    <3>7. \A m \in Ids : nodes'[m] = nodes[m] \/ (m = n /\ nodes'[m] = node)
      BY <1>1, <1>5, <2>2, <3>1, <3>2 DEF ReplacementReady
    <3>8. \A m \in Ids : Harmless(m, nodes'[m])
      BY <3>4, <3>5, <3>7 DEF Harmless
    <3> QED
      BY <1>1, <3>8, NodesEdited
  <2> QED
    BY <2>1, <2>2
<1> QED
  BY <1>3, <1>4, <1>5 DEF FinishJob

LEMMA DocumentEdits == ASSUME CanvasInv, EditDocument PROVE EditedSafely
<1>1. EditNext /\ UNCHANGED genVars
  BY DEF EditDocument
<1>2. CASE \/ \E t \in Types, f \in BOOLEAN : CreateNode(t, f)
           \/ \E a \in Live(nodes), t \in CreateTypes, h \in {"source", "target"} :
                 CreateConnected(a, t, h)
           \/ \E n \in Live(nodes) : DuplicateNode(n) \/ ReversePrompt(n) \/ ImageFromText(n)
  BY <1>1, <1>2, NewNodesEdit
<1>3. ASSUME NEW S \in Selections, DropNodes(S) PROVE EditedSafely
  BY <1>1, <1>3, TouchedNodesEdit
<1>4. ASSUME NEW n \in Live(nodes), NEW f \in BOOLEAN, WriteText(n, f) PROVE EditedSafely
  BY <1>1, <1>4, TouchedNodesEdit
<1>5. CASE PasteCopied
  BY <1>1, <1>5, PasteEdits
<1>6. ASSUME NEW j \in jobs, FinishJob(j) PROVE EditedSafely
  BY <1>1, <1>6, JobEdits
<1>7. ASSUME NEW S \in Selections, CopyNodes(S) PROVE EditedSafely
  BY <1>1, <1>7, SameNodesEdit
<1>8. CASE CommitEntry \/ ApplyEntry
  BY <1>1, <1>8, SameNodesEdit
<1>9. ASSUME \/ \E a, b \in Live(nodes), h \in {"source", "target"} : ConnectNodes(a, b, h)
             \/ \E e \in conns : DeleteConnection(e)
             \/ \E n \in Live(nodes) : StartPicker(n) \/ PickReference(n)
             \/ ExitPicker \/ (\E j \in Jobs : StartJob(j)) \/ (\E j \in jobs : FailJob(j))
      PROVE  EditedSafely
  BY <1>9, <1>1, SameNodesEdit DEF ConnectNodes, DeleteConnection, StartPicker, PickReference,
     ExitPicker, StartJob, FailJob, Keep
<1> QED
  BY <1>1, <1>2, <1>3, <1>4, <1>5, <1>6, <1>7, <1>8, <1>9 DEF EditNext

LEMMA BatchEdits == ASSUME CanvasInv, Batch PROVE EditedSafely
<1>1. PICK n \in Live(nodes), i \in Items :
         SetBatchPrimary(n, i) \/ DeleteBatchImage(n, i) \/ DuplicateBatchImage(n, i)
  BY DEF Batch
<1>2. UNCHANGED genVars
  BY DEF Batch
<1>3. CASE SetBatchPrimary(n, i) \/ DeleteBatchImage(n, i)
  BY <1>2, <1>3, TouchedNodesEdit
<1>4. CASE DuplicateBatchImage(n, i)
  <2>1. PICK node : node = Filled("image")
    OBVIOUS
  <2> QED
    BY <1>2, <1>4, <2>1, MintedHarmless, InsertEdits DEF DuplicateBatchImage, ExtractImage,
       Keep, OnlyNodes, genVars, Media
<1> QED
  BY <1>1, <1>3, <1>4

LEMMA EditsOwe == ASSUME CanvasInv, OwedInv, Edits PROVE OwedInv'
<1>1. CASE EditDocument \/ Batch
  BY <1>1, DocumentEdits, BatchEdits, EditOwes
<1>2. CASE Clear
  BY <1>2, GoneNodesEdit, EditOwes DEF Clear
<1>3. ASSUME NEW S \in Selections, DeleteSelected(S) PROVE OwedInv'
  BY <1>3, GoneNodesEdit, EditOwes DEF DeleteSelected
<1>4. CASE Reload
  BY <1>4, ReloadOwes
<1> QED
  BY <1>1, <1>2, <1>3, <1>4 DEF Edits

LEMMA NextOwes == ASSUME CanvasInv, OwedInv, Next PROVE OwedInv'
<1>1. CASE Begin
  BY <1>1, GenerateOwes, RetryOwes, EditImageOwes DEF Begin
<1>2. CASE Stop
  <2>1. CASE AskStop \/ DismissStop
    BY <2>1, SameOwes DEF AskStop, DismissStop, graphVars
  <2> QED
    BY <1>2, <2>1, StopOwes DEF Stop
<1>3. CASE Edits
  BY <1>3, EditsOwe
<1>4. ASSUME NEW r \in Runs, Answer(r) PROVE OwedInv'
  <2>1. CASE \E i \in Items : ImageArrives(r, i) \/ TextArrives(r, i) \/ ItemFails(r, i)
    BY <2>1, ItemOwes
  <2>2. CASE \E i \in Items : TextStreams(r, i)
    BY <2>2, StreamOwes
  <2>3. CASE HydrationFails(r) \/ Start(r) \/ MediaAnswered(r) \/ MediaStored(r) \/ MediaFails(r)
    BY <2>3, StageOwes, StartOwes, MediaStoredOwes, MediaFailsOwes
  <2>4. CASE \/ RetryRefused(r) \/ RetryStarts(r) \/ RetryStreams(r) \/ RetrySucceeds(r)
             \/ RetryFails(r) \/ ImageEdited(r) \/ ImageEditFails(r)
    BY <2>4, RetryRefusedOwes, RetryStartsOwes, RetryStreamsOwes, RetrySucceedsOwes,
       RetryFailsOwes, ImageEditedOwes
  <2> QED
    BY <1>4, <2>1, <2>2, <2>3, <2>4 DEF Answer
<1>5. ASSUME NEW r \in Runs, GiveUp(r) PROVE OwedInv'
  <2>1. ASSUME NEW i \in Items, ItemCanceled(r, i) PROVE OwedInv'
    BY <2>1, ItemOwes
  <2> QED
    BY <1>5, <2>1, HydrationOwes DEF GiveUp
<1> QED
  BY <1>1, <1>2, <1>3, <1>4, <1>5 DEF Next

LEMMA OwedStart == ASSUME Init PROVE OwedInv
<1>1. PICK c \in Canvases : nodes = c.nodes
  BY DEF Init, GraphInit
<1>2. /\ entry.nodes = nodes /\ clipboard.nodes = [n \in Ids |-> Blank]
      /\ runs = [r \in Runs |-> NoRun] /\ requests = [n \in Ids |-> 0]
  BY DEF Init, GraphInit, Empty
<1>4. Blank.gen.batch = 0
  BY NewGenType, GenerationAssumption DEF Blank, Node
<1>5. \A r \in Runs : /\ runs[r].stage = "none" /\ runs[r].batch = 0 /\ runs[r].halt = "no"
                      /\ runs[r].kind = "image" /\ runs[r].left = {}
  BY <1>2 DEF NoRun
<1>6. 0 \notin Runs
  BY Sizes
<1>8. Unborn
  BY <1>2, <1>1, LoadedAssumption, <1>4, <1>5, <1>6 DEF Unborn, Batches
<1>9. PairsFit
  BY <1>5 DEF PairsFit, Late, Alone, Due
<1>10. StopsClean
  BY <1>2, <1>6 DEF StopsClean
<1>11. TasksFit
  BY <1>5 DEF TasksFit, TaskFits, Registers, MediaKinds
<1> QED
  BY <1>5, <1>8, <1>9, <1>10, <1>11 DEF OwedInv, OwedNow, Due

LEMMA OwedIsLoading == ASSUME OwedInv PROVE OwedItemsLoading
<1> SUFFICES ASSUME NEW r \in Runs, runs[r].stage = "asking", ~ Aborted(r), Owns(nodes, r)
             PROVE  Waits(nodes[runs[r].root].gen, runs[r].left) \/ Excused(runs[r].root)
  BY DEF OwedItemsLoading, Waits, Excused
<1>1. CASE Registers(r)
  BY <1>1 DEF OwedInv, TasksFit, TaskFits, Waits
<1>2. CASE ~ Registers(r)
  BY <1>2 DEF OwedInv, OwedNow, Due, Owed, Owns
<1> QED
  BY <1>1, <1>2

LEMMA OwedStep == CanvasInv /\ OwedInv /\ [Next]_vars => OwedInv'
<1>1. ASSUME OwedInv, UNCHANGED vars PROVE OwedInv'
  BY <1>1, SameOwes DEF vars, graphVars, genVars
<1> QED
  BY <1>1, NextOwes

(* Whatever was undone, retried, stopped or edited meanwhile, a run that was *)
(* not aborted finds the items it still asks for loading (or deleted by     *)
(* hand): no retry settles one, and no other answer does.  The exception is *)
(* a node on which a stopped generation began.                              *)
THEOREM OwedItemsAreLoading == Spec => []OwedItemsLoading
BY CanvasStart, OwedStart, OwedStep, CanvasStep, OwedIsLoading, PTL DEF Spec

-----------------------------------------------------------------------------
(* What generations alone make of the nodes.  A node that loads is helped by *)
(* a run that still works on it, or was left by one that was replaced.      *)
Loads(node)  == node.type # "none" /\ node.gen.status = "loading"
Waited(run)  == run.halt = "replaced" \/ (run.stage \in {"asking", "storing"} /\ run.halt = "no")
Marking(run) == run.config /\ run.kind \in {"image", "text"}
Helps(run, n) ==
    Waited(run) /\ (n = run.root \/ (n = run.origin /\ Marking(run)))
Tended == \A n \in Ids : Loads(nodes[n]) => \E r \in Runs : Helps(runs[r], n)

(* What a run knows of the node it began on, and of the one it writes into. *)
Pictured(node) == node.type = "image" /\ node.filled
SourceFits(run, node) ==
    /\ run.config => node.type = "config" \/ Pictured(node)
    /\ run.stage = "hydrating" /\ run.empty => node.type = run.kind
    /\ run.stage = "hydrating" /\ ~ run.empty /\ run.halt = "no" /\ node.type \in Media
          => node.filled
ResultFits(run, node) ==
    /\ run.stage = "hydrating" => run.done = {}
    /\ run.stage = "resolving" => run.kind = "retry"
    /\ run.kind \notin {"retry", "single"} /\ run.stage \in {"asking", "storing"}
          => node.type = run.kind
    /\ run.kind = "image" /\ run.stage = "asking" => run.done = {} \/ node.filled
    /\ run.kind = "retry" => node.type = run.type \/ (run.type = "config" /\ node.type = "image")
    /\ run.kind = "retry" /\ run.type = "config" => run.marks /\ run.item = 0
    /\ run.kind = "single" => node.type = "image"
    /\ run.kind = "single" /\ run.stage = "asking" /\ run.halt = "no" => node.gen.primary = 0
RunShown(run, ns) == SourceFits(run, ns[run.origin]) /\ ResultFits(run, ns[run.root])
Shown ==
    /\ \A n \in Ids : NodeShown(nodes[n])
    /\ \A r \in Runs : runs[r].stage # "none" => RunShown(runs[r], nodes)

HonestStep == (Tended => Tended') /\ (Shown => Shown')

(* One run goes on to its next answer or to its end.                        *)
Moves(r) ==
    /\ \A q \in Runs : q # r => runs'[q] = runs[q]
    /\ SameTrait(runs[r], runs'[r]) /\ runs'[r].root = runs[r].root /\ runs'[r].halt = runs[r].halt
    /\ runs[r].stage # "none" /\ runs'[r].stage \in {"asking", "storing", "over", "lost"}
    /\ runs'[r].stage = "asking" => runs[r].stage = "asking" /\ runs[r].kind \in {"image", "text", "retry"}
    /\ runs'[r].stage = "storing" => runs[r].stage = "asking"
(* If it was waited for and ends, it leaves nothing loading.                *)
Settles(r) ==
    runs[r].stage \in {"asking", "storing"} /\ runs[r].halt = "no"
          /\ runs'[r].stage \notin {"asking", "storing"}
      => ~ Loads(nodes'[runs[r].root]) /\ (Marking(runs[r]) => ~ Loads(nodes'[runs[r].origin]))

LEMMA TendedMove ==
    ASSUME NEW r \in Runs, Moves(r), Settles(r), Tended,
           \A n \in Ids : Loads(nodes'[n]) => Loads(nodes[n])
    PROVE  Tended'
<1> SUFFICES ASSUME NEW n \in Ids, Loads(nodes'[n]) PROVE \E q \in Runs : Helps(runs'[q], n)
  BY DEF Tended
<1>1. PICK q \in Runs : Helps(runs[q], n)
  BY DEF Tended
<1>2. CASE q # r
  BY <1>1, <1>2 DEF Moves
<1>3. CASE q = r
  <2>1. /\ runs'[r].halt = runs[r].halt /\ runs'[r].root = runs[r].root
        /\ runs'[r].origin = runs[r].origin
    BY DEF Moves, SameTrait
  <2>3. Waited(runs'[r])
    <3>1. CASE runs[r].halt = "replaced"
      BY <2>1, <3>1 DEF Waited
    <3>2. CASE runs[r].stage \in {"asking", "storing"} /\ runs[r].halt = "no"
      BY <1>1, <1>3, <3>2, <2>1 DEF Helps, Settles, Waited
    <3> QED
      BY <1>1, <1>3, <3>1, <3>2 DEF Helps, Waited
  <2> QED
    BY <1>1, <1>3, <2>1, <2>3 DEF Helps, Moves, SameTrait, Marking
<1> QED
  BY <1>2, <1>3

(* No other run that was not aborted works on the node.                     *)
Mine(r, n) == \A q \in Runs : q # r /\ InFlight(q) /\ runs[q].halt = "no" => runs[q].root # n
Steady(r, n) ==
    /\ nodes'[n].type = nodes[n].type \/ (nodes[n].type = "config" /\ Pictured(nodes'[n]))
    /\ Pictured(nodes[n]) => nodes'[n].filled
    /\ \/ Mine(r, n)
       \/ (nodes[n].filled => nodes'[n].filled) /\ nodes'[n].gen.primary = nodes[n].gen.primary

LEMMA OthersShown ==
    ASSUME CanvasInv, NEW r, NEW q \in Runs, q # r, OnlyHalts(runs[q], runs'[q]),
           runs[q].stage # "none", RunShown(runs[q], nodes),
           Steady(r, runs[q].origin), Steady(r, runs[q].root)
    PROVE  RunShown(runs'[q], nodes')
<1>1. PICK old, new : old = runs[q] /\ new = runs'[q]
  OBVIOUS
<1>2. /\ SameTrait(old, new) /\ new.root = old.root /\ new.stage = old.stage
      /\ new.done = old.done /\ (new.halt = "no" => old.halt = "no")
  BY <1>1 DEF OnlyHalts
<1>3. PICK a, b, c, d : /\ a = nodes[old.origin] /\ b = nodes'[old.origin]
                        /\ c = nodes[old.root] /\ d = nodes'[old.root]
  OBVIOUS
<1>4. /\ b.type = a.type \/ (a.type = "config" /\ Pictured(b))
      /\ Pictured(a) => Pictured(b)
      /\ d.type = c.type \/ (c.type = "config" /\ Pictured(d))
      /\ Pictured(c) => Pictured(d)
  BY <1>1, <1>3 DEF Steady, Pictured
<1>5. new.stage = "hydrating" /\ new.halt = "no" /\ a.filled => b.filled
  <2>1. CASE old.stage = "hydrating" /\ old.halt = "no"
    BY <1>1, <2>1, <1>3 DEF InFlight, CanvasInv, StagesFit, Mine, Steady
  <2> QED
    BY <1>2, <2>1
<1>6. new.stage = "asking" /\ new.halt = "no" => d.gen.primary = c.gen.primary
  <2>1. CASE old.stage = "asking" /\ old.halt = "no"
    BY <1>1, <2>1, <1>3 DEF InFlight, Mine, Steady
  <2> QED
    BY <1>2, <2>1
<1>7. SourceFits(old, a) /\ ResultFits(old, c)
  BY <1>1, <1>3 DEF RunShown
<1>8. SourceFits(new, b)
  BY <1>1, RunFields, <1>2, <1>4, <1>7, <1>5 DEF CanvasInv, GenTypeOK, Kinds, SourceFits,
     SameTrait, Pictured
<1>9. ResultFits(new, d)
  BY <1>1, <1>2, <1>4, <1>7, <1>6 DEF CanvasInv, GenTypeOK, RunSet, Kinds, Media, ResultFits,
     SameTrait, Pictured
<1> QED
  BY <1>1, <1>3, <1>8, <1>9, <1>2 DEF RunShown, SameTrait

LEMMA ShownMove ==
    ASSUME CanvasInv, NEW r \in Runs, Moves(r), Shown,
           \A n \in Ids : NodeShown(nodes'[n]) /\ Steady(r, n),
           runs'[r].stage = "asking" /\ runs[r].kind = "image"
              => runs'[r].done = {} \/ nodes'[runs[r].root].filled
    PROVE  Shown'
<1>1. ASSUME NEW q \in Runs, q # r, runs'[q].stage # "none" PROVE RunShown(runs'[q], nodes')
  BY <1>1, RunNode, HaltsItself, OthersShown DEF Moves, Shown
<1>2. RunShown(runs'[r], nodes')
  <2>1. PICK old, new : old = runs[r] /\ new = runs'[r]
    OBVIOUS
  <2>2. /\ SameTrait(old, new) /\ new.root = old.root /\ new.halt = old.halt
        /\ old.stage # "none" /\ new.stage \notin {"hydrating", "resolving"}
        /\ new.stage = "asking" => old.stage = "asking" /\ old.kind \in {"image", "text", "retry"}
        /\ new.stage = "storing" => old.stage = "asking"
    BY <2>1 DEF Moves
  <2>3. PICK a, b, c, d : /\ a = nodes[old.origin] /\ b = nodes'[old.origin]
                          /\ c = nodes[old.root] /\ d = nodes'[old.root]
    OBVIOUS
  <2>4. old.root \in Ids /\ old.origin \in Ids
    BY <2>1, <2>2, RunNode
  <2>5. /\ b.type = a.type \/ (a.type = "config" /\ Pictured(b))
        /\ Pictured(a) => Pictured(b)
        /\ d.type = c.type \/ (c.type = "config" /\ Pictured(d))
    BY <2>1, <2>3, <2>4 DEF Steady, Pictured
  <2>6. SourceFits(old, a) /\ ResultFits(old, c)
    BY <2>1, <2>2, <2>3 DEF RunShown, Shown
  <2>7. SourceFits(new, b)
    BY <2>2, <2>5, <2>6 DEF SourceFits, SameTrait
  <2>9. /\ new.kind \notin {"retry", "single"} /\ new.stage \in {"asking", "storing"}
                => d.type = new.kind
        /\ new.kind = "single" => d.type = "image"
    BY <2>2, <2>5, <2>6, <2>1 DEF ResultFits, SameTrait, CanvasInv, GenTypeOK, RunSet, Kinds
  <2>10. new.kind = "image" /\ new.stage = "asking" => new.done = {} \/ d.filled
    BY <2>1, <2>2, <2>3 DEF SameTrait
  <2>11. new.kind = "retry" => d.type = new.type \/ (new.type = "config" /\ d.type = "image")
    BY <2>2, <2>5, <2>6 DEF ResultFits, SameTrait, Pictured
  <2>13. new.kind = "single" => new.stage # "asking"
    BY <2>2 DEF SameTrait
  <2>14. ResultFits(new, d)
    BY <2>2, <2>9, <2>10, <2>11, <2>6, <2>13 DEF ResultFits, SameTrait
  <2> QED
    BY <2>1, <2>3, <2>7, <2>14, <2>2 DEF RunShown, SameTrait
<1> QED
  BY <1>1, <1>2 DEF Shown

LEMMA StageMoves ==
    ASSUME CanvasInv, NEW r \in Runs, runs[r].stage # "none",
           NEW stage \in {"storing", "over", "lost"},
           stage = "storing" => runs[r].stage = "asking", runs' = [runs EXCEPT ![r].stage = stage]
    PROVE  Moves(r) /\ runs'[r].stage = stage
<1>1. PICK run, new : run = runs[r] /\ new = [run EXCEPT !.stage = stage]
  OBVIOUS
<1>2. runs \in [Runs -> RunSet] /\ stage \in Stages
  BY DEF CanvasInv, GenTypeOK, Stages
<1> QED
  BY <1>1, <1>2, StageTrait DEF Moves

LEMMA Unmoved ==
    ASSUME NEW r, NEW n, nodes'[n] = nodes[n] PROVE Steady(r, n)
BY DEF Steady, Pictured

LEMMA QuietHonest ==
    ASSUME CanvasInv, NEW r \in Runs,
           HydratedToNothing(r) \/ Canceled(r) \/ HydrationFails(r) \/ MediaAnswered(r)
    PROVE  HonestStep
<1>1. PICK stage \in {"storing", "over", "lost"} :
          /\ runs' = [runs EXCEPT ![r].stage = stage] /\ runs[r].stage # "none" /\ nodes' = nodes
          /\ \/ stage = "over" /\ runs[r].stage = "hydrating"
             \/ stage = "over" /\ Aborted(r)
             \/ stage = "lost" /\ runs[r].stage = "hydrating"
             \/ stage = "storing" /\ runs[r].stage = "asking"
  BY DEF HydratedToNothing, Canceled, HydrationFails, MediaAnswered, End, graphVars
<1>2. Moves(r) /\ runs'[r].stage = stage
  BY <1>1, StageMoves
<1>5. Shown => Shown'
  <2>1. ASSUME Shown PROVE \A n \in Ids : NodeShown(nodes'[n]) /\ Steady(r, n)
    BY <1>1, <2>1, Unmoved DEF Shown
  <2> QED
    BY <1>2, <2>1, ShownMove
<1> QED
  BY <1>1, <1>2, TendedMove, <1>5 DEF HonestStep, Settles, Aborted

LEMMA EndMoves ==
    ASSUME CanvasInv, NEW r \in Runs, runs[r].stage # "none", NEW targets,
           End(r, runs, requests, targets)
    PROVE  Moves(r) /\ runs'[r].stage = "over"
BY StageMoves DEF End

LEMMA IsMine ==
    ASSUME CanvasInv, NEW r \in Runs, InFlight(r), runs[r].halt = "no"
    PROVE  Mine(r, runs[r].root)
BY DEF Mine, CanvasInv, RegistryExact, LiveRunRegistered, Aborted

(* A step that changes one node, and ends the run.                          *)
LEMMA OneNodeEnds ==
    ASSUME CanvasInv, NEW r \in Runs, Moves(r), runs'[r].stage = "over", ~ Marking(runs[r]),
           NEW new, new = nodes', NEW n, n = runs[r].root, NEW old, old = nodes,
           \A m \in Ids : m # n => new[m] = old[m], ~ Loads(new[n]),
           Shown => NodeShown(new[n]) /\ Steady(r, n)
    PROVE  HonestStep
<1>1. n \in Ids
  BY RunNode DEF Moves
<1>3. Shown => Shown'
  <2> SUFFICES ASSUME Shown PROVE Shown'
    OBVIOUS
  <2>1. \A m \in Ids : NodeShown(nodes'[m]) /\ Steady(r, m)
    <3>1. ASSUME NEW m \in Ids, m # n PROVE NodeShown(nodes'[m]) /\ Steady(r, m)
      BY <3>1, Unmoved DEF Shown
    <3> QED
      BY <3>1
  <2> QED
    BY <2>1, ShownMove
<1> QED
  BY TendedMove, <1>3 DEF HonestStep, Settles

LEMMA StoredShape ==
    ASSUME NEW ns \in [Ids -> NodeSet], NEW n \in Ids, NEW new, new = Stored(ns, n)
    PROVE  /\ \A m \in Ids : m # n => new[m] = ns[m]
           /\ new[n].type = ns[n].type /\ new[n].gen.primary = ns[n].gen.primary
           /\ ns[n].filled => new[n].filled
           /\ ~ Loads(new[n])
           /\ new[n] = ns[n] \/ (new[n].filled /\ new[n].gen.shown = 0)
<1>1. CASE n \in Live(ns)
  BY <1>1, StoredIs DEF Stored, Loads
<1>2. CASE n \notin Live(ns)
  BY <1>2 DEF Stored, Live, Loads
<1> QED
  BY <1>1, <1>2

LEMMA MediaStoredHonest ==
    ASSUME CanvasInv, NEW r \in Runs, MediaStored(r) PROVE HonestStep
<1>1. PICK n, new, old : n = runs[r].root /\ new = nodes' /\ old = nodes
  OBVIOUS
<1>2. Moves(r) /\ runs'[r].stage = "over" /\ runs[r].stage = "storing" /\ OneResult(r)
  BY EndMoves, SMTT(30) DEF MediaStored
<1>4. n \in Ids /\ new = Stored(old, n) /\ old \in [Ids -> NodeSet]
  BY <1>1, <1>2, RunNode, NodesTyped DEF MediaStored, Stored, Storing
<1>5. /\ \A m \in Ids : m # n => new[m] = old[m]
      /\ new[n].type = old[n].type /\ new[n].gen.primary = old[n].gen.primary
      /\ old[n].filled => new[n].filled
      /\ ~ Loads(new[n])
      /\ new[n] = old[n] \/ (new[n].filled /\ new[n].gen.shown = 0)
  BY <1>4, StoredShape
<1>6. ASSUME Shown PROVE NodeShown(new[n]) /\ Steady(r, n)
  <2>1. old[n].type # "image"
    BY <1>1, <1>2, <1>6 DEF Shown, RunShown, ResultFits, OneResult, MediaKinds
  <2>2. NodeShown(new[n])
    BY <1>1, <1>4, <1>5, <1>6, <2>1 DEF NodeShown, Shown
  <2> QED
    BY <1>1, <1>5, <2>2 DEF Steady, Pictured
<1> QED
  BY <1>1, <1>2, <1>5, <1>6, OneNodeEnds DEF OneResult, MediaKinds, Marking

LEMMA ImageEditedHonest ==
    ASSUME CanvasInv, NEW r \in Runs, ImageEdited(r) PROVE HonestStep
<1>1. PICK n, new, old : n = runs[r].root /\ new = nodes' /\ old = nodes
  OBVIOUS
<1>2. /\ Moves(r) /\ runs'[r].stage = "over" /\ runs[r].stage = "asking"
      /\ runs[r].halt = "no" /\ runs[r].kind = "single"
  BY EndMoves, SMTT(30) DEF ImageEdited, Aborted
<1>4. n \in Ids /\ new = Stored(old, n) /\ old \in [Ids -> NodeSet]
  BY <1>1, <1>2, RunNode, NodesTyped DEF ImageEdited, Stored, Storing
<1>5. /\ \A m \in Ids : m # n => new[m] = old[m]
      /\ new[n].type = old[n].type /\ new[n].gen.primary = old[n].gen.primary
      /\ old[n].filled => new[n].filled
      /\ ~ Loads(new[n])
      /\ new[n] = old[n] \/ (new[n].filled /\ new[n].gen.shown = 0)
  BY <1>4, StoredShape
<1>6. ASSUME Shown PROVE NodeShown(new[n]) /\ Steady(r, n)
  <2>1. old[n].gen.primary = 0
    BY <1>1, <1>2, <1>6, SMTT(30) DEF Shown, RunShown, ResultFits
  <2>2. NodeShown(new[n])
    BY <1>1, <1>4, <1>5, <1>6, <2>1 DEF NodeShown, Shown
  <2> QED
    BY <1>1, <1>5, <2>2 DEF Steady, Pictured
<1> QED
  BY <1>1, <1>2, <1>5, <1>6, OneNodeEnds, SMTT(30) DEF Marking

-----------------------------------------------------------------------------
(* A run moves on; every node is as honest as it was.                       *)
LEMMA MoveHonest ==
    ASSUME CanvasInv, NEW r \in Runs, Moves(r), Settles(r),
           \A m \in Ids : Loads(nodes'[m]) => Loads(nodes[m]),
           Shown => \A m \in Ids : NodeShown(nodes'[m]) /\ Steady(r, m),
           Shown /\ runs'[r].stage = "asking" /\ runs[r].kind = "image"
              => runs'[r].done = {} \/ nodes'[runs[r].root].filled
    PROVE  HonestStep
BY TendedMove, ShownMove DEF HonestStep

LEMMA LookSteady ==
    ASSUME NEW r, NEW n, SameLook(nodes[n], nodes'[n]) PROVE Steady(r, n)
BY DEF SameLook, Steady, Pictured

LEMMA LookShown ==
    ASSUME NEW a, NEW b, SameLook(a, b), NodeShown(a),
           b.gen.status = "success" => a.gen.status = "success" \/ b.type \notin Media \/ b.filled
    PROVE  NodeShown(b)
BY DEF SameLook, NodeShown

LEMMA ImageEditFailsHonest ==
    ASSUME CanvasInv, NEW r \in Runs, ImageEditFails(r) PROVE HonestStep
<1>1. PICK n, new : n = runs[r].root /\ new = nodes'
  OBVIOUS
<1>3. PICK error \in Marks : error = "error"
  BY InMarks
<1>5. /\ \A m \in Ids : SameButStatus(nodes[m], new[m])
      /\ \A m \in Ids : new[m].gen.status = IF m = n /\ m \in Live(nodes) THEN error
                                            ELSE nodes[m].gen.status
  BY <1>1, <1>3, NodesTyped, MarkedIs DEF ImageEditFails
<1>6. \A m \in Ids : SameLook(nodes[m], new[m])
  BY <1>5 DEF SameButStatus
<1>7. \A m \in Ids : Loads(new[m]) => Loads(nodes[m]) /\ m # n
  BY <1>3, <1>5, <1>6 DEF Loads, SameLook, Live
<1>9. ASSUME Shown, NEW m \in Ids PROVE NodeShown(new[m]) /\ Steady(r, m)
  BY <1>9, <1>3, <1>5, <1>6, LookShown, <1>1, LookSteady DEF Shown
<1> QED
  BY <1>1, EndMoves, <1>7, RunNode, <1>9, MoveHonest DEF Moves, Marking, Settles,
     ImageEditFails

LEMMA MediaFailsHonest ==
    ASSUME CanvasInv, OwedInv, NEW r \in Runs, MediaFails(r) PROVE HonestStep
<1>1. PICK n, mid, new : /\ n = runs[r].root /\ mid = Marked(nodes, runs[r].root, "error")
                         /\ new = nodes'
  OBVIOUS
<1>2. /\ Moves(r) /\ runs'[r].stage = "over" /\ runs[r].kind \in MediaKinds
      /\ runs[r].stage # "none"
  BY EndMoves DEF MediaFails
<1>4. PICK error \in Marks : error = "error"
  BY InMarks
<1>5. new = Marked(mid, runs[r].origin, error)
  BY <1>1, <1>2, <1>4 DEF MediaFails, OwedInv, TasksFit, TaskFits
<1>6. /\ mid \in [Ids -> NodeSet]
      /\ \A m \in Ids : SameButStatus(nodes[m], mid[m])
      /\ \A m \in Ids : mid[m].gen.status = IF m = n /\ m \in Live(nodes) THEN error
                                            ELSE nodes[m].gen.status
  BY <1>1, <1>4, NodesTyped, MarkedIs
<1>7. /\ \A m \in Ids : SameButStatus(mid[m], new[m])
      /\ \A m \in Ids : new[m].gen.status \in {error, mid[m].gen.status}
  BY <1>4, <1>5, <1>6, MarkedIs
<1>8. \A m \in Ids : SameLook(nodes[m], new[m])
  BY <1>6, <1>7 DEF SameButStatus, SameLook
<1>9. \A m \in Ids : Loads(new[m]) => Loads(nodes[m]) /\ m # n
  BY <1>4, <1>6, <1>7, <1>8 DEF Loads, SameLook, Live
<1>11. ASSUME Shown, NEW m \in Ids PROVE NodeShown(new[m]) /\ Steady(r, m)
  BY <1>11, <1>4, <1>6, <1>7, <1>8, LookShown, <1>1, LookSteady DEF Shown
<1> QED
  BY <1>1, <1>2, <1>9, RunNode, <1>11, MoveHonest DEF MediaKinds, Marking, Settles

LEMMA RetryGivenUpHonest ==
    ASSUME CanvasInv, NEW r \in Runs, RetryRefused(r) \/ RetryFails(r) PROVE HonestStep
<1>1. PICK n, new, failed : n = runs[r].root /\ new = nodes' /\ failed = RetryFailed(r)
  OBVIOUS
<1>2. Moves(r) /\ runs'[r].stage = "over" /\ runs[r].stage # "none"
  <2>1. CASE RetryRefused(r)
    BY <2>1, StageMoves DEF RetryRefused
  <2>2. CASE RetryFails(r)
    BY <2>2, EndMoves DEF RetryFails
  <2> QED
    BY <2>1, <2>2
<1>3. \A m \in Ids : /\ SameLook(nodes[m], failed[m])
                     /\ failed[m].gen.status = IF m = n /\ m \in Live(nodes)
                            THEN IF nodes[m].filled THEN "success" ELSE "error"
                            ELSE nodes[m].gen.status
  BY <1>1, NodesTyped, RetryFailedIs
<1>4. \/ new = nodes /\ runs[r].stage = "resolving"
      \/ new = failed /\ (runs[r].stage = "resolving" \/ runs[r].kind = "retry")
  BY <1>1 DEF RetryRefused, RetryFails
<1>5. \A m \in Ids : SameLook(nodes[m], new[m])
  BY <1>3, <1>4 DEF SameLook
<1>6. \A m \in Ids : Loads(new[m]) => Loads(nodes[m]) /\ (new = failed => m # n)
  BY <1>3, <1>4, <1>5 DEF Loads, SameLook, Live
<1>7. Settles(r)
  BY <1>1, <1>2, RunNode, <1>4, <1>6 DEF Settles, Marking
<1>8. ASSUME Shown, NEW m \in Ids PROVE NodeShown(new[m]) /\ Steady(r, m)
  BY <1>8, <1>3, <1>4, <1>5, LookShown, <1>1, LookSteady DEF Shown, SameLook
<1> QED
  BY <1>1, <1>2, <1>6, <1>7, <1>8, MoveHonest

LEMMA RetrySucceedsHonest ==
    ASSUME CanvasInv, NEW r \in Runs, RetrySucceeds(r) PROVE HonestStep
<1>1. PICK n, new, item : n = runs[r].root /\ new = nodes' /\ item = runs[r].item
  OBVIOUS
<1>2. Moves(r) /\ runs'[r].stage = "over" /\ runs[r].stage = "asking" /\ runs[r].kind = "retry"
  BY EndMoves DEF RetrySucceeds
<1>3. n \in Ids /\ InFlight(r) /\ runs[r].halt = "no" /\ ~ Marking(runs[r])
  BY <1>1, <1>2, RunNode DEF RetrySucceeds, InFlight, Aborted, Marking
<1>4. Mine(r, n)
  BY <1>1, <1>3, IsMine
<1>5. item \in {0, Other} \cup Items /\ runs[r].type \in Media \cup {"text", "config"}
  BY <1>1, RunFields DEF CanvasInv, GenTypeOK, RunSet
<1>6. runs[r].type \notin MediaKinds
  BY DEF RetrySucceeds
<1>7. CASE runs[r].type = "text"
  <2>2. /\ \A m \in Ids : m # n => new[m] = nodes[m]
        /\ n \in Live(nodes) => new[n].gen.status = "success" /\ new[n].type = "text"
        /\ n \notin Live(nodes) => new = nodes
    BY <1>1, <1>7, NodesTyped, RetryTextIs DEF RetrySucceeds
  <2>4. ASSUME Shown PROVE NodeShown(new[n]) /\ Steady(r, n)
    BY <1>1, <1>2, <1>7, <2>4, <1>3, <2>2, <1>4 DEF Shown, RunShown, ResultFits, Live,
       NodeShown, Media, Steady, Pictured
  <2> QED
    BY <1>1, <1>2, <1>3, <2>2, <2>4, OneNodeEnds DEF Loads, Live
<1>8. CASE runs[r].type # "text"
  <2>2. /\ \A m \in Ids : m # n => new[m] = nodes[m]
        /\ n \in Live(nodes) =>
              /\ new[n].gen.status = "success" /\ new[n].type = "image"
              /\ new[n].filled
              /\ \/ new[n].gen.primary = item /\ new[n].gen.shown = item
                 \/ /\ ~ runs[r].marks
                    /\ new[n].gen.primary = nodes[n].gen.primary
                    /\ new[n].gen.shown = nodes[n].gen.shown
        /\ n \notin Live(nodes) => new = nodes
    BY <1>1, <1>5, <1>8, NodesTyped, RetryImageIs DEF RetrySucceeds
  <2>4. ASSUME Shown PROVE NodeShown(new[n]) /\ Steady(r, n)
    BY <1>1, <1>2, <1>3, <2>4, <1>5, <1>6, <1>8, <2>2, <1>4 DEF Shown, RunShown, ResultFits,
       Media, MediaKinds, Live, NodeShown, Steady, Pictured
  <2> QED
    BY <1>1, <1>2, <1>3, <2>2, <2>4, OneNodeEnds DEF Loads, Live
<1> QED
  BY <1>7, <1>8

LEMMA RetryStreamsHonest ==
    ASSUME CanvasInv, NEW r \in Runs, RetryStreams(r) PROVE HonestStep
<1>1. PICK n, new : n = runs[r].root /\ new = nodes'
  OBVIOUS
<1>2. /\ runs' = runs /\ runs[r].stage = "asking" /\ runs[r].kind = "retry"
      /\ runs[r].halt = "no" /\ runs[r].type = "text" /\ n \in Ids
  BY <1>1, RunNode DEF RetryStreams, genVars, Aborted
<1>3. /\ \A m \in Ids : m # n => new[m] = nodes[m]
      /\ n \in Live(nodes) => new[n].gen.status = "loading" /\ new[n].type = "text"
      /\ n \notin Live(nodes) => new = nodes
  BY <1>1, RetryStreamsIs
<1>4. Mine(r, n)
  BY <1>1, <1>2, IsMine DEF InFlight
<1>5. Tended => Tended'
  <2> SUFFICES ASSUME Tended, NEW m \in Ids, Loads(new[m])
               PROVE  \E q \in Runs : Helps(runs[q], m)
    BY <1>1, <1>2 DEF Tended
  <2>1. CASE m = n
    BY <1>1, <1>2, <2>1 DEF Helps, Waited
  <2>2. CASE m # n
    BY <1>3, <2>2 DEF Tended
  <2> QED
    BY <2>1, <2>2
<1>6. ASSUME Shown PROVE NodeShown(new[n]) /\ Steady(r, n)
  BY <1>1, <1>2, <1>3, <1>4, <1>6 DEF Shown, RunShown, ResultFits, Live, NodeShown, Media,
     Steady, Pictured
<1>7. ASSUME Shown, NEW m \in Ids PROVE NodeShown(nodes'[m]) /\ Steady(r, m)
  <2>1. CASE m # n
    BY <1>1, <1>3, <1>7, <2>1, Unmoved DEF Shown
  <2> QED
    BY <1>1, <1>6, <1>7, <2>1
<1>8. Moves(r)
  BY <1>2 DEF Moves, SameTrait
<1>9. Shown => Shown'
  BY <1>2, <1>7, <1>8, ShownMove
<1> QED
  BY <1>5, <1>9 DEF HonestStep

(* The answer for one item.                                                 *)
LEMMA AnswerMoves ==
    ASSUME CanvasInv, NEW r \in Runs, NEW i \in Items, NEW ns \in [Ids -> NodeSet],
           \A m \in Ids : ns[m].gen.batch = nodes[m].gen.batch,
           NEW done \in SUBSET Items,
           runs[r].kind \in {"image", "text"}, ItemAnswered(r, i, ns, done)
    PROVE  /\ Moves(r) /\ runs[r].stage = "asking" /\ runs'[r].done = done
           /\ \/ nodes' = Closed(ns, r, done) /\ runs'[r].stage = "over"
              \/ nodes' = ns /\ runs'[r].stage = "asking"
BY AnswerGoes DEF GoesOn, Continues, Moves

(* It writes the root alone, and settles what was waited for.               *)
AnswerKeeps(r, ns, done) ==
    /\ \A m \in Ids :
           /\ ns[m].gen.status \in {nodes[m].gen.status, "success"}
           /\ ns[m].gen.status # nodes[m].gen.status => m = runs[r].origin /\ runs[r].config
           /\ \/ SameLook(nodes[m], ns[m])
              \/ ns[m].filled /\ ns[m].gen.primary = ns[m].gen.shown
    /\ Shown /\ runs[r].kind = "image" /\ done # {} => ns[runs[r].root].filled

LEMMA AnswerLoads ==
    ASSUME CanvasInv, NEW r \in Runs, NEW i \in Items, NEW ns, OneItem(r, i, ns),
           NEW done \in SUBSET Items, AnswerKeeps(r, ns, done),
           runs[r].kind \in {"image", "text"}, ItemAnswered(r, i, ns, done)
    PROVE  Settles(r) /\ \A m \in Ids : Loads(nodes'[m]) => Loads(nodes[m])
<1>1. /\ ns \in [Ids -> NodeSet]
      /\ \A m \in Ids : ns[m].gen.batch = nodes[m].gen.batch /\ ns[m].type = nodes[m].type
  BY DEF OneItem
<1>2. /\ Moves(r) /\ runs[r].stage = "asking"
      /\ \/ nodes' = Closed(ns, r, done) /\ runs'[r].stage = "over"
         \/ nodes' = ns /\ runs'[r].stage = "asking"
  BY <1>1, AnswerMoves
<1>3. \A m \in Ids : Loads(ns[m]) => Loads(nodes[m])
  BY <1>1 DEF AnswerKeeps, Loads
<1>4. CASE nodes' = ns /\ runs'[r].stage = "asking"
  BY <1>3, <1>4 DEF Settles
<1>5. CASE nodes' = Closed(ns, r, done)
  <2>1. PICK new : new = Closed(ns, r, done)
    OBVIOUS
  <2>2. /\ \A m \in Ids : new[m].type = ns[m].type
        /\ Aborted(r) => \A m \in Ids : new[m].gen.status \in {ns[m].gen.status, "idle"}
        /\ ~ Aborted(r) => \A m \in Ids :
              IF m \in Live(ns) /\ (m = runs[r].root \/ (m = runs[r].origin /\ runs[r].config))
              THEN new[m].gen.status = IF done # {} THEN "success" ELSE "error"
              ELSE new[m].gen.status = ns[m].gen.status
    BY <1>1, <2>1, ClosedIs
  <2> QED
    BY <1>3, <1>5, <2>1, <2>2, <1>2, RunNode DEF Loads, Live, Marking, Settles, Aborted
<1> QED
  BY <1>2, <1>4, <1>5

LEMMA AnswerShown ==
    ASSUME CanvasInv, NEW r \in Runs, NEW i \in Items, NEW ns, OneItem(r, i, ns),
           NEW done \in SUBSET Items, AnswerKeeps(r, ns, done), Aborted(r) => ns = nodes,
           runs[r].kind \in {"image", "text"}, ItemAnswered(r, i, ns, done), Shown,
           NEW m \in Ids
    PROVE  NodeShown(nodes'[m]) /\ Steady(r, m)
<1>1. /\ ns \in [Ids -> NodeSet]
      /\ \A l \in Ids : /\ ns[l].gen.batch = nodes[l].gen.batch /\ ns[l].type = nodes[l].type
                        /\ l # runs[r].root => SameLook(nodes[l], ns[l])
  BY DEF OneItem
<1>2. /\ Moves(r) /\ runs[r].stage = "asking" /\ runs'[r].done = done
      /\ nodes' = Closed(ns, r, done) \/ nodes' = ns
  BY <1>1, AnswerMoves
<1>3. PICK closed : closed = Closed(ns, r, done)
  OBVIOUS
<1>5. PICK a, b, c : a = nodes[m] /\ b = ns[m] /\ c = nodes'[m]
  OBVIOUS
<1>6. NodeShown(a) /\ SourceFits(runs[r], nodes[runs[r].origin])
      /\ ResultFits(runs[r], nodes[runs[r].root])
  BY <1>2, <1>5 DEF Shown, RunShown
<1>7. runs[r].halt = "no" => Mine(r, runs[r].root)
  BY <1>2, IsMine DEF InFlight
<1>8. /\ b.type = a.type /\ c.type = b.type
      /\ m # runs[r].root => SameLook(a, b)
      /\ SameLook(a, b) \/ (b.filled /\ b.gen.primary = b.gen.shown)
      /\ m # runs[r].root \/ runs[r].kind = "image" \/ Aborted(r) => SameLook(b, c)
      /\ b.gen.status = "success" /\ a.gen.status # "success"
            => m = runs[r].origin /\ runs[r].config
      /\ c.gen.status = "success" /\ b.gen.status # "success"
            => m = runs[r].root \/ (m = runs[r].origin /\ runs[r].config)
      /\ c.gen.status = "success" /\ b.gen.status # "success" => done # {} /\ ~ Aborted(r)
  BY <1>1, <1>2, <1>3, ClosedIs, <1>5 DEF SameLook, AnswerKeeps, SameButStatus

<1>9. CASE m # runs[r].root \/ Aborted(r)
  BY <1>5, <1>8, <1>9, <1>6, LookShown, LookSteady DEF SameLook, SourceFits, Pictured, Media
<1>10. CASE m = runs[r].root /\ ~ Aborted(r) /\ runs[r].kind = "text"
  BY <1>2, <1>5, <1>6, <1>8, <1>10, <1>7 DEF ResultFits, NodeShown, Media, Steady, Pictured,
     Aborted
<1>11. CASE m = runs[r].root /\ ~ Aborted(r) /\ runs[r].kind = "image"
  <2>1. a.type = "image" /\ c.type = "image"
    BY <1>2, <1>5, <1>6, <1>8, <1>11 DEF ResultFits
  <2>3. a.filled => b.filled
    BY <1>8 DEF SameLook
  <2>6. b.gen.status = "success" => b.filled
    BY <1>8, <2>3, <1>5, <1>6, <2>1 DEF SourceFits, Pictured, NodeShown, Media
  <2>7. c.gen.status = "success" => b.filled
    BY <1>8, <1>5, <1>11, <2>6 DEF AnswerKeeps
  <2>8. SameLook(b, c)
    BY <1>8, <1>11
  <2>10. NodeShown(c)
    BY <2>1, <2>7, <2>8, <1>6, <1>8 DEF NodeShown, SameLook
  <2> QED
    BY <1>5, <1>7, <1>11, <2>1, <2>3, <2>8, <2>10 DEF Steady, Pictured, SameLook, Aborted
<1> QED
  BY <1>9, <1>10, <1>11

LEMMA AnswerHonest ==
    ASSUME CanvasInv, NEW r \in Runs, NEW i \in Items, NEW ns, OneItem(r, i, ns),
           NEW done \in SUBSET Items, AnswerKeeps(r, ns, done), Aborted(r) => ns = nodes,
           runs[r].kind \in {"image", "text"}, ItemAnswered(r, i, ns, done)
    PROVE  HonestStep
<1>2. /\ Moves(r) /\ runs'[r].done = done
      /\ nodes' = ns \/ runs'[r].stage = "over"
  BY AnswerMoves DEF OneItem
<1>5. Shown /\ runs'[r].stage = "asking" /\ runs[r].kind = "image"
         => runs'[r].done = {} \/ nodes'[runs[r].root].filled
  BY <1>2 DEF AnswerKeeps
<1> QED
  BY <1>2, AnswerLoads, AnswerShown, <1>5, MoveHonest

(* Once something was written, or one arrives, the root of images is filled.*)
LEMMA RootFilled ==
    ASSUME CanvasInv, NEW r \in Runs, runs[r].kind = "image", runs[r].stage = "asking", Shown,
           NEW n, n = runs[r].root
    PROVE  /\ n \in Live(nodes) /\ (runs[r].done # {} => nodes[n].filled)
           /\ nodes[n].gen.primary # 0 => nodes[n].filled
BY RunNode DEF Shown, NodeShown, Live, ResultFits, RunShown

LEMMA ItemHonest ==
    ASSUME CanvasInv, NEW r \in Runs, NEW i \in Items,
           ImageArrives(r, i) \/ TextArrives(r, i) \/ ItemFails(r, i) \/ ItemCanceled(r, i)
    PROVE  HonestStep
<1>0. runs[r].stage = "asking" /\ runs[r].root \in Ids
  BY RunNode, Zenon DEF ImageArrives, TextArrives, ItemFails, ItemCanceled, ItemAnswered
<1>1. PICK done \in SUBSET Items : done = runs[r].done
  BY RunFields DEF CanvasInv, GenTypeOK
<1>2. PICK more \in SUBSET Items : more = done \cup {i}
  OBVIOUS
<1>3. CASE ImageArrives(r, i)
  <2>1. PICK ns : ns = ImageWritten(r, i)
    OBVIOUS
  <2>3. /\ ~ Aborted(r) /\ ItemAnswered(r, i, ns, more) /\ runs[r].kind = "image"
    BY <1>1, <1>2, <1>3, <2>1 DEF ImageArrives
  <2> QED
    BY <2>1, ImageWrites, <2>3, <1>0, RootFilled, AnswerHonest DEF SameLook, AnswerKeeps
<1>4. CASE TextArrives(r, i)
  <2>1. PICK ns : ns = TextWritten(r, i)
    OBVIOUS
  <2>3. ~ Aborted(r) /\ ItemAnswered(r, i, ns, more) /\ runs[r].kind = "text"
    BY <1>1, <1>2, <1>4, <2>1 DEF TextArrives
  <2> QED
    BY <2>1, TextWrites, <2>3, AnswerHonest DEF AnswerKeeps
<1>5. CASE ItemFails(r, i)
  <2>1. PICK error \in Marks : error = "error"
    BY InMarks
  <2>2. PICK ns : ns = ItemMark(nodes, r, i, error)
    OBVIOUS
  <2>4. /\ ~ Aborted(r) /\ ItemAnswered(r, i, ns, done)
        /\ runs[r].kind \in {"image", "text"}
    BY <1>1, <1>5, <2>1, <2>2 DEF ItemFails
  <2>5. AnswerKeeps(r, ns, done)
    BY <2>2, ItemMarkWrites, <1>0, <1>1, RootFilled DEF SameLook, AnswerKeeps
  <2> QED
    BY <2>2, ItemMarkWrites, <2>4, <2>5, AnswerHonest
<1>6. CASE ItemCanceled(r, i)
  <2>1. PICK ns : ns = nodes
    OBVIOUS
  <2>4. AnswerKeeps(r, ns, done)
    BY <1>0, <1>1, <2>1, RootFilled DEF AnswerKeeps, SameLook
  <2> QED
    BY <2>1, NodesTyped, <1>1, <1>6, <2>4, AnswerHonest DEF OneItem, SameItems, SameLook,
       ItemCanceled
<1> QED
  BY <1>3, <1>4, <1>5, <1>6

LEMMA StreamHonest ==
    ASSUME CanvasInv, NEW r \in Runs, NEW i \in Items, TextStreams(r, i) PROVE HonestStep
<1>1. PICK n, new : n = runs[r].root /\ new = nodes'
  OBVIOUS
<1>2. /\ new = TextShown(nodes, r, i) /\ runs' = runs /\ runs[r].stage = "asking"
      /\ runs[r].kind = "text" /\ runs[r].halt = "no"
  BY <1>1 DEF TextStreams, genVars, Aborted
<1>3. \A m \in Ids : /\ m # n => new[m] = nodes[m]
                     /\ new[m].type = nodes[m].type
                     /\ new[m].gen.status = nodes[m].gen.status
  BY <1>1, <1>2, NodesTyped, TextShownIs
<1>5. Mine(r, n)
  BY <1>1, <1>2, IsMine DEF InFlight
<1>6. ASSUME Shown, NEW m \in Ids PROVE NodeShown(new[m]) /\ Steady(r, m)
  <2>1. CASE m # n
    BY <1>1, <1>3, <1>6, <2>1, Unmoved DEF Shown
  <2>2. CASE m = n
    BY <1>1, <1>2, <1>6, <2>2, <1>3, <1>5 DEF Shown, RunShown, ResultFits, NodeShown, Media,
       Steady, Pictured
  <2> QED
    BY <2>1, <2>2
<1> QED
  BY <1>1, <1>2, <1>6, <1>3, MoveHonest DEF Moves, Settles, SameTrait, Loads

-----------------------------------------------------------------------------
(* A run begins, or begins to write: the others are at most replaced.       *)
Yields(r) ==
    \A q \in Runs : q # r =>
        OnlyHalts(runs[q], runs'[q]) /\ runs'[q].halt \in {runs[q].halt, "replaced"}

LEMMA BeginHonest ==
    ASSUME CanvasInv, NEW r \in Runs, Yields(r), ~ Waited(runs[r]),
           \A n \in Ids : Loads(nodes'[n]) => Loads(nodes[n]) \/ Helps(runs'[r], n),
           Shown => /\ \A n \in Ids : NodeShown(nodes'[n])
                    /\ \A n \in 1..made : Steady(r, n)
                    /\ RunShown(runs'[r], nodes')
    PROVE  HonestStep
<1>1. Tended => Tended'
  <2> SUFFICES ASSUME Tended, NEW n \in Ids, Loads(nodes'[n])
               PROVE  \E q \in Runs : Helps(runs'[q], n)
    BY DEF Tended
  <2>1. CASE Helps(runs'[r], n)
    BY <2>1
  <2>2. CASE Loads(nodes[n])
    <3>1. PICK q \in Runs : Helps(runs[q], n)
      BY <2>2 DEF Tended
    <3>3. PICK a, b : a = runs[q] /\ b = runs'[q]
      OBVIOUS
    <3> QED
      BY <3>3, <3>1 DEF Helps, Waited, Marking, SameTrait, Yields, OnlyHalts
  <2> QED
    BY <2>1, <2>2
<1>2. Shown => Shown'
  <2> SUFFICES ASSUME Shown PROVE Shown'
    OBVIOUS
  <2>1. ASSUME NEW q \in Runs, q # r, runs'[q].stage # "none" PROVE RunShown(runs'[q], nodes')
    BY <2>1, RunNode, OthersShown DEF Yields, OnlyHalts, Shown
  <2> QED
    BY <2>1 DEF Shown
<1> QED
  BY <1>1, <1>2 DEF HonestStep

LEMMA TakenYields ==
    ASSUME CanvasInv, OwedInv, NEW r \in Runs, NEW n \in Ids, TakesOver(r, n), runs'[r].halt = "no"
    PROVE  Yields(r) /\ ~ Waited(runs[r])
<1>2. ASSUME NEW q \in Runs, q # r PROVE runs'[q].halt \in {runs[q].halt, "replaced"}
  BY <1>2 DEF CanvasInv, GenTypeOK, TakesOver, RunSet
<1>3. ~ Waited(runs[r])
  BY DEF TakesOver, OwedInv, TasksFit, TaskFits, Waited
<1> QED
  BY TakenOver, <1>2, <1>3 DEF Yields, OthersHalt

LEMMA AloneYields ==
    ASSUME NEW r, \A q \in Runs : q # r => runs'[q] = runs[q] PROVE Yields(r)
BY DEF Yields, OnlyHalts, SameTrait

LEMMA GenerateHonest ==
    ASSUME CanvasInv, OwedInv, NEW r \in Runs, NEW n \in Live(nodes),
           NEW mode \in Media \cup {"text"}, Generate(r, n, mode)
    PROVE  HonestStep
<1>1. PICK run : run = runs'[r]
  OBVIOUS
<1>2. TakesOver(r, n) /\ n \in Ids /\ UNCHANGED graphVars
  BY <1>1, GenerateShape
<1>5. run.halt = "no" /\ run.done = {}
  BY <1>1, GenerateShape
<1>6. run.config <=> nodes[n].type = "config"
  BY <1>1, GenerateShape
<1>7. run.empty <=> nodes[n].type = mode /\ ~ nodes[n].filled
  BY <1>1, GenerateShape
<1>8. Yields(r) /\ ~ Waited(runs[r])
  BY <1>1, <1>2, <1>5, TakenYields
<1>10. RunShown(run, nodes)
  BY <1>1, GenerateShape, <1>6, <1>7, <1>5 DEF ModeOf, Media, SourceFits, ResultFits, RunShown
<1> QED
  BY <1>1, <1>8, <1>2, <1>10, Unmoved, BeginHonest DEF Shown, graphVars

LEMMA RetryHonest ==
    ASSUME CanvasInv, OwedInv, NEW r \in Runs, NEW n \in Live(nodes), NEW i \in {0} \cup Items,
           Retry(r, n, i)
    PROVE  HonestStep
<1>1. PICK run : run = runs'[r]
  OBVIOUS
<1>2. UNCHANGED graphVars /\ runs[r].stage = "none" /\ \A q \in Runs : q # r => runs'[q] = runs[q]
  BY <1>1, RetryShape
<1>5. run.marks <=> i = 0
  BY <1>1, RetryShape
<1>6. /\ i # 0 => nodes[n].type = "image"
      /\ i = 0 /\ nodes[n].type # "image" => run.item = 0
  BY <1>1, RetryShape
<1>7. Yields(r) /\ ~ Waited(runs[r])
  BY <1>2, AloneYields DEF OwedInv, TasksFit, TaskFits, Waited
<1>9. RunShown(run, nodes)
  BY <1>1, RetryShape, <1>5, <1>6 DEF SourceFits, ResultFits, RunShown
<1> QED
  BY <1>1, <1>7, <1>2, <1>9, Unmoved, BeginHonest DEF Shown, graphVars

LEMMA RetryStartsHonest ==
    ASSUME CanvasInv, OwedInv, NEW r \in Runs, RetryStarts(r) PROVE HonestStep
<1>1. PICK n, old, run, new : n = runs[r].root /\ old = runs[r] /\ run = runs'[r] /\ new = nodes'
  OBVIOUS
<1>2. /\ TakesOver(r, n) /\ n \in Ids
      /\ old.stage = "resolving" /\ run.stage = "asking"
      /\ SameTrait(old, run) /\ run.root = n /\ run.halt = old.halt
  BY <1>1, RetryStartsShape
<1>4. \A m \in Ids : SameLook(nodes[m], new[m])
  BY <1>1, RetryStartsShape
<1>6. run.halt = "no"
  BY <1>1, <1>2 DEF OwedInv, TasksFit, TaskFits
<1>7. Yields(r) /\ ~ Waited(runs[r])
  BY <1>1, <1>2, <1>6, TakenYields
<1>8. ASSUME NEW m \in Ids, Loads(new[m]) PROVE Loads(nodes[m]) \/ Helps(run, m)
  <2>1. CASE m = n
    BY <1>2, <1>6, <2>1 DEF Helps, Waited
  <2>2. CASE m # n
    BY <1>1, RetryStartsShape, <1>8, <2>2
  <2> QED
    BY <2>1, <2>2
<1>9. ASSUME Shown
      PROVE  /\ \A m \in Ids : NodeShown(new[m]) /\ Steady(r, m)
             /\ RunShown(run, new)
  <2>1. ASSUME NEW m \in Ids PROVE NodeShown(new[m]) /\ Steady(r, m)
    BY <1>4, <1>9, <1>1, RetryStartsShape, LookShown, LookSteady DEF Shown
  <2>2. SourceFits(old, nodes[old.origin]) /\ ResultFits(old, nodes[n])
    BY <1>1, <1>2, <1>9 DEF Shown, RunShown
  <2>3. run.origin = old.origin /\ old.origin \in Ids
    BY <1>1, <1>2, RunNode DEF SameTrait
  <2>4. SameLook(nodes[n], new[n]) /\ SameLook(nodes[old.origin], new[old.origin])
    BY <1>2, <1>4, <2>3
  <2> QED
    BY <1>2, <2>1, <2>2, <2>3, <2>4 DEF RunShown, SourceFits, SameTrait, SameLook, Pictured,
       ResultFits
<1> QED
  BY <1>1, <1>7, <1>8, <1>9, BeginHonest DEF CanvasInv, GraphInv, Ids

LEMMA EditImageHonest ==
    ASSUME CanvasInv, OwedInv, NEW r \in Runs, NEW n \in Live(nodes), EditImage(r, n)
    PROVE  HonestStep
<1>1. PICK child, run, new : child = made' /\ run = runs'[r] /\ new = nodes'
  OBVIOUS
<1>2. /\ TakesOver(r, child) /\ child \in Ids /\ child \notin 1..made
      /\ run.stage = "asking" /\ run.kind = "single" /\ run.root = child /\ run.halt = "no"
  BY <1>1, EditImageShape
<1>4. /\ \A m \in Ids \ {child} : new[m] = nodes[m]
      /\ new[child].type = "image" /\ new[child].gen.primary = 0 /\ new[child].gen.shown = 0
      /\ new[child].gen.status = "loading"
  BY <1>1, EditImageShape
<1>5. Yields(r) /\ ~ Waited(runs[r])
  BY <1>1, <1>2, TakenYields
<1>6. Helps(run, child)
  BY <1>2 DEF Helps, Waited
<1>7. ASSUME Shown, NEW m \in Ids PROVE NodeShown(new[m])
  <2>1. CASE m = child
    BY <1>4, <2>1 DEF NodeShown
  <2>2. CASE m # child
    BY <1>4, <1>7, <2>2 DEF Shown
  <2> QED
    BY <2>1, <2>2
<1>8. ASSUME NEW m \in 1..made PROVE Steady(r, m)
  BY <1>2, <1>1, <1>4, Unmoved DEF CanvasInv, GraphInv, Ids
<1>9. RunShown(run, new)
  BY <1>2, <1>1, EditImageShape, <1>4 DEF SourceFits, ResultFits, RunShown
<1> QED
  BY <1>1, <1>4, <1>5, <1>6, <1>7, <1>8, <1>9, BeginHonest

LEMMA StartPlaceHonest ==
    ASSUME CanvasInv, NEW r \in Runs, NEW n, n = runs[r].origin, runs[r].empty,
           NEW asked \in SUBSET Items, Started(r, asked), runs[r].kind = "text" => 1 \in asked,
           runs[r] \in RunSet, runs[r].root = n, n \in Ids, runs[r].kind \in Media \cup {"text"},
           runs[r].stage = "hydrating", runs[r].halt = "no"
    PROVE  HonestStep
<1>1. PICK old, run, new : old = runs[r] /\ run = runs'[r] /\ new = nodes'
  OBVIOUS
<1>2. /\ \A q \in Runs : q # r => runs'[q] = runs[q]
      /\ SameTrait(old, run) /\ run.stage = "asking" /\ run.root = n
      /\ run.done = old.done /\ run.halt = old.halt
  BY <1>1, StartInPlace
<1>3. /\ \A m \in Ids \ {n} : new[m] = nodes[m]
      /\ n \notin Live(nodes) => new = nodes
      /\ n \in Live(nodes) =>
            /\ new[n].gen.status = "loading"
            /\ old.kind = "image" => /\ new[n].type = nodes[n].type
                                     /\ new[n].gen.primary = Foreign(nodes[n].gen.primary)
                                     /\ new[n].gen.shown = Foreign(nodes[n].gen.shown)
            /\ old.kind # "image" => new[n].type = old.kind
  BY <1>1, StartInPlace
<1>4. n \in Live(nodes) /\ old.kind = "image" => (new[n].filled <=> nodes[n].filled)
  BY <1>1, StartInPlace
<1>7. ASSUME Shown
      PROVE  /\ \A m \in Ids : NodeShown(new[m]) /\ Steady(r, m)
             /\ RunShown(run, new)
  <2>1. SourceFits(old, nodes[n]) /\ ResultFits(old, nodes[n]) /\ NodeShown(nodes[n])
    BY <1>1, <1>7 DEF Shown, RunShown
  <2>2. nodes[n].type = old.kind /\ old.done = {}
    BY <1>1, <2>1 DEF SourceFits, ResultFits
  <2>3. n \in Live(nodes)
    BY <1>1, <2>2 DEF Live, Media
  <2>4. new[n].type = nodes[n].type /\ (Pictured(nodes[n]) => new[n].filled)
    BY <1>3, <1>4, <2>2, <2>3 DEF Pictured
  <2>5. NodeShown(new[n])
    BY <1>3, <1>4, <2>1, <2>2, <2>3, <2>4 DEF NodeShown, Foreign
  <2>8. \A m \in Ids : NodeShown(new[m]) /\ Steady(r, m)
    <3>1. ASSUME NEW m \in Ids, m # n PROVE NodeShown(new[m]) /\ Steady(r, m)
      BY <1>1, <1>3, <1>7, <3>1, Unmoved DEF Shown
    <3> QED
      BY <2>5, <1>1, <2>4, IsMine, <3>1 DEF Steady, InFlight
  <2>11. ResultFits(run, new[n])
    BY <1>1, <1>2, <2>2, <2>4 DEF ResultFits, SameTrait, Media
  <2> QED
    BY <1>2, <2>8, <1>1, <2>1, <2>4, <2>11 DEF RunShown, SameTrait, SourceFits, Pictured
<1>9. \A m \in Ids : Loads(new[m]) => Loads(nodes[m]) \/ Helps(run, m)
  BY <1>3, <1>1, <1>2 DEF Helps, Waited
<1> QED
  BY <1>1, <1>2, AloneYields, <1>7, <1>9, BeginHonest DEF CanvasInv, GraphInv, Ids, Waited

LEMMA StartChildHonest ==
    ASSUME CanvasInv, NEW r \in Runs, NEW n, n = runs[r].origin, ~ runs[r].empty,
           NEW asked \in SUBSET Items, Started(r, asked), runs[r].kind = "text" => 1 \in asked,
           runs[r] \in RunSet, n \in Ids, runs[r].kind \in Media \cup {"text"},
           runs[r].stage = "hydrating", runs[r].halt = "no"
    PROVE  HonestStep
<1>1. PICK old, run, new, child : /\ old = runs[r] /\ run = runs'[r] /\ new = nodes'
                                  /\ child = made'
  OBVIOUS
<1>2. /\ \A q \in Runs : q # r => runs'[q] = runs[q]
      /\ SameTrait(old, run) /\ run.stage = "asking" /\ run.root = child
      /\ run.done = old.done /\ run.halt = old.halt
      /\ child \in Ids /\ child \notin 1..made
  BY <1>1, StartChild
<1>3. \A m \in Ids \ {child} :
          new[m].gen.status = IF m = n /\ m \in Live(nodes) /\ SourceMark(r) # "keep"
                              THEN SourceMark(r) ELSE nodes[m].gen.status
  BY <1>1, StartChild
<1>4. \A m \in Ids \ {child} : SameLook(nodes[m], new[m])
  BY <1>1, StartChild DEF SameButStatus
<1>5. /\ new[child].type = old.kind
      /\ new[child].gen.status = "loading"
      /\ new[child].gen.primary = IF old.kind = "text" THEN 1 ELSE 0
      /\ new[child].gen.shown = 0
  BY <1>1, StartChild
<1>6. Yields(r) /\ ~ Waited(runs[r])
  BY <1>2, AloneYields DEF Waited
<1>7. ASSUME NEW m \in Ids, Loads(new[m]) PROVE Loads(nodes[m]) \/ Helps(run, m)
  <2>1. run.origin = n /\ Waited(run)
    BY <1>1, <1>2 DEF SameTrait, Waited
  <2>2. CASE m = child
    BY <1>2, <2>1, <2>2 DEF Helps
  <2>3. CASE m = n /\ m # child /\ SourceMark(r) = "loading"
    BY <1>1, <1>2, <2>3, <2>1 DEF SourceMark, Marking, SameTrait, Helps
  <2>4. CASE m # child /\ (m # n \/ SourceMark(r) # "loading")
    BY <1>3, <1>4, <1>7, <2>4 DEF Loads, SameLook
  <2> QED
    BY <2>2, <2>3, <2>4
<1>8. ASSUME Shown, NEW m \in Ids PROVE NodeShown(new[m])
  <2>1. CASE m = child
    BY <1>5, <2>1 DEF NodeShown
  <2>2. CASE m # child
    BY <1>4, <1>8, <2>2, <1>1, <1>3, LookShown DEF Shown, RunShown, SourceFits, SameLook
  <2> QED
    BY <2>1, <2>2
<1>9. ASSUME NEW m \in 1..made PROVE Steady(r, m)
  BY <1>2, <1>1, <1>4, LookSteady DEF CanvasInv, GraphInv, Ids
<1>10. ASSUME Shown PROVE RunShown(run, new)
  BY <1>1, <1>10, RunNode, <1>2, <1>4, <1>5 DEF Shown, RunShown, SameTrait, SourceFits,
     SameLook, Pictured, ResultFits, Media
<1> QED
  BY <1>1, <1>6, <1>7, <1>8, <1>9, <1>10, BeginHonest

LEMMA StartHonest == ASSUME CanvasInv, NEW r \in Runs, Start(r) PROVE HonestStep
<1>1. PICK n : n = runs[r].origin
  OBVIOUS
<1>2. PICK asked \in SUBSET Items :
           /\ Started(r, asked) /\ (runs[r].kind = "text" => 1 \in asked)
           /\ runs[r].stage = "hydrating" /\ ~ Aborted(r)
           /\ runs[r] \in RunSet /\ runs[r].root = n /\ n \in Ids
           /\ runs[r].kind \in Media \cup {"text"}
  BY <1>1, StartPlace
<1>3. runs[r].halt = "no"
  BY <1>2 DEF Aborted
<1>4. CASE runs[r].empty
  BY <1>1, <1>2, <1>3, <1>4, StartPlaceHonest
<1>5. CASE ~ runs[r].empty
  BY <1>1, <1>2, <1>3, <1>5, StartChildHonest
<1> QED
  BY <1>4, <1>5

LEMMA SameHonest ==
    ASSUME UNCHANGED <<nodes, runs>> PROVE HonestStep
BY DEF HonestStep, Tended, Shown, Helps, Waited, Marking, RunShown, SourceFits, ResultFits,
       NodeShown, Loads, Pictured

LEMMA StopHonest == ASSUME CanvasInv, OwedInv, ConfirmStop PROVE HonestStep
<1>1. AllHalt /\ StoppedRuns \subseteq Runs
  BY StopShape
<1>4. ASSUME NEW n \in Ids
      PROVE  /\ SameLook(nodes[n], nodes'[n])
             /\ nodes'[n].gen.status \in {nodes[n].gen.status, "idle"}
             /\ Loads(nodes'[n]) => /\ Loads(nodes[n]) /\ n \notin StopTargets
                                    /\ \A q \in StoppedRuns : runs[q].origin # n
  <2>1. CASE /\ nodes'[n] = nodes[n] /\ n \notin StopTargets
             /\ \A q \in StoppedRuns : runs[q].origin # n
    BY <2>1 DEF SameLook
  <2>2. CASE nodes'[n] = Cut(nodes[n], "idle")
    <3>0. PICK idle \in Marks : idle = "idle"
      BY InMarks
    <3>1. PICK new : new = Cut(nodes[n], idle)
      OBVIOUS
    <3> QED
      BY <2>2, <3>0, <3>1, NodesTyped, CutNode DEF Loads, SameLook
  <2> QED
    BY StopShape, <2>1, <2>2
<1>5. ASSUME Tended, NEW n \in Ids, Loads(nodes'[n]) PROVE \E q \in Runs : Helps(runs'[q], n)
  <2>1. PICK q \in Runs : Helps(runs[q], n)
    BY <1>4, <1>5 DEF Tended
  <2>2. PICK a, b : a = runs[q] /\ b = runs'[q]
    OBVIOUS
  <2>4. ASSUME q \in StoppedRuns, ~ Aborted(q) PROVE FALSE
    BY <2>1, <2>2, <2>4, RunNode, Sizes, <1>4, <1>5 DEF Helps, Waited, InFlight, Aborted,
       CanvasInv, RegistryExact, LiveRunRegistered, StoppedRuns, StopTargets
  <2>6. Helps(b, n)
    BY <2>1, <2>2, <1>1, StopShape, <2>4 DEF Helps, Waited, Marking, SameTrait, AllHalt,
       OnlyHalts
  <2> QED
    BY <2>2, <2>6
<1>6. ASSUME Shown, NEW n \in Ids PROVE NodeShown(nodes'[n]) /\ Steady(0, n)
  BY <1>4, <1>6, LookShown, LookSteady DEF Shown
<1>7. ASSUME Shown, NEW q \in Runs, runs'[q].stage # "none" PROVE RunShown(runs'[q], nodes')
  BY <1>1, <1>7, RunNode, Sizes, <1>6, OthersShown DEF AllHalt, OnlyHalts, Shown
<1> QED
  BY <1>5, <1>6, <1>7 DEF HonestStep, Tended, Shown

(* What is claimed: before the first edit, with no job under way.           *)
HonestInv == Untouched => jobs = {} /\ Tended /\ (GeneratedCanvases => Shown)

LEMMA RunsHonest ==
    ASSUME CanvasInv, OwedInv, NEW r \in Runs, Answer(r) \/ GiveUp(r)
    PROVE  HonestStep
<1>1. ASSUME NEW i \in Items,
             \/ ImageArrives(r, i) \/ TextArrives(r, i) \/ ItemFails(r, i)
             \/ ItemCanceled(r, i) \/ TextStreams(r, i)
      PROVE  HonestStep
  BY <1>1, ItemHonest, StreamHonest
<1>2. CASE HydrationFails(r) \/ HydratedToNothing(r) \/ Canceled(r) \/ MediaAnswered(r)
  BY <1>2, QuietHonest
<1>3. CASE Start(r) \/ MediaStored(r) \/ MediaFails(r) \/ ImageEdited(r) \/ ImageEditFails(r)
  BY <1>3, StartHonest, MediaStoredHonest, MediaFailsHonest, ImageEditedHonest,
     ImageEditFailsHonest
<1>4. CASE \/ RetryRefused(r) \/ RetryStarts(r) \/ RetryStreams(r)
           \/ RetrySucceeds(r) \/ RetryFails(r)
  BY <1>4, RetryGivenUpHonest, RetryStartsHonest, RetryStreamsHonest, RetrySucceedsHonest
<1> QED
  BY <1>1, <1>2, <1>3, <1>4 DEF Answer, GiveUp

LEMMA RunsEditNothing ==
    ASSUME Begin \/ Stop \/ \E r \in Runs : Answer(r) \/ GiveUp(r)
    PROVE  UNCHANGED <<edits, jobs>>
<1>1. CASE Begin
  BY <1>1, ZenonT(40) DEF Begin, Generate, Retry, EditImage, GraphKeeps, graphVars
<1>2. CASE Stop
  BY <1>2 DEF Stop, AskStop, DismissStop, ConfirmStop, GraphKeeps, graphVars
<1>3. ASSUME NEW r \in Runs, NEW i \in Items,
             \/ ImageArrives(r, i) \/ TextArrives(r, i) \/ ItemFails(r, i)
             \/ ItemCanceled(r, i) \/ TextStreams(r, i)
      PROVE  UNCHANGED <<edits, jobs>>
  BY <1>3 DEF ImageArrives, TextArrives, ItemFails, ItemCanceled, TextStreams, ItemAnswered,
              GraphKeeps
<1>4. ASSUME NEW r \in Runs,
             \/ HydrationFails(r) \/ HydratedToNothing(r) \/ Canceled(r) \/ MediaAnswered(r)
             \/ Start(r) \/ MediaStored(r) \/ MediaFails(r) \/ ImageEdited(r) \/ ImageEditFails(r)
             \/ RetryRefused(r) \/ RetryStarts(r) \/ RetryStreams(r) \/ RetrySucceeds(r)
             \/ RetryFails(r)
      PROVE  UNCHANGED <<edits, jobs>>
  BY <1>4, Zenon DEF HydrationFails, HydratedToNothing, Canceled, MediaAnswered, Start, MediaStored,
              MediaFails, ImageEdited, ImageEditFails, RetryRefused, RetryStarts, RetryStreams,
              RetrySucceeds, RetryFails, GraphKeeps, graphVars, genVars
<1> QED
  BY <1>1, <1>2, <1>3, <1>4 DEF Answer, GiveUp

LEMMA FirstEdit == ASSUME CanvasInv, Edit PROVE ~ Untouched'
BY GraphAssumption DEF Untouched, CanvasInv, GraphInv, Edit

LEMMA EditsHonest == ASSUME CanvasInv, Edits, HonestInv, Untouched' PROVE HonestInv'
<1>1. ~ Edit
  BY FirstEdit, SMTT(30)
<1>2. ~ (Batch \/ Clear \/ Reload) /\ \A S \in Selections : ~ DeleteSelected(S)
  BY <1>1, Zenon DEF Batch, SetBatchPrimary, DeleteBatchImage, DuplicateBatchImage, ExtractImage, Clear,
              ClearCanvas, Reload, ReloadPage, DeleteSelected, DeleteNodes
<1>3. EditNext /\ UNCHANGED genVars
  BY <1>2 DEF Edits, EditDocument
<1>4. ExitPicker \/ \E j \in jobs : FinishJob(j) \/ FailJob(j)
  BY <1>1, <1>3 DEF EditNext, CreateNode, ConnectNodes, CreateConnected, CopyNodes, DropNodes,
     DeleteConnection, StartPicker, PickReference, DuplicateNode, ReversePrompt, ImageFromText,
     WriteText, PasteCopied, CommitEntry, ApplyEntry, StartJob
<1>5. Untouched
  BY <1>4 DEF ExitPicker, FinishJob, FailJob, Untouched
<1> QED
  BY <1>5, <1>3, <1>4, SameHonest DEF HonestInv, HonestStep, GeneratedCanvases, ExitPicker,
     genVars

LEMMA NextHonest ==
    ASSUME CanvasInv, OwedInv, HonestInv, [Next]_vars PROVE HonestInv'
<1>1. CASE HonestStep /\ UNCHANGED <<edits, jobs>>
  BY <1>1 DEF HonestInv, HonestStep, Untouched
<1>2. CASE Begin
  BY <1>2, GenerateHonest, RetryHonest, EditImageHonest, <1>1, RunsEditNothing DEF Begin
<1>3. CASE Stop
  <2>1. ASSUME AskStop \/ DismissStop PROVE HonestStep
    BY <2>1, SameHonest DEF AskStop, DismissStop, graphVars
  <2> QED
    BY <1>1, <1>3, <2>1, StopHonest, RunsEditNothing DEF Stop
<1>4. CASE Edits
  BY <1>4, EditsHonest DEF HonestInv
<1>5. CASE \E r \in Runs : Answer(r) \/ GiveUp(r)
  BY <1>1, <1>5, RunsHonest, RunsEditNothing
<1>6. CASE UNCHANGED vars
  BY <1>1, <1>6, SameHonest DEF vars, graphVars, genVars
<1> QED
  BY <1>2, <1>3, <1>4, <1>5, <1>6 DEF Next

LEMMA HonestStart == ASSUME Init PROVE HonestInv
<1>1. PICK c \in Canvases : nodes = c.nodes
  BY DEF Init, GraphInit
<1>2. jobs = {} /\ \A r \in Runs : runs[r].stage = "none"
  BY DEF Init, GraphInit, NoRun
<1> QED
  BY <1>2, <1>1, LoadedAssumption DEF HonestInv, Tended, Loads, GeneratedCanvases, Shown

LEMMA TendedIsServed == ASSUME CanvasInv, HonestInv PROVE LoadingServed
<1> SUFFICES ASSUME Untouched, NEW n \in Live(nodes), nodes[n].gen.status = "loading"
             PROVE  \E r \in Runs : /\ n \in {runs[r].root, runs[r].origin}
                                    /\ runs[r].halt = "replaced" \/ (InFlight(r) /\ ~ Aborted(r))
  BY DEF LoadingServed
<1>1. PICK r \in Runs : Helps(runs[r], n)
  BY DEF HonestInv, Tended, Loads, Live
<1> QED
  BY <1>1 DEF Helps, Waited, InFlight, Aborted

LEMMA ShownIsSuccess == ASSUME HonestInv, GeneratedCanvases PROVE SuccessShown
BY DEF HonestInv, SuccessShown, Shown, NodeShown, Live

(* A node that is loading is waited for by a run that goes on, or was left  *)
(* by a run that another one replaced, as long as nothing else than         *)
(* generations changed the document that was loaded: no end of a handler,   *)
(* and no stop, leaves a node that loads for ever.                          *)
THEOREM LoadingIsServed == Spec => []LoadingServed
BY CanvasStart, OwedStart, HonestStart, CanvasStep, OwedStep, NextHonest, TendedIsServed,
   PTL DEF Spec

(* With it, in a canvas that was loaded as generations left it, a node that *)
(* reports success has content and an image shows its primary item; and in  *)
(* every canvas what a run still asks for is loading.                       *)
THEOREM ResultsAreHonest == GeneratedCanvases => (Spec => []ResultsHonest)
<1> SUFFICES ASSUME GeneratedCanvases PROVE Spec => []ResultsHonest
  OBVIOUS
<1>1. CanvasInv /\ OwedInv /\ HonestInv => ResultsHonest
  BY OwedIsLoading, TendedIsServed, ShownIsSuccess DEF ResultsHonest
<1> QED
  BY <1>1, CanvasStart, OwedStart, HonestStart, CanvasStep, OwedStep, NextHonest, PTL DEF Spec
===============================================================================
