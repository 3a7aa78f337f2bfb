---------------------------- MODULE CanvasProject ----------------------------
(***************************************************************************)
(* How a canvas is loaded, edited, undone, saved and cleaned up after: the *)
(* effects and timers of pages/canvas/project.tsx, the project store of    *)
(* stores/canvas/use-canvas-store.ts with its delayed write to IndexedDB,  *)
(* and the collection of the images nothing refers to any more             *)
(* (services/image-storage.ts, stores/use-asset-store.ts).                 *)
(*                                                                         *)
(* A document is the project it was made in, a revision and the images its *)
(* nodes refer to; CanvasGraph and CanvasGeneration model what the nodes   *)
(* are.  React runs the effects of a commit before any timer, so they are  *)
(* part of the action that changed the state.                              *)
(***************************************************************************)
EXTENDS Naturals, SequencesExt

CONSTANTS
    Projects, NoProject,    \* project ids, and the route that shows none
    Keys,                   \* storage keys of images; bound: each is made once
    MaxRev,                 \* bound: revisions
    Depth,                  \* entries the undo history keeps
    MaxSweeps               \* bound: cleanupImages calls under way at once

ASSUME ProjectsAssumption == NoProject \notin Projects
ASSUME BoundsAssumption   == {MaxRev, MaxSweeps} \subseteq Nat /\ Depth \in Nat \ {0}

Docs  == [of : Projects, rev : 0..MaxRev, keys : SUBSET Keys]
NoDoc == [of |-> NoProject, rev |-> 0, keys |-> {}]
Shelf == [Projects -> Docs \cup {NoDoc}]
Sweeps == [phase : {"due", "read"}, roots : SUBSET Keys, used : SUBSET Keys]

VARIABLES
    route, loaded,      \* the :id of the page, and projectLoaded
    screen,             \* nodes, connections, ...: what the page shows
    restores,           \* restore() calls under way, with the project they read
    paused,             \* historyPausedRef: a node is being dragged
    past, last, future, \* historyRef and lastHistoryRef
    timer,              \* the 180 ms timer of a history commit is set
    applied,            \* the entry an undo or redo applies, until its timeout
    store, disk,        \* the projects in memory and in IndexedDB
    saveDue,            \* the 400 ms timer of the write is set
    assets,             \* images of the asset library
    blobs, uploads,     \* images stored, and those no document has yet
    sweeps,             \* cleanupImages calls under way
    revs,               \* revisions made
    skipped, excused    \* known cases, see ScreenSaved and KeysKept

pageVars == <<route, loaded, screen, restores, paused>>
undoVars == <<past, last, future, timer, applied>>
saveVars == <<store, disk, saveDue>>
fileVars == <<assets, blobs, uploads, sweeps, excused>>
vars == <<pageVars, undoVars, saveVars, fileVars, revs, skipped>>

Reach(docs)  == UNION {d.keys : d \in docs}
Entries(seq) == {seq[i] : i \in DOMAIN seq}
History      == Entries(past) \cup Entries(future) \cup {last}
Stored       == {store[p] : p \in Projects}
Open         == route # NoProject /\ loaded
InUse        == Reach(Stored \cup {screen} \cup History \cup restores) \cup assets

TypeOK ==
    /\ route \in Projects \cup {NoProject} /\ loaded \in BOOLEAN
    /\ screen \in Docs \cup {NoDoc} /\ restores \subseteq Docs
    /\ past \in Seq(Docs) /\ future \in Seq(Docs) /\ Len(past) + Len(future) <= Depth
    /\ last \in Docs \cup {NoDoc} /\ applied \in Docs \cup {NoDoc}
    /\ {paused, timer, saveDue, skipped} \subseteq BOOLEAN
    /\ store \in Shelf /\ disk \in Shelf /\ revs \in 0..MaxRev
    /\ assets \subseteq Keys /\ blobs \subseteq Keys /\ excused \subseteq Keys
    /\ uploads \subseteq Keys /\ sweeps \subseteq Sweeps

Init ==
    /\ route = NoProject /\ loaded = FALSE /\ screen = NoDoc /\ restores = {} /\ paused = FALSE
    /\ past = <<>> /\ future = <<>> /\ last = NoDoc
    /\ timer = FALSE /\ applied = NoDoc
    /\ \E p \in Projects : store = [q \in Projects |-> IF q = p THEN [NoDoc EXCEPT !.of = p] ELSE NoDoc]
    /\ disk = store /\ saveDue = FALSE
    /\ assets = {} /\ blobs = {} /\ uploads = {} /\ sweeps = {}
    /\ revs = 0 /\ skipped = FALSE /\ excused = {}

-----------------------------------------------------------------------------
(* The autosave effect of a commit that changed the document, and the       *)
(* history effect, which restarts its timer unless a drag or an undo is on. *)
Put(p, d) == IF store[p] = NoDoc THEN store ELSE [store EXCEPT ![p] = d]
AutoSave(d) ==
    IF paused THEN UNCHANGED <<saveVars, skipped>>
    ELSE /\ store' = Put(route, d) /\ saveDue' = TRUE /\ UNCHANGED disk
         /\ skipped' = FALSE
HistoryEffect == timer' = (~ paused /\ applied = NoDoc)

(* cleanupImages: a sweep starts from the extra roots it is given.  used,    *)
(* for KeysKept only, is what it should spare: what the history held when   *)
(* it was asked for, and what the stores hold when it reads them.           *)
Sweep(roots) ==
    /\ Cardinality(sweeps) < MaxSweeps
    /\ sweeps' = sweeps \cup {[phase |-> "due", roots |-> roots, used |-> Reach(History)]}

(* The page unmounts: its timers are cleared, what still runs changes       *)
(* nothing any more.                                                        *)
Unmount ==
    /\ route' = NoProject /\ loaded' = FALSE /\ screen' = NoDoc /\ restores' = {}
    /\ paused' = FALSE /\ past' = <<>> /\ future' = <<>> /\ last' = NoDoc
    /\ timer' = FALSE /\ applied' = NoDoc

(* The page mounts on a project, or without one goes back to the list.      *)
OpenCanvas(p) ==
    /\ route = NoProject /\ store[p] # NoDoc
    /\ route' = p /\ restores' = {store[p]}
    /\ UNCHANGED <<loaded, screen, paused, undoVars, saveVars, fileVars, revs, skipped>>
LeaveCanvas ==
    /\ route # NoProject /\ Unmount /\ skipped' = FALSE
    /\ UNCHANGED <<saveVars, fileVars, revs>>

(* :id changes under the mounted page: restore() has read the project when  *)
(* the autosave effect, which still sees the former render, saves the       *)
(* document on the screen under the new id.                                 *)
SwitchCanvas(p) ==
    /\ route \notin {NoProject, p} /\ store[p] # NoDoc
    /\ route' = p /\ loaded' = FALSE /\ restores' = restores \cup {store[p]}
    /\ IF loaded /\ ~ paused
       THEN store' = Put(p, screen) /\ saveDue' = TRUE /\ UNCHANGED disk
       ELSE UNCHANGED saveVars
    /\ UNCHANGED <<screen, paused, undoVars, fileVars, revs, skipped>>

(* restore() ends: it shows what it read and starts a new history; nothing  *)
(* asks whether the page still shows that project.                          *)
RestoreDone(d) ==
    /\ d \in restores /\ restores' = restores \ {d}
    /\ screen' = d /\ loaded' = TRUE
    /\ past' = <<>> /\ future' = <<>> /\ timer' = FALSE /\ last' = d
    /\ AutoSave(d)
    /\ UNCHANGED <<route, paused, applied, fileVars, revs>>

-----------------------------------------------------------------------------
(* The user or an asynchronous answer changes the document.                 *)
Change(keys) ==
    /\ Open /\ revs < MaxRev /\ revs' = revs + 1
    /\ screen' = [of |-> screen.of, rev |-> revs + 1, keys |-> keys]
    /\ AutoSave(screen') /\ HistoryEffect
    /\ UNCHANGED <<route, loaded, restores, paused, past, last, future, applied>>
Edit == Change(screen.keys) /\ UNCHANGED fileVars

(* uploadImage stores the image, under a new key, before any node refers to *)
(* it.                                                                      *)
Upload(k) ==
    /\ k \notin blobs \cup excused \cup Reach({disk[p] : p \in Projects})
    /\ \A s \in sweeps : k \notin s.used
    /\ blobs' = blobs \cup {k} /\ uploads' = uploads \cup {k}
    /\ UNCHANGED <<pageVars, undoVars, saveVars, revs, skipped, assets, sweeps, excused>>
PlaceImage(k) ==
    /\ k \in uploads /\ uploads' = uploads \ {k}
    /\ Change(screen.keys \cup {k})
    /\ UNCHANGED <<assets, blobs, sweeps, excused>>
(* A slip: the sweep is given what is left on the canvas only.              *)
DeleteImagesForgotten(gone) ==
    /\ gone # {} /\ gone \subseteq screen.keys
    /\ Change(screen.keys \ gone)
    /\ Sweep(screen'.keys)
    /\ UNCHANGED <<assets, blobs, uploads, excused>>
(* deleteNodes and clearCanvas: what is left, the undo history and its last *)
(* entry are the roots of the sweep.                                        *)
DeleteImages(gone) ==
    /\ gone # {} /\ gone \subseteq screen.keys
    /\ Change(screen.keys \ gone)
    /\ Sweep(Reach({screen'} \cup History))
    /\ UNCHANGED <<assets, blobs, uploads, excused>>

(* handleNodeMouseDown and finishNodeDrag: nothing is saved in between; a   *)
(* click that moved nothing changes no state, so no effect runs after it.   *)
BeginDrag ==
    /\ Open /\ ~ paused /\ paused' = TRUE
    /\ UNCHANGED <<route, loaded, screen, restores, undoVars, saveVars, fileVars, revs, skipped>>
EndDrag ==
    /\ Open /\ paused /\ paused' = FALSE
    /\ \/ /\ revs < MaxRev /\ revs' = revs + 1
          /\ screen' = [screen EXCEPT !.rev = revs + 1]
          /\ store' = Put(route, screen') /\ saveDue' = TRUE /\ timer' = (applied = NoDoc)
          /\ skipped' = FALSE
       \/ /\ skipped' = (store[route] # screen)
          /\ UNCHANGED <<screen, revs, store, saveDue, timer>>
    /\ UNCHANGED <<route, loaded, restores, past, last, future, applied, disk, fileVars>>

-----------------------------------------------------------------------------
(* The history timer: past.slice(-49) and the former last entry.            *)
Newest(seq, n) == IF Len(seq) <= n THEN seq ELSE SubSeq(seq, Len(seq) - n + 1, Len(seq))
CommitHistory ==
    /\ timer /\ applied = NoDoc      \* the timeout of an undo, of 0 ms, runs first
    /\ timer' = FALSE
    /\ past' = Append(Newest(past, Depth - 1), last) /\ future' = <<>> /\ last' = screen
    /\ UNCHANGED <<pageVars, applied, saveVars, fileVars, revs, skipped>>
(* undoCanvas and redoCanvas: an entry changes sides, the current one       *)
(* follows when its timeout of 0 ms has run.  Bound: it runs before the     *)
(* next undo or redo (two of them before it lose an entry).                 *)
ApplyHistoryUnsaved(d) ==      \* a slip: nothing is saved while an entry is applied
    /\ applied = NoDoc /\ applied' = d /\ timer' = FALSE
    /\ screen' = d /\ UNCHANGED <<saveVars, skipped>>
    /\ UNCHANGED <<route, loaded, restores, paused, last, fileVars, revs>>
ApplyHistory(d) ==
    /\ applied = NoDoc /\ applied' = d /\ timer' = FALSE
    /\ screen' = d /\ AutoSave(d)
    /\ UNCHANGED <<route, loaded, restores, paused, last, fileVars, revs>>
Undo ==
    /\ Open /\ past # <<>>
    /\ past' = Front(past) /\ future' = Append(future, last)
    /\ ApplyHistory(past[Len(past)])
Redo ==
    /\ Open /\ future # <<>>
    /\ future' = Front(future) /\ past' = Append(past, last)
    /\ ApplyHistory(future[Len(future)])
HistoryApplied ==
    /\ applied # NoDoc /\ applied' = NoDoc /\ last' = applied
    /\ UNCHANGED <<pageVars, past, future, timer, saveVars, fileVars, revs, skipped>>

-----------------------------------------------------------------------------
(* createProject and importProject (its images are stored first);           *)
(* deleteProjects from the list or of the open project, with no other root  *)
(* than what is left.                                                       *)
CreateProject(p, keys) ==
    /\ store[p] = NoDoc /\ keys \subseteq uploads /\ uploads' = uploads \ keys
    /\ store' = [store EXCEPT ![p] = [of |-> p, rev |-> 0, keys |-> keys]] /\ saveDue' = TRUE
    /\ UNCHANGED <<pageVars, undoVars, disk, assets, blobs, sweeps, excused, revs, skipped>>
DeleteProject(p) ==
    /\ store[p] # NoDoc /\ route \in {NoProject, p}
    /\ store' = [store EXCEPT ![p] = NoDoc] /\ saveDue' = TRUE /\ UNCHANGED disk
    /\ Sweep({})
    /\ Unmount /\ skipped' = FALSE
    /\ UNCHANGED <<assets, blobs, uploads, excused, revs>>

(* saveNodeAsset keeps the image of a node; removeAsset sweeps with the     *)
(* assets that are left as its only extra root.  Bound: from the asset page *)
(* (beside an open canvas the sweep takes what only the undo history has).  *)
SaveAsset(k) ==
    /\ Open /\ k \in screen.keys \ assets /\ assets' = assets \cup {k}
    /\ UNCHANGED <<pageVars, undoVars, saveVars, blobs, uploads, sweeps, excused, revs, skipped>>
RemoveAsset(k) ==
    /\ k \in assets /\ assets' = assets \ {k}
    /\ route = NoProject
    /\ Sweep(assets')
    /\ UNCHANGED <<pageVars, undoVars, saveVars, blobs, uploads, excused, revs, skipped>>

(* cleanupImages after its timeout: the roots are read, then, some awaits   *)
(* later, every image not among them is deleted.                            *)
SweepReads(s) ==
    /\ s \in sweeps /\ s.phase = "due"
    /\ sweeps' = (sweeps \ {s}) \cup
           {[phase |-> "read", roots |-> s.roots \cup Reach(Stored) \cup assets,
             used |-> s.used \cup Reach(Stored) \cup assets]}
    /\ UNCHANGED <<pageVars, undoVars, saveVars, assets, blobs, uploads, excused, revs, skipped>>
SweepDeletes(s) ==
    /\ s \in sweeps /\ s.phase = "read" /\ sweeps' = sweeps \ {s}
    /\ blobs' = blobs \cap s.roots /\ excused' = excused \cup ((blobs \ s.roots) \ s.used)
    /\ UNCHANGED <<pageVars, undoVars, saveVars, assets, uploads, revs, skipped>>

-----------------------------------------------------------------------------
(* The write after 400 ms without a change; and the browser stops, or the   *)
(* page is loaded again, at any moment.                                     *)
SaveFires ==
    /\ saveDue /\ saveDue' = FALSE /\ disk' = store
    /\ UNCHANGED <<pageVars, undoVars, store, fileVars, revs, skipped>>
Crash ==
    /\ store' = disk /\ saveDue' = FALSE /\ UNCHANGED disk
    /\ Unmount /\ skipped' = FALSE
    /\ uploads' = {} /\ sweeps' = {}
    /\ excused' = excused \cup (Reach({disk[p] : p \in Projects}) \ blobs)
    /\ UNCHANGED <<assets, blobs, revs>>

Next ==
    \/ \E p \in Projects : OpenCanvas(p) \/ DeleteProject(p)
    \/ route = NoProject /\ \E p \in Projects, S \in SUBSET Keys : CreateProject(p, S)
    \/ \E d \in restores : RestoreDone(d)
    \/ \E k \in Keys : Upload(k) \/ PlaceImage(k) \/ SaveAsset(k) \/ RemoveAsset(k)
    \/ \E S \in SUBSET Keys : DeleteImages(S)
    \/ \E s \in sweeps : SweepReads(s) \/ SweepDeletes(s)
    \/ LeaveCanvas \/ Edit \/ BeginDrag \/ EndDrag
    \/ CommitHistory \/ Undo \/ Redo \/ HistoryApplied
    \/ SaveFires \/ Crash
Spec == Init /\ [][Next]_vars

(* createAndOpenProject on a canvas: the user does not pass by the list.    *)
DirectNext ==
    Next \/ \E p \in Projects : SwitchCanvas(p) \/ (route # NoProject /\ CreateProject(p, {}))
DirectSpec == Init /\ [][DirectNext]_vars

-----------------------------------------------------------------------------
(* A project keeps its own documents: what is stored under an id was made   *)
(* in that project ("canvases, assets and history are kept in the browser", *)
(* PRODUCT.md).                                                             *)
ProjectKept ==
    \A p \in Projects : {store[p], disk[p]} \subseteq {d \in Docs \cup {NoDoc} : d.of \in {p, NoProject}}

(* What an open canvas shows is what its project holds, and once the write  *)
(* is done what IndexedDB holds; an answer that arrives while the mouse is  *)
(* down on a node is saved only with the next change (skipped).             *)
ScreenSaved == Open /\ ~ paused /\ ~ skipped /\ restores = {} => store[route] = screen
DiskFollows == ~ saveDue => disk = store
DocumentsSafe == ProjectKept /\ ScreenSaved /\ DiskFollows

(* This of a page that holds only what it may hold: an image before it is   *)
(* used, a document before it is shown, a history within its limit.         *)
ProjectsSound == TypeOK /\ DocumentsSafe

(* No image is collected that a project, the library, the screen or the     *)
(* undo history still refers to, except (excused) one that came into the    *)
(* history after the sweep that takes it was asked for, or into a document  *)
(* after the sweep read them, and those of a document a crash brought back. *)
KeysKept == InUse \subseteq blobs \cup excused

(* Undo and redo move through the revisions in order: past, last and future *)
(* are one line, all of the project on the screen.                          *)
Line == past \o <<last>> \o [i \in 1..Len(future) |-> future[Len(future) + 1 - i]]
HistoryInOrder ==
    Open /\ applied = NoDoc =>
        /\ \A i, j \in 1..Len(Line) : i < j => Line[i].rev <= Line[j].rev
        /\ \A i \in 1..Len(Line) : Line[i].of = screen.of
HistorySafe == KeysKept /\ HistoryInOrder
=============================================================================
