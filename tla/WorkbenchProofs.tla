------------------------- MODULE WorkbenchProofs -------------------------
(***************************************************************************)
(* Proofs about the workbench: of the projects (CanvasProject), that the   *)
(* types, the documents, the images in use and the order of the undo       *)
(* history survive every interleaving of edits, restores, writes, sweeps   *)
(* and crashes; of the session and the requests made with its credential   *)
(* (KeySession, ModelRequests), that the key in use is the account's own   *)
(* and the one on show, and that a request keeps the one it was asked      *)
(* with and ends once.                                                     *)
(***************************************************************************)
EXTENDS CanvasProject, ModelRequests, SequenceTheorems, WellFoundedInduction, TLAPS

(* What the types of the page leave open: nothing is shown before a project *)
(* is loaded, the project of the page exists, and an undo stops the timer.  *)
Mounted ==
    /\ route = NoProject => restores = {}
    /\ \A d, e \in restores : d = e
    /\ loaded => route # NoProject /\ restores = {} /\ screen \in Docs /\ last \in Docs
    /\ ~ loaded => ~ paused /\ ~ timer /\ applied = NoDoc /\ past = <<>> /\ future = <<>>
    /\ ~ loaded => screen = NoDoc /\ last = NoDoc
    /\ applied # NoDoc => ~ timer
    /\ route # NoProject => store[route] # NoDoc

(* All that a page holds was made in the project it shows.                  *)
Owned ==
    /\ \A d \in restores \cup ({screen, last, applied} \ {NoDoc}) : d.of = route
    /\ \A i \in DOMAIN past : past[i].of = route
    /\ \A i \in DOMAIN future : future[i].of = route

DocumentsInv == TypeOK /\ Mounted /\ Owned /\ DocumentsSafe

(* The page and its documents; the images.                                  *)
PageTypes ==
    /\ route \in Projects \cup {NoProject} /\ loaded \in BOOLEAN
    /\ screen \in Docs \cup {NoDoc} /\ restores \subseteq Docs
    /\ {paused, timer, saveDue, skipped} \subseteq BOOLEAN
    /\ store \in Shelf /\ disk \in Shelf /\ revs \in 0..MaxRev
UndoTypes ==
    /\ past \in Seq(Docs) /\ future \in Seq(Docs) /\ Len(past) + Len(future) <= Depth
    /\ last \in Docs \cup {NoDoc} /\ applied \in Docs \cup {NoDoc}
FileTypes ==
    /\ assets \subseteq Keys /\ blobs \subseteq Keys /\ excused \subseteq Keys
    /\ uploads \subseteq Keys /\ sweeps \subseteq Sweeps

(* The type invariant is that of the page, the history and the files.       *)
LEMMA TypeParts == TypeOK <=> PageTypes /\ UndoTypes /\ FileTypes
BY DEF TypeOK, PageTypes, UndoTypes, FileTypes

(* The same in the next state.                                              *)
LEMMA TypePartsNext == TypeOK' <=> PageTypes' /\ UndoTypes' /\ FileTypes'
BY DEF TypeOK, PageTypes, UndoTypes, FileTypes

(* NoDoc is no document, and a stored document is its project's.            *)
LEMMA NoDocIsNone == NoDoc \notin Docs
BY ProjectsAssumption DEF Docs, NoDoc

(* NoDoc is no document, and a stored document is its project's.            *)
LEMMA StoredDoc ==
    ASSUME DocumentsInv, NEW p \in Projects
    PROVE  /\ store[p] \in Docs \cup {NoDoc} /\ disk[p] \in Docs \cup {NoDoc}
           /\ store[p] # NoDoc => store[p] \in Docs /\ store[p].of = p
           /\ disk[p] # NoDoc => disk[p] \in Docs /\ disk[p].of = p
BY ProjectsAssumption
   DEF DocumentsInv, TypeOK, Shelf, Docs, DocumentsSafe, ProjectKept

(* The project of the page is stored.                                       *)
LEMMA RouteStored ==
    ASSUME DocumentsInv, route # NoProject
    PROVE  route \in Projects /\ store[route] \in Docs /\ store[route].of = route
BY StoredDoc DEF DocumentsInv, Mounted, TypeOK

(* Keys reached from documents are keys.                                    *)
LEMMA ReachKeys ==
    ASSUME NEW D \in SUBSET (Docs \cup {NoDoc})
    PROVE  Reach(D) \in SUBSET Keys
<1>1. ASSUME NEW d \in Docs \cup {NoDoc} PROVE d.keys \in SUBSET Keys
  BY DEF Docs, NoDoc
<1> QED
  BY <1>1 DEF Reach

(* The history and the store hold documents.                                *)
LEMMA HistoryDocs ==
    ASSUME TypeOK
    PROVE  /\ History \in SUBSET (Docs \cup {NoDoc})
           /\ Stored \in SUBSET (Docs \cup {NoDoc})
<1>1. \A i \in DOMAIN past : past[i] \in Docs
  BY DEF TypeOK
<1>2. \A i \in DOMAIN future : future[i] \in Docs
  BY DEF TypeOK
<1>3. \A p \in Projects : store[p] \in Docs \cup {NoDoc}
  BY DEF TypeOK, Shelf
<1> QED
  BY <1>1, <1>2, <1>3 DEF TypeOK, History, Entries, Stored

(* A new sweep is one.                                                      *)
LEMMA SweepTyped ==
    ASSUME TypeOK, NEW roots \in SUBSET Keys, Sweep(roots)
    PROVE  sweeps' \subseteq Sweeps
<1>1. Reach(History) \in SUBSET Keys
  BY HistoryDocs, ReachKeys
<1> QED
  BY <1>1 DEF TypeOK, Sweep, Sweeps

(* The document a change leaves on the screen.                              *)
LEMMA NewDoc ==
    ASSUME DocumentsInv, Open, revs < MaxRev, NEW keys \in SUBSET Keys
    PROVE  /\ [of |-> screen.of, rev |-> revs + 1, keys |-> keys] \in Docs
           /\ [of |-> screen.of, rev |-> revs + 1, keys |-> keys].of = route
           /\ [screen EXCEPT !.rev = revs + 1] \in Docs
           /\ [screen EXCEPT !.rev = revs + 1].of = route
           /\ revs + 1 \in 0..MaxRev
<1>1. screen \in Docs /\ screen.of = route /\ NoDoc # screen
  BY NoDocIsNone DEF DocumentsInv, Mounted, Owned, Open
<1>2. revs \in Nat /\ MaxRev \in Nat /\ revs + 1 \in 0..MaxRev
  BY BoundsAssumption DEF DocumentsInv, TypeOK
<1>3. [screen EXCEPT !.rev = revs + 1] = [of |-> screen.of, rev |-> revs + 1, keys |-> screen.keys]
  BY <1>1 DEF Docs
<1> QED
  BY <1>1, <1>2, <1>3 DEF Docs

(* What saving a document of the open project does to the stores.           *)
LEMMA Saving ==
    ASSUME DocumentsInv, route # NoProject, route' = route,
           NEW d \in Docs, d.of = route, ~ paused => ~ paused',
           restores' \in SUBSET Docs,
           \/ AutoSave(d) /\ screen' = d /\ UNCHANGED paused
           \/ store' = Put(route, d) /\ saveDue' = TRUE /\ screen' = d /\ UNCHANGED disk /\ skipped' = FALSE
    PROVE  /\ store' \in Shelf /\ disk' \in Shelf
           /\ saveDue' \in BOOLEAN /\ skipped' \in BOOLEAN
           /\ store'[route] # NoDoc
           /\ DocumentsSafe'
           /\ \A p \in Projects \ {route} : store'[p] = store[p]
           /\ store'[route] \in {store[route], d}
           /\ disk' = disk
<1>1. route \in Projects /\ store[route] \in Docs /\ store[route].of = route /\ store[route] # NoDoc
  BY RouteStored DEF DocumentsInv, Mounted
<1>2. d # NoDoc /\ Put(route, d) = [store EXCEPT ![route] = d]
  BY <1>1, NoDocIsNone DEF Put
<1>3. store \in Shelf /\ disk \in Shelf /\ saveDue \in BOOLEAN /\ skipped \in BOOLEAN
  BY DEF DocumentsInv, TypeOK
<1>4. \/ /\ store' = store /\ saveDue' = saveDue /\ skipped' = skipped
         /\ paused /\ paused'
      \/ store' = [store EXCEPT ![route] = d] /\ saveDue' = TRUE /\ skipped' = FALSE
  BY <1>2 DEF AutoSave, saveVars
<1>5. disk' = disk
  BY DEF AutoSave, saveVars
<1>6. store' \in Shelf /\ disk' \in Shelf /\ saveDue' \in BOOLEAN /\ skipped' \in BOOLEAN
  BY <1>1, <1>3, <1>4, <1>5 DEF Shelf
<1>7. /\ \A p \in Projects \ {route} : store'[p] = store[p]
      /\ store'[route] \in {store[route], d}
  BY <1>1, <1>3, <1>4 DEF Shelf
<1>8. ProjectKept'
  <2> SUFFICES ASSUME NEW p \in Projects
               PROVE  {store'[p], disk'[p]} \subseteq {e \in Docs \cup {NoDoc} : e.of \in {p, NoProject}}
    BY DEF ProjectKept
  <2>1. {store[p], disk[p]} \subseteq {e \in Docs \cup {NoDoc} : e.of \in {p, NoProject}}
    BY DEF DocumentsInv, DocumentsSafe, ProjectKept
  <2> QED
    BY <2>1, <1>5, <1>7
<1>9. ScreenSaved' /\ DiskFollows'
  BY <1>1, <1>3, <1>4, <1>5
     DEF DocumentsInv, DocumentsSafe, ScreenSaved, DiskFollows, Open, Shelf
<1> QED
  BY <1>1, <1>2, <1>5, <1>6, <1>7, <1>8, <1>9 DEF DocumentsSafe

(* A change, whatever it does to the files.                                 *)
LEMMA Changing ==
    ASSUME DocumentsInv, NEW keys \in SUBSET Keys, Change(keys), FileTypes'
    PROVE  DocumentsInv'
<1> DEFINE d == [of |-> screen.of, rev |-> revs + 1, keys |-> keys]
<1>1. /\ d \in Docs /\ d.of = route /\ screen' = d /\ revs' \in 0..MaxRev
      /\ route # NoProject /\ loaded
  BY NewDoc DEF Change, Open
<1> HIDE DEF d
<1>2. AutoSave(d) /\ UNCHANGED <<route, loaded, restores, paused, past, last, future, applied>>
  BY <1>1 DEF Change
<1>3. restores' \in SUBSET Docs
  BY <1>2 DEF DocumentsInv, TypeOK
<1>4. /\ store' \in Shelf /\ disk' \in Shelf /\ saveDue' \in BOOLEAN /\ skipped' \in BOOLEAN
      /\ store'[route] # NoDoc /\ DocumentsSafe'
  BY <1>1, <1>2, <1>3, Saving, Zenon
<1>5. timer' = (~ paused /\ applied = NoDoc)
  BY DEF Change, HistoryEffect
<1>6. PageTypes'
  BY <1>1, <1>2, <1>4, <1>5 DEF DocumentsInv, TypeOK, PageTypes
<1>7. UndoTypes'
  BY <1>2 DEF DocumentsInv, TypeOK, UndoTypes
<1>8. Mounted'
  BY <1>1, <1>2, <1>4, <1>5 DEF DocumentsInv, Mounted
<1>9. Owned'
  BY <1>1, <1>2 DEF DocumentsInv, Owned
<1> QED
  BY <1>4, <1>6, <1>7, <1>8, <1>9, TypePartsNext DEF DocumentsInv

(* What is kept of a history is its end.                                    *)
LEMMA NewestPart ==
    ASSUME NEW D, NEW seq \in Seq(D), NEW n \in Nat
    PROVE  /\ Newest(seq, n) \in Seq(D) /\ Len(Newest(seq, n)) <= n
           /\ \E c \in Nat : /\ Len(Newest(seq, n)) + c = Len(seq)
                             /\ \A i \in 1..Len(Newest(seq, n)) : Newest(seq, n)[i] = seq[i + c]
<1>1. CASE Len(seq) <= n
  <2>1. Newest(seq, n) = seq /\ Len(seq) \in Nat
    BY <1>1 DEF Newest
  <2>2. \A i \in 1..Len(seq) : seq[i] = seq[i + 0]
    OBVIOUS
  <2> QED
    BY <1>1, <2>1, <2>2
<1>2. CASE ~ (Len(seq) <= n)
  <2> DEFINE m == Len(seq) - n + 1
             cut == SubSeq(seq, m, Len(seq))
  <2>1. Newest(seq, n) = cut
    BY <1>2 DEF Newest
  <2>2. m \in Int /\ Len(seq) \in Nat /\ m \in 2..(Len(seq) + 1) /\ Len(seq) - n \in Nat
    BY <1>2
  <2>3. \A i \in m..Len(seq) : seq[i] \in D
    BY <2>2, ElementOfSeq
  <2>4. /\ cut \in Seq(D)
        /\ Len(cut) = IF m <= Len(seq) THEN Len(seq) - m + 1 ELSE 0
        /\ \A i \in 1..(Len(seq) - m + 1) : cut[i] = seq[m + i - 1]
    <3> HIDE DEF m
    <3> QED
      BY <2>2, <2>3, SubSeqProperties
  <2>5. Len(cut) = n
    BY <2>2, <2>4
  <2>6. \A i \in 1..Len(cut) : cut[i] = seq[i + (Len(seq) - n)]
    BY <2>2, <2>4, <2>5
  <2> HIDE DEF cut, m
  <2>7. n <= n /\ n + (Len(seq) - n) = Len(seq)
    BY <2>2
  <2> QED
    BY <2>1, <2>2, <2>4, <2>5, <2>6, <2>7
<1> QED
  BY <1>1, <1>2

(* A sequence without its last entry.                                       *)
LEMMA FrontPart ==
    ASSUME NEW D, NEW seq \in Seq(D), seq # <<>>
    PROVE  /\ Front(seq) \in Seq(D) /\ Len(seq) \in Nat \ {0}
           /\ Len(Front(seq)) = Len(seq) - 1
           /\ \A i \in 1..Len(Front(seq)) : Front(seq)[i] = seq[i]
           /\ seq[Len(seq)] \in D
<1>1. Len(seq) \in Nat \ {0}
  BY EmptySeq
<1> DEFINE n == Len(seq) - 1
<1>2. n \in Int /\ 1 \in Int /\ \A i \in 1..n : seq[i] \in D
  BY <1>1, ElementOfSeq
<1>3. /\ SubSeq(seq, 1, n) \in Seq(D)
      /\ Len(SubSeq(seq, 1, n)) = n
      /\ \A i \in 1..n : SubSeq(seq, 1, n)[i] = seq[i]
  <2>1. n \in Nat
    BY <1>1
  <2> HIDE DEF n
  <2>2. /\ SubSeq(seq, 1, n) \in Seq(D)
        /\ Len(SubSeq(seq, 1, n)) = IF 1 <= n THEN n - 1 + 1 ELSE 0
        /\ \A i \in 1..(n - 1 + 1) : SubSeq(seq, 1, n)[i] = seq[1 + i - 1]
    BY <1>2, SubSeqProperties
  <2> QED
    BY <2>1, <2>2
<1> QED
  BY <1>1, <1>3, ElementOfSeq DEF Front

(* A page that has unmounted holds nothing.                                 *)
LEMMA Unmounting ==
    ASSUME DocumentsInv, Unmount, UNCHANGED revs, FileTypes',
           store' \in Shelf, disk' \in Shelf, saveDue' \in BOOLEAN, skipped' \in BOOLEAN,
           ProjectKept', DiskFollows'
    PROVE  DocumentsInv'
<1>1. PageTypes'
  BY DEF PageTypes, Unmount, DocumentsInv, TypeOK
<1>2. UndoTypes'
  BY BoundsAssumption, EmptySeq DEF UndoTypes, Unmount
<1>3. Mounted' /\ Owned'
  BY DEF Mounted, Owned, Unmount
<1>4. ScreenSaved'
  BY DEF ScreenSaved, Open, Unmount
<1> QED
  BY <1>1, <1>2, <1>3, <1>4, TypePartsNext DEF DocumentsInv, DocumentsSafe

(* Steps that leave the page and the stores alone.                          *)
LEMMA FilesOnly ==
    ASSUME DocumentsInv, UNCHANGED <<pageVars, undoVars, saveVars, revs, skipped>>, FileTypes'
    PROVE  DocumentsInv'
<1>1. PageTypes' /\ UndoTypes'
  BY TypeParts DEF DocumentsInv, PageTypes, UndoTypes, pageVars, undoVars, saveVars
<1>2. Mounted' /\ Owned'
  BY DEF DocumentsInv, Mounted, Owned, pageVars, undoVars, saveVars
<1>3. DocumentsSafe'
  BY DEF DocumentsInv, DocumentsSafe, ProjectKept, ScreenSaved, DiskFollows, Open, pageVars, undoVars, saveVars
<1> QED
  BY <1>1, <1>2, <1>3, TypePartsNext DEF DocumentsInv

(* The files of a step that leaves them alone.                              *)
LEMMA FilesKept ==
    ASSUME TypeOK, UNCHANGED fileVars
    PROVE  FileTypes'
BY DEF TypeOK, FileTypes, fileVars

(* OpenCanvas keeps the documents safe.                                     *)
LEMMA OpenCanvasStep ==
    ASSUME DocumentsInv, NEW p \in Projects, OpenCanvas(p)
    PROVE  DocumentsInv'
<1>1. store[p] \in Docs /\ store[p].of = p /\ store[p] # NoDoc
  BY StoredDoc DEF OpenCanvas
<1>2. ~ loaded /\ screen = NoDoc /\ last = NoDoc
  BY DEF OpenCanvas, DocumentsInv, Mounted
<1>3. PageTypes'
  BY <1>1 DEF OpenCanvas, DocumentsInv, TypeOK, PageTypes, pageVars, undoVars, saveVars
<1>4. UndoTypes'
  BY DEF OpenCanvas, DocumentsInv, TypeOK, UndoTypes, undoVars
<1>5. Mounted'
  <2>1. /\ route' = p /\ restores' = {store[p]} /\ UNCHANGED <<loaded, screen, paused, past, last>>
        /\ UNCHANGED <<future, timer, applied, store>>
    BY DEF OpenCanvas, undoVars, saveVars
  <2>2. p # NoProject
    BY ProjectsAssumption
  <2>3. \A d, e \in restores' : d = e
    BY <2>1
  <2> QED
    BY <1>1, <1>2, <2>1, <2>2, <2>3 DEF DocumentsInv, Mounted
<1>6. Owned'
  BY <1>1, <1>2 DEF OpenCanvas, DocumentsInv, Mounted, Owned, undoVars
<1>7. DocumentsSafe'
  BY <1>2 DEF OpenCanvas, DocumentsInv, DocumentsSafe, ProjectKept, ScreenSaved, DiskFollows, Open, saveVars
<1> QED
  BY <1>3, <1>4, <1>5, <1>6, <1>7, FilesKept, TypePartsNext DEF DocumentsInv, OpenCanvas

(* LeaveCanvas keeps the documents safe.                                    *)
LEMMA LeaveCanvasStep ==
    ASSUME DocumentsInv, LeaveCanvas
    PROVE  DocumentsInv'
<1>1. /\ store' \in Shelf /\ disk' \in Shelf /\ saveDue' \in BOOLEAN /\ skipped' \in BOOLEAN
      /\ ProjectKept' /\ DiskFollows'
  BY DEF LeaveCanvas, saveVars, DocumentsInv, TypeOK, DocumentsSafe, ProjectKept, DiskFollows
<1>2. FileTypes'
  BY FilesKept DEF LeaveCanvas, DocumentsInv
<1> QED
  BY <1>1, <1>2, Unmounting DEF LeaveCanvas

(* RestoreDone keeps the documents safe.                                    *)
LEMMA RestoreDoneStep ==
    ASSUME DocumentsInv, NEW d \in restores, RestoreDone(d)
    PROVE  DocumentsInv'
<1>1. d \in Docs /\ d.of = route /\ route # NoProject /\ ~ loaded /\ ~ paused /\ applied = NoDoc
  BY DEF DocumentsInv, TypeOK, Mounted, Owned
<1>2. restores' = {} /\ route' = route
  BY DEF RestoreDone, DocumentsInv, Mounted
<1>3. /\ store' \in Shelf /\ disk' \in Shelf /\ saveDue' \in BOOLEAN /\ skipped' \in BOOLEAN
      /\ store'[route] # NoDoc /\ DocumentsSafe'
  <2>1. AutoSave(d) /\ screen' = d /\ UNCHANGED paused /\ restores' \in SUBSET Docs
    BY <1>2 DEF RestoreDone
  <2> QED
    BY <1>1, <1>2, <2>1, Saving, Zenon
<1>4. PageTypes'
  BY <1>1, <1>2, <1>3 DEF RestoreDone, DocumentsInv, TypeOK, PageTypes
<1>5. UndoTypes'
  BY <1>1, BoundsAssumption, EmptySeq DEF RestoreDone, DocumentsInv, TypeOK, UndoTypes
<1>6. Mounted' /\ Owned'
  BY <1>1, <1>2, <1>3 DEF RestoreDone, Mounted, Owned
<1> QED
  BY <1>3, <1>4, <1>5, <1>6, FilesKept, TypePartsNext DEF DocumentsInv, RestoreDone

(* Edit keeps the documents safe.                                           *)
LEMMA EditStep ==
    ASSUME DocumentsInv, Edit
    PROVE  DocumentsInv'
<1>1. Open /\ screen.keys \in SUBSET Keys
  BY DEF Edit, Change, Open, DocumentsInv, Mounted, Docs
<1>2. FileTypes'
  BY FilesKept DEF Edit, DocumentsInv
<1> QED
  BY <1>1, <1>2, Changing DEF Edit

(* Upload keeps the documents safe.                                         *)
LEMMA UploadStep ==
    ASSUME DocumentsInv, NEW k \in Keys, Upload(k)
    PROVE  DocumentsInv'
<1>1. FileTypes'
  BY DEF Upload, DocumentsInv, TypeOK, FileTypes
<1> QED
  BY <1>1, FilesOnly DEF Upload

(* PlaceImage keeps the documents safe.                                     *)
LEMMA PlaceImageStep ==
    ASSUME DocumentsInv, NEW k \in Keys, PlaceImage(k)
    PROVE  DocumentsInv'
<1>1. screen.keys \cup {k} \in SUBSET Keys
  BY DEF PlaceImage, Change, Open, DocumentsInv, Mounted, Docs
<1>2. FileTypes'
  BY DEF PlaceImage, DocumentsInv, TypeOK, FileTypes
<1> QED
  BY <1>1, <1>2, Changing DEF PlaceImage

(* DeleteImages keeps the documents safe.                                   *)
LEMMA DeleteImagesStep ==
    ASSUME DocumentsInv, NEW gone \in SUBSET Keys, DeleteImages(gone)
    PROVE  DocumentsInv'
<1>1. screen.keys \ gone \in SUBSET Keys
  BY DEF DeleteImages, Change, Open, DocumentsInv, Mounted, Docs
<1>2. screen' \in Docs
  BY <1>1, NewDoc DEF DeleteImages, Change
<1>3. Reach({screen'} \cup History) \in SUBSET Keys
  BY <1>2, HistoryDocs, ReachKeys DEF DocumentsInv
<1>4. sweeps' \subseteq Sweeps
  BY <1>3, SweepTyped DEF DeleteImages, DocumentsInv
<1>5. FileTypes'
  BY <1>4 DEF DeleteImages, DocumentsInv, TypeOK, FileTypes
<1> QED
  BY <1>1, <1>5, Changing DEF DeleteImages

(* BeginDrag keeps the documents safe.                                      *)
LEMMA BeginDragStep ==
    ASSUME DocumentsInv, BeginDrag
    PROVE  DocumentsInv'
<1>1. PageTypes'
  <2>1. /\ paused' = TRUE /\ UNCHANGED <<timer, saveDue, skipped>>
        /\ UNCHANGED <<route, loaded, screen, restores, store, disk, revs>>
    BY DEF BeginDrag, undoVars, saveVars
  <2>2. {paused', timer', saveDue', skipped'} \subseteq BOOLEAN
    BY <2>1 DEF DocumentsInv, TypeOK
  <2> QED
    BY <2>1, <2>2 DEF DocumentsInv, TypeOK, PageTypes
<1>2. UndoTypes'
  BY DEF BeginDrag, DocumentsInv, TypeOK, UndoTypes, undoVars
<1>3. Mounted' /\ Owned'
  BY DEF BeginDrag, DocumentsInv, Mounted, Owned, Open, undoVars, saveVars
<1>4. DocumentsSafe'
  BY DEF BeginDrag, DocumentsInv, DocumentsSafe, ProjectKept, ScreenSaved, DiskFollows, saveVars
<1> QED
  BY <1>1, <1>2, <1>3, <1>4, FilesKept, TypePartsNext DEF DocumentsInv, BeginDrag

(* EndDrag keeps the documents safe.                                        *)
LEMMA EndDragStep ==
    ASSUME DocumentsInv, EndDrag
    PROVE  DocumentsInv'
<1> DEFINE d == [screen EXCEPT !.rev = revs + 1]
<1>1. UndoTypes' /\ FileTypes'
  BY FilesKept DEF EndDrag, DocumentsInv, TypeOK, UndoTypes
<1>2. route # NoProject /\ loaded /\ paused /\ ~ paused' /\ UNCHANGED <<route, loaded, restores, past, last, future, applied, disk>>
  BY DEF EndDrag, Open
<1>3. CASE revs < MaxRev /\ revs' = revs + 1 /\ screen' = d
             /\ store' = Put(route, screen') /\ saveDue' = TRUE /\ timer' = (applied = NoDoc)
             /\ skipped' = FALSE
  <2>1. d \in Docs /\ d.of = route /\ revs' \in 0..MaxRev
    BY <1>3, NewDoc DEF EndDrag, Open, DocumentsInv, Mounted, Docs
  <2> HIDE DEF d
  <2>2. restores' \in SUBSET Docs /\ store' = Put(route, d) /\ disk' = disk
    BY <1>2, <1>3 DEF DocumentsInv, TypeOK
  <2>3. /\ store' \in Shelf /\ disk' \in Shelf /\ saveDue' \in BOOLEAN /\ skipped' \in BOOLEAN
        /\ store'[route] # NoDoc /\ DocumentsSafe'
    BY <1>2, <1>3, <2>1, <2>2, Saving, Zenon
  <2>4. PageTypes'
    <3>1. paused' = FALSE /\ timer' \in BOOLEAN
      BY <1>3 DEF EndDrag
    <3>2. {paused', timer', saveDue', skipped'} \subseteq BOOLEAN
      BY <2>3, <3>1
    <3> QED
      BY <1>2, <1>3, <2>1, <2>2, <2>3, <3>2 DEF DocumentsInv, TypeOK, PageTypes
  <2>5. Mounted' /\ Owned'
    BY <1>2, <1>3, <2>1, <2>3 DEF DocumentsInv, Mounted, Owned
  <2> QED
    BY <1>1, <2>3, <2>4, <2>5, TypePartsNext DEF DocumentsInv
<1>4. CASE skipped' = (store[route] # screen) /\ UNCHANGED <<screen, revs, store, saveDue, timer>>
  <2>1. PageTypes'
    <3>1. paused' = FALSE /\ skipped' \in BOOLEAN
      BY <1>4 DEF EndDrag
    <3>2. {paused', timer', saveDue', skipped'} \subseteq BOOLEAN
      BY <1>4, <3>1 DEF DocumentsInv, TypeOK
    <3> QED
      BY <1>2, <1>4, <3>2 DEF DocumentsInv, TypeOK, PageTypes
  <2>2. Mounted' /\ Owned'
    BY <1>2, <1>4 DEF DocumentsInv, Mounted, Owned
  <2>3. DocumentsSafe'
    BY <1>2, <1>4 DEF DocumentsInv, DocumentsSafe, ProjectKept, ScreenSaved, DiskFollows
  <2> QED
    BY <1>1, <2>1, <2>2, <2>3, TypePartsNext DEF DocumentsInv
<1> QED
  BY <1>3, <1>4 DEF EndDrag

(* CommitHistory keeps the documents safe.                                  *)
LEMMA CommitHistoryStep ==
    ASSUME DocumentsInv, CommitHistory
    PROVE  DocumentsInv'
<1>1. loaded /\ screen \in Docs /\ last \in Docs /\ screen.of = route /\ last.of = route
  BY NoDocIsNone DEF CommitHistory, DocumentsInv, Mounted, Owned
<1>2. past \in Seq(Docs) /\ Depth - 1 \in Nat /\ Depth \in Nat
  BY BoundsAssumption DEF DocumentsInv, TypeOK
<1> DEFINE kept == Newest(past, Depth - 1)
<1>3. kept \in Seq(Docs) /\ Len(kept) <= Depth - 1
  BY <1>2, NewestPart
<1>4. \A i \in 1..Len(kept) : kept[i].of = route
  <2>1. PICK c \in Nat : /\ Len(kept) + c = Len(past)
                         /\ \A i \in 1..Len(kept) : kept[i] = past[i + c]
    BY <1>2, NewestPart
  <2>2. Len(past) \in Nat /\ Len(kept) \in Nat /\ DOMAIN past = 1..Len(past)
    BY <1>2, <1>3
  <2>3. \A i \in 1..Len(kept) : i + c \in DOMAIN past
    BY <2>1, <2>2
  <2> QED
    BY <2>1, <2>3 DEF DocumentsInv, Owned
<1>5. past' = Append(kept, last) /\ future' = <<>> /\ last' = screen /\ timer' = FALSE
  BY DEF CommitHistory
<1> HIDE DEF kept
<1>6. /\ past' \in Seq(Docs) /\ Len(past') = Len(kept) + 1
      /\ \A i \in DOMAIN past' : past'[i].of = route
  BY <1>1, <1>3, <1>4, <1>5
<1>7. UndoTypes'
  BY <1>1, <1>2, <1>3, <1>5, <1>6, EmptySeq DEF CommitHistory, DocumentsInv, TypeOK, UndoTypes
<1>8. PageTypes'
  BY <1>5 DEF CommitHistory, DocumentsInv, TypeOK, PageTypes, pageVars, saveVars
<1>9. Mounted'
  BY <1>1, <1>5 DEF CommitHistory, DocumentsInv, Mounted, pageVars, saveVars
<1>10. Owned'
  BY <1>1, <1>5, <1>6 DEF CommitHistory, DocumentsInv, Owned, pageVars
<1>11. DocumentsSafe'
  BY DEF CommitHistory, DocumentsInv, DocumentsSafe, ProjectKept, ScreenSaved, DiskFollows, Open, pageVars, saveVars
<1> QED
  BY <1>7, <1>8, <1>9, <1>10, <1>11, FilesKept, TypePartsNext DEF DocumentsInv, CommitHistory

(* An entry is applied: it is a document of the project shown.              *)
LEMMA Applying ==
    ASSUME DocumentsInv, Open, NEW d \in Docs, d.of = route, ApplyHistory(d),
           past' \in Seq(Docs), future' \in Seq(Docs), Len(past') + Len(future') <= Depth,
           \A i \in DOMAIN past' : past'[i].of = route,
           \A i \in DOMAIN future' : future'[i].of = route
    PROVE  DocumentsInv'
<1>1. d # NoDoc /\ route # NoProject /\ loaded
  BY NoDocIsNone DEF Open
<1>2. /\ screen' = d /\ applied' = d /\ timer' = FALSE /\ AutoSave(d)
      /\ UNCHANGED <<route, loaded, restores, paused, last, revs>> /\ applied = NoDoc
  BY DEF ApplyHistory
<1>3. restores' \in SUBSET Docs
  BY <1>2 DEF DocumentsInv, TypeOK
<1>4. /\ store' \in Shelf /\ disk' \in Shelf /\ saveDue' \in BOOLEAN /\ skipped' \in BOOLEAN
      /\ store'[route] # NoDoc /\ DocumentsSafe'
  BY <1>1, <1>2, <1>3, Saving, Zenon
<1>5. PageTypes'
  BY <1>2, <1>4 DEF DocumentsInv, TypeOK, PageTypes
<1>6. UndoTypes'
  BY <1>2 DEF DocumentsInv, TypeOK, UndoTypes
<1>7. Mounted' /\ Owned'
  BY <1>1, <1>2, <1>4 DEF DocumentsInv, Mounted, Owned
<1> QED
  BY <1>4, <1>5, <1>6, <1>7, FilesKept, TypePartsNext DEF DocumentsInv, ApplyHistory

(* The last entry of one side goes, the current one is put on the other.    *)
LEMMA Sides ==
    ASSUME NEW D, NEW a \in Seq(D), NEW b \in Seq(D), NEW e \in D, a # <<>>
    PROVE  /\ Front(a) \in Seq(D) /\ Append(b, e) \in Seq(D) /\ a[Len(a)] \in D
           /\ Len(a) \in Nat \ {0} /\ Len(b) \in Nat /\ Len(a) \in DOMAIN a
           /\ Len(Front(a)) + Len(Append(b, e)) = Len(a) + Len(b)
           /\ DOMAIN Front(a) = 1..(Len(a) - 1) /\ \A i \in 1..(Len(a) - 1) : Front(a)[i] = a[i] /\ i \in DOMAIN a
           /\ DOMAIN Append(b, e) = 1..(Len(b) + 1)
           /\ Append(b, e)[Len(b) + 1] = e
           /\ \A i \in 1..Len(b) : Append(b, e)[i] = b[i] /\ i \in DOMAIN b
<1>1. /\ Front(a) \in Seq(D) /\ Len(a) \in Nat \ {0} /\ Len(Front(a)) = Len(a) - 1
      /\ \A i \in 1..Len(Front(a)) : Front(a)[i] = a[i]
      /\ a[Len(a)] \in D
  BY FrontPart
<1>2. /\ Append(b, e) \in Seq(D) /\ Len(b) \in Nat /\ Len(Append(b, e)) = Len(b) + 1
      /\ Append(b, e)[Len(b) + 1] = e
      /\ \A i \in 1..Len(b) : Append(b, e)[i] = b[i] /\ i \in DOMAIN b
  OBVIOUS
<1>3. DOMAIN Front(a) = 1..Len(Front(a)) /\ DOMAIN a = 1..Len(a)
  BY <1>1
<1>4. DOMAIN Append(b, e) = 1..(Len(b) + 1)
  BY <1>2
<1> QED
  BY <1>1, <1>2, <1>3, <1>4

(* Undo keeps the documents safe.                                           *)
LEMMA UndoStep ==
    ASSUME DocumentsInv, Undo
    PROVE  DocumentsInv'
<1>1. last \in Docs /\ last.of = route /\ past # <<>> /\ past \in Seq(Docs) /\ future \in Seq(Docs)
  BY NoDocIsNone DEF Undo, Open, DocumentsInv, TypeOK, Mounted, Owned
<1>2. past' = Front(past) /\ future' = Append(future, last) /\ ApplyHistory(past[Len(past)])
  BY DEF Undo
<1>3. Len(past) + Len(future) <= Depth
  BY DEF DocumentsInv, TypeOK
<1>4. /\ \A i \in DOMAIN past : past[i].of = route
      /\ \A i \in DOMAIN future : future[i].of = route
  BY DEF DocumentsInv, Owned
<1>5. /\ past' \in Seq(Docs) /\ future' \in Seq(Docs) /\ Len(past') + Len(future') <= Depth
      /\ past[Len(past)] \in Docs /\ past[Len(past)].of = route
  <2>1. /\ Len(Front(past)) + Len(Append(future, last)) = Len(past) + Len(future)
        /\ Front(past) \in Seq(Docs) /\ Append(future, last) \in Seq(Docs)
        /\ past[Len(past)] \in Docs /\ Len(past) \in DOMAIN past
    BY <1>1, Sides
  <2> QED
    BY <1>2, <1>3, <1>4, <2>1
<1>6. \A i \in DOMAIN past' : past'[i].of = route
  <2>1. /\ DOMAIN Front(past) = 1..(Len(past) - 1)
        /\ \A i \in 1..(Len(past) - 1) : Front(past)[i] = past[i] /\ i \in DOMAIN past
    BY <1>1, Sides
  <2> QED
    BY <1>2, <1>4, <2>1
<1>7. \A i \in DOMAIN future' : future'[i].of = route
  <2>1. \A i \in 1..(Len(future) + 1) : i \in 1..Len(future) \/ i = Len(future) + 1
    BY <1>1
  <2>2. /\ DOMAIN Append(future, last) = 1..(Len(future) + 1)
        /\ Append(future, last)[Len(future) + 1] = last
        /\ \A i \in 1..Len(future) : Append(future, last)[i] = future[i] /\ i \in DOMAIN future
    BY <1>1, Sides
  <2>3. future' = Append(future, last)
    BY <1>2
  <2> QED
    BY <1>1, <1>4, <2>1, <2>2, <2>3
<1> QED
  BY <1>2, <1>5, <1>6, <1>7, Applying DEF Undo

(* Redo keeps the documents safe.                                           *)
LEMMA RedoStep ==
    ASSUME DocumentsInv, Redo
    PROVE  DocumentsInv'
<1>1. last \in Docs /\ last.of = route /\ future # <<>> /\ past \in Seq(Docs) /\ future \in Seq(Docs)
  BY NoDocIsNone DEF Redo, Open, DocumentsInv, TypeOK, Mounted, Owned
<1>2. future' = Front(future) /\ past' = Append(past, last) /\ ApplyHistory(future[Len(future)])
  BY DEF Redo
<1>3. Len(past) + Len(future) <= Depth
  BY DEF DocumentsInv, TypeOK
<1>4. /\ \A i \in DOMAIN past : past[i].of = route
      /\ \A i \in DOMAIN future : future[i].of = route
  BY DEF DocumentsInv, Owned
<1>5. /\ past' \in Seq(Docs) /\ future' \in Seq(Docs) /\ Len(past') + Len(future') <= Depth
      /\ future[Len(future)] \in Docs /\ future[Len(future)].of = route
  <2>1. /\ Len(Front(future)) + Len(Append(past, last)) = Len(future) + Len(past)
        /\ Front(future) \in Seq(Docs) /\ Append(past, last) \in Seq(Docs)
        /\ future[Len(future)] \in Docs /\ Len(future) \in DOMAIN future
    BY <1>1, Sides
  <2>2. Len(past') + Len(future') <= Depth
    <3>1. /\ Len(Front(future)) \in Nat /\ Len(Append(past, last)) \in Nat
          /\ Len(future) \in Nat /\ Len(past) \in Nat
      BY <1>1, <2>1
    <3>2. Len(Append(past, last)) + Len(Front(future)) = Len(past) + Len(future)
      BY <2>1, <3>1
    <3> QED
      BY <1>2, <1>3, <3>2
  <2> QED
    BY <1>2, <1>4, <2>1, <2>2
<1>6. \A i \in DOMAIN future' : future'[i].of = route
  <2>1. /\ DOMAIN Front(future) = 1..(Len(future) - 1)
        /\ \A i \in 1..(Len(future) - 1) : Front(future)[i] = future[i] /\ i \in DOMAIN future
    BY <1>1, Sides
  <2> QED
    BY <1>2, <1>4, <2>1
<1>7. \A i \in DOMAIN past' : past'[i].of = route
  <2>1. \A i \in 1..(Len(past) + 1) : i \in 1..Len(past) \/ i = Len(past) + 1
    BY <1>1
  <2>2. /\ DOMAIN Append(past, last) = 1..(Len(past) + 1)
        /\ Append(past, last)[Len(past) + 1] = last
        /\ \A i \in 1..Len(past) : Append(past, last)[i] = past[i] /\ i \in DOMAIN past
    BY <1>1, Sides
  <2>3. past' = Append(past, last)
    BY <1>2
  <2> QED
    BY <1>1, <1>4, <2>1, <2>2, <2>3
<1> QED
  BY <1>2, <1>5, <1>6, <1>7, Applying DEF Redo

(* HistoryApplied keeps the documents safe.                                 *)
LEMMA HistoryAppliedStep ==
    ASSUME DocumentsInv, HistoryApplied
    PROVE  DocumentsInv'
<1>1. loaded /\ applied \in Docs /\ applied.of = route
  BY DEF HistoryApplied, DocumentsInv, Mounted, Owned, TypeOK
<1>2. PageTypes' /\ UndoTypes'
  BY <1>1 DEF HistoryApplied, DocumentsInv, TypeOK, PageTypes, UndoTypes, pageVars, saveVars
<1>3. Mounted' /\ Owned'
  BY <1>1 DEF HistoryApplied, DocumentsInv, Mounted, Owned, pageVars, saveVars
<1>4. DocumentsSafe'
  BY DEF HistoryApplied, DocumentsInv, DocumentsSafe, ProjectKept, ScreenSaved, DiskFollows, Open, pageVars, saveVars
<1> QED
  BY <1>2, <1>3, <1>4, FilesKept, TypePartsNext DEF DocumentsInv, HistoryApplied

(* CreateProject keeps the documents safe.                                  *)
LEMMA CreateProjectStep ==
    ASSUME DocumentsInv, route = NoProject, NEW p \in Projects, NEW keys \in SUBSET Keys,
           CreateProject(p, keys)
    PROVE  DocumentsInv'
<1> DEFINE d == [of |-> p, rev |-> 0, keys |-> keys]
<1>1. d \in Docs /\ d.of = p
  BY BoundsAssumption DEF Docs
<1>2. store' = [store EXCEPT ![p] = d] /\ disk' = disk /\ saveDue' = TRUE
  BY DEF CreateProject
<1> HIDE DEF d
<1>3. store' \in Shelf /\ disk' \in Shelf
  BY <1>1, <1>2 DEF DocumentsInv, TypeOK, Shelf
<1>4. ~ loaded
  BY DEF DocumentsInv, Mounted
<1>5. PageTypes'
  <2>1. UNCHANGED <<route, loaded, screen, restores, paused, timer, revs, skipped>>
    BY DEF CreateProject, pageVars, undoVars
  <2> QED
    BY <1>2, <1>3, <2>1 DEF DocumentsInv, TypeOK, PageTypes
<1>6. UndoTypes' /\ FileTypes'
  BY DEF CreateProject, DocumentsInv, TypeOK, UndoTypes, FileTypes, undoVars
<1>7. Mounted' /\ Owned'
  BY <1>4 DEF CreateProject, DocumentsInv, Mounted, Owned, pageVars, undoVars
<1>8. ProjectKept'
  BY <1>1, <1>2 DEF DocumentsInv, TypeOK, Shelf, DocumentsSafe, ProjectKept
<1>9. ScreenSaved' /\ DiskFollows'
  BY <1>2, <1>4 DEF CreateProject, ScreenSaved, DiskFollows, Open, pageVars
<1> QED
  BY <1>5, <1>6, <1>7, <1>8, <1>9, TypePartsNext DEF DocumentsInv, DocumentsSafe

(* DeleteProject keeps the documents safe.                                  *)
LEMMA DeleteProjectStep ==
    ASSUME DocumentsInv, NEW p \in Projects, DeleteProject(p)
    PROVE  DocumentsInv'
<1>1. store' = [store EXCEPT ![p] = NoDoc] /\ disk' = disk /\ saveDue' = TRUE /\ skipped' = FALSE
  BY DEF DeleteProject
<1>2. store' \in Shelf /\ disk' \in Shelf
  BY <1>1 DEF DocumentsInv, TypeOK, Shelf
<1>3. ProjectKept' /\ DiskFollows'
  BY <1>1 DEF DocumentsInv, TypeOK, Shelf, DocumentsSafe, ProjectKept, DiskFollows, NoDoc
<1>4. sweeps' \subseteq Sweeps
  BY SweepTyped DEF DeleteProject, DocumentsInv
<1>5. FileTypes'
  BY <1>4 DEF DeleteProject, DocumentsInv, TypeOK, FileTypes
<1> QED
  BY <1>1, <1>2, <1>3, <1>5, Unmounting DEF DeleteProject

(* SaveAsset keeps the documents safe.                                      *)
LEMMA SaveAssetStep ==
    ASSUME DocumentsInv, NEW k \in Keys, SaveAsset(k)
    PROVE  DocumentsInv'
<1>1. FileTypes'
  BY DEF SaveAsset, DocumentsInv, TypeOK, FileTypes
<1> QED
  BY <1>1, FilesOnly DEF SaveAsset

(* RemoveAsset keeps the documents safe.                                    *)
LEMMA RemoveAssetStep ==
    ASSUME DocumentsInv, NEW k \in Keys, RemoveAsset(k)
    PROVE  DocumentsInv'
<1>1. assets' \in SUBSET Keys
  BY DEF RemoveAsset, DocumentsInv, TypeOK
<1>2. sweeps' \subseteq Sweeps
  BY <1>1, SweepTyped DEF RemoveAsset, DocumentsInv
<1>3. FileTypes'
  BY <1>1, <1>2 DEF RemoveAsset, DocumentsInv, TypeOK, FileTypes
<1> QED
  BY <1>3, FilesOnly DEF RemoveAsset

(* SweepReads keeps the documents safe.                                     *)
LEMMA SweepReadsStep ==
    ASSUME DocumentsInv, NEW s \in sweeps, SweepReads(s)
    PROVE  DocumentsInv'
<1>1. Reach(Stored) \in SUBSET Keys /\ assets \in SUBSET Keys /\ s \in Sweeps
  BY HistoryDocs, ReachKeys DEF DocumentsInv, TypeOK
<1>2. [phase |-> "read", roots |-> s.roots \cup Reach(Stored) \cup assets,
       used |-> s.used \cup Reach(Stored) \cup assets] \in Sweeps
  BY <1>1 DEF Sweeps
<1>3. FileTypes'
  BY <1>2 DEF SweepReads, DocumentsInv, TypeOK, FileTypes
<1> QED
  BY <1>3, FilesOnly DEF SweepReads

(* SweepDeletes keeps the documents safe.                                   *)
LEMMA SweepDeletesStep ==
    ASSUME DocumentsInv, NEW s \in sweeps, SweepDeletes(s)
    PROVE  DocumentsInv'
<1>1. FileTypes'
  BY DEF SweepDeletes, DocumentsInv, TypeOK, FileTypes
<1> QED
  BY <1>1, FilesOnly DEF SweepDeletes

(* SaveFires keeps the documents safe.                                      *)
LEMMA SaveFiresStep ==
    ASSUME DocumentsInv, SaveFires
    PROVE  DocumentsInv'
<1>1. PageTypes' /\ UndoTypes'
  BY DEF SaveFires, DocumentsInv, TypeOK, PageTypes, UndoTypes, pageVars, undoVars
<1>2. Mounted' /\ Owned'
  BY DEF SaveFires, DocumentsInv, Mounted, Owned, pageVars, undoVars
<1>3. DocumentsSafe'
  BY DEF SaveFires, DocumentsInv, DocumentsSafe, ProjectKept, ScreenSaved, DiskFollows, Open, pageVars
<1> QED
  BY <1>1, <1>2, <1>3, FilesKept, TypePartsNext DEF DocumentsInv, SaveFires

(* Crash keeps the documents safe.                                          *)
LEMMA CrashStep ==
    ASSUME DocumentsInv, Crash
    PROVE  DocumentsInv'
<1>1. {disk[p] : p \in Projects} \in SUBSET (Docs \cup {NoDoc})
  BY StoredDoc
<1>2. Reach({disk[p] : p \in Projects}) \in SUBSET Keys
  BY <1>1, ReachKeys
<1>3. FileTypes'
  BY <1>2 DEF Crash, DocumentsInv, TypeOK, FileTypes
<1>4. store' \in Shelf /\ disk' \in Shelf /\ saveDue' \in BOOLEAN /\ skipped' \in BOOLEAN
  BY DEF Crash, DocumentsInv, TypeOK
<1>5. ProjectKept' /\ DiskFollows'
  BY DEF Crash, DocumentsInv, DocumentsSafe, ProjectKept, DiskFollows
<1> QED
  BY <1>3, <1>4, <1>5, Unmounting DEF Crash

(* Initially no page is open and one empty project is stored.               *)
LEMMA InitDocuments == Init => DocumentsInv
<1> SUFFICES ASSUME Init PROVE DocumentsInv
  OBVIOUS
<1>1. PICK p \in Projects : store = [q \in Projects |-> IF q = p THEN [NoDoc EXCEPT !.of = p] ELSE NoDoc]
  BY DEF Init
<1>2. [NoDoc EXCEPT !.of = p] = [of |-> p, rev |-> 0, keys |-> {}]
  BY DEF NoDoc
<1>3. [NoDoc EXCEPT !.of = p] \in Docs /\ [NoDoc EXCEPT !.of = p].of = p
  BY <1>2, BoundsAssumption DEF Docs
<1>4. store \in Shelf /\ disk \in Shelf
  BY <1>1, <1>3 DEF Init, Shelf
<1>5. PageTypes
  <2>1. paused = FALSE /\ timer = FALSE /\ saveDue = FALSE /\ skipped = FALSE
    BY DEF Init
  <2>2. {paused, timer, saveDue, skipped} \subseteq BOOLEAN
    BY <2>1
  <2>3. 0 \in 0..MaxRev
    BY BoundsAssumption
  <2> QED
    BY <1>4, <2>2, <2>3 DEF Init, PageTypes
<1>6. UndoTypes /\ FileTypes
  <2>1. past = <<>> /\ future = <<>> /\ last = NoDoc /\ applied = NoDoc /\ Depth \in Nat
    BY BoundsAssumption DEF Init
  <2>2. past \in Seq(Docs) /\ future \in Seq(Docs) /\ Len(past) + Len(future) <= Depth
    BY <2>1, EmptySeq
  <2>3. FileTypes
    BY DEF Init, FileTypes
  <2> QED
    BY <2>1, <2>2, <2>3 DEF UndoTypes
<1>7. Mounted /\ Owned
  BY DEF Init, Mounted, Owned
<1>8. ProjectKept
  <2> SUFFICES ASSUME NEW q \in Projects
               PROVE  store[q] \in {d \in Docs \cup {NoDoc} : d.of \in {q, NoProject}}
    BY DEF Init, ProjectKept
  <2>1. store[q] = IF q = p THEN [NoDoc EXCEPT !.of = p] ELSE NoDoc
    BY <1>1
  <2>2. NoDoc.of = NoProject
    BY DEF NoDoc
  <2> QED
    BY <1>3, <2>1, <2>2
<1>9. ScreenSaved /\ DiskFollows
  BY DEF Init, ScreenSaved, DiskFollows, Open
<1> QED
  BY <1>5, <1>6, <1>7, <1>8, <1>9, TypeParts DEF DocumentsInv, DocumentsSafe

(* Every step keeps the documents safe.                                     *)
LEMMA NextDocuments ==
    ASSUME DocumentsInv, [Next]_vars
    PROVE  DocumentsInv'
<1>1. CASE \E p \in Projects : OpenCanvas(p) \/ DeleteProject(p)
  BY <1>1, OpenCanvasStep, DeleteProjectStep
<1>2. CASE route = NoProject /\ \E p \in Projects, S \in SUBSET Keys : CreateProject(p, S)
  BY <1>2, CreateProjectStep
<1>3. CASE \E d \in restores : RestoreDone(d)
  BY <1>3, RestoreDoneStep
<1>4. CASE \E k \in Keys : Upload(k) \/ PlaceImage(k) \/ SaveAsset(k) \/ RemoveAsset(k)
  BY <1>4, UploadStep, PlaceImageStep, SaveAssetStep, RemoveAssetStep
<1>5. CASE \E S \in SUBSET Keys : DeleteImages(S)
  BY <1>5, DeleteImagesStep
<1>6. CASE \E s \in sweeps : SweepReads(s) \/ SweepDeletes(s)
  BY <1>6, SweepReadsStep, SweepDeletesStep
<1>7. CASE LeaveCanvas \/ Edit \/ BeginDrag \/ EndDrag
  BY <1>7, LeaveCanvasStep, EditStep, BeginDragStep, EndDragStep
<1>8. CASE CommitHistory \/ Undo \/ Redo \/ HistoryApplied
  BY <1>8, CommitHistoryStep, UndoStep, RedoStep, HistoryAppliedStep
<1>9. CASE SaveFires \/ Crash
  BY <1>9, SaveFiresStep, CrashStep
<1>10. CASE UNCHANGED vars
  <2>1. UNCHANGED <<pageVars, undoVars, saveVars, revs, skipped>> /\ UNCHANGED fileVars
    BY <1>10 DEF vars
  <2> QED
    BY <2>1, FilesKept, FilesOnly DEF DocumentsInv
<1> QED
  BY <1>1, <1>2, <1>3, <1>4, <1>5, <1>6, <1>7, <1>8, <1>9, <1>10 DEF Next


-----------------------------------------------------------------------------
(* The documents somebody still has, and those of IndexedDB.                *)
Held   == Stored \cup {screen, last, applied} \cup Entries(past) \cup Entries(future) \cup restores
OnDisk == {disk[p] : p \in Projects}

(* Why no sweep takes an image in use: an uploaded image is nowhere yet,    *)
(* the documents of two projects share none, and what a sweep should spare  *)
(* is in its roots or in no document any more.                              *)
KeysPresent ==
    /\ \A d \in Held : d.keys \subseteq blobs \cup excused
    /\ assets \cup uploads \subseteq blobs \cup excused
UploadsNew ==
    /\ \A d \in Held \cup OnDisk : d.keys \cap uploads = {}
    /\ assets \cap uploads = {}
KeysOwned ==
    \A d, e \in Held \cup OnDisk : d.of # e.of => d.keys \cap e.keys = {}
Spares(s) ==
    /\ s.used \cap uploads = {}
    /\ \A d \in Held : d.keys \cap s.used \subseteq s.roots
    /\ s.phase = "read" => assets \cap s.used \subseteq s.roots
SweepsSpare == \A s \in sweeps : Spares(s)
KeysInv == KeysPresent /\ UploadsNew /\ KeysOwned /\ SweepsSpare

(* Why the undo history is in order: revisions only grow, and the screen is *)
(* not behind the last entry when the timer is set.                         *)
RevsBounded == \A d \in Held \cup OnDisk : d.rev <= revs
Current     == IF applied = NoDoc THEN last ELSE applied
SidesInOrder ==
    /\ \A i, j \in DOMAIN past : i < j => past[i].rev <= past[j].rev
    /\ \A i \in DOMAIN past : past[i].rev <= Current.rev
    /\ \A i \in DOMAIN future : Current.rev <= future[i].rev
    /\ \A i, j \in DOMAIN future : i < j => future[j].rev <= future[i].rev
TimerAhead == timer => last.rev <= screen.rev
OrderInv == RevsBounded /\ SidesInOrder /\ TimerAhead

(* A step that adds one document, made of another of its project and of     *)
(* images just uploaded.                                                    *)
LEMMA KeysStep ==
    ASSUME KeysInv, NEW new \in SUBSET uploads, NEW n,
           n.keys \subseteq new \/ \E e \in Held : e.of = n.of /\ n.keys \subseteq e.keys \cup new,
           Held' \subseteq Held \cup {NoDoc, n}, OnDisk' \subseteq OnDisk \cup Held,
           uploads' = uploads \ new, UNCHANGED <<assets, blobs, excused>>,
           \A s \in sweeps' \ sweeps :
               /\ s.used \cap uploads = {} /\ s.phase = "due"
               /\ \A d \in Held' : d.keys \cap s.used \subseteq s.roots
    PROVE  KeysInv'
<1>1. NoDoc.keys = {}
  BY DEF NoDoc
<1>2. KeysPresent'
  BY <1>1 DEF KeysInv, KeysPresent
<1>3. UploadsNew'
  BY <1>1 DEF KeysInv, UploadsNew
<1>4. KeysOwned'
  <2>1. \A d \in Held \cup OnDisk : n.of # d.of => n.keys \cap d.keys = {}
    BY DEF KeysInv, UploadsNew, KeysOwned
  <2>2. \A d \in (Held \cup OnDisk)' : d \in Held \cup OnDisk \/ d = n \/ d.keys = {}
    BY <1>1
  <2> QED
    BY <2>1, <2>2 DEF KeysInv, KeysOwned
<1>5. SweepsSpare'
  <2> SUFFICES ASSUME NEW s \in sweeps' PROVE Spares(s)'
    BY DEF SweepsSpare
  <2>1. CASE s \in sweeps
    <3>1. Spares(s)
      BY <2>1 DEF KeysInv, SweepsSpare
    <3>2. n.keys \cap s.used \subseteq s.roots
      BY <3>1 DEF Spares
    <3> QED
      BY <1>1, <3>1, <3>2 DEF Spares
  <2>2. CASE s \notin sweeps
    BY <2>2 DEF Spares
  <2> QED
    BY <2>1, <2>2
<1> QED
  BY <1>2, <1>3, <1>4, <1>5 DEF KeysInv

(* A step that adds no document and no image.                               *)
LEMMA KeysQuiet ==
    ASSUME KeysInv, UNCHANGED fileVars,
           Held' \subseteq Held \cup {NoDoc}, OnDisk' \subseteq OnDisk \cup Held
    PROVE  KeysInv'
<1>1. NoDoc.keys \subseteq {} /\ {} \in SUBSET uploads
  BY DEF NoDoc
<1>2. uploads' = uploads \ {} /\ UNCHANGED <<assets, blobs, excused>> /\ sweeps' \ sweeps = {}
  BY DEF fileVars
<1>3. Held' \subseteq Held \cup {NoDoc, NoDoc}
  OBVIOUS
<1> QED
  BY <1>1, <1>2, <1>3, KeysStep

(* The same for the revisions.                                              *)
LEMMA RevsStep ==
    ASSUME TypeOK, RevsBounded, NEW n, revs' \in Nat, revs <= revs', n.rev <= revs',
           \A d \in Held \cup OnDisk : d.rev \in Nat, n.rev \in Nat,
           Held' \subseteq Held \cup {NoDoc, n}, OnDisk' \subseteq OnDisk \cup Held
    PROVE  RevsBounded'
<1>1. NoDoc.rev = 0 /\ revs \in Nat
  BY BoundsAssumption DEF NoDoc, TypeOK
<1> SUFFICES ASSUME NEW d \in (Held \cup OnDisk)' PROVE d.rev <= revs'
  BY DEF RevsBounded
<1>2. CASE d \in Held \cup OnDisk
  <2>1. d.rev <= revs /\ d.rev \in Nat
    BY <1>2 DEF RevsBounded
  <2> QED
    BY <1>1, <2>1
<1>3. CASE d = NoDoc
  BY <1>1, <1>3
<1>4. CASE d = n
  BY <1>4
<1> QED
  BY <1>2, <1>3, <1>4

(* What is held are documents, and the history is of the page's project.    *)
LEMMA HeldDocs ==
    ASSUME DocumentsInv
    PROVE  /\ \A d \in Held \cup OnDisk : d \in Docs \cup {NoDoc} /\ d.rev \in Nat
           /\ History \subseteq Held
           /\ \A d \in History : d = NoDoc \/ d.of = route
           /\ revs \in Nat
<1>1. Held \cup OnDisk \subseteq Docs \cup {NoDoc}
  <2>1. \A i \in DOMAIN past : past[i] \in Docs
    BY DEF DocumentsInv, TypeOK
  <2>2. \A i \in DOMAIN future : future[i] \in Docs
    BY DEF DocumentsInv, TypeOK
  <2>3. Stored \cup OnDisk \subseteq Docs \cup {NoDoc}
    BY StoredDoc DEF Stored, OnDisk
  <2> QED
    BY <2>1, <2>2, <2>3 DEF Held, Entries, DocumentsInv, TypeOK
<1>2. \A d \in Docs \cup {NoDoc} : d.rev \in Nat
  BY BoundsAssumption DEF Docs, NoDoc
<1>3. History \subseteq Held
  BY DEF History, Held
<1>4. \A d \in History : d = NoDoc \/ d.of = route
  BY DEF History, Entries, DocumentsInv, Owned
<1>5. revs \in Nat
  BY BoundsAssumption DEF DocumentsInv, TypeOK
<1> QED
  BY <1>1, <1>2, <1>3, <1>4, <1>5

(* A change adds the new document on the screen.                            *)
LEMMA ChangeHeld ==
    ASSUME DocumentsInv, NEW keys \in SUBSET Keys, Change(keys)
    PROVE  /\ Held' \subseteq Held \cup {NoDoc, screen'} /\ OnDisk' \subseteq OnDisk \cup Held
           /\ screen \in Held /\ screen'.of = screen.of /\ screen'.keys = keys
           /\ screen'.rev = revs + 1 /\ revs' = revs + 1
<1> DEFINE d == [of |-> screen.of, rev |-> revs + 1, keys |-> keys]
<1>1. d \in Docs /\ d.of = route /\ screen' = d /\ route # NoProject
  BY NewDoc DEF Change, Open
<1>2. d.of = screen.of /\ d.keys = keys /\ d.rev = revs + 1
  OBVIOUS
<1> HIDE DEF d
<1>3. AutoSave(d) /\ UNCHANGED <<route, loaded, restores, paused, past, last, future, applied>>
  BY <1>1 DEF Change
<1>4. restores' \in SUBSET Docs
  BY <1>3 DEF DocumentsInv, TypeOK
<1>5. /\ \A p \in Projects \ {route} : store'[p] = store[p]
      /\ store'[route] \in {store[route], d} /\ disk' = disk
  BY <1>1, <1>3, <1>4, Saving, Zenon
<1>6. Held' \subseteq Held \cup {NoDoc, screen'}
  BY <1>1, <1>3, <1>5 DEF Held, Stored, Entries
<1>7. OnDisk' \subseteq OnDisk \cup Held
  BY <1>5 DEF OnDisk
<1>8. screen \in Held
  BY DEF Held
<1> QED
  BY <1>1, <1>2, <1>6, <1>7, <1>8 DEF Change

(* A change keeps the history in order.                                     *)
LEMMA ChangeOrder ==
    ASSUME DocumentsInv, OrderInv, NEW keys \in SUBSET Keys, Change(keys)
    PROVE  OrderInv'
<1>1. /\ Held' \subseteq Held \cup {NoDoc, screen'} /\ OnDisk' \subseteq OnDisk \cup Held
      /\ screen'.rev = revs + 1 /\ revs' = revs + 1
  BY ChangeHeld
<1>2. revs \in Nat /\ \A d \in Held \cup OnDisk : d.rev \in Nat
  BY HeldDocs
<1>3. RevsBounded'
  BY <1>1, <1>2, RevsStep DEF DocumentsInv, OrderInv
<1>4. UNCHANGED <<past, last, future, applied>>
  BY DEF Change
<1>5. SidesInOrder'
  BY <1>4 DEF OrderInv, SidesInOrder, Current
<1>6. last \in Held /\ last.rev <= revs /\ last.rev \in Nat
  BY <1>2 DEF OrderInv, RevsBounded, Held
<1>7. TimerAhead'
  BY <1>1, <1>2, <1>4, <1>6 DEF TimerAhead
<1> QED
  BY <1>3, <1>5, <1>7 DEF OrderInv

(* A step that changes neither revisions nor the history.                   *)
LEMMA OrderQuiet ==
    ASSUME DocumentsInv, OrderInv, UNCHANGED <<revs, past, future, last, applied>>,
           timer' => timer /\ screen' = screen,
           Held' \subseteq Held \cup {NoDoc}, OnDisk' \subseteq OnDisk \cup Held
    PROVE  OrderInv'
<1>1. revs \in Nat /\ \A d \in Held \cup OnDisk : d.rev \in Nat
  BY HeldDocs
<1>2. NoDoc.rev = 0
  BY DEF NoDoc
<1>3. RevsBounded'
  BY <1>1, <1>2, RevsStep DEF DocumentsInv, OrderInv
<1>4. SidesInOrder'
  BY DEF OrderInv, SidesInOrder, Current
<1>5. TimerAhead'
  BY DEF OrderInv, TimerAhead
<1> QED
  BY <1>3, <1>4, <1>5 DEF OrderInv

(* A page without a history.                                                *)
LEMMA OrderAnew ==
    ASSUME DocumentsInv, OrderInv, UNCHANGED revs, past' = <<>>, future' = <<>>, timer' = FALSE,
           Held' \subseteq Held \cup OnDisk \cup {NoDoc}, OnDisk' \subseteq OnDisk \cup Held
    PROVE  OrderInv'
<1>1. revs \in Nat /\ NoDoc.rev = 0
  BY HeldDocs DEF NoDoc
<1>2. RevsBounded'
  BY <1>1 DEF OrderInv, RevsBounded
<1>3. SidesInOrder'
  BY DEF SidesInOrder
<1>4. TimerAhead'
  BY DEF TimerAhead
<1> QED
  BY <1>2, <1>3, <1>4 DEF OrderInv

-----------------------------------------------------------------------------
HistoryInv == KeysInv /\ OrderInv

(* Steps that keep the documents and the history.                           *)
LEMMA SameDocuments ==
    ASSUME UNCHANGED <<screen, last, applied, past, future, restores, store, disk>>
    PROVE  Held' = Held /\ OnDisk' = OnDisk
BY DEF Held, OnDisk, Stored, Entries

(* A page that has unmounted holds only what is stored.                     *)
LEMMA UnmountHeld ==
    ASSUME Unmount
    PROVE  Held' \subseteq Stored' \cup {NoDoc}
BY DEF Unmount, Held, Entries

(* OpenCanvas keeps the images and the order.                               *)
LEMMA OpenCanvasHistory ==
    ASSUME DocumentsInv, HistoryInv, NEW p \in Projects, OpenCanvas(p)
    PROVE  HistoryInv'
<1>1. Held' \subseteq Held \cup {NoDoc} /\ OnDisk' \subseteq OnDisk \cup Held
  BY DEF OpenCanvas, pageVars, undoVars, saveVars, Held, OnDisk, Stored, Entries
<1>2. UNCHANGED fileVars /\ UNCHANGED <<revs, past, future, last, applied, timer, screen>>
  BY DEF OpenCanvas, undoVars
<1> QED
  BY <1>1, <1>2, KeysQuiet, OrderQuiet DEF HistoryInv

(* LeaveCanvas keeps the images and the order.                              *)
LEMMA LeaveCanvasHistory ==
    ASSUME DocumentsInv, HistoryInv, LeaveCanvas
    PROVE  HistoryInv'
<1>1. Held' \subseteq Held \cup {NoDoc} /\ OnDisk' \subseteq OnDisk \cup Held
  BY UnmountHeld DEF LeaveCanvas, saveVars, Held, OnDisk, Stored
<1>2. UNCHANGED fileVars /\ UNCHANGED revs /\ past' = <<>> /\ future' = <<>> /\ timer' = FALSE
  BY DEF LeaveCanvas, Unmount
<1> QED
  BY <1>1, <1>2, KeysQuiet, OrderAnew DEF HistoryInv

(* RestoreDone keeps the images and the order.                              *)
LEMMA RestoreDoneHistory ==
    ASSUME DocumentsInv, HistoryInv, NEW d \in restores, RestoreDone(d)
    PROVE  HistoryInv'
<1>1. d \in Docs /\ d.of = route /\ route # NoProject
  BY DEF DocumentsInv, TypeOK, Mounted, Owned
<1>2. /\ restores' \in SUBSET restores /\ AutoSave(d) /\ screen' = d /\ last' = d
      /\ past' = <<>> /\ future' = <<>> /\ timer' = FALSE
      /\ UNCHANGED <<route, paused, applied, revs>> /\ UNCHANGED fileVars
  BY DEF RestoreDone
<1>3. /\ \A p \in Projects \ {route} : store'[p] = store[p]
      /\ store'[route] \in {store[route], d} /\ disk' = disk
  <2>1. restores' \in SUBSET Docs
    BY <1>2 DEF DocumentsInv, TypeOK
  <2> QED
    BY <1>1, <1>2, <2>1, Saving, Zenon
<1>4. d \in Held /\ Entries(past') = {} /\ Entries(future') = {} /\ applied' = applied
  BY <1>2 DEF Held, Entries
<1>5. route \in Projects
  BY <1>1, RouteStored
<1>6. Stored' \subseteq Stored \cup {d}
  BY <1>3, <1>5 DEF Stored
<1>7. Held' \subseteq Held
  BY <1>2, <1>4, <1>6 DEF Held
<1>8. OnDisk' \subseteq OnDisk
  BY <1>3 DEF OnDisk
<1> QED
  BY <1>2, <1>7, <1>8, KeysQuiet, OrderAnew DEF HistoryInv

(* Edit keeps the images and the order.                                     *)
LEMMA EditHistory ==
    ASSUME DocumentsInv, HistoryInv, Edit
    PROVE  HistoryInv'
<1>1. Change(screen.keys) /\ screen.keys \in SUBSET Keys /\ UNCHANGED fileVars
  BY DEF Edit, Change, Open, DocumentsInv, Mounted, Docs
<1>2. /\ Held' \subseteq Held \cup {NoDoc, screen'} /\ OnDisk' \subseteq OnDisk \cup Held
      /\ screen \in Held /\ screen'.of = screen.of /\ screen'.keys = screen.keys
  BY <1>1, ChangeHeld
<1>3. /\ {} \in SUBSET uploads /\ uploads' = uploads \ {} /\ UNCHANGED <<assets, blobs, excused>>
      /\ sweeps' \ sweeps = {} /\ screen'.keys \subseteq screen.keys \cup {}
  BY <1>1, <1>2 DEF fileVars
<1>4. KeysInv'
  BY <1>2, <1>3, KeysStep DEF HistoryInv
<1> QED
  BY <1>1, <1>4, ChangeOrder DEF HistoryInv

(* Upload keeps the images and the order.                                   *)
LEMMA UploadHistory ==
    ASSUME DocumentsInv, HistoryInv, NEW k \in Keys, Upload(k)
    PROVE  HistoryInv'
<1>1. Held' = Held /\ OnDisk' = OnDisk
  BY SameDocuments DEF Upload, pageVars, undoVars, saveVars
<1>2. OrderInv'
  BY <1>1, OrderQuiet DEF HistoryInv, Upload, pageVars, undoVars
<1>3. \A d \in Held \cup OnDisk : k \notin d.keys
  BY DEF Upload, Reach, OnDisk, HistoryInv, KeysInv, KeysPresent
<1>4. k \notin assets
  BY DEF Upload, HistoryInv, KeysInv, KeysPresent
<1>5. KeysPresent'
  BY <1>1 DEF Upload, HistoryInv, KeysInv, KeysPresent
<1>6. UploadsNew' /\ KeysOwned'
  BY <1>1, <1>3, <1>4 DEF Upload, HistoryInv, KeysInv, UploadsNew, KeysOwned
<1>7. SweepsSpare'
  BY <1>1 DEF Upload, HistoryInv, KeysInv, SweepsSpare, Spares
<1> QED
  BY <1>2, <1>5, <1>6, <1>7 DEF HistoryInv, KeysInv

(* PlaceImage keeps the images and the order.                               *)
LEMMA PlaceImageHistory ==
    ASSUME DocumentsInv, HistoryInv, NEW k \in Keys, PlaceImage(k)
    PROVE  HistoryInv'
<1>1. Change(screen.keys \cup {k}) /\ screen.keys \cup {k} \in SUBSET Keys
  BY DEF PlaceImage, Change, Open, DocumentsInv, Mounted, Docs
<1>2. /\ Held' \subseteq Held \cup {NoDoc, screen'} /\ OnDisk' \subseteq OnDisk \cup Held
      /\ screen \in Held /\ screen'.of = screen.of /\ screen'.keys = screen.keys \cup {k}
  BY <1>1, ChangeHeld
<1>3. /\ {k} \in SUBSET uploads /\ uploads' = uploads \ {k} /\ UNCHANGED <<assets, blobs, excused>>
      /\ sweeps' \ sweeps = {} /\ screen'.keys \subseteq screen.keys \cup {k}
  BY <1>2 DEF PlaceImage
<1>4. KeysInv'
  BY <1>2, <1>3, KeysStep DEF HistoryInv
<1> QED
  BY <1>1, <1>4, ChangeOrder DEF HistoryInv

(* DeleteImages keeps the images and the order.                             *)
LEMMA DeleteImagesHistory ==
    ASSUME DocumentsInv, HistoryInv, NEW gone \in SUBSET Keys, DeleteImages(gone)
    PROVE  HistoryInv'
<1>1. Change(screen.keys \ gone) /\ screen.keys \ gone \in SUBSET Keys
  BY DEF DeleteImages, Change, Open, DocumentsInv, Mounted, Docs
<1>2. /\ Held' \subseteq Held \cup {NoDoc, screen'} /\ OnDisk' \subseteq OnDisk \cup Held
      /\ screen \in Held /\ screen'.of = screen.of /\ screen'.keys = screen.keys \ gone
  BY <1>1, ChangeHeld
<1>3. /\ {} \in SUBSET uploads /\ uploads' = uploads \ {} /\ UNCHANGED <<assets, blobs, excused>>
      /\ screen'.keys \subseteq screen.keys \cup {}
  BY <1>2 DEF DeleteImages
<1>4. ASSUME NEW s \in sweeps' \ sweeps
      PROVE  /\ s.used \cap uploads = {} /\ s.phase = "due"
             /\ \A d \in Held' : d.keys \cap s.used \subseteq s.roots
  <2>1. s = [phase |-> "due", roots |-> Reach({screen'} \cup History), used |-> Reach(History)]
    BY <1>4 DEF DeleteImages, Sweep
  <2>2. Reach(History) \cap uploads = {}
    BY HeldDocs DEF Reach, HistoryInv, KeysInv, UploadsNew
  <2>3. Reach(History) \subseteq Reach({screen'} \cup History)
    BY DEF Reach
  <2> QED
    BY <2>1, <2>2, <2>3
<1>5. KeysInv'
  BY <1>2, <1>3, <1>4, KeysStep DEF HistoryInv
<1> QED
  BY <1>1, <1>5, ChangeOrder DEF HistoryInv

(* BeginDrag keeps the images and the order.                                *)
LEMMA BeginDragHistory ==
    ASSUME DocumentsInv, HistoryInv, BeginDrag
    PROVE  HistoryInv'
<1>1. Held' = Held /\ OnDisk' = OnDisk /\ UNCHANGED fileVars
  BY SameDocuments DEF BeginDrag, undoVars, saveVars
<1>2. UNCHANGED <<revs, past, future, last, applied, timer, screen>>
  BY DEF BeginDrag, undoVars
<1> QED
  BY <1>1, <1>2, KeysQuiet, OrderQuiet DEF HistoryInv

(* EndDrag keeps the images and the order.                                  *)
LEMMA EndDragHistory ==
    ASSUME DocumentsInv, HistoryInv, EndDrag
    PROVE  HistoryInv'
<1> DEFINE d == [screen EXCEPT !.rev = revs + 1]
<1>1. /\ Open /\ UNCHANGED <<route, loaded, restores, past, last, future, applied, disk>>
      /\ UNCHANGED fileVars
  BY DEF EndDrag
<1>2. CASE revs < MaxRev /\ revs' = revs + 1 /\ screen' = d
           /\ store' = Put(route, screen') /\ saveDue' = TRUE /\ timer' = (applied = NoDoc)
           /\ skipped' = FALSE
  <2>1. d \in Docs /\ d.of = route /\ screen \in Docs /\ screen.of = route /\ route \in Projects
    BY <1>1, <1>2, NewDoc, NoDocIsNone, RouteStored DEF Open, DocumentsInv, Mounted, Owned, Docs
  <2>2. d.rev = revs + 1 /\ d.keys = screen.keys
    BY <2>1 DEF Docs
  <2> HIDE DEF d
  <2>3. Stored' \subseteq Stored \cup {d}
    <3>1. store' = store \/ store' = [store EXCEPT ![route] = d]
      BY <1>2 DEF Put
    <3> QED
      BY <2>1, <3>1 DEF Stored, DocumentsInv, TypeOK, Shelf
  <2>4. Held' \subseteq Held \cup {NoDoc, d} /\ OnDisk' \subseteq OnDisk \cup Held /\ screen \in Held
    BY <1>1, <1>2, <2>3 DEF Held, OnDisk, Entries
  <2>5. /\ {} \in SUBSET uploads /\ uploads' = uploads \ {} /\ UNCHANGED <<assets, blobs, excused>>
        /\ sweeps' \ sweeps = {} /\ d.keys \subseteq screen.keys \cup {} /\ screen.of = d.of
    BY <1>1, <2>1, <2>2 DEF fileVars
  <2>6. KeysInv'
    BY <2>4, <2>5, KeysStep DEF HistoryInv
  <2>7. revs \in Nat /\ \A e \in Held \cup OnDisk : e.rev \in Nat
    BY HeldDocs
  <2>8. RevsBounded'
    BY <1>2, <2>2, <2>4, <2>7, RevsStep DEF DocumentsInv, HistoryInv, OrderInv
  <2>9. SidesInOrder'
    BY <1>1 DEF HistoryInv, OrderInv, SidesInOrder, Current
  <2>10. last \in Held /\ last.rev <= revs /\ last.rev \in Nat
    BY <2>7 DEF HistoryInv, OrderInv, RevsBounded, Held
  <2>11. TimerAhead'
    BY <1>1, <1>2, <2>2, <2>7, <2>10 DEF TimerAhead
  <2> QED
    BY <2>6, <2>8, <2>9, <2>11 DEF HistoryInv, OrderInv
<1>3. CASE skipped' = (store[route] # screen) /\ UNCHANGED <<screen, revs, store, saveDue, timer>>
  <2>1. Held' = Held /\ OnDisk' = OnDisk
    BY <1>1, <1>3, SameDocuments
  <2> QED
    BY <1>1, <1>3, <2>1, KeysQuiet, OrderQuiet DEF HistoryInv
<1> QED
  BY <1>2, <1>3 DEF EndDrag

(* CommitHistory keeps the images and the order.                            *)
LEMMA CommitHistoryHistory ==
    ASSUME DocumentsInv, HistoryInv, CommitHistory
    PROVE  HistoryInv'
<1> DEFINE kept == Newest(past, Depth - 1)
<1>1. /\ past' = Append(kept, last) /\ future' = <<>> /\ last' = screen /\ timer' = FALSE
      /\ timer /\ applied = NoDoc /\ applied' = NoDoc /\ UNCHANGED <<revs, screen, restores, store, disk>>
      /\ UNCHANGED fileVars
  BY DEF CommitHistory, pageVars, saveVars
<1>2. past \in Seq(Docs) /\ Depth - 1 \in Nat
  BY BoundsAssumption DEF DocumentsInv, TypeOK
<1>3. kept \in Seq(Docs) /\ Len(kept) \in Nat /\ Len(past) \in Nat /\ DOMAIN past = 1..Len(past)
  BY <1>2, NewestPart
<1>4. PICK c \in Nat : /\ Len(kept) + c = Len(past)
                       /\ \A i \in 1..Len(kept) : kept[i] = past[i + c]
  BY <1>2, NewestPart
<1>5. \A i \in 1..Len(kept) : i + c \in DOMAIN past /\ kept[i] = past[i + c]
  BY <1>3, <1>4
<1>6. loaded /\ last \in Docs
  BY <1>1 DEF DocumentsInv, Mounted
<1> HIDE DEF kept
<1>7. /\ DOMAIN past' = 1..(Len(kept) + 1) /\ past'[Len(kept) + 1] = last
      /\ \A i \in 1..Len(kept) : past'[i] = past[i + c] /\ i + c \in DOMAIN past
  <2>1. /\ DOMAIN Append(kept, last) = 1..(Len(kept) + 1) /\ Append(kept, last)[Len(kept) + 1] = last
        /\ \A i \in 1..Len(kept) : Append(kept, last)[i] = kept[i]
    BY <1>3, <1>6
  <2> QED
    BY <1>1, <1>5, <2>1
<1>8. \A i \in 1..(Len(kept) + 1) : i \in 1..Len(kept) \/ i = Len(kept) + 1
  BY <1>3
<1>9. Entries(past') \subseteq Entries(past) \cup {last} /\ Entries(future') = {}
  BY <1>1, <1>7, <1>8 DEF Entries
<1>10. Held' \subseteq Held \cup {NoDoc} /\ OnDisk' \subseteq OnDisk \cup Held
  BY <1>1, <1>9 DEF Held, OnDisk, Stored
<1>11. revs \in Nat /\ NoDoc.rev = 0 /\ \A d \in Held : d.rev \in Nat
  BY HeldDocs DEF NoDoc
<1>12. RevsBounded'
  BY <1>1, <1>10, <1>11 DEF HistoryInv, OrderInv, RevsBounded
<1>13. last.rev <= screen.rev /\ last.rev \in Nat /\ screen.rev \in Nat
  BY <1>1, <1>11 DEF HistoryInv, OrderInv, TimerAhead, Held
<1>14. /\ \A i, j \in DOMAIN past : i < j => past[i].rev <= past[j].rev
       /\ \A i \in DOMAIN past : past[i].rev <= last.rev /\ past[i].rev \in Nat
  BY <1>1, <1>11 DEF HistoryInv, OrderInv, SidesInOrder, Current, Held, Entries
<1>15. \A i \in DOMAIN past' : past'[i].rev <= last.rev /\ past'[i].rev \in Nat
  BY <1>7, <1>8, <1>13, <1>14
<1>16. \A i, j \in DOMAIN past' : i < j => past'[i].rev <= past'[j].rev
  <2> SUFFICES ASSUME NEW i \in DOMAIN past', NEW j \in DOMAIN past', i < j
               PROVE  past'[i].rev <= past'[j].rev
    OBVIOUS
  <2>1. i \in 1..Len(kept)
    BY <1>3, <1>7
  <2>2. CASE j = Len(kept) + 1
    BY <1>7, <1>15, <2>2
  <2>3. CASE j \in 1..Len(kept)
    <3>1. i + c < j + c
      BY <1>3, <2>1, <2>3
    <3> QED
      BY <1>7, <1>14, <2>1, <2>3, <3>1
  <2> QED
    BY <1>7, <1>8, <2>2, <2>3
<1>17. SidesInOrder'
  <2>1. \A i \in DOMAIN past' : past'[i].rev <= screen.rev
    BY <1>13, <1>15
  <2>2. Current' = screen /\ DOMAIN future' = {}
    BY <1>1 DEF Current
  <2> QED
    BY <1>16, <2>1, <2>2 DEF SidesInOrder
<1>18. TimerAhead'
  BY <1>1 DEF TimerAhead
<1> QED
  BY <1>1, <1>10, <1>12, <1>17, <1>18, KeysQuiet DEF HistoryInv, OrderInv

(* What an entry applied leaves in hand.                                    *)
LEMMA ApplyingHeld ==
    ASSUME DocumentsInv, HistoryInv, Open, NEW d \in Held, d \in Docs, d.of = route, ApplyHistory(d),
           Entries(past') \cup Entries(future') \subseteq Held
    PROVE  KeysInv' /\ RevsBounded' /\ TimerAhead' /\ Current' = d
<1>1. /\ screen' = d /\ applied' = d /\ timer' = FALSE /\ AutoSave(d)
      /\ UNCHANGED <<route, restores, paused, last, revs>> /\ UNCHANGED fileVars
  BY DEF ApplyHistory
<1>2. route # NoProject /\ route \in Projects /\ d # NoDoc
  BY RouteStored, NoDocIsNone DEF Open
<1>3. restores' \in SUBSET Docs
  BY <1>1 DEF DocumentsInv, TypeOK
<1>4. /\ \A p \in Projects \ {route} : store'[p] = store[p]
      /\ store'[route] \in {store[route], d} /\ disk' = disk
  BY <1>1, <1>2, <1>3, Saving, Zenon
<1>5. Stored' \subseteq Stored \cup {d} /\ OnDisk' = OnDisk
  BY <1>2, <1>4 DEF Stored, OnDisk
<1>6. Held' \subseteq Held
  BY <1>1, <1>5 DEF Held
<1>7. RevsBounded'
  BY <1>1, <1>5, <1>6 DEF HistoryInv, OrderInv, RevsBounded
<1> QED
  BY <1>1, <1>2, <1>5, <1>6, <1>7, KeysQuiet DEF HistoryInv, TimerAhead, Current

(* The entries of the two sides when one changes sides.                     *)
LEMMA EntriesMove ==
    ASSUME NEW a \in Seq(Docs), NEW b \in Seq(Docs), NEW e \in Docs, a # <<>>
    PROVE  /\ Entries(Front(a)) \subseteq Entries(a) /\ a[Len(a)] \in Entries(a)
           /\ Entries(Append(b, e)) \subseteq Entries(b) \cup {e}
<1>1. /\ Len(a) \in DOMAIN a
      /\ DOMAIN Front(a) = 1..(Len(a) - 1) /\ \A i \in 1..(Len(a) - 1) : Front(a)[i] = a[i] /\ i \in DOMAIN a
      /\ DOMAIN Append(b, e) = 1..(Len(b) + 1) /\ Len(b) \in Nat
      /\ Append(b, e)[Len(b) + 1] = e
      /\ \A i \in 1..Len(b) : Append(b, e)[i] = b[i] /\ i \in DOMAIN b
  BY Sides
<1>2. \A i \in 1..(Len(b) + 1) : i \in 1..Len(b) \/ i = Len(b) + 1
  BY <1>1
<1> QED
  BY <1>1, <1>2 DEF Entries

(* Undo keeps the images and the order.                                     *)
LEMMA UndoHistory ==
    ASSUME DocumentsInv, HistoryInv, Undo
    PROVE  HistoryInv'
<1> DEFINE d == past[Len(past)]
<1>1. last \in Docs /\ past # <<>> /\ past \in Seq(Docs) /\ future \in Seq(Docs) /\ Open
  BY DEF Undo, Open, DocumentsInv, TypeOK, Mounted
<1>2. past' = Front(past) /\ future' = Append(future, last) /\ ApplyHistory(d) /\ applied = NoDoc
  BY DEF Undo, ApplyHistory
<1>3. /\ d \in Docs /\ Len(past) \in DOMAIN past /\ Len(past) \in Nat \ {0} /\ Len(future) \in Nat
      /\ DOMAIN Front(past) = 1..(Len(past) - 1)
      /\ \A i \in 1..(Len(past) - 1) : Front(past)[i] = past[i] /\ i \in DOMAIN past
      /\ DOMAIN Append(future, last) = 1..(Len(future) + 1)
      /\ Append(future, last)[Len(future) + 1] = last
      /\ \A i \in 1..Len(future) : Append(future, last)[i] = future[i] /\ i \in DOMAIN future
  BY <1>1, Sides
<1>4. d.of = route /\ d \in Entries(past)
  BY <1>3 DEF DocumentsInv, Owned, Entries
<1>5. Entries(past') \cup Entries(future') \subseteq Held /\ d \in Held
  <2>1. Entries(past') \subseteq Entries(past) /\ Entries(future') \subseteq Entries(future) \cup {last}
    BY <1>1, <1>2, EntriesMove
  <2> QED
    BY <1>4, <2>1 DEF Held
<1> HIDE DEF d
<1>6. KeysInv' /\ RevsBounded' /\ TimerAhead' /\ Current' = d
  BY <1>1, <1>2, <1>3, <1>4, <1>5, ApplyingHeld
<1>7. /\ \A i, j \in DOMAIN past : i < j => past[i].rev <= past[j].rev
      /\ \A i \in DOMAIN past : past[i].rev <= last.rev
      /\ \A i \in DOMAIN future : last.rev <= future[i].rev
      /\ \A i, j \in DOMAIN future : i < j => future[j].rev <= future[i].rev
  BY <1>2 DEF HistoryInv, OrderInv, SidesInOrder, Current
<1>8. /\ \A i \in DOMAIN past : past[i].rev \in Nat
      /\ \A i \in DOMAIN future : future[i].rev \in Nat
      /\ last.rev \in Nat
  BY HeldDocs DEF Held, Entries
<1>9. /\ \A i, j \in DOMAIN past' : i < j => past'[i].rev <= past'[j].rev
      /\ \A i \in DOMAIN past' : past'[i].rev <= d.rev
  <2>1. d = past[Len(past)]
    BY DEF d
  <2>2. \A i \in 1..(Len(past) - 1) : i < Len(past)
    BY <1>3
  <2> QED
    BY <1>2, <1>3, <1>7, <2>1, <2>2
<1>10. /\ \A i \in DOMAIN future' : d.rev <= future'[i].rev
       /\ \A i, j \in DOMAIN future' : i < j => future'[j].rev <= future'[i].rev
  <2>1. d.rev <= last.rev /\ d.rev \in Nat
    BY <1>3, <1>7, <1>8 DEF d
  <2>2. \A i \in 1..(Len(future) + 1) : i \in 1..Len(future) \/ i = Len(future) + 1
    BY <1>3
  <2>3. \A i \in DOMAIN future' : future'[i] = last \/ (i \in 1..Len(future) /\ future'[i] = future[i])
    BY <1>2, <1>3, <2>2
  <2>4. \A i \in DOMAIN future' : d.rev <= future'[i].rev
    BY <1>3, <1>7, <1>8, <2>1, <2>3
  <2>5. ASSUME NEW i \in DOMAIN future', NEW j \in DOMAIN future', i < j
        PROVE  future'[j].rev <= future'[i].rev
    <3>1. i \in 1..Len(future) /\ future'[i] = future[i]
      BY <1>2, <1>3, <2>5
    <3>2. CASE j = Len(future) + 1
      <4>1. future'[j] = last
        BY <1>2, <1>3, <3>2
      <4> QED
        BY <1>3, <1>7, <3>1, <4>1
    <3>3. CASE j \in 1..Len(future)
      <4>1. future'[j] = future[j] /\ j \in DOMAIN future /\ i \in DOMAIN future
        BY <1>2, <1>3, <3>1, <3>3
      <4> QED
        BY <1>7, <2>5, <3>1, <4>1
    <3> QED
      BY <1>2, <1>3, <2>2, <3>2, <3>3
  <2> QED
    BY <2>4, <2>5
<1> QED
  BY <1>6, <1>9, <1>10 DEF HistoryInv, OrderInv, SidesInOrder

(* Redo keeps the images and the order.                                     *)
LEMMA RedoHistory ==
    ASSUME DocumentsInv, HistoryInv, Redo
    PROVE  HistoryInv'
<1> DEFINE d == future[Len(future)]
<1>1. last \in Docs /\ future # <<>> /\ past \in Seq(Docs) /\ future \in Seq(Docs) /\ Open
  BY DEF Redo, Open, DocumentsInv, TypeOK, Mounted
<1>2. future' = Front(future) /\ past' = Append(past, last) /\ ApplyHistory(d) /\ applied = NoDoc
  BY DEF Redo, ApplyHistory
<1>3. /\ d \in Docs /\ Len(future) \in DOMAIN future /\ Len(future) \in Nat \ {0} /\ Len(past) \in Nat
      /\ DOMAIN Front(future) = 1..(Len(future) - 1)
      /\ \A i \in 1..(Len(future) - 1) : Front(future)[i] = future[i] /\ i \in DOMAIN future
      /\ DOMAIN Append(past, last) = 1..(Len(past) + 1)
      /\ Append(past, last)[Len(past) + 1] = last
      /\ \A i \in 1..Len(past) : Append(past, last)[i] = past[i] /\ i \in DOMAIN past
  BY <1>1, Sides
<1>4. d.of = route /\ d \in Entries(future)
  BY <1>3 DEF DocumentsInv, Owned, Entries
<1>5. Entries(past') \cup Entries(future') \subseteq Held /\ d \in Held
  <2>1. Entries(future') \subseteq Entries(future) /\ Entries(past') \subseteq Entries(past) \cup {last}
    BY <1>1, <1>2, EntriesMove
  <2> QED
    BY <1>4, <2>1 DEF Held
<1> HIDE DEF d
<1>6. KeysInv' /\ RevsBounded' /\ TimerAhead' /\ Current' = d
  BY <1>1, <1>2, <1>3, <1>4, <1>5, ApplyingHeld
<1>7. /\ \A i, j \in DOMAIN past : i < j => past[i].rev <= past[j].rev
      /\ \A i \in DOMAIN past : past[i].rev <= last.rev
      /\ \A i \in DOMAIN future : last.rev <= future[i].rev
      /\ \A i, j \in DOMAIN future : i < j => future[j].rev <= future[i].rev
  BY <1>2 DEF HistoryInv, OrderInv, SidesInOrder, Current
<1>8. /\ \A i \in DOMAIN past : past[i].rev \in Nat
      /\ \A i \in DOMAIN future : future[i].rev \in Nat
      /\ last.rev \in Nat
  BY HeldDocs DEF Held, Entries
<1>9. /\ \A i, j \in DOMAIN future' : i < j => future'[j].rev <= future'[i].rev
      /\ \A i \in DOMAIN future' : d.rev <= future'[i].rev
  <2>1. d = future[Len(future)]
    BY DEF d
  <2>2. \A i \in 1..(Len(future) - 1) : i < Len(future)
    BY <1>3
  <2> QED
    BY <1>2, <1>3, <1>7, <2>1, <2>2
<1>10. /\ \A i \in DOMAIN past' : past'[i].rev <= d.rev
       /\ \A i, j \in DOMAIN past' : i < j => past'[i].rev <= past'[j].rev
  <2>1. last.rev <= d.rev /\ d.rev \in Nat
    BY <1>3, <1>7, <1>8 DEF d
  <2>2. \A i \in 1..(Len(past) + 1) : i \in 1..Len(past) \/ i = Len(past) + 1
    BY <1>3
  <2>3. \A i \in DOMAIN past' : past'[i] = last \/ (i \in 1..Len(past) /\ past'[i] = past[i])
    BY <1>2, <1>3, <2>2
  <2>4. \A i \in DOMAIN past' : past'[i].rev <= d.rev
    BY <1>3, <1>7, <1>8, <2>1, <2>3
  <2>5. ASSUME NEW i \in DOMAIN past', NEW j \in DOMAIN past', i < j
        PROVE  past'[i].rev <= past'[j].rev
    <3>1. i \in 1..Len(past) /\ past'[i] = past[i]
      BY <1>2, <1>3, <2>5
    <3>2. CASE j = Len(past) + 1
      <4>1. past'[j] = last
        BY <1>2, <1>3, <3>2
      <4> QED
        BY <1>3, <1>7, <3>1, <4>1
    <3>3. CASE j \in 1..Len(past)
      <4>1. past'[j] = past[j] /\ j \in DOMAIN past /\ i \in DOMAIN past
        BY <1>2, <1>3, <3>1, <3>3
      <4> QED
        BY <1>7, <2>5, <3>1, <4>1
    <3> QED
      BY <1>2, <1>3, <2>2, <3>2, <3>3
  <2> QED
    BY <2>4, <2>5
<1> QED
  BY <1>6, <1>9, <1>10 DEF HistoryInv, OrderInv, SidesInOrder

(* HistoryApplied keeps the images and the order.                           *)
LEMMA HistoryAppliedHistory ==
    ASSUME DocumentsInv, HistoryInv, HistoryApplied
    PROVE  HistoryInv'
<1>1. /\ applied # NoDoc /\ applied' = NoDoc /\ last' = applied /\ timer' = timer /\ ~ timer
      /\ UNCHANGED <<screen, restores, past, future, store, disk, revs>> /\ UNCHANGED fileVars
  BY DEF HistoryApplied, pageVars, saveVars, DocumentsInv, Mounted
<1>2. Held' \subseteq Held \cup {NoDoc} /\ OnDisk' \subseteq OnDisk \cup Held
  BY <1>1 DEF Held, OnDisk, Stored, Entries
<1>3. revs \in Nat /\ NoDoc.rev = 0
  BY HeldDocs DEF NoDoc
<1>4. RevsBounded'
  BY <1>1, <1>2, <1>3 DEF HistoryInv, OrderInv, RevsBounded
<1>5. SidesInOrder'
  <2>1. Current' = Current
    BY <1>1 DEF Current
  <2> QED
    BY <1>1, <2>1 DEF HistoryInv, OrderInv, SidesInOrder
<1>6. TimerAhead'
  BY <1>1 DEF TimerAhead
<1> QED
  BY <1>1, <1>2, <1>4, <1>5, <1>6, KeysQuiet DEF HistoryInv, OrderInv

(* CreateProject keeps the images and the order.                            *)
LEMMA CreateProjectHistory ==
    ASSUME DocumentsInv, HistoryInv, route = NoProject, NEW p \in Projects,
           NEW keys \in SUBSET Keys, CreateProject(p, keys)
    PROVE  HistoryInv'
<1> DEFINE d == [of |-> p, rev |-> 0, keys |-> keys]
<1>1. d.keys \subseteq keys /\ d.rev = 0
  OBVIOUS
<1>2. store' = [store EXCEPT ![p] = d] /\ keys \in SUBSET uploads /\ uploads' = uploads \ keys
  BY DEF CreateProject
<1> HIDE DEF d
<1>3. UNCHANGED <<screen, last, applied, past, future, restores, timer, revs, disk, assets, blobs, sweeps, excused>>
  BY DEF CreateProject, pageVars, undoVars
<1>4. Stored' \subseteq Stored \cup {d}
  BY <1>2 DEF Stored, DocumentsInv, TypeOK, Shelf
<1>5. Held' \subseteq Held \cup {NoDoc, d} /\ OnDisk' \subseteq OnDisk \cup Held
  BY <1>3, <1>4 DEF Held, OnDisk, Entries
<1>6. KeysInv'
  <2>1. sweeps' \ sweeps = {} /\ UNCHANGED <<assets, blobs, excused>>
    BY <1>3
  <2> QED
    BY <1>1, <1>2, <1>5, <2>1, KeysStep DEF HistoryInv
<1>7. RevsBounded'
  <2>1. revs \in Nat /\ NoDoc.rev = 0
    BY HeldDocs DEF NoDoc
  <2> QED
    BY <1>1, <1>3, <1>5, <2>1 DEF HistoryInv, OrderInv, RevsBounded
<1>8. SidesInOrder' /\ TimerAhead'
  BY <1>3 DEF HistoryInv, OrderInv, SidesInOrder, TimerAhead, Current
<1> QED
  BY <1>6, <1>7, <1>8 DEF HistoryInv, OrderInv

(* DeleteProject keeps the images and the order.                            *)
LEMMA DeleteProjectHistory ==
    ASSUME DocumentsInv, HistoryInv, NEW p \in Projects, DeleteProject(p)
    PROVE  HistoryInv'
<1>1. /\ store' = [store EXCEPT ![p] = NoDoc] /\ disk' = disk /\ Unmount
      /\ UNCHANGED <<assets, blobs, uploads, excused, revs>> /\ route \in {NoProject, p}
  BY DEF DeleteProject
<1>2. \A q \in Projects : store'[q] = IF q = p THEN NoDoc ELSE store[q]
  BY <1>1 DEF DocumentsInv, TypeOK, Shelf
<1>3. Held' \subseteq {store[q] : q \in Projects \ {p}} \cup {NoDoc}
  BY <1>2, <1>1, UnmountHeld DEF Stored
<1>4. Held' \subseteq Held \cup {NoDoc} /\ OnDisk' \subseteq OnDisk \cup Held
  BY <1>1, <1>3 DEF Held, Stored, OnDisk
<1>5. NoDoc.keys = {} /\ NoDoc.of = NoProject
  BY DEF NoDoc
<1>6. ASSUME NEW d \in Held', NEW h \in History PROVE d.keys \cap h.keys = {}
  <2>1. h = NoDoc \/ h.of = route
    BY HeldDocs
  <2>2. d = NoDoc \/ \E q \in Projects \ {p} : d = store[q] /\ d.of = q
    BY <1>3, StoredDoc
  <2>3. CASE h = NoDoc \/ d = NoDoc
    BY <1>5, <2>3
  <2>4. CASE h # NoDoc /\ d # NoDoc
    <3>1. d.of # NoProject /\ d.of # p /\ d \in Held
      BY <1>4, <2>2, <2>4, ProjectsAssumption
    <3>2. h.of # d.of /\ h \in Held
      BY <1>1, <2>1, <2>4, <3>1, HeldDocs
    <3> QED
      BY <3>1, <3>2 DEF HistoryInv, KeysInv, KeysOwned
  <2> QED
    BY <2>3, <2>4
<1>7. ASSUME NEW s \in sweeps' \ sweeps
      PROVE  /\ s.used \cap uploads = {} /\ s.phase = "due"
             /\ \A d \in Held' : d.keys \cap s.used \subseteq s.roots
  <2>1. s = [phase |-> "due", roots |-> {}, used |-> Reach(History)]
    BY <1>7 DEF DeleteProject, Sweep
  <2>2. Reach(History) \cap uploads = {}
    BY HeldDocs DEF Reach, HistoryInv, KeysInv, UploadsNew
  <2>3. \A d \in Held' : d.keys \cap Reach(History) = {}
    BY <1>6 DEF Reach
  <2> QED
    BY <2>1, <2>2, <2>3
<1>8. KeysInv'
  <2>1. {} \in SUBSET uploads /\ uploads' = uploads \ {} /\ NoDoc.keys \subseteq {}
    BY <1>1, <1>5
  <2>2. Held' \subseteq Held \cup {NoDoc, NoDoc}
    BY <1>4
  <2> QED
    BY <1>1, <1>4, <1>7, <2>1, <2>2, KeysStep DEF HistoryInv
<1>9. past' = <<>> /\ future' = <<>> /\ timer' = FALSE
  BY <1>1 DEF Unmount
<1> QED
  BY <1>1, <1>4, <1>8, <1>9, OrderAnew DEF HistoryInv

(* SaveAsset keeps the images and the order.                                *)
LEMMA SaveAssetHistory ==
    ASSUME DocumentsInv, HistoryInv, NEW k \in Keys, SaveAsset(k)
    PROVE  HistoryInv'
<1>1. Held' = Held /\ OnDisk' = OnDisk
  BY SameDocuments DEF SaveAsset, pageVars, undoVars, saveVars
<1>2. OrderInv'
  BY <1>1, OrderQuiet DEF HistoryInv, SaveAsset, pageVars, undoVars
<1>3. /\ screen \in Held /\ k \in screen.keys /\ assets' = assets \cup {k}
      /\ UNCHANGED <<blobs, uploads, sweeps, excused>>
  BY DEF SaveAsset, Held
<1>4. KeysPresent'
  BY <1>1, <1>3 DEF HistoryInv, KeysInv, KeysPresent
<1>5. UploadsNew' /\ KeysOwned'
  BY <1>1, <1>3 DEF HistoryInv, KeysInv, UploadsNew, KeysOwned
<1>6. SweepsSpare'
  BY <1>1, <1>3 DEF HistoryInv, KeysInv, SweepsSpare, Spares
<1> QED
  BY <1>2, <1>4, <1>5, <1>6 DEF HistoryInv, KeysInv

(* RemoveAsset keeps the images and the order.                              *)
LEMMA RemoveAssetHistory ==
    ASSUME DocumentsInv, HistoryInv, NEW k \in Keys, RemoveAsset(k)
    PROVE  HistoryInv'
<1>1. Held' = Held /\ OnDisk' = OnDisk
  BY SameDocuments DEF RemoveAsset, pageVars, undoVars, saveVars
<1>2. OrderInv'
  BY <1>1, OrderQuiet DEF HistoryInv, RemoveAsset, pageVars, undoVars
<1>3. assets' \subseteq assets /\ UNCHANGED <<blobs, uploads, excused>> /\ route = NoProject
  BY DEF RemoveAsset
<1>4. KeysPresent' /\ UploadsNew' /\ KeysOwned'
  BY <1>1, <1>3 DEF HistoryInv, KeysInv, KeysPresent, UploadsNew, KeysOwned
<1>5. Reach(History) = {}
  <2>1. past = <<>> /\ future = <<>> /\ last = NoDoc
    BY <1>3 DEF DocumentsInv, Mounted
  <2>2. History = {NoDoc}
    BY <2>1 DEF History, Entries
  <2> QED
    BY <2>2 DEF Reach, NoDoc
<1>6. SweepsSpare'
  <2> SUFFICES ASSUME NEW s \in sweeps' PROVE Spares(s)'
    BY DEF SweepsSpare
  <2>1. CASE s \in sweeps
    BY <1>1, <1>3, <2>1 DEF HistoryInv, KeysInv, SweepsSpare, Spares
  <2>2. CASE s \notin sweeps
    <3>1. s.phase = "due" /\ s.used = {}
      BY <1>5, <2>2 DEF RemoveAsset, Sweep
    <3> QED
      BY <3>1 DEF Spares
  <2> QED
    BY <2>1, <2>2
<1> QED
  BY <1>2, <1>4, <1>6 DEF HistoryInv, KeysInv

(* SweepReads keeps the images and the order.                               *)
LEMMA SweepReadsHistory ==
    ASSUME DocumentsInv, HistoryInv, NEW t \in sweeps, SweepReads(t)
    PROVE  HistoryInv'
<1>1. Held' = Held /\ OnDisk' = OnDisk
  BY SameDocuments DEF SweepReads, pageVars, undoVars, saveVars
<1>2. OrderInv'
  BY <1>1, OrderQuiet DEF HistoryInv, SweepReads, pageVars, undoVars
<1>3. UNCHANGED <<assets, blobs, uploads, excused>>
  BY DEF SweepReads
<1>4. KeysPresent' /\ UploadsNew' /\ KeysOwned'
  BY <1>1, <1>3 DEF HistoryInv, KeysInv, KeysPresent, UploadsNew, KeysOwned
<1>5. Reach(Stored) \cap uploads = {} /\ assets \cap uploads = {}
  BY DEF Held, Reach, HistoryInv, KeysInv, UploadsNew
<1>6. SweepsSpare'
  <2> SUFFICES ASSUME NEW s \in sweeps' PROVE Spares(s)'
    BY DEF SweepsSpare
  <2>1. CASE s \in sweeps
    BY <1>1, <1>3, <2>1 DEF HistoryInv, KeysInv, SweepsSpare, Spares
  <2>2. CASE s \notin sweeps
    <3>1. /\ s.roots = t.roots \cup Reach(Stored) \cup assets
          /\ s.used = t.used \cup Reach(Stored) \cup assets
      BY <2>2 DEF SweepReads
    <3>2. Spares(t)
      BY DEF HistoryInv, KeysInv, SweepsSpare
    <3> QED
      BY <1>1, <1>3, <1>5, <3>1, <3>2 DEF Spares
  <2> QED
    BY <2>1, <2>2
<1> QED
  BY <1>2, <1>4, <1>6 DEF HistoryInv, KeysInv

(* SweepDeletes keeps the images and the order.                             *)
LEMMA SweepDeletesHistory ==
    ASSUME DocumentsInv, HistoryInv, NEW t \in sweeps, SweepDeletes(t)
    PROVE  HistoryInv'
<1>1. Held' = Held /\ OnDisk' = OnDisk
  BY SameDocuments DEF SweepDeletes, pageVars, undoVars, saveVars
<1>2. OrderInv'
  BY <1>1, OrderQuiet DEF HistoryInv, SweepDeletes, pageVars, undoVars
<1>3. /\ UNCHANGED <<assets, uploads>> /\ sweeps' \subseteq sweeps /\ t.phase = "read"
      /\ blobs' = blobs \cap t.roots /\ excused' = excused \cup ((blobs \ t.roots) \ t.used)
  BY DEF SweepDeletes
<1>4. Spares(t)
  BY DEF HistoryInv, KeysInv, SweepsSpare
<1>5. KeysPresent'
  <2>1. \A d \in Held : d.keys \subseteq blobs' \cup excused'
    BY <1>3, <1>4 DEF HistoryInv, KeysInv, KeysPresent, Spares
  <2>2. assets \cup uploads \subseteq blobs' \cup excused'
    BY <1>3, <1>4 DEF HistoryInv, KeysInv, KeysPresent, Spares
  <2> QED
    BY <1>1, <1>3, <2>1, <2>2 DEF KeysPresent
<1>6. UploadsNew' /\ KeysOwned'
  BY <1>1, <1>3 DEF HistoryInv, KeysInv, UploadsNew, KeysOwned
<1>7. SweepsSpare'
  BY <1>1, <1>3 DEF HistoryInv, KeysInv, SweepsSpare, Spares
<1> QED
  BY <1>2, <1>5, <1>6, <1>7 DEF HistoryInv, KeysInv

(* SaveFires keeps the images and the order.                                *)
LEMMA SaveFiresHistory ==
    ASSUME DocumentsInv, HistoryInv, SaveFires
    PROVE  HistoryInv'
<1>1. /\ UNCHANGED <<screen, last, applied, past, future, restores, store, timer, revs>>
      /\ disk' = store /\ UNCHANGED fileVars
  BY DEF SaveFires, pageVars, undoVars
<1>2. Held' \subseteq Held \cup {NoDoc} /\ OnDisk' \subseteq OnDisk \cup Held
  BY <1>1 DEF Held, OnDisk, Stored, Entries
<1> QED
  BY <1>1, <1>2, KeysQuiet, OrderQuiet DEF HistoryInv

(* Crash keeps the images and the order.                                    *)
LEMMA CrashHistory ==
    ASSUME DocumentsInv, HistoryInv, Crash
    PROVE  HistoryInv'
<1>1. /\ store' = disk /\ disk' = disk /\ Unmount /\ uploads' = {} /\ sweeps' = {}
      /\ excused' = excused \cup (Reach(OnDisk) \ blobs) /\ UNCHANGED <<assets, blobs, revs>>
  BY DEF Crash, OnDisk
<1>2. Held' \subseteq OnDisk \cup {NoDoc} /\ OnDisk' = OnDisk
  BY <1>1, UnmountHeld DEF Stored, OnDisk
<1>3. NoDoc.keys = {}
  BY DEF NoDoc
<1>4. KeysPresent'
  <2>1. \A d \in OnDisk : d.keys \subseteq Reach(OnDisk)
    BY DEF Reach
  <2> QED
    BY <1>1, <1>2, <1>3, <2>1 DEF HistoryInv, KeysInv, KeysPresent
<1>5. UploadsNew' /\ SweepsSpare'
  BY <1>1 DEF UploadsNew, SweepsSpare
<1>6. KeysOwned'
  BY <1>2, <1>3 DEF HistoryInv, KeysInv, KeysOwned
<1>7. OrderInv'
  <2>1. past' = <<>> /\ future' = <<>> /\ timer' = FALSE
    BY <1>1 DEF Unmount
  <2> QED
    BY <1>1, <1>2, <2>1, OrderAnew DEF HistoryInv
<1> QED
  BY <1>4, <1>5, <1>6, <1>7 DEF HistoryInv, KeysInv

(* Initially no image is stored and there is no history.                    *)
LEMMA InitHistory == Init => HistoryInv
<1> SUFFICES ASSUME Init PROVE HistoryInv
  OBVIOUS
<1>1. \E p \in Projects : store = [q \in Projects |-> IF q = p THEN [NoDoc EXCEPT !.of = p] ELSE NoDoc]
  BY DEF Init
<1>2. \A d \in Stored \cup OnDisk : d.keys = {} /\ d.rev = 0
  BY <1>1 DEF Init, Stored, OnDisk, NoDoc
<1>3. /\ screen = NoDoc /\ last = NoDoc /\ applied = NoDoc /\ restores = {}
      /\ past = <<>> /\ future = <<>> /\ timer = FALSE /\ revs = 0
  BY DEF Init
<1>4. NoDoc.keys = {} /\ NoDoc.rev = 0 /\ Entries(past) = {} /\ Entries(future) = {}
  BY <1>3 DEF NoDoc, Entries
<1>5. \A d \in Held \cup OnDisk : d.keys = {} /\ d.rev = 0
  BY <1>2, <1>3, <1>4 DEF Held
<1>6. KeysInv
  BY <1>5 DEF Init, KeysInv, KeysPresent, UploadsNew, KeysOwned, SweepsSpare
<1>7. RevsBounded
  BY <1>3, <1>5 DEF RevsBounded
<1>8. SidesInOrder /\ TimerAhead
  BY <1>3 DEF SidesInOrder, TimerAhead
<1> QED
  BY <1>6, <1>7, <1>8 DEF HistoryInv, OrderInv

(* Every step keeps the images in use and the history in order.             *)
LEMMA NextHistory ==
    ASSUME DocumentsInv, HistoryInv, [Next]_vars
    PROVE  HistoryInv'
<1>1. CASE \E p \in Projects : OpenCanvas(p) \/ DeleteProject(p)
  BY <1>1, OpenCanvasHistory, DeleteProjectHistory
<1>2. CASE route = NoProject /\ \E p \in Projects, S \in SUBSET Keys : CreateProject(p, S)
  BY <1>2, CreateProjectHistory
<1>3. CASE \E d \in restores : RestoreDone(d)
  BY <1>3, RestoreDoneHistory
<1>4. CASE \E k \in Keys : Upload(k) \/ PlaceImage(k) \/ SaveAsset(k) \/ RemoveAsset(k)
  BY <1>4, UploadHistory, PlaceImageHistory, SaveAssetHistory, RemoveAssetHistory
<1>5. CASE \E S \in SUBSET Keys : DeleteImages(S)
  BY <1>5, DeleteImagesHistory
<1>6. CASE \E s \in sweeps : SweepReads(s) \/ SweepDeletes(s)
  BY <1>6, SweepReadsHistory, SweepDeletesHistory
<1>7. CASE LeaveCanvas \/ Edit \/ BeginDrag \/ EndDrag
  BY <1>7, LeaveCanvasHistory, EditHistory, BeginDragHistory, EndDragHistory
<1>8. CASE CommitHistory \/ Undo \/ Redo \/ HistoryApplied
  BY <1>8, CommitHistoryHistory, UndoHistory, RedoHistory, HistoryAppliedHistory
<1>9. CASE SaveFires \/ Crash
  BY <1>9, SaveFiresHistory, CrashHistory
<1>10. CASE UNCHANGED vars
  <2>1. Held' = Held /\ OnDisk' = OnDisk
    BY <1>10, SameDocuments DEF vars, pageVars, undoVars, saveVars
  <2>2. UNCHANGED fileVars /\ UNCHANGED <<revs, past, future, last, applied, timer, screen>>
    BY <1>10 DEF vars, pageVars, undoVars
  <2> QED
    BY <2>1, <2>2, KeysQuiet, OrderQuiet DEF HistoryInv
<1> QED
  BY <1>1, <1>2, <1>3, <1>4, <1>5, <1>6, <1>7, <1>8, <1>9, <1>10 DEF Next

(* Nothing that refers to an image loses it, but in the excused cases.      *)
LEMMA KeysKeptFromInv ==
    ASSUME HistoryInv
    PROVE  KeysKept
<1>1. Stored \cup {screen} \cup History \cup restores \subseteq Held
  BY DEF Held, History
<1>2. Reach(Stored \cup {screen} \cup History \cup restores) \subseteq blobs \cup excused
  BY <1>1 DEF Reach, HistoryInv, KeysInv, KeysPresent
<1> QED
  BY <1>2 DEF KeysKept, InUse, HistoryInv, KeysInv, KeysPresent

(* The entries of two sequences put together.                               *)
LEMMA Joined ==
    ASSUME NEW D, NEW a \in Seq(D), NEW b \in Seq(D)
    PROVE  /\ Len(a \o b) = Len(a) + Len(b)
           /\ \A i \in 1..(Len(a) + Len(b)) : (a \o b)[i] =
                  IF i <= Len(a) THEN a[i] ELSE b[i - Len(a)]
OBVIOUS

(* The line of the undo history: its entries, and their order.              *)
LEMMA LineEntries ==
    ASSUME DocumentsInv, loaded
    PROVE  /\ Len(Line) = Len(past) + 1 + Len(future)
           /\ \A i \in 1..Len(past) : Line[i] = past[i]
           /\ Line[Len(past) + 1] = last
           /\ \A i \in 1..Len(future) : Line[Len(past) + 1 + i] = future[Len(future) + 1 - i]
           /\ Len(past) \in Nat /\ Len(future) \in Nat
           /\ DOMAIN past = 1..Len(past) /\ DOMAIN future = 1..Len(future)
<1> DEFINE m == Len(past)
           n == Len(future)
           back == [i \in 1..n |-> future[n + 1 - i]]
<1>1. past \in Seq(Docs) /\ future \in Seq(Docs) /\ last \in Docs
  BY DEF DocumentsInv, TypeOK, Mounted
<1>2. m \in Nat /\ n \in Nat /\ DOMAIN past = 1..m /\ DOMAIN future = 1..n
  BY <1>1
<1>3. back \in Seq(Docs) /\ Len(back) = n /\ \A i \in 1..n : back[i] = future[n + 1 - i]
  <2>1. \A i \in 1..n : future[n + 1 - i] \in Docs
    BY <1>1, <1>2
  <2>2. back \in [1..n -> Docs]
    BY <2>1
  <2>3. DOMAIN back = 1..n
    OBVIOUS
  <2>4. \A k \in Nat : \A f \in [1..k -> Docs] : f \in Seq(Docs)
    BY SeqDef
  <2>5. back \in Seq(Docs)
    <3> HIDE DEF back
    <3> QED
      BY <1>2, <2>2, <2>4
  <2> QED
    BY <1>2, <2>3, <2>5
<1> HIDE DEF back
<1>4. /\ past \o <<last>> \in Seq(Docs) /\ Len(past \o <<last>>) = m + 1
      /\ \A i \in 1..m : (past \o <<last>>)[i] = past[i]
      /\ (past \o <<last>>)[m + 1] = last
  BY <1>1, <1>2
<1>5. Line = (past \o <<last>>) \o back
  BY DEF Line, back
<1>6. /\ Len(Line) = m + 1 + n
      /\ \A i \in 1..(m + 1) : Line[i] = (past \o <<last>>)[i]
      /\ \A i \in 1..n : Line[m + 1 + i] = back[i]
  <2> DEFINE s1 == past \o <<last>>
  <2> HIDE DEF s1
  <2>0. /\ s1 \in Seq(Docs) /\ Len(s1) = m + 1 /\ s1 = past \o <<last>>
        /\ back \in Seq(Docs) /\ Len(back) = n
    BY <1>3, <1>4 DEF s1
  <2>4. /\ Len(s1 \o back) = Len(s1) + Len(back)
        /\ \A i \in 1..(Len(s1) + Len(back)) : (s1 \o back)[i] =
               IF i <= Len(s1) THEN s1[i] ELSE back[i - Len(s1)]
    BY <2>0, Joined
  <2>1. /\ Len((past \o <<last>>) \o back) = m + 1 + n
        /\ \A i \in 1..(m + 1 + n) : ((past \o <<last>>) \o back)[i] =
               IF i <= m + 1 THEN (past \o <<last>>)[i] ELSE back[i - (m + 1)]
    BY <2>0, <2>4
  <2>2. \A i \in 1..n : m + 1 + i \in 1..(m + 1 + n) /\ ~ (m + 1 + i <= m + 1) /\ m + 1 + i - (m + 1) = i
    BY <1>2
  <2>3. \A i \in 1..(m + 1) : i \in 1..(m + 1 + n) /\ i <= m + 1
    BY <1>2
  <2> QED
    BY <1>5, <2>1, <2>2, <2>3
<1> QED
  BY <1>2, <1>3, <1>4, <1>6

(* The line is in order, all of the project shown.                          *)
LEMMA HistoryInOrderFromInv ==
    ASSUME DocumentsInv, HistoryInv
    PROVE  HistoryInOrder
<1> SUFFICES ASSUME Open, applied = NoDoc
             PROVE  /\ \A i, j \in 1..Len(Line) : i < j => Line[i].rev <= Line[j].rev
                    /\ \A i \in 1..Len(Line) : Line[i].of = screen.of
  BY DEF HistoryInOrder
<1> DEFINE m == Len(past)
           n == Len(future)
<1>1. /\ Len(Line) = m + 1 + n /\ \A i \in 1..m : Line[i] = past[i]
      /\ Line[m + 1] = last
      /\ \A i \in 1..n : Line[m + 1 + i] = future[n + 1 - i]
      /\ m \in Nat /\ n \in Nat /\ DOMAIN past = 1..m /\ DOMAIN future = 1..n
  BY LineEntries DEF Open
<1>2. /\ \A i, j \in 1..m : i < j => past[i].rev <= past[j].rev
      /\ \A i \in 1..m : past[i].rev <= last.rev
      /\ \A i \in 1..n : last.rev <= future[i].rev
      /\ \A i, j \in 1..n : i < j => future[j].rev <= future[i].rev
  BY <1>1 DEF HistoryInv, OrderInv, SidesInOrder, Current
<1>3. /\ \A i \in 1..m : past[i].rev \in Nat
      /\ \A i \in 1..n : future[i].rev \in Nat
      /\ last.rev \in Nat
  BY <1>1, HeldDocs DEF Held, Entries
<1>4. /\ \A i \in 1..m : past[i].of = screen.of
      /\ \A i \in 1..n : future[i].of = screen.of
      /\ last.of = screen.of
  BY <1>1, NoDocIsNone DEF DocumentsInv, Mounted, Owned, Open
<1> HIDE DEF m, n
<1>5. \A i \in 1..(m + 1 + n) :
          \/ i \in 1..m /\ Line[i] = past[i]
          \/ i = m + 1 /\ Line[i] = last
          \/ i - m - 1 \in 1..n /\ n + 1 - (i - m - 1) \in 1..n /\ Line[i] = future[n + 1 - (i - m - 1)]
  <2> TAKE i \in 1..(m + 1 + n)
  <2>1. CASE i \in 1..m
    BY <1>1, <2>1
  <2>2. CASE i = m + 1
    BY <1>1, <2>2
  <2>3. CASE i > m + 1
    <3>1. i - m - 1 \in 1..n /\ m + 1 + (i - m - 1) = i /\ n + 1 - (i - m - 1) \in 1..n
      BY <1>1, <2>3
    <3> QED
      BY <1>1, <3>1
  <2> QED
    BY <1>1, <2>1, <2>2, <2>3
<1>6. \A i \in 1..Len(Line) : Line[i].of = screen.of
  BY <1>1, <1>4, <1>5
<1>7. ASSUME NEW i \in 1..(m + 1 + n), NEW j \in 1..(m + 1 + n), i < j
      PROVE  Line[i].rev <= Line[j].rev
  <2>1. CASE i \in 1..m /\ Line[i] = past[i]
    <3>1. CASE j \in 1..m /\ Line[j] = past[j]
      BY <1>2, <1>7, <2>1, <3>1
    <3>2. CASE j = m + 1 /\ Line[j] = last
      BY <1>2, <2>1, <3>2
    <3>3. CASE n + 1 - (j - m - 1) \in 1..n /\ Line[j] = future[n + 1 - (j - m - 1)]
      <4>1. past[i].rev <= last.rev /\ last.rev <= future[n + 1 - (j - m - 1)].rev
        BY <1>2, <2>1, <3>3
      <4>2. past[i].rev \in Nat /\ last.rev \in Nat /\ future[n + 1 - (j - m - 1)].rev \in Nat
        BY <1>3, <2>1, <3>3
      <4>3. past[i].rev <= future[n + 1 - (j - m - 1)].rev
        BY <4>1, <4>2
      <4> QED
        BY <2>1, <3>3, <4>3
    <3> QED
      BY <1>5, <3>1, <3>2, <3>3
  <2>2. CASE i = m + 1 /\ Line[i] = last
    <3>1. n + 1 - (j - m - 1) \in 1..n /\ Line[j] = future[n + 1 - (j - m - 1)]
      BY <1>1, <1>5, <1>7, <2>2
    <3> QED
      BY <1>2, <2>2, <3>1
  <2>3. CASE i - m - 1 \in 1..n /\ n + 1 - (i - m - 1) \in 1..n /\ Line[i] = future[n + 1 - (i - m - 1)]
    <3>1. n + 1 - (j - m - 1) \in 1..n /\ Line[j] = future[n + 1 - (j - m - 1)]
      BY <1>1, <1>5, <1>7, <2>3
    <3>2. n + 1 - (j - m - 1) < n + 1 - (i - m - 1)
      BY <1>1, <1>7
    <3>3. future[n + 1 - (i - m - 1)].rev <= future[n + 1 - (j - m - 1)].rev
      BY <1>2, <2>3, <3>1, <3>2
    <3> QED
      BY <2>3, <3>1, <3>3
  <2> QED
    BY <1>5, <2>1, <2>2, <2>3
<1> QED
  BY <1>1, <1>6, <1>7

-----------------------------------------------------------------------------
(* Spec keeps the inductive invariant of the documents.                     *)
THEOREM DocumentsInvariant == Spec => []DocumentsInv
<1> QED
  BY InitDocuments, NextDocuments, PTL DEF Spec

(* Type correctness, for any number of projects, images and undo entries;   *)
(* what is stored under a project was made in it; and an open canvas shows  *)
(* what its project holds and, once written, what IndexedDB holds.          *)
THEOREM ProjectsAreSound == Spec => []ProjectsSound
<1>1. DocumentsInv => ProjectsSound
  BY DEF DocumentsInv, ProjectsSound
<1> QED
  BY <1>1, DocumentsInvariant, PTL

(* The images in use are kept and the undo history is in order, for any     *)
(* number of sweeps under way at once.                                      *)
THEOREM HistoryIsSafe == Spec => []HistorySafe
<1>1. Init => DocumentsInv /\ HistoryInv
  BY InitDocuments, InitHistory
<1>2. (DocumentsInv /\ HistoryInv) /\ [Next]_vars => (DocumentsInv /\ HistoryInv)'
  BY NextDocuments, NextHistory
<1>3. DocumentsInv /\ HistoryInv => HistorySafe
  BY KeysKeptFromInv, HistoryInOrderFromInv DEF HistorySafe
<1> QED
  BY <1>1, <1>2, <1>3, PTL DEF Spec

-----------------------------------------------------------------------------
(* The workbench's session (KeySession), also under the requests.          *)

LEMMA LeastFirst ==
    ASSUME NEW S, S \subseteq Nat, S # {}
    PROVE  First(S) \in S
<1>1. PICK k \in S : \A j \in S : ~ (<<j, k>> \in OpToRel(<, Nat))
  BY NatLessThanWellFounded, WFMin
<1>2. \A j \in S : ~ (j < k)
  BY <1>1 DEF OpToRel
<1>3. \A j \in S : k <= j
  BY <1>2
<1> QED
  BY <1>3 DEF First
(* The types of what the page keeps and of the calls in flight.             *)
Credentials == ApiKeys \cup {NoKey}
Users       == Accounts \cup {Nobody}
ModelIds    == [of : Credentials, name : Models \cup {""}]
SessionSet  == [status : {"loading", "authenticated", "missing", "error"}, user : Users,
                keys : SUBSET ApiKeys, selected : Credentials, models : Credentials,
                busy : BOOLEAN, error : BOOLEAN]
ConfigSet   == [cred : Credentials, channel : Credentials, image : ModelIds]
CallSet     == [kind : {"idle", "refresh", "select", "usage"},
                stage : {"none", "account", "secret", "models"},
                key : Credentials, asked : Users,
                answer : {"none", "ok", "unauthorized", "failed"}, user : Users,
                keys : SUBSET ApiKeys, alone : BOOLEAN]
SessionTypes ==
    /\ token \in Users /\ stored \in Credentials /\ active \subseteq ApiKeys
    /\ session \in SessionSet /\ config \in ConfigSet /\ calls \in [Slots -> CallSet]
    /\ acts \in 0..MaxActs /\ crossed \in BOOLEAN /\ switched \in BOOLEAN

(* Only a connection reads a secret or models, and it has a key; one that   *)
(* is alone is the only one, and from the choice of its key on the drawer   *)
(* shows that key, connecting.                                              *)
Keyed    == \A s \in Slots : calls[s].stage \in {"secret", "models"} =>
                calls[s].kind \in {"refresh", "select"} /\ calls[s].key \in ApiKeys
AloneIsOnly == \A s \in Connections : calls[s].alone => Connections = {s}
AloneShows ==
    \A s \in Connections : calls[s].alone /\ calls[s].stage \in {"secret", "models"} =>
        /\ session.status = "authenticated" /\ session.busy
        /\ session.selected = calls[s].key /\ session.models = NoKey
NothingPays == \A s \in Connections : calls[s].kind = "select" /\ calls[s].alone => config.cred = NoKey

(* The key whose models are listed is the one that pays and is shown, and   *)
(* the only channel is its own; models are missing only while they are      *)
(* read or after an error.                                                  *)
ListedPays ==
    ~crossed /\ session.models # NoKey =>
        {config.cred, config.channel, session.selected} = {session.models}
RestLists ==
    ~crossed /\ session.status = "authenticated" /\ ~session.busy /\ ~session.error =>
        session.models # NoKey
ChannelPays == config.cred # NoKey => config.channel = config.cred
ImageListed ==
    config.cred # NoKey /\ ~crossed /\ ImagesOf(config.cred) # {} =>
        config.image.of = config.cred /\ config.image.name \in ImagesOf(config.cred)
NothingYet ==
    config.channel = NoKey => config.image = Encoded(NoKey, FallbackModel) /\ session.models = NoKey

(* Until another account signs in, all that is known and in flight is of    *)
(* the one that is signed in.                                               *)
OneAccount ==
    ~switched =>
        /\ session.user \in {Nobody, token} /\ \A k \in session.keys : Owner[k] = token
        /\ config.cred # NoKey => Owner[config.cred] = token
        /\ \A s \in InFlight :
              /\ calls[s].asked = token /\ calls[s].user \in {Nobody, token}
              /\ \A k \in calls[s].keys : Owner[k] = token
              /\ calls[s].key # NoKey => Owner[calls[s].key] = token

SessionInv ==
    /\ SessionTypes /\ Keyed /\ AloneIsOnly /\ AloneShows /\ NothingPays
    /\ ListedPays /\ RestLists /\ ChannelPays /\ ImageListed /\ NothingYet /\ OneAccount

SameCall(c, d) ==
    /\ c.kind = d.kind /\ c.stage = d.stage /\ c.key = d.key /\ c.asked = d.asked
    /\ c.answer = d.answer /\ c.user = d.user /\ c.keys = d.keys

(* A connection that begins leaves none alone but itself.                   *)
LEMMA ConnectingAlone ==
    ASSUME SessionTypes, NEW s \in Slots, s \notin InFlight, NEW c \in CallSet,
           c.kind \in {"refresh", "select"}, calls' = Connecting(s, c)
    PROVE  /\ calls' \in [Slots -> CallSet]
           /\ SameCall(calls'[s], c)
           /\ \A t \in Slots \ {s} : SameCall(calls'[t], calls[t])
           /\ Connections' = Connections \cup {s} /\ InFlight' = InFlight \cup {s}
           /\ \A t \in Connections' : calls'[t].alone => Connections = {} /\ t = s
<1>1. calls \in [Slots -> CallSet]
  BY DEF SessionTypes
<1>2. Connections \subseteq InFlight /\ InFlight \subseteq Slots
  BY DEF Connections, InFlight
<1>3. CASE Connections = {}
  <2>1. calls' = [calls EXCEPT ![s] = c]
    BY <1>3 DEF Connecting
  <2>2. calls'[s] = c /\ \A t \in Slots \ {s} : calls'[t] = calls[t]
    BY <1>1, <2>1
  <2>3. calls' \in [Slots -> CallSet]
    BY <1>1, <2>1
  <2>4. InFlight' = InFlight \cup {s}
    BY <2>2 DEF InFlight
  <2>5. Connections' = Connections \cup {s}
    BY <1>2, <2>2, <2>4 DEF Connections
  <2> QED
    BY <1>3, <2>2, <2>3, <2>4, <2>5 DEF SameCall
<1>4. CASE Connections # {}
  <2>1. calls' = [t \in Slots |-> IF t = s THEN [c EXCEPT !.alone = FALSE]
                                  ELSE [calls[t] EXCEPT !.alone = @ /\ t \notin Connections]]
    BY <1>4 DEF Connecting
  <2>2. /\ calls'[s] \in CallSet /\ SameCall(calls'[s], c) /\ calls'[s].alone = FALSE
    <3>1. calls'[s] = [c EXCEPT !.alone = FALSE]
      BY <2>1
    <3> QED
      BY <3>1 DEF CallSet, SameCall
  <2>3. ASSUME NEW t \in Slots \ {s}
        PROVE  /\ calls'[t] \in CallSet /\ SameCall(calls'[t], calls[t])
               /\ calls'[t].alone => t \notin Connections
    <3>1. calls'[t] = [calls[t] EXCEPT !.alone = @ /\ t \notin Connections] /\ calls[t] \in CallSet
      BY <1>1, <2>1
    <3> DEFINE b == calls[t].alone /\ t \notin Connections
    <3>2. b \in BOOLEAN /\ calls'[t] = [calls[t] EXCEPT !.alone = b]
      BY <3>1
    <3> HIDE DEF b
    <3>3. calls'[t] \in CallSet /\ SameCall(calls'[t], calls[t]) /\ calls'[t].alone = b
      BY <3>1, <3>2 DEF CallSet, SameCall
    <3> QED
      BY <3>3 DEF b
  <2>4. calls' \in [Slots -> CallSet]
    BY <2>1, <2>2, <2>3
  <2>5. InFlight' = InFlight \cup {s}
    BY <2>2, <2>3 DEF InFlight, SameCall
  <2>6. Connections' = Connections \cup {s}
    BY <1>2, <2>2, <2>3, <2>5 DEF Connections, SameCall
  <2> QED
    BY <1>2, <2>2, <2>3, <2>4, <2>5, <2>6
<1> QED
  BY <1>3, <1>4

LEMMA IdleIsCall == Idle \in CallSet /\ Idle.kind = "idle" /\ Idle.stage = "none"
BY DEF Idle, CallSet, Credentials, Users

CallKinds  == {"refresh", "select", "usage"}
CallStages == {"account", "secret", "models"}
LEMMA NewCall ==
    ASSUME SessionTypes, NEW kind \in CallKinds, NEW stage \in CallStages, NEW k \in Credentials
    PROVE  \E c \in CallSet :
              /\ c = Call(kind, stage, k)
              /\ c.kind = kind /\ c.stage = stage /\ c.key = k /\ c.asked = token
              /\ c.user = Nobody /\ c.keys = {}
<1>1. token \in Users
  BY DEF SessionTypes
<1>2. /\ Idle \in CallSet /\ Idle.user = Nobody /\ Idle.keys = {}
  BY IdleIsCall DEF Idle
<1>3. Call(kind, stage, k) = [Idle EXCEPT !.kind = kind, !.stage = stage, !.key = k, !.asked = token]
  BY DEF Call
<1>4. PICK c : c = [Idle EXCEPT !.kind = kind, !.stage = stage, !.key = k, !.asked = token]
  OBVIOUS
<1>5. /\ c \in CallSet /\ c.kind = kind /\ c.stage = stage /\ c.key = k /\ c.asked = token
      /\ c.user = Idle.user /\ c.keys = Idle.keys
  BY <1>1, <1>2, <1>4 DEF CallSet, CallKinds, CallStages
<1> QED
  BY <1>2, <1>3, <1>4, <1>5

(* A call that begins with a question about the account.                    *)
LEMMA AccountCall ==
    ASSUME SessionTypes, NEW kind \in {"refresh", "usage"}
    PROVE  \E c \in CallSet : /\ c = Call(kind, "account", NoKey)
                              /\ c.kind = kind /\ c.stage = "account" /\ c.key = NoKey
                              /\ c.asked = token /\ c.user = Nobody /\ c.keys = {}
<1>1. NoKey \in Credentials /\ kind \in CallKinds /\ "account" \in CallStages
  BY DEF Credentials, CallKinds, CallStages
<1> QED
  BY <1>1, NewCall

(* An act of the user, the site or another tab is taken.                    *)
LEMMA ActTaken ==
    ASSUME SessionTypes, acts > 0, acts' = acts - 1
    PROVE  acts' \in 0..MaxActs
<1>1. MaxActs \in Nat
  BY KeysAssumption
<1>2. acts \in 0..MaxActs
  BY DEF SessionTypes
<1> QED
  BY <1>1, <1>2

(* One call takes a step of its own or is done: the other calls stay.       *)
LEMMA OneCallMoves ==
    ASSUME SessionTypes, NEW s \in Slots, NEW c \in CallSet, calls' = [calls EXCEPT ![s] = c]
    PROVE  /\ calls' \in [Slots -> CallSet] /\ calls'[s] = c
           /\ \A t \in Slots \ {s} : calls'[t] = calls[t]
           /\ InFlight' = (InFlight \ {s}) \cup (IF c.kind = "idle" THEN {} ELSE {s})
           /\ Connections' = (Connections \ {s})
                                 \cup (IF c.kind \in {"refresh", "select"} THEN {s} ELSE {})
<1>1. calls \in [Slots -> CallSet]
  BY DEF SessionTypes
<1>2. calls' \in [Slots -> CallSet] /\ calls'[s] = c /\ \A t \in Slots \ {s} : calls'[t] = calls[t]
  BY <1>1
<1>3. InFlight' = (InFlight \ {s}) \cup (IF c.kind = "idle" THEN {} ELSE {s})
  BY <1>2 DEF InFlight
<1>4. Connections' = (Connections \ {s}) \cup (IF c.kind \in {"refresh", "select"} THEN {s} ELSE {})
  BY <1>2, <1>3 DEF Connections, InFlight
<1> QED
  BY <1>2, <1>3, <1>4

LEMMA ClearedConfig ==
    ASSUME NEW c \in ConfigSet
    PROVE  /\ Cleared(c) \in ConfigSet /\ Cleared(c).cred = NoKey
           /\ Cleared(c).channel = c.channel /\ Cleared(c).image = c.image
BY DEF Cleared, ConfigSet, Credentials

LEMMA SignedOutSession ==
    ASSUME NEW s \in SessionSet
    PROVE  /\ SignedOut(s) \in SessionSet /\ SignedOut(s).status = "missing"
           /\ SignedOut(s).user = Nobody /\ SignedOut(s).keys = {}
           /\ SignedOut(s).models = NoKey /\ SignedOut(s).busy = s.busy
BY DEF SignedOut, SessionSet, Credentials, Users

(* A connection begins: refresh, when none that is alone has come as far as *)
(* a key.                                                                   *)
LEMMA RefreshKeeps ==
    ASSUME SessionInv, NEW s \in Slots, s \notin InFlight, Refreshes(s), acts' \in 0..MaxActs,
           Connections = {} \/ session.status # "authenticated" \/ ~session.busy
    PROVE  SessionInv'
<1>1. /\ token' = token /\ stored' = stored /\ active' = active
      /\ crossed' = crossed /\ switched' = switched
  BY DEF Refreshes
<1>2. /\ session \in SessionSet /\ config \in ConfigSet /\ calls \in [Slots -> CallSet]
      /\ token \in Users
  BY DEF SessionInv, SessionTypes
<1>3. ASSUME NEW t \in Connections, calls[t].alone PROVE calls[t].stage \notin {"secret", "models"}
  BY <1>3 DEF SessionInv, AloneShows
<1>4. CASE token = Nobody
  <2>1. session' = SignedOut(session) /\ config' = Cleared(config) /\ calls' = calls
    BY <1>4 DEF Refreshes, BeginRefresh
  <2>2. /\ session' \in SessionSet /\ session'.status = "missing" /\ session'.user = Nobody
        /\ session'.keys = {} /\ session'.models = NoKey
    BY <1>2, <2>1, SignedOutSession
  <2>3. /\ config' \in ConfigSet /\ config'.cred = NoKey /\ config'.channel = config.channel
        /\ config'.image = config.image
    BY <1>2, <2>1, ClearedConfig
  <2>4. InFlight' = InFlight /\ Connections' = Connections
    BY <2>1 DEF InFlight, Connections
  <2>5. SessionTypes'
    BY <1>1, <1>2, <2>1, <2>2, <2>3 DEF SessionInv, SessionTypes
  <2>6. Keyed' /\ AloneIsOnly' /\ AloneShows' /\ NothingPays'
    BY <1>3, <2>1, <2>3, <2>4 DEF SessionInv, Keyed, AloneIsOnly, AloneShows, NothingPays
  <2>7. ListedPays' /\ RestLists' /\ ChannelPays' /\ ImageListed' /\ NothingYet'
    BY <2>2, <2>3 DEF SessionInv, ListedPays, RestLists, ChannelPays, ImageListed, NothingYet
  <2>8. OneAccount'
    BY <1>1, <2>1, <2>2, <2>3, <2>4 DEF SessionInv, OneAccount
  <2> QED
    BY <2>5, <2>6, <2>7, <2>8 DEF SessionInv
<1>5. CASE token # Nobody
  <2>1. /\ session' = [session EXCEPT !.busy = TRUE, !.error = FALSE] /\ config' = config
        /\ calls' = Connecting(s, Call("refresh", "account", NoKey))
    BY <1>5 DEF Refreshes, BeginRefresh
  <2>2. /\ session' \in SessionSet /\ session'.status = session.status /\ session'.busy = TRUE
        /\ session'.user = session.user /\ session'.keys = session.keys
        /\ session'.models = session.models /\ session'.selected = session.selected
    BY <1>2, <2>1 DEF SessionSet
  <2>3. PICK c \in CallSet : /\ c = Call("refresh", "account", NoKey)
                             /\ c.kind = "refresh" /\ c.stage = "account" /\ c.key = NoKey
                             /\ c.asked = token /\ c.user = Nobody /\ c.keys = {}
    BY AccountCall DEF SessionInv
  <2>4. /\ calls' \in [Slots -> CallSet] /\ SameCall(calls'[s], c)
        /\ \A t \in Slots \ {s} : SameCall(calls'[t], calls[t])
        /\ Connections' = Connections \cup {s} /\ InFlight' = InFlight \cup {s}
        /\ \A t \in Connections' : calls'[t].alone => Connections = {} /\ t = s
    BY <2>1, <2>3, ConnectingAlone DEF SessionInv
  <2>5. SessionTypes'
    BY <1>1, <1>2, <2>1, <2>2, <2>4 DEF SessionInv, SessionTypes
  <2>6. Keyed'
    BY <2>3, <2>4 DEF SessionInv, Keyed, SameCall
  <2>7. AloneIsOnly'
    BY <2>4 DEF AloneIsOnly
  <2>8. AloneShows' /\ NothingPays'
    BY <2>3, <2>4 DEF AloneShows, NothingPays, SameCall
  <2>9. ListedPays' /\ RestLists' /\ ChannelPays' /\ ImageListed' /\ NothingYet'
    BY <1>1, <2>1, <2>2 DEF SessionInv, ListedPays, RestLists, ChannelPays, ImageListed, NothingYet
  <2>10. OneAccount'
    <3>1. ASSUME ~switched, NEW t \in InFlight'
          PROVE  /\ calls'[t].asked = token /\ calls'[t].user \in {Nobody, token}
                 /\ \A k \in calls'[t].keys : Owner[k] = token
                 /\ calls'[t].key # NoKey => Owner[calls'[t].key] = token
      BY <2>3, <2>4, <3>1 DEF SessionInv, OneAccount, SameCall, InFlight
    <3> QED
      BY <1>1, <2>1, <2>2, <3>1 DEF SessionInv, OneAccount
  <2> QED
    BY <2>5, <2>6, <2>7, <2>8, <2>9, <2>10 DEF SessionInv
<1> QED
  BY <1>4, <1>5

(* The balance is read again: a call that connects nothing.                 *)
LEMMA UsageKeeps ==
    ASSUME SessionInv, NEW s \in Slots, RefreshUsage(s), acts' \in 0..MaxActs
    PROVE  SessionInv'
<1>1. /\ token' = token /\ stored' = stored /\ active' = active /\ session' = session
      /\ config' = config /\ crossed' = crossed /\ switched' = switched
      /\ s \notin InFlight /\ calls' = [calls EXCEPT ![s] = Call("usage", "account", NoKey)]
  BY DEF RefreshUsage
<1>2. PICK c \in CallSet : /\ c = Call("usage", "account", NoKey)
                           /\ c.kind = "usage" /\ c.stage = "account" /\ c.key = NoKey
                           /\ c.asked = token /\ c.user = Nobody /\ c.keys = {}
  BY AccountCall DEF SessionInv
<1>3. /\ calls' \in [Slots -> CallSet] /\ calls'[s] = c
      /\ \A t \in Slots \ {s} : calls'[t] = calls[t]
      /\ InFlight' = InFlight \cup {s} /\ Connections' = Connections
  <2>1. s \notin Connections
    BY <1>1 DEF Connections
  <2>2. SessionTypes /\ calls' = [calls EXCEPT ![s] = c]
    BY <1>1, <1>2 DEF SessionInv
  <2>3. /\ calls' \in [Slots -> CallSet] /\ calls'[s] = c
        /\ \A t \in Slots \ {s} : calls'[t] = calls[t]
        /\ InFlight' = (InFlight \ {s}) \cup (IF c.kind = "idle" THEN {} ELSE {s})
        /\ Connections' = (Connections \ {s})
                              \cup (IF c.kind \in {"refresh", "select"} THEN {s} ELSE {})
    BY <2>2, OneCallMoves
  <2> QED
    BY <1>1, <1>2, <2>1, <2>3
<1>4. s \notin Connections /\ Connections \subseteq Slots
  BY <1>1 DEF Connections, InFlight
<1>5. SessionTypes' /\ Keyed'
  BY <1>1, <1>2, <1>3 DEF SessionInv, SessionTypes, Keyed
<1>6. AloneIsOnly' /\ AloneShows' /\ NothingPays'
  BY <1>1, <1>3, <1>4 DEF SessionInv, AloneIsOnly, AloneShows, NothingPays
<1>7. ListedPays' /\ RestLists' /\ ChannelPays' /\ ImageListed' /\ NothingYet'
  BY <1>1 DEF SessionInv, ListedPays, RestLists, ChannelPays, ImageListed, NothingYet
<1>8. OneAccount'
  BY <1>1, <1>2, <1>3 DEF SessionInv, OneAccount, InFlight
<1> QED
  BY <1>5, <1>6, <1>7, <1>8 DEF SessionInv

(* A key is chosen: nothing pays until it is connected.                     *)
LEMMA SelectKeeps ==
    ASSUME SessionInv, NEW s \in Slots, NEW k \in ApiKeys, SelectKey(s, k)
    PROVE  SessionInv'
<1>1. /\ token' = token /\ active' = active /\ switched' = switched /\ stored' = k
      /\ s \notin InFlight /\ k \in session.keys /\ session.status = "authenticated"
      /\ config' = Cleared(config) /\ crossed' = (crossed /\ Connections # {})
      /\ session' = [session EXCEPT !.selected = k, !.models = NoKey, !.busy = TRUE, !.error = FALSE]
      /\ calls' = Connecting(s, Call("select", "secret", k))
  BY DEF SelectKey
<1>2. acts' \in 0..MaxActs
  BY ActTaken DEF SelectKey, SessionInv
<1>3. /\ session \in SessionSet /\ config \in ConfigSet /\ calls \in [Slots -> CallSet]
      /\ k \in Credentials /\ NoKey \in Credentials
  BY DEF SessionInv, SessionTypes, Credentials
<1>4. /\ session' \in SessionSet /\ session'.status = "authenticated" /\ session'.busy = TRUE
      /\ session'.user = session.user /\ session'.keys = session.keys
      /\ session'.models = NoKey /\ session'.selected = k
  BY <1>1, <1>3 DEF SessionSet
<1>5. /\ config' \in ConfigSet /\ config'.cred = NoKey /\ config'.channel = config.channel
      /\ config'.image = config.image
  BY <1>1, <1>3, ClearedConfig
<1>6. PICK c \in CallSet : /\ c = Call("select", "secret", k)
                           /\ c.kind = "select" /\ c.stage = "secret" /\ c.key = k
                           /\ c.asked = token /\ c.user = Nobody /\ c.keys = {}
  <2>1. "select" \in CallKinds /\ "secret" \in CallStages
    BY DEF CallKinds, CallStages
  <2> QED
    BY <1>3, <2>1, NewCall DEF SessionInv
<1>7. /\ calls' \in [Slots -> CallSet] /\ SameCall(calls'[s], c)
      /\ \A t \in Slots \ {s} : SameCall(calls'[t], calls[t])
      /\ Connections' = Connections \cup {s} /\ InFlight' = InFlight \cup {s}
      /\ \A t \in Connections' : calls'[t].alone => Connections = {} /\ t = s
  BY <1>1, <1>6, ConnectingAlone DEF SessionInv
<1>8. SessionTypes'
  BY <1>1, <1>2, <1>3, <1>4, <1>5, <1>7 DEF SessionInv, SessionTypes
<1>9. Keyed'
  BY <1>6, <1>7 DEF SessionInv, Keyed, SameCall
<1>10. AloneIsOnly'
  BY <1>7 DEF AloneIsOnly
<1>11. AloneShows' /\ NothingPays'
  BY <1>4, <1>5, <1>6, <1>7 DEF AloneShows, NothingPays, SameCall
<1>12. ListedPays' /\ RestLists' /\ ChannelPays' /\ ImageListed' /\ NothingYet'
  BY <1>4, <1>5 DEF SessionInv, ListedPays, RestLists, ChannelPays, ImageListed, NothingYet
<1>13. OneAccount'
  <2>1. ASSUME ~switched, NEW t \in InFlight'
        PROVE  /\ calls'[t].asked = token /\ calls'[t].user \in {Nobody, token}
               /\ \A j \in calls'[t].keys : Owner[j] = token
               /\ calls'[t].key # NoKey => Owner[calls'[t].key] = token
    BY <1>1, <1>6, <1>7, <2>1 DEF SessionInv, OneAccount, SameCall, InFlight
  <2> QED
    BY <1>1, <1>4, <1>5, <2>1 DEF SessionInv, OneAccount
<1> QED
  BY <1>8, <1>9, <1>10, <1>11, <1>12, <1>13 DEF SessionInv

(* A step that leaves the calls, the account and what the session says of   *)
(* its keys alone.                                                          *)
LEMMA ModelKeeps ==
    ASSUME SessionInv, NEW m \in Models, ChooseModel(m)
    PROVE  SessionInv'
<1>1. /\ token' = token /\ stored' = stored /\ active' = active /\ session' = session
      /\ crossed' = crossed /\ switched' = switched /\ calls' = calls
      /\ session.models # NoKey /\ m \in ImagesOf(session.models)
      /\ config' = [config EXCEPT !.image = Encoded(session.selected, m)]
  BY DEF ChooseModel
<1>2. acts' \in 0..MaxActs
  BY ActTaken DEF ChooseModel, SessionInv
<1>3. session \in SessionSet /\ config \in ConfigSet
  BY DEF SessionInv, SessionTypes
<1>4. /\ Encoded(session.selected, m) \in ModelIds
      /\ Encoded(session.selected, m).of = session.selected /\ Encoded(session.selected, m).name = m
  BY <1>3 DEF Encoded, ModelIds, SessionSet
<1>5. PICK image \in ModelIds : /\ image = Encoded(session.selected, m)
                                /\ image.of = session.selected /\ image.name = m
  BY <1>4
<1>6. /\ config' \in ConfigSet /\ config'.cred = config.cred /\ config'.channel = config.channel
      /\ config'.image = image
  BY <1>1, <1>3, <1>5 DEF ConfigSet
<1>7. InFlight' = InFlight /\ Connections' = Connections
  BY <1>1 DEF InFlight, Connections
<1>8. SessionTypes'
  BY <1>1, <1>2, <1>6 DEF SessionInv, SessionTypes
<1>9. Keyed' /\ AloneIsOnly' /\ AloneShows' /\ NothingPays'
  BY <1>1, <1>6, <1>7 DEF SessionInv, Keyed, AloneIsOnly, AloneShows, NothingPays
<1>10. ListedPays' /\ RestLists' /\ ChannelPays' /\ NothingYet'
  BY <1>1, <1>6 DEF SessionInv, ListedPays, RestLists, ChannelPays, NothingYet
<1>11. ImageListed'
  <2>1. ~crossed => config.cred = session.selected /\ session.models = config.cred
    BY <1>1 DEF SessionInv, ListedPays
  <2> QED
    BY <1>1, <1>5, <1>6, <2>1 DEF ImageListed
<1>12. OneAccount'
  BY <1>1, <1>6, <1>7 DEF SessionInv, OneAccount
<1> QED
  BY <1>8, <1>9, <1>10, <1>11, <1>12 DEF SessionInv

(* What the site answers names the account that asked, and its keys.        *)
LEMMA ServeKeeps ==
    ASSUME SessionInv, NEW s \in Slots, Serve(s)
    PROVE  SessionInv'
<1>1. /\ token' = token /\ stored' = stored /\ active' = active /\ session' = session
      /\ config' = config /\ acts' = acts /\ crossed' = crossed /\ switched' = switched
      /\ s \in InFlight
  BY DEF Serve
<1>2. calls \in [Slots -> CallSet] /\ active \subseteq ApiKeys
  BY DEF SessionInv, SessionTypes
<1>3. PICK a \in {"ok", "failed", "unauthorized"} :
          calls' = [calls EXCEPT ![s].answer = a,
                        ![s].user = IF a = "ok" THEN calls[s].asked ELSE Nobody,
                        ![s].keys = IF a = "ok" THEN KeysOf(calls[s].asked) ELSE {}]
  BY DEF Serve
<1>4. PICK user : user = IF a = "ok" THEN calls[s].asked ELSE Nobody
  OBVIOUS
<1>5. PICK ks : ks = IF a = "ok" THEN KeysOf(calls[s].asked) ELSE {}
  OBVIOUS
<1>6. /\ user \in Users /\ user \in {Nobody, calls[s].asked}
      /\ ks \subseteq ApiKeys /\ \A k \in ks : Owner[k] = calls[s].asked
  <2>1. calls[s].asked \in Users
    BY <1>2 DEF CallSet
  <2> QED
    BY <1>2, <1>4, <1>5, <2>1 DEF KeysOf, Users
<1>7. PICK c : c = [calls[s] EXCEPT !.answer = a, !.user = user, !.keys = ks]
  OBVIOUS
<1>8. /\ c \in CallSet /\ c.kind = calls[s].kind /\ c.stage = calls[s].stage /\ c.key = calls[s].key
      /\ c.asked = calls[s].asked /\ c.alone = calls[s].alone /\ c.user = user /\ c.keys = ks
  <2>1. calls[s] \in CallSet
    BY <1>2
  <2> QED
    BY <1>6, <1>7, <2>1 DEF CallSet
<1>9. calls' = [calls EXCEPT ![s] = c]
  BY <1>2, <1>3, <1>4, <1>5, <1>7
<1>10. /\ calls' \in [Slots -> CallSet] /\ calls'[s] = c
       /\ \A t \in Slots \ {s} : calls'[t] = calls[t]
  BY <1>2, <1>8, <1>9
<1>11. InFlight' = InFlight /\ Connections' = Connections
  <2>1. \A t \in Slots : calls'[t].kind = calls[t].kind
    BY <1>8, <1>10
  <2> QED
    BY <2>1 DEF InFlight, Connections
<1>12. Connections \subseteq Slots
  BY DEF Connections, InFlight
<1>13. SessionTypes'
  BY <1>1, <1>10 DEF SessionInv, SessionTypes
<1>14. Keyed' /\ AloneIsOnly' /\ AloneShows' /\ NothingPays'
  BY <1>1, <1>8, <1>10, <1>11, <1>12 DEF SessionInv, Keyed, AloneIsOnly, AloneShows, NothingPays
<1>15. ListedPays' /\ RestLists' /\ ChannelPays' /\ ImageListed' /\ NothingYet'
  BY <1>1 DEF SessionInv, ListedPays, RestLists, ChannelPays, ImageListed, NothingYet
<1>16. OneAccount'
  BY <1>1, <1>6, <1>8, <1>10, <1>11 DEF SessionInv, OneAccount, InFlight
<1> QED
  BY <1>13, <1>14, <1>15, <1>16 DEF SessionInv
(* A call goes on with its next request, or is over.                        *)
LEMMA CallGoesOn ==
    ASSUME SessionTypes, NEW s \in Connections, NEW stage \in CallStages, NEW k \in Credentials,
           GoesOn(s, stage, k)
    PROVE  /\ calls' \in [Slots -> CallSet] /\ \A t \in Slots \ {s} : calls'[t] = calls[t]
           /\ InFlight' = InFlight /\ Connections' = Connections
           /\ calls'[s].kind = calls[s].kind /\ calls'[s].stage = stage /\ calls'[s].key = k
           /\ calls'[s].asked = token /\ calls'[s].user = Nobody /\ calls'[s].keys = {}
           /\ calls'[s].alone = calls[s].alone
<1>1. /\ s \in Slots /\ s \in InFlight /\ calls \in [Slots -> CallSet]
      /\ calls[s].kind \in {"refresh", "select"}
  BY DEF Connections, InFlight, SessionTypes
<1>2. PICK kind : kind = calls[s].kind
  OBVIOUS
<1>3. kind \in CallKinds
  BY <1>1, <1>2 DEF CallKinds
<1>4. PICK d \in CallSet : /\ d = Call(kind, stage, k)
                           /\ d.kind = kind /\ d.stage = stage /\ d.key = k /\ d.asked = token
                           /\ d.user = Nobody /\ d.keys = {}
  BY <1>3, NewCall
<1>5. PICK b \in BOOLEAN : b = calls[s].alone
  <2>1. calls[s] \in CallSet
    BY <1>1
  <2> QED
    BY <2>1 DEF CallSet
<1>6. PICK c : c = [d EXCEPT !.alone = b]
  OBVIOUS
<1>7. /\ c \in CallSet /\ c.kind = kind /\ c.stage = stage /\ c.key = k /\ c.asked = token
      /\ c.user = Nobody /\ c.keys = {} /\ c.alone = b
  BY <1>4, <1>6 DEF CallSet
<1>8. calls' = [calls EXCEPT ![s] = c]
  BY <1>2, <1>4, <1>5, <1>6 DEF GoesOn
<1>9. /\ calls' \in [Slots -> CallSet] /\ calls'[s] = c
      /\ \A t \in Slots \ {s} : calls'[t] = calls[t]
      /\ InFlight' = (InFlight \ {s}) \cup (IF c.kind = "idle" THEN {} ELSE {s})
      /\ Connections' = (Connections \ {s})
                            \cup (IF c.kind \in {"refresh", "select"} THEN {s} ELSE {})
  BY <1>1, <1>7, <1>8, OneCallMoves
<1> QED
  BY <1>1, <1>2, <1>5, <1>7, <1>9

LEMMA CallIsDone ==
    ASSUME SessionTypes, NEW s \in InFlight, Done(s)
    PROVE  /\ calls' \in [Slots -> CallSet] /\ \A t \in Slots \ {s} : calls'[t] = calls[t]
           /\ InFlight' = InFlight \ {s} /\ Connections' = Connections \ {s}
           /\ calls'[s].stage = "none"
<1>1. s \in Slots
  BY DEF InFlight
<1>2. PICK c \in CallSet : c = Idle /\ c.kind = "idle" /\ c.stage = "none"
  BY IdleIsCall
<1>3. calls' = [calls EXCEPT ![s] = c]
  BY <1>2 DEF Done
<1>4. /\ calls' \in [Slots -> CallSet] /\ calls'[s] = c
      /\ \A t \in Slots \ {s} : calls'[t] = calls[t]
      /\ InFlight' = (InFlight \ {s}) \cup (IF c.kind = "idle" THEN {} ELSE {s})
      /\ Connections' = (Connections \ {s})
                            \cup (IF c.kind \in {"refresh", "select"} THEN {s} ELSE {})
  BY <1>1, <1>3, OneCallMoves
<1> QED
  BY <1>2, <1>4

(* A connection that is over, or has come further: no other is alone.       *)
LEMMA OthersNotAlone ==
    ASSUME AloneIsOnly, NEW s \in Connections, NEW t \in Connections, t # s
    PROVE  ~calls[t].alone
BY DEF AloneIsOnly

(* What is not the page's: the account, the stored key and the keys that    *)
(* work, which change under everything in flight.                           *)
LEMMA OutsideKeeps ==
    ASSUME SessionInv, token' \in Users, stored' \in Credentials, active' \subseteq ApiKeys,
           acts' \in 0..MaxActs, switched' \in BOOLEAN, ~switched' => ~switched /\ token' = token,
           session' = session, config' = config, calls' = calls, crossed' = crossed
    PROVE  SessionInv'
<1>1. InFlight' = InFlight /\ Connections' = Connections
  BY DEF InFlight, Connections
<1>2. SessionTypes' /\ Keyed'
  BY DEF SessionInv, SessionTypes, Keyed
<1>3. AloneIsOnly' /\ AloneShows' /\ NothingPays'
  BY <1>1 DEF SessionInv, AloneIsOnly, AloneShows, NothingPays
<1>4. ListedPays' /\ RestLists' /\ ChannelPays' /\ ImageListed' /\ NothingYet'
  BY DEF SessionInv, ListedPays, RestLists, ChannelPays, ImageListed, NothingYet
<1>5. OneAccount'
  BY <1>1 DEF SessionInv, OneAccount
<1> QED
  BY <1>2, <1>3, <1>4, <1>5 DEF SessionInv

(* The balance has come: of the account that asked.                         *)
LEMMA SettleUsageKeeps ==
    ASSUME SessionInv, NEW s \in Slots, SettleUsage(s)
    PROVE  SessionInv'
<1>1. /\ token' = token /\ stored' = stored /\ active' = active /\ config' = config
      /\ acts' = acts /\ crossed' = crossed /\ switched' = switched
      /\ s \in InFlight /\ calls[s].kind = "usage" /\ Done(s)
      /\ session' = IF calls[s].answer = "ok" THEN [session EXCEPT !.user = calls[s].user] ELSE session
  BY DEF SettleUsage
<1>2. session \in SessionSet /\ calls \in [Slots -> CallSet]
  BY DEF SessionInv, SessionTypes
<1>3. PICK user : user = calls[s].user
  OBVIOUS
<1>4. user \in Users
  <2>1. calls[s] \in CallSet
    BY <1>2
  <2> QED
    BY <1>3, <2>1 DEF CallSet
<1>5. /\ session' \in SessionSet /\ session'.status = session.status /\ session'.busy = session.busy
      /\ session'.error = session.error /\ session'.keys = session.keys
      /\ session'.models = session.models /\ session'.selected = session.selected
      /\ session'.user \in {session.user, user}
  BY <1>1, <1>2, <1>3, <1>4 DEF SessionSet
<1>6. /\ calls' \in [Slots -> CallSet] /\ \A t \in Slots \ {s} : calls'[t] = calls[t]
      /\ InFlight' = InFlight \ {s} /\ Connections' = Connections \ {s} /\ calls'[s].stage = "none"
  BY <1>1, CallIsDone DEF SessionInv
<1>7. s \notin Connections /\ Connections' = Connections /\ Connections \subseteq Slots
  BY <1>1, <1>6 DEF Connections, InFlight
<1>8. SessionTypes' /\ Keyed'
  BY <1>1, <1>5, <1>6 DEF SessionInv, SessionTypes, Keyed
<1>9. AloneIsOnly' /\ AloneShows' /\ NothingPays'
  BY <1>1, <1>5, <1>6, <1>7 DEF SessionInv, AloneIsOnly, AloneShows, NothingPays
<1>10. ListedPays' /\ RestLists' /\ ChannelPays' /\ ImageListed' /\ NothingYet'
  BY <1>1, <1>5 DEF SessionInv, ListedPays, RestLists, ChannelPays, ImageListed, NothingYet
<1>11. OneAccount'
  BY <1>1, <1>3, <1>5, <1>6 DEF SessionInv, OneAccount, InFlight
<1> QED
  BY <1>8, <1>9, <1>10, <1>11 DEF SessionInv

(* The account has come: the key to connect is one of its keys.             *)
LEMMA SettleAccountKeeps ==
    ASSUME SessionInv, NEW s \in Slots, SettleAccount(s)
    PROVE  SessionInv'
<1> DEFINE ks   == calls[s].keys
           pick == IF ks = {} THEN NoKey ELSE IF stored \in ks THEN stored ELSE First(ks)
<1>1. /\ token' = token /\ stored' = stored /\ active' = active
      /\ acts' = acts /\ crossed' = crossed /\ switched' = switched
      /\ s \in InFlight /\ s \in Connections /\ calls[s].kind = "refresh"
  BY DEF SettleAccount, Connections
<1>2. /\ session' = [status |-> "authenticated", user |-> calls[s].user, keys |-> ks, selected |-> pick,
                     models |-> NoKey, busy |-> pick # NoKey, error |-> pick = NoKey]
      /\ config' = IF pick = NoKey THEN Cleared(config) ELSE config
      /\ IF pick = NoKey THEN Done(s) ELSE GoesOn(s, "secret", pick)
  BY DEF SettleAccount
<1>3. session \in SessionSet /\ config \in ConfigSet /\ calls \in [Slots -> CallSet]
  BY DEF SessionInv, SessionTypes
<1>4. /\ ks \subseteq ApiKeys /\ calls[s].user \in Users
  <2>1. calls[s] \in CallSet
    BY <1>3
  <2> QED
    BY <2>1 DEF CallSet
<1>5. pick \in Credentials /\ (pick # NoKey => pick \in ks)
  <2>1. ApiKeys \subseteq Nat
    BY KeysAssumption
  <2>2. ks # {} => First(ks) \in ks
    BY <1>4, <2>1, LeastFirst
  <2> QED
    BY <1>4, <2>2 DEF Credentials
<1>6. /\ SessionTypes /\ AloneIsOnly /\ "secret" \in CallStages
  BY DEF SessionInv, CallStages
<1>7. ~switched => /\ calls[s].user \in {Nobody, token} /\ \A k \in ks : Owner[k] = token
  BY <1>1 DEF SessionInv, OneAccount
<1> HIDE DEF pick, ks
<1>12. PICK b \in BOOLEAN : b = (pick # NoKey)
  OBVIOUS
<1>13. PICK e \in BOOLEAN : e = (pick = NoKey)
  OBVIOUS
<1>14. session' = [status |-> "authenticated", user |-> calls[s].user, keys |-> ks, selected |-> pick,
                   models |-> NoKey, busy |-> b, error |-> e]
  BY <1>2, <1>12, <1>13
<1>8. /\ session' \in SessionSet /\ session'.status = "authenticated" /\ session'.user = calls[s].user
      /\ session'.keys = ks /\ session'.selected = pick /\ session'.models = NoKey
      /\ session'.busy = b /\ session'.error = e
  BY <1>4, <1>5, <1>14 DEF SessionSet, Credentials
<1>9. Connections \subseteq Slots /\ InFlight \subseteq Slots
  BY DEF Connections, InFlight
<1>10. CASE pick = NoKey
  <2>1. config' = Cleared(config) /\ Done(s)
    BY <1>2, <1>10
  <2>2. /\ config' \in ConfigSet /\ config'.cred = NoKey /\ config'.channel = config.channel
        /\ config'.image = config.image
    BY <1>3, <2>1, ClearedConfig
  <2>3. /\ calls' \in [Slots -> CallSet] /\ \A t \in Slots \ {s} : calls'[t] = calls[t]
        /\ InFlight' = InFlight \ {s} /\ Connections' = Connections \ {s} /\ calls'[s].stage = "none"
    BY <1>1, <1>6, <2>1, CallIsDone
  <2>4. \A t \in Connections' : ~calls'[t].alone
    BY <1>1, <1>6, <1>9, <2>3, OthersNotAlone
  <2>5. SessionTypes' /\ Keyed'
    BY <1>1, <1>8, <2>2, <2>3 DEF SessionInv, SessionTypes, Keyed
  <2>6. AloneIsOnly' /\ AloneShows' /\ NothingPays'
    BY <2>4 DEF AloneIsOnly, AloneShows, NothingPays
  <2>7. ListedPays' /\ RestLists' /\ ChannelPays' /\ ImageListed' /\ NothingYet'
    BY <1>8, <1>10, <1>12, <1>13, <2>2 DEF SessionInv, ListedPays, RestLists, ChannelPays, ImageListed, NothingYet
  <2>8. OneAccount'
    BY <1>1, <1>7, <1>8, <1>9, <2>2, <2>3 DEF SessionInv, OneAccount
  <2> QED
    BY <2>5, <2>6, <2>7, <2>8 DEF SessionInv
<1>11. CASE pick # NoKey
  <2>1. config' = config /\ GoesOn(s, "secret", pick)
    BY <1>2, <1>11
  <2>2. /\ calls' \in [Slots -> CallSet] /\ \A t \in Slots \ {s} : calls'[t] = calls[t]
        /\ InFlight' = InFlight /\ Connections' = Connections
        /\ calls'[s].kind = calls[s].kind /\ calls'[s].stage = "secret" /\ calls'[s].key = pick
        /\ calls'[s].asked = token /\ calls'[s].user = Nobody /\ calls'[s].keys = {}
        /\ calls'[s].alone = calls[s].alone
    <3>1. PICK stage \in CallStages : stage = "secret"
      BY <1>6
    <3>2. GoesOn(s, stage, pick)
      BY <2>1, <3>1
    <3>3. /\ calls' \in [Slots -> CallSet] /\ \A t \in Slots \ {s} : calls'[t] = calls[t]
          /\ InFlight' = InFlight /\ Connections' = Connections
          /\ calls'[s].kind = calls[s].kind /\ calls'[s].stage = stage /\ calls'[s].key = pick
          /\ calls'[s].asked = token /\ calls'[s].user = Nobody /\ calls'[s].keys = {}
          /\ calls'[s].alone = calls[s].alone
      BY <1>1, <1>5, <1>6, <3>2, CallGoesOn
    <3> QED
      BY <3>1, <3>3
  <2>3. \A t \in Connections : t # s => ~calls'[t].alone
    BY <1>1, <1>6, <1>9, <2>2, OthersNotAlone
  <2>4. SessionTypes' /\ Keyed'
    <3>1. SessionTypes'
      BY <1>1, <1>3, <1>8, <2>1, <2>2 DEF SessionInv, SessionTypes
    <3>2. pick \in ApiKeys
      BY <1>4, <1>5, <1>11
    <3>3. Keyed
      BY DEF SessionInv
    <3>4. Keyed'
      BY <1>1, <2>2, <3>2, <3>3 DEF Keyed
    <3> QED
      BY <3>1, <3>4
  <2>5. AloneIsOnly'
    BY <1>1, <1>6, <2>2, <2>3 DEF AloneIsOnly
  <2>6. AloneShows' /\ NothingPays'
    BY <1>1, <1>8, <1>11, <1>12, <2>2, <2>3 DEF AloneShows, NothingPays
  <2>7. ListedPays' /\ RestLists' /\ ChannelPays' /\ ImageListed' /\ NothingYet'
    BY <1>1, <1>8, <1>11, <1>12, <2>1
    DEF SessionInv, ListedPays, RestLists, ChannelPays, ImageListed, NothingYet
  <2>8. OneAccount'
    <3>1. OneAccount
      BY DEF SessionInv
    <3>2. ASSUME ~switched, NEW t \in InFlight, t # s
          PROVE  /\ calls'[t].asked = token /\ calls'[t].user \in {Nobody, token}
                 /\ \A k \in calls'[t].keys : Owner[k] = token
                 /\ calls'[t].key # NoKey => Owner[calls'[t].key] = token
      BY <1>9, <2>2, <3>1, <3>2 DEF OneAccount
    <3>3. ~switched => Owner[pick] = token
      BY <1>5, <1>7, <1>11
    <3> QED
      BY <1>1, <1>7, <1>8, <2>1, <2>2, <3>1, <3>2, <3>3 DEF OneAccount
  <2> QED
    BY <2>4, <2>5, <2>6, <2>7, <2>8 DEF SessionInv
<1> QED
  BY <1>10, <1>11

(* The secret has come, and the models are asked for with it.               *)
LEMMA SettleSecretKeeps ==
    ASSUME SessionInv, NEW s \in Slots, SettleSecret(s)
    PROVE  SessionInv'
<1>1. /\ token' = token /\ stored' = stored /\ active' = active /\ session' = session
      /\ config' = config /\ acts' = acts /\ crossed' = crossed /\ switched' = switched
      /\ s \in InFlight /\ calls[s].stage = "secret"
  BY DEF SettleSecret
<1>2. PICK k : k = calls[s].key
  OBVIOUS
<1>3. PICK stage \in CallStages : stage = "models"
  BY DEF CallStages
<1>4. s \in Connections /\ k \in ApiKeys /\ k \in Credentials
  <2>1. calls[s].kind \in {"refresh", "select"} /\ calls[s].key \in ApiKeys
    BY <1>1 DEF SessionInv, Keyed
  <2> QED
    BY <1>1, <1>2, <2>1 DEF Connections, Credentials
<1>5. GoesOn(s, stage, k)
  BY <1>2, <1>3 DEF SettleSecret
<1>6. /\ calls' \in [Slots -> CallSet] /\ \A t \in Slots \ {s} : calls'[t] = calls[t]
      /\ InFlight' = InFlight /\ Connections' = Connections
      /\ calls'[s].kind = calls[s].kind /\ calls'[s].stage = stage /\ calls'[s].key = k
      /\ calls'[s].asked = token /\ calls'[s].user = Nobody /\ calls'[s].keys = {}
      /\ calls'[s].alone = calls[s].alone
  BY <1>4, <1>5, CallGoesOn DEF SessionInv
<1>7. Connections \subseteq Slots /\ InFlight \subseteq Slots
  BY DEF Connections, InFlight
<1>8. SessionTypes'
  BY <1>1, <1>6 DEF SessionInv, SessionTypes
<1>9. Keyed'
  <2>1. Keyed
    BY DEF SessionInv
  <2> QED
    BY <1>1, <1>4, <1>6, <2>1 DEF Keyed
<1>10. AloneIsOnly'
  BY <1>6, <1>7 DEF SessionInv, AloneIsOnly
<1>11. AloneShows' /\ NothingPays'
  BY <1>1, <1>2, <1>3, <1>4, <1>6, <1>7 DEF SessionInv, AloneShows, NothingPays
<1>12. ListedPays' /\ RestLists' /\ ChannelPays' /\ ImageListed' /\ NothingYet'
  BY <1>1 DEF SessionInv, ListedPays, RestLists, ChannelPays, ImageListed, NothingYet
<1>13. OneAccount'
  <2>1. OneAccount
    BY DEF SessionInv
  <2> QED
    BY <1>1, <1>2, <1>6, <1>7, <2>1 DEF OneAccount
<1> QED
  BY <1>8, <1>9, <1>10, <1>11, <1>12, <1>13 DEF SessionInv

(* preferredModel: a model the key offers, and one that makes images if the *)
(* key has any.                                                             *)
LEMMA PreferredIsListed ==
    ASSUME NEW k \in ApiKeys, NEW v \in ModelIds
    PROVE  /\ Preferred(k, v) \in ModelIds
           /\ ImagesOf(k) # {} => /\ Preferred(k, v).of = k
                                  /\ Preferred(k, v).name \in ImagesOf(k)
<1>1. k \in Credentials /\ NoKey \in Credentials
  BY DEF Credentials
<1>2. ImagesOf(k) \subseteq Models
  BY DEF ImagesOf, Models
<1>6. PICK p : p = Preferred(k, v)
  OBVIOUS
<1> SUFFICES /\ p \in ModelIds
             /\ ImagesOf(k) # {} => p.of = k /\ p.name \in ImagesOf(k)
  BY <1>6
<1>3. CASE v.name \in ImagesOf(k)
  <2>1. p = [of |-> k, name |-> v.name]
    BY <1>3, <1>6 DEF Preferred, Encoded
  <2>2. p \in ModelIds /\ p.of = k /\ p.name = v.name
    BY <1>1, <1>2, <1>3, <2>1 DEF ModelIds
  <2> QED
    BY <1>3, <2>2
<1>4. CASE v.name \notin ImagesOf(k) /\ ImagesOf(k) = {}
  <2>1. p = [of |-> NoKey, name |-> ""]
    BY <1>4, <1>6 DEF Preferred, NoModel
  <2>2. p \in ModelIds
    BY <1>1, <2>1 DEF ModelIds
  <2> QED
    BY <1>4, <2>2
<1>5. CASE v.name \notin ImagesOf(k) /\ ImagesOf(k) # {}
  <2> DEFINE Makes == {i \in DOMAIN Offers[k] : Offers[k][i] \in ImageModels}
             name  == Offers[k][First(Makes)]
  <2>1. Offers[k] \in Seq(OfferedBy(k))
    BY KeysAssumption
  <2>2. DOMAIN Offers[k] \subseteq Nat
    BY <2>1
  <2>3. Makes # {}
    BY <1>5 DEF ImagesOf, OfferedBy
  <2>4. First(Makes) \in Makes
    BY <2>2, <2>3, LeastFirst
  <2>5. name \in ImagesOf(k)
    BY <2>4 DEF ImagesOf, OfferedBy
  <2>6. p = [of |-> k, name |-> name]
    BY <1>5, <1>6 DEF Preferred, Encoded
  <2> HIDE DEF name, Makes
  <2>7. p \in ModelIds /\ p.of = k /\ p.name = name
    BY <1>1, <1>2, <2>5, <2>6 DEF ModelIds
  <2> QED
    BY <2>5, <2>7
<1> QED
  BY <1>3, <1>4, <1>5

(* A key is connected: it pays, alone, and its models are the ones listed.  *)
LEMMA SettleModelsKeeps ==
    ASSUME SessionInv, NEW s \in Slots, SettleModels(s)
    PROVE  SessionInv'
<1>1. PICK k : k = calls[s].key
  OBVIOUS
<1>2. /\ token' = token /\ stored' = stored /\ active' = active
      /\ acts' = acts /\ switched' = switched /\ crossed' = ~calls[s].alone
      /\ s \in InFlight /\ calls[s].stage = "models" /\ Done(s)
      /\ config' = Connected(config, k)
      /\ session' = [session EXCEPT !.models = k, !.busy = FALSE]
  BY <1>1 DEF SettleModels
<1>3. s \in Connections /\ k \in ApiKeys /\ k \in Credentials
  <2>1. calls[s].kind \in {"refresh", "select"} /\ calls[s].key \in ApiKeys
    BY <1>2 DEF SessionInv, Keyed
  <2> QED
    BY <1>1, <1>2, <2>1 DEF Connections, Credentials
<1>4. session \in SessionSet /\ config \in ConfigSet /\ calls \in [Slots -> CallSet] /\ k # NoKey
  BY <1>3, KeysAssumption DEF SessionInv, SessionTypes
<1>5. crossed' \in BOOLEAN
  <2>1. calls[s] \in CallSet
    BY <1>2, <1>4 DEF InFlight
  <2> QED
    BY <1>2, <2>1 DEF CallSet
<1>6. /\ session' \in SessionSet /\ session'.status = session.status /\ session'.busy = FALSE
      /\ session'.user = session.user /\ session'.keys = session.keys
      /\ session'.models = k /\ session'.selected = session.selected
  BY <1>2, <1>3, <1>4 DEF SessionSet
<1>7. PICK image : image = Preferred(k, config.image)
  OBVIOUS
<1>8. image \in ModelIds /\ (ImagesOf(k) # {} => image.of = k /\ image.name \in ImagesOf(k))
  <2>1. config.image \in ModelIds
    BY <1>4 DEF ConfigSet
  <2> QED
    BY <1>3, <1>7, <2>1, PreferredIsListed
<1>9. /\ config' \in ConfigSet /\ config'.cred = k /\ config'.channel = k /\ config'.image = image
  <2>1. config' = [cred |-> k, channel |-> k, image |-> image]
    BY <1>2, <1>7 DEF Connected
  <2> QED
    BY <1>3, <1>8, <2>1 DEF ConfigSet
<1>10. /\ calls' \in [Slots -> CallSet] /\ \A t \in Slots \ {s} : calls'[t] = calls[t]
       /\ InFlight' = InFlight \ {s} /\ Connections' = Connections \ {s} /\ calls'[s].stage = "none"
  BY <1>2, CallIsDone DEF SessionInv
<1>11. Connections \subseteq Slots /\ InFlight \subseteq Slots
  BY DEF Connections, InFlight
<1>12. \A t \in Connections' : ~calls'[t].alone
  BY <1>3, <1>10, <1>11, OthersNotAlone DEF SessionInv
<1>13. SessionTypes'
  BY <1>2, <1>5, <1>6, <1>9, <1>10 DEF SessionInv, SessionTypes
<1>14. Keyed'
  BY <1>10 DEF SessionInv, Keyed
<1>15. AloneIsOnly' /\ AloneShows' /\ NothingPays'
  BY <1>12 DEF AloneIsOnly, AloneShows, NothingPays
<1>16. ListedPays'
  <2>1. ~crossed' => session.selected = k
    BY <1>1, <1>2, <1>3 DEF SessionInv, AloneShows
  <2> QED
    BY <1>6, <1>9, <2>1 DEF ListedPays
<1>17. RestLists' /\ ChannelPays' /\ ImageListed' /\ NothingYet'
  BY <1>4, <1>6, <1>8, <1>9 DEF RestLists, ChannelPays, ImageListed, NothingYet
<1>18. OneAccount'
  <2>1. OneAccount
    BY DEF SessionInv
  <2>2. ~switched => Owner[k] = token
    BY <1>1, <1>2, <1>4, <2>1 DEF OneAccount
  <2> QED
    BY <1>2, <1>6, <1>9, <1>10, <1>11, <2>1, <2>2 DEF OneAccount
<1> QED
  BY <1>13, <1>14, <1>15, <1>16, <1>17, <1>18 DEF SessionInv

(* A connection fails: what pays stays, and the drawer says so.             *)
LEMMA SettleErrorKeeps ==
    ASSUME SessionInv, NEW s \in Slots, SettleError(s)
    PROVE  SessionInv'
<1>1. /\ token' = token /\ stored' = stored /\ active' = active /\ config' = config
      /\ acts' = acts /\ crossed' = crossed /\ switched' = switched
      /\ s \in Connections /\ Done(s)
  BY DEF SettleError
<1>2. /\ session \in SessionSet /\ s \in InFlight
      /\ Connections \subseteq Slots /\ InFlight \subseteq Slots
  BY <1>1 DEF SessionInv, SessionTypes, Connections, InFlight
<1>3. /\ session' \in SessionSet /\ session'.user \in {Nobody, session.user}
      /\ session'.keys \subseteq session.keys
      /\ \/ session'.status = "missing" /\ session'.models = NoKey
         \/ /\ session'.error = TRUE
            /\ session'.models = session.models /\ session'.selected = session.selected
  <2>1. CASE calls[s].kind = "refresh" /\ calls[s].answer = "unauthorized"
    <3>1. PICK out : out = SignedOut(session)
      OBVIOUS
    <3>2. /\ out \in SessionSet /\ out.status = "missing" /\ out.user = Nobody /\ out.keys = {}
          /\ out.models = NoKey
      BY <1>2, <3>1, SignedOutSession
    <3>3. session' = [out EXCEPT !.busy = FALSE]
      BY <2>1, <3>1 DEF SettleError
    <3> QED
      BY <3>2, <3>3 DEF SessionSet
  <2>2. CASE ~(calls[s].kind = "refresh" /\ calls[s].answer = "unauthorized")
    <3>1. PICK status : status = IF calls[s].kind = "select" THEN session.status
                                 ELSE IF session.user # Nobody THEN "authenticated" ELSE "error"
      OBVIOUS
    <3>2. status \in {"loading", "authenticated", "missing", "error"}
      BY <1>2, <3>1 DEF SessionSet
    <3>3. session' = [session EXCEPT !.busy = FALSE, !.error = TRUE, !.status = status]
      BY <2>2, <3>1 DEF SettleError
    <3> QED
      BY <1>2, <3>2, <3>3 DEF SessionSet
  <2> QED
    BY <2>1, <2>2
<1>4. /\ calls' \in [Slots -> CallSet] /\ \A t \in Slots \ {s} : calls'[t] = calls[t]
      /\ InFlight' = InFlight \ {s} /\ Connections' = Connections \ {s} /\ calls'[s].stage = "none"
  BY <1>1, <1>2, CallIsDone DEF SessionInv
<1>5. \A t \in Connections' : ~calls'[t].alone
  BY <1>1, <1>2, <1>4, OthersNotAlone DEF SessionInv
<1>6. SessionTypes' /\ Keyed'
  BY <1>1, <1>3, <1>4 DEF SessionInv, SessionTypes, Keyed
<1>7. AloneIsOnly' /\ AloneShows' /\ NothingPays'
  BY <1>5 DEF AloneIsOnly, AloneShows, NothingPays
<1>8. ListedPays' /\ RestLists' /\ ChannelPays' /\ ImageListed' /\ NothingYet'
  BY <1>1, <1>3 DEF SessionInv, ListedPays, RestLists, ChannelPays, ImageListed, NothingYet
<1>9. OneAccount'
  BY <1>1, <1>2, <1>3, <1>4 DEF SessionInv, OneAccount
<1> QED
  BY <1>6, <1>7, <1>8, <1>9 DEF SessionInv

(* partialize and merge: the secret is gone, and a model that is not listed *)
(* is none.                                                                 *)
LEMMA RestoredConfig ==
    ASSUME NEW c \in ConfigSet, c.channel = NoKey => c.image = Encoded(NoKey, FallbackModel)
    PROVE  /\ Restored(c) \in ConfigSet /\ Restored(c).cred = NoKey
           /\ Restored(c).channel = c.channel
           /\ c.channel = NoKey => Restored(c).image = Encoded(NoKey, FallbackModel)
<1> DEFINE image == IF c.image = NoModel THEN Encoded(c.channel, Offers[c.channel][1]) ELSE c.image
           kept  == IF image.of = c.channel /\ (c.channel = NoKey \/ image.name \in OfferedBy(c.channel))
                    THEN image ELSE NoModel
<1>1. Restored(c) = [cred |-> NoKey, channel |-> c.channel, image |-> kept]
  BY DEF Restored
<1>2. NoKey \in Credentials /\ c.channel \in Credentials /\ c.image \in ModelIds /\ NoModel \in ModelIds
  BY DEF ConfigSet, Credentials, NoModel, ModelIds
<1>3. Encoded(NoKey, FallbackModel) # NoModel
  <2>1. FallbackModel # ""
    BY KeysAssumption
  <2> QED
    BY <2>1 DEF Encoded, NoModel
<1>4. kept \in ModelIds
  <2>1. CASE c.image # NoModel
    BY <1>2, <2>1
  <2>2. CASE c.image = NoModel
    <3>1. c.channel \in ApiKeys
      BY <1>2, <1>3, <2>2 DEF Credentials
    <3>2. Offers[c.channel] \in Seq(OfferedBy(c.channel)) /\ Offers[c.channel] # <<>>
      BY <3>1, KeysAssumption
    <3>3. Offers[c.channel][1] \in OfferedBy(c.channel)
      BY <3>2
    <3>4. Offers[c.channel][1] \in Models
      BY <3>1, <3>3 DEF Models
    <3>5. Encoded(c.channel, Offers[c.channel][1]) \in ModelIds
      BY <1>2, <3>4 DEF Encoded, ModelIds
    <3> QED
      BY <1>2, <2>2, <3>5
  <2> QED
    BY <2>1, <2>2
<1>5. c.channel = NoKey => kept = Encoded(NoKey, FallbackModel)
  BY <1>3 DEF Encoded
<1> HIDE DEF kept
<1> QED
  BY <1>1, <1>2, <1>4, <1>5 DEF ConfigSet

(* A reload: nothing is in flight and nothing pays.                         *)
LEMMA ReloadKeeps ==
    ASSUME SessionInv, Reload
    PROVE  SessionInv'
<1>1. /\ token' = token /\ stored' = stored /\ active' = active
      /\ crossed' = FALSE /\ switched' = FALSE /\ acts > 0 /\ acts' = acts - 1
      /\ session' = FreshSession /\ config' = Restored(config) /\ calls' = [s \in Slots |-> Idle]
  BY DEF Reload
<1>2. acts' \in 0..MaxActs
  BY <1>1, ActTaken DEF SessionInv
<1>3. /\ session' \in SessionSet /\ session'.status = "loading" /\ session'.user = Nobody
      /\ session'.keys = {} /\ session'.models = NoKey
  BY <1>1 DEF FreshSession, SessionSet, Credentials, Users
<1>4. /\ config' \in ConfigSet /\ config'.cred = NoKey
      /\ config'.channel = NoKey => config'.image = Encoded(NoKey, FallbackModel)
  <2>1. config \in ConfigSet /\ (config.channel = NoKey => config.image = Encoded(NoKey, FallbackModel))
    BY DEF SessionInv, SessionTypes, NothingYet
  <2> QED
    BY <1>1, <2>1, RestoredConfig
<1>5. calls' \in [Slots -> CallSet] /\ \A s \in Slots : calls'[s].kind = "idle" /\ calls'[s].stage = "none"
  BY <1>1, IdleIsCall
<1>6. InFlight' = {} /\ Connections' = {}
  BY <1>5 DEF InFlight, Connections
<1>7. SessionTypes' /\ Keyed'
  BY <1>1, <1>2, <1>3, <1>4, <1>5 DEF SessionInv, SessionTypes, Keyed
<1>8. AloneIsOnly' /\ AloneShows' /\ NothingPays'
  BY <1>6 DEF AloneIsOnly, AloneShows, NothingPays
<1>9. ListedPays' /\ RestLists' /\ ChannelPays' /\ ImageListed' /\ NothingYet'
  BY <1>3, <1>4 DEF ListedPays, RestLists, ChannelPays, ImageListed, NothingYet
<1>10. OneAccount'
  BY <1>3, <1>4, <1>6 DEF OneAccount
<1> QED
  BY <1>7, <1>8, <1>9, <1>10 DEF SessionInv

LEMMA SessionBegins ==
    ASSUME RequestsInit
    PROVE  SessionInv
<1>1. /\ token \in Users /\ stored = NoKey /\ active = ApiKeys /\ session = FreshSession
      /\ calls = [s \in Slots |-> Idle] /\ crossed = FALSE /\ switched = FALSE /\ acts = MaxActs
      /\ config = [cred |-> NoKey, channel |-> NoKey, image |-> Encoded(NoKey, FallbackModel)]
  BY DEF RequestsInit, SessionInit, Users
<1>2. MaxActs \in Nat
  BY KeysAssumption
<1>3. session \in SessionSet /\ session.status = "loading" /\ session.user = Nobody
      /\ session.keys = {} /\ session.models = NoKey
  BY <1>1 DEF FreshSession, SessionSet, Credentials, Users
<1>4. /\ config \in ConfigSet /\ config.cred = NoKey /\ config.image = Encoded(NoKey, FallbackModel)
  <2>3. NoKey \in Credentials
    BY DEF Credentials
  <2>4. FallbackModel \in Models
    BY DEF Models
  <2>1. NoKey \in Credentials /\ FallbackModel \in Models \cup {""}
    BY <2>3, <2>4
  <2>2. Encoded(NoKey, FallbackModel) \in ModelIds
    BY <2>1 DEF Encoded, ModelIds
  <2> QED
    BY <1>1, <2>1, <2>2 DEF ConfigSet
<1>5. calls \in [Slots -> CallSet] /\ \A s \in Slots : calls[s].kind = "idle" /\ calls[s].stage = "none"
  BY <1>1, IdleIsCall
<1>6. InFlight = {} /\ Connections = {}
  BY <1>5 DEF InFlight, Connections
<1>7. SessionTypes
  <2>1. token \in Users /\ stored \in Credentials /\ active \subseteq ApiKeys
    BY <1>1 DEF Credentials
  <2>2. acts \in 0..MaxActs /\ crossed \in BOOLEAN /\ switched \in BOOLEAN
    <3>1. acts = MaxActs /\ crossed = FALSE /\ switched = FALSE
      BY <1>1
    <3>2. acts \in 0..MaxActs
      BY <1>2, <3>1
    <3> QED
      BY <3>1, <3>2
  <2> QED
    BY <1>3, <1>4, <1>5, <2>1, <2>2 DEF SessionTypes
<1>8. Keyed
  BY <1>5 DEF Keyed
<1>9. AloneIsOnly /\ AloneShows /\ NothingPays
  BY <1>6 DEF AloneIsOnly, AloneShows, NothingPays
<1>10. ListedPays /\ RestLists /\ ChannelPays /\ ImageListed /\ NothingYet
  BY <1>3, <1>4 DEF ListedPays, RestLists, ChannelPays, ImageListed, NothingYet
<1>11. OneAccount
  BY <1>3, <1>4, <1>6 DEF OneAccount
<1> QED
  BY <1>7, <1>8, <1>9, <1>10, <1>11 DEF SessionInv

(* Every step of the session, whoever takes it.                             *)
LEMMA SessionSteps ==
    ASSUME SessionInv, SessionNext
    PROVE  SessionInv'
<1>1. ASSUME NEW s \in Slots, FirstRefresh(s) PROVE SessionInv'
  <2>1. s \notin InFlight /\ Refreshes(s) /\ Connections = {} /\ acts' = acts
    BY <1>1 DEF FirstRefresh
  <2>2. acts' \in 0..MaxActs
    BY <2>1 DEF SessionInv, SessionTypes
  <2> QED
    BY <2>1, <2>2, RefreshKeeps
<1>2. ASSUME NEW s \in Slots, Refresh(s) PROVE SessionInv'
  <2>1. /\ s \notin InFlight /\ Refreshes(s) /\ acts > 0 /\ acts' = acts - 1
        /\ session.status # "authenticated" \/ ~session.busy
    BY <1>2 DEF Refresh
  <2>2. acts' \in 0..MaxActs
    BY <2>1, ActTaken DEF SessionInv
  <2> QED
    BY <2>1, <2>2, RefreshKeeps
<1>3. ASSUME NEW s \in Slots, UsageTick(s) PROVE SessionInv'
  <2>1. acts' \in 0..MaxActs
    BY <1>3, ActTaken DEF UsageTick, SessionInv
  <2> QED
    BY <1>3, <2>1, UsageKeeps DEF UsageTick
<1>4. ASSUME NEW s \in Slots, Settle(s) PROVE SessionInv'
  BY <1>4, SettleUsageKeeps, SettleAccountKeeps, SettleSecretKeeps, SettleModelsKeeps, SettleErrorKeeps
  DEF Settle
<1>5. ASSUME NEW a \in Accounts \cup {Nobody}, SignIn(a) PROVE SessionInv'
  <2>1. /\ token' = a /\ switched' = TRUE /\ acts > 0 /\ acts' = acts - 1
        /\ stored' = stored /\ active' = active /\ session' = session /\ config' = config
        /\ calls' = calls /\ crossed' = crossed
    BY <1>5 DEF SignIn
  <2>2. acts' \in 0..MaxActs
    BY <2>1, ActTaken DEF SessionInv
  <2>3. token' \in Users /\ stored' \in Credentials /\ active' \subseteq ApiKeys
    BY <2>1 DEF SessionInv, SessionTypes, Users
  <2> QED
    BY <2>1, <2>2, <2>3, OutsideKeeps
<1>6. ASSUME NEW k \in ApiKeys, Toggle(k) \/ ChooseElsewhere(k) PROVE SessionInv'
  <2>1. /\ token' = token /\ switched' = switched /\ acts > 0 /\ acts' = acts - 1
        /\ session' = session /\ config' = config /\ calls' = calls /\ crossed' = crossed
        /\ stored' \in {stored, k} /\ active' \in {active, active \ {k}, active \cup {k}}
    BY <1>6 DEF Toggle, ChooseElsewhere
  <2>2. acts' \in 0..MaxActs
    BY <2>1, ActTaken DEF SessionInv
  <2>3. token' \in Users /\ stored' \in Credentials /\ active' \subseteq ApiKeys /\ switched' \in BOOLEAN
    BY <2>1 DEF SessionInv, SessionTypes, Credentials
  <2> QED
    BY <2>1, <2>2, <2>3, OutsideKeeps
<1> QED
  BY <1>1, <1>2, <1>3, <1>4, <1>5, <1>6, ServeKeeps, SelectKeeps, ModelKeeps DEF SessionNext

(* A request asks, is answered or stops: of the session it may take an act, *)
(* and have the balance read again.                                         *)
LEMMA SessionLeftAlone ==
    ASSUME SessionInv, acts' \in 0..MaxActs,
           UNCHANGED <<token, stored, active, session, config, calls, crossed, switched>>
    PROVE  SessionInv'
<1>1. /\ token' \in Users /\ stored' \in Credentials /\ active' \subseteq ApiKeys
      /\ switched' \in BOOLEAN
  BY DEF SessionInv, SessionTypes
<1> QED
  BY <1>1, OutsideKeeps

LEMMA SessionAmongRequests ==
    ASSUME SessionInv, [RequestsNext]_requestVars
    PROVE  SessionInv'
<1>1. ASSUME UNCHANGED sessionVars PROVE SessionInv'
  <2>1. acts' \in 0..MaxActs
    BY <1>1 DEF sessionVars, SessionInv, SessionTypes
  <2> QED
    BY <1>1, <2>1, SessionLeftAlone DEF sessionVars
<1>2. ASSUME NEW q \in Asks, NEW kind, Ask(q, kind) PROVE SessionInv'
  <2>1. acts' \in 0..MaxActs
    BY <1>2, ActTaken DEF Ask, SessionInv
  <2> QED
    BY <1>2, <2>1, SessionLeftAlone DEF Ask
<1>3. ASSUME NEW q \in Asks, Abort(q) PROVE SessionInv'
  <2>1. acts' \in 0..MaxActs
    BY <1>3, ActTaken DEF Abort, SessionInv
  <2> QED
    BY <1>3, <2>1, SessionLeftAlone DEF Abort
<1>4. ASSUME NEW q \in Asks, AnswerAny(q) \/ TaskMoves(q) \/ Chunk(q) PROVE SessionInv'
  <2>1. UNCHANGED sessionVars
    BY <1>4 DEF AnswerAny, TaskMoves, Chunk, Read, AnswerPost, AnswerPoll, Wake, AnswerFetch, StreamEnds
  <2> QED
    BY <1>1, <2>1
<1>5. ASSUME NEW q \in Asks, NEW s \in Slots, UsageTimer(q, s) PROVE SessionInv'
  <2>1. CASE UNCHANGED sessionVars
    BY <1>1, <2>1
  <2>2. CASE RefreshUsage(s) /\ acts' = acts
    <3>1. acts' \in 0..MaxActs
      BY <2>2 DEF SessionInv, SessionTypes
    <3> QED
      BY <2>2, <3>1, UsageKeeps
  <2> QED
    BY <1>5, <2>1, <2>2 DEF UsageTimer
<1>6. CASE UNCHANGED requestVars
  BY <1>1, <1>6 DEF requestVars
<1>7. CASE RequestsNext
  BY <1>2, <1>3, <1>4, <1>5, <1>7, SessionSteps, ReloadKeeps DEF RequestsNext, Leave
<1> QED
  BY <1>6, <1>7

(* What the invariant says of the models a node may name: whichever it is,  *)
(* an image is asked of a model the key that pays makes images with.        *)
LEMMA ResolvedPays ==
    ASSUME SessionInv, Ready(config), ~crossed, ImagesOf(config.cred) # {}, NEW v
    PROVE  Resolved(config, v).of = config.cred /\ Resolved(config, v).name \in ImagesOf(config.cred)
<1>1. /\ config.channel = config.cred /\ config.channel # NoKey
      /\ config.image.of = config.cred /\ config.image.name \in ImagesOf(config.cred)
  BY DEF SessionInv, ChannelPays, ImageListed, Ready
<1>2. Lists(config, config.image)
  BY <1>1 DEF Lists
<1>3. CASE Lists(config, v)
  BY <1>1, <1>3 DEF Lists, Resolved
<1>4. CASE ~Lists(config, v)
  BY <1>1, <1>2, <1>4 DEF Resolved
<1> QED
  BY <1>3, <1>4

LEMMA SessionInvSound ==
    ASSUME SessionInv
    PROVE  SessionSound
<1>1. SessionTypeOK
  <2>1. /\ token \in Users /\ stored \in Credentials /\ active \subseteq ApiKeys
        /\ session \in SessionSet /\ config \in ConfigSet /\ calls \in [Slots -> CallSet]
        /\ acts \in 0..MaxActs /\ crossed \in BOOLEAN /\ switched \in BOOLEAN
    BY DEF SessionInv, SessionTypes
  <2>2. \A s \in Slots : /\ calls[s].kind \in {"idle", "refresh", "select", "usage"}
                         /\ calls[s].answer \in {"none", "ok", "unauthorized", "failed"}
    BY <2>1 DEF CallSet
  <2>3. /\ session.status \in {"loading", "authenticated", "missing", "error"}
        /\ session.user \in Accounts \cup {Nobody} /\ session.keys \subseteq ApiKeys
        /\ {session.selected, session.models} \subseteq ApiKeys \cup {NoKey}
        /\ {session.busy, session.error} \subseteq BOOLEAN
    BY <2>1 DEF SessionSet, Users, Credentials
  <2>4. /\ {config.cred, config.channel} \subseteq ApiKeys \cup {NoKey}
        /\ config.image \in [of : ApiKeys \cup {NoKey}, name : Models \cup {""}]
    BY <2>1 DEF ConfigSet, Credentials, ModelIds
  <2>5. token \in Accounts \cup {Nobody} /\ stored \in ApiKeys \cup {NoKey}
    BY <2>1 DEF Users, Credentials
  <2> QED
    BY <2>1, <2>2, <2>3, <2>4, <2>5 DEF SessionTypeOK
<1>2. ~crossed /\ session.status = "authenticated" /\ ~session.busy /\ ~session.error =>
          session.selected # NoKey /\ {config.cred, config.channel, session.models} = {session.selected}
  BY DEF SessionInv, ListedPays, RestLists
<1>3. \A s \in Connections : calls[s].kind = "select" /\ calls[s].alone => config.cred = NoKey
  BY DEF SessionInv, NothingPays
<1>4. ~switched => /\ session.user \in {Nobody, token}
                   /\ config.cred # NoKey => Owner[config.cred] = token
  BY DEF SessionInv, OneAccount
<1>5. Ready(config) /\ ~crossed /\ ImagesOf(config.cred) # {} =>
          \A v \in {NoModel} \cup [of : ApiKeys, name : Models] :
              Resolved(config, v).of = config.cred /\ Resolved(config, v).name \in ImagesOf(config.cred)
  BY ResolvedPays
<1> QED
  BY <1>1, <1>2, <1>3, <1>4, <1>5 DEF SessionSound

(* The session is sound throughout (SessionSound): once nothing is          *)
(* connecting and nothing failed, the key the drawer shows is the one that  *)
(* pays and whose models are listed; from a choice to its connection        *)
(* nothing pays; while the same account is signed in no other account's key *)
(* pays; and an image is asked of a model the paying key offers.            *)
THEOREM SessionIsSound == RequestsSpec => []SessionSound
<1>1. RequestsInit => SessionInv
  BY SessionBegins
<1>2. SessionInv /\ [RequestsNext]_requestVars => SessionInv'
  BY SessionAmongRequests
<1>3. SessionInv => SessionSound
  BY SessionInvSound
<1> QED
  BY <1>1, <1>2, <1>3, PTL DEF RequestsSpec

-----------------------------------------------------------------------------
(* The requests of the canvas (ModelRequests).                             *)

USE PollsAssumption
(* A request as it is between two awaits.  Nothing here depends on what the *)
(* settings and the stream hold.                                            *)
AskSet(a) ==
    [kind : {"none", "image", "edit", "text", "video", "audio"}, stage : Stages, key : Credentials,
     model : {a.model}, crossed : BOOLEAN, quality : {a.quality}, size : {a.size},
     sentSize : {a.sentSize}, script : {a.script}, at : {a.at}, stream : {a.stream},
     sent : 0..MaxPolls + 2, used : SUBSET ApiKeys, polls : 0..MaxPolls,
     task : {"none", "running", "made", "broken"}, way : {"none", "url", "content"},
     aborted : BOOLEAN, cut : 0..MaxPolls + 2, outcome : Outcomes, timer : BOOLEAN]

(* What is sent at each stage, and of which kind a request at it is.        *)
StageCounts(a) ==
    /\ a.stage \in {"none", "reading"} => a.sent = 0 /\ a.polls = 0
    /\ a.stage \in {"posting", "streaming"} => a.sent = 1 /\ a.polls = 0
    /\ a.stage \in {"polling", "waiting"} => a.sent = a.polls + 1 /\ a.polls > 0
    /\ a.stage = "waiting" => a.polls < MaxPolls
    /\ a.stage = "fetching" => a.task = "made" /\ a.sent \in {a.polls + 1, a.polls + 2}
StageKinds(a) ==
    /\ a.stage \in {"polling", "waiting", "fetching"} => a.kind = "video"
    /\ a.stage = "streaming" => a.kind = "text"
    /\ a.stage # "none" => a.key \in ApiKeys

(* A request that has not ended has no outcome, and one that is stopped and *)
(* has not ended is still reading its references.                           *)
NotEnded(a) ==
    a.stage # "ended" => a.outcome = "none" /\ (a.aborted => a.stage = "reading" /\ a.cut = 0)

RequestInv(a) ==
    /\ a \in AskSet(a) /\ StageCounts(a) /\ StageKinds(a) /\ NotEnded(a)
    /\ OneCredential(a) /\ StopsForGood(a) /\ VideoHonest(a)

(* What the properties read of a request.                                   *)
SameRequest(a, b) ==
    /\ b.kind = a.kind /\ b.key = a.key /\ b.model = a.model /\ b.crossed = a.crossed
    /\ b.aborted = a.aborted /\ b.cut = a.cut
SameAccount(a, b) == b.sent = a.sent /\ b.used = a.used /\ b.polls = a.polls

LEMMA NoAskIs ==
    /\ NoAsk \in AskSet(NoAsk) /\ NoAsk.kind = "none" /\ NoAsk.stage = "none" /\ NoAsk.key = NoKey
    /\ NoAsk.model = NoModel /\ NoAsk.used = {} /\ NoAsk.sent = 0 /\ NoAsk.polls = 0
    /\ NoAsk.aborted = FALSE /\ NoAsk.outcome = "none" /\ NoAsk.cut = 0
BY DEF NoAsk, AskSet, Stages, Outcomes, Credentials

LEMMA AskSends ==
    ASSUME NEW a, a \in AskSet(a), a.key \in ApiKeys, a.sent < MaxPolls + 2, NEW b, b = Sends(a)
    PROVE  /\ b \in AskSet(b) /\ SameRequest(a, b) /\ b.stage = a.stage /\ b.outcome = a.outcome
           /\ b.task = a.task /\ b.polls = a.polls
           /\ b.sent = a.sent + 1 /\ b.used = a.used \cup {a.key}
<1>1. b = [a EXCEPT !.sent = a.sent + 1, !.used = a.used \cup {a.key}]
  BY DEF Sends
<1>2. a.sent + 1 \in 0..MaxPolls + 2 /\ a.used \cup {a.key} \subseteq ApiKeys
  BY DEF AskSet
<1> QED
  BY <1>1, <1>2 DEF AskSet, SameRequest

LEMMA AskOver ==
    ASSUME NEW a, a \in AskSet(a), NEW how \in Outcomes, NEW b, b = Over(a, how)
    PROVE  /\ b \in AskSet(b) /\ b.kind = a.kind /\ b.key = a.key /\ b.model = NoModel
           /\ b.aborted = a.aborted /\ b.cut = a.cut
           /\ b.sent = a.sent /\ b.used = a.used /\ b.polls = 0
           /\ b.stage = "ended" /\ b.outcome = how /\ b.task = "none"
<1>1. b = [kind |-> a.kind, stage |-> "ended", key |-> a.key, model |-> NoModel, crossed |-> FALSE,
           quality |-> "auto", size |-> AutoSize, sentSize |-> AutoSize, script |-> 0, at |-> 0,
           stream |-> Fresh, sent |-> a.sent, used |-> a.used, polls |-> 0, task |-> "none",
           way |-> "none", aborted |-> a.aborted, cut |-> a.cut, outcome |-> how, timer |-> FALSE]
  BY DEF Over, NoAsk
<1>2. /\ a.kind \in {"none", "image", "edit", "text", "video", "audio"} /\ "ended" \in Stages
      /\ a.key \in Credentials /\ a.sent \in 0..MaxPolls + 2 /\ a.used \in SUBSET ApiKeys
      /\ a.aborted \in BOOLEAN /\ a.cut \in 0..MaxPolls + 2
  BY DEF AskSet, Stages
<1>3. b \in AskSet(b)
  BY <1>1, <1>2 DEF AskSet
<1> QED
  BY <1>1, <1>3

LEMMA AskEnded ==
    ASSUME NEW a, a \in AskSet(a), NEW how \in Outcomes, NEW b, b = Ended(a, how)
    PROVE  /\ b \in AskSet(b) /\ SameRequest(a, b) /\ SameAccount(a, b) /\ b.task = a.task
           /\ b.stage = "ended" /\ b.outcome = how
BY DEF Ended, AskSet, Stages, SameRequest, SameAccount

(* A request whose account is kept and that no longer runs.                 *)
LEMMA OverIsSound ==
    ASSUME NEW a, a \in AskSet(a), a.key \in ApiKeys, a.used \subseteq {a.key},
           NEW how \in {"done", "failed", "canceled"}, NEW b, b = Over(a, how),
           how = "canceled" => a.aborted, a.kind = "video" => how # "done",
           a.aborted => a.sent = a.cut /\ how # "done",
           a.aborted /\ how = "failed" => a.sent = 0
    PROVE  RequestInv(b) /\ b.stage = "ended"
<1>1. how \in Outcomes /\ a.key # NoKey
  BY KeysAssumption DEF Outcomes
<1>2. /\ b \in AskSet(b) /\ b.kind = a.kind /\ b.key = a.key /\ b.model = NoModel
      /\ b.aborted = a.aborted /\ b.cut = a.cut
      /\ b.sent = a.sent /\ b.used = a.used /\ b.polls = 0
      /\ b.stage = "ended" /\ b.outcome = how /\ b.task = "none"
  BY <1>1, AskOver
<1>3. StageCounts(b) /\ StageKinds(b) /\ NotEnded(b)
  BY <1>2 DEF StageCounts, StageKinds, NotEnded
<1>4. OneCredential(b)
  BY <1>1, <1>2 DEF OneCredential
<1>5. StopsForGood(b)
  BY <1>2 DEF StopsForGood
<1>6. VideoHonest(b)
  BY <1>2 DEF VideoHonest
<1> QED
  BY <1>2, <1>3, <1>4, <1>5, <1>6 DEF RequestInv

(* A request that runs on: it is not stopped and has no outcome.            *)
LEMMA RunsOnIsSound ==
    ASSUME NEW a, RequestInv(a), a.stage \notin {"none", "ended"}, ~a.aborted,
           NEW b, b \in AskSet(b), SameRequest(a, b), b.outcome = "none",
           b.used \subseteq a.used \cup {a.key}, b.stage \notin {"none", "ended"},
           StageCounts(b), StageKinds(b)
    PROVE  RequestInv(b)
<1>1. NotEnded(b) /\ StopsForGood(b)
  BY DEF SameRequest, NotEnded, StopsForGood
<1>2. OneCredential(b)
  BY DEF RequestInv, OneCredential, SameRequest
<1>3. VideoHonest(b)
  <2>1. b.stage \in Stages \ {"none", "ended"} /\ b.polls \in 0..MaxPolls
    BY DEF AskSet
  <2>2. b.polls > 0 => b.sent \in {b.polls + 1, b.polls + 2}
    BY <2>1 DEF StageCounts, Stages
  <2> QED
    BY <2>2 DEF VideoHonest
<1> QED
  BY <1>1, <1>2, <1>3 DEF RequestInv

(* A request that ends by itself.                                           *)
LEMMA EndIsSound ==
    ASSUME NEW a, RequestInv(a), a.stage \notin {"none", "ended"}, ~a.aborted,
           NEW b, b \in AskSet(b), SameRequest(a, b), SameAccount(a, b), b.task = a.task,
           b.stage = "ended", b.outcome \in {"done", "failed", "timeout"},
           b.outcome = "timeout" => a.stage = "polling" /\ a.polls = MaxPolls,
           b.outcome = "done" /\ a.kind = "video" => a.stage = "fetching"
    PROVE  RequestInv(b)
<1>1. StageCounts(b) /\ StageKinds(b) /\ NotEnded(b)
  <2>1. a.key \in ApiKeys
    BY DEF RequestInv, StageKinds
  <2> QED
    BY <2>1 DEF StageCounts, StageKinds, NotEnded, SameRequest
<1>2. OneCredential(b)
  BY DEF RequestInv, OneCredential, SameRequest, SameAccount
<1>3. StopsForGood(b)
  BY DEF StopsForGood, SameRequest
<1>4. VideoHonest(b)
  <2>1. /\ b.kind = a.kind /\ b.sent = a.sent /\ b.polls = a.polls /\ b.task = a.task
    BY DEF SameRequest, SameAccount
  <2>2. a.stage = "fetching" => a.task = "made"
    BY DEF RequestInv, StageCounts
  <2>3. a.stage = "polling" => a.sent = a.polls + 1
    BY DEF RequestInv, StageCounts
  <2>4. a.kind = "video" /\ a.polls > 0 => a.sent \in {a.polls + 1, a.polls + 2}
    BY DEF RequestInv, VideoHonest
  <2> QED
    BY <2>1, <2>2, <2>3, <2>4 DEF VideoHonest
<1> QED
  BY <1>1, <1>2, <1>3, <1>4 DEF RequestInv

(* The provider, the stream and the timer move without the request.         *)
LEMMA DataMovesSound ==
    ASSUME NEW a, RequestInv(a), NEW b, b \in AskSet(b), SameRequest(a, b), SameAccount(a, b),
           b.stage = a.stage, b.outcome = a.outcome,
           b.task = a.task \/ a.stage \notin {"fetching", "ended"}
    PROVE  RequestInv(b)
<1>1. StageCounts(b) /\ StageKinds(b) /\ NotEnded(b)
  BY DEF RequestInv, StageCounts, StageKinds, NotEnded, SameRequest, SameAccount
<1>2. OneCredential(b) /\ StopsForGood(b)
  BY DEF RequestInv, OneCredential, StopsForGood, SameRequest, SameAccount
<1>3. VideoHonest(b)
  <2>1. a.stage # "ended" => b.outcome = "none"
    BY DEF RequestInv, NotEnded
  <2> QED
    BY <2>1 DEF RequestInv, VideoHonest, SameRequest, SameAccount, StageCounts
<1> QED
  BY <1>1, <1>2, <1>3 DEF RequestInv

(* The credential of the moment is captured.                                *)
LEMMA AskIsSound ==
    ASSUME SessionInv, Ready(config), NEW kind \in {"image", "edit", "text", "video", "audio"},
           NEW v, NEW setting, NEW script, NEW a, a = Asked(kind, v, setting, script),
           NEW b, b = Begun(a)
    PROVE  RequestInv(b)
<1> DEFINE stage == IF kind \in {"edit", "video"} THEN "reading" ELSE "posting"
           model == IF kind \in {"image", "edit"} THEN Resolved(config, v) ELSE NoModel
           sentSize == IF kind \in {"image", "edit"} THEN RequestSize(setting[1], setting[2]) ELSE AutoSize
<1>1. config.cred \in ApiKeys /\ crossed \in BOOLEAN
  <2>1. config \in ConfigSet /\ crossed \in BOOLEAN
    BY DEF SessionInv, SessionTypes
  <2> QED
    BY <2>1 DEF Ready, ConfigSet, Credentials
<1>2. /\ stage \in {"reading", "posting"} /\ stage \in Stages
      /\ kind \in {"none", "image", "edit", "text", "video", "audio"}
  BY DEF Stages
<1>3. model # NoModel /\ ~crossed /\ ImagesOf(config.cred) # {} => model.name \in ImagesOf(config.cred)
  BY ResolvedPays
<1>4. a = [NoAsk EXCEPT !.kind = kind, !.key = config.cred, !.crossed = crossed, !.script = script,
              !.stage = stage, !.model = model, !.quality = setting[1], !.size = setting[2],
              !.sentSize = sentSize]
  BY DEF Asked
<1> HIDE DEF stage, model, sentSize
<1>5. a = [kind |-> kind, stage |-> stage, key |-> config.cred, model |-> model, crossed |-> crossed,
           quality |-> setting[1], size |-> setting[2], sentSize |-> sentSize, script |-> script,
           at |-> 0, stream |-> Fresh, sent |-> 0, used |-> {}, polls |-> 0, task |-> "none",
           way |-> "none", aborted |-> FALSE, cut |-> 0, outcome |-> "none", timer |-> FALSE]
  <2>1. PICK k : k = config.cred
    OBVIOUS
  <2>2. PICK c : c = crossed
    OBVIOUS
  <2>3. PICK quality : quality = setting[1]
    OBVIOUS
  <2>4. PICK size : size = setting[2]
    OBVIOUS
  <2>5. a = [NoAsk EXCEPT !.kind = kind, !.key = k, !.crossed = c, !.script = script, !.stage = stage,
                !.model = model, !.quality = quality, !.size = size, !.sentSize = sentSize]
    BY <1>4, <2>1, <2>2, <2>3, <2>4
  <2>6. a = [kind |-> kind, stage |-> stage, key |-> k, model |-> model, crossed |-> c,
             quality |-> quality, size |-> size, sentSize |-> sentSize, script |-> script,
             at |-> 0, stream |-> Fresh, sent |-> 0, used |-> {}, polls |-> 0, task |-> "none",
             way |-> "none", aborted |-> FALSE, cut |-> 0, outcome |-> "none", timer |-> FALSE]
    BY <2>5, ZenonT(120) DEF NoAsk
  <2> QED
    BY <2>1, <2>2, <2>3, <2>4, <2>6
<1>6. /\ a.kind = kind /\ a.stage = stage /\ a.key = config.cred /\ a.model = model
      /\ a.crossed = crossed /\ a.sent = 0 /\ a.used = {} /\ a.polls = 0
      /\ ~a.aborted /\ a.cut = 0 /\ a.outcome = "none"
  BY <1>5
<1>7. 0 \in 0..MaxPolls /\ 0 \in 0..MaxPolls + 2 /\ config.cred \in Credentials /\ "none" \in Outcomes
  BY <1>1 DEF Credentials, Outcomes
<1>8. a \in AskSet(a)
  BY <1>1, <1>2, <1>5, <1>7 DEF AskSet
<1>9. config.cred # NoKey
  BY DEF Ready
<1>10. CASE a.sentSize = Refused
  <2>1. b = Ended(a, "failed") /\ "failed" \in Outcomes
    BY <1>10 DEF Begun, Outcomes
  <2>2. /\ b \in AskSet(b) /\ SameRequest(a, b) /\ SameAccount(a, b)
        /\ b.stage = "ended" /\ b.outcome = "failed"
    BY <1>8, <2>1, AskEnded
  <2>3. /\ b.key = config.cred /\ b.model = model /\ b.crossed = crossed /\ ~b.aborted
        /\ b.sent = 0 /\ b.used = {} /\ b.polls = 0
    BY <1>6, <2>2 DEF SameRequest, SameAccount
  <2>4. StageCounts(b) /\ StageKinds(b) /\ NotEnded(b) /\ StopsForGood(b) /\ VideoHonest(b)
    BY <1>1, <2>2, <2>3 DEF StageCounts, StageKinds, NotEnded, StopsForGood, VideoHonest
  <2>5. OneCredential(b)
    BY <1>3, <1>9, <2>3 DEF OneCredential
  <2> QED
    BY <2>2, <2>4, <2>5 DEF RequestInv
<1>11. CASE a.sentSize # Refused /\ a.stage # "posting"
  <2>1. b = a /\ a.stage = "reading"
    BY <1>2, <1>6, <1>11 DEF Begun
  <2>2. StageCounts(a) /\ StageKinds(a) /\ NotEnded(a) /\ StopsForGood(a) /\ VideoHonest(a)
    BY <1>1, <1>6, <2>1 DEF StageCounts, StageKinds, NotEnded, StopsForGood, VideoHonest
  <2>3. OneCredential(a)
    BY <1>3, <1>6, <1>9 DEF OneCredential
  <2> QED
    BY <1>8, <2>1, <2>2, <2>3 DEF RequestInv
<1>12. CASE a.sentSize # Refused /\ a.stage = "posting"
  <2>1. b = Sends(a) /\ a.sent < MaxPolls + 2
    BY <1>6, <1>12 DEF Begun
  <2>2. /\ b \in AskSet(b) /\ SameRequest(a, b) /\ b.stage = "posting" /\ b.outcome = "none"
        /\ b.polls = 0 /\ b.sent = 1 /\ b.used = {config.cred}
    <3>1. /\ b \in AskSet(b) /\ SameRequest(a, b) /\ b.stage = a.stage /\ b.outcome = a.outcome
          /\ b.polls = a.polls /\ b.sent = a.sent + 1 /\ b.used = a.used \cup {a.key}
      BY <1>1, <1>6, <1>8, <2>1, AskSends
    <3> QED
      BY <1>6, <1>12, <3>1
  <2>3. /\ b.key = config.cred /\ b.model = model /\ b.crossed = crossed /\ ~b.aborted
    BY <1>6, <2>2 DEF SameRequest
  <2>4. StageCounts(b) /\ StageKinds(b) /\ NotEnded(b) /\ StopsForGood(b) /\ VideoHonest(b)
    BY <1>1, <2>2, <2>3 DEF StageCounts, StageKinds, NotEnded, StopsForGood, VideoHonest
  <2>5. OneCredential(b)
    BY <1>3, <1>9, <2>2, <2>3 DEF OneCredential
  <2> QED
    BY <2>2, <2>4, <2>5 DEF RequestInv
<1> QED
  BY <1>10, <1>11, <1>12

(* What a request that has begun knows of its credential.                   *)
LEMMA RequestKey ==
    ASSUME NEW a, RequestInv(a), a.stage # "none"
    PROVE  a \in AskSet(a) /\ a.key \in ApiKeys /\ a.used \subseteq {a.key}
BY DEF RequestInv, StageKinds, OneCredential

(* A request that has not ended fails, whatever it was waiting for.         *)
LEMMA FailsSound ==
    ASSUME NEW a, RequestInv(a), a.stage \notin {"none", "ended"}, NEW b, b = Over(a, "failed")
    PROVE  RequestInv(b) /\ b.stage = "ended"
<1>1. PICK how \in {"done", "failed", "canceled"} : how = "failed"
  OBVIOUS
<1>2. a.aborted => a.sent = a.cut /\ a.sent = 0
  BY DEF RequestInv, NotEnded, StageCounts
<1> QED
  BY <1>1, <1>2, RequestKey, OverIsSound

LEMMA ReadIsSound ==
    ASSUME NEW q, RequestInv(asks[q]), Read(q)
    PROVE  \E b : SetAsk(q, b) /\ RequestInv(b)
<1>1. PICK a : a = asks[q]
  OBVIOUS
<1>2. RequestInv(a) /\ a.stage = "reading" /\ a \in AskSet(a) /\ a.key \in ApiKeys /\ a.used \subseteq {a.key}
  BY <1>1, RequestKey DEF Read
<1>3. CASE a.aborted /\ SetAsk(q, Over(a, "canceled"))
  <2>1. PICK how \in {"done", "failed", "canceled"} : how = "canceled"
    OBVIOUS
  <2>2. a.sent = a.cut
    BY <1>2, <1>3 DEF RequestInv, StopsForGood
  <2>3. PICK b : b = Over(a, how)
    OBVIOUS
  <2>4. RequestInv(b)
    BY <1>2, <1>3, <2>1, <2>2, <2>3, OverIsSound
  <2> QED
    BY <1>3, <2>1, <2>3, <2>4
<1>4. CASE ~a.aborted /\ SetAsk(q, Sends([a EXCEPT !.stage = "posting"]))
  <2>1. PICK c : c = [a EXCEPT !.stage = "posting"]
    OBVIOUS
  <2>2. /\ c \in AskSet(c) /\ SameRequest(a, c) /\ SameAccount(a, c) /\ c.stage = "posting"
        /\ c.outcome = a.outcome /\ c.task = a.task
    BY <1>2, <2>1 DEF AskSet, Stages, SameRequest, SameAccount
  <2>3. PICK b : b = Sends(c)
    OBVIOUS
  <2>4. a.sent = 0 /\ a.polls = 0 /\ a.outcome = "none"
    BY <1>2 DEF RequestInv, StageCounts, NotEnded
  <2>5. c.key = a.key /\ c.sent = 0 /\ c.polls = 0 /\ c.used = a.used /\ c.outcome = "none" /\ c.sent < MaxPolls + 2
    BY <2>2, <2>4 DEF SameRequest, SameAccount
  <2>6. /\ b \in AskSet(b) /\ SameRequest(c, b) /\ b.stage = c.stage /\ b.outcome = c.outcome
        /\ b.polls = c.polls /\ b.sent = c.sent + 1 /\ b.used = c.used \cup {c.key}
    BY <1>2, <2>2, <2>3, <2>5, AskSends
  <2>7. SameRequest(a, b) /\ b.stage = "posting" /\ b.outcome = "none" /\ b.sent = 1 /\ b.polls = 0
    BY <2>2, <2>5, <2>6 DEF SameRequest
  <2>8. StageCounts(b) /\ StageKinds(b)
    BY <1>2, <2>7 DEF StageCounts, StageKinds, SameRequest
  <2>9. RequestInv(b)
    BY <1>2, <1>4, <2>5, <2>6, <2>7, <2>8, RunsOnIsSound
  <2> QED
    BY <1>4, <2>1, <2>3, <2>9
<1>5. CASE SetAsk(q, Over(a, "failed"))
  <2>1. PICK b : b = Over(a, "failed")
    OBVIOUS
  <2> QED
    BY <1>2, <1>5, <2>1, FailsSound
<1> QED
  BY <1>1, <1>3, <1>4, <1>5 DEF Read

(* A request that is not stopped gives its result, or is given up, and the  *)
(* rest of it is forgotten.                                                 *)
LEMMA DoneIsSound ==
    ASSUME NEW a, RequestInv(a), a.stage \notin {"none", "ended"}, ~a.aborted, a.kind # "video",
           NEW b, b = Over(a, "done")
    PROVE  RequestInv(b) /\ b.stage = "ended"
<1>1. PICK how \in {"done", "failed", "canceled"} : how = "done"
  OBVIOUS
<1> QED
  BY <1>1, RequestKey, OverIsSound

(* The next call of a video that runs.                                      *)
LEMMA VideoSends ==
    ASSUME NEW a, RequestInv(a), a.stage \notin {"none", "ended"}, ~a.aborted, a.sent < MaxPolls + 2,
           NEW c, c \in AskSet(c), SameRequest(a, c), c.sent = a.sent, c.used = a.used,
           c.outcome = "none", c.stage \notin {"none", "ended"}, NEW b, b = Sends(c),
           \A d : /\ SameRequest(a, d) /\ d.stage = c.stage /\ d.polls = c.polls /\ d.task = c.task
                  /\ d.sent = a.sent + 1
                  => StageCounts(d) /\ StageKinds(d)
    PROVE  RequestInv(b)
<1>1. a.key \in ApiKeys /\ a.used \subseteq {a.key}
  BY RequestKey
<1>2. c.key \in ApiKeys /\ c.sent < MaxPolls + 2
  BY <1>1 DEF SameRequest
<1>3. /\ b \in AskSet(b) /\ SameRequest(c, b) /\ b.stage = c.stage /\ b.outcome = c.outcome
      /\ b.task = c.task /\ b.polls = c.polls /\ b.sent = c.sent + 1 /\ b.used = c.used \cup {c.key}
  BY <1>2, AskSends
<1>4. SameRequest(a, b) /\ b.used \subseteq a.used \cup {a.key} /\ b.sent = a.sent + 1
  BY <1>3 DEF SameRequest
<1>5. StageCounts(b) /\ StageKinds(b)
  BY <1>3, <1>4
<1> QED
  BY <1>3, <1>4, <1>5, RunsOnIsSound

LEMMA AnswerPostIsSound ==
    ASSUME NEW q, RequestInv(asks[q]), AnswerPost(q)
    PROVE  \E b : SetAsk(q, b) /\ RequestInv(b)
<1>1. PICK a : a = asks[q]
  OBVIOUS
<1>2. /\ RequestInv(a) /\ a.stage = "posting" /\ a \in AskSet(a) /\ a.key \in ApiKeys
      /\ a.used \subseteq {a.key} /\ ~a.aborted /\ a.outcome = "none" /\ a.sent = 1 /\ a.polls = 0
  <2>1. RequestInv(a) /\ a.stage = "posting"
    BY <1>1 DEF AnswerPost
  <2> QED
    BY <2>1, RequestKey DEF RequestInv, NotEnded, StageCounts
<1>3. CASE a.kind \in {"image", "edit"} /\ SetAsk(q, [Over(a, "done") EXCEPT !.timer = TRUE])
  <2>1. PICK c : c = Over(a, "done")
    OBVIOUS
  <2>2. RequestInv(c) /\ c.stage = "ended" /\ c \in AskSet(c)
    <3>1. RequestInv(c) /\ c.stage = "ended"
      BY <1>2, <1>3, <2>1, DoneIsSound
    <3> QED
      BY <3>1, RequestKey
  <2>3. PICK b : b = [c EXCEPT !.timer = TRUE]
    OBVIOUS
  <2>4. /\ b \in AskSet(b) /\ SameRequest(c, b) /\ SameAccount(c, b) /\ b.stage = c.stage
        /\ b.outcome = c.outcome /\ b.task = c.task
    BY <2>2, <2>3 DEF AskSet, SameRequest, SameAccount
  <2>5. RequestInv(b)
    BY <2>2, <2>4, DataMovesSound
  <2> QED
    BY <1>3, <2>1, <2>3, <2>5
<1>4. CASE a.kind = "audio" /\ SetAsk(q, Over(a, "done"))
  <2>1. PICK b : b = Over(a, "done")
    OBVIOUS
  <2> QED
    BY <1>2, <1>4, <2>1, DoneIsSound
<1>5. CASE a.kind = "text" /\ SetAsk(q, [a EXCEPT !.stage = "streaming"])
  <2>1. PICK b : b = [a EXCEPT !.stage = "streaming"]
    OBVIOUS
  <2>2. /\ b \in AskSet(b) /\ SameRequest(a, b) /\ SameAccount(a, b) /\ b.stage = "streaming"
        /\ b.outcome = a.outcome
    BY <1>2, <2>1 DEF AskSet, Stages, SameRequest, SameAccount
  <2>3. StageCounts(b) /\ StageKinds(b) /\ b.used \subseteq a.used \cup {a.key}
    BY <1>2, <1>5, <2>2 DEF StageCounts, StageKinds, SameRequest, SameAccount
  <2>4. RequestInv(b)
    BY <1>2, <2>2, <2>3, RunsOnIsSound
  <2> QED
    BY <1>5, <2>1, <2>4
<1>6. CASE /\ a.kind = "video"
           /\ SetAsk(q, Sends([a EXCEPT !.stage = "polling", !.task = "running", !.polls = 1]))
  <2>1. PICK c : c = [a EXCEPT !.stage = "polling", !.task = "running", !.polls = 1]
    OBVIOUS
  <2>2. 1 \in 0..MaxPolls /\ a.sent < MaxPolls + 2
    BY <1>2
  <2>3. /\ c \in AskSet(c) /\ SameRequest(a, c) /\ c.sent = a.sent /\ c.used = a.used
        /\ c.stage = "polling" /\ c.polls = 1 /\ c.outcome = "none"
    <3>1. PICK stage \in Stages : stage = "polling"
      BY DEF Stages
    <3>2. PICK task \in {"none", "running", "made", "broken"} : task = "running"
      OBVIOUS
    <3>3. PICK polls \in 0..MaxPolls : polls = 1
      BY <2>2
    <3>4. c = [a EXCEPT !.stage = stage, !.task = task, !.polls = polls]
      BY <2>1, <3>1, <3>2, <3>3
    <3>5. a \in AskSet(a)
      BY <1>2
    <3>6. c \in AskSet(c)
      BY <3>4, <3>5 DEF AskSet
    <3>7. SameRequest(a, c) /\ c.sent = a.sent /\ c.used = a.used /\ c.outcome = a.outcome
      BY <3>4, <3>5 DEF AskSet, SameRequest
    <3>8. c.stage = stage /\ c.polls = polls
      BY <3>4, <3>5 DEF AskSet
    <3> QED
      BY <1>2, <3>1, <3>3, <3>6, <3>7, <3>8
  <2>4. ASSUME NEW d, SameRequest(a, d), d.stage = c.stage, d.polls = c.polls, d.sent = a.sent + 1
        PROVE  StageCounts(d) /\ StageKinds(d)
    BY <1>2, <1>6, <2>3, <2>4 DEF StageCounts, StageKinds, SameRequest
  <2>5. PICK b : b = Sends(c)
    OBVIOUS
  <2>6. RequestInv(b)
    BY <1>2, <2>2, <2>3, <2>4, <2>5, VideoSends
  <2> QED
    BY <1>6, <2>1, <2>5, <2>6
<1>7. CASE SetAsk(q, Over(a, "failed"))
  <2>1. PICK b : b = Over(a, "failed")
    OBVIOUS
  <2> QED
    BY <1>2, <1>7, <2>1, FailsSound
<1>8. CASE a.kind = "video" /\ SetAsk(q, [Over(a, "failed") EXCEPT !.task = "running"])
  <2>1. PICK c : c = Over(a, "failed")
    OBVIOUS
  <2>2. /\ RequestInv(c) /\ c.stage = "ended" /\ c \in AskSet(c) /\ c.outcome = "failed"
    <3>1. RequestInv(c) /\ c.stage = "ended"
      BY <1>2, <2>1, FailsSound
    <3>2. PICK how \in Outcomes : how = "failed"
      BY DEF Outcomes
    <3>3. c.outcome = how
      BY <1>2, <2>1, <3>2, AskOver
    <3> QED
      BY <3>1, <3>2, <3>3, RequestKey
  <2>3. PICK b : b = [c EXCEPT !.task = "running"]
    OBVIOUS
  <2>4. /\ b \in AskSet(b) /\ SameRequest(c, b) /\ SameAccount(c, b) /\ b.stage = c.stage
        /\ b.outcome = c.outcome
    BY <2>2, <2>3 DEF AskSet, SameRequest, SameAccount
  <2>5. RequestInv(b)
    <3>1. StageCounts(b) /\ StageKinds(b) /\ NotEnded(b)
      BY <2>2, <2>4 DEF RequestInv, StageCounts, StageKinds, NotEnded, SameRequest, SameAccount
    <3>2. OneCredential(b) /\ StopsForGood(b) /\ VideoHonest(b)
      BY <2>2, <2>4 DEF RequestInv, OneCredential, StopsForGood, VideoHonest, SameRequest, SameAccount
    <3> QED
      BY <2>4, <3>1, <3>2 DEF RequestInv
  <2> QED
    BY <1>8, <2>1, <2>3, <2>5
<1> QED
  BY <1>1, <1>3, <1>4, <1>5, <1>6, <1>7, <1>8 DEF AnswerPost

(* A poll is answered: it is asked again later, or the result is fetched.   *)
LEMMA AnswerPollIsSound ==
    ASSUME NEW q, RequestInv(asks[q]), AnswerPoll(q)
    PROVE  \E b : SetAsk(q, b) /\ RequestInv(b)
<1>1. PICK a : a = asks[q]
  OBVIOUS
<1>2. /\ RequestInv(a) /\ a.stage = "polling" /\ a \in AskSet(a) /\ a.key \in ApiKeys
      /\ a.used \subseteq {a.key} /\ ~a.aborted /\ a.outcome = "none" /\ a.kind = "video"
      /\ a.sent = a.polls + 1 /\ a.polls > 0 /\ a.polls \in 0..MaxPolls
  <2>1. RequestInv(a) /\ a.stage = "polling"
    BY <1>1 DEF AnswerPoll
  <2>2. a \in AskSet(a) /\ a.key \in ApiKeys /\ a.used \subseteq {a.key}
    BY <2>1, RequestKey
  <2>3. a.polls \in 0..MaxPolls
    BY <2>2 DEF AskSet
  <2> QED
    BY <2>1, <2>2, <2>3 DEF RequestInv, NotEnded, StageCounts, StageKinds
<1>3. CASE a.polls = MaxPolls /\ SetAsk(q, Ended(a, "timeout"))
  <2>1. PICK how \in Outcomes : how = "timeout"
    BY DEF Outcomes
  <2>2. PICK b : b = Ended(a, how)
    OBVIOUS
  <2>3. /\ b \in AskSet(b) /\ SameRequest(a, b) /\ SameAccount(a, b) /\ b.task = a.task
        /\ b.stage = "ended" /\ b.outcome = how
    BY <1>2, <2>2, AskEnded
  <2>4. RequestInv(b)
    BY <1>2, <1>3, <2>1, <2>3, EndIsSound
  <2> QED
    BY <1>3, <2>1, <2>2, <2>4
<1>4. CASE a.polls # MaxPolls /\ SetAsk(q, [a EXCEPT !.stage = "waiting"])
  <2>1. PICK b : b = [a EXCEPT !.stage = "waiting"]
    OBVIOUS
  <2>2. /\ b \in AskSet(b) /\ SameRequest(a, b) /\ SameAccount(a, b) /\ b.stage = "waiting"
        /\ b.outcome = a.outcome
    BY <1>2, <2>1 DEF AskSet, Stages, SameRequest, SameAccount
  <2>3. a.polls < MaxPolls
    BY <1>2, <1>4
  <2>4. StageCounts(b) /\ StageKinds(b) /\ b.used \subseteq a.used \cup {a.key}
    BY <1>2, <2>2, <2>3 DEF StageCounts, StageKinds, SameRequest, SameAccount
  <2>5. RequestInv(b)
    BY <1>2, <2>2, <2>4, RunsOnIsSound
  <2> QED
    BY <1>4, <2>1, <2>5
<1>5. CASE a.task = "made" /\ SetAsk(q, [a EXCEPT !.stage = "fetching", !.way = "url"])
  <2>1. PICK b : b = [a EXCEPT !.stage = "fetching", !.way = "url"]
    OBVIOUS
  <2>2. b \in AskSet(b)
    BY <1>2, <2>1 DEF AskSet, Stages
  <2>3. SameRequest(a, b) /\ SameAccount(a, b) /\ b.stage = "fetching" /\ b.outcome = a.outcome
        /\ b.task = a.task
    BY <1>2, <2>1 DEF AskSet, SameRequest, SameAccount
  <2>4. StageCounts(b) /\ StageKinds(b) /\ b.used \subseteq a.used \cup {a.key}
    BY <1>2, <1>5, <2>3 DEF StageCounts, StageKinds, SameRequest, SameAccount
  <2>5. RequestInv(b)
    BY <1>2, <2>2, <2>3, <2>4, RunsOnIsSound
  <2> QED
    BY <1>5, <2>1, <2>5
<1>6. CASE a.task = "made" /\ SetAsk(q, Sends([a EXCEPT !.stage = "fetching", !.way = "content"]))
  <2>1. PICK c : c = [a EXCEPT !.stage = "fetching", !.way = "content"]
    OBVIOUS
  <2>2. c \in AskSet(c)
    BY <1>2, <2>1 DEF AskSet, Stages
  <2>3. SameRequest(a, c) /\ SameAccount(a, c) /\ c.stage = "fetching" /\ c.outcome = a.outcome
        /\ c.task = a.task
    BY <1>2, <2>1 DEF AskSet, SameRequest, SameAccount
  <2>4. c.sent = a.sent /\ c.used = a.used /\ c.polls = a.polls /\ c.outcome = "none"
    BY <1>2, <2>3 DEF SameAccount
  <2>5. a.sent < MaxPolls + 2
    BY <1>2
  <2>6. ASSUME NEW d, SameRequest(a, d), d.stage = c.stage, d.polls = c.polls, d.task = c.task,
               d.sent = a.sent + 1
        PROVE  StageCounts(d) /\ StageKinds(d)
    <3>1. d.stage = "fetching" /\ d.task = "made" /\ d.sent = d.polls + 2 /\ d.kind = "video" /\ d.key = a.key
      BY <1>2, <1>6, <2>3, <2>4, <2>6 DEF SameRequest
    <3> QED
      BY <1>2, <3>1 DEF StageCounts, StageKinds
  <2>7. PICK b : b = Sends(c)
    OBVIOUS
  <2>8. RequestInv(b)
    BY <1>2, <2>2, <2>3, <2>4, <2>5, <2>6, <2>7, VideoSends
  <2> QED
    BY <1>6, <2>1, <2>7, <2>8
<1>7. CASE SetAsk(q, Over(a, "failed"))
  <2>1. PICK b : b = Over(a, "failed")
    OBVIOUS
  <2> QED
    BY <1>2, <1>7, <2>1, FailsSound
<1> QED
  BY <1>1, <1>3, <1>4, <1>5, <1>6, <1>7 DEF AnswerPoll

LEMMA WakeIsSound ==
    ASSUME NEW q, RequestInv(asks[q]), Wake(q)
    PROVE  \E b : SetAsk(q, b) /\ RequestInv(b)
<1>1. PICK a : a = asks[q]
  OBVIOUS
<1>2. /\ RequestInv(a) /\ a.stage = "waiting" /\ a \in AskSet(a) /\ a.key \in ApiKeys
      /\ ~a.aborted /\ a.outcome = "none" /\ a.kind = "video"
      /\ a.sent = a.polls + 1 /\ a.polls > 0 /\ a.polls < MaxPolls /\ a.polls \in 0..MaxPolls
  <2>1. RequestInv(a) /\ a.stage = "waiting"
    BY <1>1 DEF Wake
  <2>2. a \in AskSet(a) /\ a.key \in ApiKeys
    BY <2>1, RequestKey
  <2>3. a.polls \in 0..MaxPolls
    BY <2>2 DEF AskSet
  <2> QED
    BY <2>1, <2>2, <2>3 DEF RequestInv, NotEnded, StageCounts, StageKinds
<1>3. PICK polls \in 0..MaxPolls : polls = a.polls + 1
  BY <1>2
<1>4. PICK c : c = [a EXCEPT !.stage = "polling", !.polls = polls]
  OBVIOUS
<1>5. c \in AskSet(c)
  BY <1>2, <1>4 DEF AskSet, Stages
<1>6. SameRequest(a, c) /\ c.sent = a.sent /\ c.used = a.used /\ c.stage = "polling"
      /\ c.outcome = a.outcome /\ c.polls = polls
  BY <1>2, <1>4 DEF AskSet, SameRequest
<1>7. ASSUME NEW d, SameRequest(a, d), d.stage = c.stage, d.polls = c.polls, d.sent = a.sent + 1
      PROVE  StageCounts(d) /\ StageKinds(d)
  <2>1. d.stage = "polling" /\ d.sent = d.polls + 1 /\ d.polls > 0 /\ d.kind = "video" /\ d.key = a.key
    BY <1>2, <1>3, <1>6, <1>7 DEF SameRequest
  <2> QED
    BY <1>2, <2>1 DEF StageCounts, StageKinds
<1>8. a.sent < MaxPolls + 2
  BY <1>2
<1>9. PICK b : b = Sends(c)
  OBVIOUS
<1>10. RequestInv(b)
  BY <1>2, <1>5, <1>6, <1>7, <1>8, <1>9, VideoSends
<1>11. SetAsk(q, b)
  <2>1. SetAsk(q, Sends([a EXCEPT !.stage = "polling", !.polls = a.polls + 1]))
    BY <1>1 DEF Wake
  <2> QED
    BY <1>3, <1>4, <1>9, <2>1
<1> QED
  BY <1>10, <1>11

LEMMA AnswerFetchIsSound ==
    ASSUME NEW q, RequestInv(asks[q]), AnswerFetch(q)
    PROVE  \E b : SetAsk(q, b) /\ RequestInv(b)
<1>1. PICK a : a = asks[q]
  OBVIOUS
<1>2. RequestInv(a) /\ a.stage = "fetching" /\ a \in AskSet(a) /\ ~a.aborted
  <2>1. RequestInv(a) /\ a.stage = "fetching"
    BY <1>1 DEF AnswerFetch
  <2> QED
    BY <2>1, RequestKey DEF RequestInv, NotEnded
<1>3. CASE SetAsk(q, Ended(a, "done"))
  <2>1. PICK how \in Outcomes : how = "done"
    BY DEF Outcomes
  <2>2. PICK b : b = Ended(a, how)
    OBVIOUS
  <2>3. /\ b \in AskSet(b) /\ SameRequest(a, b) /\ SameAccount(a, b) /\ b.task = a.task
        /\ b.stage = "ended" /\ b.outcome = how
    BY <1>2, <2>2, AskEnded
  <2>4. RequestInv(b)
    BY <1>2, <2>1, <2>3, EndIsSound
  <2> QED
    BY <1>3, <2>1, <2>2, <2>4
<1>4. CASE SetAsk(q, Over(a, "failed"))
  <2>1. PICK b : b = Over(a, "failed")
    OBVIOUS
  <2> QED
    BY <1>2, <1>4, <2>1, FailsSound
<1> QED
  BY <1>1, <1>3, <1>4 DEF AnswerFetch

(* The stream goes on or ends; what it says is no concern of these          *)
(* properties.                                                              *)
LEMMA TextEndIsSound ==
    ASSUME NEW c, RequestInv(c), c.stage = "streaming", NEW how \in Outcomes, how \in {"done", "failed"},
           NEW b, b = Ended(c, how)
    PROVE  RequestInv(b)
<1>1. /\ b \in AskSet(b) /\ SameRequest(c, b) /\ SameAccount(c, b) /\ b.task = c.task
      /\ b.stage = "ended" /\ b.outcome = how
  BY AskEnded DEF RequestInv
<1>2. ~c.aborted /\ c.kind = "text"
  BY DEF RequestInv, NotEnded, StageKinds
<1> QED
  BY <1>1, <1>2, EndIsSound

LEMMA StreamStepIsSound ==
    ASSUME NEW a, RequestInv(a), a.stage = "streaming", NEW st, NEW n,
           NEW c, c = [a EXCEPT !.at = n, !.stream = st]
    PROVE  RequestInv(c) /\ RequestInv(Ended(c, "done")) /\ RequestInv(Ended(c, "failed"))
<1>1. a \in AskSet(a)
  BY DEF RequestInv
<1>2. c \in AskSet(c)
  BY <1>1 DEF AskSet
<1>3. SameRequest(a, c) /\ SameAccount(a, c) /\ c.stage = a.stage /\ c.outcome = a.outcome /\ c.task = a.task
  BY <1>1 DEF AskSet, SameRequest, SameAccount
<1>4. RequestInv(c) /\ c.stage = "streaming"
  BY <1>2, <1>3, DataMovesSound
<1>5. "done" \in Outcomes /\ "failed" \in Outcomes
  BY DEF Outcomes
<1> QED
  BY <1>4, <1>5, TextEndIsSound

LEMMA ChunkIsSound ==
    ASSUME NEW q, RequestInv(asks[q]), Chunk(q)
    PROVE  \E b : SetAsk(q, b) /\ RequestInv(b)
<1>1. PICK a : a = asks[q]
  OBVIOUS
<1>2. PICK n, st, c : /\ c = [a EXCEPT !.at = n, !.stream = st]
                      /\ SetAsk(q, IF Failed(st) THEN Ended(c, "failed") ELSE c)
  BY <1>1 DEF Chunk
<1>3. RequestInv(a) /\ a.stage = "streaming"
  BY <1>1 DEF Chunk
<1>4. RequestInv(c) /\ RequestInv(Ended(c, "failed"))
  BY <1>2, <1>3, StreamStepIsSound
<1> QED
  BY <1>2, <1>4

LEMMA StreamEndsIsSound ==
    ASSUME NEW q, RequestInv(asks[q]), StreamEnds(q)
    PROVE  \E b : SetAsk(q, b) /\ RequestInv(b)
<1>1. PICK a : a = asks[q]
  OBVIOUS
<1>2. RequestInv(a) /\ a.stage = "streaming" /\ a \in AskSet(a)
  BY <1>1 DEF StreamEnds, RequestInv
<1>3. PICK st : st = Flush(a.stream)
  OBVIOUS
<1>4. PICK c : c = [a EXCEPT !.stream = st]
  OBVIOUS
<1>5. c = [a EXCEPT !.at = a.at, !.stream = st]
  BY <1>2, <1>4 DEF AskSet
<1>6. RequestInv(Ended(c, "done")) /\ RequestInv(Ended(c, "failed"))
  BY <1>2, <1>5, StreamStepIsSound
<1>7. CASE SetAsk(q, Over(a, "failed"))
  <2>1. PICK b : b = Over(a, "failed")
    OBVIOUS
  <2> QED
    BY <1>2, <1>7, <2>1, FailsSound
<1>8. CASE SetAsk(q, Ended(c, IF Failed(st) THEN "failed" ELSE "done"))
  BY <1>6, <1>8
<1> QED
  BY <1>1, <1>3, <1>4, <1>7, <1>8 DEF StreamEnds

LEMMA TaskMovesIsSound ==
    ASSUME NEW q, RequestInv(asks[q]), TaskMoves(q)
    PROVE  \E b : SetAsk(q, b) /\ RequestInv(b)
<1>1. PICK a : a = asks[q]
  OBVIOUS
<1>2. PICK t \in {"made", "broken"} : SetAsk(q, [a EXCEPT !.task = t])
  BY <1>1 DEF TaskMoves
<1>3. RequestInv(a) /\ a.task = "running" /\ a.stage # "ended" /\ a \in AskSet(a)
  BY <1>1 DEF TaskMoves, RequestInv
<1>4. PICK b : b = [a EXCEPT !.task = t]
  OBVIOUS
<1>5. b \in AskSet(b) /\ SameRequest(a, b) /\ SameAccount(a, b) /\ b.stage = a.stage /\ b.outcome = a.outcome
  BY <1>3, <1>4 DEF AskSet, SameRequest, SameAccount
<1>6. a.stage # "fetching"
  BY <1>3 DEF RequestInv, StageCounts
<1>7. RequestInv(b)
  BY <1>3, <1>5, <1>6, DataMovesSound
<1> QED
  BY <1>2, <1>4, <1>7

(* A stop: what is on the network is rejected; what reads its references    *)
(* looks at the signal before it sends.                                     *)
LEMMA AbortIsSound ==
    ASSUME NEW q, RequestInv(asks[q]), Abort(q)
    PROVE  \E b : SetAsk(q, b) /\ RequestInv(b)
<1>1. PICK a : a = asks[q]
  OBVIOUS
<1>2. PICK c : c = [a EXCEPT !.aborted = TRUE, !.cut = a.sent]
  OBVIOUS
<1>3. /\ RequestInv(a) /\ a.stage \in Network \cup {"reading", "waiting"} /\ ~a.aborted
      /\ SetAsk(q, IF c.stage = "reading" THEN c ELSE Over(c, "canceled"))
  BY <1>1, <1>2 DEF Abort
<1>4. a.stage \notin {"none", "ended"}
  BY <1>3 DEF Network
<1>5. a \in AskSet(a) /\ a.key \in ApiKeys /\ a.used \subseteq {a.key} /\ a.outcome = "none"
  BY <1>3, <1>4, RequestKey DEF RequestInv, NotEnded
<1>6. c \in AskSet(c)
  <2>1. PICK sent \in 0..MaxPolls + 2 : sent = a.sent
    BY <1>5 DEF AskSet
  <2>2. c = [a EXCEPT !.aborted = TRUE, !.cut = sent]
    BY <1>2, <2>1
  <2> QED
    BY <1>5, <2>2 DEF AskSet
<1>7. /\ c.kind = a.kind /\ c.key = a.key /\ c.model = a.model /\ c.crossed = a.crossed
      /\ c.stage = a.stage /\ c.outcome = a.outcome /\ c.aborted /\ c.cut = a.sent
      /\ SameAccount(a, c)
  BY <1>2, <1>5 DEF AskSet, SameAccount
<1>8. CASE c.stage = "reading"
  <2>1. a.sent = 0 /\ a.polls = 0
    BY <1>3, <1>7, <1>8 DEF RequestInv, StageCounts
  <2>2. c.sent = 0 /\ c.polls = 0 /\ c.used = a.used
    BY <1>7, <2>1 DEF SameAccount
  <2>3. StageCounts(c) /\ StageKinds(c) /\ NotEnded(c)
    BY <1>5, <1>7, <1>8, <2>1, <2>2 DEF StageCounts, StageKinds, NotEnded
  <2>4. StopsForGood(c) /\ VideoHonest(c)
    BY <1>5, <1>7, <2>1, <2>2 DEF StopsForGood, VideoHonest
  <2>5. OneCredential(c)
    BY <1>3, <1>4, <1>7, <2>2 DEF RequestInv, OneCredential
  <2>6. RequestInv(c)
    BY <1>6, <2>3, <2>4, <2>5 DEF RequestInv
  <2> QED
    BY <1>3, <1>8, <2>6
<1>9. CASE c.stage # "reading"
  <2>1. PICK how \in {"done", "failed", "canceled"} : how = "canceled"
    OBVIOUS
  <2>2. c.key \in ApiKeys /\ c.used \subseteq {c.key} /\ c.sent = c.cut
    BY <1>5, <1>7 DEF SameAccount
  <2>3. PICK b : b = Over(c, how)
    OBVIOUS
  <2>4. RequestInv(b)
    BY <1>6, <1>7, <2>1, <2>2, <2>3, OverIsSound
  <2> QED
    BY <1>3, <1>9, <2>1, <2>3, <2>4
<1> QED
  BY <1>8, <1>9

LEMMA TimerIsSound ==
    ASSUME NEW q, RequestInv(asks[q]), NEW b, b = [asks[q] EXCEPT !.timer = FALSE]
    PROVE  RequestInv(b)
<1>1. PICK a : a = asks[q]
  OBVIOUS
<1>2. RequestInv(a) /\ a \in AskSet(a) /\ b = [a EXCEPT !.timer = FALSE]
  BY <1>1 DEF RequestInv
<1>3. /\ b \in AskSet(b) /\ SameRequest(a, b) /\ SameAccount(a, b) /\ b.stage = a.stage
      /\ b.outcome = a.outcome /\ b.task = a.task
  BY <1>2 DEF AskSet, SameRequest, SameAccount
<1> QED
  BY <1>2, <1>3, DataMovesSound

LEMMA NoAskIsSound == RequestInv(NoAsk)
<1>1. StageCounts(NoAsk) /\ StageKinds(NoAsk) /\ NotEnded(NoAsk)
  BY NoAskIs DEF StageCounts, StageKinds, NotEnded
<1>2. OneCredential(NoAsk) /\ StopsForGood(NoAsk) /\ VideoHonest(NoAsk)
  BY NoAskIs DEF OneCredential, StopsForGood, VideoHonest
<1> QED
  BY <1>1, <1>2, NoAskIs DEF RequestInv

(* The session's invariant, and that of every request.                      *)
RequestsInv ==
    /\ SessionInv /\ asks = [q \in Asks |-> asks[q]]
    /\ \A q \in Asks : RequestInv(asks[q])

LEMMA SetAskKeeps ==
    ASSUME RequestsInv, NEW q \in Asks, NEW b, SetAsk(q, b), RequestInv(b)
    PROVE  asks' = [r \in Asks |-> asks'[r]] /\ \A r \in Asks : RequestInv(asks'[r])
<1>1. asks = [r \in Asks |-> asks[r]] /\ asks' = [asks EXCEPT ![q] = b]
  BY DEF RequestsInv, SetAsk
<1>2. asks' = [r \in Asks |-> IF r = q THEN b ELSE asks[r]]
  BY <1>1
<1> QED
  BY <1>2 DEF RequestsInv

LEMMA RequestStep ==
    ASSUME RequestsInv, NEW q \in Asks,
           \/ \E kind \in {"image", "edit", "text", "video", "audio"} : Ask(q, kind)
           \/ AnswerAny(q) \/ TaskMoves(q) \/ Chunk(q) \/ Abort(q)
           \/ \E s \in Slots : UsageTimer(q, s)
    PROVE  asks' = [r \in Asks |-> asks'[r]] /\ \A r \in Asks : RequestInv(asks'[r])
<1>1. RequestInv(asks[q]) /\ SessionInv
  BY DEF RequestsInv
<1>2. ASSUME NEW kind \in {"image", "edit", "text", "video", "audio"}, Ask(q, kind)
      PROVE  \E b : SetAsk(q, b) /\ RequestInv(b)
  <2>1. PICK v, setting, script : SetAsk(q, Begun(Asked(kind, v, setting, script)))
    BY <1>2 DEF Ask
  <2>2. Ready(config)
    BY <1>2 DEF Ask
  <2>3. PICK a, b : a = Asked(kind, v, setting, script) /\ b = Begun(a)
    OBVIOUS
  <2>4. RequestInv(b)
    BY <1>1, <2>2, <2>3, AskIsSound
  <2> QED
    BY <2>1, <2>3, <2>4
<1>3. ASSUME AnswerAny(q) \/ TaskMoves(q) \/ Chunk(q) \/ Abort(q)
      PROVE  \E b : SetAsk(q, b) /\ RequestInv(b)
  BY <1>1, <1>3, ReadIsSound, AnswerPostIsSound, AnswerPollIsSound, WakeIsSound, AnswerFetchIsSound,
     StreamEndsIsSound, ChunkIsSound, TaskMovesIsSound, AbortIsSound DEF AnswerAny
<1>4. ASSUME NEW s \in Slots, UsageTimer(q, s)
      PROVE  \E b : SetAsk(q, b) /\ RequestInv(b)
  <2>1. PICK b : b = [asks[q] EXCEPT !.timer = FALSE]
    OBVIOUS
  <2>2. SetAsk(q, b)
    BY <1>4, <2>1 DEF UsageTimer
  <2> QED
    BY <1>1, <2>1, <2>2, TimerIsSound
<1>5. PICK b : SetAsk(q, b) /\ RequestInv(b)
  BY <1>2, <1>3, <1>4
<1> QED
  BY <1>5, SetAskKeeps

LEMMA RequestsSteps ==
    ASSUME RequestsInv, [RequestsNext]_requestVars
    PROVE  RequestsInv'
<1>1. SessionInv'
  BY SessionAmongRequests DEF RequestsInv
<1>2. CASE UNCHANGED asks
  BY <1>1, <1>2 DEF RequestsInv
<1>3. ASSUME NEW q \in Asks,
             \/ \E kind \in {"image", "edit", "text", "video", "audio"} : Ask(q, kind)
             \/ AnswerAny(q) \/ TaskMoves(q) \/ Chunk(q) \/ Abort(q)
             \/ \E s \in Slots : UsageTimer(q, s)
      PROVE  RequestsInv'
  BY <1>1, <1>3, RequestStep DEF RequestsInv
<1>4. CASE Leave
  <2>1. asks' = [q \in Asks |-> NoAsk]
    BY <1>4 DEF Leave
  <2> QED
    BY <1>1, <2>1, NoAskIsSound DEF RequestsInv
<1> QED
  BY <1>2, <1>3, <1>4 DEF RequestsNext, requestVars

(* What holds of every request at every moment (RequestsSound): it sends    *)
(* with the key it was asked with and no other, an image with a model that  *)
(* key offers; once stopped it sends nothing more and ends as canceled; and *)
(* a video is reported made only if the provider made it, and given up only *)
(* after MaxPolls polls.                                                    *)
THEOREM RequestsAreSound == RequestsSpec => []RequestsSound
<1>1. RequestsInit => RequestsInv
  <2> SUFFICES ASSUME RequestsInit PROVE RequestsInv
    OBVIOUS
  <2>1. asks = [q \in Asks |-> NoAsk]
    BY DEF RequestsInit
  <2> QED
    BY <2>1, SessionBegins, NoAskIsSound DEF RequestsInv
<1>2. RequestsInv /\ [RequestsNext]_requestVars => RequestsInv'
  BY RequestsSteps
<1>3. RequestsInv => RequestsSound
  <2> SUFFICES ASSUME RequestsInv, NEW q \in Asks
               PROVE  /\ RequestTypeOK(asks[q]) /\ OneCredential(asks[q]) /\ StopsForGood(asks[q])
                      /\ VideoHonest(asks[q])
    BY DEF RequestsSound
  <2>1. PICK a : a = asks[q]
    OBVIOUS
  <2>2. RequestInv(a)
    BY <2>1 DEF RequestsInv
  <2>3. a \in AskSet(a)
    BY <2>2 DEF RequestInv
  <2>4. RequestTypeOK(a)
    BY <2>3 DEF RequestTypeOK, AskSet, Credentials
  <2> QED
    BY <2>1, <2>2, <2>4 DEF RequestInv
<1> QED
  BY <1>1, <1>2, <1>3, PTL DEF RequestsSpec
=============================================================================
