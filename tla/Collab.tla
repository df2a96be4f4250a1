------------------------------- MODULE Collab -------------------------------
(***************************************************************************)
(* One room of the collaboration server (apps/collab), the editors that    *)
(* have its page or document open, and the API that keeps the plain text.  *)
(*                                                                         *)
(* A text is how often each passage is in it: each editor types a passage  *)
(* of its own, once, and First is what the page began with.  A Yjs         *)
(* document is the set of the insertions it has seen; merging is union.    *)
(* Text that is seeded is inserted anew each time, with new identities.    *)
(* Deletions, positions and the limits on the length are left out.         *)
(*                                                                         *)
(* Hocuspocus 2.15 is external, modelled from how the server uses it: it   *)
(* loads a document for its first connection, stores it some seconds after *)
(* a change and at once when the last connection is gone, and unloads it   *)
(* when nobody has come back by the end of that.                           *)
(***************************************************************************)
EXTENDS WikiPg

CONSTANTS
  Editors,      \* browser tabs that may open the room
  First,        \* the passage the page begins with
  NoDoc,        \* no document
  MaxCopies     \* bound on how often a passage is in a text

Passages == Editors \cup {First}
Events   == {"refresh", "close", "drop", "expire", "restart", "no seed"}

\* The rest of a workload.  What its tabs type comes from them only, and no text
\* that a client writes has a passage twice or is without First.
RoomWorkload(w) ==
  /\ w.editors \subseteq Editors
  /\ w.room \in Pages \cup Docs
  /\ w.events \subseteq Events
  /\ \A v \in w.texts :
       /\ v.body[First] = 1
       /\ \A t \in Passages : v.body[t] <= IF t \in w.editors THEN 0 ELSE 1

ASSUME CollabAssumption ==
  /\ IsFiniteSet(Editors) /\ First \notin Editors
  /\ MaxCopies \in Nat /\ MaxCopies >= 2 /\ Bodies = [Passages -> 0..MaxCopies]
  /\ FirstBody = [t \in Passages |-> IF t = First THEN 1 ELSE 0]
  /\ \A w \in Workloads : RoomWorkload(w)

VARIABLES
  room,         \* the document in the server: loaded, doc, dirty (a store is owed)
  ydoc,         \* what the map ydocs holds of it, or NoDoc
  ed,           \* the editor of each tab
  typed,        \* the editors that have typed their passage
  restarts,     \* of the server
  restored      \* history: the text of the page is a restored version

roomVars   == <<room, ydoc, ed, typed, restarts>>
collabVars == <<pgVars, roomVars, restored>>

NoRoom == [loaded |-> FALSE, doc |-> {}, dirty |-> FALSE]
Closed == [open |-> FALSE, doc |-> {}, link |-> FALSE, expired |-> FALSE, after |-> FALSE]

CollabInit ==
  /\ PgInit
  /\ room = NoRoom /\ ydoc = NoDoc
  /\ ed = [c \in Editors |-> Closed]
  /\ typed = {} /\ restarts = 0 /\ restored = FALSE

-----------------------------------------------------------------------------
(* Texts and documents.                                                    *)

RoomText == IF load.room \in Pages THEN body[load.room] ELSE docBody[load.room]

\* getText("content").toString()
TextOf(doc) == [t \in Passages |-> Cardinality({i \in doc : i.by = t})]

\* What editor c types.
TypedBy(c) == [by |-> c, seed |-> 0, copy |-> 1]

\* The text inserted into an empty document: insertions nobody has seen.
Seeded(text) ==
  LET known(k) == \E doc \in {ed[c].doc : c \in Editors} \cup ({ydoc} \ {NoDoc}) :
                    \E i \in doc : i.seed = k
      fresh    == CHOOSE k \in 1..(Cardinality(Editors) + 2) : ~known(k) IN
  UNION {{[by |-> t, seed |-> fresh, copy |-> n] : n \in 1..text[t]} : t \in Passages}

-----------------------------------------------------------------------------
(* The server.                                                             *)

Linked == {c \in Editors : ed[c].link}

\* Mutant: the text of the page is inserted into the stored document too.
Loads_SeedsAgain ==
  IF ydoc # NoDoc THEN {ydoc \cup Seeded(RoomText)}
  ELSE {Seeded(RoomText)} \cup (IF "no seed" \in load.events THEN {{}} ELSE {})

\* onLoadDocument: an error of the API leaves the document empty.
Loads ==
  IF ydoc # NoDoc THEN {ydoc}
  ELSE {Seeded(RoomText)} \cup (IF "no seed" \in load.events THEN {{}} ELSE {})

\* Mutant: the document is not kept in the map.
Store_NotKept(r) ==
  /\ r \in load.requests /\ req[r] = Idle
  /\ room.loaded /\ room.dirty
  /\ TextOf(room.doc) \in Bodies
  /\ Goto(r, [at |-> "snapshot", page |-> load.room, body |-> TextOf(room.doc)])
  /\ room' = [room EXCEPT !.dirty = FALSE]
  /\ UNCHANGED <<vars, raced, load, ydoc, ed, typed, restarts, restored>>

\* Mutant: no snapshot is sent for a document that nobody is connected to.
Store_LastUnsent(r) ==
  /\ r \in load.requests /\ req[r] = Idle
  /\ room.loaded /\ room.dirty
  /\ TextOf(room.doc) \in Bodies
  /\ ydoc' = room.doc
  /\ IF Linked = {} THEN UNCHANGED req ELSE
       Goto(r, [at |-> "snapshot", page |-> load.room, body |-> TextOf(room.doc)])
  /\ room' = [room EXCEPT !.dirty = FALSE]
  /\ UNCHANGED <<vars, raced, load, ed, typed, restarts, restored>>

\* onStoreDocument; the request it sends is on its way.
Store(r) ==
  /\ r \in load.requests /\ req[r] = Idle
  /\ room.loaded /\ room.dirty
  /\ TextOf(room.doc) \in Bodies
  /\ ydoc' = room.doc
  /\ Goto(r, [at |-> "snapshot", page |-> load.room, body |-> TextOf(room.doc)])
  /\ room' = [room EXCEPT !.dirty = FALSE]
  /\ UNCHANGED <<vars, raced, load, ed, typed, restarts, restored>>

\* Nobody has come back by the end of the last store.
Unload ==
  /\ room.loaded /\ ~room.dirty /\ Linked = {}
  /\ \A r \in Requests : req[r].at \notin {"snapshot", "get"}
  /\ room' = NoRoom
  /\ UNCHANGED <<pgVars, ydoc, ed, typed, restarts, restored>>

\* The process ends and starts again; requests it has sent are still served.
Restart ==
  /\ "restart" \in load.events /\ restarts = 0
  /\ restarts' = restarts + 1
  /\ room' = NoRoom /\ ydoc' = NoDoc
  /\ ed' = [c \in Editors |-> [ed[c] EXCEPT !.link = FALSE]]
  /\ UNCHANGED <<pgVars, typed, restored>>

-----------------------------------------------------------------------------
(* An editor.                                                              *)

\* The tab c goes on as next, without its connection; the last one to go makes
\* the server store the document at once.
Leave(c, next) ==
  /\ ed' = [ed EXCEPT ![c] = next]
  /\ room' = IF Linked = {c} THEN [room EXCEPT !.dirty = TRUE] ELSE room
  /\ UNCHANGED <<pgVars, ydoc, typed, restarts, restored>>

\* The page is rendered: a ticket, and an empty Y.Doc.  So is every refresh of
\* a page that is open: the effect's cleanup destroys the old Y.Doc first.
OpenEditor(c) ==
  /\ c \in load.editors /\ load.room \in Rooms("member")
  /\ ed[c].open => "refresh" \in load.events
  /\ Leave(c, [Closed EXCEPT !.open = TRUE, !.after = restored])

CloseEditor(c) ==
  /\ "close" \in load.events /\ ed[c].open
  /\ Leave(c, Closed)

\* The connection is lost.
Drop(c) ==
  /\ "drop" \in load.events /\ ed[c].link
  /\ Leave(c, [ed[c] EXCEPT !.link = FALSE])

\* CollabTicketTTL is over: the connection stays, the next one is refused.
Expire(c) ==
  /\ "expire" \in load.events /\ ed[c].open
  /\ ed' = [ed EXCEPT ![c].expired = TRUE]
  /\ UNCHANGED <<pgVars, room, ydoc, typed, restarts, restored>>

\* AuthorizeCollab, asked by onAuthenticate.
Authorized(c) == ed[c].open /\ ~ed[c].expired

\* The provider connects, or connects again: onAuthenticate, and onLoadDocument
\* for the first one.
Connect(c) ==
  /\ ~ed[c].link /\ Authorized(c)
  /\ \E doc \in IF room.loaded THEN {room.doc} ELSE Loads :
       room' = [room EXCEPT !.loaded = TRUE, !.doc = doc]
  /\ ed' = [ed EXCEPT ![c].link = TRUE]
  /\ UNCHANGED <<pgVars, ydoc, typed, restarts, restored>>

\* Before the first synchronisation too: the editor is there at once.
Type(c) ==
  /\ ed[c].open /\ c \notin typed
  /\ ed' = [ed EXCEPT ![c].doc = @ \cup {TypedBy(c)}]
  /\ typed' = typed \cup {c}
  /\ UNCHANGED <<pgVars, room, ydoc, restarts, restored>>

SendUp(c) ==
  /\ ed[c].link /\ ~(ed[c].doc \subseteq room.doc)
  /\ room' = [room EXCEPT !.doc = @ \cup ed[c].doc, !.dirty = TRUE]
  /\ UNCHANGED <<pgVars, ydoc, ed, typed, restarts, restored>>

SendDown(c) ==
  /\ ed[c].link /\ ~(room.doc \subseteq ed[c].doc)
  /\ ed' = [ed EXCEPT ![c].doc = @ \cup room.doc]
  /\ UNCHANGED <<pgVars, room, ydoc, typed, restarts, restored>>

-----------------------------------------------------------------------------

\* The API's own steps.
RestoreStep(r) == RestoreVersion(r) /\ restored' = TRUE /\ UNCHANGED roomVars

ApiStep(r) ==
  /\ RequestStep(r)
  /\ restored' = (restored /\ RoomText' = RoomText)
  /\ UNCHANGED roomVars

EditorStep(c) ==
  \/ OpenEditor(c) \/ CloseEditor(c) \/ Drop(c) \/ Expire(c)
  \/ Connect(c) \/ Type(c) \/ SendUp(c) \/ SendDown(c)

CollabNext ==
  \/ \E r \in Requests : RestoreStep(r) \/ ApiStep(r) \/ Store(r)
  \/ Unload \/ Restart
  \/ \E c \in Editors : EditorStep(c)

\* A snapshot on its way arrives and is written.
PostStep ==
  \E r \in Requests :
    /\ WriteSnapshot(r) \/ WriteDocumentSnapshot(r) \/ ReadBack(r) \/ AppendVersion(r)
    /\ restored' = (restored /\ RoomText' = RoomText)
    /\ UNCHANGED roomVars

\* The debounce ends (20 s at the latest), and requests of the server are served.
Fairness == WF_collabVars(\E r \in Requests : Store(r)) /\ WF_collabVars(PostStep)

CollabSpec == CollabInit /\ [][CollabNext]_collabVars /\ Fairness

-----------------------------------------------------------------------------
(* Properties.                                                             *)

\* Every variable has its type.
CollabTypeOK ==
  /\ PgTypeOK
  /\ TextOf(room.doc) \in Bodies
  /\ room.dirty => room.loaded
  /\ ydoc = NoDoc \/ TextOf(ydoc) \in Bodies
  /\ \A c \in Editors : ed[c].link => ed[c].open /\ room.loaded
  /\ typed \subseteq Editors /\ restarts \in 0..1 /\ restored \in BOOLEAN

\* What the server has been sent it keeps until it restarts: in the document
\* while it is loaded, in ydocs when it is not, whatever becomes of the
\* snapshots and of the connections.
KnownDoc == IF room.loaded THEN room.doc ELSE IF ydoc = NoDoc THEN {} ELSE ydoc

MemoryKeepsEdits ==
  [][restarts' = restarts => KnownDoc \subseteq KnownDoc']_collabVars

\* No passage is ever in the page twice because of loads, reconnects, restores
\* and stores, in whatever order; a restart, after which the server seeds a new
\* document and the editors bring the old one, doubles it once.  And unless a
\* seed failed, what the page began with stays in it.
NeitherLostNorDoubled ==
  /\ \A t \in Passages : RoomText[t] <= 1 + restarts
  /\ "no seed" \notin load.events => RoomText[First] >= 1

\* What the server was sent comes to stay in the page or the document, if it
\* does not restart, requests do not fail or overtake one another, and nobody
\* writes the page in another way; even when all have left at once.
Undisturbed ==
  /\ ~load.faults /\ "restart" \notin load.events
  /\ load.calls \subseteq {"document"} /\ Cardinality(load.requests) = 1

ReceivedReachesPage ==
  \A c \in Editors :
    (Undisturbed /\ TypedBy(c) \in room.doc) ~> [](RoomText[c] >= 1)

\* What the history says below its title: whoever reloads the page after a
\* restore sees the restored body.
ReloadShowsRestored ==
  [][\A c \in Editors :
       ed[c].after /\ restored /\ ed[c].doc = {} /\ ed'[c].doc = room.doc
         => ed'[c].doc = {} \/ TextOf(ed'[c].doc) = RoomText]_collabVars
=============================================================================
