-------------------------------- MODULE Wiki --------------------------------
(***************************************************************************)
(* The wiki pages and the documents of one workspace as store.Store        *)
(* promises them and the memory store keeps them: every operation is one   *)
(* step under the store's lock.  WikiPg.tla is what the Postgres store     *)
(* does instead.                                                           *)
(*                                                                         *)
(* A page's title is edited, versioned and compared with its status, and   *)
(* stands with it in one variable.  Its position only orders siblings and  *)
(* is left out, as are the times.  A version of the caller's that is not   *)
(* the row's makes UpdatePage change nothing: that is not a step.          *)
(***************************************************************************)
EXTENDS PageTree, Naturals, Sequences

CONSTANTS
  Docs,               \* the ids that documents can have
  Bodies, Statuses,   \* Statuses holds "draft", "published" and both with other titles
  Titles,             \* of documents
  MaxPageVersions     \* versions a page keeps

ASSUME WikiAssumption == MaxPageVersions \in Nat \ {0}

VARIABLES
  pages,        \* the pages that exist: none is ever deleted
  parent, status, archived, body,
  history,      \* the versions of each page, oldest first
  docs,         \* the documents that exist: none is ever deleted
  trashed,      \* the ones with a deleted_at
  docTitle, docBody

pageVars == <<pages, parent, status, archived, body, history>>
docVars  == <<docs, trashed, docTitle, docBody>>
vars     == <<pageVars, docVars>>

Version == [body : Bodies, status : Statuses]

CreatePage(p, q, s, b) ==
  /\ p \in Pages \ pages
  /\ ValidParent(parent, pages, p, q)
  /\ pages' = pages \cup {p}
  /\ parent' = [parent EXCEPT ![p] = q]
  /\ status' = [status EXCEPT ![p] = s]
  /\ body' = [body EXCEPT ![p] = b]
  /\ archived' = archived \ {p}
  /\ UNCHANGED <<history, docVars>>

\* What the call does not give stays as it is, and the parent unchecked.
UpdatePage(p, q, s, b) ==
  /\ p \in pages
  /\ q = parent[p] \/ ValidParent(parent, pages, p, q)
  /\ parent' = [parent EXCEPT ![p] = q]
  /\ status' = [status EXCEPT ![p] = s]
  /\ body' = [body EXCEPT ![p] = b]
  /\ UNCHANGED <<pages, archived, history, docVars>>

ArchivePage(p) ==
  /\ p \in pages
  /\ archived' = archived \cup Below(parent, p)
  /\ UNCHANGED <<pages, parent, status, body, history, docVars>>

UnarchivePage(p) ==
  /\ p \in pages
  /\ archived' = archived \ Below(parent, p)
  /\ UNCHANGED <<pages, parent, status, body, history, docVars>>

\* Into archived pages too.
ApplyCollabSnapshot(p, b) ==
  /\ p \in pages
  /\ body' = [body EXCEPT ![p] = b]
  /\ UNCHANGED <<pages, parent, status, archived, history, docVars>>

\* The last n of a sequence.
LastOf(s, n) == IF Len(s) <= n THEN s ELSE SubSeq(s, Len(s) - n + 1, Len(s))

\* Mutant: one version too many is kept.
WithVersion_OneMore(s, v) ==
  IF s # <<>> /\ s[Len(s)] = v THEN s ELSE LastOf(Append(s, v), MaxPageVersions + 1)

\* A history after AppendPageVersionIfChanged.
WithVersion(s, v) ==
  IF s # <<>> /\ s[Len(s)] = v THEN s ELSE LastOf(Append(s, v), MaxPageVersions)

AppendPageVersionIfChanged(p, v) ==
  /\ p \in pages
  /\ history' = [history EXCEPT ![p] = WithVersion(@, v)]
  /\ UNCHANGED <<pages, parent, status, archived, body, docVars>>

-----------------------------------------------------------------------------
(* Documents.                                                              *)

CreateDocument(d, t, b) ==
  /\ d \in Docs \ docs
  /\ docs' = docs \cup {d}
  /\ docTitle' = [docTitle EXCEPT ![d] = t]
  /\ docBody' = [docBody EXCEPT ![d] = b]
  /\ UNCHANGED <<trashed, pageVars>>

UpdateDocumentTitle(d, t) ==
  /\ d \in docs
  /\ docTitle' = [docTitle EXCEPT ![d] = t]
  /\ UNCHANGED <<docs, trashed, docBody, pageVars>>

TrashDocument(d) ==
  /\ d \in docs
  /\ trashed' = trashed \cup {d}
  /\ UNCHANGED <<docs, docTitle, docBody, pageVars>>

RestoreDocument(d) ==
  /\ d \in docs
  /\ trashed' = trashed \ {d}
  /\ UNCHANGED <<docs, docTitle, docBody, pageVars>>

\* ApplyCollabSnapshot of a document: into trashed ones too.
ApplyDocumentSnapshot(d, b) ==
  /\ d \in docs
  /\ docBody' = [docBody EXCEPT ![d] = b]
  /\ UNCHANGED <<docs, trashed, docTitle, pageVars>>

-----------------------------------------------------------------------------

Init ==
  /\ pages = {}
  /\ parent = [p \in Pages |-> Root]
  /\ status \in [Pages -> Statuses]
  /\ archived = {}
  /\ body \in [Pages -> Bodies]
  /\ history = [p \in Pages |-> <<>>]
  /\ docs = {} /\ trashed = {}
  /\ docTitle \in [Docs -> Titles]
  /\ docBody \in [Docs -> Bodies]

PageStep(p) ==
  \/ \E q \in Pages \cup {Root}, s \in Statuses, b \in Bodies :
       CreatePage(p, q, s, b) \/ UpdatePage(p, q, s, b)
  \/ ArchivePage(p) \/ UnarchivePage(p)
  \/ \E b \in Bodies : ApplyCollabSnapshot(p, b)
  \/ \E v \in Version : AppendPageVersionIfChanged(p, v)

DocumentStep(d) ==
  \/ \E t \in Titles, b \in Bodies : CreateDocument(d, t, b)
  \/ \E t \in Titles : UpdateDocumentTitle(d, t)
  \/ TrashDocument(d) \/ RestoreDocument(d)
  \/ \E b \in Bodies : ApplyDocumentSnapshot(d, b)

Next == (\E p \in Pages : PageStep(p)) \/ (\E d \in Docs : DocumentStep(d))

Spec == Init /\ [][Next]_vars

-----------------------------------------------------------------------------

\* Every variable has its type; pages that do not exist are at the top, and
\* nothing is below them.
TypeOK ==
  /\ pages \subseteq Pages /\ archived \subseteq pages
  /\ parent \in [Pages -> pages \cup {Root}]
  /\ \A p \in Pages \ pages : parent[p] = Root
  /\ status \in [Pages -> Statuses]
  /\ body \in [Pages -> Bodies]
  /\ history \in [Pages -> Seq(Version)]
  /\ docs \subseteq Docs /\ trashed \subseteq docs
  /\ docTitle \in [Docs -> Titles]
  /\ docBody \in [Docs -> Bodies]

\* The walk of validateParent keeps the pages a forest, however they are moved.
Forest == Acyclic(parent)
=============================================================================
