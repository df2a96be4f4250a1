------------------------------- MODULE WikiPg -------------------------------
(***************************************************************************)
(* The wiki pages of the Postgres store, with the service's handlers that  *)
(* call it.  Requests run concurrently; a step is a statement, or several  *)
(* of one request that nobody could tell apart from one.  A statement      *)
(* reads what is committed when it starts (READ COMMITTED), and waits for  *)
(* the rows that another transaction has locked: until then it is not      *)
(* enabled.                                                                *)
(***************************************************************************)
EXTENDS Wiki, SequencesExt

CONSTANTS
  Requests,           \* the requests that can run at the same time
  PublishedStatuses,  \* the ones among Statuses
  FirstBody,          \* the body of the pages that exist at the start
  Workloads           \* what clients may do, one workload per behaviour

WikiCalls == {"create", "edit", "move", "archive", "restore", "snapshot", "document"}

\* The parts of a workload this module knows of.
WikiWorkload(w) ==
  /\ w.requests \subseteq Requests
  /\ w.calls \subseteq WikiCalls
  /\ w.pages \subseteq Pages        \* exist at the start, published at the top
  /\ w.docs \subseteq Docs          \* exist at the start
  /\ w.texts \subseteq Version      \* what pages are created with and edited to
  /\ w.faults \in BOOLEAN           \* requests may fail half-way

ASSUME WikiPgAssumption ==
  /\ PublishedStatuses # {} /\ PublishedStatuses \subseteq Statuses
  /\ FirstBody \in Bodies /\ Titles # {}
  /\ \A w \in Workloads : WikiWorkload(w)

VARIABLES
  req,          \* what each request is at, and what it has read
  raced,        \* history: a page was moved, or a tree archived, that had
                \* changed since the request read it
  load          \* the workload of this behaviour

pgVars == <<vars, req, raced, load>>

Idle == [at |-> "idle"]

FirstVersion ==
  [body |-> FirstBody, status |-> CHOOSE s \in PublishedStatuses : TRUE]

PgInit ==
  /\ load \in Workloads
  /\ pages = load.pages
  /\ parent = [p \in Pages |-> Root]
  /\ status = [p \in Pages |-> FirstVersion.status]
  /\ archived = {}
  /\ body = [p \in Pages |-> FirstBody]
  /\ history = [p \in Pages |-> IF p \in load.pages THEN <<FirstVersion>> ELSE <<>>]
  /\ docs = load.docs
  /\ trashed = {}
  /\ docTitle = [d \in Docs |-> CHOOSE t \in Titles : TRUE]
  /\ docBody = [d \in Docs |-> FirstBody]
  /\ req = [r \in Requests |-> Idle]
  /\ raced = FALSE

-----------------------------------------------------------------------------

Called(r, call) == r \in load.requests /\ req[r] = Idle /\ call \in load.calls

Goto(r, state) == req' = [req EXCEPT ![r] = state]

\* The request r goes on to state; those that have read the tree at another
\* statement now hold what is out of date.
Overtake(r, state, reading) ==
  req' = [q \in Requests |->
            IF q = r THEN state
            ELSE IF req[q].at \in reading THEN [req[q] EXCEPT !.stale = TRUE]
            ELSE req[q]]

\* The row is locked by a transaction of another request (FOR UPDATE).
Held(p, r) ==
  \E q \in Requests \ {r} : req[q].at \in {"walk", "write"} /\ req[q].page = p

\* An error, a lost connection, a crash: the transaction is rolled back, and
\* what the handler would do next is not done.
Abort(r) ==
  /\ load.faults /\ req[r] # Idle
  /\ Goto(r, Idle)
  /\ UNCHANGED <<vars, raced, load>>

\* What AppendPageVersionIfChanged is then called with.
ToAppend(p, v) == [at |-> "append", page |-> p, version |-> v]

\* validateParent and the INSERT: pages are never deleted, and other moves
\* can only make the walk fail.
InsertPage(r, p, q, v) ==
  /\ Called(r, "create")
  /\ CreatePage(p, q, v.status, v.body)
  /\ Overtake(r, ToAppend(p, v), {"archive", "unarchive"})
  /\ UNCHANGED <<raced, load>>

\* UpdatePage without a parent: the row is locked, compared with the version
\* the client has seen, written and committed.  A body is not always given.
EditPage(r, p, v) ==
  /\ Called(r, "edit")
  /\ p \in pages /\ ~Held(p, r)
  /\ status' = [status EXCEPT ![p] = v.status]
  /\ body' \in {body, [body EXCEPT ![p] = v.body]}
  /\ Goto(r, ToAppend(p, [body |-> body'[p], status |-> v.status]))
  /\ UNCHANGED <<pages, parent, archived, history, docVars, raced, load>>

\* UpdatePage with a parent: SELECT FOR UPDATE, and the first SELECT of
\* validateParentTx.  To move a page to the top needs no other row.
LockPage(r, p, q) ==
  /\ Called(r, "move")
  /\ p \in pages /\ ~Held(p, r)
  /\ q \in (pages \cup {Root}) \ {p}
  /\ Goto(r, [at    |-> IF q = Root THEN "write" ELSE "walk",
              page  |-> p, to |-> q, status |-> status[p], body |-> body[p],
              cur   |-> IF q = Root THEN Root ELSE parent[q],
              seen  |-> {q} \cap Pages, stale |-> FALSE])
  /\ UNCHANGED <<vars, raced, load>>

\* Mutant: the page itself is not looked for among its new ancestors.
ReadAncestor_AnyPage(r) ==
  LET q == req[r] IN
  /\ q.at = "walk"
  /\ Goto(r, CASE q.cur = Root   -> [q EXCEPT !.at = "write"]
               [] q.cur \in q.seen -> Idle
               [] OTHER -> [q EXCEPT !.cur = parent[q.cur], !.seen = @ \cup {q.cur}])
  /\ UNCHANGED <<vars, raced, load>>

\* One turn of the loop of validateParentTx; a cycle, and one it would make,
\* end the request.
ReadAncestor(r) ==
  LET q == req[r] IN
  /\ q.at = "walk"
  /\ Goto(r, CASE q.cur = Root -> [q EXCEPT !.at = "write"]
               [] q.cur \in q.seen \cup {q.page} -> Idle
               [] OTHER -> [q EXCEPT !.cur = parent[q.cur], !.seen = @ \cup {q.cur}])
  /\ UNCHANGED <<vars, raced, load>>

\* The UPDATE of the whole row, and COMMIT.
WritePage(r) ==
  LET q == req[r] IN
  /\ q.at = "write"
  /\ parent' = [parent EXCEPT ![q.page] = q.to]
  /\ status' = [status EXCEPT ![q.page] = q.status]
  /\ body' = [body EXCEPT ![q.page] = q.body]
  /\ raced' = (raced \/ q.stale)
  /\ Overtake(r, Idle, {"walk", "write", "archive", "unarchive"})
  /\ UNCHANGED <<pages, archived, history, docVars, load>>

-----------------------------------------------------------------------------

\* p is on a cycle: the recursive query of ArchivePage never ends.
OnCycle(p) == parent[p] # Root /\ p \in Up(parent, parent[p])

\* Mutant: the recursion goes one level down.
ReadTree_Children(r, p, op) ==
  /\ Called(r, "archive")
  /\ p \in pages /\ ~OnCycle(p)
  /\ Goto(r, [at |-> op, page |-> p, tree |-> {x \in pages : x = p \/ parent[x] = p},
              stale |-> FALSE])
  /\ UNCHANGED <<vars, raced, load>>

\* The recursive query of ArchivePage and UnarchivePage.
ReadTree(r, p, op) ==
  /\ Called(r, "archive")
  /\ p \in pages /\ ~OnCycle(p)
  /\ Goto(r, [at |-> op, page |-> p, tree |-> Below(parent, p), stale |-> FALSE])
  /\ UNCHANGED <<vars, raced, load>>

\* Its UPDATE, once the rows are free.
WriteTree(r) ==
  LET q == req[r] IN
  /\ q.at \in {"archive", "unarchive"}
  /\ \A x \in q.tree : ~Held(x, r)
  /\ archived' = IF q.at = "archive" THEN archived \cup q.tree ELSE archived \ q.tree
  /\ raced' = (raced \/ q.stale)
  /\ Goto(r, Idle)
  /\ UNCHANGED <<pages, parent, status, body, history, docVars, load>>

-----------------------------------------------------------------------------

\* GetPageVersion of RestorePageVersion.
ReadVersion(r, p, i) ==
  /\ Called(r, "restore")
  /\ p \in pages /\ i \in DOMAIN history[p]
  /\ Goto(r, [at |-> "restore", page |-> p, version |-> history[p][i]])
  /\ UNCHANGED <<vars, raced, load>>

\* Its UpdatePage.
RestoreVersion(r) ==
  LET q == req[r] IN
  /\ q.at = "restore"
  /\ ~Held(q.page, r)
  /\ status' = [status EXCEPT ![q.page] = q.version.status]
  /\ body' = [body EXCEPT ![q.page] = q.version.body]
  /\ Goto(r, ToAppend(q.page, q.version))
  /\ UNCHANGED <<pages, parent, archived, history, docVars, raced, load>>

\* Mutant: the page is not locked while its texts are written.
WriteSnapshot_Unlocked(r) ==
  LET q == req[r] IN
  /\ q.at = "snapshot"
  /\ ApplyCollabSnapshot(q.page, q.body)
  /\ Goto(r, [at |-> "get", page |-> q.page])
  /\ UNCHANGED <<raced, load>>

\* Mutant: the version is made of the snapshot and of the status the page had.
WriteSnapshot_OwnVersion(r) ==
  LET q == req[r] IN
  /\ q.at = "snapshot"
  /\ ~Held(q.page, r)
  /\ ApplyCollabSnapshot(q.page, q.body)
  /\ Goto(r, ToAppend(q.page, [body |-> q.body, status |-> FirstVersion.status]))
  /\ UNCHANGED <<raced, load>>

\* The collaboration server's POST: the UPDATE of ApplyCollabSnapshot, which
\* leaves the row's version as it is.
WriteSnapshot(r) ==
  LET q == req[r] IN
  /\ q.at = "snapshot"
  /\ ~Held(q.page, r)
  /\ ApplyCollabSnapshot(q.page, q.body)
  /\ Goto(r, [at |-> "get", page |-> q.page])
  /\ UNCHANGED <<raced, load>>

\* GetPage of the service's ApplyCollabSnapshot.
ReadBack(r) ==
  LET q == req[r] IN
  /\ q.at = "get"
  /\ Goto(r, ToAppend(q.page, [body |-> body[q.page], status |-> status[q.page]]))
  /\ UNCHANGED <<vars, raced, load>>

\* AppendPageVersionIfChanged, in a transaction of its own.
AppendVersion(r) ==
  LET q == req[r] IN
  /\ q.at = "append"
  /\ ~Held(q.page, r)
  /\ AppendPageVersionIfChanged(q.page, q.version)
  /\ Goto(r, Idle)
  /\ UNCHANGED <<raced, load>>

\* A snapshot of a page or a document arrives at the internal API.
SendSnapshot(r, p, b) ==
  /\ Called(r, "snapshot")
  /\ p \in pages \cup docs
  /\ Goto(r, [at |-> "snapshot", page |-> p, body |-> b])
  /\ UNCHANGED <<vars, raced, load>>

\* No page has this room, and the second UPDATE finds the document.
WriteDocumentSnapshot(r) ==
  LET q == req[r] IN
  /\ q.at = "snapshot"
  /\ ApplyDocumentSnapshot(q.page, q.body)
  /\ Goto(r, Idle)
  /\ UNCHANGED <<raced, load>>

\* The documents' handlers: each reads the row for its workspace, which stays
\* what it is, and then is one statement.
NewDocument(r, d, t, b) ==
  Called(r, "document") /\ CreateDocument(d, t, b) /\ UNCHANGED <<req, raced, load>>

RenameDocument(r, d, t) ==
  Called(r, "document") /\ UpdateDocumentTitle(d, t) /\ UNCHANGED <<req, raced, load>>

\* A document in the trash is not found a second time.
DeleteDocument(r, d) ==
  /\ Called(r, "document")
  /\ d \notin trashed
  /\ TrashDocument(d)
  /\ UNCHANGED <<req, raced, load>>

UndeleteDocument(r, d) ==
  Called(r, "document") /\ RestoreDocument(d) /\ UNCHANGED <<req, raced, load>>

-----------------------------------------------------------------------------

RequestStep(r) ==
  \/ Abort(r)
  \/ \E p \in Pages, q \in Pages \cup {Root}, v \in load.texts : InsertPage(r, p, q, v)
  \/ \E p \in Pages, v \in load.texts : EditPage(r, p, v)
  \/ \E p \in Pages, q \in Pages \cup {Root} : LockPage(r, p, q)
  \/ ReadAncestor(r) \/ WritePage(r)
  \/ \E p \in Pages, op \in {"archive", "unarchive"} : ReadTree(r, p, op)
  \/ WriteTree(r)
  \/ \E p \in Pages, i \in 1..MaxPageVersions : ReadVersion(r, p, i)
  \/ \E p \in Pages \cup Docs, v \in load.texts : SendSnapshot(r, p, v.body)
  \/ WriteSnapshot(r) \/ ReadBack(r) \/ AppendVersion(r)
  \/ WriteDocumentSnapshot(r)
  \/ \E d \in Docs :
       \/ \E t \in Titles, v \in load.texts : NewDocument(r, d, t, v.body)
       \/ \E t \in Titles : RenameDocument(r, d, t)
       \/ DeleteDocument(r, d) \/ UndeleteDocument(r, d)

PgNext == \E r \in Requests : RequestStep(r) \/ RestoreVersion(r)

PgSpec == PgInit /\ [][PgNext]_pgVars

-----------------------------------------------------------------------------
(* What the service shows of the pages and the documents.                  *)

Published == {p \in pages : status[p] \in PublishedStatuses}

\* The pages a reader of that role may see.
Visible(role) ==
  IF role = "guest" THEN GuestPages(parent, pages, Published) ELSE pages

\* PageTree: the tree in the margin.
TreeOf(role) == Listed(parent, Visible(role) \ archived)

\* ArchivedPages.
ArchiveOf(role) == IF role = "guest" THEN {} ELSE archived

\* Mutant: the ancestors of the page are not asked for.
Opens_OwnStatus(role) ==
  IF role = "guest" THEN Published \ archived ELSE pages

\* GetPage, which the files, the versions and the room of a page ask first.
Opens(role) == IF role = "guest" THEN Visible(role) \ archived ELSE pages

\* searchPages, for a query that matches everything.
Found(role) == Visible(role) \ archived

\* ListDocuments, ListTrashedDocuments, GetDocument, and searchDocuments, which
\* has no role.
ListedDocuments      == docs \ trashed
TrashOf(role)        == IF role = "guest" THEN {} ELSE trashed
OpensDocument(role)  == IF role = "guest" THEN docs \ trashed ELSE docs
FoundDocuments       == docs \ trashed

\* IssueCollabTicket: the rooms a reader may enter.
Rooms(role) == Opens(role) \cup OpensDocument(role)

-----------------------------------------------------------------------------
(* Properties.                                                             *)

\* Every variable has its type.
PgTypeOK ==
  /\ TypeOK
  /\ load \in Workloads
  /\ raced \in BOOLEAN
  /\ \A p \in Pages : Len(history[p]) <= MaxPageVersions
  /\ \A r \in Requests :
       req[r] = Idle \/ (req[r].page \in pages \cup docs /\ r \in load.requests)

\* The commit of a move or of an archive or unarchive, and every other write,
\* is the store's operation: what was read before another request committed
\* matters only to a request that was overtaken.
ContractStep ==
  \/ UNCHANGED vars
  \/ \E p \in pages' :
       \/ CreatePage(p, parent'[p], status'[p], body'[p])
       \/ UpdatePage(p, parent'[p], status'[p], body'[p])
       \/ ArchivePage(p) \/ UnarchivePage(p)
       \/ ApplyCollabSnapshot(p, body'[p])
       \/ \E v \in ToSet(history'[p]) : AppendPageVersionIfChanged(p, v)
  \/ \E d \in docs' :
       \/ CreateDocument(d, docTitle'[d], docBody'[d])
       \/ UpdateDocumentTitle(d, docTitle'[d])
       \/ TrashDocument(d) \/ RestoreDocument(d)
       \/ ApplyDocumentSnapshot(d, docBody'[d])

ContractUntilRaced == [][ContractStep \/ raced']_pgVars

\* No page ends up above itself, unless a move was overtaken by another between
\* the walk up and the commit: then two pages can be moved below one another,
\* both are in no tree, and to archive them never ends.
CycleOnlyFromOverlap == raced \/ Acyclic(parent)

\* A move writes the whole row as it was when it was locked: it never puts back
\* a text or a status that something else has replaced since.
MoveKeepsTexts ==
  [][\A r \in Requests : req[r].at = "write" /\ req'[r] = Idle =>
       UNCHANGED <<body, status>>]_pgVars

\* What guests find by search is what they can open and enter, the lists show
\* nothing else, and a page that is not archived is missing from the members'
\* tree only below one that is: they find it by search, and unarchiving that
\* one brings it back.
ReadersAgree ==
  /\ Rooms("guest") = Found("guest") \cup FoundDocuments
  /\ \A role \in {"guest", "member"} :
       /\ TreeOf(role) \subseteq Found(role)
       /\ ArchiveOf(role) \cup ListedDocuments \cup TrashOf(role) \subseteq Rooms(role)
  /\ ListedDocuments \cup TrashOf("member") = docs
  /\ ~raced => \A p \in Found("member") \ TreeOf("member") :
                 Up(parent, p) \cap ArchiveOf("member") # {}

\* When nobody is at work on a page its texts are among its versions, however
\* edits, restores and snapshots were interleaved, as long as none of them
\* failed between its commit and its version.
TextIsAVersion ==
  \A p \in pages :
    \/ load.faults \/ \E r \in Requests : req[r] # Idle /\ req[r].page = p
    \/ [body |-> body[p], status |-> status[p]] \in ToSet(history[p])
=============================================================================
