# pf-workspace in TLA+

This directory specifies and verifies the core of pf-workspace: a team
workspace with Kanban boards, a wiki with collaborative editing, and chat. It
holds TLA+ modules translated from the code, TLC configurations that check
them on small instances, and TLAPS proofs for every value of the constants of
what matters most. Paths below are relative to `src/`.

    tlc -config ChatShown.cfg MCChat.tla     # a run: a .cfg and the module PROJECT.json lists with it
    tlapm MembershipProofs.tla               # proofs; the other modules of proofs end in Proofs too

## 1. The system

A Next.js application (`apps/web`) renders pages and calls a Go API
(`apps/api`); a Node server (`apps/collab`) holds the shared documents of open
editors; Postgres holds everything else. The store has two implementations,
one in memory for tests and one on Postgres.

| Component | State | Operations | Interacts with |
| --- | --- | --- | --- |
| Members and invitations (`service/workspace.go`) | rows of `members`, `invitations`, `audit_events` | create workspace; add, demote, remove, leave; invite, revoke, edit, resend, accept | every other handler asks `requireRole` first |
| Chat channel (`service/workspace.go`, `postgres/wiki.go`, `ChatRoom.tsx`) | log of messages, a read cursor per user; on each page a list, `lastSeq`, `markedSeq` | post, list, mark read, catch up, refresh, reconnect | posts go to the hub; the page listens on a socket |
| Hub (`realtime/hub.go`, `web/chat.go`) | a room of Go channels per chat channel; two goroutines per socket | Subscribe, Unsubscribe, Broadcast, read, write | chat, typing notices |
| Kanban board (`memory/store.go`, `postgres/store.go`) | columns, cards with column, position, version, `completed_at` | create, rename, delete, reorder columns; create, edit, move cards | burndown reads `completed_at` |
| Kanban page (`KanbanBoard.tsx`) | the board as it was rendered, the form of a card | drag, edit, save, refresh | the board's API |
| Editor binding (`yCollabIME.ts`, `imeDiff.ts`) | CodeMirror's document, the Yjs text, `composing` | edit, remote delta, composition start and end | the collaboration server, through Yjs |
| Collaboration server (`apps/collab`) | a map of Yjs documents, in memory | authenticate, load, store after a debounce | tickets, plain text and snapshots of the API |
| Wiki pages (`service/workspace.go`, `postgres/wiki.go`, `domain/tree.go`) | tree of pages with version, status, archive flag | create, edit, move, archive, unarchive; list, tree, open, search by role | snapshots, versions, guests' view |
| Page versions (`service/sprints.go`, `domain/diff.go`) | numbered versions of each page, at most `MaxPageVersions` | append if changed, restore, diff | pages, collaboration |
| Documents (`postgres/wiki.go`) | title, text, `deleted_at` | create, rename, trash, restore | snapshots, search |
| Sprints (`service/sprints.go`, `domain/sprint.go`) | windows, the sprint of each card | create, edit, delete, assign, burndown | cards, the card form |
| Files, search, tenants, authentication, HTTP, configuration | blobs and metadata; none; a tenant per request; cookies and tokens | | |

Hard behaviours, in one line each; `PROJECT.json` lists them with their lines.

* Handlers are sequences of store calls, each a transaction of its own: what
  was read by one call may be stale at the next (members, invitations, the
  deletion of a column, sprints).
* On Postgres some store calls are several statements without a transaction,
  or with one that starts after the checks (DeleteColumn, ReorderColumns,
  CreateCard, DeleteSprint).
* Chat delivery is best effort: the hub drops, the socket drops, a message
  falls between a catch-up and the subscription; the page repairs itself.
* `Broadcast` sends to channels that may be closed by then.
* An input method suspends the synchronisation of the editor in both directions.
* The collaboration server forgets its documents when it restarts, and keeps
  them when the page is changed behind its back.
* A page's move reads its new ancestors one by one, none of them locked; an
  archive reads the tree in one statement and writes it in another.
* A page's form compares what the user chose with a board that has changed
  since.

What makes each component correct:

* members: the workspace always has its one owner; a write is made for someone
  who is entitled to it when it happens; an invitation admits as many as it
  says and nobody once it is revoked.
* chat: the log only grows, cursors only advance, the page shows each message
  once and in the end shows all of them, and reports as read what it shows.
* hub: a post never waits for a reader; no socket gets an answer before what it
  answers; the subscriptions of dead sockets end.
* board: each card is in one place; the board keeps a column; no edit is lost;
  both stores do the same.
* editor: what is shown is what is shared, and nobody's text disappears.
* wiki: the tree is a tree; what a guest finds, opens and enters are the same
  pages; every text a page has had for long is among its versions.
* collaboration: what an editor has sent reaches the page, once.
* sprints: a card is in a sprint that exists; a burndown's past stays what it
  was.

## 2. The modules

| Module | What it is |
| --- | --- |
| `Members` | abstract: the member and invitation calls, each one step |
| `Membership` | members and invitations, one action per store call; implements `Members` |
| `MembershipProofs` | its inductive invariants, the refinement and the theorems |
| `ChannelLog` | abstract: a log and cursors |
| `Chat` | the channel, the calls of its pages, the pages; implements `ChannelLog` |
| `ChatProofs` | its inductive invariant, the refinement and the theorems |
| `Hub` | hub, sockets and broadcasting goroutines |
| `HubProofs` | its inductive invariant and the theorems |
| `Board` | a board as the memory store keeps it; the contract of the store |
| `BoardPg` | the Postgres store, statement by statement; implements `Board` where it does |
| `Planning` | over `BoardPg`: sprints, burndown, days, and the card form of the page |
| `BoardProofs` | the rows, the locks and the form of `Planning`, and the refinement of `Board`: invariants and theorems |
| `SprintProofs` | the sprints, the burndown and the types of `Planning`: invariants and theorems |
| `PageTree` | operators: who is above and below a page, what a role is shown |
| `Wiki` | pages, versions and documents as the memory store keeps them |
| `WikiPg` | the Postgres store and the handlers, statement by statement |
| `Collab` | over `WikiPg`: one room, its server and its editors |
| `PageDiff` | the line diff of two versions, and what a diff is |
| `WikiProofs` | the forest of pages, what requests hold, the contract, the readers and the versions: invariants and theorems |
| `CollabProofs` | the room and its texts: invariant and theorems |
| `ImeSync` | editor, shared text and composition |
| `TextProofs` | what the recursions of `ImeSync` and `PageDiff` compute, for texts of any length: lemmas, invariant and theorems |
| `MCMembership`, `MCChat`, `MCBoardPg`, `MCPlanning`, `MCWiki` | the same module with what TLC needs: symmetry sets, workloads, values of function constants |

Operators named `X_Something` after an operator `X`, with a comment that starts
with "Mutant", are not part of a specification. Each is `X` with a plausible
bug; put in the place of `X` it makes TLC report the property it is listed
with in `PROJECT.json`, which shows that the property depends on that code.

A *workload* (`load`, of `BoardPg`, `Planning`, `WikiPg` and `Collab`) says what
clients do in a behaviour: which calls, on how many rows, by how many requests
at once, with which failures. It is chosen in the initial state and never
changes. One run then asks many questions, and each spends its states on the
calls it is about; the proofs hold for any workloads.

### Membership

`req[r]` is a running handler: its operation, the store call it makes next
(`pc`) and what its reads returned. `Begin...` is `requireRole`; `ReadTarget`,
`CountOwners` and `ListFor...` are its further reads; `Write...` its write. So
every interleaving of handlers between their store calls is a behaviour. A
store call is atomic: it is one lock hold in memory and one transaction (or
statement) on Postgres. A check that fails at the first call changes nothing
and has no action. The clock only moves by `Tick`; `now` is read where the code
reads it.

Abstractions: one workspace; a role string that is not known ranks as a guest
does; a user's e-mail is the user; of the audit events only
`invitation.accepted` is counted, the others are appended and read by nothing;
resending takes any lifetime of `TTLs`; `peak` remembers the highest limit an
invitation ever had, for the property only.

`Members` has the calls as a client of the API sees them: who may make each, and
what it does to the tables in one step. `ApiSpec` says that the handlers of
`Membership`, interleaved between their store calls, do nothing else. It is as
strict as the code allows: the time at which an invitation is accepted, or from
which its lifetime counts, was read earlier and may have passed, and a new
limit may be below the uses that there are.

### Chat and ChannelLog

`last` is the log (messages are 1..last), `cursor` the rows of
`channel_reads`, `tab[c]` an open page. A call of a page is a record that is
sent, served (it takes effect) and answered; both ways can fail. The first
rendering of the page and each `router.refresh` are calls of kind "load".
`Deliver` is a message on the socket: any message after `lastSeq`, in any
order, or never; this is what `Hub` leaves of the order. Two equal calls that
are outstanding count as one (the second changes nothing the first does not). Pages meet only in the log and
in the cursor of their user.
`lastSeq` is raised in a state updater that React runs at once or later, so
`ReplyGet` reports the old or the new value.

Left out: closing a page, a first rendering that fails, uploads before a post,
the typing indicator. An expired ticket makes `Connect` a step that changes
nothing, as the page tries for ever.

### Hub

`sub[s]` is a subscription: its Go channel (`buf`, at most `Cap`), its socket,
its writer, and what was written. `sender[b]` is a goroutine in `Broadcast`,
with the snapshot `targets` it has yet to send to. A send to a closed channel
panics: net/http recovers a posting handler, and nothing recovers the reading
goroutine of a socket, so a panic of a typing notice ends the process (all
subscriptions and broadcasts go, the log stays). `known[m]` remembers the
messages that were answered when m was appended. A socket that has left can
come again (`Collect`).

### Board and BoardPg

`Board` is the store's contract as the memory store keeps it: lists, and each
operation is one step. A column's name is whether it `ColumnIsDone`; a card's
texts, sprint and people are its version. `UpdateCard` and `MoveCard` take the
version the client has seen; with another one they change nothing.

`BoardPg` has the rows: positions instead of lists, and requests that stop
between statements. `req[r].at` says which statement is next, its other fields
what was read. Reads see what is committed (READ COMMITTED); rows a transaction
has written are locked for the others until it ends, and a statement that needs
one is not enabled (it waits). `Abort` rolls a request back at any time: a
deadlock, a lost connection, a crash, a violated foreign key. Consecutive
statements are one step when nothing another request does between them can
matter; an id is drawn by its INSERT. `bases` remembers which version each
accepted write was based on.

`EachCardOnce` and `KeepsCompleted` are stated in `Board`, on lists, and checked
on the rows, when requests come one at a time (`OneAtATime`). With two, both
fail for a reason the code accepts: a column is renamed to Done between a
move's read of its name and the move's commit. The refinement mapping gives `Board` the columns and the cards of each column
sorted by position and id. Uncommitted writes are not in it, so a transaction
is one step of `Board` when it commits.

Archiving a board takes it off a list and is left out.

### Planning

`Planning` adds to a board its sprints (`sprints`, `gone`, `window`, and
`sprintOf`, the `sprint_id` of each card), the clock and the page. Its requests
stop between statements as those of `BoardPg` do. `UpdateSprint` reads the sprint
twice, once in the service, which checks the window, and once in the store,
which writes it; `DeleteSprint` deletes in one transaction and clears the cards
in another; a card is assigned by an UPDATE that found the sprint before and
did not lock it. `loose` remembers the sprints for which such a race, or a
failure, happened: `CardsInRealSprints` and `WindowsAreValid` say that nothing
else makes a wrong row.

Time is counted in halves of a day, so that a window may begin or end in the
middle of one; `today` moves by `NextDay` between any two steps, and `Dated`
writes the times a request has read when it started.

`page` is the board as it was last rendered, `form` the open form of a card. It
keeps the version it was opened with and compares the column the user chose with
the one of the page *now*, as `saveSelected` does. Rendering is one reading of
the board. The form closes after a successful save (`CloseForm`); a refused save
leaves it open.

### PageTree, Wiki and WikiPg

`PageTree` has the walks of the code as closures: what has been visited in the
end is the smallest set closed under the step. So each means something on a
cycle too, where the code stops by its `seen` set (or, in `ArchivePage`'s
recursive query, does not stop: `OnCycle`).

`Wiki` is the contract of the store, one step per operation. `WikiPg` has the
handlers: an edit and its `AppendPageVersionIfChanged`, the two transactions of
a restore, the three statements of a snapshot, the loop of `validateParentTx`
(`LockPage`, one `ReadAncestor` per turn, `WritePage`), the query and the UPDATE
of an archive. `stale` marks a request whose reading of the tree another commit
has overtaken, and `raced` remembers that such a request has committed.
`Visible`, `TreeOf`, `Opens`, `Found`, `Rooms` and the others are what each
handler shows to a role.

Left out: positions among siblings, times, e-mails and mentions, who edited a
document last, the limits on lengths.

### Collab

One room. A text is how often each passage is in it; a Yjs document is the set
of insertions it has seen, and merging is union, which is what Yjs guarantees of
insertions. `room` is the document in the server, `ydoc` what the map `ydocs`
holds, `ed[c]` a tab: its document, its connection, its ticket. `Store` sends a
snapshot as a request of `WikiPg`, which is then interleaved with the others.
Hocuspocus 2.15 and the provider are external; they load a document for its
first connection, store it after a debounce or when the last connection goes,
and unload it afterwards. A step of an editor is any of open, close, refresh,
drop, expire, connect, type, send, receive, in any order. `restored` and `after`
remember a restore, for `ReloadShowsRestored`.

The other clients of the API send texts that have each passage at most once, and
nothing of what the room's editors will type (`RoomWorkload`): so a passage that
is there twice was put there by the server.

Left out: deletions, the order of insertions, cursors, the length limits (the
server counts UTF-16 units, the API bytes), tabs that are read-only.

### PageDiff

The table and the walk of `domain/diff.go` as recursive functions of a place, a
line of the one text and a line of the other (`Table`, `DiffFrom`).
`DiffIsRight` says what a diff of two texts is: it is the one without what is
inserted, the other without what is deleted, and keeps as many lines as any
sequence has that is part of both (`IsPartOf`).

### ImeSync

Two texts, `view` and `ytext`. CodeMirror (`Dispatch`) and Yjs (`ApplyDelta`)
are external: they are modelled by what the binding relies on, that the changes
of one transaction have offsets of the old document and that a delta is read
from left to right. Everything the binding does is computed as in the code:
`FromDelta`, `Replay`, `ShouldSync`, `DiffEnds`. A loop over changes or over the
pieces of a delta is a function of how many of them are done (`Replayed`,
`ChangesAt`), which is what the proofs are about. `before` remembers the view at
the start of a composition.

## 3. What the runs show

All passing runs are exhaustive within the bounds of their `.cfg`.

| Run | Question | Bounds, and why they are enough |
| --- | --- | --- |
| membership | one owner, authority at the time of the write; limits and audit of an invitation; `Membership` implements `Members` | 3 users, 2 handlers at once, 1 invitation of 2 uses, time passing between the steps: a race of two handlers over a third user or over the last use |
| email | violated, see below | 2 users |
| chat | what one page shows and reports | 3 messages, 2 outstanding calls at a reconnect, drops, failures, expiry: the list can be wrong at both ends and in the middle |
| chat_shown | `Chat` implements `ChannelLog`; every message is shown | one page that posts, 3 messages of it or of others, a socket that may lose them all: a message can be missing between two that are shown. Other pages only post and move the cursor; the theorems of `ChatProofs` have any number of them |
| hub | no answer before the message; a broadcast ends; subscriptions end | 2 sockets with buffers of 1, 2 broadcasters, 2 messages and a typing notice: a full buffer, and a message that is appended while the other is under way |
| board | eight workloads: `Serial` and `Growing` (BoardPg implements `Board`; each card in one place, completion), `Races` and `Writes` (no lost edit, locks, foreign keys), `Windows`, `Assignments` (sprints changed and deleted under cards), `Burndowns` (a burndown's past), `Forms` (the card form against what others did) | `Serial` 1 request, 1 row created; `Growing` 2 rows, and columns that keep their order; the others 2 requests; at most 4 columns, 2 cards, 4 versions, 1 sprint, 3 days: two cards exchange places, a column is deleted under a move, both halves of a window change at once, a card enters Done, leaves it and comes back |
| board_same_column, board_non_empty | violated, see below | |
| wiki | eleven workloads: `Moves`, `Archives`, `Growth` (the tree under races), `Lists` (what roles see), `Texts` (edit, restore, snapshot and move of one page), `Documents`, `DocRoom`, and `Steady`, `Crashing`, `Slow`, `Contested` (rooms) | 3 pages, which is what two crossing moves and a bystander need; 2 requests; 2 versions a page; 2 editors, each typing once; 1 restart. `MaxCopies` (4) is never reached, and need not be more than 2 (`CollabTypeOKAlways`). The `ASSUME` of `MCWiki` compares `PageDiff` with its definition on all pairs of texts of at most 3 lines over 2; `LineDiffIsRight` proves it of all |
| wiki_restore | violated, see below | `Contested` |
| ime | the editor shows the shared text | texts of 3 letters over 2 characters, peers' edits of 3 pieces, the user's in 2 places |
| ime_peers | violated, see below | 2 letters |

`CHECK_DEADLOCK FALSE` stands where the bounds end a behaviour or where the
system really rests (the hub without traffic). Symmetry is used for safety
only, over identities that no definition tells apart.

Fairness. `chat_shown`: the server answers, answers arrive, the reconnect
timer fires; nothing is assumed of the socket. It runs without failing calls
and without an expired ticket, since neither is retried by the page. The
hypothesis of `EventuallyShown` (the page has marked something) is needed: a
page of an empty channel may miss the first message, as the upgrade is answered
before the subscription. `hub`: that a goroutine inside `Broadcast` goes on
running, which Go's scheduler does. `DeadSocketsLeave` has the fairness of the
writers as its hypothesis, as a write ends within its 10 s deadline;
`BroadcastEnds` does without. `wiki`: the debounce of a store ends (20 s at the
latest) and the server's requests are served; `ReceivedReachesPage` has as its
hypotheses that requests do not fail, the server does not restart, and nobody
writes the page in another way, because the code then promises nothing. Users,
editors and sockets are never assumed to do anything.

### Disagreements between the code and what it says

* **email** An invitation that is re-addressed between the e-mail check of
  `AcceptInvitation` and its transaction lets in the old addressee, although the
  join page says the address must match.
* **board_same_column** Moving a card down within its column, Postgres puts
  it one place higher than the memory store: the moved card is still counted.
  `store.go` says both keep one contract.
* **board_non_empty** A card created between `DeleteColumn`'s count and its
  DELETE is deleted by the foreign key; the page and a test say a column with
  cards cannot be deleted. (In the same window, two deletions that both count
  two columns leave none.)
* **wiki_restore** A page is restored while the collaboration server has a
  document of its room: a reload shows the old text, and the next store writes
  it over the restored body. The history page tells the user to reload.
* **ime_peers** What peers write while the user composes is deleted, for
  everybody, when the composition ends: the end makes the shared text equal to
  an editor that has not seen it.

## 4. What is proved

The theorems hold for any sets of users, requests, pages, editors and any
bounds that satisfy the modules' assumptions; some name a hypothesis of their own
besides (`RequestsFitVersions`, `NoDocIsNoDocument`, `RoomsAreApart`,
`NotWithinColumn`, below).
Hardly one of the properties is inductive; each proof has an invariant that adds
what requests know between their steps, one lemma per step or group of steps that
has one effect, and a last lemma that puts the steps together.

### MembershipProofs

`MembershipTypeOK`, `SoleOwnerAlways`, `AuthorityHoldsAlways`,
`UsesBoundedAlways`, `AuditedJoinsAreUsesAlways` (invariants),
`RevokedIsFinalAlways` (action property), `ApiSpecAlways` (the refinement of
`Members`), from `MembershipAssumption` (`Nobody` is no user, lifetimes and
limits are positive).

`IInv` adds: the creator is the one owner (`OnlyCreatorOwns`); a handler that
acts with an owner's authority is the creator's, and one that is about to write
a member's row has a target that is not the creator, or has counted and found
a second owner, which is impossible (`RequestFacts`); an invitation is within
its limits and untouched before it is issued (`InviteFacts`). The argument: only
the owner grants roles, never the role owner, and the last owner is neither
demoted nor removed, so the first owner stays the only one; hence what
`requireRole` has read cannot become stale.

That is also why the handlers implement `Members`. The write of each is the call,
and nothing else is seen of it; so what has to be shown is that the guards of the
call hold when it writes. Authority holds by `IInv`. Of an invitation, `TimeInv`
keeps what was read of the clock in the past, and that what a request is about to
write is what an owner may ask for. A join looks and writes in one transaction,
except for the time. For the audit, `AuditInv` counts the uses of an invitation
as those recorded and those of the handlers that wait to record one; each step
moves at most one handler into or out of that set.

### ChatProofs

`ChatTypeOKAlways`, `NoDuplicatesAlways`, `LastSeqIsNewestAlways`,
`ReadNotForgottenAlways` (invariants), `MarksWhatItShowsAlways` (action
property), `LogSpecAlways` (the refinement of `ChannelLog`), of `Spec`, for any
number of pages, users and messages and any faults, from `ChatAssumption`.

The invariant says of each page that it is in order (`Fit`): it shows nothing
twice, `lastSeq` is the newest it shows and in the log, what it has marked is no
newer, and each of its calls asks for, and answers with, what is in the log. Its
`Owes` is `ReadNotForgotten` for one page. `RoomInv` is what makes a post that is
under way fit the bounded log. A failure can lower `markedSeq` only below the call
that failed, so a page that has marked `lastSeq` again has asked again; a refresh
sets it to 0, and `ReadNotForgotten` speaks of such a page only when it is empty.
That `Ascending` is the sorted list of a set, of which the code appends the rest
of a catch-up, needs that a finite set of numbers can be listed in order. The
library's induction takes an operator; `SetInduction` says the same of a set of
numbers, and `Lists` follows from it.

### WikiProofs

`WikiTypes` and `WikiForest`, of the contract: `validateParent` keeps the pages
a forest. `CyclesTakeARace`, of Postgres with rooms: pages form a cycle only
after a move was overtaken by another between its walk and its commit. The
lemma `HangKeepsAcyclic` is the reason for both: a page that is hung below q
makes no cycle if a set holds q, is closed under the way up, and does not hold
the page. On Postgres that set is `seen`, the pages a walk has visited, and
`RaceInv` says so: until the walk is overtaken, the parent of what it has seen is
seen, or is the page it reads next, or the top. `Overtake` marks every walk that
a commit makes stale, so an unmarked one has read the tree that is there.

`PgTypeOKAlways`, `ReadersAgreeAlways`, `TextIsAVersionAlways` (invariants),
`MoveKeepsTextsAlways`, `ContractUntilRacedAlways` (action properties), of the
specification with rooms, which has every step of `WikiPg`.

`Fits(r, q)` is what a request knows between its statements: one that walks has
its page locked, so status and text are as it read them (that is
`MoveKeepsTexts`); an archive's list is what is below its page, until it is marked
stale; whoever is at work on a page is at work on one that exists. `Alone` is the
row lock: no page has two. The contract follows from that and from the walk's
`RaceInv`: an unmarked write has checked the tree that there is, so it is the
one-step move; every other commit is one statement.

`ReadersAgree` compares what the handlers show, by their definitions, except for
its last part: a page that is missing from the tree is below an archived one. The
way up from a page ends at the top while the pages are a forest, so a page that
no archived one is above is in the tree.

`TextInv` is the argument about versions: the text of a page is owed, by a
request that will append it, or it is among the versions with enough room after
it for the late ones, whose texts have been replaced. An append adds one
version and ends one late request. So the text stays if no more requests can be
at work than a page keeps versions (`RequestsFitVersions`; the code keeps 100,
`domain.go:112`). Without that hypothesis it is false, and TLC finds it: the
text's version is pushed out by as many late ones as are kept.

### CollabProofs

`CollabTypeOKAlways`, `NeitherLostNorDoubledAlways` (invariants),
`MemoryKeepsEditsAlways` (action property), of the room with everything of
`WikiPg`, for any number of editors. `NoDocIsNoDocument` says that the constant
`NoDoc` is not a set of insertions; TLC's `NoDoc` is a model value and differs from
every set, so it cannot evaluate this one, and it is a hypothesis and not an
`ASSUME`.

An insertion carries the seed it came from. The server seeds a document when it
has none: at first, and after a restart; so whatever the copies of editors,
server and map are, what is in them was typed, or is of the first or of the
second seed (`DocsOK`). Which numbers these seeds have is quantified, since
`Seeded` chooses one that no copy holds. `Limit(t)` is how often a passage can
be in a text then, and `Good` the set of such texts; `TextsIn(Good)` says that
every text that is kept or held is one: the body, its versions, what a snapshot
or a restore carries. The hard step is a seed, where the limit of every passage
goes up by one at once, and a restart, where it does not. What is typed is given
no second place by the assumption that clients send texts with each passage at
most once.

`SentIsOwedAlways` (invariant) and `StaysInPageAlways` (action property) are the
safety of `ReceivedReachesPage`, under its hypothesis `Undisturbed`: what the
server was sent is in the page, or in a snapshot on its way, or the server owes
a store; and what the page has got it does not lose again. What is left to
fairness is that the owed store and the snapshot are made. `OwedInv` adds what
makes them inductive: nothing is in the page, or on its way to it, that the
server has not, and the snapshot on its way has all that the page has. The first
needs that a document is made before it is opened and that a seed has nothing
the editors type; the second that one request is at work at a time. Two
overlapping stores could arrive in the other order. `RoomsAreApart` says that no
page has a document's room (`id.New` makes the names of both, `wiki.go:36` and
`wiki.go:217`) and that the requests are finitely many.

### BoardProofs

All of `PlanSpec`, that is with the sprints, the form of the page and failures at
any statement.

*Row locks*: `NoLostEditAlways`, `MoverHoldsItsCardAlways`,
`CardsHaveAColumnAlways`, `OneHolderAlways`. `Holds(r, c)` is what request r has
locked of the cards: the one it moves or assigns, or all that go with its column.
`IInv` says that no card has two holders, that a holder's reading is still true
(`KnowsItsCard`), that cards not yet created have no row, and that the n-th write
was based on the n-th version. A request gets its card when `CardHeld` says that
nobody has it; after that only the holder's own steps write it, so when it
commits it still has the version the client saw. `Locks` is the lemma for steps
that take a row, `Writes` for those that write one and let go, `GoesOn`, `Onward`
and `Ends` for the rest.

*The form*: `SaveMovesOnlyIfPickedAlways`. Versions only grow, and a card that is
gone stays gone (`RowsGrow`); so a page that has fallen behind shows what was
there (`PageInv`). A save that gets past the comparison of versions is of a card
nobody has written since the form was opened; so whatever the page was refreshed
with meanwhile, it has the card in the column where the form found it.

*One request at a time*: `EachCardOnceAlways`, `StaysCompletedAlways`,
`ContractSpecAlways`, `MovesAsAskedAlways`. `TInv` has the types of the rows and
of the lists in requests; `Alone` says that what the one request has read is still
so, and `AsPlanned` what that means for its lists: the order a deletion is about to
write is the columns' without the one that goes, a move's two lists are the two
columns' as the API shows them, and a column's positions are less than its
number of cards (`Dense`), which is why an INSERT behind them needs no more than
to count. Then each commit is a step of `Board`. What that takes of the lists is
proved once, of any rows: sorting has one result (`SortedIsOnly`), which shows each
row once (`OrderIsOnce`); rows that are numbered down a list sort to that list
(`NumberedInOrder`); and what becomes of it when a row goes (`OrderWithout`),
comes last (`OrderAppend`) or comes at a position (`OrderInsert`).

The last two theorems assume `NotWithinColumn`: where requests come one at a time,
none moves a card within its column. That is what `board_same_column` shows to be
needed, and all that is: the two stores agree on everything else. `MCPlanning`
assumes it of the workloads, so that TLC evaluates it.

### SprintProofs

`WindowsAreValidAlways` and `CardsInRealSprintsAlways`, of `PlanSpec`. The
invariant has one part for each kind of request (`Checked`): what it has checked
holds of what it will write. Both properties except the sprints in `loose`, the
ones whose check was overtaken: two requests that change one sprint's window at
once each check it with the other's half as it was, and a deletion can come
between the check of an assignment and its commit, or break off between its two
statements. What the theorems say is that nothing else goes wrong.

`PastIsKeptAlways`. `ClockInv` says that nothing is dated later than today and
that a card without a row is in no sprint. A card that completes is dated with the
day its request read, which is no day that is over unless a request began on it
(`Over`); one that was complete keeps its date. So for each card of the sprint
`CardOpenOn` an earlier day is what it was (`BurndownStays`). `PlanTypeOKAlways`
is the type of all of it, from `TInv`, `ClockInv` and what requests know of windows
and sprints.

### HubProofs

`TypeOKAlways` and `AnswerOrderAlways`, of `Spec`, for any capacity of the Go
channels and any number of sockets and broadcasts. The line of a subscription is
what was sent and then what is in its buffer. `Ordered` says that in that line
nothing comes after a message whose author could have read it. Taking a payload
out keeps the line or drops its head of the buffer (`TakenIsOrdered`). What a
broadcast adds at the end is not answered yet, since a payload has one broadcast
(`SenderInv`) and is answered when that is over; and what was known when a message
was appended is answered (`LogInv`), so nothing in the line knows of the new one
(`SentIsOrdered`).

`NeverStuckAlways` (invariant), `BroadcastShrinksAlways` and
`DeadSocketsStayDeadAlways` (action properties) are the safety that
`BroadcastEnds` and `DeadSocketsLeave` rest on. A target's Go channel was made and
is not collected before the broadcast is over (`TargetInv`). So whichever target
the loop of `Broadcast` comes to next, in whatever order of the map, a closed
channel makes the send panic and an open one gives the select an outcome, full or
not (`NeverStuck`): `Offered` is what the select may leave of a subscription, and
with `Offered_Blocking`, the select without its default, a full channel has none
and both `NeverStuck` and `BroadcastEnds` are false. Each such step takes a target
from the list or ends the broadcast, and a subscriber that comes meanwhile is not
on it (`BroadcastShrinks`). A closed socket is
written nothing more, and its buffer loses a payload only with its writer.

### TextProofs

`ConvergedAlways` (invariant) and `ApartWhileComposingAlways` (action property) of
`ImeSync`, from `ImeSyncAssumption`, for any bounds on texts, changes and pieces;
and, of the functions they rest on and of `PageDiff`, for all arguments:
`ReplayIsDispatch`, `DeltaIsDispatch`, `DiffEndsReplaces`, `LineDiffIsRight`.

What a recursive function computes takes induction, and the library's induction
takes an operator. `SetInduction` and `UpTo` say the same of a set of numbers, and
`PlacesInduction` of a set of places in two texts. To the provers a recursive
function is a `CHOOSE`: that one exists has to be shown first. A function that
satisfies the recursion as far as step k gives one that does as far as k + 1, so
there is one for the whole, and the lemmas `...Steps` (`ReplayedSteps`,
`DispatchedSteps`, `AppliedSteps`, `ChangesSteps`, `TableSteps`, `DiffFromSteps`,
`LinesLeftSteps`) are then the equations as they are written.

*Edits.* CodeMirror applies all changes to the old document; `update` applies them
one after another, moved by `adj`. The invariant of that loop is `Kept`: after i
changes the text is what CodeMirror has built so far, followed by what the old
document has behind the last change, and `adj` is by how much that is longer or
shorter (`MadeOfKept`, `StagesAgree`).

*Deltas.* `Follows` is the invariant of `applyRemoteDelta`: the changes made so far
are in order, end no further than the position, and applied to the view give what
Yjs has made of the text so far. A piece that is kept appends no change and moves
the position, so what CodeMirror keeps grows by it (`FollowsKept`); an insertion or
a deletion appends one (`FollowsPushed`).

*Compositions.* `diffEnds` finds ends that are common and apart (`CommonEnds`: the
greatest prefix and then the greatest suffix exist), and two texts with common ends
are made equal by exchanging what is between them. So `Converged` holds after
`CompositionEnd` whatever the two texts were before it, which is why no peer's text
survives that the view has not seen (`ime_peers`). The invariant `Bound` is
`Converged` with both texts being texts.

*The diff.* Both recursions go from a place to places that leave fewer lines
(`Left`). `Shows` says of the diff from a place on that it is what is left of each
text and keeps as many lines as the table has there. `Bounds` says that the table
has no less than any common lines behind the place: if the next lines are equal,
the first of the common ones can be dropped with them (`CommonRest`); if they are
not, one of the two is not among the common ones (`CommonSkips`).

### Only model-checked

Liveness, which is out of the prover's reach: `EventuallyShown`, `BroadcastEnds`,
`DeadSocketsLeave`, `ReceivedReachesPage`. Every other property of a passing run is
stated by a theorem; so is the safety that the last three rest on
(`HubProofs`, `CollabProofs`), which leaves to TLC that the fair steps are
enabled as long as they are needed and lead to the end.

## 5. Not modelled

* Files: a write to a directory and single INSERTs that nothing changes
  afterwards. Who may read a page's files is `Opens`.
* Of search, the matching and the snippets; which pages and documents are found
  is in `WikiPg`.
* Tenants (policies of Postgres; every model is one workspace of one tenant),
  authentication (cryptography and I/O), the HTTP layer (decoding and status
  codes), configuration and deployment.
* Of the board, archiving it, the preview of a drag, and the forms of columns.
  Of sprints, those of other boards.
* Of the web pages, `WikiEditor`'s form, which sends what was rendered when it
  was opened, with a version that stops it as the card form's does; and the
  order in which a chat page shows a catch-up.

What would come next: the form of the wiki editor, as the card form is modelled;
and, by hand or with another prover, the four liveness properties.
