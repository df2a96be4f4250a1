------------------------------ MODULE BoardPg -------------------------------
(***************************************************************************)
(* The board of the Postgres store.  Columns and cards are rows with a     *)
(* position; a list is its rows sorted by position, then id.  Requests run *)
(* concurrently, each statement of theirs reads what is committed then     *)
(* (READ COMMITTED), and what a transaction has written is locked until it *)
(* commits.  A step is a statement, or several of one request that nobody  *)
(* could tell apart from one.                                              *)
(*                                                                         *)
(* A request that waits for a lock is a step that is not enabled; the      *)
(* victim of a deadlock, a lost connection and a crash are Abort.          *)
(***************************************************************************)
EXTENDS Integers, FiniteSets, SequencesExt

CONSTANTS
  Requests,     \* the requests that can run at the same time
  MaxColumns, MaxCards, MaxVersion,  \* bounds, as in Board
  Workloads     \* what clients may do, one workload per behaviour

BoardCalls == {"create column", "rename column", "delete column", "reorder columns",
               "create card", "update card", "move card", "move within column"}

\* The parts of a workload this module knows of.
BoardWorkload(w) ==
  /\ w.requests \subseteq Requests
  /\ w.cards \in 0..MaxCards          \* in the first column at the start
  /\ w.rows \in Nat                   \* bound on the columns and cards created
  /\ w.versions \in 1..MaxVersion     \* bound on a card's version

ASSUME BoardPgAssumption ==
  /\ MaxColumns \in Nat \ 0..2
  /\ MaxCards \in Nat
  /\ MaxVersion \in Nat \ {0}
  /\ \A w \in Workloads : BoardWorkload(w)

VARIABLES
  columns,      \* the ids in table columns
  place,        \* the position of each column, 0 when there is no row
  done,         \* the ones that ColumnIsDone
  column,       \* the column_id of each card, 0 when there is no row
  position,     \* of each card
  version,      \* of each card, 0 before it is created
  completed,    \* the cards whose completed_at is not null
  nextColumn, nextCard,   \* the next ids, drawn by the INSERT
  req,          \* what each request is at, and what it has read
  bases,        \* history: the versions that accepted writes were based on
  load          \* the workload of this behaviour

columnRows == <<columns, place, done, nextColumn>>
cardRows   == <<column, position, version, completed, nextCard, bases>>
vars       == <<columnRows, cardRows, req, load>>

ColumnIds == 1..MaxColumns
CardIds   == 1..MaxCards
Idle      == [at |-> "idle"]

Init ==
  /\ load \in Workloads
  /\ columns = 1..3
  /\ place = [k \in ColumnIds |-> IF k \in columns THEN k - 1 ELSE 0]
  /\ done = {3}
  /\ column = [c \in CardIds |-> IF c <= load.cards THEN 1 ELSE 0]
  /\ position = [c \in CardIds |-> IF c <= load.cards THEN c - 1 ELSE 0]
  /\ version = [c \in CardIds |-> IF c <= load.cards THEN 1 ELSE 0]
  /\ completed = {}
  /\ nextColumn = 4
  /\ nextCard = load.cards + 1
  /\ req = [r \in Requests |-> Idle]
  /\ bases = [c \in CardIds |-> <<>>]

-----------------------------------------------------------------------------
(* Tables.                                                                 *)

\* ORDER BY position, id: the i-th row has i - 1 others before it.
Sorted(ids, pos) ==
  LET before(b, a) == pos[b] < pos[a] \/ (pos[b] = pos[a] /\ b < a) IN
  [i \in 1..Cardinality(ids) |->
     CHOOSE a \in ids : Cardinality({b \in ids : before(b, a)}) = i - 1]

CardsIn(k) == {c \in CardIds : column[c] = k}

\* Mutant: the first position is -1.
Numbered_FromMinusOne(list) ==
  [id \in ToSet(list) |-> SelectLastInSeq(list, LAMBDA x : x = id) - 2]

\* The positions 0, 1, ... written down a list.  A card that is on it twice
\* keeps the last.
Numbered(list) ==
  [id \in ToSet(list) |-> SelectLastInSeq(list, LAMBDA x : x = id) - 1]

\* UPDATE of the rows in the domain of writes that still exist.
Written(pos, writes, rows) ==
  [id \in DOMAIN pos |->
     IF id \in rows \cap DOMAIN writes THEN writes[id] ELSE pos[id]]

\* The rows a request other than r has written and not committed.
ColumnHeld(k, r) ==
  \E q \in Requests \ {r} : req[q].at = "reindex" /\ req[q].column = k

CardHeld(c, r) ==
  \E q \in Requests \ {r} :
    \/ req[q].at \in {"leave", "enter", "assign"} /\ req[q].card = c
    \/ req[q].at = "enter" /\ c \in DOMAIN req[q].writes
    \/ req[q].at = "reindex" /\ column[c] = req[q].column

\* A request whose first statement is next.
Called(r, call) == r \in load.requests /\ req[r] = Idle /\ call \in load.calls

Goto(r, state) == req' = [req EXCEPT ![r] = state]

\* The request fails, and its transaction is rolled back.
Abort(r) ==
  /\ req[r] # Idle
  /\ Goto(r, Idle)
  /\ UNCHANGED <<columnRows, cardRows>>

-----------------------------------------------------------------------------
(* Columns.                                                                *)

\* One more row stays within the bounds.
Room == (nextColumn - 4) + (nextCard - 1) < load.cards + load.rows

\* SELECT MAX(position) + 1
CreateColumn(r) ==
  /\ Called(r, "create column")
  /\ nextColumn \in ColumnIds /\ Room
  /\ Goto(r, [at |-> "insert column",
              place |-> IF columns = {} THEN 0
                        ELSE 1 + Max({place[k] : k \in columns})])
  /\ UNCHANGED <<columnRows, cardRows>>

InsertColumn(r, isDone) ==
  /\ req[r].at = "insert column"
  /\ nextColumn \in ColumnIds /\ Room
  /\ columns' = columns \cup {nextColumn}
  /\ place' = [place EXCEPT ![nextColumn] = req[r].place]
  /\ done' = IF isDone THEN done \cup {nextColumn} ELSE done
  /\ nextColumn' = nextColumn + 1
  /\ Goto(r, Idle)
  /\ UNCHANGED cardRows

\* Mutant: the cards of the column lose their completed_at with the name.
RenameColumn_Reopens(r, k, isDone) ==
  /\ Called(r, "rename column")
  /\ k \in columns /\ ~ColumnHeld(k, r)
  /\ done' = IF isDone THEN done \cup {k} ELSE done \ {k}
  /\ completed' = IF isDone THEN completed ELSE completed \ CardsIn(k)
  /\ UNCHANGED <<columns, place, nextColumn, column, position, version, nextCard,
                 bases, req>>

RenameColumn(r, k, isDone) ==
  /\ Called(r, "rename column")
  /\ k \in columns /\ ~ColumnHeld(k, r)
  /\ done' = IF isDone THEN done \cup {k} ELSE done \ {k}
  /\ UNCHANGED <<columns, place, nextColumn, cardRows, req>>

\* Mutant: the cards are not counted.
DeleteColumn_NonEmpty(r, k) ==
  /\ Called(r, "delete column")
  /\ k \in columns
  /\ Goto(r, [at |-> "count columns", column |-> k])
  /\ UNCHANGED <<columnRows, cardRows>>

\* SELECT COUNT(*) FROM cards: a column with cards is refused.
DeleteColumn(r, k) ==
  /\ Called(r, "delete column")
  /\ k \in columns
  /\ CardsIn(k) = {}
  /\ Goto(r, [at |-> "count columns", column |-> k])
  /\ UNCHANGED <<columnRows, cardRows>>

\* Mutant: the columns are not counted.
CountColumns_Skipped(r) ==
  /\ req[r].at = "count columns"
  /\ Goto(r, [at |-> "delete", column |-> req[r].column])
  /\ UNCHANGED <<columnRows, cardRows>>

CountColumns(r) ==
  /\ req[r].at = "count columns"
  /\ Goto(r, IF Cardinality(columns) > 1
             THEN [at |-> "delete", column |-> req[r].column] ELSE Idle)
  /\ UNCHANGED <<columnRows, cardRows>>

\* DELETE, which cascades to the cards that are there now and waits for their
\* locks, and the SELECT of the columns that are left.  The row stays visible
\* to the others until the commit.
DeleteRow(r) ==
  LET k == req[r].column IN
  /\ req[r].at = "delete"
  /\ ~ColumnHeld(k, r)
  /\ \A c \in CardsIn(k) : ~CardHeld(c, r)
  /\ Goto(r, [at |-> "reindex", column |-> k,
              order |-> Sorted(columns \ {k}, place)])
  /\ UNCHANGED <<columnRows, cardRows>>

\* The UPDATEs of the positions, and COMMIT.
Reindex(r) ==
  LET k == req[r].column
      order == req[r].order IN
  /\ req[r].at = "reindex"
  /\ \A j \in ToSet(order) : ~ColumnHeld(j, r)
  /\ columns' = columns \ {k}
  /\ place' = [Written(place, Numbered(order), columns) EXCEPT ![k] = 0]
  /\ done' = done \ {k}
  /\ column' = [c \in CardIds |-> IF column[c] = k THEN 0 ELSE column[c]]
  /\ Goto(r, Idle)
  /\ UNCHANGED <<nextColumn, position, version, completed, nextCard, bases>>

\* SELECT, and the check that the new order names each column once.
ReorderColumns(r) ==
  /\ Called(r, "reorder columns")
  /\ \E order \in SetToAllKPermutations(columns) :
       /\ Len(order) = Cardinality(columns)
       /\ Goto(r, [at |-> "reorder", order |-> order])
  /\ UNCHANGED <<columnRows, cardRows>>

\* The UPDATEs of the positions of the columns that are still there.
WriteOrder(r) ==
  LET order == req[r].order IN
  /\ req[r].at = "reorder"
  /\ \A k \in ToSet(order) : ~ColumnHeld(k, r)
  /\ place' = Written(place, Numbered(order), columns)
  /\ Goto(r, Idle)
  /\ UNCHANGED <<columns, done, nextColumn, cardRows>>

-----------------------------------------------------------------------------
(* Cards.                                                                  *)

\* SELECT name, and SELECT COUNT(*) for the position.
CreateCard(r, k) ==
  /\ Called(r, "create card")
  /\ k \in columns
  /\ nextCard \in CardIds /\ Room
  /\ Goto(r, [at |-> "insert card", column |-> k,
              position |-> Cardinality(CardsIn(k)), isDone |-> k \in done])
  /\ UNCHANGED <<columnRows, cardRows>>

\* Without its column the INSERT violates the foreign key: that is Abort.
InsertCard(r) ==
  LET k == req[r].column IN
  /\ req[r].at = "insert card"
  /\ nextCard \in CardIds /\ Room
  /\ k \in columns /\ ~ColumnHeld(k, r)
  /\ column' = [column EXCEPT ![nextCard] = k]
  /\ position' = [position EXCEPT ![nextCard] = req[r].position]
  /\ version' = [version EXCEPT ![nextCard] = 1]
  /\ completed' = IF req[r].isDone THEN completed \cup {nextCard} ELSE completed
  /\ nextCard' = nextCard + 1
  /\ Goto(r, Idle)
  /\ UNCHANGED <<columnRows, bases>>

\* Every write of a card is based on a version its client has seen.
Accept(c, base) ==
  /\ version[c] < load.versions
  /\ version' = [version EXCEPT ![c] = @ + 1]
  /\ bases' = [bases EXCEPT ![c] = Append(@, base)]

\* Mutant: the version is not compared.
UpdateCard_Unchecked(r, c, base) ==
  /\ Called(r, "update card")
  /\ column[c] # 0 /\ ~CardHeld(c, r)
  /\ Accept(c, base)
  /\ UNCHANGED <<columnRows, column, position, completed, nextCard, req>>

\* Mutant: the row is not locked before it is read.
UpdateCard_Unlocked(r, c, base) ==
  /\ Called(r, "update card")
  /\ column[c] # 0
  /\ version[c] = base
  /\ Accept(c, base)
  /\ UNCHANGED <<columnRows, column, position, completed, nextCard, req>>

UpdateCard(r, c, base) ==
  /\ Called(r, "update card")
  /\ column[c] # 0 /\ ~CardHeld(c, r)
  /\ version[c] = base
  /\ Accept(c, base)
  /\ UNCHANGED <<columnRows, column, position, completed, nextCard, req>>

\* SELECT FOR UPDATE, the SELECT of the target column, and the SELECT of the
\* cards in the column that is left, of which the others stay.
MoveCard(r, c, base, to, n) ==
  /\ Called(r, IF to = column[c] THEN "move within column" ELSE "move card")
  /\ column[c] # 0 /\ ~CardHeld(c, r)
  /\ version[c] = base /\ base < load.versions
  /\ to \in columns
  /\ Goto(r, [at |-> "leave", card |-> c, base |-> base, from |-> column[c],
              to |-> to, asked |-> n, isDone |-> to \in done,
              left |-> Sorted(CardsIn(column[c]) \ {c}, position)])
  /\ UNCHANGED <<columnRows, cardRows>>

\* The UPDATEs of the cards left behind, and the SELECT of the cards in the
\* target column: the card is still one of them when it is the same column.
Leave(r) ==
  LET writes == Numbered(req[r].left)
      ids    == Sorted(CardsIn(req[r].to), Written(position, writes, CardIds)) IN
  /\ req[r].at = "leave"
  /\ \A c \in ToSet(req[r].left) : ~CardHeld(c, r)
  /\ req' = [req EXCEPT ![r] =
       [at |-> "enter", card |-> @.card, base |-> @.base, from |-> @.from,
        to |-> @.to, asked |-> @.asked, isDone |-> @.isDone, writes |-> writes,
        position |-> Min({@.asked, Len(ids)}), ids |-> ids]]
  /\ UNCHANGED <<columnRows, cardRows>>

\* Mutant: the row of the target column is not needed (no foreign key).
Enter_NoForeignKey(r) ==
  LET q      == req[r]
      writes == Numbered(InsertAt(q.ids, q.position + 1, q.card)) IN
  /\ q.at = "enter"
  /\ \A c \in ToSet(q.ids) : ~CardHeld(c, r)
  /\ column' = [column EXCEPT ![q.card] = q.to]
  /\ position' = [Written(Written(position, q.writes, CardIds), writes, CardIds)
                   EXCEPT ![q.card] = q.position]
  /\ completed' = IF q.isDone THEN completed \cup {q.card} ELSE completed \ {q.card}
  /\ Accept(q.card, q.base)
  /\ Goto(r, Idle)
  /\ UNCHANGED <<columnRows, nextCard>>

\* Mutant: the cards behind the new position are not moved down.
Enter_NoShift(r) ==
  LET q == req[r] IN
  /\ q.at = "enter"
  /\ \A c \in ToSet(q.ids) : ~CardHeld(c, r)
  /\ q.to \in columns /\ ~ColumnHeld(q.to, r)
  /\ column' = [column EXCEPT ![q.card] = q.to]
  /\ position' = [Written(position, q.writes, CardIds) EXCEPT ![q.card] = q.position]
  /\ completed' = IF q.isDone THEN completed \cup {q.card} ELSE completed \ {q.card}
  /\ Accept(q.card, q.base)
  /\ Goto(r, Idle)
  /\ UNCHANGED <<columnRows, nextCard>>

\* The UPDATEs of the cards of the target column, of the card itself, and
\* COMMIT.
Enter(r) ==
  LET q      == req[r]
      writes == Numbered(InsertAt(q.ids, q.position + 1, q.card)) IN
  /\ q.at = "enter"
  /\ \A c \in ToSet(q.ids) : ~CardHeld(c, r)
  /\ q.to \in columns /\ ~ColumnHeld(q.to, r)
  /\ column' = [column EXCEPT ![q.card] = q.to]
  /\ position' = [Written(Written(position, q.writes, CardIds), writes, CardIds)
                   EXCEPT ![q.card] = q.position]
  /\ completed' = IF q.isDone THEN completed \cup {q.card} ELSE completed \ {q.card}
  /\ Accept(q.card, q.base)
  /\ Goto(r, Idle)
  /\ UNCHANGED <<columnRows, nextCard>>

-----------------------------------------------------------------------------
RequestStep(r) ==
  \/ Abort(r)
  \/ CreateColumn(r) \/ CountColumns(r) \/ DeleteRow(r) \/ Reindex(r)
  \/ ReorderColumns(r) \/ WriteOrder(r)
  \/ \E isDone \in BOOLEAN : InsertColumn(r, isDone)
  \/ \E k \in ColumnIds, isDone \in BOOLEAN : RenameColumn(r, k, isDone)
  \/ \E k \in ColumnIds : DeleteColumn(r, k) \/ CreateCard(r, k)
  \/ InsertCard(r)
  \/ \E c \in CardIds, base \in 1..MaxVersion : UpdateCard(r, c, base)
  \/ \E c \in CardIds, base \in 1..MaxVersion, to \in ColumnIds, n \in 0..MaxCards :
       MoveCard(r, c, base, to, n)
  \/ Leave(r) \/ Enter(r)

Next == \E r \in Requests : RequestStep(r) /\ UNCHANGED load

Spec == Init /\ [][Next]_vars

-----------------------------------------------------------------------------
(* What the API makes of the rows, and what store.Store promises of it.    *)

Contract == INSTANCE Board WITH
  cols  <- Sorted(columns, place),
  cards <- [k \in ColumnIds |-> Sorted(CardsIn(k), position)]

\* Two stores, one contract: with one request at a time every commit is a step
\* of the memory store, and every step before it is invisible.
OneAtATime == \A r, s \in load.requests : r = s

\* Where requests come one at a time, they move no card within its column:
\* there the two stores differ (MovesAsAsked).
NotWithinColumn ==
  \A w \in Workloads :
    (\A r, s \in w.requests : r = s) => "move within column" \notin w.calls

ContractSpec ==
  /\ load.cards = 0 => Contract!Init
  /\ [][OneAtATime => Contract!Next \/ UNCHANGED Contract!vars]_vars

\* Of the contract, on the rows: see Board.
EachCardOnce   == OneAtATime => Contract!EachCardOnce
StaysCompleted == [][OneAtATime => Contract!KeepsCompleted]_vars

-----------------------------------------------------------------------------
(* Properties.                                                             *)

\* Every variable has its type.
TypeOK ==
  /\ columns \subseteq ColumnIds /\ done \subseteq ColumnIds
  /\ place \in [ColumnIds -> Nat]
  /\ column \in [CardIds -> {0} \cup ColumnIds]
  /\ position \in [CardIds -> Nat]
  /\ version \in [CardIds -> 0..MaxVersion]
  /\ completed \subseteq CardIds
  /\ nextColumn \in 4..(MaxColumns + 1) /\ nextCard \in 1..(MaxCards + 1)
  /\ load \in Workloads
  /\ \A r \in Requests : req[r] # Idle => r \in load.requests
  /\ bases \in [CardIds -> Seq(1..MaxVersion)]

\* Two people who edit or move a card from the same version never both
\* succeed, whatever runs between the read and the write of a move.
NoLostEdit ==
  \A c \in CardIds : version[c] > 0 =>
    bases[c] = [i \in 1..(version[c] - 1) |-> i]

\* From its first statement to its commit a move works on the card as it read
\* it: nobody writes, moves or deletes it in between.
MoverHoldsItsCard ==
  \A r \in Requests : req[r].at \in {"leave", "enter"} =>
    /\ version[req[r].card] = req[r].base
    /\ column[req[r].card] = req[r].from

\* Every card is in a column of the board, however deletions of columns race
\* with the creation and the moves of cards.
CardsHaveAColumn ==
  \A c \in CardIds : column[c] \in {0} \cup columns

\* A move that commits is the memory store's move to the position that was
\* asked for.
MovesAsAsked ==
  [][\A r \in Requests : OneAtATime /\ req[r].at = "enter" /\ version' # version =>
       Contract!MoveCard(req[r].card, req[r].to, req[r].asked)]_vars

\* What the board's page says of DeleteColumn: a column with cards cannot be
\* deleted, so no deletion takes a card with it.
NoCardDeleted ==
  [][\A c \in CardIds : column[c] # 0 => column'[c] # 0]_vars
=============================================================================
