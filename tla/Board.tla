------------------------------- MODULE Board --------------------------------
(***************************************************************************)
(* One Kanban board as store.Store promises it and the memory store keeps  *)
(* it: every operation is one step under the store's lock.  The columns    *)
(* are a list, and each column holds a list of cards.  BoardPg.tla is what *)
(* the Postgres store does instead.                                        *)
(*                                                                         *)
(* Ids are numbers in the order in which they were drawn (they are ULIDs). *)
(* A card's title and description are its version: an edit changes no more *)
(* of the board than that.  An id is on one list, once.                    *)
(***************************************************************************)
EXTENDS Naturals, SequencesExt

CONSTANTS
  MaxColumns,   \* bounds on the ids that are drawn
  MaxCards,
  MaxVersion    \* bound on a card's version

VARIABLES
  cols,         \* the columns of the board, in order
  done,         \* the ones that ColumnIsDone
  cards,        \* the cards of each column, in order
  version,      \* of each card, 0 before it is created
  completed,    \* the cards that have a CompletedAt
  nextColumn, nextCard   \* the next ids

vars == <<cols, done, cards, version, completed, nextColumn, nextCard>>

Columns == 1..MaxColumns
Cards   == 1..MaxCards

\* CreateBoard: "To Do", "In Progress", "Done"
Init ==
  /\ cols = <<1, 2, 3>>
  /\ done = {3}
  /\ cards = [k \in Columns |-> <<>>]
  /\ version = [c \in Cards |-> 0]
  /\ completed = {}
  /\ nextColumn = 4
  /\ nextCard = 1

OnBoard(k) == k \in ToSet(cols)

\* The names of a column are told apart by ColumnIsDone only.
Named(set, k, isDone) == IF isDone THEN set \cup {k} ELSE set \ {k}

CreateColumn(isDone) ==
  /\ nextColumn \in Columns
  /\ cols' = Append(cols, nextColumn)
  /\ done' = Named(done, nextColumn, isDone)
  /\ nextColumn' = nextColumn + 1
  /\ UNCHANGED <<cards, version, completed, nextCard>>

\* Its cards keep their CompletedAt, or their lack of one.
RenameColumn(k, isDone) ==
  /\ OnBoard(k)
  /\ done' = Named(done, k, isDone)
  /\ UNCHANGED <<cols, cards, version, completed, nextColumn, nextCard>>

DeleteColumn(k) ==
  /\ OnBoard(k)
  /\ cards[k] = <<>>
  /\ Len(cols) > 1
  /\ cols' = RemoveFirst(cols, k)
  /\ done' = done \ {k}
  /\ UNCHANGED <<cards, version, completed, nextColumn, nextCard>>

ReorderColumns ==
  /\ cols' \in [DOMAIN cols -> ToSet(cols)] /\ IsInjective(cols')
  /\ UNCHANGED <<done, cards, version, completed, nextColumn, nextCard>>

CreateCard(k) ==
  /\ OnBoard(k)
  /\ nextCard \in Cards
  /\ cards' = [cards EXCEPT ![k] = Append(@, nextCard)]
  /\ version' = [version EXCEPT ![nextCard] = 1]
  /\ completed' = IF k \in done THEN completed \cup {nextCard} ELSE completed
  /\ nextCard' = nextCard + 1
  /\ UNCHANGED <<cols, done, nextColumn>>

\* The two calls that take a version change nothing when it is not the card's.
UpdateCard(c) ==
  /\ \E k \in ToSet(cols) : c \in ToSet(cards[k])
  /\ version[c] < MaxVersion
  /\ version' = [version EXCEPT ![c] = @ + 1]
  /\ UNCHANGED <<cols, done, cards, completed, nextColumn, nextCard>>

\* CompletedAt after a move to k.
Stamped(c, k) == IF k \in done THEN completed \cup {c} ELSE completed \ {c}

\* Out of its column, then in front of the card at that position, or at the end.
MoveCard(c, k, position) ==
  LET without == [j \in Columns |-> RemoveFirst(cards[j], c)]
      index   == Min({position, Len(without[k])}) + 1 IN
  /\ OnBoard(k)
  /\ \E from \in ToSet(cols) : c \in ToSet(cards[from])
  /\ version[c] < MaxVersion
  /\ cards' = [without EXCEPT ![k] = InsertAt(@, index, c)]
  /\ version' = [version EXCEPT ![c] = @ + 1]
  /\ completed' = Stamped(c, k)
  /\ UNCHANGED <<cols, done, nextColumn, nextCard>>

Next ==
  \/ \E isDone \in BOOLEAN : CreateColumn(isDone)
  \/ \E k \in Columns, isDone \in BOOLEAN : RenameColumn(k, isDone)
  \/ \E k \in Columns : DeleteColumn(k) \/ CreateCard(k)
  \/ ReorderColumns
  \/ \E c \in Cards : UpdateCard(c)
  \/ \E c \in Cards, k \in Columns, position \in 0..MaxCards : MoveCard(c, k, position)

Spec == Init /\ [][Next]_vars

-----------------------------------------------------------------------------
(* Properties.                                                             *)

\* No sequence of moves and deletions of columns loses a card or shows it
\* twice: each card that was created is in one place of one column of the board.
EachCardOnce ==
  \A c \in Cards : version[c] > 0 =>
    \E k \in ToSet(cols), i \in 1..MaxCards :
      /\ i \in DOMAIN cards[k] /\ cards[k][i] = c
      /\ \A j \in Columns : \A n \in DOMAIN cards[j] : cards[j][n] = c => j = k /\ n = i

\* A completed card reopens, for the burndown, only by being written itself
\* while it is, or arrives, in a column that is not Done: no change of the
\* columns does it.
KeepsCompleted ==
  \A c \in completed \ completed' :
    /\ version'[c] > version[c]
    /\ \E k \in ToSet(cols) \ done : c \in ToSet(cards'[k])
=============================================================================
