---------------------------- MODULE BoardProofs ----------------------------
(***************************************************************************)
(* The board of Planning, with any number of requests, columns and cards.  *)
(*                                                                         *)
(* The locks of a card's row: nobody writes, moves or deletes a card that  *)
(* another request is at work on, so no edit is lost and no card is        *)
(* without its column.  The page's form: a page that falls behind is old,  *)
(* but not wrong.  And with one request at a time, what the API shows of   *)
(* the rows: sorted by position and numbered again, they take the steps of *)
(* the lists of Board.tla.                                                 *)
(***************************************************************************)
EXTENDS Planning, FiniteSetTheorems, SequenceTheorems, TLAPS

\* The statements between which a request holds the row of its card.
Moving == {"leave", "enter", "assign"}

\* The rows of cards that a request has locked: its own, or the ones that go
\* with its column.
Holds(r, c) ==
  \/ req[r].at \in Moving /\ req[r].card = c
  \/ req[r].at = "reindex" /\ column[c] = req[r].column

-----------------------------------------------------------------------------
(* The inductive invariant.                                                *)

RowTypes ==
  /\ columns \subseteq ColumnIds
  /\ column \in [CardIds -> Nat]
  /\ version \in [CardIds -> Nat]
  /\ bases = [c \in CardIds |-> bases[c]]
  /\ req = [r \in Requests |-> req[r]]
  /\ nextCard \in Nat /\ nextColumn \in Nat

\* A card that is not created yet has no row.
NotYetCreated ==
  \A c \in CardIds :
    /\ version[c] = 0 <=> c >= nextCard
    /\ version[c] = 0 => column[c] = 0

\* The n-th version was made of the version before it.
OneAfterAnother ==
  \A c \in CardIds : bases[c] = [i \in 1..(version[c] - 1) |-> i]

\* What a request has read of its card is still so.
KnowsItsCard(q) ==
  /\ q.at \in Moving =>
       /\ q.card \in CardIds
       /\ version[q.card] = q.base
       /\ column[q.card] # 0
  /\ q.at \in {"leave", "enter"} => column[q.card] = q.from
  /\ q.at \in {"count columns", "delete", "reindex"} => q.column \in ColumnIds

AllKnow == \A r \in Requests : KnowsItsCard(req[r])

\* No row is locked twice.
OneHolder ==
  \A r, q \in Requests, c \in CardIds : Holds(r, c) /\ Holds(q, c) => r = q

\* The form of the page is the form of a card.
FormOfACard ==
  form.open => /\ {"open", "card"} \subseteq DOMAIN form
               /\ form.card \in CardIds

IInv ==
  /\ RowTypes /\ CardsHaveAColumn /\ NotYetCreated /\ OneAfterAnother
  /\ AllKnow /\ OneHolder

-----------------------------------------------------------------------------
(* Steps that leave the rows of the cards alone.                           *)

\* A request goes on to a statement before which it holds no card.
LEMMA GoesOn ==
  ASSUME IInv, NEW r \in Requests, NEW s,
         req' = [req EXCEPT ![r] = s],
         s.at \notin Moving, s.at # "reindex",
         s.at \in {"count columns", "delete"} => s.column \in ColumnIds,
         columns \subseteq columns', columns' \subseteq ColumnIds,
         nextColumn' \in Nat,
         UNCHANGED <<column, version, bases, nextCard>>
  PROVE  IInv'
<1>1. RowTypes' /\ CardsHaveAColumn' /\ NotYetCreated' /\ OneAfterAnother'
  BY DEF IInv, RowTypes, CardsHaveAColumn, NotYetCreated, OneAfterAnother
<1>2. req'[r] = s /\ \A q \in Requests \ {r} : req'[q] = req[q]
  BY DEF IInv, RowTypes
<1>3. AllKnow'
  <2>1. ASSUME NEW q \in Requests PROVE KnowsItsCard(req[q])'
    <3>1. CASE q = r
      BY <1>2, <3>1 DEF KnowsItsCard, Moving
    <3>2. CASE q # r
      BY <1>2, <3>2 DEF IInv, AllKnow, KnowsItsCard
    <3>. QED
      BY <3>1, <3>2
  <2>. QED
    BY <2>1 DEF AllKnow
<1>4. OneHolder'
  <2>1. \A c \in CardIds : ~Holds(r, c)'
    BY <1>2 DEF Holds, Moving
  <2>2. \A q \in Requests \ {r}, c \in CardIds : Holds(q, c)' <=> Holds(q, c)
    BY <1>2 DEF Holds
  <2>. QED
    BY <2>1, <2>2 DEF IInv, OneHolder
<1>. QED
  BY <1>1, <1>3, <1>4 DEF IInv

\* It comes from a call, or goes on to the DELETE of a column.
LEMMA Onward ==
  ASSUME IInv, NEW r \in Requests, NEW s,
         req' = [req EXCEPT ![r] = s],
         \/ s.at \in {"count columns", "delete"} /\ s.column \in ColumnIds
         \/ s.at \in {"insert column", "reorder", "insert card",
                     "update sprint", "write sprint", "clear sprint"},
         UNCHANGED <<columnRows, cardRows>>
  PROVE  IInv'
<1>1. /\ UNCHANGED <<columns, column, version, bases, nextColumn, nextCard>>
      /\ columns \subseteq ColumnIds /\ nextColumn \in Nat
  BY DEF IInv, RowTypes, columnRows, cardRows
<1>2. s.at \notin Moving /\ s.at # "reindex"
  BY DEF Moving
<1>. QED
  BY <1>1, <1>2, GoesOn

\* Or it ends.
LEMMA Ends ==
  ASSUME IInv, NEW r \in Requests,
         req' = [req EXCEPT ![r] = Idle],
         columns \subseteq columns', columns' \subseteq ColumnIds,
         nextColumn' \in Nat,
         UNCHANGED <<column, version, bases, nextCard>>
  PROVE  IInv'
<1>1. Idle.at = "idle"
  BY DEF Idle
<1>2. Idle.at \notin Moving /\ Idle.at # "reindex" /\ Idle.at \notin {"count columns", "delete"}
  BY <1>1 DEF Moving
<1>. QED
  BY <1>2, GoesOn

\* Nothing that the board's requests know changes.
LEMMA Stutters ==
  ASSUME IInv, UNCHANGED vars
  PROVE  IInv'
<1>1. UNCHANGED <<columns, column, version, bases, nextColumn, nextCard, req>>
  BY DEF vars, columnRows, cardRows
<1>2. RowTypes' /\ CardsHaveAColumn' /\ NotYetCreated' /\ OneAfterAnother'
  BY <1>1 DEF IInv, RowTypes, CardsHaveAColumn, NotYetCreated, OneAfterAnother
<1>3. AllKnow'
  BY <1>1 DEF IInv, AllKnow, KnowsItsCard
<1>4. OneHolder'
  BY <1>1 DEF IInv, OneHolder, Holds
<1>. QED
  BY <1>2, <1>3, <1>4 DEF IInv

\* A request locks rows that no other request has.
LEMMA Locks ==
  ASSUME IInv, NEW r \in Requests, NEW s,
         req' = [req EXCEPT ![r] = s],
         KnowsItsCard(s),
         \A c \in CardIds :
           (s.at \in Moving /\ s.card = c) \/ (s.at = "reindex" /\ column[c] = s.column)
             => \A q \in Requests \ {r} : ~Holds(q, c),
         UNCHANGED <<columns, column, version, bases, nextColumn, nextCard>>
  PROVE  IInv'
<1>1. RowTypes' /\ CardsHaveAColumn' /\ NotYetCreated' /\ OneAfterAnother'
  BY DEF IInv, RowTypes, CardsHaveAColumn, NotYetCreated, OneAfterAnother
<1>2. req'[r] = s /\ \A q \in Requests \ {r} : req'[q] = req[q]
  BY DEF IInv, RowTypes
<1>3. AllKnow'
  <2>1. ASSUME NEW q \in Requests PROVE KnowsItsCard(req[q])'
    <3>1. CASE q = r
      BY <1>2, <3>1 DEF KnowsItsCard
    <3>2. CASE q # r
      BY <1>2, <3>2 DEF IInv, AllKnow, KnowsItsCard
    <3>. QED
      BY <3>1, <3>2
  <2>. QED
    BY <2>1 DEF AllKnow
<1>4. OneHolder'
  <2>1. \A q \in Requests \ {r}, c \in CardIds : Holds(q, c)' <=> Holds(q, c)
    BY <1>2 DEF Holds
  <2>2. \A q \in Requests \ {r}, c \in CardIds : ~(Holds(r, c)' /\ Holds(q, c))
    BY <1>2 DEF Holds
  <2>. QED
    BY <2>1, <2>2 DEF IInv, OneHolder
<1>. QED
  BY <1>1, <1>3, <1>4 DEF IInv

\* What others hold, CardHeld knows of.
LEMMA HeldByOthers ==
  ASSUME NEW r \in Requests, NEW q \in Requests \ {r}, NEW c \in CardIds, Holds(q, c)
  PROVE  CardHeld(c, r)
BY DEF Holds, CardHeld, Moving

-----------------------------------------------------------------------------
(* Steps that write a card.                                                *)

\* The versions that a card's writes were based on, and one more.
LEMMA OneMore ==
  ASSUME NEW n \in Nat \ {0}
  PROVE  Append([i \in 1..(n - 1) |-> i], n) = [i \in 1..((n + 1) - 1) |-> i]
<1>. DEFINE s == [i \in 1..(n - 1) |-> i]
<1>1. s \in Seq(Nat) /\ Len(s) = n - 1
  OBVIOUS
<1>2. Append(s, n) \in Seq(Nat) /\ Len(Append(s, n)) = n
  BY <1>1
<1>3. \A i \in 1..n : Append(s, n)[i] = i
  BY <1>1
<1>4. DOMAIN Append(s, n) = 1..n
  BY <1>2
<1>. QED
  BY <1>2, <1>3, <1>4

\* A request writes a card that nobody else holds, on the version that it has,
\* and lets go of what it holds.
LEMMA Writes ==
  ASSUME IInv, NEW r \in Requests, NEW c \in CardIds, NEW base, NEW k \in columns,
         column[c] # 0, version[c] > 0, version[c] = base, Accept(c, base),
         column' = [column EXCEPT ![c] = k],
         \A q \in Requests \ {r} :
           ~Holds(q, c) /\ ~(k # column[c] /\ req[q].at = "reindex" /\ req[q].column = k),
         req' = [req EXCEPT ![r] = Idle],
         UNCHANGED <<columns, nextColumn, nextCard>>
  PROVE  IInv'
<1>1. /\ version' = [version EXCEPT ![c] = @ + 1]
      /\ bases' = [bases EXCEPT ![c] = Append(@, version[c])]
  BY DEF Accept
<1>2. k \in Nat
  BY DEF IInv, RowTypes, ColumnIds
<1>3. RowTypes' /\ CardsHaveAColumn'
  <2>1. req' = [q \in Requests |-> req'[q]]
    BY DEF IInv, RowTypes
  <2>2. column' \in [CardIds -> Nat] /\ version' \in [CardIds -> Nat]
    BY <1>1, <1>2 DEF IInv, RowTypes
  <2>4. bases' = [d \in CardIds |-> bases'[d]]
    BY <1>1 DEF IInv, RowTypes
  <2>3. CardsHaveAColumn'
    BY DEF IInv, RowTypes, CardsHaveAColumn
  <2>. QED
    BY <2>1, <2>2, <2>3, <2>4 DEF IInv, RowTypes
<1>4. NotYetCreated'
  BY <1>1 DEF IInv, RowTypes, NotYetCreated
<1>5. OneAfterAnother'
  <2>1. version[c] \in Nat \ {0} /\ bases[c] = [i \in 1..(version[c] - 1) |-> i]
    BY DEF IInv, RowTypes, OneAfterAnother
  <2>2. bases'[c] = Append(bases[c], version[c]) /\ version'[c] = version[c] + 1
    BY <1>1 DEF IInv, RowTypes
  <2>3. bases'[c] = [i \in 1..(version'[c] - 1) |-> i]
    BY <2>1, <2>2, OneMore
  <2>4. \A d \in CardIds \ {c} : bases'[d] = bases[d] /\ version'[d] = version[d]
    BY <1>1 DEF IInv, RowTypes
  <2>. QED
    BY <2>3, <2>4 DEF IInv, OneAfterAnother
<1>6. req'[r].at = "idle" /\ \A q \in Requests \ {r} : req'[q] = req[q]
  BY DEF IInv, RowTypes, Idle
<1>7. AllKnow'
  <2>1. ASSUME NEW q \in Requests PROVE KnowsItsCard(req[q])'
    <3>1. CASE q = r
      BY <1>6, <3>1 DEF KnowsItsCard, Moving
    <3>2. CASE q # r
      <4>1. KnowsItsCard(req[q]) /\ req'[q] = req[q] /\ ~Holds(q, c)
        BY <1>6, <3>2 DEF IInv, AllKnow
      <4>2. \A d \in CardIds \ {c} : version'[d] = version[d] /\ column'[d] = column[d]
        BY <1>1 DEF IInv, RowTypes
      <4>. QED
        BY <4>1, <4>2 DEF KnowsItsCard, Holds, Moving
    <3>. QED
      BY <3>1, <3>2
  <2>. QED
    BY <2>1 DEF AllKnow
<1>8. OneHolder'
  <2>1. \A d \in CardIds : ~Holds(r, d)'
    BY <1>6 DEF Holds, Moving
  <2>2. \A d \in CardIds \ {c} : column'[d] = column[d]
    BY DEF IInv, RowTypes
  <2>3. \A q \in Requests \ {r} : ~Holds(q, c)'
    BY <1>6 DEF IInv, RowTypes, Holds
  <2>4. \A q \in Requests \ {r}, d \in CardIds \ {c} : Holds(q, d)' => Holds(q, d)
    BY <1>6, <2>2 DEF Holds
  <2>. QED
    BY <2>1, <2>3, <2>4 DEF IInv, OneHolder
<1>. QED
  BY <1>3, <1>4, <1>5, <1>7, <1>8 DEF IInv

\* InsertCard: nobody can have got hold of a row that was not there.
LEMMA InsertIInv ==
  ASSUME IInv, NEW r \in Requests, InsertCard(r), NEW c, c = nextCard
  PROVE  IInv'
<1>. DEFINE k == req[r].column
<1>1. /\ c \in CardIds /\ k \in columns /\ ~ColumnHeld(k, r)
      /\ column' = [column EXCEPT ![c] = k]
      /\ version' = [version EXCEPT ![c] = 1]
      /\ nextCard' = c + 1
      /\ req' = [req EXCEPT ![r] = Idle]
      /\ UNCHANGED <<columns, nextColumn, bases>>
  BY DEF InsertCard, Goto, columnRows
<1>2. version[c] = 0 /\ column[c] = 0 /\ k \in Nat
  <2>1. version[c] = 0 /\ column[c] = 0
    <3>1. c \in CardIds /\ c \in Nat /\ nextCard = c
      BY <1>1 DEF IInv, RowTypes
    <3>2. c >= nextCard
      BY <3>1
    <3>. QED
      BY <3>1, <3>2 DEF IInv, NotYetCreated
  <2>2. k \in ColumnIds
    BY <1>1 DEF IInv, RowTypes
  <2>3. k \in Nat
    BY <2>2, BoardPgAssumption DEF ColumnIds, BoardPgAssumption
  <2>. QED
    BY <2>1, <2>3
<1>3. req'[r].at = "idle" /\ \A q \in Requests \ {r} : req'[q] = req[q]
  BY <1>1 DEF IInv, RowTypes, Idle
<1>4. \A d \in CardIds \ {c} : version'[d] = version[d] /\ column'[d] = column[d]
  BY <1>1 DEF IInv, RowTypes
<1>5. RowTypes' /\ CardsHaveAColumn'
  BY <1>1, <1>2 DEF IInv, RowTypes, CardsHaveAColumn
<1>6. NotYetCreated'
  <2>1. c \in Nat /\ \A d \in CardIds : d \in Nat
    BY DEF IInv, RowTypes, CardIds
  <2>. QED
    BY <1>1, <1>4, <2>1 DEF IInv, RowTypes, NotYetCreated
<1>7. OneAfterAnother'
  <2>1. version'[c] = 1 /\ bases' = bases /\ bases[c] = [i \in 1..(0 - 1) |-> i]
    BY <1>1, <1>2 DEF IInv, RowTypes, OneAfterAnother
  <2>2. bases'[c] = [i \in 1..(version'[c] - 1) |-> i]
    BY <2>1
  <2>. QED
    BY <1>4, <2>1, <2>2 DEF IInv, OneAfterAnother
<1>8. \A q \in Requests \ {r} : ~Holds(q, c) /\ ~Holds(q, c)'
  <2>1. ASSUME NEW q \in Requests \ {r} PROVE ~Holds(q, c) /\ ~Holds(q, c)'
    <3>1. KnowsItsCard(req[q]) /\ req'[q] = req[q]
      BY <1>3 DEF IInv, AllKnow
    <3>2. ~(req[q].at \in Moving /\ req[q].card = c)
      BY <1>2, <3>1 DEF KnowsItsCard
    <3>3. req[q].at = "reindex" => req[q].column # 0
      BY <3>1 DEF KnowsItsCard, ColumnIds
    <3>4. ~(req[q].at = "reindex" /\ req[q].column = k)
      BY <1>1 DEF ColumnHeld
    <3>5. column'[c] = k
      BY <1>1 DEF IInv, RowTypes
    <3>. QED
      BY <1>2, <3>1, <3>2, <3>3, <3>4, <3>5 DEF Holds
  <2>. QED
    BY <2>1
<1>9. AllKnow'
  <2>1. ASSUME NEW q \in Requests PROVE KnowsItsCard(req[q])'
    <3>1. CASE q = r
      BY <1>3, <3>1 DEF KnowsItsCard, Moving
    <3>2. CASE q # r
      <4>1. KnowsItsCard(req[q]) /\ req'[q] = req[q] /\ ~Holds(q, c)
        BY <1>3, <1>8, <3>2 DEF IInv, AllKnow
      <4>. QED
        BY <1>4, <4>1 DEF KnowsItsCard, Holds, Moving
    <3>. QED
      BY <3>1, <3>2
  <2>. QED
    BY <2>1 DEF AllKnow
<1>10. OneHolder'
  <2>1. \A d \in CardIds : ~Holds(r, d)'
    BY <1>3 DEF Holds, Moving
  <2>2. \A q \in Requests \ {r}, d \in CardIds \ {c} : Holds(q, d)' => Holds(q, d)
    BY <1>3, <1>4 DEF Holds
  <2>. QED
    BY <1>8, <2>1, <2>2 DEF IInv, OneHolder
<1>. QED
  BY <1>5, <1>6, <1>7, <1>9, <1>10 DEF IInv

\* Reindex: the cards that go with the column are held by the request.
LEMMA ReindexIInv ==
  ASSUME IInv, NEW r \in Requests, Reindex(r)
  PROVE  IInv'
<1>. DEFINE k == req[r].column
<1>1. /\ req[r].at = "reindex"
      /\ columns' = columns \ {k}
      /\ column' = [c \in CardIds |-> IF column[c] = k THEN 0 ELSE column[c]]
      /\ req' = [req EXCEPT ![r] = Idle]
      /\ UNCHANGED <<nextColumn, version, nextCard, bases>>
  BY DEF Reindex, Goto
<1>2. req'[r].at = "idle" /\ \A q \in Requests \ {r} : req'[q] = req[q]
  BY <1>1 DEF IInv, RowTypes, Idle
<1>3. RowTypes' /\ CardsHaveAColumn' /\ NotYetCreated' /\ OneAfterAnother'
  <2>1. \A c \in CardIds : column[c] \in Nat /\ column'[c] \in {0, column[c]}
    BY <1>1 DEF IInv, RowTypes
  <2>2. RowTypes'
    BY <1>1, <2>1 DEF IInv, RowTypes
  <2>3. CardsHaveAColumn'
    BY <1>1 DEF IInv, CardsHaveAColumn
  <2>4. NotYetCreated' /\ OneAfterAnother'
    BY <1>1, <2>1 DEF IInv, NotYetCreated, OneAfterAnother
  <2>. QED
    BY <2>2, <2>3, <2>4
<1>4. \A q \in Requests \ {r}, c \in CardIds : Holds(q, c) => column'[c] = column[c]
  BY <1>1 DEF IInv, OneHolder, Holds
<1>5. AllKnow'
  <2>1. ASSUME NEW q \in Requests PROVE KnowsItsCard(req[q])'
    <3>1. CASE q = r
      BY <1>2, <3>1 DEF KnowsItsCard, Moving
    <3>2. CASE q # r
      <4>1. KnowsItsCard(req[q]) /\ req'[q] = req[q]
        BY <1>2, <3>2 DEF IInv, AllKnow
      <4>. QED
        BY <1>1, <1>4, <3>2, <4>1 DEF KnowsItsCard, Holds, Moving
    <3>. QED
      BY <3>1, <3>2
  <2>. QED
    BY <2>1 DEF AllKnow
<1>6. OneHolder'
  <2>1. \A d \in CardIds : ~Holds(r, d)'
    BY <1>2 DEF Holds, Moving
  <2>2. ASSUME NEW q \in Requests \ {r}, NEW d \in CardIds, Holds(q, d)'
        PROVE  Holds(q, d)
    <3>1. req'[q] = req[q] /\ KnowsItsCard(req[q])
      BY <1>2 DEF IInv, AllKnow
    <3>2. req[q].at = "reindex" => req[q].column # 0
      BY <3>1 DEF KnowsItsCard, ColumnIds
    <3>. QED
      BY <1>1, <2>2, <3>1, <3>2 DEF Holds
  <2>. QED
    BY <2>1, <2>2 DEF IInv, OneHolder
<1>. QED
  BY <1>3, <1>5, <1>6 DEF IInv

-----------------------------------------------------------------------------
(* The requests, action by action.                                         *)

\* MoveCard and AssignCard lock the row of a card that they have read.
LEMMA MoveIInv ==
  ASSUME IInv, NEW r \in Requests, NEW c \in CardIds, NEW base, NEW to, NEW n,
         MoveCard(r, c, base, to, n)
  PROVE  IInv'
<1>. DEFINE s == [at |-> "leave", card |-> c, base |-> base, from |-> column[c],
                  to |-> to, asked |-> n, isDone |-> to \in done,
                  left |-> Sorted(CardsIn(column[c]) \ {c}, position)]
<1>1. /\ column[c] # 0 /\ ~CardHeld(c, r) /\ version[c] = base
      /\ req' = [req EXCEPT ![r] = s]
      /\ UNCHANGED <<columns, column, version, bases, nextColumn, nextCard>>
  BY DEF MoveCard, Goto, columnRows, cardRows
<1>2. s.at = "leave" /\ s.card = c /\ s.base = base /\ s.from = column[c]
  OBVIOUS
<1>. HIDE DEF s
<1>3. KnowsItsCard(s)
  BY <1>1, <1>2 DEF KnowsItsCard, Moving
<1>4. \A q \in Requests \ {r} : ~Holds(q, c)
  BY <1>1, HeldByOthers
<1>. QED
  BY <1>1, <1>2, <1>3, <1>4, Locks

LEMMA AssignIInv ==
  ASSUME IInv, NEW r \in Requests, NEW c \in CardIds, NEW base, NEW z,
         AssignCard(r, c, base, z)
  PROVE  IInv'
<1>. DEFINE s == [at |-> "assign", card |-> c, base |-> base, sprint |-> z]
<1>1. /\ column[c] # 0 /\ ~CardHeld(c, r) /\ version[c] = base
      /\ req' = [req EXCEPT ![r] = s]
      /\ UNCHANGED <<columns, column, version, bases, nextColumn, nextCard>>
  BY DEF AssignCard, Goto, columnRows, cardRows
<1>2. s.at = "assign" /\ s.card = c /\ s.base = base
  OBVIOUS
<1>. HIDE DEF s
<1>3. KnowsItsCard(s)
  BY <1>1, <1>2 DEF KnowsItsCard, Moving
<1>4. \A q \in Requests \ {r} : ~Holds(q, c)
  BY <1>1, HeldByOthers
<1>. QED
  BY <1>1, <1>2, <1>3, <1>4, Locks

\* Leave goes on with the card.
LEMMA LeaveIInv ==
  ASSUME IInv, NEW r \in Requests, Leave(r)
  PROVE  IInv'
<1>1. PICK s :
        /\ req[r].at = "leave" /\ req' = [req EXCEPT ![r] = s]
        /\ s.at = "enter" /\ s.card = req[r].card
        /\ s.base = req[r].base /\ s.from = req[r].from
        /\ UNCHANGED <<columns, column, version, bases, nextColumn, nextCard>>
  <2>. DEFINE w   == Numbered(req[r].left)
              ids == Sorted(CardsIn(req[r].to), Written(position, w, CardIds))
              z   == [at |-> "enter", card |-> req[r].card, base |-> req[r].base,
                      from |-> req[r].from, to |-> req[r].to, asked |-> req[r].asked,
                      isDone |-> req[r].isDone, writes |-> w,
                      position |-> Min({req[r].asked, Len(ids)}), ids |-> ids]
  <2>1. req[r].at = "leave" /\ req' = [req EXCEPT ![r] = z]
        /\ UNCHANGED <<columns, column, version, bases, nextColumn, nextCard>>
    BY DEF Leave, columnRows, cardRows
  <2>2. z.at = "enter" /\ z.card = req[r].card /\ z.base = req[r].base /\ z.from = req[r].from
    OBVIOUS
  <2>. HIDE DEF z
  <2>. QED
    BY <2>1, <2>2
<1>2. KnowsItsCard(req[r])
  BY DEF IInv, AllKnow
<1>3. KnowsItsCard(s)
  BY <1>1, <1>2 DEF KnowsItsCard, Moving
<1>4. \A q \in Requests \ {r}, c \in CardIds : s.card = c => ~Holds(q, c)
  BY <1>1 DEF IInv, OneHolder, Holds, Moving
<1>. QED
  BY <1>1, <1>3, <1>4, Locks

\* The DELETE of a column takes the cards that nobody holds.
LEMMA DeleteIInv ==
  ASSUME IInv, NEW r \in Requests, DeleteRow(r)
  PROVE  IInv'
<1>. DEFINE k == req[r].column
            s == [at |-> "reindex", column |-> k, order |-> Sorted(columns \ {k}, place)]
<1>1. /\ req[r].at = "delete" /\ \A c \in CardsIn(k) : ~CardHeld(c, r)
      /\ req' = [req EXCEPT ![r] = s]
      /\ UNCHANGED <<columns, column, version, bases, nextColumn, nextCard>>
  BY DEF DeleteRow, Goto, columnRows, cardRows
<1>2. s.at = "reindex" /\ s.column = k
  OBVIOUS
<1>. HIDE DEF s
<1>3. k \in ColumnIds
  BY <1>1 DEF IInv, AllKnow, KnowsItsCard
<1>4. KnowsItsCard(s)
  BY <1>2, <1>3 DEF KnowsItsCard, Moving
<1>5. \A c \in CardIds : column[c] = k => \A q \in Requests \ {r} : ~Holds(q, c)
  BY <1>1, HeldByOthers DEF CardsIn
<1>. QED
  BY <1>1, <1>2, <1>4, <1>5, Locks, ZenonT(60) DEF Moving

\* Enter and WriteCard write the card that the request holds.
LEMMA EnterIInv ==
  ASSUME IInv, NEW r \in Requests, Enter(r)
  PROVE  IInv'
<1>. DEFINE q == req[r]
<1>1. /\ q.at = "enter" /\ q.to \in columns /\ ~ColumnHeld(q.to, r)
      /\ column' = [column EXCEPT ![q.card] = q.to]
      /\ Accept(q.card, q.base)
      /\ req' = [req EXCEPT ![r] = Idle]
      /\ UNCHANGED <<columns, nextColumn, nextCard>>
  BY DEF Enter, Goto, columnRows
<1>2. q.card \in CardIds /\ version[q.card] = q.base /\ column[q.card] # 0
  BY <1>1 DEF IInv, AllKnow, KnowsItsCard, Moving
<1>3. version[q.card] > 0
  BY <1>2 DEF IInv, RowTypes, NotYetCreated
<1>4. \A p \in Requests \ {r} :
        ~Holds(p, q.card) /\ ~(req[p].at = "reindex" /\ req[p].column = q.to)
  BY <1>1, <1>2 DEF IInv, OneHolder, Holds, Moving, ColumnHeld
<1>. HIDE DEF q
<1>. QED
  BY <1>1, <1>2, <1>3, <1>4, Writes, ZenonT(60)

LEMMA WriteCardIInv ==
  ASSUME IInv, NEW r \in Requests, WriteCard(r)
  PROVE  IInv'
<1>. DEFINE c == req[r].card
            k == column[c]
<1>1. /\ req[r].at = "assign" /\ Accept(c, req[r].base)
      /\ req' = [req EXCEPT ![r] = Idle]
      /\ UNCHANGED <<columns, column, nextColumn, nextCard>>
  BY DEF WriteCard, Goto, columnRows
<1>2. c \in CardIds /\ version[c] = req[r].base /\ k # 0
  BY <1>1 DEF IInv, AllKnow, KnowsItsCard, Moving
<1>3. version[c] > 0
  BY <1>2 DEF IInv, RowTypes, NotYetCreated
<1>4. k \in columns /\ column' = [column EXCEPT ![c] = k]
  BY <1>1, <1>2 DEF IInv, RowTypes, CardsHaveAColumn
<1>5. \A p \in Requests \ {r} : ~Holds(p, c)
  BY <1>1, <1>2 DEF IInv, OneHolder, Holds, Moving
<1>. HIDE DEF c
<1>. QED
  BY <1>1, <1>2, <1>3, <1>4, <1>5, Writes

LEMMA UpdateIInv ==
  ASSUME IInv, NEW r \in Requests, NEW c \in CardIds, NEW base, UpdateCard(r, c, base)
  PROVE  IInv'
<1>. DEFINE k == column[c]
<1>1. /\ req[r] = Idle /\ k # 0 /\ ~CardHeld(c, r)
      /\ version[c] = base /\ Accept(c, base)
      /\ UNCHANGED <<columns, column, nextColumn, nextCard, req>>
  BY DEF UpdateCard, Called, columnRows
<1>2. version[c] > 0
  BY <1>1 DEF IInv, RowTypes, NotYetCreated
<1>3. k \in columns /\ column' = [column EXCEPT ![c] = k]
  BY <1>1 DEF IInv, RowTypes, CardsHaveAColumn
<1>4. req' = [req EXCEPT ![r] = Idle]
  BY <1>1 DEF IInv, RowTypes
<1>5. \A q \in Requests \ {r} : ~Holds(q, c)
  BY <1>1, HeldByOthers
<1>. QED
  BY <1>1, <1>2, <1>3, <1>4, <1>5, Writes

-----------------------------------------------------------------------------
(* All steps.                                                              *)

\* The requests of the board.
LEMMA RequestIInv ==
  ASSUME IInv, NEW r \in Requests, RequestStep(r)
  PROVE  IInv'
<1>1. CASE Abort(r)
  BY <1>1, Ends DEF Abort, Goto, columnRows, cardRows, IInv, RowTypes
<1>2. CASE CreateColumn(r)
  <2>. DEFINE s == [at |-> "insert column",
                    place |-> IF columns = {} THEN 0
                              ELSE 1 + Max({place[k] : k \in columns})]
  <2>1. req' = [req EXCEPT ![r] = s] /\ UNCHANGED <<columnRows, cardRows>>
    BY <1>2 DEF CreateColumn, Goto
  <2>2. s.at = "insert column"
    OBVIOUS
  <2>. HIDE DEF s
  <2>. QED
    BY <2>1, <2>2, Onward
<1>3. CASE CountColumns(r)
  <2>1. CASE Cardinality(columns) > 1
    <3>. DEFINE s == [at |-> "delete", column |-> req[r].column]
    <3>1. req' = [req EXCEPT ![r] = s] /\ UNCHANGED <<columnRows, cardRows>>
      BY <1>3, <2>1 DEF CountColumns, Goto
    <3>2. s.at = "delete" /\ s.column \in ColumnIds
      BY <1>3 DEF CountColumns, IInv, AllKnow, KnowsItsCard
    <3>. HIDE DEF s
    <3>. QED
      BY <3>1, <3>2, Onward
  <2>2. CASE ~(Cardinality(columns) > 1)
    BY <1>3, <2>2, Ends DEF CountColumns, Goto, columnRows, cardRows, IInv, RowTypes
  <2>. QED
    BY <2>1, <2>2
<1>4. CASE ReorderColumns(r)
  <2>1. PICK order : /\ req' = [req EXCEPT ![r] = [at |-> "reorder", order |-> order]]
                     /\ UNCHANGED <<columnRows, cardRows>>
    BY <1>4 DEF ReorderColumns, Goto
  <2>. DEFINE s == [at |-> "reorder", order |-> order]
  <2>2. req' = [req EXCEPT ![r] = s] /\ s.at = "reorder"
    BY <2>1
  <2>. HIDE DEF s
  <2>. QED
    BY <2>1, <2>2, Onward
<1>5. CASE WriteOrder(r)
  BY <1>5, Ends DEF WriteOrder, Goto, cardRows, IInv, RowTypes
<1>6. ASSUME NEW isDone \in BOOLEAN, InsertColumn(r, isDone) PROVE IInv'
  <2>1. /\ columns' = columns \cup {nextColumn} /\ nextColumn \in ColumnIds
        /\ nextColumn' = nextColumn + 1
        /\ req' = [req EXCEPT ![r] = Idle] /\ UNCHANGED cardRows
    BY <1>6 DEF InsertColumn, Goto
  <2>2. columns \subseteq columns' /\ columns' \subseteq ColumnIds /\ nextColumn' \in Nat
    BY <2>1 DEF IInv, RowTypes
  <2>. QED
    BY <2>1, <2>2, Ends DEF cardRows
<1>7. ASSUME NEW k \in ColumnIds, NEW isDone \in BOOLEAN, RenameColumn(r, k, isDone)
      PROVE  IInv'
  <2>1. req[r] = Idle /\ req' = req /\ UNCHANGED <<columns, nextColumn, cardRows>>
    BY <1>7 DEF RenameColumn, Called
  <2>2. req' = [req EXCEPT ![r] = Idle]
    BY <2>1 DEF IInv, RowTypes
  <2>. QED
    BY <2>1, <2>2, Ends DEF cardRows, IInv, RowTypes
<1>8. ASSUME NEW k \in ColumnIds, DeleteColumn(r, k) PROVE IInv'
  <2>. DEFINE s == [at |-> "count columns", column |-> k]
  <2>1. req' = [req EXCEPT ![r] = s] /\ UNCHANGED <<columnRows, cardRows>>
    BY <1>8 DEF DeleteColumn, Goto
  <2>2. s.at = "count columns" /\ s.column \in ColumnIds
    OBVIOUS
  <2>. HIDE DEF s
  <2>. QED
    BY <2>1, <2>2, Onward
<1>9. ASSUME NEW k \in ColumnIds, CreateCard(r, k) PROVE IInv'
  <2>. DEFINE s == [at |-> "insert card", column |-> k,
                    position |-> Cardinality(CardsIn(k)), isDone |-> k \in done]
  <2>1. req' = [req EXCEPT ![r] = s] /\ UNCHANGED <<columnRows, cardRows>>
    BY <1>9 DEF CreateCard, Goto
  <2>2. s.at = "insert card"
    OBVIOUS
  <2>. HIDE DEF s
  <2>. QED
    BY <2>1, <2>2, Onward
<1>. QED
  BY <1>1, <1>2, <1>3, <1>4, <1>5, <1>6, <1>7, <1>8, <1>9, InsertIInv, ReindexIInv,
     DeleteIInv, MoveIInv, LeaveIInv, EnterIInv, UpdateIInv DEF RequestStep

\* The requests of the sprints, which leave the rows of the cards but one alone.
LEMMA SprintIInv ==
  ASSUME IInv, NEW r \in Requests, SprintStep(r)
  PROVE  IInv'
<1>1. ASSUME NEW s \in Sprints, NEW w, CreateSprint(r, s, w) PROVE IInv'
  BY <1>1, Stutters DEF CreateSprint, vars
<1>2. ASSUME NEW z \in Sprints, NEW w, NEW halves, CheckSprint(r, z, w, halves) PROVE IInv'
  <2>. DEFINE s == [at |-> "update sprint", sprint |-> z, given |-> w,
                    halves |-> halves, seen |-> window[z]]
  <2>1. req' = [req EXCEPT ![r] = s] /\ UNCHANGED <<columnRows, cardRows>>
    BY <1>2 DEF CheckSprint, Goto
  <2>2. s.at = "update sprint"
    OBVIOUS
  <2>. HIDE DEF s
  <2>. QED
    BY <2>1, <2>2, Onward
<1>3. CASE ReadSprint(r)
  <2>. DEFINE q == req[r]
              s == [at |-> "write sprint", sprint |-> q.sprint, seen |-> window[q.sprint],
                    window |-> Overlaid(window[q.sprint], q.given, q.halves)]
  <2>1. req' = [req EXCEPT ![r] = s] /\ UNCHANGED <<columnRows, cardRows>>
    BY <1>3 DEF ReadSprint, Goto
  <2>2. s.at = "write sprint"
    OBVIOUS
  <2>. HIDE DEF s
  <2>. QED
    BY <2>1, <2>2, Onward
<1>4. CASE WriteSprint(r)
  BY <1>4, Ends DEF WriteSprint, Goto, columnRows, cardRows, IInv, RowTypes
<1>5. ASSUME NEW z \in Sprints, DeleteSprint(r, z) PROVE IInv'
  <2>. DEFINE s == [at |-> "clear sprint", sprint |-> z]
  <2>1. req' = [req EXCEPT ![r] = s] /\ UNCHANGED <<columnRows, cardRows>>
    BY <1>5 DEF DeleteSprint, Goto
  <2>2. s.at = "clear sprint"
    OBVIOUS
  <2>. HIDE DEF s
  <2>. QED
    BY <2>1, <2>2, Onward
<1>6. CASE ClearSprint(r)
  BY <1>6, Ends DEF ClearSprint, Goto, columnRows, cardRows, IInv, RowTypes
<1>. QED
  BY <1>1, <1>2, <1>3, <1>4, <1>5, <1>6, AssignIInv, WriteCardIInv DEF SprintStep

\* The form is opened for a card of the page, and a save is a request like any.
LEMMA SaveIInv ==
  ASSUME IInv, FormOfACard, NEW r \in Requests, SaveForm(r)
  PROVE  IInv' /\ UNCHANGED form
<1>1. form.open /\ form.card \in CardIds
  BY DEF SaveForm, FormOfACard
<1>. DEFINE c == form.card
            base == form.version
            to == form.column
            z == form.sprint
<1>2. \/ MoveCard(r, c, base, to, 0) /\ UNCHANGED pageVars
      \/ AssignCard(r, c, base, z)
  BY DEF SaveForm
<1>3. UNCHANGED form
  BY <1>2 DEF AssignCard, pageVars
<1>. HIDE DEF c, base, to, z
<1>4. c \in CardIds
  BY <1>1 DEF c
<1>. QED
  BY <1>2, <1>3, <1>4, MoveIInv, AssignIInv

\* The form of the page stays a card's.
LEMMA PageFormOfACard ==
  ASSUME FormOfACard, PageStep
  PROVE  FormOfACard' /\ UNCHANGED vars
<1>1. CASE RefreshPage
  BY <1>1 DEF RefreshPage, FormOfACard
<1>2. CASE CloseForm
  BY <1>2 DEF CloseForm, FormOfACard, NoForm
<1>3. ASSUME NEW c \in CardIds, OpenForm(c) PROVE FormOfACard' /\ UNCHANGED vars
  <2>1. form'.card = c /\ {"open", "card"} \subseteq DOMAIN form' /\ UNCHANGED vars
    BY <1>3 DEF OpenForm
  <2>. QED
    BY <2>1 DEF FormOfACard
<1>4. ASSUME NEW k \in ColumnIds, PickColumn(k) PROVE FormOfACard' /\ UNCHANGED vars
  <2>1. form.open /\ form' = [form EXCEPT !.column = k] /\ UNCHANGED vars
    BY <1>4 DEF PickColumn
  <2>. QED
    BY <2>1 DEF FormOfACard
<1>5. ASSUME NEW s \in Sprints \cup {NoSprint}, PickSprint(s)
      PROVE  FormOfACard' /\ UNCHANGED vars
  <2>1. form.open /\ form' = [form EXCEPT !.sprint = s] /\ UNCHANGED vars
    BY <1>5 DEF PickSprint
  <2>. QED
    BY <2>1 DEF FormOfACard
<1>. QED
  BY <1>1, <1>2, <1>3, <1>4, <1>5 DEF PageStep

LEMMA NextIInv ==
  ASSUME IInv, FormOfACard, [PlanNext]_planVars
  PROVE  IInv' /\ FormOfACard'
<1>1. ASSUME NEW r \in Requests, BoardStep(r) PROVE IInv' /\ FormOfACard'
  BY <1>1, RequestIInv DEF BoardStep, pageVars, FormOfACard
<1>2. ASSUME NEW r \in Requests, SprintStep(r) PROVE IInv' /\ FormOfACard'
  <2>1. UNCHANGED form
    BY <1>2 DEF SprintStep, CreateSprint, CheckSprint, ReadSprint, WriteSprint,
                DeleteSprint, ClearSprint, AssignCard, WriteCard, pageVars
  <2>. QED
    BY <1>2, <2>1, SprintIInv DEF FormOfACard
<1>3. ASSUME NEW r \in Requests, SaveForm(r) PROVE IInv' /\ FormOfACard'
  BY <1>3, SaveIInv DEF FormOfACard
<1>4. CASE PageStep
  BY <1>4, PageFormOfACard, Stutters
<1>5. CASE NextDay
  BY <1>5, Stutters DEF NextDay, pageVars, FormOfACard
<1>6. CASE UNCHANGED planVars
  BY <1>6, Stutters DEF planVars, pageVars, FormOfACard
<1>. QED
  BY <1>1, <1>2, <1>3, <1>4, <1>5, <1>6 DEF PlanNext

LEMMA InitIInv ==
  ASSUME PlanInit
  PROVE  IInv /\ FormOfACard
<1>1. load \in Workloads /\ load.cards \in 0..MaxCards /\ MaxColumns \in Nat \ 0..2
  BY BoardPgAssumption DEF PlanInit, Init, BoardPgAssumption, BoardWorkload
<1>2. RowTypes
  BY <1>1 DEF PlanInit, Init, RowTypes, ColumnIds, CardIds
<1>3. CardsHaveAColumn
  BY <1>1 DEF PlanInit, Init, CardsHaveAColumn
<1>4. NotYetCreated
  BY <1>1 DEF PlanInit, Init, NotYetCreated, CardIds
<1>5. OneAfterAnother
  <2>1. \A c \in CardIds : bases[c] = <<>> /\ version[c] \in {0, 1}
    BY DEF PlanInit, Init
  <2>2. <<>> = [i \in 1..(0 - 1) |-> i] /\ <<>> = [i \in 1..(1 - 1) |-> i]
    OBVIOUS
  <2>. QED
    BY <2>1, <2>2 DEF OneAfterAnother
<1>6. \A r \in Requests : req[r].at = "idle"
  BY DEF PlanInit, Init, Idle
<1>7. AllKnow /\ OneHolder
  BY <1>6 DEF AllKnow, KnowsItsCard, OneHolder, Holds, Moving
<1>8. FormOfACard
  BY DEF PlanInit, NoForm, FormOfACard
<1>. QED
  BY <1>2, <1>3, <1>4, <1>5, <1>7, <1>8 DEF IInv

LEMMA Invariance == PlanSpec => [](IInv /\ FormOfACard)
<1>1. PlanInit => IInv /\ FormOfACard
  BY InitIInv
<1>2. IInv /\ FormOfACard /\ [PlanNext]_planVars => (IInv /\ FormOfACard)'
  BY NextIInv
<1>. QED
  BY <1>1, <1>2, PTL DEF PlanSpec

-----------------------------------------------------------------------------
(* The page and its form.                                                  *)

\* Versions only grow, and a card stays where it is in one version of it, or is
\* deleted.
RowsGrow ==
  /\ column' \in [CardIds -> Nat] /\ version' \in [CardIds -> Nat]
  /\ \A c \in CardIds :
       /\ version[c] <= version'[c]
       /\ version'[c] = version[c] => column'[c] \in {0, column[c]}

\* What the page shows of a card, and what its form was opened with, was so in
\* the version that it names.
PageInv ==
  /\ \A c \in CardIds :
       /\ page.version[c] \in Nat /\ page.version[c] <= version[c]
       /\ page.version[c] = version[c] => column[c] \in {0, page.column[c]}
  /\ form.open =>
       /\ {"open", "card", "version", "from"} \subseteq DOMAIN form
       /\ form.card \in CardIds
       /\ form.version \in Nat /\ form.version <= page.version[form.card]
       /\ form.from # 0
       /\ form.version = version[form.card] => column[form.card] \in {0, form.from}

LEMMA SameRowsGrow ==
  ASSUME IInv, UNCHANGED <<column, version>>
  PROVE  RowsGrow
<1>1. \A c \in CardIds : version[c] \in Nat
  BY DEF IInv, RowTypes
<1>. QED
  BY <1>1 DEF IInv, RowTypes, RowsGrow

LEMMA AcceptGrows ==
  ASSUME IInv, NEW c \in CardIds, NEW base, NEW k \in Nat, Accept(c, base),
         column' = [column EXCEPT ![c] = k]
  PROVE  RowsGrow
<1>1. version' = [version EXCEPT ![c] = version[c] + 1]
  BY DEF Accept
<1>2. column \in [CardIds -> Nat] /\ version \in [CardIds -> Nat]
  BY DEF IInv, RowTypes
<1>. QED
  BY <1>1, <1>2 DEF RowsGrow

LEMMA RequestGrows ==
  ASSUME IInv, NEW r \in Requests, RequestStep(r)
  PROVE  RowsGrow
<1>1. CASE UNCHANGED cardRows
  BY <1>1, SameRowsGrow DEF cardRows
<1>2. CASE InsertCard(r)
  <2>1. /\ nextCard \in CardIds /\ req[r].column \in columns
        /\ column' = [column EXCEPT ![nextCard] = req[r].column]
        /\ version' = [version EXCEPT ![nextCard] = 1]
    BY <1>2 DEF InsertCard
  <2>2. version[nextCard] = 0 /\ req[r].column \in Nat
    <3>1. nextCard >= nextCard
      BY DEF IInv, RowTypes
    <3>. QED
      BY <2>1, <3>1, BoardPgAssumption
      DEF IInv, RowTypes, NotYetCreated, ColumnIds, BoardPgAssumption
  <2>3. column \in [CardIds -> Nat] /\ version \in [CardIds -> Nat]
    BY DEF IInv, RowTypes
  <2>. QED
    BY <2>1, <2>2, <2>3 DEF RowsGrow
<1>3. CASE Reindex(r)
  <2>1. /\ column' = [c \in CardIds |-> IF column[c] = req[r].column THEN 0 ELSE column[c]]
        /\ version' = version
    BY <1>3 DEF Reindex
  <2>2. column \in [CardIds -> Nat] /\ version \in [CardIds -> Nat]
    BY DEF IInv, RowTypes
  <2>. QED
    BY <2>1, <2>2 DEF RowsGrow
<1>4. ASSUME NEW c \in CardIds, NEW base, UpdateCard(r, c, base) PROVE RowsGrow
  <2>1. Accept(c, base) /\ column' = [column EXCEPT ![c] = column[c]] /\ column[c] \in Nat
    BY <1>4 DEF UpdateCard, IInv, RowTypes
  <2>. QED
    BY <2>1, AcceptGrows
<1>5. CASE Enter(r)
  <2>1. /\ req[r].card \in CardIds /\ Accept(req[r].card, req[r].base)
        /\ column' = [column EXCEPT ![req[r].card] = req[r].to] /\ req[r].to \in columns
    BY <1>5 DEF Enter, IInv, AllKnow, KnowsItsCard, Moving
  <2>2. req[r].to \in Nat
    BY <2>1, BoardPgAssumption DEF IInv, RowTypes, ColumnIds, BoardPgAssumption
  <2>. QED
    BY <2>1, <2>2, AcceptGrows
<1>. QED
  BY <1>1, <1>2, <1>3, <1>4, <1>5
  DEF RequestStep, Abort, CreateColumn, CountColumns, DeleteRow, ReorderColumns, WriteOrder,
      InsertColumn, RenameColumn, DeleteColumn, CreateCard, MoveCard, Leave

LEMMA SprintGrows ==
  ASSUME IInv, NEW r \in Requests, SprintStep(r)
  PROVE  RowsGrow /\ UNCHANGED pageVars
<1>1. UNCHANGED pageVars
  BY DEF SprintStep, CreateSprint, CheckSprint, ReadSprint, WriteSprint, DeleteSprint,
         ClearSprint, AssignCard, WriteCard
<1>2. CASE WriteCard(r)
  <2>1. /\ req[r].card \in CardIds /\ Accept(req[r].card, req[r].base)
        /\ column' = [column EXCEPT ![req[r].card] = column[req[r].card]]
        /\ column[req[r].card] \in Nat
    BY <1>2 DEF WriteCard, IInv, RowTypes, AllKnow, KnowsItsCard, Moving
  <2>. QED
    BY <1>1, <2>1, AcceptGrows
<1>3. CASE UNCHANGED cardRows
  BY <1>1, <1>3, SameRowsGrow DEF cardRows
<1>. QED
  BY <1>2, <1>3
  DEF SprintStep, CreateSprint, CheckSprint, ReadSprint, WriteSprint, DeleteSprint,
      ClearSprint, AssignCard, vars

\* Rows that grow leave the page behind, but not wrong.
LEMMA PageFallsBehind ==
  ASSUME IInv, PageInv, RowsGrow, UNCHANGED pageVars
  PROVE  PageInv'
<1>1. UNCHANGED <<page, form>> /\ version \in [CardIds -> Nat]
  BY DEF pageVars, IInv, RowTypes
<1>2. ASSUME NEW c \in CardIds
      PROVE  /\ page'.version[c] \in Nat /\ page'.version[c] <= version'[c]
             /\ page'.version[c] = version'[c] => column'[c] \in {0, page'.column[c]}
  BY <1>1, <1>2 DEF PageInv, RowsGrow
<1>3. ASSUME form.open
      PROVE  form.version = version'[form.card] => column'[form.card] \in {0, form.from}
  BY <1>1, <1>3 DEF PageInv, RowsGrow
<1>. QED
  BY <1>1, <1>2, <1>3 DEF PageInv

LEMMA RefreshPageInv ==
  ASSUME IInv, PageInv, RefreshPage
  PROVE  PageInv'
<1>1. /\ page'.version = version /\ page'.column = column
      /\ UNCHANGED <<column, version, form>>
  BY DEF RefreshPage, Rendered, vars, cardRows
<1>2. version \in [CardIds -> Nat]
  BY DEF IInv, RowTypes
<1>. QED
  BY <1>1, <1>2 DEF PageInv

LEMMA PageStepInv ==
  ASSUME IInv, PageInv, PageStep
  PROVE  PageInv'
<1>1. CASE RefreshPage
  BY <1>1, RefreshPageInv
<1>2. CASE CloseForm
  BY <1>2 DEF CloseForm, PageInv, NoForm, vars, cardRows
<1>3. ASSUME NEW c \in CardIds, OpenForm(c) PROVE PageInv'
  <2>1. /\ page.column[c] # 0 /\ UNCHANGED <<column, version, page>>
        /\ {"open", "card", "version", "from"} \subseteq DOMAIN form'
        /\ form'.card = c /\ form'.version = page.version[c] /\ form'.from = page.column[c]
    BY <1>3 DEF OpenForm, vars, cardRows
  <2>2. page.version[c] \in Nat /\ page.version[c] <= page.version[c]
    BY DEF PageInv
  <2>. QED
    BY <2>1, <2>2 DEF PageInv
<1>4. ASSUME form.open, NEW f \in {"column", "sprint"}, NEW x,
             form' = [form EXCEPT ![f] = x], UNCHANGED <<vars, page>>
      PROVE  PageInv'
  <2>1. {"open", "card", "version", "from"} \subseteq DOMAIN form
    BY <1>4 DEF PageInv
  <2>2. /\ DOMAIN form' = DOMAIN form /\ form'.card = form.card /\ form'.version = form.version
        /\ form'.from = form.from /\ form'.open = form.open
    BY <1>4, <2>1
  <2>. QED
    BY <1>4, <2>1, <2>2 DEF PageInv, vars, cardRows
<1>5. ASSUME NEW k \in ColumnIds, PickColumn(k) PROVE PageInv'
  <2>1. form.open /\ form' = [form EXCEPT !["column"] = k] /\ UNCHANGED <<vars, page>>
    BY <1>5 DEF PickColumn
  <2>. QED
    BY <1>4, <2>1
<1>6. ASSUME NEW s \in Sprints \cup {NoSprint}, PickSprint(s) PROVE PageInv'
  <2>1. form.open /\ form' = [form EXCEPT !["sprint"] = s] /\ UNCHANGED <<vars, page>>
    BY <1>6 DEF PickSprint
  <2>. QED
    BY <1>4, <2>1
<1>. QED
  BY <1>1, <1>2, <1>3, <1>5, <1>6 DEF PageStep

LEMMA SaveGrows ==
  ASSUME IInv, NEW r \in Requests, SaveForm(r)
  PROVE  RowsGrow /\ UNCHANGED pageVars
<1>1. UNCHANGED <<pageVars, cardRows>>
  BY DEF SaveForm, MoveCard, AssignCard
<1>. QED
  BY <1>1, SameRowsGrow DEF cardRows

LEMMA NextPageInv ==
  ASSUME IInv, PageInv, [PlanNext]_planVars
  PROVE  PageInv'
<1>1. ASSUME NEW r \in Requests, BoardStep(r) PROVE PageInv'
  BY <1>1, RequestGrows, PageFallsBehind DEF BoardStep
<1>2. ASSUME NEW r \in Requests, SprintStep(r) PROVE PageInv'
  BY <1>2, SprintGrows, PageFallsBehind
<1>3. ASSUME NEW r \in Requests, SaveForm(r) PROVE PageInv'
  BY <1>3, SaveGrows, PageFallsBehind
<1>4. CASE PageStep
  BY <1>4, PageStepInv
<1>5. CASE NextDay \/ UNCHANGED planVars
  <2>1. UNCHANGED <<column, version, pageVars>>
    BY <1>5 DEF NextDay, planVars, vars, cardRows
  <2>. QED
    BY <2>1, SameRowsGrow, PageFallsBehind
<1>. QED
  BY <1>1, <1>2, <1>3, <1>4, <1>5 DEF PlanNext

LEMMA InitPageInv ==
  ASSUME PlanInit
  PROVE  PageInv
<1>1. IInv
  BY InitIInv
<1>2. page.version = version /\ page.column = column /\ ~form.open
  BY DEF PlanInit, Rendered, NoForm
<1>3. version \in [CardIds -> Nat]
  BY <1>1 DEF IInv, RowTypes
<1>. QED
  BY <1>2, <1>3 DEF PageInv

\* A save whose version is still the card's finds the card in the column that the
\* form was opened with, and the page cannot show another.
LEMMA SavesAsPicked ==
  ASSUME IInv, PageInv, NEW r \in Requests, SaveForm(r)
  PROVE  req'[r].at = "leave" <=> form.column # form.from
<1>. DEFINE c == form.card
            shown == page.column[c]
<1>1. /\ form.open /\ c \in CardIds
      /\ form.version \in Nat /\ page.version[c] \in Nat /\ version[c] \in Nat
      /\ form.version <= page.version[c] /\ page.version[c] <= version[c]
      /\ page.version[c] = version[c] => column[c] \in {0, shown}
      /\ form.version = version[c] => column[c] \in {0, form.from}
  <2>1. form.open
    BY DEF SaveForm
  <2>. QED
    BY <2>1 DEF PageInv, IInv, RowTypes
<1>2. ASSUME version[c] = form.version, column[c] # 0
      PROVE  shown = form.from /\ shown # 0
  <2>1. page.version[c] = version[c]
    BY <1>1, <1>2
  <2>. QED
    BY <1>1, <1>2, <2>1
<1>3. CASE shown \notin {0, form.column}
  <2>1. MoveCard(r, c, form.version, form.column, 0)
    BY <1>3 DEF SaveForm
  <2>2. column[c] # 0 /\ version[c] = form.version
    BY <2>1 DEF MoveCard
  <2>3. req'[r].at = "leave"
    <3>1. PICK s : /\ s = [at |-> "leave", card |-> c, base |-> form.version,
                           from |-> column[c], to |-> form.column, asked |-> 0,
                           isDone |-> form.column \in done,
                           left |-> Sorted(CardsIn(column[c]) \ {c}, position)]
      OBVIOUS
    <3>2. req' = [req EXCEPT ![r] = s]
      BY <2>1, <3>1 DEF MoveCard, Goto
    <3>3. req'[r] = s /\ s.at = "leave"
      BY <3>1, <3>2 DEF IInv, RowTypes
    <3>. QED
      BY <3>3
  <2>. QED
    BY <1>2, <1>3, <2>2, <2>3
<1>4. CASE shown \in {0, form.column}
  <2>1. AssignCard(r, c, form.version, form.sprint)
    BY <1>4 DEF SaveForm
  <2>2. column[c] # 0 /\ version[c] = form.version
    BY <2>1 DEF AssignCard
  <2>3. req'[r].at = "assign"
    BY <2>1 DEF AssignCard, Goto, IInv, RowTypes
  <2>. QED
    BY <1>2, <1>4, <2>2, <2>3
<1>. QED
  BY <1>3, <1>4

-----------------------------------------------------------------------------
(* Rows in order.                                                          *)

Before(pos, b, a) == pos[b] < pos[a] \/ (pos[b] = pos[a] /\ b < a)

Rank(ids, pos, a) == Cardinality({b \in ids : Before(pos, b, a)})

Orderable(ids, pos) ==
  /\ ids \in SUBSET Nat /\ IsFiniteSet(ids)
  /\ \A a \in ids : pos[a] \in Nat

\* s has the rows, each once, and in order.
IsOrder(s, ids, pos) ==
  /\ s \in [1..Cardinality(ids) -> ids]
  /\ \A a \in ids : \E i \in 1..Cardinality(ids) : s[i] = a
  /\ \A i, j \in 1..Cardinality(ids) : i < j => Before(pos, s[i], s[j])

LEMMA SortedRanks ==
  ASSUME NEW ids, NEW pos
  PROVE  Sorted(ids, pos) =
           [i \in 1..Cardinality(ids) |-> CHOOSE a \in ids : Rank(ids, pos, a) = i - 1]
BY DEF Sorted, Rank, Before

LEMMA TotalOrder ==
  ASSUME NEW ids, NEW pos, Orderable(ids, pos)
  PROVE  /\ \A a \in ids : ~Before(pos, a, a)
         /\ \A a, b \in ids : a = b \/ Before(pos, a, b) \/ Before(pos, b, a)
         /\ \A a, b \in ids : ~(Before(pos, a, b) /\ Before(pos, b, a))
         /\ \A a, b, c \in ids : Before(pos, a, b) /\ Before(pos, b, c) => Before(pos, a, c)
BY DEF Orderable, Before

\* A later row has more before it.
LEMMA RanksDiffer ==
  ASSUME NEW ids, NEW pos, Orderable(ids, pos), NEW a \in ids, NEW b \in ids, Before(pos, b, a)
  PROVE  Rank(ids, pos, b) < Rank(ids, pos, a)
<1>. DEFINE A == {x \in ids : Before(pos, x, a)}
            B == {x \in ids : Before(pos, x, b)}
<1>1. B \in SUBSET A /\ b \in A /\ b \notin B
  BY TotalOrder
<1>2. IsFiniteSet(A)
  BY FS_Subset DEF Orderable
<1>. HIDE DEF A, B
<1>3. Cardinality(B) <= Cardinality(A) /\ Cardinality(B) # Cardinality(A) /\ IsFiniteSet(B)
  BY <1>1, <1>2, FS_Subset
<1>4. Cardinality(A) \in Nat /\ Cardinality(B) \in Nat
  BY <1>2, <1>3, FS_CardinalityType
<1>5. Cardinality(B) < Cardinality(A)
  BY <1>3, <1>4
<1>. QED
  BY <1>5 DEF Rank, A, B

LEMMA RankType ==
  ASSUME NEW ids, NEW pos, Orderable(ids, pos), NEW a \in ids
  PROVE  /\ Cardinality(ids) \in Nat
         /\ Rank(ids, pos, a) \in 0..(Cardinality(ids) - 1)
<1>. DEFINE A == {x \in ids : Before(pos, x, a)}
<1>1. A \in SUBSET ids /\ a \notin A
  BY TotalOrder
<1>2. IsFiniteSet(ids)
  BY DEF Orderable
<1>. HIDE DEF A
<1>3. IsFiniteSet(A) /\ Cardinality(A) <= Cardinality(ids) /\ Cardinality(A) # Cardinality(ids)
  BY <1>1, <1>2, FS_Subset
<1>4. Cardinality(A) \in Nat /\ Cardinality(ids) \in Nat
  BY <1>2, <1>3, FS_CardinalityType
<1>5. Cardinality(A) \in 0..(Cardinality(ids) - 1)
  BY <1>3, <1>4
<1>. QED
  BY <1>4, <1>5 DEF Rank, A

\* Each place has its row.
LEMMA RanksAreTaken ==
  ASSUME NEW ids, NEW pos, Orderable(ids, pos), NEW i \in 1..Cardinality(ids)
  PROVE  \E a \in ids : Rank(ids, pos, a) = i - 1
<1>1. PICK n \in Nat : n = Cardinality(ids)
  BY FS_CardinalityType DEF Orderable
<1>2. PICK f : f = [a \in ids |-> Rank(ids, pos, a)]
  OBVIOUS
<1>3. f \in [ids -> 0..(n - 1)]
  BY <1>1, <1>2, RankType
<1>4. \A a, b \in ids : f[a] = f[b] => a = b
  <2>. TAKE a, b \in ids
  <2>. HAVE f[a] = f[b]
  <2>1. f[a] \in Nat /\ f[b] \in Nat
    BY <1>1, <1>3
  <2>2. ~Before(pos, a, b) /\ ~Before(pos, b, a)
    BY <1>2, <2>1, RanksDiffer
  <2>. QED
    BY <2>2, TotalOrder
<1>5. f \in Injection(ids, 0..(n - 1))
  BY <1>3, <1>4 DEF Injection, IsInjective
<1>6. IsFiniteSet(0..(n - 1)) /\ Cardinality(0..(n - 1)) = n
  <2>1. 0 \in Int /\ n - 1 \in Int
    BY <1>1
  <2>2. /\ IsFiniteSet(0..(n - 1))
        /\ Cardinality(0..(n - 1)) = IF 0 > n - 1 THEN 0 ELSE (n - 1) - 0 + 1
    BY <2>1, FS_Interval
  <2>. QED
    BY <2>2
<1>7. f \in Surjection(ids, 0..(n - 1))
  BY <1>1, <1>5, <1>6, FS_Injection
<1>8. i - 1 \in 0..(n - 1)
  BY <1>1
<1>9. \E a \in ids : f[a] = i - 1
  BY <1>7, <1>8 DEF Surjection
<1>. QED
  BY <1>2, <1>9

LEMMA SortedIs ==
  ASSUME NEW ids, NEW pos, Orderable(ids, pos)
  PROVE  IsOrder(Sorted(ids, pos), ids, pos)
<1>1. PICK n \in Nat : n = Cardinality(ids)
  BY FS_CardinalityType DEF Orderable
<1>2. PICK s : s = Sorted(ids, pos)
  OBVIOUS
<1>3. s = [i \in 1..n |-> CHOOSE a \in ids : Rank(ids, pos, a) = i - 1]
  BY <1>1, <1>2, SortedRanks
<1>4. \A i \in 1..n : s[i] \in ids /\ Rank(ids, pos, s[i]) = i - 1
  <2>. TAKE i \in 1..n
  <2>1. \E a \in ids : Rank(ids, pos, a) = i - 1
    BY <1>1, RanksAreTaken
  <2>2. s[i] = CHOOSE a \in ids : Rank(ids, pos, a) = i - 1
    BY <1>3
  <2>. QED
    BY <2>1, <2>2
<1>5. s \in [1..n -> ids]
  BY <1>3, <1>4
<1>6. ASSUME NEW i \in 1..n, NEW j \in 1..n, i < j PROVE Before(pos, s[i], s[j])
  <2>1. ~(Rank(ids, pos, s[j]) < Rank(ids, pos, s[i])) /\ s[i] # s[j]
    BY <1>4, <1>6
  <2>. QED
    BY <1>4, <2>1, RanksDiffer, TotalOrder
<1>7. ASSUME NEW a \in ids PROVE \E i \in 1..n : s[i] = a
  <2>1. PICK i \in 1..n : Rank(ids, pos, a) = i - 1
    <3>1. Rank(ids, pos, a) \in 0..(n - 1)
      BY <1>1, RankType
    <3>2. Rank(ids, pos, a) + 1 \in 1..n /\ Rank(ids, pos, a) = (Rank(ids, pos, a) + 1) - 1
      BY <3>1
    <3>. QED
      BY <3>2
  <2>2. Rank(ids, pos, s[i]) = i - 1 /\ s[i] \in ids
    BY <1>4
  <2>3. i - 1 \in Int
    OBVIOUS
  <2>4. ~Before(pos, a, s[i]) /\ ~Before(pos, s[i], a)
    BY <2>1, <2>2, <2>3, RanksDiffer
  <2>. QED
    BY <2>2, <2>4, TotalOrder
<1>. QED
  BY <1>1, <1>2, <1>5, <1>6, <1>7 DEF IsOrder

\* There is no other order.
LEMMA SortedIsOnly ==
  ASSUME NEW ids, NEW pos, Orderable(ids, pos), NEW s, IsOrder(s, ids, pos)
  PROVE  s = Sorted(ids, pos)
<1>1. PICK n \in Nat : n = Cardinality(ids)
  BY FS_CardinalityType DEF Orderable
<1>2. s \in [1..n -> ids] /\ \A i, j \in 1..n : i < j => Before(pos, s[i], s[j])
  BY <1>1 DEF IsOrder
<1>3. \A i, j \in 1..n : Before(pos, s[i], s[j]) => i < j
  <2>. TAKE i, j \in 1..n
  <2>. HAVE Before(pos, s[i], s[j])
  <2>1. s[i] \in ids /\ s[j] \in ids
    BY <1>2
  <2>2. i # j
    BY <2>1, TotalOrder
  <2>3. ~(j < i)
    BY <1>2, <2>1, TotalOrder
  <2>. QED
    BY <2>2, <2>3
<1>4. ASSUME NEW i \in 1..n PROVE Rank(ids, pos, s[i]) = i - 1
  <2>. DEFINE A == {b \in ids : Before(pos, b, s[i])}
              f == [j \in 1..(i - 1) |-> s[j]]
  <2>1. \A j \in 1..(i - 1) : j \in 1..n /\ j < i
    BY <1>1
  <2>2. f \in [1..(i - 1) -> A]
    BY <1>2, <2>1
  <2>3. \A j, k \in 1..(i - 1) : f[j] = f[k] => j = k
    <3>. TAKE j, k \in 1..(i - 1)
    <3>. HAVE f[j] = f[k]
    <3>1. s[j] = s[k] /\ s[j] \in ids /\ j \in 1..n /\ k \in 1..n
      BY <1>2, <2>1
    <3>2. ~(j < k) /\ ~(k < j)
      BY <1>2, <3>1, TotalOrder
    <3>. QED
      BY <3>2
  <2>4. ASSUME NEW b \in A PROVE \E j \in 1..(i - 1) : f[j] = b
    <3>1. PICK j \in 1..n : s[j] = b
      BY <1>1 DEF IsOrder
    <3>2. j < i
      BY <1>3, <3>1
    <3>3. j \in 1..(i - 1)
      BY <3>2
    <3>. QED
      BY <3>1, <3>3
  <2>. HIDE DEF A, f
  <2>5. f \in Bijection(1..(i - 1), A)
    BY <2>2, <2>3, <2>4 DEF Bijection, Injection, Surjection, IsInjective
  <2>6. i - 1 \in Nat
    OBVIOUS
  <2>7. Cardinality(A) = i - 1
    BY <2>5, <2>6, FS_CountingElements DEF ExistsBijection
  <2>. QED
    BY <2>7 DEF A, Rank
<1>5. ASSUME NEW i \in 1..n
      PROVE  (CHOOSE a \in ids : Rank(ids, pos, a) = i - 1) = s[i]
  <2>. DEFINE c == CHOOSE a \in ids : Rank(ids, pos, a) = i - 1
  <2>1. s[i] \in ids /\ Rank(ids, pos, s[i]) = i - 1
    BY <1>2, <1>4
  <2>2. c \in ids /\ Rank(ids, pos, c) = i - 1
    BY <2>1
  <2>. HIDE DEF c
  <2>3. i - 1 \in Int
    OBVIOUS
  <2>4. ~Before(pos, c, s[i]) /\ ~Before(pos, s[i], c)
    BY <2>1, <2>2, <2>3, RanksDiffer
  <2>5. c = s[i]
    BY <2>1, <2>2, <2>4, TotalOrder
  <2>. QED
    BY <2>5 DEF c
<1>6. PICK t : t = [i \in 1..n |-> CHOOSE a \in ids : Rank(ids, pos, a) = i - 1]
  OBVIOUS
<1>7. \A i \in 1..n : t[i] = s[i]
  BY <1>5, <1>6
<1>8. t = s
  BY <1>2, <1>6, <1>7
<1>. QED
  BY <1>1, <1>6, <1>8, SortedRanks

\* A finite set of numbers has a greatest one.
LEMMA GreatestIs ==
  ASSUME NEW S \in SUBSET Nat, IsFiniteSet(S), S # {}
  PROVE  Max(S) \in S /\ \A x \in S : x <= Max(S)
<1>1. PICK pos : pos = [x \in S |-> x]
  OBVIOUS
<1>2. Orderable(S, pos)
  BY <1>1 DEF Orderable
<1>3. PICK n \in Nat : n = Cardinality(S)
  BY FS_CardinalityType
<1>4. n \in 1..n
  BY <1>3, FS_EmptySet
<1>5. PICK s : IsOrder(s, S, pos)
  BY <1>2, SortedIs
<1>6. s[n] \in S
  BY <1>3, <1>4, <1>5 DEF IsOrder
<1>7. ASSUME NEW x \in S PROVE s[n] >= x
  <2>1. PICK i \in 1..n : s[i] = x
    BY <1>3, <1>5 DEF IsOrder
  <2>2. CASE i = n
    BY <1>6, <2>1, <2>2
  <2>3. CASE i # n
    <3>1. Before(pos, x, s[n])
      BY <1>3, <1>4, <1>5, <2>1, <2>3 DEF IsOrder
    <3>2. x \in Nat /\ s[n] \in Nat /\ pos[x] = x /\ pos[s[n]] = s[n]
      BY <1>1, <1>6
    <3>. QED
      BY <3>1, <3>2 DEF Before
  <2>. QED
    BY <2>2, <2>3
<1>8. \E x \in S : \A y \in S : x >= y
  BY <1>6, <1>7
<1>9. Max(S) \in S /\ \A y \in S : Max(S) >= y
  BY <1>8 DEF Max
<1>. QED
  BY <1>9

-----------------------------------------------------------------------------
(* Lists.                                                                  *)

List(n, T) == [1..n -> T]

Once(s, n) == \A i, j \in 1..n : s[i] = s[j] => i = j

Complete(s, n, T) == \A a \in T : \E i \in 1..n : s[i] = a

LEMMA ListLen ==
  ASSUME NEW n \in Nat, NEW T, NEW s \in List(n, T)
  PROVE  /\ s \in Seq(T) /\ Len(s) = n /\ DOMAIN s = 1..n
         /\ s \in [1..n -> T] /\ \A i \in 1..n : s[i] \in T
BY DEF List

\* The number that an id gets on a list is a place where it is, less one.
LEMMA NumberedIs ==
  ASSUME NEW n \in Nat, NEW T, NEW s \in List(n, T)
  PROVE  /\ DOMAIN Numbered(s) = ToSet(s)
         /\ \A i \in 1..n : /\ s[i] \in ToSet(s)
                            /\ Numbered(s)[s[i]] \in 0..(n - 1)
                            /\ s[Numbered(s)[s[i]] + 1] = s[i]
<1>1. Len(s) = n /\ ToSet(s) = {s[i] : i \in 1..n}
  BY ListLen DEF ToSet
<1>2. DOMAIN Numbered(s) = ToSet(s)
  BY DEF Numbered
<1>3. ASSUME NEW i \in 1..n
      PROVE  Numbered(s)[s[i]] \in 0..(n - 1) /\ s[Numbered(s)[s[i]] + 1] = s[i]
  <2>. DEFINE I == {j \in 1..Len(s) : s[j] = s[i]}
  <2>1. i \in I /\ I \in SUBSET (1..n) /\ I \in SUBSET Nat
    BY <1>1
  <2>2. IsFiniteSet(I)
    <3>1. IsFiniteSet(1..n)
      <4>1. 1 \in Int /\ n \in Int
        OBVIOUS
      <4>. QED
        BY <4>1, FS_Interval
    <3>. QED
      BY <2>1, <3>1, FS_Subset
  <2>3. Max(I) \in I
    BY <2>1, <2>2, GreatestIs
  <2>4. SelectLastInSeq(s, LAMBDA x : x = s[i]) = Max(I)
    BY <2>1 DEF SelectLastInSeq
  <2>5. s[i] \in ToSet(s)
    BY <1>1
  <2>6. Numbered(s)[s[i]] = Max(I) - 1
    BY <2>4, <2>5 DEF Numbered
  <2>7. Max(I) \in 1..n /\ s[Max(I)] = s[i]
    BY <2>1, <2>3
  <2>. HIDE DEF I
  <2>8. Max(I) - 1 \in 0..(n - 1) /\ (Max(I) - 1) + 1 = Max(I)
    BY <2>7
  <2>. QED
    BY <2>6, <2>7, <2>8
<1>. QED
  BY <1>1, <1>2, <1>3

LEMMA InsertAtIs ==
  ASSUME NEW n \in Nat, NEW T, NEW s \in List(n, T), NEW p \in 0..n, NEW x \in T
  PROVE  InsertAt(s, p + 1, x) =
           [i \in 1..(n + 1) |-> IF i <= p THEN s[i] ELSE IF i = p + 1 THEN x ELSE s[i - 1]]
<1>1. s \in Seq(T) /\ Len(s) = n
  BY ListLen
<1>2. PICK a : a = SubSeq(s, 1, p)
  OBVIOUS
<1>3. PICK b : b = SubSeq(s, p + 1, n)
  OBVIOUS
<1>4. a \in Seq(T) /\ Len(a) = p /\ \A i \in 1..p : a[i] = s[i]
  BY <1>1, <1>2, SubSeqProperties
<1>5. b \in Seq(T) /\ Len(b) = n - p /\ \A i \in 1..(n - p) : b[i] = s[p + i]
  BY <1>1, <1>3, SubSeqProperties
<1>6. PICK c : c = a \o <<x>>
  OBVIOUS
<1>7. <<x>> \in Seq(T) /\ Len(<<x>>) = 1 /\ <<x>>[1] = x
  OBVIOUS
<1>8. /\ c \in Seq(T) /\ Len(c) = p + 1 /\ c[p + 1] = x
      /\ \A i \in 1..p : c[i] = s[i]
  <2>1. /\ c \in Seq(T) /\ Len(c) = Len(a) + Len(<<x>>)
        /\ \A i \in 1..(Len(a) + Len(<<x>>)) :
             c[i] = IF i <= Len(a) THEN a[i] ELSE <<x>>[i - Len(a)]
    BY <1>4, <1>6, <1>7, ConcatProperties
  <2>2. Len(a) + Len(<<x>>) = p + 1 /\ (p + 1) - Len(a) = 1 /\ p + 1 \in 1..(p + 1)
        /\ ~(p + 1 <= Len(a))
    BY <1>4, <1>7
  <2>3. c[p + 1] = <<x>>[(p + 1) - Len(a)]
    BY <2>1, <2>2
  <2>4. \A i \in 1..p : c[i] = a[i]
    BY <1>4, <2>1, <2>2
  <2>. QED
    BY <1>4, <1>7, <2>1, <2>2, <2>3, <2>4
<1>9. PICK d : d = c \o b
  OBVIOUS
<1>10. /\ d \in Seq(T) /\ Len(d) = n + 1
       /\ \A i \in 1..(p + 1) : d[i] = c[i]
       /\ \A i \in (p + 2)..(n + 1) : d[i] = s[i - 1]
  <2>1. /\ d \in Seq(T) /\ Len(d) = Len(c) + Len(b)
        /\ \A i \in 1..(Len(c) + Len(b)) : d[i] = IF i <= Len(c) THEN c[i] ELSE b[i - Len(c)]
    BY <1>5, <1>8, <1>9, ConcatProperties
  <2>2. Len(c) + Len(b) = n + 1
    BY <1>5, <1>8
  <2>3. ASSUME NEW i \in (p + 2)..(n + 1) PROVE d[i] = s[i - 1]
    <3>1. i \in 1..(n + 1) /\ ~(i <= p + 1) /\ i - (p + 1) \in 1..(n - p)
          /\ p + (i - (p + 1)) = i - 1
      OBVIOUS
    <3>2. d[i] = b[i - (p + 1)]
      BY <1>8, <2>1, <2>2, <3>1
    <3>. QED
      BY <1>5, <3>1, <3>2
  <2>4. \A i \in 1..(p + 1) : d[i] = c[i]
    BY <1>8, <2>1, <2>2
  <2>. QED
    BY <2>1, <2>2, <2>3, <2>4
<1>11. d = InsertAt(s, p + 1, x)
  <2>1. (p + 1) - 1 = p
    OBVIOUS
  <2>. QED
    BY <1>1, <1>2, <1>3, <1>6, <1>9, <2>1 DEF InsertAt
<1>12. PICK e : e = [i \in 1..(n + 1) |->
                       IF i <= p THEN s[i] ELSE IF i = p + 1 THEN x ELSE s[i - 1]]
  OBVIOUS
<1>13. DOMAIN d = 1..(n + 1) /\ d = [i \in 1..(n + 1) |-> d[i]]
  BY <1>10, LenProperties
<1>14. \A i \in 1..(n + 1) : d[i] = e[i]
  <2>. TAKE i \in 1..(n + 1)
  <2>1. CASE i <= p
    BY <1>8, <1>10, <1>12, <2>1
  <2>2. CASE i = p + 1
    BY <1>8, <1>10, <1>12, <2>2
  <2>3. CASE i > p + 1
    <3>1. i \in (p + 2)..(n + 1) /\ ~(i <= p) /\ i # p + 1
      BY <2>3
    <3>. QED
      BY <1>10, <1>12, <3>1
  <2>. QED
    BY <2>1, <2>2, <2>3
<1>. QED
  BY <1>11, <1>12, <1>13, <1>14

LEMMA InsertedHas ==
  ASSUME NEW n \in Nat, NEW T, NEW s \in List(n, T), NEW p \in 0..n, NEW x \in T,
         NEW t, t = InsertAt(s, p + 1, x)
  PROVE  /\ t[p + 1] = x
         /\ \A i \in 1..p : t[i] = s[i]
         /\ \A i \in (p + 2)..(n + 1) : t[i] = s[i - 1]
<1>1. t = [i \in 1..(n + 1) |-> IF i <= p THEN s[i] ELSE IF i = p + 1 THEN x ELSE s[i - 1]]
  BY InsertAtIs
<1>. QED
  BY <1>1

LEMMA RemoveFirstIs ==
  ASSUME NEW n \in Nat, NEW T, NEW s \in List(n, T), NEW k \in 1..n,
         Once(s, n)
  PROVE  RemoveFirst(s, s[k]) = [i \in 1..(n - 1) |-> IF i < k THEN s[i] ELSE s[i + 1]]
<1>1. s \in Seq(T) /\ Len(s) = n /\ \A i \in 1..n : s[i] \in T
  BY ListLen
<1>2. PICK I : I = {j \in 1..Len(s) : s[j] = s[k]}
  OBVIOUS
<1>3. I = {k} /\ k \in Nat
  BY <1>1, <1>2 DEF Once
<1>4. Min(I) = k
  BY <1>3 DEF Min
<1>5. SelectInSeq(s, LAMBDA v : v = s[k]) = Min(I)
  BY <1>2, <1>3 DEF SelectInSeq
<1>6. RemoveFirst(s, s[k]) = RemoveAt(s, k)
  <2>1. \E i \in 1..Len(s) : s[i] = s[k]
    BY <1>1
  <2>. QED
    BY <1>4, <1>5, <2>1 DEF RemoveFirst
<1>7. PICK a : a = SubSeq(s, 1, k - 1)
  OBVIOUS
<1>8. PICK b : b = SubSeq(s, k + 1, n)
  OBVIOUS
<1>9. a \in Seq(T) /\ Len(a) = k - 1 /\ \A i \in 1..(k - 1) : a[i] = s[i]
  <2>1. 1 \in Int /\ k - 1 \in Int /\ \A i \in 1..(k - 1) : s[i] \in T
    BY <1>1
  <2>2. /\ a \in Seq(T) /\ Len(a) = IF 1 <= k - 1 THEN (k - 1) - 1 + 1 ELSE 0
        /\ \A i \in 1..((k - 1) - 1 + 1) : a[i] = s[1 + i - 1]
    BY <1>7, <2>1, SubSeqProperties
  <2>. QED
    BY <2>2
<1>10. b \in Seq(T) /\ Len(b) = n - k /\ \A i \in 1..(n - k) : b[i] = s[k + i]
  <2>1. k + 1 \in Int /\ n \in Int /\ \A i \in (k + 1)..n : s[i] \in T
    BY <1>1
  <2>2. /\ b \in Seq(T) /\ Len(b) = IF k + 1 <= n THEN n - (k + 1) + 1 ELSE 0
        /\ \A i \in 1..(n - (k + 1) + 1) : b[i] = s[(k + 1) + i - 1]
    BY <1>8, <2>1, SubSeqProperties
  <2>3. n - (k + 1) + 1 = n - k /\ \A i \in 1..(n - k) : (k + 1) + i - 1 = k + i
    OBVIOUS
  <2>. QED
    BY <2>2, <2>3
<1>11. PICK d : d = a \o b
  OBVIOUS
<1>12. d = RemoveAt(s, k)
  BY <1>1, <1>7, <1>8, <1>11 DEF RemoveAt
<1>13. /\ d \in Seq(T) /\ Len(d) = Len(a) + Len(b)
       /\ \A i \in 1..(Len(a) + Len(b)) : d[i] = IF i <= Len(a) THEN a[i] ELSE b[i - Len(a)]
  <2>1. a \in Seq(T) /\ b \in Seq(T)
    BY <1>9, <1>10
  <2>. QED
    BY <1>11, <2>1, ConcatProperties
<1>14. Len(a) + Len(b) = n - 1
  BY <1>9, <1>10
<1>15. PICK e : e = [i \in 1..(n - 1) |-> IF i < k THEN s[i] ELSE s[i + 1]]
  OBVIOUS
<1>16. DOMAIN d = 1..(n - 1) /\ d = [i \in 1..(n - 1) |-> d[i]]
  BY <1>13, <1>14, LenProperties
<1>17. \A i \in 1..(n - 1) : d[i] = e[i]
  <2>. TAKE i \in 1..(n - 1)
  <2>1. CASE i < k
    <3>1. i \in 1..(k - 1) /\ i <= Len(a)
      BY <1>9, <2>1
    <3>. QED
      BY <1>9, <1>13, <1>14, <1>15, <2>1, <3>1
  <2>2. CASE ~(i < k)
    <3>1. i - Len(a) \in 1..(n - k) /\ k + (i - Len(a)) = i + 1 /\ ~(i <= Len(a))
      BY <1>9, <2>2
    <3>2. d[i] = b[i - Len(a)]
      BY <1>13, <1>14, <3>1
    <3>. QED
      BY <1>10, <1>15, <2>2, <3>1, <3>2
  <2>. QED
    BY <2>1, <2>2
<1>. QED
  BY <1>6, <1>12, <1>15, <1>16, <1>17

LEMMA NothingToRemove ==
  ASSUME NEW n \in Nat, NEW T, NEW s \in List(n, T), NEW x, \A i \in 1..n : s[i] # x
  PROVE  RemoveFirst(s, x) = s
<1>1. Len(s) = n
  BY ListLen
<1>. QED
  BY <1>1 DEF RemoveFirst

-----------------------------------------------------------------------------
(* What the steps do to the rows in order.                                 *)

LEMMA OrderIsOnce ==
  ASSUME NEW ids, NEW pos, Orderable(ids, pos), NEW s, IsOrder(s, ids, pos),
         NEW n \in Nat, n = Cardinality(ids)
  PROVE  /\ s \in List(n, ids) /\ Complete(s, n, ids) /\ Once(s, n)
         /\ Len(s) = n /\ ToSet(s) = ids
<1>1. /\ s \in List(n, ids) /\ Complete(s, n, ids) /\ \A i \in 1..n : s[i] \in ids
      /\ \A i, j \in 1..n : i < j => Before(pos, s[i], s[j])
  BY DEF IsOrder, List, Complete
<1>2. Once(s, n)
  <2>1. ASSUME NEW i \in 1..n, NEW j \in 1..n, s[i] = s[j] PROVE i = j
    <3>1. ~(i < j) /\ ~(j < i)
      BY <1>1, <2>1, TotalOrder
    <3>. QED
      BY <3>1
  <2>. QED
    BY <2>1 DEF Once
<1>3. Len(s) = n /\ DOMAIN s = 1..n
  BY <1>1, ListLen
<1>4. ToSet(s) = ids
  BY <1>1, <1>3 DEF ToSet, Complete
<1>. QED
  BY <1>1, <1>2, <1>3, <1>4

\* The rows stay in order as long as their positions compare as they did.
LEMMA SameOrder ==
  ASSUME NEW ids, NEW pos, NEW pos2, Orderable(ids, pos), Orderable(ids, pos2),
         \A a \in ids : pos2[a] = pos[a]
  PROVE  Sorted(ids, pos2) = Sorted(ids, pos)
<1>1. PICK s : s = Sorted(ids, pos)
  OBVIOUS
<1>2. IsOrder(s, ids, pos)
  BY <1>1, SortedIs
<1>3. IsOrder(s, ids, pos2)
  BY <1>2 DEF IsOrder, Before
<1>. QED
  BY <1>1, <1>3, SortedIsOnly

\* A list of the rows, and their positions numbered down the list.
LEMMA NumberedInOrder ==
  ASSUME NEW ids, NEW pos, Orderable(ids, pos), NEW n \in Nat, n = Cardinality(ids),
         NEW s \in List(n, ids), Complete(s, n, ids),
         \A i \in 1..n : pos[s[i]] = i - 1
  PROVE  Sorted(ids, pos) = s
<1>1. IsOrder(s, ids, pos)
  BY DEF IsOrder, Before, List, Complete
<1>. QED
  BY <1>1, SortedIsOnly

LEMMA NumberedOnce ==
  ASSUME NEW n \in Nat, NEW T, NEW s \in List(n, T), Once(s, n)
  PROVE  \A i \in 1..n : Numbered(s)[s[i]] = i - 1
<1>. TAKE i \in 1..n
<1>1. PICK k : k = Numbered(s)[s[i]]
  OBVIOUS
<1>2. k \in 0..(n - 1) /\ s[k + 1] = s[i]
  BY <1>1, NumberedIs
<1>3. k + 1 \in 1..n
  BY <1>2
<1>4. k + 1 = i
  BY <1>2, <1>3 DEF Once
<1>. QED
  BY <1>1, <1>2, <1>4

\* One row less.
LEMMA OrderWithout ==
  ASSUME NEW ids, NEW pos, Orderable(ids, pos), NEW x
  PROVE  Sorted(ids \ {x}, pos) = RemoveFirst(Sorted(ids, pos), x)
<1>1. PICK n \in Nat : n = Cardinality(ids)
  BY FS_CardinalityType DEF Orderable
<1>2. PICK s : s = Sorted(ids, pos)
  OBVIOUS
<1>3. IsOrder(s, ids, pos)
  BY <1>2, SortedIs
<1>4. s \in List(n, ids) /\ Complete(s, n, ids) /\ Once(s, n)
  BY <1>1, <1>3, OrderIsOnce
<1>9. /\ \A i \in 1..n : s[i] \in ids
      /\ \A i, j \in 1..n : i < j => Before(pos, s[i], s[j])
  BY <1>1, <1>3 DEF IsOrder
<1>5. CASE x \notin ids
  <2>1. ids \ {x} = ids /\ \A i \in 1..n : s[i] # x
    BY <1>5, <1>9
  <2>2. RemoveFirst(s, x) = s
    BY <1>4, <2>1, NothingToRemove
  <2>. QED
    BY <1>2, <2>1, <2>2
<1>6. CASE x \in ids
  <2>1. PICK k \in 1..n : s[k] = x
    BY <1>4, <1>6 DEF Complete
  <2>2. PICK d : d = [i \in 1..(n - 1) |-> IF i < k THEN s[i] ELSE s[i + 1]]
    OBVIOUS
  <2>3. d = RemoveFirst(s, x)
    BY <1>4, <2>1, <2>2, RemoveFirstIs
  <2>4. Orderable(ids \ {x}, pos) /\ Cardinality(ids \ {x}) = n - 1
    BY <1>1, <1>6, FS_RemoveElement DEF Orderable
  <2>5. d \in [1..(n - 1) -> ids \ {x}]
    <3>1. ASSUME NEW i \in 1..(n - 1) PROVE d[i] \in ids \ {x}
      <4>1. i \in 1..n /\ i + 1 \in 1..n
        OBVIOUS
      <4>2. CASE i < k
        <5>1. d[i] = s[i] /\ i # k
          BY <2>2, <4>2
        <5>. QED
          BY <1>4, <1>9, <2>1, <4>1, <5>1 DEF Once
      <4>3. CASE ~(i < k)
        <5>1. d[i] = s[i + 1] /\ i + 1 # k
          BY <2>2, <4>3
        <5>. QED
          BY <1>4, <1>9, <2>1, <4>1, <5>1 DEF Once
      <4>. QED
        BY <4>2, <4>3
    <3>. QED
      BY <2>2, <3>1
  <2>6. ASSUME NEW a \in ids \ {x} PROVE \E i \in 1..(n - 1) : d[i] = a
    <3>1. PICK i \in 1..n : s[i] = a
      BY <1>4 DEF Complete
    <3>2. i # k
      BY <2>1, <3>1
    <3>3. CASE i < k
      <4>1. i \in 1..(n - 1)
        BY <3>3
      <4>. QED
        BY <2>2, <3>1, <3>3, <4>1
    <3>4. CASE i > k
      <4>1. i - 1 \in 1..(n - 1) /\ ~(i - 1 < k) /\ (i - 1) + 1 = i
        BY <3>4
      <4>. QED
        BY <2>2, <3>1, <4>1
    <3>. QED
      BY <3>2, <3>3, <3>4
  <2>7. ASSUME NEW i \in 1..(n - 1), NEW j \in 1..(n - 1), i < j
        PROVE  Before(pos, d[i], d[j])
    <3>1. PICK p \in 1..n : d[i] = s[p] /\ (p = i \/ p = i + 1) /\ (i < k <=> p = i)
      <4>1. i \in 1..n /\ i + 1 \in 1..n /\ i # i + 1
        OBVIOUS
      <4>. QED
        BY <2>2, <4>1
    <3>2. PICK q \in 1..n : d[j] = s[q] /\ (q = j \/ q = j + 1) /\ (j < k <=> q = j)
      <4>1. j \in 1..n /\ j + 1 \in 1..n /\ j # j + 1
        OBVIOUS
      <4>. QED
        BY <2>2, <4>1
    <3>3. p < q
      BY <2>7, <3>1, <3>2
    <3>. QED
      BY <1>9, <3>1, <3>2, <3>3
  <2>8. IsOrder(d, ids \ {x}, pos)
    BY <2>4, <2>5, <2>6, <2>7 DEF IsOrder
  <2>. QED
    BY <1>2, <2>3, <2>4, <2>8, SortedIsOnly
<1>. QED
  BY <1>5, <1>6

\* One row more, behind the others.
LEMMA OrderAppend ==
  ASSUME NEW ids, NEW pos, NEW x, x \notin ids, Orderable(ids \cup {x}, pos),
         \A a \in ids : Before(pos, a, x)
  PROVE  Sorted(ids \cup {x}, pos) = Append(Sorted(ids, pos), x)
<1>1. Orderable(ids, pos)
  <2>1. ids \in SUBSET (ids \cup {x})
    OBVIOUS
  <2>. QED
    BY <2>1, FS_Subset DEF Orderable
<1>2. PICK n \in Nat : n = Cardinality(ids)
  BY <1>1, FS_CardinalityType DEF Orderable
<1>3. PICK s : s = Sorted(ids, pos)
  OBVIOUS
<1>4. s \in List(n, ids) /\ Complete(s, n, ids) /\ \A i \in 1..n : s[i] \in ids
  BY <1>1, <1>2, <1>3, SortedIs DEF IsOrder, List, Complete
<1>5. \A i, j \in 1..n : i < j => Before(pos, s[i], s[j])
  BY <1>1, <1>2, <1>3, SortedIs DEF IsOrder
<1>6. Cardinality(ids \cup {x}) = n + 1
  BY <1>1, <1>2, FS_AddElement DEF Orderable
<1>7. PICK d : d = Append(s, x)
  OBVIOUS
<1>8. /\ d \in Seq(ids \cup {x}) /\ Len(d) = n + 1 /\ d[n + 1] = x
      /\ \A i \in 1..n : d[i] = s[i]
  <2>1. s \in Seq(ids \cup {x}) /\ Len(s) = n
    <3>1. s \in List(n, ids \cup {x})
      BY <1>4 DEF List
    <3>. QED
      BY <3>1, ListLen
  <2>2. x \in ids \cup {x}
    OBVIOUS
  <2>. QED
    BY <1>7, <2>1, <2>2, AppendProperties
<1>9. d \in [1..(n + 1) -> ids \cup {x}]
  BY <1>8, LenProperties
<1>10. ASSUME NEW a \in ids \cup {x} PROVE \E i \in 1..(n + 1) : d[i] = a
  <2>1. CASE a = x
    <3>1. n + 1 \in 1..(n + 1)
      OBVIOUS
    <3>. QED
      BY <1>8, <2>1, <3>1
  <2>2. CASE a # x
    <3>1. PICK i \in 1..n : s[i] = a
      BY <1>4, <2>2 DEF Complete
    <3>2. i \in 1..(n + 1)
      OBVIOUS
    <3>. QED
      BY <1>8, <3>1, <3>2
  <2>. QED
    BY <2>1, <2>2
<1>11. ASSUME NEW i \in 1..(n + 1), NEW j \in 1..(n + 1), i < j
       PROVE  Before(pos, d[i], d[j])
  <2>1. i \in 1..n /\ d[i] = s[i] /\ s[i] \in ids
    BY <1>4, <1>8, <1>11
  <2>2. CASE j = n + 1
    BY <1>8, <2>1, <2>2
  <2>3. CASE j # n + 1
    <3>1. j \in 1..n
      BY <2>3
    <3>. QED
      BY <1>5, <1>8, <1>11, <2>1, <3>1
  <2>. QED
    BY <2>2, <2>3
<1>12. IsOrder(d, ids \cup {x}, pos)
  BY <1>6, <1>9, <1>10, <1>11 DEF IsOrder
<1>. QED
  BY <1>3, <1>7, <1>12, SortedIsOnly

\* One row more, written where it was asked for: see Enter.
LEMMA OrderInsert ==
  ASSUME NEW ids, NEW x, x \notin ids, NEW pos2, Orderable(ids \cup {x}, pos2),
         NEW n \in Nat, n = Cardinality(ids), NEW p \in 0..n,
         NEW s \in List(n, ids), Complete(s, n, ids),
         Once(s, n),
         \A a \in ids \cup {x} : pos2[a] = Numbered(InsertAt(s, p + 1, x))[a]
  PROVE  Sorted(ids \cup {x}, pos2) = InsertAt(s, p + 1, x)
<1>1. PICK t : t = InsertAt(s, p + 1, x)
  OBVIOUS
<1>2. t = [i \in 1..(n + 1) |-> IF i <= p THEN s[i] ELSE IF i = p + 1 THEN x ELSE s[i - 1]]
  <2>1. PICK T : T = ids \cup {x}
    OBVIOUS
  <2>2. s \in List(n, T) /\ x \in T
    BY <2>1 DEF List
  <2>. QED
    BY <1>1, <2>2, InsertAtIs
<1>3. \A i \in 1..(n + 1) :
        \/ i <= p /\ i \in 1..n /\ t[i] = s[i]
        \/ i = p + 1 /\ t[i] = x
        \/ i > p + 1 /\ i - 1 \in 1..n /\ t[i] = s[i - 1]
  <2>. TAKE i \in 1..(n + 1)
  <2>1. CASE i <= p
    BY <1>2, <2>1
  <2>2. CASE i = p + 1
    BY <1>2, <2>2
  <2>3. CASE i > p + 1
    BY <1>2, <2>3
  <2>. QED
    BY <2>1, <2>2, <2>3
<1>10. \A k \in 1..n : s[k] \in ids /\ s[k] # x
  BY ListLen
<1>4. t \in List(n + 1, ids \cup {x})
  BY <1>2, <1>3, <1>10 DEF List
<1>5. ASSUME NEW i \in 1..(n + 1), NEW j \in 1..(n + 1), t[i] = t[j] PROVE i = j
  <2>1. \A k \in 1..n : s[k] # x
    BY <1>10
  <2>2. CASE i = p + 1
    BY <1>3, <1>5, <2>1, <2>2
  <2>3. CASE j = p + 1
    BY <1>3, <1>5, <2>1, <2>3
  <2>4. CASE i # p + 1 /\ j # p + 1
    <3>1. PICK k \in 1..n : t[i] = s[k] /\ (i <= p => k = i) /\ (i > p + 1 => k = i - 1)
      BY <1>3, <2>4
    <3>2. PICK l \in 1..n : t[j] = s[l] /\ (j <= p => l = j) /\ (j > p + 1 => l = j - 1)
      BY <1>3, <2>4
    <3>3. k = l
      BY <1>5, <3>1, <3>2 DEF Once
    <3>. QED
      BY <2>4, <3>1, <3>2, <3>3
  <2>. QED
    BY <2>2, <2>3, <2>4
<1>6. ASSUME NEW a \in ids \cup {x} PROVE \E i \in 1..(n + 1) : t[i] = a
  <2>1. CASE a = x
    <3>1. p + 1 \in 1..(n + 1)
      OBVIOUS
    <3>. QED
      BY <1>3, <2>1, <3>1
  <2>2. CASE a # x
    <3>1. PICK k \in 1..n : s[k] = a
      BY <2>2 DEF Complete
    <3>2. CASE k <= p
      <4>1. k \in 1..(n + 1)
        OBVIOUS
      <4>. QED
        BY <1>2, <3>1, <3>2, <4>1
    <3>3. CASE k > p
      <4>1. k + 1 \in 1..(n + 1) /\ ~(k + 1 <= p) /\ k + 1 # p + 1 /\ (k + 1) - 1 = k
        BY <3>3
      <4>. QED
        BY <1>2, <3>1, <4>1
    <3>. QED
      BY <3>2, <3>3
  <2>. QED
    BY <2>1, <2>2
<1>7. \A i \in 1..(n + 1) : pos2[t[i]] = i - 1
  <2>1. n + 1 \in Nat
    OBVIOUS
  <2>2. \A i \in 1..(n + 1) : Numbered(t)[t[i]] = i - 1
    <3>1. Once(t, n + 1)
      BY <1>5 DEF Once
    <3>. QED
      BY <1>4, <2>1, <3>1, NumberedOnce
  <2>3. \A i \in 1..(n + 1) : t[i] \in ids \cup {x}
    BY <1>3, <1>10
  <2>. QED
    BY <1>1, <2>2, <2>3
<1>8. Cardinality(ids \cup {x}) = n + 1
  <2>1. IsFiniteSet(ids)
    <3>1. ids \in SUBSET (ids \cup {x})
      OBVIOUS
    <3>. QED
      BY <3>1, FS_Subset DEF Orderable
  <2>. QED
    BY <2>1, FS_AddElement
<1>9. Complete(t, n + 1, ids \cup {x}) /\ n + 1 \in Nat
  BY <1>6 DEF Complete
<1>. QED
  BY <1>1, <1>4, <1>7, <1>8, <1>9, NumberedInOrder

-----------------------------------------------------------------------------
(* What a request that goes on knows.                                      *)

LEMMA CreateColumnReads ==
  ASSUME NEW r, CreateColumn(r)
  PROVE  \E s, taken :
           /\ taken = {place[k] : k \in columns}
           /\ req' = [req EXCEPT ![r] = s] /\ s.at = "insert column"
           /\ columns = {} => s.place = 0
           /\ columns # {} => s.place = 1 + Max(taken)
<1>1. PICK taken : taken = {place[k] : k \in columns}
  OBVIOUS
<1>2. PICK s : s = [at |-> "insert column",
                    place |-> IF columns = {} THEN 0 ELSE 1 + Max(taken)]
  OBVIOUS
<1>3. req' = [req EXCEPT ![r] = s]
  BY <1>1, <1>2 DEF CreateColumn, Goto
<1>4. s.at = "insert column"
  BY <1>2
<1>5. columns = {} => s.place = 0
  BY <1>2
<1>6. columns # {} => s.place = 1 + Max(taken)
  BY <1>2
<1>. QED
  BY <1>1, <1>3, <1>4, <1>5, <1>6

LEMMA DeleteColumnReads ==
  ASSUME NEW r, NEW k, DeleteColumn(r, k)
  PROVE  \E s : /\ req' = [req EXCEPT ![r] = s] /\ s.at = "count columns" /\ s.column = k
<1>1. PICK s : s = [at |-> "count columns", column |-> k]
  OBVIOUS
<1>2. req' = [req EXCEPT ![r] = s]
  BY <1>1 DEF DeleteColumn, Goto
<1>3. s.at = "count columns" /\ s.column = k
  BY <1>1
<1>. QED
  BY <1>2, <1>3

LEMMA CountColumnsReads ==
  ASSUME NEW r, CountColumns(r)
  PROVE  \/ req' = [req EXCEPT ![r] = Idle]
         \/ \E s : /\ req' = [req EXCEPT ![r] = s] /\ s.at = "delete"
                   /\ s.column = req[r].column /\ Cardinality(columns) > 1
<1>1. PICK s : s = [at |-> "delete", column |-> req[r].column]
  OBVIOUS
<1>2. CASE Cardinality(columns) > 1
  <2>1. req' = [req EXCEPT ![r] = s]
    BY <1>1, <1>2 DEF CountColumns, Goto
  <2>. QED
    BY <1>1, <1>2, <2>1
<1>3. CASE ~(Cardinality(columns) > 1)
  BY <1>3 DEF CountColumns, Goto
<1>. QED
  BY <1>2, <1>3

LEMMA DeleteRowReads ==
  ASSUME NEW r, DeleteRow(r)
  PROVE  \E s : /\ req' = [req EXCEPT ![r] = s] /\ s.at = "reindex"
                /\ s.column = req[r].column
                /\ s.order = Sorted(columns \ {req[r].column}, place)
<1>1. PICK s : s = [at |-> "reindex", column |-> req[r].column,
                    order |-> Sorted(columns \ {req[r].column}, place)]
  OBVIOUS
<1>2. req' = [req EXCEPT ![r] = s]
  BY <1>1 DEF DeleteRow, Goto
<1>3. /\ s.at = "reindex" /\ s.column = req[r].column
      /\ s.order = Sorted(columns \ {req[r].column}, place)
  BY <1>1
<1>. QED
  BY <1>2, <1>3

LEMMA ReorderColumnsReads ==
  ASSUME NEW r, ReorderColumns(r)
  PROVE  \E s : /\ req' = [req EXCEPT ![r] = s] /\ s.at = "reorder"
                /\ s.order \in SetToAllKPermutations(columns)
<1>1. PICK order \in SetToAllKPermutations(columns) :
        req' = [req EXCEPT ![r] = [at |-> "reorder", order |-> order]]
  BY DEF ReorderColumns, Goto
<1>2. PICK s : s = [at |-> "reorder", order |-> order]
  OBVIOUS
<1>3. req' = [req EXCEPT ![r] = s]
  BY <1>1, <1>2
<1>4. s.at = "reorder" /\ s.order \in SetToAllKPermutations(columns)
  BY <1>1, <1>2
<1>. QED
  BY <1>3, <1>4

LEMMA CreateCardReads ==
  ASSUME NEW r, NEW k, CreateCard(r, k)
  PROVE  \E s : /\ req' = [req EXCEPT ![r] = s] /\ s.at = "insert card" /\ s.column = k
                /\ s.position = Cardinality(CardsIn(k)) /\ (s.isDone <=> k \in done)
<1>1. PICK s : s = [at |-> "insert card", column |-> k,
                    position |-> Cardinality(CardsIn(k)), isDone |-> k \in done]
  OBVIOUS
<1>2. req' = [req EXCEPT ![r] = s]
  BY <1>1 DEF CreateCard, Goto
<1>3. /\ s.at = "insert card" /\ s.column = k
      /\ s.position = Cardinality(CardsIn(k)) /\ (s.isDone <=> k \in done)
  BY <1>1
<1>. QED
  BY <1>2, <1>3

LEMMA MoveCardReads ==
  ASSUME NEW r, NEW c, NEW base, NEW to, NEW n, MoveCard(r, c, base, to, n)
  PROVE  \E s, others :
           /\ others = CardsIn(column[c]) \ {c}
           /\ req' = [req EXCEPT ![r] = s] /\ s.at = "leave"
           /\ s.card = c /\ s.from = column[c] /\ s.to = to /\ s.asked = n
           /\ (s.isDone <=> to \in done) /\ s.left = Sorted(others, position)
<1>1. PICK others : others = CardsIn(column[c]) \ {c}
  OBVIOUS
<1>2. PICK s : s = [at |-> "leave", card |-> c, base |-> base, from |-> column[c],
                    to |-> to, asked |-> n, isDone |-> to \in done,
                    left |-> Sorted(others, position)]
  OBVIOUS
<1>3. req' = [req EXCEPT ![r] = s]
  BY <1>1, <1>2 DEF MoveCard, Goto
<1>4. /\ s.at = "leave" /\ s.card = c /\ s.from = column[c] /\ s.to = to /\ s.asked = n
      /\ (s.isDone <=> to \in done) /\ s.left = Sorted(others, position)
  BY <1>2
<1>. QED
  BY <1>1, <1>3, <1>4

LEMMA LeaveReads ==
  ASSUME NEW r, Leave(r)
  PROVE  \E s, w, ids :
           /\ w = Numbered(req[r].left)
           /\ ids = Sorted(CardsIn(req[r].to), Written(position, w, CardIds))
           /\ req' = [req EXCEPT ![r] = s] /\ s.at = "enter"
           /\ s.card = req[r].card /\ s.from = req[r].from /\ s.to = req[r].to
           /\ s.asked = req[r].asked /\ (s.isDone <=> req[r].isDone)
           /\ s.writes = w /\ s.ids = ids /\ s.position = Min({req[r].asked, Len(ids)})
<1>1. PICK w : w = Numbered(req[r].left)
  OBVIOUS
<1>2. PICK ids : ids = Sorted(CardsIn(req[r].to), Written(position, w, CardIds))
  OBVIOUS
<1>3. PICK s : s = [at |-> "enter", card |-> req[r].card, base |-> req[r].base,
                    from |-> req[r].from, to |-> req[r].to, asked |-> req[r].asked,
                    isDone |-> req[r].isDone, writes |-> w,
                    position |-> Min({req[r].asked, Len(ids)}), ids |-> ids]
  OBVIOUS
<1>4. req' = [req EXCEPT ![r] = s]
  BY <1>1, <1>2, <1>3 DEF Leave
<1>5. /\ s.at = "enter"
      /\ s.card = req[r].card /\ s.from = req[r].from /\ s.to = req[r].to
      /\ s.asked = req[r].asked /\ (s.isDone <=> req[r].isDone)
      /\ s.writes = w /\ s.ids = ids /\ s.position = Min({req[r].asked, Len(ids)})
  BY <1>3
<1>. QED
  BY <1>1, <1>2, <1>4, <1>5

-----------------------------------------------------------------------------
(* The types of the rows, and of what a request has read.                  *)

RowsInv ==
  /\ done \subseteq columns /\ \A k \in columns : k < nextColumn
  /\ place \in [ColumnIds -> Nat] /\ position \in [CardIds -> Nat]
  /\ completed \subseteq CardIds
  /\ nextColumn \in 4..(MaxColumns + 1) /\ nextCard \in 1..(MaxCards + 1)
  /\ load \in Workloads
  /\ \A c \in CardIds : version[c] <= MaxVersion

Typed(q) ==
  /\ q.at = "insert column" => q.place \in Nat
  /\ q.at = "insert card" => q.position \in Nat
  /\ q.at \in {"reindex", "reorder"} => \E n \in Nat : q.order \in List(n, ColumnIds)
  /\ q.at = "leave" => q.asked \in Nat /\ \E n \in Nat : q.left \in List(n, CardIds)
  /\ q.at = "enter" =>
       /\ \A c \in DOMAIN q.writes : q.writes[c] \in Nat
       /\ \E n \in Nat : q.ids \in List(n, CardIds) /\ q.position \in 0..n

AllTyped == \A r \in Requests : Typed(req[r])

\* Who does anything is one of the workload's.
OnlyAsked == \A r \in Requests : req[r] # Idle => r \in load.requests

TInv == RowsInv /\ AllTyped /\ OnlyAsked

LEMMA Numbers ==
  /\ \A k \in ColumnIds : k \in Nat /\ k # 0
  /\ \A c \in CardIds : c \in Nat /\ c # 0
  /\ MaxCards \in Nat /\ MaxColumns \in Nat /\ MaxVersion \in Nat
BY BoardPgAssumption DEF BoardPgAssumption, ColumnIds, CardIds

LEMMA TheBounds ==
  ASSUME load \in Workloads
  PROVE  /\ load.cards \in 0..MaxCards /\ load.versions \in Nat
         /\ 1 <= load.versions /\ load.versions <= MaxVersion
BY BoardPgAssumption DEF BoardPgAssumption, BoardWorkload

LEMMA ColumnsOrderable ==
  ASSUME place \in [ColumnIds -> Nat], NEW ids \in SUBSET ColumnIds
  PROVE  Orderable(ids, place)
<1>1. IsFiniteSet(ColumnIds)
  <2>1. 1 \in Int /\ MaxColumns \in Int
    BY Numbers
  <2>. QED
    BY <2>1, FS_Interval DEF ColumnIds
<1>2. IsFiniteSet(ids)
  BY <1>1, FS_Subset
<1>. QED
  BY <1>2, Numbers DEF Orderable

LEMMA CardsOrderable ==
  ASSUME position \in [CardIds -> Nat], NEW ids \in SUBSET CardIds
  PROVE  Orderable(ids, position)
<1>1. IsFiniteSet(CardIds)
  <2>1. 1 \in Int /\ MaxCards \in Int
    BY Numbers
  <2>. QED
    BY <2>1, FS_Interval DEF CardIds
<1>2. IsFiniteSet(ids)
  BY <1>1, FS_Subset
<1>. QED
  BY <1>2, Numbers DEF Orderable

\* The rows in order are a list of ids.
LEMMA SortedList ==
  ASSUME NEW ids, NEW pos, Orderable(ids, pos), NEW T, ids \subseteq T
  PROVE  \E n \in Nat : n = Cardinality(ids) /\ Sorted(ids, pos) \in List(n, T)
<1>1. PICK n \in Nat : n = Cardinality(ids)
  BY FS_CardinalityType DEF Orderable
<1>2. PICK s : s = Sorted(ids, pos)
  OBVIOUS
<1>3. s \in [1..n -> ids]
  BY <1>1, <1>2, SortedIs DEF IsOrder
<1>. QED
  BY <1>1, <1>2, <1>3 DEF List

\* The numbers that are written down a list.
LEMMA NumberedType ==
  ASSUME NEW n \in Nat, NEW T, NEW s \in List(n, T)
  PROVE  \A x \in DOMAIN Numbered(s) : Numbered(s)[x] \in Nat
<1>. TAKE x \in DOMAIN Numbered(s)
<1>1. DOMAIN s = 1..n /\ x \in ToSet(s)
  BY ListLen, NumberedIs
<1>2. PICK i \in 1..n : s[i] = x
  BY <1>1 DEF ToSet
<1>3. PICK v : v = Numbered(s)[s[i]]
  OBVIOUS
<1>4. v \in 0..(n - 1)
  BY <1>3, NumberedIs
<1>. QED
  BY <1>2, <1>3, <1>4

LEMMA WrittenType ==
  ASSUME NEW T, NEW pos \in [T -> Nat], NEW writes, NEW rows,
         \A x \in DOMAIN writes : writes[x] \in Nat
  PROVE  Written(pos, writes, rows) \in [T -> Nat]
BY DEF Written

LEMMA InsertAtType ==
  ASSUME NEW n \in Nat, NEW T, NEW s \in List(n, T), NEW p \in 0..n, NEW x \in T
  PROVE  InsertAt(s, p + 1, x) \in List(n + 1, T)
<1>1. PICK t : t = InsertAt(s, p + 1, x)
  OBVIOUS
<1>2. t = [i \in 1..(n + 1) |-> IF i <= p THEN s[i] ELSE IF i = p + 1 THEN x ELSE s[i - 1]]
  BY <1>1, InsertAtIs
<1>3. \A i \in 1..n : s[i] \in T
  BY ListLen
<1>4. ASSUME NEW i \in 1..(n + 1) PROVE t[i] \in T
  <2>1. i <= p => i \in 1..n
    OBVIOUS
  <2>2. ~(i <= p) /\ i # p + 1 => i - 1 \in 1..n
    OBVIOUS
  <2>. QED
    BY <1>2, <1>3, <2>1, <2>2
<1>. QED
  BY <1>1, <1>2, <1>4 DEF List

-----------------------------------------------------------------------------
(* The types, step by step.                                                *)

\* A request of the workload goes on.
LEMMA GoesOnTyped ==
  ASSUME IInv, TInv, NEW r \in Requests, NEW s, req' = [req EXCEPT ![r] = s], Typed(s),
         s # Idle => r \in load.requests, load' = load
  PROVE  AllTyped' /\ OnlyAsked'
<1>1. req'[r] = s /\ \A q \in Requests \ {r} : req'[q] = req[q]
  BY DEF IInv, RowTypes
<1>2. ASSUME NEW q \in Requests PROVE Typed(req'[q])
  BY <1>1, <1>2 DEF TInv, AllTyped
<1>3. ASSUME NEW q \in Requests PROVE req'[q] # Idle => q \in load.requests
  BY <1>1, <1>3 DEF TInv, OnlyAsked
<1>4. AllTyped'
  BY <1>2 DEF AllTyped
<1>5. OnlyAsked'
  BY <1>3 DEF OnlyAsked
<1>. QED
  BY <1>4, <1>5

LEMMA IdleTyped ==
  Typed(Idle) /\ Idle.at = "idle"
<1>1. Idle.at = "idle"
  BY DEF Idle
<1>. QED
  BY <1>1 DEF Typed

\* The statements that read no list, nor a position.
LEMMA NothingListed ==
  ASSUME NEW s, s.at \notin {"insert column", "insert card", "reindex", "reorder", "leave", "enter"}
  PROVE  Typed(s)
BY DEF Typed

LEMMA MoveTyped ==
  ASSUME IInv, TInv, NEW r \in Requests, NEW c \in CardIds, NEW base, NEW to, NEW n \in Nat,
         MoveCard(r, c, base, to, n)
  PROVE  \E s : req' = [req EXCEPT ![r] = s] /\ Typed(s)
<1>1. PICK s, others :
           /\ others = CardsIn(column[c]) \ {c}
           /\ req' = [req EXCEPT ![r] = s] /\ s.at = "leave"
           /\ s.card = c /\ s.from = column[c] /\ s.to = to /\ s.asked = n
           /\ (s.isDone <=> to \in done) /\ s.left = Sorted(others, position)
  BY MoveCardReads
<1>2. others \in SUBSET CardIds /\ Orderable(others, position)
  BY <1>1, CardsOrderable DEF CardsIn, TInv, RowsInv
<1>3. \E m \in Nat : s.left \in List(m, CardIds)
  BY <1>1, <1>2, SortedList
<1>. QED
  BY <1>1, <1>3 DEF Typed

LEMMA LeaveTyped ==
  ASSUME IInv, TInv, NEW r \in Requests, Leave(r)
  PROVE  \E s : req' = [req EXCEPT ![r] = s] /\ Typed(s)
<1>1. PICK s, w, ids :
        /\ w = Numbered(req[r].left)
        /\ ids = Sorted(CardsIn(req[r].to), Written(position, w, CardIds))
        /\ req' = [req EXCEPT ![r] = s] /\ s.at = "enter"
        /\ s.card = req[r].card /\ s.from = req[r].from /\ s.to = req[r].to
        /\ s.asked = req[r].asked /\ (s.isDone <=> req[r].isDone)
        /\ s.writes = w /\ s.ids = ids /\ s.position = Min({req[r].asked, Len(ids)})
  BY LeaveReads
<1>2. req[r].asked \in Nat /\ \E m \in Nat : req[r].left \in List(m, CardIds)
  BY DEF Leave, TInv, AllTyped, Typed
<1>3. \A c \in DOMAIN w : w[c] \in Nat
  BY <1>1, <1>2, NumberedType
<1>4. PICK pos : pos = Written(position, w, CardIds)
  OBVIOUS
<1>5. pos \in [CardIds -> Nat]
  BY <1>3, <1>4, WrittenType DEF TInv, RowsInv
<1>6. PICK C : C = CardsIn(req[r].to)
  OBVIOUS
<1>7. C \in SUBSET CardIds /\ Orderable(C, pos)
  <2>1. C \in SUBSET CardIds /\ IsFiniteSet(C)
    BY <1>6, CardsOrderable DEF CardsIn, TInv, RowsInv, Orderable
  <2>. QED
    BY <1>5, <2>1, Numbers DEF Orderable
<1>8. PICK n \in Nat : ids \in List(n, CardIds)
  BY <1>1, <1>4, <1>6, <1>7, SortedList
<1>9. Len(ids) = n
  BY <1>8, ListLen
<1>10. s.position \in 0..n
  <2>1. PICK a \in Nat : a = req[r].asked
    BY <1>2
  <2>2. \E x \in {a, n} : \A y \in {a, n} : x <= y
    OBVIOUS
  <2>3. PICK p : p = Min({a, n})
    OBVIOUS
  <2>4. p \in {a, n} /\ \A y \in {a, n} : p <= y
    BY <2>2, <2>3 DEF Min
  <2>. QED
    BY <1>1, <1>9, <2>1, <2>3, <2>4
<1>. QED
  BY <1>1, <1>3, <1>8, <1>10 DEF Typed

\* What a request of the board goes on with.
LEMMA RequestTyped ==
  ASSUME IInv, TInv, NEW r \in Requests, RequestStep(r)
  PROVE  /\ \E s : req' = [req EXCEPT ![r] = s] /\ Typed(s)
         /\ r \in load.requests
<1>1. CASE req' = [req EXCEPT ![r] = Idle] /\ req[r] # Idle
  BY <1>1, IdleTyped DEF TInv, OnlyAsked
<1>2. CASE req' = req /\ req[r] = Idle /\ r \in load.requests
  <2>1. req' = [req EXCEPT ![r] = Idle]
    BY <1>2 DEF IInv, RowTypes
  <2>. QED
    BY <1>2, <2>1, IdleTyped
<1>3. CASE Abort(r) \/ Reindex(r) \/ WriteOrder(r) \/ InsertCard(r) \/ Enter(r)
  BY <1>1, <1>3, IdleTyped DEF Abort, Reindex, WriteOrder, InsertCard, Enter, Goto
<1>4. ASSUME NEW isDone \in BOOLEAN, InsertColumn(r, isDone)
      PROVE  req' = [req EXCEPT ![r] = Idle] /\ req[r] # Idle
  BY <1>4, IdleTyped DEF InsertColumn, Goto
<1>5. ASSUME NEW k, NEW isDone, RenameColumn(r, k, isDone)
      PROVE  req' = req /\ req[r] = Idle /\ r \in load.requests
  BY <1>5 DEF RenameColumn, Called
<1>6. ASSUME NEW c, NEW base, UpdateCard(r, c, base)
      PROVE  req' = req /\ req[r] = Idle /\ r \in load.requests
  BY <1>6 DEF UpdateCard, Called
<1>7. CASE CreateColumn(r)
  <2>1. PICK s, S : /\ S = {place[k] : k \in columns}
                    /\ req' = [req EXCEPT ![r] = s] /\ s.at = "insert column"
                    /\ columns = {} => s.place = 0
                    /\ columns # {} => s.place = 1 + Max(S)
    BY <1>7, CreateColumnReads
  <2>4. r \in load.requests
    BY <1>7 DEF CreateColumn, Called
  <2>2. CASE columns = {}
    <3>1. s.place \in Nat
      <4>1. s.place = 0
        BY <2>1, <2>2, Zenon
      <4>. QED
        BY <4>1
    <3>. QED
      BY <2>1, <2>4, <3>1 DEF Typed
  <2>3. CASE columns # {}
    <3>2. S \in SUBSET Nat /\ S # {}
      <4>1. \A k \in columns : place[k] \in Nat
        BY DEF TInv, RowsInv, IInv, RowTypes
      <4>2. S = {place[k] : k \in columns}
        BY <2>1, Zenon
      <4>. QED
        BY <2>3, <4>1, <4>2
    <3>3. IsFiniteSet(S)
      <4>1. columns \in SUBSET ColumnIds
        BY DEF IInv, RowTypes
      <4>2. IsFiniteSet(columns)
        BY <4>1, ColumnsOrderable DEF TInv, RowsInv, Orderable
      <4>3. PICK f : f = [k \in columns |-> place[k]]
        OBVIOUS
      <4>4. f \in Surjection(columns, S)
        BY <2>1, <4>3 DEF Surjection
      <4>. QED
        BY <4>2, <4>4, FS_Surjection
    <3>4. Max(S) \in Nat
      BY <3>2, <3>3, GreatestIs
    <3>5. s.place \in Nat
      <4>1. s.place = 1 + Max(S)
        BY <2>1, <2>3, Zenon
      <4>. QED
        BY <3>4, <4>1
    <3>. QED
      BY <2>1, <2>4, <3>5 DEF Typed
  <2>. QED
    BY <2>2, <2>3
<1>8. CASE CountColumns(r)
  <2>1. req[r] # Idle
    BY <1>8, IdleTyped DEF CountColumns
  <2>2. CASE req' = [req EXCEPT ![r] = Idle]
    BY <1>1, <2>1, <2>2
  <2>3. ASSUME NEW s, req' = [req EXCEPT ![r] = s], s.at = "delete" PROVE Typed(s)
    BY <2>3, NothingListed
  <2>. QED
    BY <1>8, <2>1, <2>2, <2>3, CountColumnsReads DEF TInv, OnlyAsked
<1>9. CASE DeleteRow(r)
  <2>1. PICK s : /\ req' = [req EXCEPT ![r] = s] /\ s.at = "reindex"
                 /\ s.order = Sorted(columns \ {req[r].column}, place)
    BY <1>9, DeleteRowReads
  <2>2. PICK ids : ids = columns \ {req[r].column}
    OBVIOUS
  <2>3. ids \in SUBSET ColumnIds /\ Orderable(ids, place)
    BY <2>2, ColumnsOrderable DEF IInv, RowTypes, TInv, RowsInv
  <2>4. \E m \in Nat : s.order \in List(m, ColumnIds)
    BY <2>1, <2>2, <2>3, SortedList
  <2>5. req[r] # Idle
    BY <1>9, IdleTyped DEF DeleteRow
  <2>. QED
    BY <2>1, <2>4, <2>5 DEF Typed, TInv, OnlyAsked
<1>10. CASE ReorderColumns(r)
  <2>1. PICK s : /\ req' = [req EXCEPT ![r] = s] /\ s.at = "reorder"
                 /\ s.order \in SetToAllKPermutations(columns)
    BY <1>10, ReorderColumnsReads
  <2>2. PICK S \in SUBSET columns : s.order \in [1..Cardinality(S) -> S]
    BY <2>1 DEF SetToAllKPermutations, SetToSeqs
  <2>3. PICK n \in Nat : n = Cardinality(S)
    <3>1. S \in SUBSET ColumnIds
      BY DEF IInv, RowTypes
    <3>2. IsFiniteSet(S)
      BY <3>1, ColumnsOrderable DEF TInv, RowsInv, Orderable
    <3>. QED
      BY <3>2, FS_CardinalityType
  <2>4. s.order \in List(n, ColumnIds)
    BY <2>2, <2>3 DEF List, IInv, RowTypes
  <2>. QED
    BY <1>10, <2>1, <2>4 DEF Typed, ReorderColumns, Called
<1>11. ASSUME NEW k, DeleteColumn(r, k)
       PROVE  (\E s : req' = [req EXCEPT ![r] = s] /\ Typed(s)) /\ r \in load.requests
  <2>1. PICK s : req' = [req EXCEPT ![r] = s] /\ s.at = "count columns"
    BY <1>11, DeleteColumnReads
  <2>. QED
    BY <1>11, <2>1, NothingListed DEF DeleteColumn, Called
<1>12. ASSUME NEW k, CreateCard(r, k)
       PROVE  (\E s : req' = [req EXCEPT ![r] = s] /\ Typed(s)) /\ r \in load.requests
  <2>1. PICK s : /\ req' = [req EXCEPT ![r] = s] /\ s.at = "insert card" /\ s.column = k
                 /\ s.position = Cardinality(CardsIn(k)) /\ (s.isDone <=> k \in done)
    BY <1>12, CreateCardReads
  <2>2. PICK C : C = CardsIn(k)
    OBVIOUS
  <2>3. Cardinality(C) \in Nat
    <3>1. C \in SUBSET CardIds
      BY <2>2 DEF CardsIn
    <3>2. IsFiniteSet(C)
      BY <3>1, CardsOrderable DEF TInv, RowsInv, Orderable
    <3>. QED
      BY <3>2, FS_CardinalityType
  <2>. QED
    BY <1>12, <2>1, <2>2, <2>3 DEF Typed, CreateCard, Called
<1>13. ASSUME NEW c \in CardIds, NEW base, NEW to, NEW n \in 0..MaxCards,
              MoveCard(r, c, base, to, n)
       PROVE  (\E s : req' = [req EXCEPT ![r] = s] /\ Typed(s)) /\ r \in load.requests
  <2>1. r \in load.requests
    BY <1>13 DEF MoveCard, Called
  <2>2. n \in Nat
    BY Numbers
  <2>. QED
    BY <1>13, <2>1, <2>2, MoveTyped
<1>14. CASE Leave(r)
  <2>1. req[r] # Idle
    BY <1>14, IdleTyped DEF Leave
  <2>. QED
    BY <1>14, <2>1, LeaveTyped DEF TInv, OnlyAsked
<1>. QED
  BY <1>1, <1>2, <1>3, <1>4, <1>5, <1>6, <1>7, <1>8, <1>9, <1>10, <1>11, <1>12, <1>13, <1>14
  DEF RequestStep

\* A version stays within the bound of its workload.
LEMMA AcceptBound ==
  ASSUME IInv, TInv, NEW c \in CardIds, NEW base, Accept(c, base)
  PROVE  \A d \in CardIds : version'[d] <= MaxVersion
<1>1. version \in [CardIds -> Nat] /\ \A d \in CardIds : version[d] <= MaxVersion
  BY DEF IInv, RowTypes, TInv, RowsInv
<1>2. load.versions \in Nat /\ load.versions <= MaxVersion /\ MaxVersion \in Nat
  BY TheBounds, Numbers DEF TInv, RowsInv
<1>3. version[c] < load.versions /\ version' = [version EXCEPT ![c] = version[c] + 1]
  BY DEF Accept
<1>4. version[c] + 1 <= MaxVersion
  BY <1>1, <1>2, <1>3
<1>. QED
  BY <1>1, <1>3, <1>4

LEMMA InsertCardRows ==
  ASSUME IInv, TInv, NEW r \in Requests, InsertCard(r), load' = load
  PROVE  RowsInv'
<1>1. PICK k, p : k = req[r].column /\ p = req[r].position
  OBVIOUS
<1>2. /\ nextCard \in CardIds
      /\ position' = [position EXCEPT ![nextCard] = p]
      /\ version' = [version EXCEPT ![nextCard] = 1]
      /\ nextCard' = nextCard + 1
      /\ UNCHANGED <<columns, place, done, nextColumn>>
  BY <1>1 DEF InsertCard, columnRows
<1>3. completed' \in {completed, completed \cup {nextCard}}
  BY DEF InsertCard
<1>4. p \in Nat
  BY <1>1 DEF InsertCard, TInv, AllTyped, Typed
<1>5. nextCard' \in 1..(MaxCards + 1)
  BY <1>2, Numbers DEF CardIds
<1>6. \A c \in CardIds : version'[c] <= MaxVersion
  BY <1>2, BoardPgAssumption DEF BoardPgAssumption, IInv, RowTypes, TInv, RowsInv
<1>. QED
  BY <1>2, <1>3, <1>4, <1>5, <1>6 DEF TInv, RowsInv

LEMMA InsertColumnRows ==
  ASSUME IInv, TInv, NEW r \in Requests, NEW isDone, InsertColumn(r, isDone), load' = load
  PROVE  RowsInv'
<1>1. PICK p : p = req[r].place
  OBVIOUS
<1>2. /\ nextColumn \in ColumnIds /\ columns' = columns \cup {nextColumn}
      /\ place' = [place EXCEPT ![nextColumn] = p]
      /\ nextColumn' = nextColumn + 1
      /\ UNCHANGED <<position, version, completed, nextCard>>
  BY <1>1 DEF InsertColumn, cardRows
<1>3. done' \in {done, done \cup {nextColumn}}
  BY DEF InsertColumn
<1>4. p \in Nat
  BY <1>1 DEF InsertColumn, TInv, AllTyped, Typed
<1>5. nextColumn' \in 4..(MaxColumns + 1)
  BY <1>2, Numbers DEF ColumnIds, TInv, RowsInv
<1>6. done' \subseteq columns' /\ \A k \in columns' : k < nextColumn'
  BY <1>2, <1>3, Numbers DEF ColumnIds, TInv, RowsInv, IInv, RowTypes
<1>. QED
  BY <1>2, <1>4, <1>5, <1>6 DEF TInv, RowsInv

\* The positions of the columns, written down a list.
LEMMA PlacesWritten ==
  ASSUME IInv, TInv, NEW r \in Requests, req[r].at \in {"reindex", "reorder"}
  PROVE  Written(place, Numbered(req[r].order), columns) \in [ColumnIds -> Nat]
<1>1. PICK n \in Nat : req[r].order \in List(n, ColumnIds)
  BY DEF TInv, AllTyped, Typed
<1>2. PICK w : w = Numbered(req[r].order)
  OBVIOUS
<1>3. \A k \in DOMAIN w : w[k] \in Nat
  BY <1>1, <1>2, NumberedType
<1>. QED
  BY <1>2, <1>3, WrittenType DEF TInv, RowsInv

LEMMA ReindexRows ==
  ASSUME IInv, TInv, NEW r \in Requests, Reindex(r), load' = load
  PROVE  RowsInv'
<1>1. PICK k, w : k = req[r].column /\ w = Written(place, Numbered(req[r].order), columns)
  OBVIOUS
<1>2. /\ columns' = columns \ {k} /\ done' = done \ {k}
      /\ place' = [w EXCEPT ![k] = 0]
      /\ UNCHANGED <<nextColumn, position, version, completed, nextCard>>
  BY <1>1 DEF Reindex
<1>3. w \in [ColumnIds -> Nat]
  BY <1>1, PlacesWritten DEF Reindex
<1>. QED
  BY <1>2, <1>3 DEF TInv, RowsInv

\* What Enter writes down the target column.
LEMMA EnterWrites ==
  ASSUME IInv, TInv, NEW r \in Requests, req[r].at = "enter"
  PROVE  /\ Written(Written(position, req[r].writes, CardIds),
                    Numbered(InsertAt(req[r].ids, req[r].position + 1, req[r].card)), CardIds)
              \in [CardIds -> Nat]
         /\ req[r].position \in Nat
<1>1. PICK c, p, ids, w : /\ c = req[r].card /\ p = req[r].position
                          /\ ids = req[r].ids /\ w = req[r].writes
  OBVIOUS
<1>2. c \in CardIds
  BY <1>1 DEF IInv, AllKnow, KnowsItsCard, Moving
<1>3. (\A x \in DOMAIN w : w[x] \in Nat) /\ \E n \in Nat : ids \in List(n, CardIds) /\ p \in 0..n
  BY <1>1 DEF TInv, AllTyped, Typed
<1>4. PICK n \in Nat : ids \in List(n, CardIds) /\ p \in 0..n
  BY <1>3
<1>5. PICK t : t = InsertAt(ids, p + 1, c)
  OBVIOUS
<1>6. t \in List(n + 1, CardIds) /\ n + 1 \in Nat
  BY <1>2, <1>4, <1>5, InsertAtType
<1>7. PICK w2 : w2 = Numbered(t)
  OBVIOUS
<1>8. \A x \in DOMAIN w2 : w2[x] \in Nat
  BY <1>6, <1>7, NumberedType
<1>9. PICK pos : pos = Written(position, w, CardIds)
  OBVIOUS
<1>10. pos \in [CardIds -> Nat]
  BY <1>3, <1>9, WrittenType DEF TInv, RowsInv
<1>11. Written(pos, w2, CardIds) \in [CardIds -> Nat]
  BY <1>8, <1>10, WrittenType
<1>12. p \in Nat
  BY <1>4
<1>. QED
  BY <1>1, <1>5, <1>7, <1>9, <1>11, <1>12

LEMMA EnterRows ==
  ASSUME IInv, TInv, NEW r \in Requests, Enter(r), load' = load
  PROVE  RowsInv'
<1>1. PICK c, p, pos :
        /\ c = req[r].card /\ p = req[r].position
        /\ pos = Written(Written(position, req[r].writes, CardIds),
                         Numbered(InsertAt(req[r].ids, req[r].position + 1, req[r].card)), CardIds)
  OBVIOUS
<1>2. /\ position' = [pos EXCEPT ![c] = p]
      /\ completed' \in {completed \cup {c}, completed \ {c}}
      /\ Accept(c, req[r].base)
      /\ UNCHANGED <<columns, place, done, nextColumn, nextCard>>
  BY <1>1 DEF Enter, columnRows
<1>3. c \in CardIds /\ req[r].at = "enter"
  BY <1>1 DEF Enter, IInv, AllKnow, KnowsItsCard, Moving
<1>4. pos \in [CardIds -> Nat] /\ p \in Nat
  BY <1>1, <1>3, EnterWrites
<1>5. position' \in [CardIds -> Nat]
  BY <1>2, <1>3, <1>4
<1>6. \A d \in CardIds : version'[d] <= MaxVersion
  BY <1>2, <1>3, AcceptBound
<1>7. completed' \subseteq CardIds
  BY <1>2, <1>3 DEF TInv, RowsInv
<1>. QED
  BY <1>2, <1>5, <1>6, <1>7 DEF TInv, RowsInv

LEMMA RequestRows ==
  ASSUME IInv, TInv, NEW r \in Requests, RequestStep(r), load' = load
  PROVE  RowsInv'
<1>1. CASE UNCHANGED <<columnRows, cardRows>>
  BY <1>1 DEF columnRows, cardRows, TInv, RowsInv
<1>2. ASSUME NEW k, NEW isDone, RenameColumn(r, k, isDone) PROVE RowsInv'
  <2>1. k \in columns /\ done' \in {done \cup {k}, done \ {k}}
    BY <1>2 DEF RenameColumn
  <2>2. UNCHANGED <<columns, place, nextColumn, cardRows>>
    BY <1>2 DEF RenameColumn
  <2>. QED
    BY <2>1, <2>2 DEF cardRows, TInv, RowsInv
<1>3. CASE WriteOrder(r)
  <2>1. place' = Written(place, Numbered(req[r].order), columns) /\ req[r].at = "reorder"
    BY <1>3 DEF WriteOrder
  <2>2. place' \in [ColumnIds -> Nat]
    BY <2>1, PlacesWritten
  <2>. QED
    BY <1>3, <2>2 DEF WriteOrder, cardRows, TInv, RowsInv
<1>4. ASSUME NEW c \in CardIds, NEW base, UpdateCard(r, c, base) PROVE RowsInv'
  <2>1. /\ Accept(c, base)
        /\ UNCHANGED <<columns, place, done, nextColumn, position, completed, nextCard>>
    BY <1>4 DEF UpdateCard, columnRows
  <2>2. \A d \in CardIds : version'[d] <= MaxVersion
    BY <2>1, AcceptBound
  <2>. QED
    BY <2>1, <2>2 DEF TInv, RowsInv
<1>. QED
  BY <1>1, <1>2, <1>3, <1>4, InsertColumnRows, InsertCardRows, ReindexRows, EnterRows
  DEF RequestStep, Abort, CreateColumn, CountColumns, DeleteRow, ReorderColumns,
      DeleteColumn, CreateCard, MoveCard, Leave

LEMMA SprintTInv ==
  ASSUME IInv, TInv, NEW r \in Requests, SprintStep(r)
  PROVE  TInv'
<1>1. ASSUME NEW s, req' = [req EXCEPT ![r] = s], Typed(s), r \in load.requests,
             UNCHANGED <<columnRows, cardRows, load>>
      PROVE  TInv'
  BY <1>1, GoesOnTyped DEF columnRows, cardRows, TInv, RowsInv
<1>2. CASE UNCHANGED vars
  BY <1>2 DEF vars, columnRows, cardRows, TInv, RowsInv, AllTyped, Typed, OnlyAsked
<1>3. ASSUME NEW z, NEW w, NEW halves, CheckSprint(r, z, w, halves) PROVE TInv'
  <2>1. PICK s : s = [at |-> "update sprint", sprint |-> z, given |-> w, halves |-> halves,
                      seen |-> window[z]]
    OBVIOUS
  <2>2. s.at = "update sprint"
    BY <2>1
  <2>3. req' = [req EXCEPT ![r] = s] /\ r \in load.requests
        /\ UNCHANGED <<columnRows, cardRows, load>>
    BY <1>3, <2>1 DEF CheckSprint, Goto, Called
  <2>. QED
    BY <1>1, <2>2, <2>3, NothingListed
<1>4. CASE ReadSprint(r)
  <2>1. PICK s : s = [at |-> "write sprint", sprint |-> req[r].sprint,
                      seen |-> window[req[r].sprint],
                      window |-> Overlaid(window[req[r].sprint], req[r].given, req[r].halves)]
    OBVIOUS
  <2>2. s.at = "write sprint"
    BY <2>1
  <2>3. req' = [req EXCEPT ![r] = s] /\ UNCHANGED <<columnRows, cardRows, load>>
    BY <1>4, <2>1 DEF ReadSprint, Goto
  <2>4. req[r] # Idle
    BY <1>4, IdleTyped DEF ReadSprint
  <2>. QED
    BY <1>1, <2>2, <2>3, <2>4, NothingListed DEF TInv, OnlyAsked
<1>5. CASE WriteSprint(r) \/ ClearSprint(r)
  <2>1. req[r] # Idle
    BY <1>5, IdleTyped DEF WriteSprint, ClearSprint
  <2>2. req' = [req EXCEPT ![r] = Idle] /\ UNCHANGED <<columnRows, cardRows, load>>
    BY <1>5 DEF WriteSprint, ClearSprint, Goto
  <2>. QED
    BY <1>1, <2>1, <2>2, IdleTyped DEF TInv, OnlyAsked
<1>6. ASSUME NEW z, DeleteSprint(r, z) PROVE TInv'
  <2>1. PICK s : s = [at |-> "clear sprint", sprint |-> z]
    OBVIOUS
  <2>2. s.at = "clear sprint"
    BY <2>1
  <2>3. req' = [req EXCEPT ![r] = s] /\ r \in load.requests
        /\ UNCHANGED <<columnRows, cardRows, load>>
    BY <1>6, <2>1 DEF DeleteSprint, Goto, Called
  <2>. QED
    BY <1>1, <2>2, <2>3, NothingListed
<1>7. ASSUME NEW c, NEW base, NEW z, Called(r, "assign card"), AssignCard(r, c, base, z)
      PROVE  TInv'
  <2>1. PICK s : s = [at |-> "assign", card |-> c, base |-> base, sprint |-> z]
    OBVIOUS
  <2>2. s.at = "assign"
    BY <2>1
  <2>3. req' = [req EXCEPT ![r] = s] /\ r \in load.requests
        /\ UNCHANGED <<columnRows, cardRows, load>>
    BY <1>7, <2>1 DEF AssignCard, Goto, Called
  <2>. QED
    BY <1>1, <2>2, <2>3, NothingListed
<1>8. CASE WriteCard(r)
  <2>1. /\ req[r].at = "assign" /\ Accept(req[r].card, req[r].base)
        /\ req' = [req EXCEPT ![r] = Idle]
        /\ UNCHANGED <<columnRows, position, completed, nextCard, load>>
    BY <1>8 DEF WriteCard, Goto
  <2>2. req[r].card \in CardIds /\ req[r] # Idle
    BY <2>1, IdleTyped DEF IInv, AllKnow, KnowsItsCard, Moving
  <2>3. \A d \in CardIds : version'[d] <= MaxVersion
    BY <2>1, <2>2, AcceptBound
  <2>4. RowsInv'
    BY <2>1, <2>3 DEF columnRows, TInv, RowsInv
  <2>5. AllTyped' /\ OnlyAsked'
    BY <2>1, <2>2, IdleTyped, GoesOnTyped
  <2>. QED
    BY <2>4, <2>5 DEF TInv
<1>9. ASSUME NEW s, NEW w, CreateSprint(r, s, w) PROVE TInv'
  BY <1>2, <1>9 DEF CreateSprint
<1>. QED
  BY <1>3, <1>4, <1>5, <1>6, <1>7, <1>8, <1>9 DEF SprintStep

LEMMA SaveTInv ==
  ASSUME IInv, FormOfACard, TInv, NEW r \in Requests, SaveForm(r)
  PROVE  TInv'
<1>1. PICK c, base, to, z :
        c = form.card /\ base = form.version /\ to = form.column /\ z = form.sprint
  OBVIOUS
<1>2. c \in CardIds /\ r \in load.requests
  BY <1>1 DEF SaveForm, FormOfACard
<1>3. (MoveCard(r, c, base, to, 0) /\ load' = load) \/ AssignCard(r, c, base, z)
  BY <1>1 DEF SaveForm
<1>4. UNCHANGED <<columnRows, cardRows, load>>
  BY <1>3 DEF MoveCard, AssignCard
<1>5. RowsInv'
  BY <1>4 DEF columnRows, cardRows, TInv, RowsInv
<1>6. \E s : req' = [req EXCEPT ![r] = s] /\ Typed(s)
  <2>1. CASE MoveCard(r, c, base, to, 0)
    <3>1. 0 \in Nat
      OBVIOUS
    <3>. QED
      BY <1>2, <2>1, <3>1, MoveTyped
  <2>2. CASE AssignCard(r, c, base, z)
    <3>1. PICK s : s = [at |-> "assign", card |-> c, base |-> base, sprint |-> z]
      OBVIOUS
    <3>2. s.at = "assign" /\ req' = [req EXCEPT ![r] = s]
      BY <2>2, <3>1 DEF AssignCard, Goto
    <3>. QED
      BY <3>2, NothingListed
  <2>. QED
    BY <1>3, <2>1, <2>2
<1>. QED
  BY <1>2, <1>4, <1>5, <1>6, GoesOnTyped DEF TInv

LEMMA NextTInv ==
  ASSUME IInv, FormOfACard, TInv, [PlanNext]_planVars
  PROVE  TInv'
<1>1. ASSUME NEW r \in Requests, BoardStep(r) PROVE TInv'
  <2>1. RequestStep(r) /\ load' = load
    BY <1>1 DEF BoardStep
  <2>2. RowsInv'
    BY <2>1, RequestRows
  <2>3. (\E s : req' = [req EXCEPT ![r] = s] /\ Typed(s)) /\ r \in load.requests
    BY <2>1, RequestTyped
  <2>. QED
    BY <2>1, <2>2, <2>3, GoesOnTyped DEF TInv
<1>2. CASE PageStep \/ NextDay \/ UNCHANGED planVars
  <2>1. UNCHANGED <<columnRows, cardRows, req, load>>
    BY <1>2 DEF PageStep, RefreshPage, CloseForm, OpenForm, PickColumn, PickSprint,
                NextDay, planVars, vars
  <2>. QED
    BY <2>1 DEF columnRows, cardRows, TInv, RowsInv, AllTyped, Typed, OnlyAsked
<1>. QED
  BY <1>1, <1>2, SprintTInv, SaveTInv DEF PlanNext

LEMMA InitTInv ==
  ASSUME PlanInit
  PROVE  TInv
<1>1. /\ load \in Workloads /\ columns = 1..3 /\ done = {3} /\ completed = {}
      /\ nextColumn = 4 /\ nextCard = load.cards + 1
      /\ req = [r \in Requests |-> Idle]
  BY DEF PlanInit, Init
<1>2. load.cards \in 0..MaxCards /\ MaxCards \in Nat /\ MaxColumns \in Nat \ 0..2
      /\ MaxVersion \in Nat \ {0}
  BY <1>1, TheBounds, BoardPgAssumption DEF BoardPgAssumption
<1>3. place \in [ColumnIds -> Nat]
  BY <1>1, Numbers DEF PlanInit, Init
<1>4. position \in [CardIds -> Nat]
  BY Numbers DEF PlanInit, Init, CardIds
<1>5. \A c \in CardIds : version[c] <= MaxVersion
  BY <1>2 DEF PlanInit, Init
<1>6. RowsInv
  BY <1>1, <1>2, <1>3, <1>4, <1>5 DEF RowsInv
<1>7. AllTyped /\ OnlyAsked
  BY <1>1, IdleTyped DEF AllTyped, OnlyAsked
<1>. QED
  BY <1>6, <1>7 DEF TInv

-----------------------------------------------------------------------------
(* One request at a time.                                                  *)

\* What a request has read is so until it commits.
Sees(q) ==
  /\ q.at \in {"count columns", "delete", "reindex"} =>
       q.column \in columns /\ CardsIn(q.column) = {}
  /\ q.at = "insert card" => (q.isDone <=> q.column \in done)
  /\ q.at \in {"leave", "enter"} => (q.isDone <=> q.to \in done)

Alone ==
  /\ \A c \in CardIds : version[c] > 0 => column[c] # 0
  /\ \A r \in Requests : Sees(req[r])

\* Where a request is at work on a sprint.
AtSprint == {"update sprint", "write sprint", "clear sprint", "assign"}

LEMMA OthersAreIdle ==
  ASSUME TInv, OneAtATime, NEW r \in Requests, r \in load.requests
  PROVE  \A q \in Requests \ {r} : req[q] = Idle
BY DEF TInv, OnlyAsked, OneAtATime

LEMMA IdleSees ==
  Sees(Idle) /\ Sees(Idle)'
<1>1. Idle.at = "idle"
  BY DEF Idle
<1>. QED
  BY <1>1 DEF Sees

LEMMA OneGoesOn ==
  ASSUME IInv, TInv, OneAtATime, NEW r \in Requests, r \in load.requests,
         NEW s, req' = [req EXCEPT ![r] = s], Sees(s)',
         \A c \in CardIds : version'[c] > 0 => column'[c] # 0
  PROVE  Alone'
<1>1. req'[r] = s /\ \A q \in Requests \ {r} : req'[q] = req[q]
  BY DEF IInv, RowTypes
<1>2. \A q \in Requests \ {r} : req'[q] = Idle
  BY <1>1, OthersAreIdle
<1>3. ASSUME NEW q \in Requests PROVE Sees(req[q])'
  <2>1. CASE q = r
    BY <1>1, <2>1 DEF Sees
  <2>2. CASE q # r
    <3>1. req'[q] = Idle
      BY <1>2, <2>2
    <3>. QED
      BY <3>1, IdleSees DEF Sees
  <2>. QED
    BY <2>1, <2>2
<1>. QED
  BY <1>3 DEF Alone

LEMMA OneReads ==
  ASSUME IInv, TInv, OneAtATime, Alone, NEW r \in Requests, r \in load.requests,
         NEW s, req' = [req EXCEPT ![r] = s], Sees(s), UNCHANGED <<columnRows, cardRows>>
  PROVE  Alone'
<1>1. Sees(s)'
  BY DEF columnRows, cardRows, Sees, CardsIn
<1>2. \A c \in CardIds : version'[c] > 0 => column'[c] # 0
  BY DEF cardRows, Alone
<1>. QED
  BY <1>1, <1>2, OneGoesOn

\* A version that grows is a card's that has a row.
LEMMA OneWrites ==
  ASSUME IInv, Alone, NEW c \in CardIds, NEW base, NEW k, k # 0, Accept(c, base),
         column' = [column EXCEPT ![c] = k]
  PROVE  \A d \in CardIds : version'[d] > 0 => column'[d] # 0
<1>1. /\ version \in [CardIds -> Nat] /\ column \in [CardIds -> Nat]
      /\ \A d \in CardIds : version[d] > 0 => column[d] # 0
  BY DEF IInv, RowTypes, Alone
<1>2. \A d \in CardIds \ {c} : version'[d] = version[d] /\ column'[d] = column[d]
  BY <1>1 DEF Accept
<1>3. column'[c] = k
  BY <1>1
<1>. QED
  BY <1>1, <1>2, <1>3

LEMMA MoveAlone ==
  ASSUME IInv, TInv, OneAtATime, Alone, NEW r \in Requests, r \in load.requests,
         NEW c, NEW base, NEW to, NEW n, MoveCard(r, c, base, to, n)
  PROVE  Alone'
<1>1. PICK s, others :
           /\ others = CardsIn(column[c]) \ {c}
           /\ req' = [req EXCEPT ![r] = s] /\ s.at = "leave"
           /\ s.card = c /\ s.from = column[c] /\ s.to = to /\ s.asked = n
           /\ (s.isDone <=> to \in done) /\ s.left = Sorted(others, position)
  BY MoveCardReads
<1>2. Sees(s)
  BY <1>1 DEF Sees
<1>3. UNCHANGED <<columnRows, cardRows>>
  BY DEF MoveCard
<1>. QED
  BY <1>1, <1>2, <1>3, OneReads

LEMMA RequestAlone ==
  ASSUME IInv, TInv, OneAtATime, Alone, NEW r \in Requests, r \in load.requests, RequestStep(r)
  PROVE  Alone'
<1>1. \A c \in CardIds : version[c] > 0 => column[c] # 0
  BY DEF Alone
<1>2. Sees(req[r])
  BY DEF Alone
<1>3. ASSUME req' = [req EXCEPT ![r] = Idle],
             \A c \in CardIds : version'[c] > 0 => column'[c] # 0
      PROVE  Alone'
  BY <1>3, IdleSees, OneGoesOn
<1>4. CASE Abort(r)
  BY <1>1, <1>3, <1>4 DEF Abort, Goto, cardRows
<1>5. CASE CreateColumn(r)
  <2>1. PICK s, taken : /\ taken = {place[k] : k \in columns}
                        /\ req' = [req EXCEPT ![r] = s] /\ s.at = "insert column"
                        /\ columns = {} => s.place = 0
                        /\ columns # {} => s.place = 1 + Max(taken)
    BY <1>5, CreateColumnReads
  <2>2. req' = [req EXCEPT ![r] = s] /\ s.at = "insert column"
    BY <2>1, Zenon
  <2>3. Sees(s)
    BY <2>2 DEF Sees
  <2>4. UNCHANGED <<columnRows, cardRows>>
    BY <1>5 DEF CreateColumn
  <2>. QED
    BY <2>2, <2>3, <2>4, OneReads
<1>6. CASE CountColumns(r)
  <2>1. req[r].at = "count columns" /\ UNCHANGED <<columnRows, cardRows>>
    BY <1>6 DEF CountColumns
  <2>2. CASE req' = [req EXCEPT ![r] = Idle]
    BY <2>1, <2>2, IdleSees, OneReads
  <2>3. ASSUME NEW s, req' = [req EXCEPT ![r] = s], s.at = "delete", s.column = req[r].column
        PROVE  Alone'
    <3>1. Sees(s)
      BY <1>2, <2>1, <2>3 DEF Sees
    <3>. QED
      BY <2>1, <2>3, <3>1, OneReads
  <2>. QED
    BY <1>6, <2>2, <2>3, CountColumnsReads
<1>7. CASE DeleteRow(r)
  <2>1. PICK s : /\ req' = [req EXCEPT ![r] = s] /\ s.at = "reindex"
                 /\ s.column = req[r].column
                 /\ s.order = Sorted(columns \ {req[r].column}, place)
    BY <1>7, DeleteRowReads
  <2>2. req[r].at = "delete" /\ UNCHANGED <<columnRows, cardRows>>
    BY <1>7 DEF DeleteRow
  <2>3. Sees(s)
    BY <1>2, <2>1, <2>2 DEF Sees
  <2>. QED
    BY <2>1, <2>2, <2>3, OneReads
<1>8. CASE ReorderColumns(r)
  <2>1. PICK s : /\ req' = [req EXCEPT ![r] = s] /\ s.at = "reorder"
                 /\ s.order \in SetToAllKPermutations(columns)
    BY <1>8, ReorderColumnsReads
  <2>2. Sees(s)
    BY <2>1 DEF Sees
  <2>3. UNCHANGED <<columnRows, cardRows>>
    BY <1>8 DEF ReorderColumns
  <2>. QED
    BY <2>1, <2>2, <2>3, OneReads
<1>9. ASSUME NEW k, DeleteColumn(r, k) PROVE Alone'
  <2>1. PICK s : /\ req' = [req EXCEPT ![r] = s] /\ s.at = "count columns" /\ s.column = k
    BY <1>9, DeleteColumnReads
  <2>2. k \in columns /\ CardsIn(k) = {} /\ UNCHANGED <<columnRows, cardRows>>
    BY <1>9 DEF DeleteColumn
  <2>3. Sees(s)
    BY <2>1, <2>2 DEF Sees
  <2>. QED
    BY <2>1, <2>2, <2>3, OneReads
<1>10. ASSUME NEW k, CreateCard(r, k) PROVE Alone'
  <2>1. PICK s : /\ req' = [req EXCEPT ![r] = s] /\ s.at = "insert card" /\ s.column = k
                 /\ s.position = Cardinality(CardsIn(k)) /\ (s.isDone <=> k \in done)
    BY <1>10, CreateCardReads
  <2>2. UNCHANGED <<columnRows, cardRows>>
    BY <1>10 DEF CreateCard
  <2>3. Sees(s)
    BY <2>1 DEF Sees
  <2>. QED
    BY <2>1, <2>2, <2>3, OneReads
<1>11. CASE Leave(r)
  <2>1. PICK s, w, ids :
           /\ w = Numbered(req[r].left)
           /\ ids = Sorted(CardsIn(req[r].to), Written(position, w, CardIds))
           /\ req' = [req EXCEPT ![r] = s] /\ s.at = "enter"
           /\ s.card = req[r].card /\ s.from = req[r].from /\ s.to = req[r].to
           /\ s.asked = req[r].asked /\ (s.isDone <=> req[r].isDone)
           /\ s.writes = w /\ s.ids = ids /\ s.position = Min({req[r].asked, Len(ids)})
    BY <1>11, LeaveReads
  <2>2. req[r].at = "leave" /\ UNCHANGED <<columnRows, cardRows>>
    BY <1>11 DEF Leave
  <2>3. Sees(s)
    BY <1>2, <2>1, <2>2 DEF Sees
  <2>. QED
    BY <2>1, <2>2, <2>3, OneReads
<1>12. CASE Reindex(r)
  <2>1. /\ req[r].at = "reindex" /\ version' = version
        /\ column' = [c \in CardIds |-> IF column[c] = req[r].column THEN 0 ELSE column[c]]
        /\ req' = [req EXCEPT ![r] = Idle]
    BY <1>12 DEF Reindex, Goto
  <2>2. \A c \in CardIds : column[c] # req[r].column
    BY <1>2, <2>1 DEF Sees, CardsIn
  <2>3. \A c \in CardIds : column'[c] = column[c]
    BY <2>1, <2>2
  <2>. QED
    BY <1>1, <1>3, <2>1, <2>3
<1>13. CASE WriteOrder(r)
  BY <1>1, <1>3, <1>13 DEF WriteOrder, Goto, cardRows
<1>14. ASSUME NEW isDone, InsertColumn(r, isDone) PROVE Alone'
  BY <1>1, <1>3, <1>14 DEF InsertColumn, Goto, cardRows
<1>15. ASSUME NEW k, NEW isDone, RenameColumn(r, k, isDone) PROVE Alone'
  <2>1. req[r] = Idle /\ req' = req /\ UNCHANGED cardRows
    BY <1>15 DEF RenameColumn, Called
  <2>2. req' = [req EXCEPT ![r] = Idle]
    BY <2>1 DEF IInv, RowTypes
  <2>. QED
    BY <1>1, <1>3, <2>1, <2>2 DEF cardRows
<1>16. CASE InsertCard(r)
  <2>1. PICK k : k = req[r].column
    OBVIOUS
  <2>2. /\ nextCard \in CardIds /\ k \in columns
        /\ column' = [column EXCEPT ![nextCard] = k]
        /\ version' = [version EXCEPT ![nextCard] = 1]
        /\ req' = [req EXCEPT ![r] = Idle]
    BY <1>16, <2>1 DEF InsertCard, Goto
  <2>3. k # 0
    BY <2>2, Numbers DEF IInv, RowTypes
  <2>4. \A c \in CardIds : version'[c] > 0 => column'[c] # 0
    BY <1>1, <2>2, <2>3 DEF IInv, RowTypes
  <2>. QED
    BY <1>3, <2>2, <2>4
<1>17. ASSUME NEW c \in CardIds, NEW base, UpdateCard(r, c, base) PROVE Alone'
  <2>1. /\ req[r] = Idle /\ req' = req /\ column[c] # 0 /\ Accept(c, base)
        /\ column' = [column EXCEPT ![c] = column[c]]
    BY <1>17 DEF UpdateCard, Called, IInv, RowTypes
  <2>2. req' = [req EXCEPT ![r] = Idle]
    BY <2>1 DEF IInv, RowTypes
  <2>. QED
    BY <1>3, <2>1, <2>2, OneWrites
<1>18. CASE Enter(r)
  <2>1. PICK c, k : c = req[r].card /\ k = req[r].to
    OBVIOUS
  <2>2. /\ req[r].at = "enter" /\ k \in columns /\ column' = [column EXCEPT ![c] = k]
        /\ Accept(c, req[r].base) /\ req' = [req EXCEPT ![r] = Idle]
    BY <1>18, <2>1 DEF Enter, Goto
  <2>3. c \in CardIds /\ k # 0
    BY <2>1, <2>2, Numbers DEF IInv, RowTypes, AllKnow, KnowsItsCard, Moving
  <2>. QED
    BY <1>3, <2>2, <2>3, OneWrites
<1>19. ASSUME NEW c \in CardIds, NEW base, NEW to, NEW n, MoveCard(r, c, base, to, n)
       PROVE  Alone'
  BY <1>19, MoveAlone
<1>. QED
  BY <1>4, <1>5, <1>6, <1>7, <1>8, <1>9, <1>10, <1>11, <1>12, <1>13, <1>14, <1>15, <1>16,
     <1>17, <1>18, <1>19 DEF RequestStep

LEMMA AssignAlone ==
  ASSUME IInv, TInv, OneAtATime, Alone, NEW r \in Requests, r \in load.requests,
         NEW c, NEW base, NEW z, AssignCard(r, c, base, z)
  PROVE  Alone'
<1>1. PICK s : s = [at |-> "assign", card |-> c, base |-> base, sprint |-> z]
  OBVIOUS
<1>2. s.at = "assign"
  BY <1>1
<1>3. req' = [req EXCEPT ![r] = s] /\ UNCHANGED <<columnRows, cardRows>>
  BY <1>1 DEF AssignCard, Goto
<1>4. Sees(s)
  BY <1>2 DEF Sees
<1>. QED
  BY <1>3, <1>4, OneReads

LEMMA SprintAlone ==
  ASSUME IInv, TInv, OneAtATime, Alone, NEW r \in Requests, SprintStep(r)
  PROVE  Alone'
<1>1. CASE UNCHANGED vars
  BY <1>1 DEF vars, columnRows, cardRows, Alone, Sees, CardsIn
<1>2. ASSUME NEW s, req' = [req EXCEPT ![r] = s], s.at \in AtSprint, r \in load.requests,
             UNCHANGED <<columnRows, cardRows>>
      PROVE  Alone'
  <2>1. Sees(s)
    BY <1>2 DEF Sees, AtSprint
  <2>. QED
    BY <1>2, <2>1, OneReads
<1>3. ASSUME NEW z, NEW w, NEW halves, CheckSprint(r, z, w, halves) PROVE Alone'
  <2>1. PICK s : s = [at |-> "update sprint", sprint |-> z, given |-> w, halves |-> halves,
                      seen |-> window[z]]
    OBVIOUS
  <2>2. s.at = "update sprint"
    BY <2>1
  <2>3. req' = [req EXCEPT ![r] = s] /\ r \in load.requests /\ UNCHANGED <<columnRows, cardRows>>
    BY <1>3, <2>1 DEF CheckSprint, Goto, Called
  <2>. QED
    BY <1>2, <2>2, <2>3 DEF AtSprint
<1>4. CASE ReadSprint(r)
  <2>1. PICK s : s = [at |-> "write sprint", sprint |-> req[r].sprint,
                      seen |-> window[req[r].sprint],
                      window |-> Overlaid(window[req[r].sprint], req[r].given, req[r].halves)]
    OBVIOUS
  <2>2. s.at = "write sprint"
    BY <2>1
  <2>3. req' = [req EXCEPT ![r] = s] /\ UNCHANGED <<columnRows, cardRows>>
    BY <1>4, <2>1 DEF ReadSprint, Goto
  <2>4. r \in load.requests
    BY <1>4, IdleTyped DEF ReadSprint, TInv, OnlyAsked
  <2>. QED
    BY <1>2, <2>2, <2>3, <2>4 DEF AtSprint
<1>5. CASE WriteSprint(r) \/ ClearSprint(r)
  <2>1. req' = [req EXCEPT ![r] = Idle] /\ UNCHANGED <<columnRows, cardRows>>
    BY <1>5 DEF WriteSprint, ClearSprint, Goto
  <2>2. r \in load.requests
    BY <1>5, IdleTyped DEF WriteSprint, ClearSprint, TInv, OnlyAsked
  <2>. QED
    BY <1>2, <2>1, <2>2, IdleSees, OneReads
<1>6. ASSUME NEW z, DeleteSprint(r, z) PROVE Alone'
  <2>1. PICK s : s = [at |-> "clear sprint", sprint |-> z]
    OBVIOUS
  <2>2. s.at = "clear sprint"
    BY <2>1
  <2>3. req' = [req EXCEPT ![r] = s] /\ r \in load.requests /\ UNCHANGED <<columnRows, cardRows>>
    BY <1>6, <2>1 DEF DeleteSprint, Goto, Called
  <2>. QED
    BY <1>2, <2>2, <2>3 DEF AtSprint
<1>7. ASSUME NEW c, NEW base, NEW z, Called(r, "assign card"), AssignCard(r, c, base, z)
      PROVE  Alone'
  BY <1>7, AssignAlone DEF Called
<1>8. CASE WriteCard(r)
  <2>1. PICK c : c = req[r].card
    OBVIOUS
  <2>2. /\ req[r].at = "assign" /\ Accept(c, req[r].base) /\ column' = column
        /\ req' = [req EXCEPT ![r] = Idle]
    BY <1>8, <2>1 DEF WriteCard, Goto
  <2>3. c \in CardIds /\ column[c] # 0 /\ r \in load.requests
    BY <2>1, <2>2, IdleTyped DEF IInv, AllKnow, KnowsItsCard, Moving, TInv, OnlyAsked
  <2>4. column' = [column EXCEPT ![c] = column[c]]
    BY <2>2 DEF IInv, RowTypes
  <2>5. \A d \in CardIds : version'[d] > 0 => column'[d] # 0
    BY <2>2, <2>3, <2>4, OneWrites
  <2>. QED
    BY <2>2, <2>3, <2>5, IdleSees, OneGoesOn
<1>9. ASSUME NEW s, NEW w, CreateSprint(r, s, w) PROVE Alone'
  BY <1>1, <1>9 DEF CreateSprint
<1>. QED
  BY <1>3, <1>4, <1>5, <1>6, <1>7, <1>8, <1>9 DEF SprintStep

LEMMA NextAlone ==
  ASSUME IInv, TInv, OneAtATime, Alone, [PlanNext]_planVars
  PROVE  Alone'
<1>1. ASSUME NEW r \in Requests, BoardStep(r) PROVE Alone'
  <2>1. RequestStep(r)
    BY <1>1 DEF BoardStep
  <2>2. r \in load.requests
    BY <2>1, RequestTyped
  <2>. QED
    BY <2>1, <2>2, RequestAlone
<1>2. ASSUME NEW r \in Requests, SaveForm(r) PROVE Alone'
  <2>1. PICK c, base, to, z :
          c = form.card /\ base = form.version /\ to = form.column /\ z = form.sprint
    OBVIOUS
  <2>2. r \in load.requests /\ (MoveCard(r, c, base, to, 0) \/ AssignCard(r, c, base, z))
    BY <1>2, <2>1 DEF SaveForm
  <2>. QED
    BY <2>2, MoveAlone, AssignAlone
<1>3. CASE PageStep \/ NextDay \/ UNCHANGED planVars
  <2>1. UNCHANGED <<columnRows, cardRows, req>>
    BY <1>3 DEF PageStep, RefreshPage, CloseForm, OpenForm, PickColumn, PickSprint,
                NextDay, planVars, vars
  <2>. QED
    BY <2>1 DEF columnRows, cardRows, Alone, Sees, CardsIn
<1>. QED
  BY <1>1, <1>2, <1>3, SprintAlone DEF PlanNext

LEMMA InitAlone ==
  ASSUME PlanInit
  PROVE  Alone
<1>1. \A c \in CardIds : version[c] > 0 => column[c] # 0
  BY DEF PlanInit, Init
<1>2. \A r \in Requests : req[r] = Idle
  BY DEF PlanInit, Init
<1>. QED
  BY <1>1, <1>2, IdleSees DEF Alone

LEMMA SameLoad ==
  ASSUME [PlanNext]_planVars
  PROVE  load' = load
<1>1. ASSUME NEW r \in Requests, SprintStep(r) \/ SaveForm(r) PROVE load' = load
  BY <1>1 DEF SprintStep, SaveForm, CreateSprint, CheckSprint, ReadSprint, WriteSprint,
              DeleteSprint, ClearSprint, AssignCard, WriteCard, vars
<1>. QED
  BY <1>1 DEF PlanNext, BoardStep, PageStep, RefreshPage, CloseForm, OpenForm, PickColumn,
              PickSprint, NextDay, planVars, vars

BoardInv == IInv /\ FormOfACard /\ TInv /\ (OneAtATime => Alone)

LEMMA BoardInvariance == PlanSpec => []BoardInv
<1>1. PlanInit => BoardInv
  BY InitIInv, InitTInv, InitAlone DEF BoardInv
<1>2. BoardInv /\ [PlanNext]_planVars => BoardInv'
  <2>. SUFFICES ASSUME BoardInv, [PlanNext]_planVars PROVE BoardInv'
    OBVIOUS
  <2>1. (IInv /\ FormOfACard /\ TInv)'
    BY NextIInv, NextTInv DEF BoardInv
  <2>2. OneAtATime' => OneAtATime
    BY SameLoad DEF OneAtATime
  <2>3. OneAtATime => Alone'
    BY NextAlone DEF BoardInv
  <2>. QED
    BY <2>1, <2>2, <2>3 DEF BoardInv
<1>. QED
  BY <1>1, <1>2, PTL DEF PlanSpec

-----------------------------------------------------------------------------
(* What the API makes of the rows.                                         *)

\* A column shows its cards, each once.
LEMMA ColumnShows ==
  ASSUME TInv, NEW k, NEW C, C = CardsIn(k)
  PROVE  \E n, s :
           /\ n \in 0..MaxCards /\ s = Sorted(C, position) /\ n = Cardinality(C)
           /\ s \in List(n, C) /\ Complete(s, n, C) /\ Once(s, n)
           /\ DOMAIN s = 1..n /\ ToSet(s) = C
<1>1. C \in SUBSET CardIds
  BY DEF CardsIn
<1>2. Orderable(C, position)
  BY <1>1, CardsOrderable DEF TInv, RowsInv
<1>3. PICK n \in Nat : n = Cardinality(C)
  BY <1>2, FS_CardinalityType DEF Orderable
<1>4. n <= MaxCards
  <2>1. 1 \in Int /\ MaxCards \in Int
    BY Numbers
  <2>2. IsFiniteSet(CardIds) /\ Cardinality(CardIds) = MaxCards
    BY <2>1, Numbers, FS_Interval DEF CardIds
  <2>. QED
    BY <1>1, <1>3, <2>2, FS_Subset
<1>5. PICK s : s = Sorted(C, position)
  OBVIOUS
<1>6. IsOrder(s, C, position)
  BY <1>2, <1>5, SortedIs
<1>7. s \in List(n, C) /\ Complete(s, n, C) /\ Once(s, n) /\ ToSet(s) = C
  BY <1>2, <1>3, <1>6, OrderIsOnce
<1>8. DOMAIN s = 1..n
  BY <1>7, ListLen
<1>9. n \in 0..MaxCards
  BY <1>4, Numbers
<1>. QED
  BY <1>3, <1>5, <1>7, <1>8, <1>9

\* The board shows its columns.
LEMMA BoardShows ==
  ASSUME IInv, TInv
  PROVE  ToSet(Sorted(columns, place)) = columns
<1>1. Orderable(columns, place)
  BY ColumnsOrderable DEF IInv, RowTypes, TInv, RowsInv
<1>2. PICK n \in Nat : n = Cardinality(columns)
  BY <1>1, FS_CardinalityType DEF Orderable
<1>3. PICK s : s = Sorted(columns, place)
  OBVIOUS
<1>4. IsOrder(s, columns, place)
  BY <1>1, <1>3, SortedIs
<1>. QED
  BY <1>1, <1>2, <1>3, <1>4, OrderIsOnce

LEMMA CardShownOnce ==
  ASSUME IInv, TInv, NEW c \in CardIds, column[c] # 0
  PROVE  \E k \in columns, i \in 1..MaxCards :
           /\ i \in DOMAIN Sorted(CardsIn(k), position)
           /\ Sorted(CardsIn(k), position)[i] = c
           /\ \A j \in ColumnIds : \A n \in DOMAIN Sorted(CardsIn(j), position) :
                Sorted(CardsIn(j), position)[n] = c => j = k /\ n = i
<1>1. PICK k : k = column[c]
  OBVIOUS
<1>2. k \in columns
  BY <1>1 DEF IInv, CardsHaveAColumn
<1>3. PICK C : C = CardsIn(k)
  OBVIOUS
<1>4. c \in C
  BY <1>1, <1>3 DEF CardsIn
<1>5. PICK n, s :
           /\ n \in 0..MaxCards /\ s = Sorted(C, position) /\ n = Cardinality(C)
           /\ s \in List(n, C) /\ Complete(s, n, C) /\ Once(s, n)
           /\ DOMAIN s = 1..n /\ ToSet(s) = C
  BY <1>3, ColumnShows
<1>6. PICK i \in 1..n : s[i] = c
  BY <1>4, <1>5 DEF Complete
<1>7. i \in 1..MaxCards
  BY <1>5, Numbers
<1>8. ASSUME NEW j \in ColumnIds, NEW x \in DOMAIN Sorted(CardsIn(j), position),
             Sorted(CardsIn(j), position)[x] = c
      PROVE  j = k /\ x = i
  <2>1. PICK J : J = CardsIn(j)
    OBVIOUS
  <2>2. PICK m, t :
           /\ m \in 0..MaxCards /\ t = Sorted(J, position) /\ m = Cardinality(J)
           /\ t \in List(m, J) /\ Complete(t, m, J) /\ Once(t, m)
           /\ DOMAIN t = 1..m /\ ToSet(t) = J
    BY <2>1, ColumnShows
  <2>3. x \in 1..m /\ t[x] = c
    BY <1>8, <2>1, <2>2
  <2>4. c \in J
    BY <2>2, <2>3 DEF ToSet
  <2>5. j = k
    BY <1>1, <2>1, <2>4 DEF CardsIn
  <2>6. J = C
    BY <1>3, <2>1, <2>5
  <2>7. t = s
    BY <1>5, <2>2, <2>6
  <2>8. m = n
    BY <1>5, <2>2, <2>6
  <2>9. x = i
    BY <1>5, <1>6, <2>3, <2>7, <2>8 DEF Once
  <2>. QED
    BY <2>5, <2>9
<1>9. i \in DOMAIN Sorted(CardsIn(k), position) /\ Sorted(CardsIn(k), position)[i] = c
  BY <1>3, <1>5, <1>6
<1>. QED
  BY <1>2, <1>7, <1>8, <1>9

LEMMA SameSet ==
  ASSUME NEW s
  PROVE  Contract!ToSet(s) = ToSet(s)
BY DEF Contract!ToSet, ToSet

LEMMA ShownOnce ==
  ASSUME BoardInv
  PROVE  EachCardOnce
<1>. SUFFICES ASSUME OneAtATime, NEW c \in Contract!Cards, version[c] > 0
              PROVE  \E k \in Contract!ToSet(Sorted(columns, place)), i \in 1..MaxCards :
                       /\ i \in DOMAIN [j \in ColumnIds |-> Sorted(CardsIn(j), position)][k]
                       /\ [j \in ColumnIds |-> Sorted(CardsIn(j), position)][k][i] = c
                       /\ \A j \in Contract!Columns :
                            \A n \in DOMAIN [x \in ColumnIds |-> Sorted(CardsIn(x), position)][j] :
                              [x \in ColumnIds |-> Sorted(CardsIn(x), position)][j][n] = c
                                => j = k /\ n = i
  BY DEF EachCardOnce, Contract!EachCardOnce
<1>1. c \in CardIds /\ Contract!Columns = ColumnIds
  BY DEF CardIds, ColumnIds, Contract!Cards, Contract!Columns
<1>2. IInv /\ TInv /\ column[c] # 0
  BY <1>1 DEF BoardInv, Alone
<1>3. PICK k \in columns, i \in 1..MaxCards :
           /\ i \in DOMAIN Sorted(CardsIn(k), position)
           /\ Sorted(CardsIn(k), position)[i] = c
           /\ \A j \in ColumnIds : \A n \in DOMAIN Sorted(CardsIn(j), position) :
                Sorted(CardsIn(j), position)[n] = c => j = k /\ n = i
  BY <1>1, <1>2, CardShownOnce
<1>4. k \in Contract!ToSet(Sorted(columns, place)) /\ k \in ColumnIds
  BY <1>2, BoardShows, SameSet DEF IInv, RowTypes
<1>5. PICK f : f = [j \in ColumnIds |-> Sorted(CardsIn(j), position)]
  OBVIOUS
<1>6. \A j \in ColumnIds : f[j] = Sorted(CardsIn(j), position)
  BY <1>5
<1>7. i \in DOMAIN f[k] /\ f[k][i] = c
  BY <1>3, <1>4, <1>6
<1>8. \A j \in ColumnIds : \A n \in DOMAIN f[j] : f[j][n] = c => j = k /\ n = i
  BY <1>3, <1>6
<1>. QED
  BY <1>1, <1>4, <1>5, <1>7, <1>8

\* A card is shown in its column.
AllShown ==
  \A c \in CardIds : column[c] \in ColumnIds =>
    c \in Contract!ToSet([k \in ColumnIds |-> Sorted(CardsIn(k), position)][column[c]])

LEMMA ShownThere ==
  ASSUME TInv
  PROVE  AllShown
<1>. SUFFICES ASSUME NEW c \in CardIds, column[c] \in ColumnIds
              PROVE  c \in Contract!ToSet(Sorted(CardsIn(column[c]), position))
  BY DEF AllShown
<1>1. PICK C : C = CardsIn(column[c])
  OBVIOUS
<1>2. ToSet(Sorted(C, position)) = C
  BY <1>1, ColumnShows
<1>3. c \in C
  BY <1>1 DEF CardsIn
<1>. QED
  BY <1>1, <1>2, <1>3, SameSet

\* Only the end of a move takes a completed_at away.
LEMMA KeepsThem ==
  ASSUME [PlanNext]_planVars, completed \ completed' # {}
  PROVE  \E r \in Requests : Enter(r) /\ ~req[r].isDone /\ completed' = completed \ {req[r].card}
<1>1. ASSUME NEW r \in Requests, RequestStep(r)
      PROVE  completed \subseteq completed' \/ Enter(r)
  BY <1>1 DEF RequestStep, Abort, CreateColumn, InsertColumn, RenameColumn, DeleteColumn,
     CountColumns, DeleteRow, Reindex, ReorderColumns, WriteOrder, CreateCard, InsertCard,
     UpdateCard, MoveCard, Leave, cardRows
<1>2. ASSUME NEW r \in Requests, SprintStep(r) \/ SaveForm(r)
      PROVE  completed \subseteq completed'
  BY <1>2 DEF SprintStep, SaveForm, CreateSprint, CheckSprint, ReadSprint, WriteSprint,
     DeleteSprint, ClearSprint, AssignCard, WriteCard, MoveCard, cardRows, vars
<1>3. CASE PageStep \/ NextDay \/ UNCHANGED planVars
  BY <1>3 DEF PageStep, RefreshPage, CloseForm, OpenForm, PickColumn, PickSprint, NextDay,
     planVars, vars, cardRows
<1>4. PICK r \in Requests : Enter(r)
  BY <1>1, <1>2, <1>3 DEF PlanNext, BoardStep
<1>5. completed' = IF req[r].isDone THEN completed \cup {req[r].card} ELSE completed \ {req[r].card}
  BY <1>4 DEF Enter
<1>. QED
  BY <1>4, <1>5

LEMMA StepKeepsCompleted ==
  ASSUME BoardInv, AllShown', OneAtATime, [PlanNext]_planVars
  PROVE  Contract!KeepsCompleted
<1>. SUFFICES ASSUME NEW c \in completed \ completed'
              PROVE  /\ version'[c] > version[c]
                     /\ \E k \in Contract!ToSet(Sorted(columns, place)) \ done :
                          c \in Contract!ToSet([j \in ColumnIds |-> Sorted(CardsIn(j), position)]'[k])
  BY DEF Contract!KeepsCompleted
<1>1. PICK r \in Requests :
        Enter(r) /\ ~req[r].isDone /\ completed' = completed \ {req[r].card}
  BY KeepsThem
<1>2. PICK k : k = req[r].to
  OBVIOUS
<1>3. c = req[r].card /\ req[r].at = "enter"
  BY <1>1 DEF Enter
<1>4. Accept(c, req[r].base) /\ column' = [column EXCEPT ![c] = k] /\ k \in columns
  BY <1>1, <1>2, <1>3 DEF Enter
<1>5. c \in CardIds /\ version \in [CardIds -> Nat] /\ column \in [CardIds -> Nat]
      /\ columns \subseteq ColumnIds
  BY DEF BoardInv, TInv, RowsInv, IInv, RowTypes
<1>6. version'[c] > version[c]
  BY <1>4, <1>5 DEF Accept
<1>7. column'[c] = k
  BY <1>4, <1>5
<1>8. k \notin done
  BY <1>1, <1>2, <1>3 DEF BoardInv, Alone, Sees
<1>9. k \in Contract!ToSet(Sorted(columns, place))
  BY <1>4, BoardShows, SameSet DEF BoardInv
<1>10. c \in Contract!ToSet([j \in ColumnIds |-> Sorted(CardsIn(j), position)]'[k])
  BY <1>4, <1>5, <1>7 DEF AllShown
<1>. QED
  BY <1>6, <1>8, <1>9, <1>10

-----------------------------------------------------------------------------
(* The lists of the API, and what a request makes of them.                 *)

Cols  == Sorted(columns, place)
Lists == [k \in ColumnIds |-> Sorted(CardsIn(k), position)]

\* The columns that are left, and the cards.
Remaining(k) == columns \ {k}
Others(k, c) == CardsIn(k) \ {c}

AtMost(n, m) == Min({n, m})

\* The lists of a request's statements are what the API shows.
Plans(q) ==
  /\ q.at \in {"delete", "reindex"} => Cardinality(columns) > 1
  /\ q.at = "reindex" => q.order = Sorted(Remaining(q.column), place)
  /\ q.at = "reorder" =>
       \E n \in Nat : /\ n = Cardinality(columns) /\ q.order \in List(n, columns)
                      /\ Once(q.order, n) /\ Complete(q.order, n, columns)
  /\ q.at = "insert column" => \A k \in columns : place[k] < q.place
  /\ q.at = "insert card" => q.column \in columns /\ q.position = Cardinality(CardsIn(q.column))
  /\ q.at \in {"leave", "enter"} =>
       /\ q.to \in columns /\ q.to # q.from /\ q.asked \in 0..MaxCards
       /\ column[q.card] = q.from
  /\ q.at = "leave" => q.left = Sorted(Others(q.from, q.card), position)
  /\ q.at = "enter" =>
       /\ q.writes = Numbered(Sorted(Others(q.from, q.card), position))
       /\ q.ids = Sorted(CardsIn(q.to), position)
       /\ q.position = AtMost(q.asked, Len(q.ids))

\* The positions of a column's cards are less than their number.
Dense ==
  \A c \in CardIds : column[c] # 0 => position[c] < Cardinality(CardsIn(column[c]))

AsPlanned == Dense /\ \A r \in Requests : Plans(req[r])

\* What one request at a time relies on.
OneInv == IInv /\ TInv /\ OneAtATime /\ Alone /\ AsPlanned

LEMMA IdlePlans ==
  Plans(Idle) /\ Plans(Idle)'
<1>1. Idle.at = "idle"
  BY DEF Idle
<1>. QED
  BY <1>1 DEF Plans

LEMMA OnePlans ==
  ASSUME OneInv, NEW r \in Requests, r \in load.requests,
         NEW s, req' = [req EXCEPT ![r] = s], Plans(s)', Dense'
  PROVE  AsPlanned'
<1>1. req'[r] = s /\ \A q \in Requests \ {r} : req'[q] = req[q]
  BY DEF OneInv, IInv, RowTypes
<1>2. \A q \in Requests \ {r} : req'[q] = Idle
  BY <1>1, OthersAreIdle DEF OneInv
<1>3. ASSUME NEW q \in Requests PROVE Plans(req[q])'
  <2>1. CASE q = r
    BY <1>1, <2>1 DEF Plans
  <2>2. CASE q # r
    <3>1. req'[q] = Idle
      BY <1>2, <2>2
    <3>. QED
      BY <3>1, IdlePlans DEF Plans
  <2>. QED
    BY <2>1, <2>2
<1>. QED
  BY <1>3 DEF AsPlanned

LEMMA OneReadsOn ==
  ASSUME OneInv, NEW r \in Requests, r \in load.requests,
         NEW s, req' = [req EXCEPT ![r] = s], Plans(s), UNCHANGED <<columnRows, cardRows>>
  PROVE  AsPlanned'
<1>1. Plans(s)'
  BY DEF columnRows, cardRows, Plans, CardsIn, Others, Remaining
<1>2. Dense'
  BY DEF cardRows, OneInv, AsPlanned, Dense, CardsIn
<1>. QED
  BY <1>1, <1>2, OnePlans

\* The request ends.
LEMMA OneEnds ==
  ASSUME OneInv, NEW r \in Requests, r \in load.requests, req' = [req EXCEPT ![r] = Idle], Dense'
  PROVE  AsPlanned'
BY IdlePlans, OnePlans

\* A new column comes behind the others.
LEMMA CreateColumnPlans ==
  ASSUME OneInv, NEW r \in Requests, CreateColumn(r)
  PROVE  AsPlanned'
<1>1. PICK s, taken :
           /\ taken = {place[k] : k \in columns}
           /\ req' = [req EXCEPT ![r] = s] /\ s.at = "insert column"
           /\ columns = {} => s.place = 0
           /\ columns # {} => s.place = 1 + Max(taken)
  BY CreateColumnReads
<1>2. /\ req' = [req EXCEPT ![r] = s] /\ s.at = "insert column"
      /\ taken = {place[k] : k \in columns}
  BY <1>1, Zenon
<1>3. r \in load.requests /\ UNCHANGED <<columnRows, cardRows>>
  BY DEF CreateColumn, Called
<1>4. ASSUME NEW k \in columns PROVE place[k] < s.place
  <2>1. taken \in SUBSET Nat /\ taken # {} /\ place[k] \in taken
    BY <1>2 DEF OneInv, TInv, RowsInv, IInv, RowTypes
  <2>2. IsFiniteSet(taken)
    <3>1. columns \in SUBSET ColumnIds
      BY DEF OneInv, IInv, RowTypes
    <3>2. IsFiniteSet(columns)
      BY <3>1, ColumnsOrderable DEF OneInv, TInv, RowsInv, Orderable
    <3>3. PICK f : f = [j \in columns |-> place[j]]
      OBVIOUS
    <3>4. f \in Surjection(columns, taken)
      BY <1>2, <3>3 DEF Surjection
    <3>. QED
      BY <3>2, <3>4, FS_Surjection
  <2>3. PICK m : m = Max(taken)
    OBVIOUS
  <2>4. m \in Nat /\ place[k] \in Nat /\ place[k] <= m
    BY <2>1, <2>2, <2>3, GreatestIs
  <2>5. s.place = 1 + Max(taken)
    BY <1>1, Zenon
  <2>. QED
    BY <2>3, <2>4, <2>5
<1>5. Plans(s)
  BY <1>2, <1>4 DEF Plans
<1>. QED
  BY <1>2, <1>3, <1>5, OneReadsOn

\* The new order names each column once.
LEMMA ReorderPlans ==
  ASSUME OneInv, NEW r \in Requests, ReorderColumns(r)
  PROVE  AsPlanned'
<1>1. PICK order \in SetToAllKPermutations(columns) :
        /\ Len(order) = Cardinality(columns)
        /\ req' = [req EXCEPT ![r] = [at |-> "reorder", order |-> order]]
  BY DEF ReorderColumns, Goto
<1>2. PICK S \in SUBSET columns : order \in SetToSeqs(S)
  BY <1>1 DEF SetToAllKPermutations
<1>3. columns \in SUBSET ColumnIds /\ S \in SUBSET ColumnIds
  BY DEF OneInv, IInv, RowTypes
<1>4. IsFiniteSet(columns) /\ IsFiniteSet(S)
  BY <1>3, ColumnsOrderable DEF OneInv, TInv, RowsInv, Orderable
<1>5. PICK n \in Nat : n = Cardinality(S)
  BY <1>4, FS_CardinalityType
<1>6. order \in List(n, S) /\ Once(order, n)
  BY <1>2, <1>5 DEF SetToSeqs, List, Once
<1>7. Len(order) = n
  BY <1>6, ListLen
<1>8. S = columns /\ n = Cardinality(columns)
  BY <1>1, <1>4, <1>5, <1>7, FS_Subset
<1>9. Complete(order, n, columns)
  <2>1. PICK D : D = 1..n
    OBVIOUS
  <2>2. IsFiniteSet(D) /\ Cardinality(D) = n
    <3>1. 1 \in Int /\ n \in Int
      OBVIOUS
    <3>. QED
      BY <2>1, <3>1, FS_Interval
  <2>3. order \in Injection(D, columns)
    BY <1>6, <1>8, <2>1 DEF List, Once, Injection, IsInjective
  <2>4. order \in Surjection(D, columns)
    BY <1>4, <1>8, <2>2, <2>3, FS_Injection
  <2>. QED
    BY <2>1, <2>4 DEF Surjection, Complete
<1>10. PICK s : s = [at |-> "reorder", order |-> order]
  OBVIOUS
<1>11. s.at = "reorder" /\ s.order = order
  BY <1>10
<1>12. Plans(s)
  BY <1>6, <1>8, <1>9, <1>11 DEF Plans
<1>13. r \in load.requests /\ req' = [req EXCEPT ![r] = s] /\ UNCHANGED <<columnRows, cardRows>>
  BY <1>1, <1>10 DEF ReorderColumns, Called
<1>. QED
  BY <1>12, <1>13, OneReadsOn

LEMMA MovePlans ==
  ASSUME NotWithinColumn, OneInv, NEW r \in Requests, NEW c \in CardIds, NEW base, NEW to,
         NEW n \in 0..MaxCards, MoveCard(r, c, base, to, n)
  PROVE  AsPlanned'
<1>1. PICK s, others :
           /\ others = CardsIn(column[c]) \ {c}
           /\ req' = [req EXCEPT ![r] = s] /\ s.at = "leave"
           /\ s.card = c /\ s.from = column[c] /\ s.to = to /\ s.asked = n
           /\ (s.isDone <=> to \in done) /\ s.left = Sorted(others, position)
  BY MoveCardReads
<1>2. others = Others(s.from, s.card)
  BY <1>1 DEF Others
<1>3. /\ r \in load.requests /\ to \in columns /\ UNCHANGED <<columnRows, cardRows>>
      /\ (IF to = column[c] THEN "move within column" ELSE "move card") \in load.calls
  BY DEF MoveCard, Called
<1>4. to # column[c]
  BY <1>3 DEF NotWithinColumn, OneInv, OneAtATime, TInv, RowsInv
<1>5. Plans(s)
  BY <1>1, <1>2, <1>3, <1>4 DEF Plans
<1>. QED
  BY <1>1, <1>3, <1>5, OneReadsOn

\* Renumbering the cards left behind is nothing to the target column.
LEMMA LeavePlans ==
  ASSUME OneInv, NEW r \in Requests, Leave(r)
  PROVE  AsPlanned'
<1>1. PICK s, w, ids :
           /\ w = Numbered(req[r].left)
           /\ ids = Sorted(CardsIn(req[r].to), Written(position, w, CardIds))
           /\ req' = [req EXCEPT ![r] = s] /\ s.at = "enter"
           /\ s.card = req[r].card /\ s.from = req[r].from /\ s.to = req[r].to
           /\ s.asked = req[r].asked /\ (s.isDone <=> req[r].isDone)
           /\ s.writes = w /\ s.ids = ids /\ s.position = Min({req[r].asked, Len(ids)})
  BY LeaveReads
<1>2. PICK from, to, c : from = req[r].from /\ to = req[r].to /\ c = req[r].card
  OBVIOUS
<1>3. /\ req[r].at = "leave" /\ UNCHANGED <<columnRows, cardRows>>
      /\ r \in load.requests
  BY IdleTyped DEF Leave, OneInv, TInv, OnlyAsked
<1>4. /\ to \in columns /\ to # from /\ req[r].asked \in 0..MaxCards
      /\ column[c] = from
      /\ req[r].left = Sorted(Others(from, c), position)
  BY <1>2, <1>3 DEF OneInv, AsPlanned, Plans
<1>5. PICK O : O = Others(from, c)
  OBVIOUS
<1>6. O \in SUBSET CardIds /\ Orderable(O, position)
  BY <1>5, CardsOrderable DEF Others, CardsIn, OneInv, TInv, RowsInv
<1>7. PICK left : left = Sorted(O, position)
  OBVIOUS
<1>8. DOMAIN w = O /\ \A x \in DOMAIN w : w[x] \in Nat
  <2>1. PICK n \in Nat : n = Cardinality(O)
    BY <1>6, FS_CardinalityType DEF Orderable
  <2>2. left \in List(n, O) /\ ToSet(left) = O
    BY <1>6, <1>7, <2>1, SortedIs, OrderIsOnce
  <2>3. w = Numbered(left)
    BY <1>1, <1>4, <1>5, <1>7
  <2>. QED
    BY <2>1, <2>2, <2>3, NumberedIs, NumberedType
<1>9. PICK pos : pos = Written(position, w, CardIds)
  OBVIOUS
<1>10. pos \in [CardIds -> Nat]
  BY <1>8, <1>9, WrittenType DEF OneInv, TInv, RowsInv
<1>11. PICK C : C = CardsIn(to)
  OBVIOUS
<1>12. C \in SUBSET CardIds /\ C \cap O = {}
  BY <1>4, <1>5, <1>11 DEF CardsIn, Others
<1>13. Orderable(C, position)
  BY <1>12, CardsOrderable DEF OneInv, TInv, RowsInv
<1>14. Orderable(C, pos)
  BY <1>10, <1>12, <1>13, Numbers DEF Orderable
<1>15. \A a \in C : pos[a] = position[a]
  BY <1>8, <1>9, <1>12 DEF Written, OneInv, TInv, RowsInv
<1>16. ids = Sorted(C, position)
  BY <1>1, <1>2, <1>9, <1>11, <1>13, <1>14, <1>15, SameOrder
<1>17. /\ s.writes = Numbered(Sorted(Others(s.from, s.card), position))
       /\ s.ids = Sorted(CardsIn(s.to), position)
       /\ s.position = AtMost(s.asked, Len(s.ids))
  BY <1>1, <1>2, <1>4, <1>11, <1>16 DEF AtMost
<1>18. /\ s.to \in columns /\ s.to # s.from /\ s.asked \in 0..MaxCards
       /\ column[s.card] = s.from
  BY <1>1, <1>2, <1>4
<1>19. s.at = "enter"
  BY <1>1
<1>20. Plans(s)
  BY <1>17, <1>18, <1>19 DEF Plans
<1>. QED
  BY <1>1, <1>3, <1>20, OneReadsOn

-----------------------------------------------------------------------------
(* The steps of the contract.                                              *)

\* Board.tla has the community modules of its own.
LEMMA SameOperators ==
  /\ \A s : Contract!ToSet(s) = ToSet(s)
  /\ \A s, x : Contract!RemoveFirst(s, x) = RemoveFirst(s, x)
  /\ \A s, i, x : Contract!InsertAt(s, i, x) = InsertAt(s, i, x)
  /\ \A n, m : Contract!Min({n, m}) = AtMost(n, m)
  /\ \A f : Contract!IsInjective(f) <=> IsInjective(f)
  /\ Contract!Columns = ColumnIds /\ Contract!Cards = CardIds
<1>1. \A s : Contract!ToSet(s) = ToSet(s)
  BY DEF Contract!ToSet, ToSet
<1>2. \A S : Contract!Min(S) = Min(S)
  BY DEF Contract!Min, Min
<1>3. \A s, i : Contract!RemoveAt(s, i) = RemoveAt(s, i)
  BY DEF Contract!RemoveAt, RemoveAt
<1>4. \A s, x : Contract!RemoveFirst(s, x) = RemoveFirst(s, x)
  BY <1>2, <1>3 DEF Contract!RemoveFirst, RemoveFirst, Contract!SelectInSeq, SelectInSeq
<1>5. \A s, i, x : Contract!InsertAt(s, i, x) = InsertAt(s, i, x)
  BY DEF Contract!InsertAt, InsertAt
<1>6. \A f : Contract!IsInjective(f) <=> IsInjective(f)
  BY DEF Contract!IsInjective, IsInjective
<1>7. Contract!Columns = ColumnIds /\ Contract!Cards = CardIds
  BY DEF Contract!Columns, Contract!Cards, ColumnIds, CardIds
<1>. QED
  BY <1>1, <1>2, <1>4, <1>5, <1>6, <1>7 DEF AtMost

LEMMA SameRows ==
  ASSUME UNCHANGED <<columnRows, cardRows>>
  PROVE  UNCHANGED Contract!vars
BY DEF columnRows, cardRows, Contract!vars, CardsIn

\* The cards of the columns stay as they are.
LEMMA SameLists ==
  ASSUME UNCHANGED <<column, position>>
  PROVE  Lists' = Lists /\ \A k : CardsIn(k)' = CardsIn(k)
BY DEF Lists, CardsIn

LEMMA SameCols ==
  ASSUME UNCHANGED <<columns, place>>
  PROVE  Cols' = Cols
BY DEF Cols

\* As Board has them.
LEMMA ColsAndLists ==
  ASSUME OneInv
  PROVE  /\ ToSet(Cols) = columns /\ Len(Cols) = Cardinality(columns)
         /\ Cardinality(columns) \in Nat
         /\ DOMAIN Cols = 1..Cardinality(columns)
         /\ \A k \in ColumnIds : ToSet(Lists[k]) = CardsIn(k)
<1>1. Orderable(columns, place)
  BY ColumnsOrderable DEF OneInv, IInv, RowTypes, TInv, RowsInv
<1>2. PICK n \in Nat : n = Cardinality(columns)
  BY <1>1, FS_CardinalityType DEF Orderable
<1>3. IsOrder(Cols, columns, place)
  BY <1>1, SortedIs DEF Cols
<1>4. Cols \in List(n, columns) /\ ToSet(Cols) = columns /\ Len(Cols) = n
  BY <1>1, <1>2, <1>3, OrderIsOnce
<1>5. DOMAIN Cols = 1..n
  BY <1>4, ListLen
<1>6. ASSUME NEW k \in ColumnIds PROVE ToSet(Lists[k]) = CardsIn(k)
  <2>1. PICK C : C = CardsIn(k)
    OBVIOUS
  <2>2. ToSet(Sorted(C, position)) = C
    BY <2>1, ColumnShows DEF OneInv
  <2>3. Lists[k] = Sorted(C, position)
    BY <2>1 DEF Lists
  <2>. QED
    BY <2>1, <2>2, <2>3
<1>. QED
  BY <1>2, <1>4, <1>5, <1>6

\* INSERT of a column, behind the others.
LEMMA InsertColumnIs ==
  ASSUME OneInv, NEW r \in Requests, NEW isDone \in BOOLEAN, InsertColumn(r, isDone)
  PROVE  Contract!CreateColumn(isDone) /\ AsPlanned'
<1>1. PICK k, p : k = nextColumn /\ p = req[r].place
  OBVIOUS
<1>2. /\ req[r].at = "insert column" /\ k \in ColumnIds
      /\ columns' = columns \cup {k} /\ place' = [place EXCEPT ![k] = p]
      /\ nextColumn' = k + 1 /\ req' = [req EXCEPT ![r] = Idle]
      /\ UNCHANGED <<column, position, version, completed, nextCard>>
  BY <1>1 DEF InsertColumn, Goto, cardRows
<1>3. /\ k \notin columns /\ columns \in SUBSET ColumnIds /\ done \subseteq columns
      /\ place \in [ColumnIds -> Nat]
  BY <1>1 DEF OneInv, IInv, RowTypes, TInv, RowsInv
<1>4. p \in Nat /\ \A j \in columns : place[j] < p
  BY <1>1, <1>2 DEF OneInv, TInv, AllTyped, Typed, AsPlanned, Plans
<1>5. place' \in [ColumnIds -> Nat] /\ place'[k] = p /\ \A j \in columns : place'[j] = place[j]
  BY <1>2, <1>3, <1>4
<1>6. PICK pos : pos = place'
  OBVIOUS
<1>7. PICK all : all = columns \cup {k}
  OBVIOUS
<1>8. all \in SUBSET ColumnIds
  BY <1>2, <1>3, <1>7
<1>9. Orderable(columns, place)
  BY <1>3, ColumnsOrderable
<1>10. Orderable(all, pos) /\ Orderable(columns, pos)
  <2>1. Orderable(all, place)
    BY <1>3, <1>8, ColumnsOrderable
  <2>. QED
    BY <1>3, <1>5, <1>6, <1>7, <1>8, <1>9, <2>1 DEF Orderable
<1>11. \A j \in columns : Before(pos, j, k)
  BY <1>4, <1>5, <1>6 DEF Before
<1>12. Sorted(all, pos) = Append(Sorted(columns, pos), k)
  BY <1>3, <1>7, <1>10, <1>11, OrderAppend
<1>13. Sorted(columns, pos) = Sorted(columns, place)
  BY <1>5, <1>6, <1>9, <1>10, SameOrder
<1>14. Cols' = Append(Cols, nextColumn)
  BY <1>1, <1>2, <1>6, <1>7, <1>12, <1>13 DEF Cols
<1>15. Lists' = Lists
  BY <1>2, SameLists
<1>16. done' = Contract!Named(done, nextColumn, isDone)
  BY <1>1, <1>3 DEF InsertColumn, Contract!Named
<1>17. Contract!CreateColumn(isDone)
  BY <1>1, <1>2, <1>14, <1>15, <1>16, SameOperators DEF Contract!CreateColumn, Cols, Lists
<1>18. Dense'
  BY <1>2 DEF OneInv, AsPlanned, Dense, CardsIn
<1>19. r \in load.requests
  BY <1>2, IdleTyped DEF OneInv, TInv, OnlyAsked
<1>. QED
  BY <1>2, <1>17, <1>18, <1>19, OneEnds

LEMMA RenameColumnIs ==
  ASSUME OneInv, NEW r \in Requests, NEW k \in ColumnIds, NEW isDone \in BOOLEAN,
         RenameColumn(r, k, isDone)
  PROVE  Contract!RenameColumn(k, isDone) /\ AsPlanned'
<1>1. /\ k \in columns /\ r \in load.requests /\ req[r] = Idle /\ req' = req
      /\ UNCHANGED <<columns, place, nextColumn, column, position, version, completed, nextCard>>
  BY DEF RenameColumn, Called, cardRows
<1>2. done' = Contract!Named(done, k, isDone)
  BY DEF RenameColumn, Contract!Named
<1>3. Cols' = Cols /\ Lists' = Lists /\ k \in ToSet(Cols)
  BY <1>1, SameCols, SameLists, ColsAndLists
<1>4. Contract!RenameColumn(k, isDone)
  BY <1>1, <1>2, <1>3, SameOperators
  DEF Contract!RenameColumn, Contract!OnBoard, Cols, Lists
<1>5. Dense'
  BY <1>1 DEF OneInv, AsPlanned, Dense, CardsIn
<1>6. req' = [req EXCEPT ![r] = Idle]
  BY <1>1 DEF OneInv, IInv, RowTypes
<1>. QED
  BY <1>1, <1>4, <1>5, <1>6, OneEnds

\* Positions that are numbered down a list of the columns put them in its order.
LEMMA InThatOrder ==
  ASSUME OneInv, NEW ids \in SUBSET ColumnIds, NEW n \in Nat, n = Cardinality(ids),
         NEW s \in List(n, ids), Once(s, n), Complete(s, n, ids),
         NEW pos \in [ColumnIds -> Nat], \A k \in ids : pos[k] = Numbered(s)[k]
  PROVE  Sorted(ids, pos) = s
<1>1. Orderable(ids, pos)
  <2>1. Orderable(ids, place)
    BY ColumnsOrderable DEF OneInv, TInv, RowsInv
  <2>. QED
    BY <2>1 DEF Orderable
<1>2. \A i \in 1..n : s[i] \in ids /\ Numbered(s)[s[i]] = i - 1
  BY ListLen, NumberedOnce
<1>3. \A i \in 1..n : pos[s[i]] = i - 1
  BY <1>2
<1>. QED
  BY <1>1, <1>3, NumberedInOrder

\* DELETE of an empty column.
LEMMA ReindexIs ==
  ASSUME OneInv, NEW r \in Requests, Reindex(r)
  PROVE  (\E k \in ColumnIds : Contract!DeleteColumn(k)) /\ AsPlanned'
<1>1. PICK k, order, w : /\ k = req[r].column /\ order = req[r].order
                         /\ w = Written(place, Numbered(order), columns)
  OBVIOUS
<1>2. /\ req[r].at = "reindex" /\ columns' = columns \ {k} /\ done' = done \ {k}
      /\ place' = [w EXCEPT ![k] = 0]
      /\ column' = [c \in CardIds |-> IF column[c] = k THEN 0 ELSE column[c]]
      /\ req' = [req EXCEPT ![r] = Idle]
      /\ UNCHANGED <<nextColumn, position, version, completed, nextCard>>
  BY <1>1 DEF Reindex, Goto
<1>3. k \in columns /\ CardsIn(k) = {}
  BY <1>1, <1>2 DEF OneInv, Alone, Sees
<1>4. order = Sorted(Remaining(k), place) /\ Cardinality(columns) > 1
  BY <1>1, <1>2 DEF OneInv, AsPlanned, Plans
<1>5. columns \in SUBSET ColumnIds /\ place \in [ColumnIds -> Nat]
  BY DEF OneInv, IInv, RowTypes, TInv, RowsInv
<1>6. w \in [ColumnIds -> Nat]
  BY <1>1, <1>2, PlacesWritten DEF OneInv
<1>7. PICK ids : ids = Remaining(k)
  OBVIOUS
<1>8. ids \in SUBSET ColumnIds /\ ids \subseteq columns \ {k}
  BY <1>5, <1>7 DEF Remaining
<1>9. Orderable(ids, place)
  BY <1>5, <1>8, ColumnsOrderable
<1>10. PICK n \in Nat : n = Cardinality(ids)
  BY <1>9, FS_CardinalityType DEF Orderable
<1>11. /\ order \in List(n, ids) /\ Once(order, n) /\ Complete(order, n, ids)
       /\ ToSet(order) = ids
  BY <1>4, <1>7, <1>9, <1>10, SortedIs, OrderIsOnce
<1>12. DOMAIN Numbered(order) = ids
  BY <1>10, <1>11, NumberedIs
<1>13. PICK pos : pos = place'
  OBVIOUS
<1>14. pos \in [ColumnIds -> Nat]
  BY <1>2, <1>6, <1>13
<1>15. \A j \in ids : pos[j] = Numbered(order)[j]
  <2>1. \A j \in ids : w[j] = Numbered(order)[j]
    BY <1>1, <1>5, <1>8, <1>12 DEF Written
  <2>2. \A j \in ids : pos[j] = w[j]
    BY <1>2, <1>6, <1>8, <1>13
  <2>. QED
    BY <2>1, <2>2
<1>16. Sorted(ids, pos) = order
  BY <1>8, <1>10, <1>11, <1>14, <1>15, InThatOrder
<1>17. order = RemoveFirst(Cols, k)
  <2>1. Orderable(columns, place)
    BY <1>5, ColumnsOrderable
  <2>2. Sorted(columns \ {k}, place) = RemoveFirst(Sorted(columns, place), k)
    BY <2>1, OrderWithout
  <2>. QED
    BY <1>4, <2>2 DEF Remaining, Cols
<1>18. Cols' = RemoveFirst(Cols, k)
  BY <1>2, <1>7, <1>13, <1>16, <1>17 DEF Cols, Remaining
<1>19. column' = column
  <2>1. \A c \in CardIds : column[c] # k
    BY <1>3 DEF CardsIn
  <2>2. column = [c \in CardIds |-> column[c]]
    BY DEF OneInv, IInv, RowTypes
  <2>. QED
    BY <1>2, <2>1, <2>2
<1>20. Lists' = Lists
  BY <1>2, <1>19, SameLists
<1>21. Lists[k] = <<>>
  <2>1. ToSet(Lists[k]) = {}
    BY <1>3, <1>5, ColsAndLists
  <2>2. PICK C : C = CardsIn(k)
    OBVIOUS
  <2>3. Lists[k] = Sorted(C, position) /\ C = {}
    BY <1>3, <1>5, <2>2 DEF Lists
  <2>4. Cardinality(C) = 0
    BY <2>3, FS_EmptySet
  <2>5. PICK m, s :
           /\ m \in 0..MaxCards /\ s = Sorted(C, position) /\ m = Cardinality(C)
           /\ s \in List(m, C) /\ Complete(s, m, C) /\ Once(s, m)
           /\ DOMAIN s = 1..m /\ ToSet(s) = C
    BY <2>2, ColumnShows DEF OneInv
  <2>6. s \in [1..0 -> C]
    BY <2>4, <2>5 DEF List
  <2>. QED
    BY <2>3, <2>5, <2>6
<1>22. k \in ToSet(Cols) /\ Len(Cols) > 1 /\ k \in ColumnIds
  BY <1>3, <1>4, <1>5, ColsAndLists
<1>23. Contract!DeleteColumn(k)
  BY <1>2, <1>18, <1>20, <1>21, <1>22, SameOperators
  DEF Contract!DeleteColumn, Contract!OnBoard, Cols, Lists
<1>24. Dense'
  BY <1>2, <1>19 DEF OneInv, AsPlanned, Dense, CardsIn
<1>25. r \in load.requests
  BY <1>2, IdleTyped DEF OneInv, TInv, OnlyAsked
<1>. QED
  BY <1>2, <1>22, <1>23, <1>24, <1>25, OneEnds

\* The columns in an order that names each of them once.
LEMMA WriteOrderIs ==
  ASSUME OneInv, NEW r \in Requests, WriteOrder(r)
  PROVE  Contract!ReorderColumns /\ AsPlanned'
<1>1. PICK order : order = req[r].order
  OBVIOUS
<1>2. /\ req[r].at = "reorder" /\ place' = Written(place, Numbered(order), columns)
      /\ req' = [req EXCEPT ![r] = Idle]
      /\ UNCHANGED <<columns, done, nextColumn, column, position, version, completed, nextCard>>
  BY <1>1 DEF WriteOrder, Goto, cardRows
<1>3. PICK n \in Nat :
        /\ n = Cardinality(columns) /\ order \in List(n, columns)
        /\ Once(order, n) /\ Complete(order, n, columns)
  BY <1>1, <1>2 DEF OneInv, AsPlanned, Plans
<1>4. columns \in SUBSET ColumnIds /\ place \in [ColumnIds -> Nat]
  BY DEF OneInv, IInv, RowTypes, TInv, RowsInv
<1>5. DOMAIN Numbered(order) = columns
  <2>1. DOMAIN Numbered(order) = ToSet(order) /\ DOMAIN order = 1..n /\ \A i \in 1..n : order[i] \in columns
    BY <1>3, NumberedIs, ListLen
  <2>. QED
    BY <1>3, <2>1 DEF ToSet, Complete
<1>6. PICK pos : pos = place'
  OBVIOUS
<1>7. pos \in [ColumnIds -> Nat]
  BY <1>1, <1>2, <1>6, PlacesWritten DEF OneInv
<1>8. \A k \in columns : pos[k] = Numbered(order)[k]
  BY <1>2, <1>4, <1>5, <1>6 DEF Written
<1>9. Sorted(columns, pos) = order
  BY <1>3, <1>4, <1>7, <1>8, InThatOrder
<1>10. Cols' = order
  BY <1>2, <1>6, <1>9 DEF Cols
<1>11. order \in [DOMAIN Cols -> ToSet(Cols)] /\ IsInjective(order)
  <2>1. DOMAIN Cols = 1..n /\ ToSet(Cols) = columns
    BY <1>3, ColsAndLists
  <2>. QED
    BY <1>3, <2>1 DEF List, Once, IsInjective
<1>12. Lists' = Lists
  BY <1>2, SameLists
<1>13. Contract!ReorderColumns
  BY <1>2, <1>10, <1>11, <1>12, SameOperators DEF Contract!ReorderColumns, Cols, Lists
<1>14. Dense'
  BY <1>2 DEF OneInv, AsPlanned, Dense, CardsIn
<1>15. r \in load.requests
  BY <1>2, IdleTyped DEF OneInv, TInv, OnlyAsked
<1>. QED
  BY <1>2, <1>13, <1>14, <1>15, OneEnds

\* INSERT of a card, behind the others of its column.
LEMMA InsertCardIs ==
  ASSUME OneInv, NEW r \in Requests, InsertCard(r)
  PROVE  (\E k \in ColumnIds : Contract!CreateCard(k)) /\ AsPlanned'
<1>1. PICK c, k, p : c = nextCard /\ k = req[r].column /\ p = req[r].position
  OBVIOUS
<1>2. /\ req[r].at = "insert card" /\ c \in CardIds /\ k \in columns
      /\ column' = [column EXCEPT ![c] = k] /\ position' = [position EXCEPT ![c] = p]
      /\ version' = [version EXCEPT ![c] = 1]
      /\ completed' = IF req[r].isDone THEN completed \cup {c} ELSE completed
      /\ nextCard' = c + 1 /\ req' = [req EXCEPT ![r] = Idle]
      /\ UNCHANGED <<columns, place, done, nextColumn>>
  BY <1>1 DEF InsertCard, Goto, columnRows
<1>3. PICK C : C = CardsIn(k)
  OBVIOUS
<1>4. p = Cardinality(C) /\ (req[r].isDone <=> k \in done)
  BY <1>1, <1>2, <1>3 DEF OneInv, AsPlanned, Plans, Alone, Sees
<1>5. /\ column \in [CardIds -> Nat] /\ position \in [CardIds -> Nat] /\ column[c] = 0
      /\ k \in ColumnIds /\ k # 0
  <2>1. column[c] = 0
    <3>1. c >= nextCard
      BY <1>1 DEF OneInv, IInv, RowTypes
    <3>2. version[c] = 0
      BY <1>2, <3>1 DEF OneInv, IInv, NotYetCreated
    <3>. QED
      BY <1>2, <3>2 DEF OneInv, IInv, NotYetCreated
  <2>. QED
    BY <1>2, <2>1, Numbers DEF OneInv, IInv, RowTypes, TInv, RowsInv
<1>6. C \in SUBSET CardIds /\ c \notin C
  BY <1>3, <1>5 DEF CardsIn
<1>7. Orderable(C, position)
  BY <1>5, <1>6, CardsOrderable
<1>8. p \in Nat
  BY <1>4, <1>7, FS_CardinalityType DEF Orderable
<1>9. PICK all, pos : all = C \cup {c} /\ pos = position'
  OBVIOUS
<1>10. /\ pos \in [CardIds -> Nat] /\ pos[c] = p
       /\ \A a \in CardIds \ {c} : pos[a] = position[a]
  BY <1>2, <1>5, <1>8, <1>9
<1>11. all \in SUBSET CardIds
  BY <1>2, <1>6, <1>9
<1>12. Orderable(all, pos) /\ Orderable(C, pos)
  <2>1. Orderable(all, position)
    BY <1>5, <1>11, CardsOrderable
  <2>. QED
    BY <1>6, <1>7, <1>10, <1>11, <2>1 DEF Orderable
<1>13. \A a \in C : position[a] < p
  BY <1>3, <1>4, <1>5, <1>6 DEF OneInv, AsPlanned, Dense, CardsIn
<1>14. \A a \in C : Before(pos, a, c)
  <2>1. \A a \in C : pos[a] < pos[c]
    BY <1>6, <1>10, <1>13
  <2>. QED
    BY <2>1 DEF Before
<1>15. Sorted(all, pos) = Append(Sorted(C, pos), c)
  BY <1>6, <1>9, <1>12, <1>14, OrderAppend
<1>16. Sorted(C, pos) = Sorted(C, position)
  BY <1>6, <1>7, <1>10, <1>12, SameOrder
<1>17. CardsIn(k)' = all
  BY <1>2, <1>3, <1>5, <1>9 DEF CardsIn
<1>18. \A j \in ColumnIds : j # k => CardsIn(j)' = CardsIn(j)
  <2>1. \A j \in ColumnIds : j # 0
    BY Numbers
  <2>. QED
    BY <1>2, <1>5, <2>1 DEF CardsIn
<1>19. ASSUME NEW j \in ColumnIds, j # k
       PROVE  Sorted(CardsIn(j), position)' = Sorted(CardsIn(j), position)
  <2>1. PICK J : J = CardsIn(j)
    OBVIOUS
  <2>2. J \in SUBSET CardIds /\ c \notin J
    <3>1. j # 0
      BY Numbers
    <3>. QED
      BY <1>5, <2>1, <3>1 DEF CardsIn
  <2>3. Orderable(J, position)
    BY <1>5, <2>2, CardsOrderable
  <2>4. Orderable(J, pos)
    BY <1>10, <2>2, <2>3 DEF Orderable
  <2>5. Sorted(J, pos) = Sorted(J, position)
    BY <1>10, <2>2, <2>3, <2>4, SameOrder
  <2>6. CardsIn(j)' = J
    BY <1>18, <1>19, <2>1
  <2>. QED
    BY <1>9, <2>1, <2>5, <2>6
<1>20. Lists' = [Lists EXCEPT ![k] = Append(@, nextCard)]
  <2>1. PICK L2 : L2 = Lists'
    OBVIOUS
  <2>2. L2 = [j \in ColumnIds |-> Sorted(CardsIn(j), position)']
    BY <2>1 DEF Lists
  <2>3. L2[k] = Append(Lists[k], c)
    BY <1>3, <1>5, <1>9, <1>15, <1>16, <1>17, <2>2 DEF Lists
  <2>4. \A j \in ColumnIds : j # k => L2[j] = Lists[j]
    BY <1>19, <2>2 DEF Lists
  <2>5. PICK a : a = Append(Lists[k], c)
    OBVIOUS
  <2>6. L2 = [Lists EXCEPT ![k] = a]
    BY <1>5, <2>2, <2>3, <2>4, <2>5 DEF Lists
  <2>. QED
    BY <1>1, <2>1, <2>5, <2>6
<1>21. Cols' = Cols /\ k \in ToSet(Cols)
  BY <1>2, SameCols, ColsAndLists
<1>22. Contract!CreateCard(k)
  BY <1>1, <1>2, <1>4, <1>20, <1>21, SameOperators
  DEF Contract!CreateCard, Contract!OnBoard, Cols, Lists
<1>23. Dense'
  <2>1. Cardinality(all) = p + 1
    BY <1>4, <1>6, <1>7, <1>9, FS_AddElement DEF Orderable
  <2>2. ASSUME NEW d \in CardIds, column'[d] # 0
        PROVE  position'[d] < Cardinality(CardsIn(column[d])')
    <3>1. CASE column'[d] = k
      <4>1. d \in all
        BY <1>17, <3>1 DEF CardsIn
      <4>2. pos[d] < p + 1
        <5>1. CASE d = c
          BY <1>8, <1>10, <5>1
        <5>2. CASE d \in C
          <6>1. pos[d] = position[d] /\ position[d] \in Nat /\ position[d] < p
            BY <1>5, <1>6, <1>10, <1>13, <5>2
          <6>. QED
            BY <1>8, <6>1
        <5>. QED
          BY <1>9, <4>1, <5>1, <5>2
      <4>. QED
        BY <1>9, <1>17, <2>1, <3>1, <4>2 DEF CardsIn
    <3>2. CASE column'[d] # k
      <4>1. d # c /\ column'[d] = column[d] /\ position'[d] = position[d]
        BY <1>2, <1>5, <3>2
      <4>2. column[d] \in ColumnIds
        BY <2>2, <4>1 DEF OneInv, IInv, CardsHaveAColumn, RowTypes
      <4>3. CardsIn(column[d])' = CardsIn(column[d])
        <5>1. PICK j : j = column[d]
          OBVIOUS
        <5>2. {e \in CardIds : column'[e] = j} = CardsIn(j)
          BY <1>18, <3>2, <4>1, <4>2, <5>1 DEF CardsIn
        <5>. QED
          BY <4>1, <5>1, <5>2 DEF CardsIn
      <4>. QED
        BY <2>2, <4>1, <4>3 DEF OneInv, AsPlanned, Dense
    <3>. QED
      BY <3>1, <3>2
  <2>. QED
    BY <2>2 DEF Dense
<1>24. r \in load.requests
  BY <1>2, IdleTyped DEF OneInv, TInv, OnlyAsked
<1>. QED
  BY <1>2, <1>5, <1>22, <1>23, <1>24, OneEnds

\* A write of a card that leaves it where it is.
LEMMA AcceptIs ==
  ASSUME OneInv, NEW c \in CardIds, NEW base, column[c] # 0, Accept(c, base),
         UNCHANGED <<columns, place, done, nextColumn, column, position, completed, nextCard>>
  PROVE  Contract!UpdateCard(c) /\ Dense'
<1>1. Cols' = Cols /\ Lists' = Lists
  BY SameCols, SameLists
<1>2. PICK k : k = column[c]
  OBVIOUS
<1>3. k \in columns /\ k \in ColumnIds /\ c \in CardsIn(k)
  BY <1>2 DEF OneInv, IInv, CardsHaveAColumn, RowTypes, CardsIn
<1>4. k \in ToSet(Cols) /\ c \in ToSet(Lists[k])
  BY <1>3, ColsAndLists
<1>5. version[c] < MaxVersion /\ version' = [version EXCEPT ![c] = @ + 1]
  <2>1. version[c] < load.versions /\ version' = [version EXCEPT ![c] = @ + 1]
    BY DEF Accept
  <2>2. load.versions \in Nat /\ load.versions <= MaxVersion /\ version[c] \in Nat
    BY TheBounds DEF OneInv, IInv, RowTypes, TInv, RowsInv
  <2>. QED
    BY <2>1, <2>2, Numbers
<1>6. Contract!UpdateCard(c)
  BY <1>1, <1>4, <1>5, SameOperators DEF Contract!UpdateCard, Cols, Lists
<1>7. Dense'
  BY DEF OneInv, AsPlanned, Dense, CardsIn
<1>. QED
  BY <1>6, <1>7

LEMMA UpdateCardIs ==
  ASSUME OneInv, NEW r \in Requests, NEW c \in CardIds, NEW base, UpdateCard(r, c, base)
  PROVE  Contract!UpdateCard(c) /\ AsPlanned'
<1>1. /\ r \in load.requests /\ req[r] = Idle /\ req' = req /\ column[c] # 0 /\ Accept(c, base)
      /\ UNCHANGED <<columns, place, done, nextColumn, column, position, completed, nextCard>>
  BY DEF UpdateCard, Called, columnRows
<1>2. req' = [req EXCEPT ![r] = Idle]
  BY <1>1 DEF OneInv, IInv, RowTypes
<1>. QED
  BY <1>1, <1>2, AcceptIs, OneEnds

LEMMA WriteCardIs ==
  ASSUME OneInv, NEW r \in Requests, WriteCard(r)
  PROVE  (\E c \in CardIds : Contract!UpdateCard(c)) /\ AsPlanned'
<1>1. PICK c, base : c = req[r].card /\ base = req[r].base
  OBVIOUS
<1>2. /\ req[r].at = "assign" /\ Accept(c, base) /\ req' = [req EXCEPT ![r] = Idle]
      /\ UNCHANGED <<columns, place, done, nextColumn, column, position, completed, nextCard>>
  BY <1>1 DEF WriteCard, Goto, columnRows
<1>3. c \in CardIds /\ column[c] # 0
  BY <1>1, <1>2 DEF OneInv, IInv, AllKnow, KnowsItsCard, Moving
<1>4. r \in load.requests
  BY <1>2, IdleTyped DEF OneInv, TInv, OnlyAsked
<1>. QED
  BY <1>2, <1>3, <1>4, AcceptIs, OneEnds

\* Out of its column, the others of which stay in order.
LEMMA WithoutIs ==
  ASSUME OneInv, NEW c, NEW j \in ColumnIds
  PROVE  RemoveFirst(Lists[j], c) = Sorted(Others(j, c), position)
<1>1. PICK J : J = CardsIn(j)
  OBVIOUS
<1>2. J \in SUBSET CardIds
  BY <1>1 DEF CardsIn
<1>3. Orderable(J, position)
  BY <1>2, CardsOrderable DEF OneInv, TInv, RowsInv
<1>4. Sorted(J \ {c}, position) = RemoveFirst(Sorted(J, position), c)
  BY <1>3, OrderWithout
<1>. QED
  BY <1>1, <1>4 DEF Others, Lists

\* What the statements of a move write: the positions of the cards that were
\* left, of the ones in the target column with the new one, and no others.
LEMMA EnterPlaces ==
  ASSUME OneInv, NEW r \in Requests, Enter(r),
         NEW c, c = req[r].card, NEW p, p = req[r].position,
         NEW O, O = Others(req[r].from, c), NEW C, C = CardsIn(req[r].to),
         NEW left, left = Sorted(O, position), NEW ids, ids = Sorted(C, position),
         NEW ins, ins = InsertAt(ids, p + 1, c)
  PROVE  /\ c \in CardIds /\ c \notin O /\ c \notin C /\ O \cap C = {}
         /\ \A a \in O : position'[a] = Numbered(left)[a]
         /\ \A a \in C \cup {c} : position'[a] = Numbered(ins)[a]
         /\ \A a \in CardIds : a \notin O /\ a \notin C /\ a # c => position'[a] = position[a]
<1>1. PICK from, to : from = req[r].from /\ to = req[r].to
  OBVIOUS
<1>2. req[r].at = "enter" /\ position \in [CardIds -> Nat]
  BY DEF Enter, OneInv, TInv, RowsInv
<1>3. /\ to # from /\ column[c] = from
      /\ req[r].writes = Numbered(left) /\ req[r].ids = ids
  BY <1>1, <1>2 DEF OneInv, AsPlanned, Plans
<1>4. c \in CardIds /\ C \in SUBSET CardIds /\ O \in SUBSET CardIds
      /\ c \notin O /\ c \notin C /\ O \cap C = {}
  BY <1>1, <1>2, <1>3 DEF OneInv, IInv, AllKnow, KnowsItsCard, Moving, CardsIn, Others
<1>5. Orderable(C, position) /\ Orderable(O, position)
  BY <1>2, <1>4, CardsOrderable
<1>6. PICK n, m : n = Cardinality(C) /\ m = Cardinality(O)
  OBVIOUS
<1>7. n \in Nat /\ m \in Nat
  BY <1>5, <1>6, FS_CardinalityType DEF Orderable
<1>8. left \in List(m, O) /\ ToSet(left) = O
  BY <1>5, <1>6, <1>7, SortedIs, OrderIsOnce
<1>9. ids \in List(n, C) /\ ToSet(ids) = C /\ Complete(ids, n, C) /\ Once(ids, n) /\ Len(ids) = n
  BY <1>5, <1>6, <1>7, SortedIs, OrderIsOnce
<1>10. p \in 0..n
  <2>1. \E l \in Nat : req[r].ids \in List(l, CardIds) /\ req[r].position \in 0..l
    BY <1>2 DEF OneInv, TInv, AllTyped, Typed
  <2>2. PICK l \in Nat : ids \in List(l, CardIds) /\ p \in 0..l
    BY <1>3, <2>1
  <2>3. l = n
    BY <1>9, <2>2, ListLen
  <2>. QED
    BY <2>2, <2>3
<1>11. PICK w, w2 : w = Numbered(left) /\ w2 = Numbered(ins)
  OBVIOUS
<1>12. DOMAIN w = O
  BY <1>7, <1>8, <1>11, NumberedIs
<1>13. PICK T : T = C \cup {c}
  OBVIOUS
<1>14. /\ ins[p + 1] = c
       /\ \A i \in 1..p : ins[i] = ids[i]
       /\ \A i \in (p + 2)..(n + 1) : ins[i] = ids[i - 1]
  <2>1. ids \in List(n, T) /\ c \in T
    BY <1>9, <1>13 DEF List
  <2>. QED
    BY <1>7, <1>10, <2>1, InsertedHas
<1>15. ins \in List(n + 1, T) /\ n + 1 \in Nat
  <2>1. ids \in List(n, T) /\ c \in T
    BY <1>9, <1>13 DEF List
  <2>. QED
    BY <1>7, <1>10, <2>1, InsertAtType
<1>16. T \subseteq ToSet(ins) /\ p + 1 \in 1..(n + 1) /\ ins[p + 1] = c
  <2>1. p + 1 \in 1..(n + 1) /\ ins[p + 1] = c
    BY <1>7, <1>10, <1>14
  <2>2. \A i \in 1..n : \E j \in 1..(n + 1) : ins[j] = ids[i]
    <3>. TAKE i \in 1..n
    <3>1. CASE i <= p
      BY <1>7, <1>14, <3>1
    <3>2. CASE i > p
      <4>1. i + 1 \in 1..(n + 1) /\ ins[i + 1] = ids[i]
        BY <1>7, <1>10, <1>14, <3>2
      <4>. QED
        BY <4>1
    <3>. QED
      BY <1>10, <3>1, <3>2
  <2>3. DOMAIN ins = 1..(n + 1)
    BY <1>15, ListLen
  <2>. QED
    BY <1>9, <1>13, <2>1, <2>2, <2>3 DEF Complete, ToSet
<1>17. ToSet(ins) = T
  <2>1. DOMAIN ins = 1..(n + 1) /\ \A i \in 1..(n + 1) : ins[i] \in T
    BY <1>15, ListLen
  <2>2. \A x \in ToSet(ins) : x \in T
    BY <2>1 DEF ToSet
  <2>. QED
    BY <1>16, <2>2
<1>18. DOMAIN w2 = T
  BY <1>11, <1>15, <1>17, NumberedIs
<1>19. w2[c] = p
  <2>1. PICK j : j = w2[c] + 1
    OBVIOUS
  <2>2. w2[c] \in 0..n /\ ins[j] = c
    <3>1. PICK l \in Nat : l = n + 1
      BY <1>15
    <3>2. \A i \in 1..l : w2[ins[i]] \in 0..(l - 1) /\ ins[w2[ins[i]] + 1] = ins[i]
      BY <1>11, <1>15, <3>1, NumberedIs
    <3>. QED
      BY <1>7, <1>16, <2>1, <3>1, <3>2
  <2>3. j \in 1..(n + 1)
    BY <1>7, <2>1, <2>2
  <2>4. \A i \in 1..n : ids[i] # c
    BY <1>4, <1>7, <1>9, ListLen
  <2>5. j = p + 1
    <3>1. CASE j <= p
      BY <1>7, <1>10, <1>14, <2>2, <2>3, <2>4, <3>1
    <3>2. CASE j > p + 1
      <4>1. j - 1 \in 1..n /\ ins[j] = ids[j - 1]
        BY <1>7, <1>10, <1>14, <2>3, <3>2
      <4>. QED
        BY <2>2, <2>4, <4>1
    <3>. QED
      BY <1>10, <2>3, <3>1, <3>2
  <2>. QED
    BY <1>7, <1>10, <2>1, <2>2, <2>5
<1>20. PICK one, two : one = Written(position, w, CardIds) /\ two = Written(one, w2, CardIds)
  OBVIOUS
<1>21. position' = [two EXCEPT ![c] = p]
  BY <1>3, <1>11, <1>20 DEF Enter
<1>22. one = [a \in CardIds |-> IF a \in O THEN w[a] ELSE position[a]]
  BY <1>2, <1>4, <1>12, <1>20 DEF Written
<1>23. two = [a \in CardIds |-> IF a \in T THEN w2[a] ELSE one[a]]
  BY <1>4, <1>13, <1>18, <1>20, <1>22 DEF Written
<1>24. \A a \in O : position'[a] = w[a]
  BY <1>4, <1>13, <1>21, <1>22, <1>23
<1>25. \A a \in C \cup {c} : position'[a] = w2[a]
  BY <1>4, <1>13, <1>19, <1>21, <1>23
<1>26. \A a \in CardIds : a \notin O /\ a \notin C /\ a # c => position'[a] = position[a]
  BY <1>4, <1>13, <1>21, <1>22, <1>23
<1>. QED
  BY <1>4, <1>11, <1>24, <1>25, <1>26

\* A column's list, whose rows have kept their positions.
LEMMA StaysSorted ==
  ASSUME OneInv, NEW J \in SUBSET CardIds, position' \in [CardIds -> Nat],
         \A a \in J : position'[a] = position[a]
  PROVE  Sorted(J, position') = Sorted(J, position)
<1>1. PICK pos : pos = position'
  OBVIOUS
<1>2. Orderable(J, position) /\ Orderable(J, pos)
  <2>1. Orderable(J, position)
    BY CardsOrderable DEF OneInv, TInv, RowsInv
  <2>2. \A a \in J : pos[a] \in Nat
    BY <1>1
  <2>. QED
    BY <2>1, <2>2 DEF Orderable
<1>3. \A a \in J : pos[a] = position[a]
  BY <1>1
<1>. QED
  BY <1>1, <1>2, <1>3, SameOrder

\* The lists after a move, and that their positions have no more than they need.
LEMMA EnterLists ==
  ASSUME OneInv, NEW r \in Requests, Enter(r), position' \in [CardIds -> Nat],
         NEW c, c = req[r].card, NEW p, p = req[r].position, NEW to, to = req[r].to,
         NEW ids, ids = Sorted(CardsIn(to), position),
         NEW ins, ins = InsertAt(ids, p + 1, c)
  PROVE  /\ p \in 0..Cardinality(CardsIn(to))
         /\ Lists' = [j \in ColumnIds |-> IF j = to THEN ins ELSE Sorted(Others(j, c), position)]
         /\ Dense'
<1>1. PICK from, C, O, left : /\ from = req[r].from /\ C = CardsIn(to)
                              /\ O = Others(from, c) /\ left = Sorted(O, position)
  OBVIOUS
<1>2. /\ c \in CardIds /\ c \notin O /\ c \notin C /\ O \cap C = {}
      /\ \A a \in O : position'[a] = Numbered(left)[a]
      /\ \A a \in C \cup {c} : position'[a] = Numbered(ins)[a]
      /\ \A a \in CardIds : a \notin O /\ a \notin C /\ a # c => position'[a] = position[a]
  BY <1>1, EnterPlaces
<1>3. /\ req[r].at = "enter" /\ column \in [CardIds -> Nat] /\ position \in [CardIds -> Nat]
      /\ column' = [column EXCEPT ![c] = to] /\ to \in columns
      /\ columns \subseteq ColumnIds
  BY DEF Enter, OneInv, IInv, RowTypes, TInv, RowsInv
<1>4. to # from /\ column[c] = from /\ req[r].ids = ids
  BY <1>1, <1>3 DEF OneInv, AsPlanned, Plans
<1>5. C \in SUBSET CardIds /\ O \in SUBSET CardIds
  BY <1>1 DEF CardsIn, Others
<1>6. PICK pos : pos = position'
  OBVIOUS
<1>7. /\ Orderable(C, position) /\ Orderable(O, position)
      /\ Orderable(C \cup {c}, pos) /\ Orderable(O, pos)
  <2>1. C \cup {c} \in SUBSET CardIds
    BY <1>2, <1>5
  <2>2. Orderable(C \cup {c}, position) /\ Orderable(C, position) /\ Orderable(O, position)
    BY <1>3, <1>5, <2>1, CardsOrderable
  <2>. QED
    BY <1>5, <1>6, <2>1, <2>2 DEF Orderable
<1>8. PICK n, m : n = Cardinality(C) /\ m = Cardinality(O)
  OBVIOUS
<1>9. n \in Nat /\ m \in Nat
  BY <1>7, <1>8, FS_CardinalityType DEF Orderable
<1>10. /\ left \in List(m, O) /\ ToSet(left) = O /\ Complete(left, m, O) /\ Once(left, m)
  BY <1>1, <1>7, <1>8, <1>9, SortedIs, OrderIsOnce
<1>11. ids \in List(n, C) /\ ToSet(ids) = C /\ Complete(ids, n, C) /\ Once(ids, n) /\ Len(ids) = n
  BY <1>1, <1>7, <1>8, <1>9, SortedIs, OrderIsOnce
<1>12. p \in 0..n
  <2>1. \E l \in Nat : req[r].ids \in List(l, CardIds) /\ req[r].position \in 0..l
    BY <1>3 DEF OneInv, TInv, AllTyped, Typed
  <2>2. PICK l \in Nat : ids \in List(l, CardIds) /\ p \in 0..l
    BY <1>4, <2>1
  <2>3. l = n
    BY <1>11, <2>2, ListLen
  <2>. QED
    BY <2>2, <2>3
<1>13. Sorted(C \cup {c}, pos) = ins
  <2>1. \A a \in C \cup {c} : pos[a] = Numbered(InsertAt(ids, p + 1, c))[a]
    BY <1>2, <1>6
  <2>. QED
    BY <1>2, <1>7, <1>8, <1>9, <1>11, <1>12, <2>1, OrderInsert
<1>14. \A i \in 1..m : left[i] \in O /\ pos[left[i]] = i - 1
  <2>1. \A i \in 1..m : left[i] \in O
    BY <1>9, <1>10, ListLen
  <2>2. \A i \in 1..m : Numbered(left)[left[i]] = i - 1
    BY <1>9, <1>10, NumberedOnce
  <2>. QED
    BY <1>2, <1>6, <2>1, <2>2
<1>15. Sorted(O, pos) = left
  BY <1>7, <1>8, <1>9, <1>10, <1>14, NumberedInOrder
<1>16. CardsIn(to)' = C \cup {c}
  BY <1>1, <1>2, <1>3 DEF CardsIn
<1>17. \A j : j # to => CardsIn(j)' = Others(j, c)
  BY <1>2, <1>3 DEF CardsIn, Others
<1>18. ASSUME NEW j \in ColumnIds, j # to
       PROVE  Sorted(CardsIn(j), position)' = Sorted(Others(j, c), position)
  <2>1. PICK J : J = Others(j, c)
    OBVIOUS
  <2>2. Sorted(CardsIn(j), position)' = Sorted(J, pos)
    BY <1>6, <1>17, <1>18, <2>1
  <2>3. CASE j = from
    BY <1>1, <1>15, <2>1, <2>2, <2>3
  <2>4. CASE j # from
    <3>1. J \in SUBSET CardIds /\ J \cap O = {} /\ J \cap C = {} /\ c \notin J
      BY <1>1, <1>18, <2>1, <2>4 DEF CardsIn, Others
    <3>2. \A a \in J : position'[a] = position[a]
      BY <1>2, <3>1
    <3>. QED
      BY <1>6, <2>1, <2>2, <3>1, <3>2, StaysSorted
  <2>. QED
    BY <2>3, <2>4
<1>19. Lists' = [j \in ColumnIds |-> IF j = to THEN ins ELSE Sorted(Others(j, c), position)]
  <2>1. Lists' = [j \in ColumnIds |-> Sorted(CardsIn(j), position)']
    BY DEF Lists
  <2>2. Sorted(CardsIn(to), position)' = ins
    BY <1>6, <1>13, <1>16
  <2>. QED
    BY <1>18, <2>1, <2>2
<1>20. ASSUME NEW d \in CardIds, column'[d] # 0
       PROVE  position'[d] < Cardinality(CardsIn(column[d])')
  <2>1. PICK j : j = column'[d]
    OBVIOUS
  <2>2. CardsIn(column[d])' = {a \in CardIds : column'[a] = j} /\ CardsIn(j)' = {a \in CardIds : column'[a] = j}
    BY <2>1 DEF CardsIn
  <2>3. CASE j = to
    <3>1. d \in C \cup {c}
      BY <1>16, <2>1, <2>2, <2>3
    <3>2. PICK T : T = C \cup {c}
      OBVIOUS
    <3>3. Cardinality(T) = n + 1
      BY <1>2, <1>7, <1>8, <3>2, FS_AddElement DEF Orderable
    <3>4. ins \in List(n + 1, T) /\ n + 1 \in Nat
      <4>1. ids \in List(n, T) /\ c \in T
        BY <1>11, <3>2 DEF List
      <4>. QED
        BY <1>9, <1>12, <4>1, InsertAtType
    <3>5. IsOrder(ins, T, pos)
      BY <1>7, <1>13, <3>2, SortedIs
    <3>6. PICK i \in 1..(n + 1) : ins[i] = d
      BY <3>1, <3>2, <3>3, <3>5 DEF IsOrder
    <3>7. \A l \in 1..(n + 1) : Numbered(ins)[ins[l]] \in 0..((n + 1) - 1)
      BY <3>4, NumberedIs
    <3>8. position'[d] \in 0..n
      BY <1>2, <1>9, <3>1, <3>6, <3>7
    <3>9. CardsIn(column[d])' = T
      BY <1>16, <2>2, <2>3, <3>2
    <3>. QED
      BY <1>9, <3>3, <3>8, <3>9
  <2>4. CASE j # to /\ j = from
    <3>1. d \in O /\ CardsIn(column[d])' = O
      BY <1>1, <1>17, <2>1, <2>2, <2>4
    <3>2. PICK i \in 1..m : left[i] = d
      BY <1>10, <3>1 DEF Complete
    <3>3. position'[d] = i - 1
      BY <1>6, <1>14, <3>2
    <3>. QED
      BY <1>8, <1>9, <3>1, <3>3
  <2>5. CASE j # to /\ j # from
    <3>1. CardsIn(column[d])' = Others(j, c) /\ d \in Others(j, c)
      BY <1>17, <2>1, <2>2, <2>5
    <3>2. d \in CardsIn(j) /\ d # c /\ column[d] = j
      BY <3>1 DEF Others, CardsIn
    <3>3. Others(j, c) = CardsIn(j)
      BY <1>4, <2>5 DEF Others, CardsIn
    <3>4. d \notin O /\ d \notin C
      BY <1>1, <2>5, <3>2 DEF Others, CardsIn
    <3>5. position'[d] = position[d]
      BY <1>2, <3>2, <3>4
    <3>6. column[d] # 0
      BY <1>20, <2>1, <3>2
    <3>. QED
      BY <3>1, <3>2, <3>3, <3>5, <3>6 DEF OneInv, AsPlanned, Dense
  <2>. QED
    BY <2>3, <2>4, <2>5
<1>. QED
  BY <1>1, <1>8, <1>12, <1>19, <1>20 DEF Dense

\* The second half of a move, and its commit.
LEMMA EnterIs ==
  ASSUME OneInv, NEW r \in Requests, Enter(r)
  PROVE  /\ Contract!MoveCard(req[r].card, req[r].to, req[r].asked)
         /\ AsPlanned'
<1>1. PICK c, p, to, asked, from :
        /\ c = req[r].card /\ p = req[r].position /\ to = req[r].to
        /\ asked = req[r].asked /\ from = req[r].from
  OBVIOUS
<1>2. PICK ids, ins : ids = Sorted(CardsIn(to), position) /\ ins = InsertAt(ids, p + 1, c)
  OBVIOUS
<1>3. /\ req[r].at = "enter" /\ to \in columns /\ columns \subseteq ColumnIds
      /\ completed' = IF req[r].isDone THEN completed \cup {c} ELSE completed \ {c}
      /\ Accept(c, req[r].base) /\ req' = [req EXCEPT ![r] = Idle]
      /\ UNCHANGED <<columns, place, done, nextColumn, nextCard>>
  BY <1>1 DEF Enter, Goto, columnRows, OneInv, IInv, RowTypes
<1>4. /\ to # from /\ asked \in 0..MaxCards /\ column[c] = from
      /\ req[r].ids = ids /\ p = AtMost(asked, Len(ids))
  BY <1>1, <1>2, <1>3 DEF OneInv, AsPlanned, Plans
<1>5. c \in CardIds /\ column[c] # 0
  BY <1>1, <1>3 DEF OneInv, IInv, AllKnow, KnowsItsCard, Moving
<1>6. position' \in [CardIds -> Nat]
  <2>1. PICK pos : pos = Written(Written(position, req[r].writes, CardIds),
                         Numbered(InsertAt(req[r].ids, req[r].position + 1, req[r].card)), CardIds)
    OBVIOUS
  <2>2. pos \in [CardIds -> Nat] /\ p \in Nat
    BY <1>1, <1>3, <2>1, EnterWrites DEF OneInv
  <2>3. position' = [pos EXCEPT ![c] = p]
    BY <1>1, <2>1 DEF Enter
  <2>. QED
    BY <1>5, <2>2, <2>3
<1>7. /\ Lists' = [j \in ColumnIds |-> IF j = to THEN ins ELSE Sorted(Others(j, c), position)]
      /\ Dense'
  BY <1>1, <1>2, <1>6, EnterLists
<1>8. PICK without : without = [j \in ColumnIds |-> RemoveFirst(Lists[j], c)]
  OBVIOUS
<1>9. \A j \in ColumnIds : without[j] = Sorted(Others(j, c), position)
  BY <1>8, WithoutIs
<1>10. to \in ColumnIds /\ without[to] = ids
  <2>1. Others(to, c) = CardsIn(to)
    BY <1>4 DEF Others, CardsIn
  <2>. QED
    BY <1>2, <1>3, <1>9, <2>1
<1>11. Lists' = [without EXCEPT ![to] = InsertAt(@, p + 1, c)]
  <2>1. Lists' = [without EXCEPT ![to] = ins]
    BY <1>7, <1>8, <1>9
  <2>. QED
    BY <1>2, <1>8, <1>10, <2>1
<1>12. from \in ToSet(Cols) /\ c \in ToSet(Lists[from]) /\ to \in ToSet(Cols)
  <2>1. from \in columns /\ from \in ColumnIds /\ c \in CardsIn(from)
    BY <1>3, <1>4, <1>5 DEF OneInv, IInv, CardsHaveAColumn, CardsIn
  <2>. QED
    BY <1>3, <2>1, ColsAndLists
<1>13. version[c] < MaxVersion /\ version' = [version EXCEPT ![c] = @ + 1]
  <2>1. version[c] < load.versions /\ version' = [version EXCEPT ![c] = @ + 1]
    BY <1>3 DEF Accept
  <2>2. load.versions \in Nat /\ load.versions <= MaxVersion /\ version[c] \in Nat
    BY <1>5, TheBounds DEF OneInv, IInv, RowTypes, TInv, RowsInv
  <2>. QED
    BY <2>1, <2>2, Numbers
<1>14. completed' = Contract!Stamped(c, to)
  BY <1>1, <1>3 DEF OneInv, Alone, Sees, Contract!Stamped
<1>15. Cols' = Cols
  BY <1>3, SameCols
<1>16. Contract!Min({asked, Len(without[to])}) + 1 = p + 1
  BY <1>4, <1>10, SameOperators
<1>17. Contract!MoveCard(c, to, asked)
  BY <1>3, <1>8, <1>11, <1>12, <1>13, <1>14, <1>15, <1>16, SameOperators
  DEF Contract!MoveCard, Contract!OnBoard, Cols, Lists
<1>18. r \in load.requests
  BY <1>3, IdleTyped DEF OneInv, TInv, OnlyAsked
<1>. QED
  BY <1>1, <1>3, <1>7, <1>17, <1>18, OneEnds

-----------------------------------------------------------------------------
(* Every step of one request at a time.                                    *)

\* The contract's step is of Board, or none.
Promised == Contract!Next \/ UNCHANGED Contract!vars

LEMMA EnterPromised ==
  ASSUME OneInv, NEW r \in Requests, Enter(r)
  PROVE  Promised
<1>1. PICK c, to, asked : c = req[r].card /\ to = req[r].to /\ asked = req[r].asked
  OBVIOUS
<1>2. req[r].at = "enter"
  BY DEF Enter
<1>3. c \in CardIds /\ to \in ColumnIds /\ asked \in 0..MaxCards
  BY <1>1, <1>2 DEF OneInv, IInv, AllKnow, KnowsItsCard, Moving, RowTypes, AsPlanned, Plans
<1>4. Contract!MoveCard(c, to, asked)
  BY <1>1, EnterIs
<1>. QED
  BY <1>3, <1>4, SameOperators DEF Promised, Contract!Next

\* A request that only reads.
LEMMA ReadPlans ==
  ASSUME OneInv, NEW r \in Requests, r \in load.requests,
         \/ Abort(r) \/ CountColumns(r) \/ DeleteRow(r)
         \/ \E k \in ColumnIds : DeleteColumn(r, k) \/ CreateCard(r, k)
  PROVE  AsPlanned' /\ UNCHANGED <<columnRows, cardRows>>
<1>1. Plans(req[r])
  BY DEF OneInv, AsPlanned
<1>2. CASE Abort(r)
  <2>1. UNCHANGED <<columnRows, cardRows>> /\ req' = [req EXCEPT ![r] = Idle]
    BY <1>2 DEF Abort, Goto
  <2>. QED
    BY <2>1, IdlePlans, OneReadsOn
<1>3. CASE CountColumns(r)
  <2>1. UNCHANGED <<columnRows, cardRows>>
    BY <1>3 DEF CountColumns
  <2>2. CASE req' = [req EXCEPT ![r] = Idle]
    BY <2>1, <2>2, IdlePlans, OneReadsOn
  <2>3. ASSUME NEW s, req' = [req EXCEPT ![r] = s], s.at = "delete",
               Cardinality(columns) > 1
        PROVE  AsPlanned'
    <3>1. Plans(s)
      BY <2>3 DEF Plans
    <3>. QED
      BY <2>1, <2>3, <3>1, OneReadsOn
  <2>. QED
    BY <1>3, <2>1, <2>2, <2>3, CountColumnsReads
<1>4. CASE DeleteRow(r)
  <2>1. PICK s : /\ req' = [req EXCEPT ![r] = s] /\ s.at = "reindex"
                 /\ s.column = req[r].column
                 /\ s.order = Sorted(columns \ {req[r].column}, place)
    BY <1>4, DeleteRowReads
  <2>2. req[r].at = "delete" /\ UNCHANGED <<columnRows, cardRows>>
    BY <1>4 DEF DeleteRow
  <2>3. Cardinality(columns) > 1
    BY <1>1, <2>2 DEF Plans
  <2>4. s.order = Sorted(Remaining(s.column), place)
    BY <2>1 DEF Remaining
  <2>5. Plans(s)
    BY <2>1, <2>3, <2>4 DEF Plans
  <2>. QED
    BY <2>1, <2>2, <2>5, OneReadsOn
<1>5. ASSUME NEW k \in ColumnIds, DeleteColumn(r, k)
      PROVE  AsPlanned' /\ UNCHANGED <<columnRows, cardRows>>
  <2>1. PICK s : /\ req' = [req EXCEPT ![r] = s] /\ s.at = "count columns" /\ s.column = k
    BY <1>5, DeleteColumnReads
  <2>2. UNCHANGED <<columnRows, cardRows>>
    BY <1>5 DEF DeleteColumn
  <2>3. Plans(s)
    BY <2>1 DEF Plans
  <2>. QED
    BY <2>1, <2>2, <2>3, OneReadsOn
<1>6. ASSUME NEW k \in ColumnIds, CreateCard(r, k)
      PROVE  AsPlanned' /\ UNCHANGED <<columnRows, cardRows>>
  <2>1. PICK s : /\ req' = [req EXCEPT ![r] = s] /\ s.at = "insert card" /\ s.column = k
                 /\ s.position = Cardinality(CardsIn(k)) /\ (s.isDone <=> k \in done)
    BY <1>6, CreateCardReads
  <2>2. k \in columns /\ UNCHANGED <<columnRows, cardRows>>
    BY <1>6 DEF CreateCard
  <2>3. s.position = Cardinality(CardsIn(s.column)) /\ s.column \in columns
    BY <2>1, <2>2
  <2>4. Plans(s)
    BY <2>1, <2>3 DEF Plans
  <2>. QED
    BY <2>1, <2>2, <2>4, OneReadsOn
<1>. QED
  BY <1>2, <1>3, <1>4, <1>5, <1>6 DEF Abort, CountColumns, DeleteRow

LEMMA RequestPlans ==
  ASSUME NotWithinColumn, OneInv, NEW r \in Requests, RequestStep(r)
  PROVE  AsPlanned' /\ Promised
<1>1. r \in load.requests
  BY RequestTyped DEF OneInv
<1>2. ASSUME UNCHANGED <<columnRows, cardRows>> PROVE Promised
  BY <1>2, SameRows DEF Promised
<1>3. CASE \/ Abort(r) \/ CountColumns(r) \/ DeleteRow(r)
           \/ \E k \in ColumnIds : DeleteColumn(r, k) \/ CreateCard(r, k)
  BY <1>1, <1>2, <1>3, ReadPlans
<1>4. CASE CreateColumn(r)
  BY <1>2, <1>4, CreateColumnPlans DEF CreateColumn
<1>5. CASE ReorderColumns(r)
  BY <1>2, <1>5, ReorderPlans DEF ReorderColumns
<1>6. CASE Leave(r)
  BY <1>2, <1>6, LeavePlans DEF Leave
<1>7. ASSUME NEW c \in CardIds, NEW base, NEW to, NEW n \in 0..MaxCards,
             MoveCard(r, c, base, to, n)
      PROVE  AsPlanned' /\ Promised
  BY <1>2, <1>7, MovePlans DEF MoveCard
<1>8. CASE Reindex(r)
  BY <1>8, ReindexIs, SameOperators DEF Promised, Contract!Next
<1>9. CASE WriteOrder(r)
  BY <1>9, WriteOrderIs DEF Promised, Contract!Next
<1>10. ASSUME NEW isDone \in BOOLEAN, InsertColumn(r, isDone) PROVE AsPlanned' /\ Promised
  BY <1>10, InsertColumnIs DEF Promised, Contract!Next
<1>11. ASSUME NEW k \in ColumnIds, NEW isDone \in BOOLEAN, RenameColumn(r, k, isDone)
       PROVE  AsPlanned' /\ Promised
  BY <1>11, RenameColumnIs, SameOperators DEF Promised, Contract!Next
<1>12. CASE InsertCard(r)
  BY <1>12, InsertCardIs, SameOperators DEF Promised, Contract!Next
<1>13. ASSUME NEW c \in CardIds, NEW base, UpdateCard(r, c, base) PROVE AsPlanned' /\ Promised
  BY <1>13, UpdateCardIs, SameOperators DEF Promised, Contract!Next
<1>14. CASE Enter(r)
  BY <1>14, EnterIs, EnterPromised
<1>. QED
  BY <1>3, <1>4, <1>5, <1>6, <1>7, <1>8, <1>9, <1>10, <1>11, <1>12, <1>13, <1>14
  DEF RequestStep

LEMMA AssignPlans ==
  ASSUME OneInv, NEW r \in Requests, r \in load.requests,
         NEW c, NEW base, NEW z, AssignCard(r, c, base, z)
  PROVE  AsPlanned' /\ UNCHANGED <<columnRows, cardRows>>
<1>1. PICK s : s = [at |-> "assign", card |-> c, base |-> base, sprint |-> z]
  OBVIOUS
<1>2. s.at = "assign"
  BY <1>1
<1>3. req' = [req EXCEPT ![r] = s] /\ UNCHANGED <<columnRows, cardRows>>
  BY <1>1 DEF AssignCard, Goto
<1>4. Plans(s)
  BY <1>2 DEF Plans
<1>. QED
  BY <1>3, <1>4, OneReadsOn

LEMMA SamePlans ==
  ASSUME AsPlanned, UNCHANGED <<columnRows, cardRows, req>>
  PROVE  AsPlanned' /\ Promised
<1>1. Dense'
  BY DEF cardRows, AsPlanned, Dense, CardsIn
<1>2. ASSUME NEW r \in Requests PROVE Plans(req[r])'
  BY DEF columnRows, cardRows, AsPlanned, Plans, CardsIn, Others, Remaining
<1>. QED
  BY <1>1, <1>2, SameRows DEF AsPlanned, Promised

\* The sprints are not of the contract, but for the version of a card.
LEMMA SprintPlans ==
  ASSUME OneInv, NEW r \in Requests, SprintStep(r)
  PROVE  AsPlanned' /\ Promised
<1>1. CASE UNCHANGED vars
  BY <1>1, SamePlans DEF vars, OneInv
<1>2. ASSUME NEW s, req' = [req EXCEPT ![r] = s], s.at \in AtSprint, r \in load.requests,
             UNCHANGED <<columnRows, cardRows>>
      PROVE  AsPlanned' /\ Promised
  <2>1. Plans(s)
    BY <1>2 DEF Plans, AtSprint
  <2>. QED
    BY <1>2, <2>1, OneReadsOn, SameRows DEF Promised
<1>3. ASSUME NEW z, NEW w, NEW halves, CheckSprint(r, z, w, halves) PROVE AsPlanned' /\ Promised
  <2>1. PICK s : s = [at |-> "update sprint", sprint |-> z, given |-> w, halves |-> halves,
                      seen |-> window[z]]
    OBVIOUS
  <2>2. s.at = "update sprint"
    BY <2>1
  <2>3. req' = [req EXCEPT ![r] = s] /\ r \in load.requests /\ UNCHANGED <<columnRows, cardRows>>
    BY <1>3, <2>1 DEF CheckSprint, Goto, Called
  <2>. QED
    BY <1>2, <2>2, <2>3 DEF AtSprint
<1>4. CASE ReadSprint(r)
  <2>1. PICK s : s = [at |-> "write sprint", sprint |-> req[r].sprint,
                      seen |-> window[req[r].sprint],
                      window |-> Overlaid(window[req[r].sprint], req[r].given, req[r].halves)]
    OBVIOUS
  <2>2. s.at = "write sprint"
    BY <2>1
  <2>3. req' = [req EXCEPT ![r] = s] /\ UNCHANGED <<columnRows, cardRows>>
    BY <1>4, <2>1 DEF ReadSprint, Goto
  <2>4. r \in load.requests
    BY <1>4, IdleTyped DEF ReadSprint, OneInv, TInv, OnlyAsked
  <2>. QED
    BY <1>2, <2>2, <2>3, <2>4 DEF AtSprint
<1>5. CASE WriteSprint(r) \/ ClearSprint(r)
  <2>1. req' = [req EXCEPT ![r] = Idle] /\ UNCHANGED <<columnRows, cardRows>>
    BY <1>5 DEF WriteSprint, ClearSprint, Goto
  <2>2. r \in load.requests
    BY <1>5, IdleTyped DEF WriteSprint, ClearSprint, OneInv, TInv, OnlyAsked
  <2>. QED
    BY <2>1, <2>2, IdlePlans, OneReadsOn, SameRows DEF Promised
<1>6. ASSUME NEW z, DeleteSprint(r, z) PROVE AsPlanned' /\ Promised
  <2>1. PICK s : s = [at |-> "clear sprint", sprint |-> z]
    OBVIOUS
  <2>2. s.at = "clear sprint"
    BY <2>1
  <2>3. req' = [req EXCEPT ![r] = s] /\ r \in load.requests /\ UNCHANGED <<columnRows, cardRows>>
    BY <1>6, <2>1 DEF DeleteSprint, Goto, Called
  <2>. QED
    BY <1>2, <2>2, <2>3 DEF AtSprint
<1>7. ASSUME NEW c, NEW base, NEW z, Called(r, "assign card"), AssignCard(r, c, base, z)
      PROVE  AsPlanned' /\ Promised
  BY <1>7, AssignPlans, SameRows DEF Called, Promised
<1>8. CASE WriteCard(r)
  BY <1>8, WriteCardIs, SameOperators DEF Promised, Contract!Next
<1>9. ASSUME NEW s, NEW w, CreateSprint(r, s, w) PROVE AsPlanned' /\ Promised
  BY <1>1, <1>9 DEF CreateSprint
<1>. QED
  BY <1>3, <1>4, <1>5, <1>6, <1>7, <1>8, <1>9 DEF SprintStep

LEMMA NextPlans ==
  ASSUME NotWithinColumn, OneInv, FormOfACard, [PlanNext]_planVars
  PROVE  AsPlanned' /\ Promised
<1>1. ASSUME NEW r \in Requests, BoardStep(r) PROVE AsPlanned' /\ Promised
  BY <1>1, RequestPlans DEF BoardStep
<1>2. ASSUME NEW r \in Requests, SaveForm(r) PROVE AsPlanned' /\ Promised
  <2>1. PICK c, base, to, z :
          c = form.card /\ base = form.version /\ to = form.column /\ z = form.sprint
    OBVIOUS
  <2>2. /\ r \in load.requests /\ (MoveCard(r, c, base, to, 0) \/ AssignCard(r, c, base, z))
        /\ form.open
    BY <1>2, <2>1 DEF SaveForm
  <2>3. CASE MoveCard(r, c, base, to, 0)
    <3>1. 0 \in 0..MaxCards /\ c \in CardIds
      BY <2>1, <2>2, Numbers DEF FormOfACard
    <3>2. AsPlanned' /\ UNCHANGED <<columnRows, cardRows>>
      BY <2>3, <3>1, MovePlans DEF MoveCard
    <3>. QED
      BY <3>2, SameRows DEF Promised
  <2>4. CASE AssignCard(r, c, base, z)
    BY <2>2, <2>4, AssignPlans, SameRows DEF Promised
  <2>. QED
    BY <2>2, <2>3, <2>4
<1>3. CASE PageStep \/ NextDay \/ UNCHANGED planVars
  <2>1. UNCHANGED <<columnRows, cardRows, req>>
    BY <1>3 DEF PageStep, RefreshPage, CloseForm, OpenForm, PickColumn, PickSprint,
                NextDay, planVars, vars
  <2>. QED
    BY <2>1, SamePlans DEF OneInv
<1>. QED
  BY <1>1, <1>2, <1>3, SprintPlans DEF PlanNext

\* A move that is under way is the one request that can make a version.
LEMMA OnlyTheMoveWrites ==
  ASSUME OneInv, [PlanNext]_planVars, NEW r \in Requests, req[r].at = "enter",
         version' # version
  PROVE  Enter(r)
<1>1. r \in load.requests
  BY IdleTyped DEF OneInv, TInv, OnlyAsked
<1>2. \A q \in Requests \ {r} : req[q].at = "idle"
  BY <1>1, OthersAreIdle, IdleTyped DEF OneInv
<1>3. ASSUME NEW q \in Requests, RequestStep(q) PROVE Enter(r)
  <2>1. q \in load.requests
    BY <1>3, RequestTyped DEF OneInv
  <2>2. q = r
    BY <1>1, <2>1 DEF OneInv, OneAtATime
  <2>3. req[q] # Idle
    BY <2>2, IdleTyped
  <2>. QED
    BY <1>3, <2>2, <2>3
    DEF RequestStep, Called, Abort, CreateColumn, CountColumns, DeleteRow, Reindex,
        ReorderColumns, WriteOrder, InsertColumn, RenameColumn, DeleteColumn, CreateCard,
        InsertCard, UpdateCard, MoveCard, Leave, cardRows
<1>4. ASSUME NEW q \in Requests, SprintStep(q) PROVE Enter(r)
  <2>1. req[q].at = "assign"
    BY <1>4 DEF SprintStep, CreateSprint, CheckSprint, ReadSprint, WriteSprint, DeleteSprint,
                ClearSprint, AssignCard, WriteCard, vars, cardRows
  <2>. QED
    BY <1>2, <2>1
<1>. QED
  BY <1>3, <1>4 DEF PlanNext, BoardStep, SaveForm, MoveCard, AssignCard, PageStep, RefreshPage,
                    CloseForm, OpenForm, PickColumn, PickSprint, NextDay, planVars, vars, cardRows

-----------------------------------------------------------------------------
(* The initial states.                                                     *)

\* The first columns and cards are in the order of their ids.
LEMMA InThatPlace ==
  ASSUME NEW n \in Nat, NEW ids, ids = 1..n, NEW pos, \A a \in ids : pos[a] = a - 1
  PROVE  Sorted(ids, pos) = [i \in 1..n |-> i]
<1>1. PICK s : s = [i \in 1..n |-> i]
  OBVIOUS
<1>2. IsFiniteSet(ids) /\ Cardinality(ids) = n
  <2>1. 1 \in Int /\ n \in Int
    OBVIOUS
  <2>. QED
    BY <2>1, FS_Interval
<1>3. Orderable(ids, pos)
  BY <1>2 DEF Orderable
<1>4. s \in List(n, ids) /\ Complete(s, n, ids) /\ \A i \in 1..n : pos[s[i]] = i - 1
  BY <1>1 DEF List, Complete
<1>. QED
  BY <1>1, <1>2, <1>3, <1>4, NumberedInOrder

LEMMA NoRows ==
  ASSUME NEW pos
  PROVE  Sorted({}, pos) = <<>>
<1>1. Orderable({}, pos) /\ Cardinality({}) = 0
  BY FS_EmptySet DEF Orderable
<1>2. IsOrder(Sorted({}, pos), {}, pos)
  BY <1>1, SortedIs
<1>. QED
  BY <1>1, <1>2 DEF IsOrder

LEMMA InitAsPlanned ==
  ASSUME PlanInit
  PROVE  AsPlanned
<1>1. /\ column = [c \in CardIds |-> IF c <= load.cards THEN 1 ELSE 0]
      /\ position = [c \in CardIds |-> IF c <= load.cards THEN c - 1 ELSE 0]
      /\ load \in Workloads /\ \A r \in Requests : req[r] = Idle
  BY DEF PlanInit, Init
<1>2. PICK n : n = load.cards
  OBVIOUS
<1>3. n \in 0..MaxCards /\ MaxCards \in Nat
  BY <1>1, <1>2, TheBounds, Numbers
<1>4. PICK ids : ids = 1..n
  OBVIOUS
<1>5. CardsIn(1) = ids
  BY <1>1, <1>2, <1>3, <1>4 DEF CardsIn, CardIds
<1>6. Cardinality(ids) = n
  <2>1. 1 \in Int /\ n \in Int
    BY <1>3
  <2>. QED
    BY <1>3, <1>4, <2>1, FS_Interval
<1>7. ASSUME NEW c \in CardIds, column[c] # 0
      PROVE  position[c] < Cardinality(CardsIn(column[c]))
  <2>1. column[c] = 1 /\ c <= n /\ position[c] = c - 1
    BY <1>1, <1>2, <1>7
  <2>. QED
    BY <1>3, <1>5, <1>6, <2>1 DEF CardIds
<1>. QED
  BY <1>1, <1>7, IdlePlans DEF AsPlanned, Dense

LEMMA InitPromised ==
  ASSUME PlanInit, load.cards = 0
  PROVE  Contract!Init
<1>1. /\ columns = 1..3 /\ place = [k \in ColumnIds |-> IF k \in columns THEN k - 1 ELSE 0]
      /\ column = [c \in CardIds |-> IF c <= 0 THEN 1 ELSE 0]
      /\ version = [c \in CardIds |-> IF c <= 0 THEN 1 ELSE 0]
      /\ done = {3} /\ completed = {} /\ nextColumn = 4 /\ nextCard = 1
  BY DEF PlanInit, Init
<1>2. \A k \in columns : k \in ColumnIds
  BY <1>1, BoardPgAssumption DEF BoardPgAssumption, ColumnIds
<1>3. Cols = [i \in 1..3 |-> i]
  BY <1>1, <1>2, InThatPlace DEF Cols
<1>4. <<1, 2, 3>> = [i \in 1..3 |-> i]
  OBVIOUS
<1>5. \A c \in CardIds : column[c] = 0 /\ version[c] = 0
  BY <1>1, Numbers DEF CardIds
<1>6. version = [c \in CardIds |-> 0]
  BY <1>1, <1>5
<1>7. \A k \in ColumnIds : CardsIn(k) = {}
  BY <1>5, Numbers DEF CardsIn
<1>8. Lists = [k \in ColumnIds |-> <<>>]
  BY <1>7, NoRows DEF Lists
<1>. QED
  BY <1>1, <1>3, <1>4, <1>6, <1>8, SameOperators DEF Contract!Init, Cols, Lists

PlannedInv == BoardInv /\ (OneAtATime => AsPlanned)

LEMMA PlannedIsOne ==
  ASSUME PlannedInv, OneAtATime
  PROVE  OneInv
BY DEF PlannedInv, BoardInv, OneInv

LEMMA PlannedInvariance ==
  ASSUME NotWithinColumn
  PROVE  PlanSpec => []PlannedInv
<1>1. PlanInit => (OneAtATime => AsPlanned)
  BY InitAsPlanned
<1>2. PlannedInv /\ [PlanNext]_planVars => (OneAtATime => AsPlanned)'
  <2>. SUFFICES ASSUME PlannedInv, [PlanNext]_planVars, OneAtATime' PROVE AsPlanned'
    OBVIOUS
  <2>1. OneAtATime
    BY SameLoad DEF OneAtATime
  <2>2. OneInv /\ FormOfACard
    BY <2>1, PlannedIsOne DEF PlannedInv, BoardInv
  <2>. QED
    BY <2>2, NextPlans
<1>. QED
  BY <1>1, <1>2, BoardInvariance, PTL DEF PlanSpec, PlannedInv


-----------------------------------------------------------------------------
(* The theorems.                                                           *)

\* However edits, moves, assignments and deletions interleave and fail, the n-th
\* version of a card was made by somebody who had seen the one before it.
THEOREM NoLostEditAlways == PlanSpec => []NoLostEdit
<1>1. IInv => NoLostEdit
  BY DEF IInv, OneAfterAnother, NoLostEdit
<1>. QED
  BY <1>1, Invariance, PTL

\* A move finds its card, from its first statement to its commit, as it read it.
THEOREM MoverHoldsItsCardAlways == PlanSpec => []MoverHoldsItsCard
<1>1. IInv => MoverHoldsItsCard
  BY DEF IInv, AllKnow, KnowsItsCard, Moving, MoverHoldsItsCard
<1>. QED
  BY <1>1, Invariance, PTL

\* Deletions of columns leave no card behind, whatever is created in the column
\* or moved into it meanwhile.
THEOREM CardsHaveAColumnAlways == PlanSpec => []CardsHaveAColumn
<1>1. IInv => CardsHaveAColumn
  BY DEF IInv
<1>. QED
  BY <1>1, Invariance, PTL

\* The row locks of Postgres exclude one another as the code relies on: no two
\* requests are at work on one card, nor on a card and the column it goes with.
THEOREM OneHolderAlways == PlanSpec => []OneHolder
<1>1. IInv => OneHolder
  BY DEF IInv
<1>. QED
  BY <1>1, Invariance, PTL

\* The form moves its card exactly when its user has picked another column than
\* the one it was opened with, whatever the page was refreshed with since.
THEOREM SaveMovesOnlyIfPickedAlways == PlanSpec => SaveMovesOnlyIfPicked
<1>1. PlanInit => IInv /\ FormOfACard /\ PageInv
  BY InitIInv, InitPageInv
<1>2. IInv /\ FormOfACard /\ PageInv /\ [PlanNext]_planVars => (IInv /\ FormOfACard /\ PageInv)'
  BY NextIInv, NextPageInv
<1>3. IInv /\ PageInv =>
        \A r \in Requests : SaveForm(r) => (req'[r].at = "leave" <=> form.column # form.from)
  BY SavesAsPicked
<1>. QED
  BY <1>1, <1>2, <1>3, PTL DEF PlanSpec, SaveMovesOnlyIfPicked

\* With one request at a time, whatever it deletes, moves or breaks off, each card
\* is on the board once: no list of the API has it twice, and none has lost it.
THEOREM EachCardOnceAlways == PlanSpec => []EachCardOnce
<1>1. BoardInv => EachCardOnce
  BY ShownOnce
<1>. QED
  BY <1>1, BoardInvariance, PTL

\* With one request at a time no change of the columns reopens a card: that takes
\* a move of the card, which makes a version, to a column that is not Done.
THEOREM StaysCompletedAlways == PlanSpec => StaysCompleted
<1>1. BoardInv => AllShown
  BY ShownThere DEF BoardInv
<1>2. BoardInv /\ AllShown' /\ [PlanNext]_planVars => [OneAtATime => Contract!KeepsCompleted]_vars
  BY StepKeepsCompleted
<1>. QED
  BY <1>1, <1>2, BoardInvariance, PTL DEF PlanSpec, StaysCompleted

\* The Postgres store keeps the contract of the memory store: with one request at a
\* time, whatever is called and wherever it breaks off, what the API shows of the
\* rows takes the steps of Board.tla and no others.  Except for a move within a
\* column, which Postgres gets wrong: a behaviour with one request has none.
THEOREM ContractSpecAlways ==
  ASSUME NotWithinColumn
  PROVE  PlanSpec => ContractSpec
<1>1. PlanInit => (load.cards = 0 => Contract!Init)
  BY InitPromised
<1>2. PlannedInv /\ [PlanNext]_planVars =>
        [OneAtATime => Contract!Next \/ UNCHANGED Contract!vars]_vars
  BY PlannedIsOne, NextPlans DEF PlannedInv, BoardInv, Promised
<1>. QED
  BY <1>1, <1>2, PlannedInvariance, PTL DEF PlanSpec, ContractSpec

\* A move to another column puts the card at the position that was asked for, and
\* both columns' other cards stay in order, as in the memory store.
THEOREM MovesAsAskedAlways ==
  ASSUME NotWithinColumn
  PROVE  PlanSpec => MovesAsAsked
<1>1. PlannedInv /\ [PlanNext]_planVars =>
        [\A r \in Requests : OneAtATime /\ req[r].at = "enter" /\ version' # version =>
           Contract!MoveCard(req[r].card, req[r].to, req[r].asked)]_vars
  BY PlannedIsOne, OnlyTheMoveWrites, EnterIs
<1>. QED
  BY <1>1, PlannedInvariance, PTL DEF PlanSpec, MovesAsAsked
=============================================================================
