------------------------------ MODULE MCBoardPg -----------------------------
(* The board alone, for the two places where Postgres departs from what    *)
(* the store promises.                                                     *)
EXTENDS BoardPg

CONSTANTS r1, r2

\* One request at a time: cards are moved, within their column too.
SameColumn ==
  [requests |-> {r1}, calls |-> {"create card", "move card", "move within column"},
   cards |-> 0, rows |-> 2, versions |-> 2]

\* Two requests: a column is deleted while a card is created.
Deletion ==
  [requests |-> {r1, r2}, calls |-> {"delete column", "create card"},
   cards |-> 0, rows |-> 2, versions |-> 1]

JustSameColumn == {SameColumn}
JustDeletion   == {Deletion}
=============================================================================
