----------------------------- MODULE MCPlanning -----------------------------
(* The board, its sprints and its page, for TLC: the workloads.            *)
EXTENDS Planning, TLC

CONSTANTS r1, r2, s1

RequestSymmetry == Permutations(Requests)

\* Nothing happens; each workload says what does.
Rest == [requests |-> {r1, r2}, calls |-> {}, cards |-> 0, rows |-> 0, versions |-> 2,
         windows |-> {}, days |-> 0, page |-> FALSE]

\* One request at a time: one column or card more, with every call; or two, and
\* columns that keep their order.
Serial  == [Rest EXCEPT !.requests = {r1}, !.rows = 1,
                        !.calls = BoardCalls \ {"move within column"}]
Growing == [Serial EXCEPT !.rows = 2, !.calls = @ \ {"reorder columns"}]

\* Cards are created, and written, while columns are deleted; two cards that are
\* there at the start are written twice.
Races  == [Rest EXCEPT !.rows = 2,
             !.calls = {"delete column", "create card", "update card", "move card",
                        "move within column"}]
Writes == [Races EXCEPT !.cards = 2, !.rows = 0, !.versions = 3]

\* A sprint is created, its halves are changed, it is deleted, while cards are
\* assigned to it.
Windows == [Rest EXCEPT !.calls = {"create sprint", "update sprint", "delete sprint"},
                        !.windows = [start : {0, 2}, end : {1, 3, 5}]]
Assignments == [Rest EXCEPT !.calls = {"create sprint", "delete sprint", "assign card",
                                       "move card"},
                            !.cards = 2, !.versions = 3, !.windows = {[start |-> 0, end |-> 3]}]

\* Days pass while the cards of a sprint are moved and its columns renamed.
Burndowns == [Rest EXCEPT !.calls = {"create sprint", "assign card", "move card",
                                     "move within column", "rename column"},
                          !.cards = 1, !.versions = 4, !.days = 2,
                          !.windows = {[start |-> 0, end |-> 3]}]

\* The page is open while others move cards, and delete a sprint.
Forms == [Rest EXCEPT !.calls = {"create sprint", "delete sprint", "move card"},
                      !.cards = 1, !.versions = 3, !.page = TRUE,
                      !.windows = {[start |-> 0, end |-> 3]}]

TheWorkloads == {Serial, Growing, Races, Writes, Windows, Assignments, Burndowns,
                 Forms}

\* What the theorems about the contract assume of workloads.
ASSUME WorkloadsAssumption == NotWithinColumn
=============================================================================
