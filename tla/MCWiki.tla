------------------------------- MODULE MCWiki -------------------------------
(* Pages, documents and rooms, for TLC: the workloads.                     *)
EXTENDS Collab, PageDiff

CONSTANTS p1, p2, p3, d1, r1, r2, e1, e2

MCBodies == [Editors \cup {First} -> 0..MaxCopies]
MCFirst  == [t \in Editors \cup {First} |-> IF t = First THEN 1 ELSE 0]
MCOther  == [t \in Editors \cup {First} |-> IF t = e1 THEN 0 ELSE 1]

Draft  == [body |-> MCFirst, status |-> "draft"]
Public == [body |-> MCFirst, status |-> "published"]
Edited == [body |-> MCOther, status |-> "published"]

\* Nothing happens; each workload says what does.
Rest == [requests |-> {r1, r2}, calls |-> {}, pages |-> {p1}, docs |-> {}, texts |-> {},
         faults |-> FALSE, editors |-> {}, room |-> p1, events |-> {}]

\* Moves of three pages race; so do archives with moves and with new pages.
Moves    == [Rest EXCEPT !.calls = {"move"}, !.pages = {p1, p2, p3}]
Archives == [Rest EXCEPT !.calls = {"move", "archive"}, !.pages = {p1, p2}]
Growth   == [Rest EXCEPT !.calls = {"create", "archive"}, !.texts = {Public}]

\* One request at a time: drafts and published pages, created, moved, archived.
Lists == [Rest EXCEPT !.requests = {r1}, !.calls = {"create", "move", "archive"},
                      !.pages = {}, !.texts = {Draft, Public}]

\* The texts of one page.
Texts == [Rest EXCEPT !.calls = {"edit", "restore", "snapshot", "move"},
                      !.texts = {Draft, Edited}]

\* Documents, created and edited; one of them in a room.
Documents == [Rest EXCEPT !.calls = {"document", "snapshot"}, !.docs = {},
                          !.texts = {Public, Edited}, !.faults = TRUE]
DocRoom   == [Rest EXCEPT !.requests = {r1}, !.calls = {"document"}, !.docs = {d1},
                          !.editors = {e1, e2}, !.room = d1, !.events = {"close", "no seed"}]

\* A room whose server keeps running, one whose server restarts, and one whose
\* page is written in other ways too.
Steady   == [Rest EXCEPT !.requests = {r1}, !.editors = {e1, e2},
                         !.events = {"refresh", "close", "drop", "expire"}]
Crashing == [Rest EXCEPT !.requests = {r1}, !.docs = {d1}, !.editors = {e1, e2},
                         !.room = d1, !.faults = TRUE, !.events = {"drop", "restart"}]
Slow     == [Rest EXCEPT !.editors = {e1, e2}, !.events = {"close"}]
Contested == [Rest EXCEPT !.calls = {"edit", "restore"}, !.texts = {Edited},
                          !.editors = {e1}, !.events = {"refresh"}]
TheWorkloads == {Moves, Archives, Growth, Lists, Texts, Documents, DocRoom,
                 Steady, Crashing, Slow, Contested}

JustContested == {Contested}

\* Texts of at most three lines.
SmallTexts == UNION {[1..n -> {"a", "b"}] : n \in 0..3}

ASSUME DiffAssumption == \A a, b \in SmallTexts : DiffIsRight(a, b)
=============================================================================
