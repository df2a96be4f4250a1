---------------------------- MODULE SprintProofs ---------------------------
(***************************************************************************)
(* The sprints of Planning: what races and half deletions can make wrong   *)
(* of a sprint's window and of a card's sprint, and that nothing else can. *)
(***************************************************************************)
EXTENDS BoardProofs

-----------------------------------------------------------------------------
(* The inductive invariant.                                                *)

Types ==
  /\ sprints \subseteq Sprints
  /\ req = [r \in Requests |-> req[r]]
  /\ window = [s \in Sprints |-> window[s]]
  /\ sprintOf = [c \in CardIds |-> sprintOf[c]]

\* What a request has checked holds of what it will write, unless its sprint is
\* loose; and a card is only assigned to what was a sprint.
Checked(q) ==
  /\ q.at = "update sprint" =>
       ValidSprintWindow(Overlaid(q.seen, q.given, q.halves))
  /\ q.at = "write sprint" => q.sprint \in loose \/ ValidSprintWindow(q.window)
  /\ q.at = "assign" => q.sprint \in sprints \cup gone \cup {NoSprint}

AllChecked == \A r \in Requests : Checked(req[r])

SInv == Types /\ AllChecked /\ WindowsAreValid /\ CardsInRealSprints

-----------------------------------------------------------------------------
(* The frame.                                                              *)

\* A request goes on, and the sprints that exist, or have existed, still do.
LEMMA StaysChecked ==
  ASSUME AllChecked, Types, NEW r \in Requests, NEW s,
         req' = [req EXCEPT ![r] = s], Checked(s)',
         sprints \cup gone \subseteq sprints' \cup gone', loose \subseteq loose'
  PROVE  AllChecked' /\ req' = [q \in Requests |-> req'[q]]
<1>1. req'[r] = s /\ \A q \in Requests \ {r} : req'[q] = req[q]
  BY DEF Types
<1>2. ASSUME NEW q \in Requests PROVE Checked(req[q])'
  <2>1. CASE q = r
    BY <1>1, <2>1 DEF Checked
  <2>2. CASE q # r
    BY <1>1, <2>2 DEF AllChecked, Checked
  <2>. QED
    BY <2>1, <2>2
<1>3. req' = [q \in Requests |-> req'[q]]
  BY DEF Types
<1>. QED
  BY <1>2, <1>3 DEF AllChecked

\* A request that leaves the sprints, and the cards that stay, as they are.
LEMMA LeavesSprints ==
  ASSUME SInv, NEW r \in Requests, NEW s,
         req' = [req EXCEPT ![r] = s], Checked(s)',
         req[r].at = "clear sprint" => req[r].sprint \in loose',
         loose \subseteq loose', UNCHANGED <<sprints, gone, window>>,
         sprintOf' = [c \in CardIds |-> sprintOf'[c]],
         \A c \in CardIds : sprintOf'[c] \in {sprintOf[c], NoSprint}
  PROVE  SInv'
<1>1. AllChecked' /\ Types'
  BY StaysChecked DEF SInv, Types
<1>2. WindowsAreValid'
  BY DEF SInv, WindowsAreValid, ValidSprintWindow, EachUTCDate, UTCDate
<1>3. CardsInRealSprints'
  <2>1. \A q \in Requests \ {r} : req'[q] = req[q]
    BY DEF SInv, Types
  <2>2. ASSUME NEW c \in CardIds, sprintOf'[c] \notin sprints' \cup loose' \cup {NoSprint}
        PROVE  \E q \in Requests : req'[q].at = "clear sprint" /\ req'[q].sprint = sprintOf'[c]
    <3>1. sprintOf'[c] = sprintOf[c] /\ sprintOf[c] \notin sprints \cup loose \cup {NoSprint}
      BY <2>2
    <3>2. PICK q \in Requests : req[q].at = "clear sprint" /\ req[q].sprint = sprintOf[c]
      BY <3>1 DEF SInv, CardsInRealSprints
    <3>3. q # r
      BY <2>2, <3>1, <3>2
    <3>. QED
      BY <2>1, <3>1, <3>2, <3>3
  <2>. QED
    BY <2>2 DEF CardsInRealSprints
<1>. QED
  BY <1>1, <1>2, <1>3 DEF SInv

\* A move that begins is not about a sprint.
LEMMA MoveGoesOn ==
  ASSUME NEW r, NEW c, NEW base, NEW to, NEW n, MoveCard(r, c, base, to, n)
  PROVE  \E s : req' = [req EXCEPT ![r] = s] /\ s.at \notin AtSprint
<1>. DEFINE s == [at |-> "leave", card |-> c, base |-> base, from |-> column[c],
                  to |-> to, asked |-> n, isDone |-> to \in done,
                  left |-> Sorted(CardsIn(column[c]) \ {c}, position)]
<1>1. req' = [req EXCEPT ![r] = s] /\ s.at = "leave"
  BY DEF MoveCard, Goto
<1>. HIDE DEF s
<1>. QED
  BY <1>1 DEF AtSprint

\* What a request of the board does next is not about a sprint.
LEMMA BoardGoesOn ==
  ASSUME Types, NEW r \in Requests, RequestStep(r)
  PROVE  \E s : req' = [req EXCEPT ![r] = s] /\ s.at \notin AtSprint
<1>. USE DEF AtSprint
<1>0. Idle.at \notin AtSprint
  BY DEF Idle
<1>1. CASE UNCHANGED req /\ req[r] = Idle
  <2>1. req' = [req EXCEPT ![r] = Idle]
    BY <1>1 DEF Types
  <2>. QED
    BY <1>0, <2>1
<1>2. CASE req' = [req EXCEPT ![r] = Idle]
  BY <1>0, <1>2
<1>4. CASE \E isDone \in BOOLEAN : InsertColumn(r, isDone)
  BY <1>2, <1>4 DEF InsertColumn, Goto
<1>5. CASE \E k \in ColumnIds, isDone \in BOOLEAN : RenameColumn(r, k, isDone)
  BY <1>1, <1>5 DEF RenameColumn, Called
<1>6. CASE \E c \in CardIds, base \in 1..MaxVersion : UpdateCard(r, c, base)
  BY <1>1, <1>6 DEF UpdateCard, Called
<1>7. CASE Abort(r) \/ Reindex(r) \/ WriteOrder(r) \/ InsertCard(r) \/ Enter(r)
  BY <1>2, <1>7 DEF Abort, Reindex, WriteOrder, InsertCard, Enter, Goto
<1>8. CASE CreateColumn(r)
  <2>. DEFINE s == [at |-> "insert column",
                    place |-> IF columns = {} THEN 0
                              ELSE 1 + Max({place[k] : k \in columns})]
  <2>1. req' = [req EXCEPT ![r] = s] /\ s.at = "insert column"
    BY <1>8 DEF CreateColumn, Goto
  <2>. HIDE DEF s
  <2>. QED
    BY <2>1
<1>9. CASE CountColumns(r)
  <2>. DEFINE s == [at |-> "delete", column |-> req[r].column]
  <2>1. s.at = "delete"
    OBVIOUS
  <2>. HIDE DEF s
  <2>2. req' = [req EXCEPT ![r] = s] \/ req' = [req EXCEPT ![r] = Idle]
    BY <1>9 DEF CountColumns, Goto, s
  <2>. QED
    BY <1>2, <2>1, <2>2
<1>10. CASE DeleteRow(r)
  <2>. DEFINE k == req[r].column
              s == [at |-> "reindex", column |-> k, order |-> Sorted(columns \ {k}, place)]
  <2>1. req' = [req EXCEPT ![r] = s] /\ s.at = "reindex"
    BY <1>10 DEF DeleteRow, Goto
  <2>. HIDE DEF s
  <2>. QED
    BY <2>1
<1>11. CASE ReorderColumns(r)
  <2>1. PICK order : req' = [req EXCEPT ![r] = [at |-> "reorder", order |-> order]]
    BY <1>11 DEF ReorderColumns, Goto
  <2>. DEFINE s == [at |-> "reorder", order |-> order]
  <2>2. req' = [req EXCEPT ![r] = s] /\ s.at = "reorder"
    BY <2>1
  <2>. HIDE DEF s
  <2>. QED
    BY <2>2
<1>12. ASSUME NEW k \in ColumnIds, DeleteColumn(r, k)
       PROVE  \E s : req' = [req EXCEPT ![r] = s] /\ s.at \notin AtSprint
  <2>. DEFINE s == [at |-> "count columns", column |-> k]
  <2>1. req' = [req EXCEPT ![r] = s] /\ s.at = "count columns"
    BY <1>12 DEF DeleteColumn, Goto
  <2>. HIDE DEF s
  <2>. QED
    BY <2>1
<1>13. ASSUME NEW k \in ColumnIds, CreateCard(r, k)
       PROVE  \E s : req' = [req EXCEPT ![r] = s] /\ s.at \notin AtSprint
  <2>. DEFINE s == [at |-> "insert card", column |-> k,
                    position |-> Cardinality(CardsIn(k)), isDone |-> k \in done]
  <2>1. req' = [req EXCEPT ![r] = s] /\ s.at = "insert card"
    BY <1>13 DEF CreateCard, Goto
  <2>. HIDE DEF s
  <2>. QED
    BY <2>1
<1>14. ASSUME NEW c, NEW base, NEW to, NEW n, MoveCard(r, c, base, to, n)
       PROVE  \E s : req' = [req EXCEPT ![r] = s] /\ s.at \notin AtSprint
  BY <1>14, MoveGoesOn
<1>15. CASE Leave(r)
  <2>. DEFINE w   == Numbered(req[r].left)
              ids == Sorted(CardsIn(req[r].to), Written(position, w, CardIds))
              s   == [at |-> "enter", card |-> req[r].card, base |-> req[r].base,
                      from |-> req[r].from, to |-> req[r].to, asked |-> req[r].asked,
                      isDone |-> req[r].isDone, writes |-> w,
                      position |-> Min({req[r].asked, Len(ids)}), ids |-> ids]
  <2>1. req' = [req EXCEPT ![r] = s] /\ s.at = "enter"
    BY <1>15 DEF Leave
  <2>. HIDE DEF s
  <2>. QED
    BY <2>1
<1>. QED
  BY <1>4, <1>5, <1>6, <1>7, <1>8, <1>9, <1>10, <1>11, <1>12, <1>13, <1>14, <1>15
  DEF RequestStep

-----------------------------------------------------------------------------
(* The steps.                                                              *)

\* A request that is not at work on a sprint has checked nothing.
LEMMA NothingToCheck ==
  ASSUME NEW s, s.at \notin {"update sprint", "write sprint", "assign"}
  PROVE  Checked(s)'
BY DEF Checked

\* Cards keep their sprint, or lose it with their row; a deletion of a sprint
\* that breaks off leaves it loose.
LEMMA BoardSInv ==
  ASSUME SInv, NEW r \in Requests, BoardStep(r)
  PROVE  SInv'
<1>1. PICK s : req' = [req EXCEPT ![r] = s] /\ s.at \notin AtSprint
  BY BoardGoesOn DEF SInv, BoardStep
<1>2. Checked(s)'
  BY <1>1, NothingToCheck DEF AtSprint
<1>3. /\ req[r].at = "clear sprint" => req[r].sprint \in loose'
      /\ loose \subseteq loose' /\ UNCHANGED <<sprints, gone, window>>
  BY DEF BoardStep
<1>4. /\ sprintOf' = [c \in CardIds |-> sprintOf'[c]]
      /\ \A c \in CardIds : sprintOf'[c] \in {sprintOf[c], NoSprint}
  BY DEF BoardStep
<1>. QED
  BY <1>1, <1>2, <1>3, <1>4, LeavesSprints

\* Cards keep their sprint, or get one that is no reproach, and no deletion ends.
LEMMA CardsStay ==
  ASSUME CardsInRealSprints,
         \A p \in Requests : req[p].at = "clear sprint" => req'[p] = req[p],
         sprints \cup loose \subseteq sprints' \cup loose',
         \A c \in CardIds : \/ sprintOf'[c] = sprintOf[c]
                            \/ sprintOf'[c] \in sprints' \cup loose' \cup {NoSprint}
  PROVE  CardsInRealSprints'
<1>1. ASSUME NEW c \in CardIds, sprintOf'[c] \notin sprints' \cup loose' \cup {NoSprint}
      PROVE  \E q \in Requests : req'[q].at = "clear sprint" /\ req'[q].sprint = sprintOf'[c]
  <2>1. sprintOf'[c] = sprintOf[c] /\ sprintOf[c] \notin sprints \cup loose \cup {NoSprint}
    BY <1>1
  <2>2. PICK q \in Requests : req[q].at = "clear sprint" /\ req[q].sprint = sprintOf[c]
    BY <2>1 DEF CardsInRealSprints
  <2>3. req'[q] = req[q]
    BY <2>2
  <2>. QED
    BY <2>1, <2>2, <2>3
<1>. QED
  BY <1>1 DEF CardsInRealSprints

\* A sprint begins with a valid window.
LEMMA CreateSInv ==
  ASSUME SInv, NEW r \in Requests, NEW s \in Sprints, NEW w, CreateSprint(r, s, w)
  PROVE  SInv'
<1>1. /\ ValidSprintWindow(w) /\ sprints' = sprints \cup {s}
      /\ window' = [window EXCEPT ![s] = w]
      /\ UNCHANGED <<req, gone, sprintOf, loose>>
  BY DEF CreateSprint, vars
<1>2. Types' /\ AllChecked' /\ CardsInRealSprints'
  BY <1>1 DEF SInv, Types, AllChecked, Checked, CardsInRealSprints,
              ValidSprintWindow, EachUTCDate, UTCDate
<1>3. WindowsAreValid'
  <2>1. window'[s] = w /\ \A z \in Sprints \ {s} : window'[z] = window[z]
    BY <1>1 DEF SInv, Types
  <2>2. ASSUME NEW z \in sprints' \ loose' PROVE ValidSprintWindow(window[z])'
    <3>1. CASE z = s
      BY <1>1, <2>1, <3>1 DEF ValidSprintWindow, EachUTCDate, UTCDate
    <3>2. CASE z # s
      <4>1. window'[z] = window[z]
        BY <1>1, <3>2
      <4>. QED
        BY <1>1, <3>2, <4>1
        DEF SInv, WindowsAreValid, ValidSprintWindow, EachUTCDate, UTCDate
    <3>. QED
      BY <3>1, <3>2
  <2>. QED
    BY <2>2 DEF WindowsAreValid
<1>. QED
  BY <1>2, <1>3 DEF SInv

\* The service checks the window that the sprint would have.
LEMMA CheckSInv ==
  ASSUME SInv, NEW r \in Requests, NEW z \in Sprints, NEW w, NEW halves,
         CheckSprint(r, z, w, halves)
  PROVE  SInv'
<1>1. req[r] = Idle /\ ValidSprintWindow(Overlaid(window[z], w, halves)) /\ UNCHANGED sprintVars
  BY DEF CheckSprint, Called
<1>2. PICK s : /\ req' = [req EXCEPT ![r] = s]
               /\ s.at = "update sprint" /\ s.seen = window[z]
               /\ s.given = w /\ s.halves = halves
  <2>. DEFINE t == [at |-> "update sprint", sprint |-> z, given |-> w,
                    halves |-> halves, seen |-> window[z]]
  <2>1. req' = [req EXCEPT ![r] = t]
    BY DEF CheckSprint, Goto
  <2>2. t.at = "update sprint" /\ t.seen = window[z] /\ t.given = w /\ t.halves = halves
    OBVIOUS
  <2>. HIDE DEF t
  <2>. QED
    BY <2>1, <2>2
<1>3. Checked(s)'
  BY <1>1, <1>2 DEF Checked, ValidSprintWindow, EachUTCDate, UTCDate, Overlaid
<1>4. req[r].at # "clear sprint"
  BY <1>1 DEF Idle
<1>. QED
  BY <1>1, <1>2, <1>3, <1>4, LeavesSprints DEF sprintVars, SInv, Types

\* What the store then reads is what was checked, or the sprint is loose.
LEMMA ReadSInv ==
  ASSUME SInv, NEW r \in Requests, ReadSprint(r)
  PROVE  SInv'
<1>. DEFINE q == req[r]
<1>1. /\ q.at = "update sprint"
      /\ loose' = IF window[q.sprint] = q.seen THEN loose ELSE loose \cup {q.sprint}
      /\ UNCHANGED <<sprints, gone, window, sprintOf>>
  BY DEF ReadSprint
<1>2. PICK s : /\ req' = [req EXCEPT ![r] = s]
               /\ s.at = "write sprint" /\ s.sprint = q.sprint
               /\ s.window = Overlaid(window[q.sprint], q.given, q.halves)
  <2>. DEFINE t == [at |-> "write sprint", sprint |-> q.sprint, seen |-> window[q.sprint],
                    window |-> Overlaid(window[q.sprint], q.given, q.halves)]
  <2>1. req' = [req EXCEPT ![r] = t]
    BY DEF ReadSprint, Goto
  <2>2. /\ t.at = "write sprint" /\ t.sprint = q.sprint
        /\ t.window = Overlaid(window[q.sprint], q.given, q.halves)
    OBVIOUS
  <2>. HIDE DEF t
  <2>. QED
    BY <2>1, <2>2
<1>3. q.sprint \in loose' \/ ValidSprintWindow(s.window)
  BY <1>1, <1>2 DEF SInv, AllChecked, Checked
<1>4. Checked(s)'
  BY <1>2, <1>3 DEF Checked, ValidSprintWindow, EachUTCDate, UTCDate
<1>5. req[r].at # "clear sprint" /\ loose \subseteq loose'
  BY <1>1
<1>. QED
  BY <1>1, <1>2, <1>4, <1>5, LeavesSprints DEF SInv, Types

\* So what it writes is valid, or the sprint is loose.
LEMMA WriteSInv ==
  ASSUME SInv, NEW r \in Requests, WriteSprint(r)
  PROVE  SInv'
<1>. DEFINE q == req[r]
<1>1. /\ q.at = "write sprint" /\ req' = [req EXCEPT ![r] = Idle]
      /\ window' = IF q.sprint \in sprints
                   THEN [window EXCEPT ![q.sprint] = q.window] ELSE window
      /\ loose \subseteq loose' /\ UNCHANGED <<sprints, gone, sprintOf>>
  BY DEF WriteSprint, Goto
<1>2. q.sprint \in loose \/ ValidSprintWindow(q.window)
  BY <1>1 DEF SInv, AllChecked, Checked
<1>3. Checked(Idle)'
  <2>1. Idle.at = "idle"
    BY DEF Idle
  <2>. QED
    BY <2>1, NothingToCheck
<1>4. AllChecked' /\ Types'
  BY <1>1, <1>3, StaysChecked DEF SInv, Types
<1>5. WindowsAreValid'
  <2>1. ASSUME NEW z \in sprints' \ loose' PROVE ValidSprintWindow(window'[z])
    <3>1. CASE z = q.sprint /\ window'[z] = q.window
      BY <1>1, <1>2, <3>1
    <3>2. CASE window'[z] = window[z]
      BY <1>1, <3>2 DEF SInv, WindowsAreValid
    <3>3. window'[z] = window[z] \/ (z = q.sprint /\ window'[z] = q.window)
      BY <1>1 DEF SInv, Types
    <3>. QED
      BY <3>1, <3>2, <3>3
  <2>. QED
    BY <2>1 DEF WindowsAreValid, ValidSprintWindow, EachUTCDate, UTCDate
<1>6. CardsInRealSprints'
  <2>1. \A p \in Requests : req[p].at = "clear sprint" => req'[p] = req[p]
    BY <1>1 DEF SInv, Types
  <2>. QED
    BY <1>1, <2>1, CardsStay DEF SInv
<1>. QED
  BY <1>4, <1>5, <1>6 DEF SInv

\* The request that deletes a sprint is the one that will clear its cards.
LEMMA DeleteSInv ==
  ASSUME SInv, NEW r \in Requests, NEW z \in Sprints, DeleteSprint(r, z)
  PROVE  SInv'
<1>. DEFINE s == [at |-> "clear sprint", sprint |-> z]
<1>1. /\ req[r] = Idle /\ sprints' = sprints \ {z} /\ gone' = gone \cup {z}
      /\ req' = [req EXCEPT ![r] = s]
      /\ UNCHANGED <<window, sprintOf, loose>>
  BY DEF DeleteSprint, Called, Goto
<1>2. s.at = "clear sprint" /\ s.sprint = z
  OBVIOUS
<1>. HIDE DEF s
<1>3. AllChecked' /\ Types'
  <2>1. Checked(s)'
    BY <1>2, NothingToCheck
  <2>. QED
    BY <1>1, <2>1, StaysChecked DEF SInv, Types
<1>4. WindowsAreValid'
  BY <1>1 DEF SInv, WindowsAreValid, ValidSprintWindow, EachUTCDate, UTCDate
<1>5. CardsInRealSprints'
  <2>1. req[r].at # "clear sprint"
    BY <1>1 DEF Idle
  <2>2. req'[r] = s /\ \A p \in Requests \ {r} : req'[p] = req[p]
    BY <1>1 DEF SInv, Types
  <2>3. \A p \in Requests : req[p].at = "clear sprint" => req'[p] = req[p]
    BY <2>1, <2>2
  <2>. QED
    BY <1>1, <1>2, <2>2, <2>3 DEF SInv, CardsInRealSprints
<1>. QED
  BY <1>3, <1>4, <1>5 DEF SInv

LEMMA ClearSInv ==
  ASSUME SInv, NEW r \in Requests, ClearSprint(r)
  PROVE  SInv'
<1>. DEFINE z == req[r].sprint
<1>1. /\ sprintOf' = [c \in CardIds |-> IF sprintOf[c] = z THEN NoSprint ELSE sprintOf[c]]
      /\ req' = [req EXCEPT ![r] = Idle]
      /\ UNCHANGED <<sprints, gone, window, loose>>
  BY DEF ClearSprint, Goto
<1>2. AllChecked' /\ Types'
  <2>1. Idle.at = "idle"
    BY DEF Idle
  <2>2. Checked(Idle)'
    BY <2>1, NothingToCheck
  <2>. QED
    BY <1>1, <2>2, StaysChecked DEF SInv, Types
<1>3. WindowsAreValid'
  BY <1>1 DEF SInv, WindowsAreValid, ValidSprintWindow, EachUTCDate, UTCDate
<1>4. CardsInRealSprints'
  <2>1. \A p \in Requests \ {r} : req'[p] = req[p]
    BY <1>1 DEF SInv, Types
  <2>2. \A c \in CardIds : sprintOf'[c] # NoSprint => sprintOf'[c] = sprintOf[c] /\ sprintOf[c] # z
    BY <1>1
  <2>. QED
    BY <1>1, <2>1, <2>2, ZenonT(60) DEF SInv, CardsInRealSprints
<1>. QED
  BY <1>2, <1>3, <1>4 DEF SInv

\* A card is assigned to what was a sprint when the request looked.
LEMMA AssignSInv ==
  ASSUME SInv, NEW r \in Requests, req[r] = Idle, NEW c, NEW base, NEW z,
         AssignCard(r, c, base, z)
  PROVE  SInv'
<1>. DEFINE s == [at |-> "assign", card |-> c, base |-> base, sprint |-> z]
<1>1. z \in sprints \cup {NoSprint} /\ req' = [req EXCEPT ![r] = s] /\ UNCHANGED sprintVars
  BY DEF AssignCard, Goto
<1>2. s.at = "assign" /\ s.sprint = z
  OBVIOUS
<1>. HIDE DEF s
<1>3. Checked(s)'
  BY <1>1, <1>2 DEF Checked, sprintVars
<1>4. req[r].at # "clear sprint"
  BY DEF Idle
<1>. QED
  BY <1>1, <1>3, <1>4, LeavesSprints DEF sprintVars, SInv, Types

\* It is loose if it has been deleted since.
LEMMA WriteCardSInv ==
  ASSUME SInv, NEW r \in Requests, WriteCard(r)
  PROVE  SInv'
<1>. DEFINE q == req[r]
<1>1. /\ q.at = "assign" /\ req' = [req EXCEPT ![r] = Idle]
      /\ sprintOf' = [sprintOf EXCEPT ![q.card] = q.sprint]
      /\ loose' = IF q.sprint \in gone THEN loose \cup {q.sprint} ELSE loose
      /\ UNCHANGED <<sprints, gone, window>>
  BY DEF WriteCard, Goto
<1>2. q.sprint \in sprints' \cup loose' \cup {NoSprint} /\ loose \subseteq loose'
  BY <1>1 DEF SInv, AllChecked, Checked
<1>3. AllChecked' /\ Types'
  <2>1. Idle.at = "idle"
    BY DEF Idle
  <2>2. Checked(Idle)'
    BY <2>1, NothingToCheck
  <2>. QED
    BY <1>1, <1>2, <2>2, StaysChecked DEF SInv, Types
<1>4. WindowsAreValid'
  BY <1>1, <1>2 DEF SInv, WindowsAreValid, ValidSprintWindow, EachUTCDate, UTCDate
<1>5. CardsInRealSprints'
  <2>1. \A p \in Requests : req[p].at = "clear sprint" => req'[p] = req[p]
    BY <1>1 DEF SInv, Types
  <2>2. \A c \in CardIds : sprintOf'[c] = sprintOf[c] \/ sprintOf'[c] = q.sprint
    BY <1>1 DEF SInv, Types
  <2>. QED
    BY <1>1, <1>2, <2>1, <2>2, CardsStay DEF SInv
<1>. QED
  BY <1>3, <1>4, <1>5 DEF SInv

\* A save of the form is a move or an assignment.
LEMMA SaveSInv ==
  ASSUME SInv, NEW r \in Requests, SaveForm(r)
  PROVE  SInv'
<1>. DEFINE c == form.card
            base == form.version
            to == form.column
            z == form.sprint
<1>1. /\ req[r] = Idle
      /\ \/ MoveCard(r, c, base, to, 0) /\ UNCHANGED sprintVars
         \/ AssignCard(r, c, base, z)
  BY DEF SaveForm
<1>. HIDE DEF c, base, to, z
<1>2. CASE MoveCard(r, c, base, to, 0) /\ UNCHANGED sprintVars
  <2>1. PICK s : req' = [req EXCEPT ![r] = s] /\ s.at \notin AtSprint
    BY <1>2, MoveGoesOn
  <2>2. Checked(s)'
    BY <2>1, NothingToCheck DEF AtSprint
  <2>3. req[r].at # "clear sprint"
    BY <1>1 DEF Idle
  <2>. QED
    BY <1>2, <2>1, <2>2, <2>3, LeavesSprints DEF sprintVars, SInv, Types
<1>. QED
  BY <1>1, <1>2, AssignSInv

LEMMA IdleSInv ==
  ASSUME SInv, UNCHANGED <<req, sprintVars>>
  PROVE  SInv'
BY DEF SInv, Types, AllChecked, Checked, WindowsAreValid, CardsInRealSprints, sprintVars,
       ValidSprintWindow, EachUTCDate, UTCDate, Overlaid

LEMMA NextSInv ==
  ASSUME SInv, [PlanNext]_planVars
  PROVE  SInv'
<1>1. ASSUME NEW r \in Requests, BoardStep(r) \/ SprintStep(r) \/ SaveForm(r) PROVE SInv'
  <2>1. CASE SprintStep(r)
    <3>1. ASSUME NEW c \in CardIds, NEW base \in 1..MaxVersion,
                 NEW z \in Sprints \cup {NoSprint},
                 Called(r, "assign card"), AssignCard(r, c, base, z)
          PROVE  SInv'
      BY <3>1, AssignSInv DEF Called
    <3>. QED
      BY <2>1, <3>1, CreateSInv, CheckSInv, ReadSInv, WriteSInv, DeleteSInv, ClearSInv,
         WriteCardSInv DEF SprintStep
  <2>. QED
    BY <1>1, <2>1, BoardSInv, SaveSInv
<1>2. CASE PageStep \/ NextDay \/ UNCHANGED planVars
  <2>1. UNCHANGED <<req, sprintVars>>
    BY <1>2 DEF PageStep, RefreshPage, CloseForm, OpenForm, PickColumn, PickSprint,
                NextDay, planVars, vars
  <2>. QED
    BY <2>1, IdleSInv
<1>. QED
  BY <1>1, <1>2 DEF PlanNext

LEMMA InitSInv ==
  ASSUME PlanInit
  PROVE  SInv
<1>1. Types /\ WindowsAreValid
  BY DEF PlanInit, Init, Types, WindowsAreValid
<1>2. AllChecked
  <2>1. \A r \in Requests : req[r].at = "idle"
    BY DEF PlanInit, Init, Idle
  <2>. QED
    BY <2>1 DEF AllChecked, Checked
<1>3. CardsInRealSprints
  BY DEF PlanInit, CardsInRealSprints
<1>. QED
  BY <1>1, <1>2, <1>3 DEF SInv

LEMMA SprintInvariance == PlanSpec => []SInv
<1>1. PlanInit => SInv
  BY InitSInv
<1>2. SInv /\ [PlanNext]_planVars => SInv'
  BY NextSInv
<1>. QED
  BY <1>1, <1>2, PTL DEF PlanSpec

-----------------------------------------------------------------------------
(* The clock, and the burndown.                                            *)

\* What is written down of the clock is not later than today, and only a card
\* that is there is in a sprint.
ClockInv ==
  /\ load \in Workloads /\ today \in Days
  /\ started \in [Requests -> 0..today]
  /\ created \in [CardIds -> 0..today] /\ completedAt \in [CardIds -> 0..today]
  /\ \A c \in CardIds : column[c] = 0 => sprintOf[c] = NoSprint

PastInv == IInv /\ FormOfACard /\ SInv /\ ClockInv

LEMMA DaysAreNumbers ==
  ASSUME NEW d \in Days
  PROVE  d \in Nat /\ 0 \in 0..d /\ d \in 0..d
BY PlanningAssumption DEF PlanningAssumption, Days

LEMMA DatedClock ==
  ASSUME ClockInv, NEW r \in Requests, Dated(r), UNCHANGED <<today, load>>,
         \A c \in CardIds : column'[c] = 0 => sprintOf'[c] = NoSprint
  PROVE  ClockInv'
<1>1. today \in Days /\ 0 \in 0..today /\ today \in 0..today
  BY DaysAreNumbers DEF ClockInv
<1>2. PICK n \in 0..today : n = Now(r)
  BY <1>1 DEF ClockInv, Now
<1>3. started' \in [Requests -> 0..today]
  BY <1>1, <1>2 DEF Dated, ClockInv
<1>4. created' \in [CardIds -> 0..today]
  BY <1>2 DEF Dated, ClockInv
<1>5. completedAt' \in [CardIds -> 0..today]
  BY <1>1, <1>2 DEF Dated, ClockInv
<1>. QED
  BY <1>3, <1>4, <1>5 DEF ClockInv

\* A card has no sprint before it is created, and loses it when it is deleted.
LEMMA StaysSprintless ==
  ASSUME PastInv, NEW r \in Requests, BoardStep(r) \/ SprintStep(r) \/ SaveForm(r)
  PROVE  \A c \in CardIds : column'[c] = 0 => sprintOf'[c] = NoSprint
<1>1. \A c \in CardIds : column[c] = 0 => sprintOf[c] = NoSprint
  BY DEF PastInv, ClockInv
<1>2. CASE BoardStep(r)
  BY <1>2 DEF BoardStep
<1>3. CASE UNCHANGED <<cardRows, sprintOf>>
  BY <1>1, <1>3 DEF cardRows
<1>4. CASE ClearSprint(r)
  <2>1. column' = column /\ \A c \in CardIds : sprintOf'[c] \in {NoSprint, sprintOf[c]}
    BY <1>4 DEF ClearSprint, cardRows
  <2>. QED
    BY <1>1, <2>1
<1>5. CASE WriteCard(r)
  <2>1. /\ column' = column /\ sprintOf' = [sprintOf EXCEPT ![req[r].card] = req[r].sprint]
        /\ column[req[r].card] # 0
    BY <1>5 DEF WriteCard, PastInv, IInv, AllKnow, KnowsItsCard, Moving
  <2>2. sprintOf = [c \in CardIds |-> sprintOf[c]]
    BY DEF PastInv, SInv, Types
  <2>3. \A c \in CardIds : c # req[r].card => sprintOf'[c] = sprintOf[c]
    BY <2>1, <2>2
  <2>. QED
    BY <1>1, <2>1, <2>3
<1>6. CASE SprintStep(r)
  BY <1>3, <1>4, <1>5, <1>6
  DEF SprintStep, CreateSprint, CheckSprint, ReadSprint, WriteSprint, DeleteSprint, AssignCard,
      sprintVars, vars
<1>7. CASE SaveForm(r)
  BY <1>3, <1>7 DEF SaveForm, MoveCard, AssignCard, sprintVars
<1>. QED
  BY <1>2, <1>6, <1>7

\* A request writes down the time it has read, or none.
LEMMA StepsAreDated ==
  ASSUME NEW r \in Requests, BoardStep(r) \/ SprintStep(r) \/ SaveForm(r)
  PROVE  /\ UNCHANGED <<load, today>>
         /\ Dated(r) \/ UNCHANGED <<clockVars, completed>>
<1>1. CASE BoardStep(r)
  BY <1>1 DEF BoardStep
<1>2. CASE SprintStep(r)
  BY <1>2
  DEF SprintStep, CreateSprint, CheckSprint, ReadSprint, WriteSprint, DeleteSprint,
      ClearSprint, AssignCard, WriteCard, vars, cardRows
<1>3. CASE SaveForm(r)
  BY <1>3 DEF SaveForm, AssignCard
<1>. QED
  BY <1>1, <1>2, <1>3

LEMMA NextClockInv ==
  ASSUME PastInv, [PlanNext]_planVars
  PROVE  ClockInv'
<1>1. ASSUME NEW r \in Requests, BoardStep(r) \/ SprintStep(r) \/ SaveForm(r)
      PROVE  ClockInv'
  <2>1. ClockInv
    BY DEF PastInv
  <2>2. \A c \in CardIds : column'[c] = 0 => sprintOf'[c] = NoSprint
    BY <1>1, StaysSprintless
  <2>3. UNCHANGED <<load, today>> /\ (Dated(r) \/ UNCHANGED <<clockVars, completed>>)
    BY <1>1, StepsAreDated
  <2>4. CASE Dated(r)
    BY <2>1, <2>2, <2>3, <2>4, DatedClock
  <2>5. CASE UNCHANGED clockVars
    BY <2>1, <2>2, <2>3, <2>5 DEF ClockInv, clockVars
  <2>. QED
    BY <2>3, <2>4, <2>5
<1>2. CASE NextDay
  <2>1. /\ today < load.days /\ today' = today + 1
        /\ UNCHANGED <<load, started, created, completedAt, column, sprintOf>>
    BY <1>2 DEF NextDay, vars, cardRows, sprintVars, clockVars
  <2>2. load \in Workloads /\ load.days \in Days /\ today \in Days
    BY PlanningAssumption DEF PastInv, ClockInv, PlanningAssumption, PlanWorkload
  <2>3. today' \in Days /\ 0..today \subseteq 0..today'
    BY <2>1, <2>2, PlanningAssumption DEF PlanningAssumption, Days
  <2>. QED
    BY <2>1, <2>3 DEF PastInv, ClockInv
<1>3. CASE PageStep \/ UNCHANGED planVars
  <2>1. UNCHANGED <<load, today, started, created, completedAt, column, sprintOf>>
    BY <1>3 DEF PageStep, RefreshPage, CloseForm, OpenForm, PickColumn, PickSprint,
                planVars, vars, cardRows, sprintVars, clockVars
  <2>. QED
    BY <2>1 DEF PastInv, ClockInv
<1>. QED
  BY <1>1, <1>2, <1>3 DEF PlanNext

LEMMA InitClockInv ==
  ASSUME PlanInit
  PROVE  ClockInv
<1>1. 0 \in Days /\ 0 \in 0..0
  BY PlanningAssumption DEF PlanningAssumption, Days
<1>2. load \in Workloads /\ today = 0
  BY DEF PlanInit, Init
<1>3. started \in [Requests -> 0..0] /\ created \in [CardIds -> 0..0]
      /\ completedAt \in [CardIds -> 0..0] /\ sprintOf = [c \in CardIds |-> NoSprint]
  BY <1>1 DEF PlanInit
<1>. QED
  BY <1>1, <1>2, <1>3 DEF ClockInv

LEMMA PastInvariance == PlanSpec => []PastInv
<1>1. PlanInit => PastInv
  BY InitIInv, InitSInv, InitClockInv DEF PastInv
<1>2. PastInv /\ [PlanNext]_planVars => PastInv'
  BY NextIInv, NextSInv, NextClockInv DEF PastInv
<1>. QED
  BY <1>1, <1>2, PTL DEF PlanSpec

\* A day that is over, and that no request began on.
Over(day) == day < today /\ \A r \in Requests : req[r] # Idle => day < started[r]

\* Of a card that was there, the times stay; and what completes now does not
\* complete on a day that is over.
LEMMA TimesStay ==
  ASSUME PastInv, [PlanNext]_planVars, NEW day \in Days, Over(day),
         NEW c \in CardIds, column[c] # 0
  PROVE  /\ created'[c] = created[c]
         /\ c \in completed \cap completed' => completedAt'[c] = completedAt[c]
         /\ c \in completed' \ completed => completedAt'[c] \in Nat /\ day < completedAt'[c]
<1>1. ASSUME NEW r \in Requests, BoardStep(r) \/ SprintStep(r) \/ SaveForm(r), Dated(r)
      PROVE  /\ created'[c] = created[c]
             /\ c \in completed \cap completed' => completedAt'[c] = completedAt[c]
             /\ c \in completed' \ completed => completedAt'[c] \in Nat /\ day < completedAt'[c]
  <2>1. c \in Nat /\ nextCard \in Nat /\ ~(c >= nextCard)
    BY DEF PastInv, IInv, RowTypes, NotYetCreated, CardIds
  <2>2. c \notin nextCard..(nextCard' - 1)
    BY <2>1
  <2>3. Now(r) \in Nat /\ day < Now(r)
    BY DaysAreNumbers DEF PastInv, ClockInv, Now, Over
  <2>. QED
    BY <1>1, <2>2, <2>3 DEF Dated
<1>2. CASE UNCHANGED <<clockVars, completed>>
  BY <1>2 DEF clockVars
<1>3. CASE PageStep \/ NextDay \/ UNCHANGED planVars
  BY <1>2, <1>3 DEF PageStep, RefreshPage, CloseForm, OpenForm, PickColumn, PickSprint,
                    NextDay, planVars, vars, cardRows
<1>. QED
  BY <1>1, <1>2, <1>3, StepsAreDated DEF PlanNext

\* The cards of a sprint stay, and are as open on the day as they were.
LEMMA BurndownStays ==
  ASSUME PastInv, [PlanNext]_planVars, NEW day \in Days, Over(day),
         NEW s \in sprints \cap sprints',
         day \in EachUTCDate(window[s]), day \in EachUTCDate(window'[s]),
         \A c \in CardIds : s \in {sprintOf[c], sprintOf'[c]} =>
           /\ sprintOf'[c] = sprintOf[c] /\ column'[c] # 0
           /\ c \in completed => c \in completed'
  PROVE  BurndownFor(s)'[day] = BurndownFor(s)[day]
<1>. DEFINE In(c)  == column[c] # 0 /\ sprintOf[c] = s /\ CardOpenOn(c, day)
            Was == {c \in CardIds : In(c)}
            Is  == {c \in CardIds : column'[c] # 0 /\ sprintOf'[c] = s /\ CardOpenOn(c, day)'}
<1>1. ASSUME NEW c \in CardIds
      PROVE  (column'[c] # 0 /\ sprintOf'[c] = s /\ CardOpenOn(c, day)') <=> In(c)
  <2>1. CASE s \notin {sprintOf[c], sprintOf'[c]}
    BY <2>1
  <2>2. CASE s \in {sprintOf[c], sprintOf'[c]}
    <3>1. sprintOf'[c] = s /\ sprintOf[c] = s /\ column'[c] # 0
          /\ (c \in completed => c \in completed')
      BY <2>2
    <3>2. s # NoSprint
      BY PlanningAssumption DEF PastInv, SInv, Types, PlanningAssumption
    <3>3. column[c] # 0
      BY <3>1, <3>2 DEF PastInv, ClockInv
    <3>4. /\ created'[c] = created[c]
          /\ c \in completed \cap completed' => completedAt'[c] = completedAt[c]
          /\ c \in completed' \ completed => completedAt'[c] \in Nat /\ day < completedAt'[c]
      BY <3>3, TimesStay
    <3>5. day \in Nat
      BY DaysAreNumbers
    <3>6. CardOpenOn(c, day)' <=> CardOpenOn(c, day)
      <4>1. CASE c \in completed
        BY <3>1, <3>4, <4>1 DEF CardOpenOn
      <4>2. CASE c \notin completed /\ c \in completed'
        <5>1. ~(completedAt'[c] <= day)
          BY <3>4, <3>5, <4>2
        <5>. QED
          BY <3>4, <4>2, <5>1 DEF CardOpenOn
      <4>3. CASE c \notin completed /\ c \notin completed'
        BY <3>4, <4>3 DEF CardOpenOn
      <4>. QED
        BY <4>1, <4>2, <4>3
    <3>. QED
      BY <3>1, <3>3, <3>6
  <2>. QED
    BY <2>1, <2>2
<1>2. Is = Was
  BY <1>1
<1>3. BurndownFor(s)[day] = Cardinality(Was)
  BY DEF BurndownFor
<1>4. BurndownFor(s)'[day] = Cardinality(Is)
  BY DEF BurndownFor
<1>. QED
  BY <1>2, <1>3, <1>4

-----------------------------------------------------------------------------
(* The types of the sprints, and of what a request has read of them.       *)

Windows == [start : Instants, end : Instants]

OfASprint(q) ==
  /\ q.at \in {"update sprint", "write sprint", "clear sprint"} => q.sprint \in Sprints
  /\ q.at = "update sprint" => q.given \in Windows
  /\ q.at = "write sprint" => q.window \in Windows
  /\ q.at = "assign" => q.sprint \in Sprints \cup {NoSprint}

SprintTypes ==
  /\ gone \cup loose \subseteq Sprints /\ sprints \cap gone = {}
  /\ window \in [Sprints -> Windows]
  /\ sprintOf \in [CardIds -> Sprints \cup {NoSprint}]
  /\ \A r \in Requests : OfASprint(req[r])

LEMMA OverlaidType ==
  ASSUME NEW w \in Windows, NEW given \in Windows, NEW halves
  PROVE  Overlaid(w, given, halves) \in Windows
BY DEF Overlaid, Windows

LEMMA StillOfASprint ==
  ASSUME SInv, SprintTypes, NEW r \in Requests, NEW s, req' = [req EXCEPT ![r] = s], OfASprint(s)
  PROVE  \A q \in Requests : OfASprint(req'[q])
<1>1. req'[r] = s /\ \A q \in Requests \ {r} : req'[q] = req[q]
  BY DEF SInv, Types
<1>. QED
  BY <1>1 DEF SprintTypes

\* A request that is at nothing of a sprint.
LEMMA OfNoSprint ==
  ASSUME NEW s, s.at \notin AtSprint
  PROVE  OfASprint(s)
BY DEF OfASprint, AtSprint

LEMMA IdleOfNoSprint ==
  OfASprint(Idle)
<1>1. Idle.at = "idle"
  BY DEF Idle
<1>. QED
  BY <1>1, OfNoSprint DEF AtSprint

LEMMA BoardSprintTypes ==
  ASSUME SInv, SprintTypes, NEW r \in Requests, BoardStep(r)
  PROVE  SprintTypes'
<1>1. PICK s : req' = [req EXCEPT ![r] = s] /\ s.at \notin AtSprint
  BY BoardGoesOn DEF SInv, BoardStep
<1>2. \A q \in Requests : OfASprint(req'[q])
  BY <1>1, OfNoSprint, StillOfASprint
<1>3. sprintOf' \in [CardIds -> Sprints \cup {NoSprint}]
  BY DEF BoardStep, SprintTypes
<1>4. UNCHANGED <<sprints, gone, window>>
  BY DEF BoardStep
<1>5. loose' \subseteq Sprints
  <2>1. CASE req[r].at = "clear sprint"
    <3>1. req[r].sprint \in Sprints /\ loose' = loose \cup {req[r].sprint}
      BY <2>1 DEF SprintTypes, OfASprint, BoardStep
    <3>. QED
      BY <3>1 DEF SprintTypes
  <2>2. CASE req[r].at # "clear sprint"
    BY <2>2 DEF BoardStep, SprintTypes
  <2>. QED
    BY <2>1, <2>2
<1>. QED
  BY <1>2, <1>3, <1>4, <1>5 DEF SprintTypes

\* A request reads something of the sprints, and changes nothing.
LEMMA OnlyReads ==
  ASSUME SInv, SprintTypes, NEW r \in Requests, NEW s, req' = [req EXCEPT ![r] = s],
         OfASprint(s), loose' \subseteq Sprints, UNCHANGED <<sprints, gone, window, sprintOf>>
  PROVE  SprintTypes'
<1>1. \A q \in Requests : OfASprint(req'[q])
  BY StillOfASprint
<1>. QED
  BY <1>1 DEF SprintTypes

LEMMA AssignSprintTypes ==
  ASSUME SInv, SprintTypes, NEW r \in Requests, NEW c, NEW base, NEW z, AssignCard(r, c, base, z)
  PROVE  SprintTypes'
<1>1. PICK s : s = [at |-> "assign", card |-> c, base |-> base, sprint |-> z]
  OBVIOUS
<1>2. s.at = "assign" /\ s.sprint = z
  BY <1>1
<1>3. z \in Sprints \cup {NoSprint} /\ req' = [req EXCEPT ![r] = s] /\ UNCHANGED sprintVars
  BY <1>1 DEF AssignCard, Goto, SInv, Types
<1>4. OfASprint(s)
  BY <1>2, <1>3 DEF OfASprint
<1>. QED
  BY <1>3, <1>4, OnlyReads DEF sprintVars, SprintTypes

LEMMA StepSprintTypes ==
  ASSUME SInv, SprintTypes, NEW r \in Requests, SprintStep(r), load \in Workloads
  PROVE  SprintTypes'
<1>1. ASSUME NEW z \in Sprints, NEW w \in load.windows, CreateSprint(r, z, w)
      PROVE  SprintTypes'
  <2>1. w \in Windows
    BY <1>1, PlanningAssumption DEF PlanningAssumption, PlanWorkload, Windows
  <2>2. /\ z \notin gone /\ sprints' = sprints \cup {z}
        /\ window' = [window EXCEPT ![z] = w]
        /\ UNCHANGED <<req, gone, sprintOf, loose>>
    BY <1>1 DEF CreateSprint, vars
  <2>. QED
    BY <1>1, <2>1, <2>2 DEF SprintTypes
<1>2. ASSUME NEW z \in Sprints, NEW w \in load.windows, NEW halves, CheckSprint(r, z, w, halves)
      PROVE  SprintTypes'
  <2>1. w \in Windows
    BY <1>2, PlanningAssumption DEF PlanningAssumption, PlanWorkload, Windows
  <2>2. PICK s : s = [at |-> "update sprint", sprint |-> z, given |-> w, halves |-> halves,
                      seen |-> window[z]]
    OBVIOUS
  <2>3. s.at = "update sprint" /\ s.sprint = z /\ s.given = w
    BY <2>2
  <2>4. req' = [req EXCEPT ![r] = s] /\ UNCHANGED sprintVars
    BY <1>2, <2>2 DEF CheckSprint, Goto
  <2>5. OfASprint(s)
    BY <1>2, <2>1, <2>3 DEF OfASprint
  <2>. QED
    BY <2>4, <2>5, OnlyReads DEF sprintVars, SprintTypes
<1>3. CASE ReadSprint(r)
  <2>1. PICK z, given, halves : z = req[r].sprint /\ given = req[r].given /\ halves = req[r].halves
    OBVIOUS
  <2>2. z \in Sprints /\ given \in Windows
    BY <1>3, <2>1 DEF ReadSprint, SprintTypes, OfASprint
  <2>3. PICK w : w = Overlaid(window[z], given, halves)
    OBVIOUS
  <2>4. w \in Windows
    <3>1. window[z] \in Windows
      BY <2>2 DEF SprintTypes
    <3>. QED
      BY <2>2, <2>3, <3>1, OverlaidType
  <2>5. PICK s : s = [at |-> "write sprint", sprint |-> z, seen |-> window[z], window |-> w]
    OBVIOUS
  <2>6. s.at = "write sprint" /\ s.sprint = z /\ s.window = w
    BY <2>5
  <2>7. /\ req' = [req EXCEPT ![r] = s] /\ loose' \in {loose, loose \cup {z}}
        /\ UNCHANGED <<sprints, gone, window, sprintOf>>
    BY <1>3, <2>1, <2>3, <2>5 DEF ReadSprint, Goto
  <2>8. OfASprint(s)
    BY <2>2, <2>4, <2>6 DEF OfASprint
  <2>. QED
    BY <2>2, <2>7, <2>8, OnlyReads DEF SprintTypes
<1>4. CASE WriteSprint(r)
  <2>1. PICK z, w : z = req[r].sprint /\ w = req[r].window
    OBVIOUS
  <2>2. z \in Sprints /\ w \in Windows
    BY <1>4, <2>1 DEF WriteSprint, SprintTypes, OfASprint
  <2>3. /\ window' = IF z \in sprints THEN [window EXCEPT ![z] = w] ELSE window
        /\ loose' \in {loose, loose \cup {z}} /\ req' = [req EXCEPT ![r] = Idle]
        /\ UNCHANGED <<sprints, gone, sprintOf>>
    BY <1>4, <2>1 DEF WriteSprint, Goto
  <2>4. \A q \in Requests : OfASprint(req'[q])
    BY <2>3, IdleOfNoSprint, StillOfASprint
  <2>5. window' \in [Sprints -> Windows]
    BY <2>2, <2>3 DEF SprintTypes
  <2>. QED
    BY <2>2, <2>3, <2>4, <2>5 DEF SprintTypes
<1>5. ASSUME NEW z \in Sprints, DeleteSprint(r, z) PROVE SprintTypes'
  <2>1. PICK s : s = [at |-> "clear sprint", sprint |-> z]
    OBVIOUS
  <2>2. s.at = "clear sprint" /\ s.sprint = z
    BY <2>1
  <2>3. /\ req' = [req EXCEPT ![r] = s] /\ sprints' = sprints \ {z} /\ gone' = gone \cup {z}
        /\ UNCHANGED <<window, sprintOf, loose>>
    BY <1>5, <2>1 DEF DeleteSprint, Goto
  <2>4. OfASprint(s)
    BY <1>5, <2>2 DEF OfASprint
  <2>5. \A q \in Requests : OfASprint(req'[q])
    BY <2>3, <2>4, StillOfASprint
  <2>. QED
    BY <1>5, <2>3, <2>5 DEF SprintTypes
<1>6. CASE ClearSprint(r)
  <2>1. /\ sprintOf' = [c \in CardIds |-> IF sprintOf[c] = req[r].sprint THEN NoSprint
                                          ELSE sprintOf[c]]
        /\ req' = [req EXCEPT ![r] = Idle]
        /\ UNCHANGED <<sprints, gone, window, loose>>
    BY <1>6 DEF ClearSprint, Goto
  <2>2. \A q \in Requests : OfASprint(req'[q])
    BY <2>1, IdleOfNoSprint, StillOfASprint
  <2>3. sprintOf' \in [CardIds -> Sprints \cup {NoSprint}]
    BY <2>1 DEF SprintTypes
  <2>. QED
    BY <2>1, <2>2, <2>3 DEF SprintTypes
<1>7. CASE WriteCard(r)
  <2>1. PICK z, c : z = req[r].sprint /\ c = req[r].card
    OBVIOUS
  <2>2. /\ req[r].at = "assign" /\ sprintOf' = [sprintOf EXCEPT ![c] = z]
        /\ loose' = IF z \in gone THEN loose \cup {z} ELSE loose
        /\ req' = [req EXCEPT ![r] = Idle]
        /\ UNCHANGED <<sprints, gone, window>>
    BY <1>7, <2>1 DEF WriteCard, Goto
  <2>3. z \in Sprints \cup {NoSprint}
    BY <2>1, <2>2 DEF SprintTypes, OfASprint
  <2>4. \A q \in Requests : OfASprint(req'[q])
    BY <2>2, IdleOfNoSprint, StillOfASprint
  <2>5. sprintOf' \in [CardIds -> Sprints \cup {NoSprint}]
    BY <2>2, <2>3 DEF SprintTypes
  <2>6. loose' \subseteq Sprints
    BY <2>2 DEF SprintTypes
  <2>. QED
    BY <2>2, <2>4, <2>5, <2>6 DEF SprintTypes
<1>8. ASSUME NEW c, NEW base, NEW z, AssignCard(r, c, base, z) PROVE SprintTypes'
  BY <1>8, AssignSprintTypes
<1>. QED
  BY <1>1, <1>2, <1>3, <1>4, <1>5, <1>6, <1>7, <1>8 DEF SprintStep

LEMMA NextSprintTypes ==
  ASSUME SInv, SprintTypes, load \in Workloads, [PlanNext]_planVars
  PROVE  SprintTypes'
<1>1. ASSUME NEW r \in Requests, SaveForm(r) PROVE SprintTypes'
  <2>1. PICK c, base, to, z :
          c = form.card /\ base = form.version /\ to = form.column /\ z = form.sprint
    OBVIOUS
  <2>2. \/ MoveCard(r, c, base, to, 0) /\ UNCHANGED sprintVars
        \/ AssignCard(r, c, base, z)
    BY <1>1, <2>1 DEF SaveForm
  <2>3. CASE MoveCard(r, c, base, to, 0) /\ UNCHANGED sprintVars
    <3>1. PICK s : req' = [req EXCEPT ![r] = s] /\ s.at \notin AtSprint
      BY <2>3, MoveGoesOn
    <3>. QED
      BY <2>3, <3>1, OfNoSprint, OnlyReads DEF sprintVars, SprintTypes
  <2>. QED
    BY <2>2, <2>3, AssignSprintTypes
<1>2. CASE PageStep \/ NextDay \/ UNCHANGED planVars
  <2>1. UNCHANGED <<req, sprintVars>>
    BY <1>2 DEF PageStep, RefreshPage, CloseForm, OpenForm, PickColumn, PickSprint,
                NextDay, planVars, vars
  <2>. QED
    BY <2>1 DEF sprintVars, SprintTypes
<1>. QED
  BY <1>1, <1>2, BoardSprintTypes, StepSprintTypes DEF PlanNext

LEMMA InitSprintTypes ==
  ASSUME PlanInit
  PROVE  SprintTypes
<1>1. 0 \in Instants
  BY PlanningAssumption DEF PlanningAssumption, Instants
<1>2. [start |-> 0, end |-> 0] \in Windows
  BY <1>1 DEF Windows
<1>3. window \in [Sprints -> Windows]
  BY <1>2 DEF PlanInit
<1>4. \A r \in Requests : OfASprint(req[r])
  BY IdleOfNoSprint DEF PlanInit, Init
<1>. QED
  BY <1>3, <1>4 DEF PlanInit, SprintTypes

\* The rows and the requests are what TypeOK says.
LEMMA BoardTypes ==
  ASSUME BoardInv
  PROVE  TypeOK
<1>1. /\ columns \subseteq ColumnIds /\ done \subseteq ColumnIds
      /\ place \in [ColumnIds -> Nat] /\ position \in [CardIds -> Nat]
      /\ completed \subseteq CardIds /\ load \in Workloads
      /\ nextColumn \in 4..(MaxColumns + 1) /\ nextCard \in 1..(MaxCards + 1)
      /\ \A r \in Requests : req[r] # Idle => r \in load.requests
  BY DEF BoardInv, IInv, RowTypes, TInv, RowsInv, OnlyAsked
<1>2. column \in [CardIds -> {0} \cup ColumnIds]
  BY <1>1 DEF BoardInv, IInv, RowTypes, CardsHaveAColumn
<1>3. /\ version \in [CardIds -> Nat] /\ MaxVersion \in Nat
      /\ \A c \in CardIds : version[c] <= MaxVersion
  BY Numbers DEF BoardInv, IInv, RowTypes, TInv, RowsInv
<1>4. version \in [CardIds -> 0..MaxVersion]
  BY <1>3
<1>5. bases \in [CardIds -> Seq(1..MaxVersion)]
  <2>1. ASSUME NEW c \in CardIds PROVE bases[c] \in Seq(1..MaxVersion)
    <3>1. PICK n, s, T : n = version[c] - 1 /\ s = bases[c] /\ T = 1..MaxVersion
      OBVIOUS
    <3>2. s = [i \in 1..n |-> i]
      BY <3>1 DEF BoardInv, IInv, OneAfterAnother
    <3>3. \A i \in 1..n : i \in T
      BY <1>3, <3>1
    <3>4. PICK m \in Nat : 1..n = 1..m
      <4>1. CASE n \in Nat
        BY <4>1
      <4>2. CASE n \notin Nat
        <5>1. 1..n = 1..0 /\ 0 \in Nat
          BY <1>3, <3>1, <4>2
        <5>. QED
          BY <5>1
      <4>. QED
        BY <4>1, <4>2
    <3>5. s \in List(m, T)
      BY <3>2, <3>3, <3>4 DEF List
    <3>6. s \in Seq(T)
      BY <3>5, ListLen
    <3>. QED
      BY <3>1, <3>6
  <2>2. bases = [c \in CardIds |-> bases[c]]
    BY DEF BoardInv, IInv, RowTypes
  <2>. QED
    BY <2>1, <2>2
<1>. QED
  BY <1>1, <1>2, <1>4, <1>5 DEF TypeOK

LEMMA FormTypes ==
  ASSUME BoardInv, PageInv
  PROVE  form.open => form.card \in CardIds /\ form.version <= version[form.card]
<1>. SUFFICES ASSUME form.open PROVE form.card \in CardIds /\ form.version <= version[form.card]
  OBVIOUS
<1>1. PICK c, v : c = form.card /\ v = form.version
  OBVIOUS
<1>2. c \in CardIds /\ v \in Nat /\ v <= page.version[c]
  BY <1>1 DEF PageInv
<1>3. page.version[c] \in Nat /\ page.version[c] <= version[c]
  BY <1>2 DEF PageInv
<1>4. version[c] \in Nat
  BY <1>2 DEF BoardInv, IInv, RowTypes
<1>. QED
  BY <1>1, <1>2, <1>3, <1>4

LEMMA PlanTypes ==
  ASSUME BoardInv, PageInv, PastInv, SprintTypes
  PROVE  PlanTypeOK
<1>1. TypeOK
  BY BoardTypes
<1>2. sprints \cup gone \cup loose \subseteq Sprints /\ sprints \cap gone = {}
  BY DEF PastInv, SInv, Types, SprintTypes
<1>3. /\ window \in [Sprints -> [start : Instants, end : Instants]]
      /\ sprintOf \in [CardIds -> Sprints \cup {NoSprint}]
  BY DEF SprintTypes, Windows
<1>4. /\ today \in Days /\ started \in [Requests -> 0..today]
      /\ created \in [CardIds -> 0..today] /\ completedAt \in [CardIds -> 0..today]
  BY DEF PastInv, ClockInv
<1>. QED
  BY <1>1, <1>2, <1>3, <1>4, FormTypes DEF PlanTypeOK

-----------------------------------------------------------------------------
(* The theorems.                                                           *)

\* Only two requests that change a sprint at once can leave it with a window
\* that UpdateSprint would refuse.
THEOREM WindowsAreValidAlways == PlanSpec => []WindowsAreValid
<1>1. SInv => WindowsAreValid
  BY DEF SInv
<1>. QED
  BY <1>1, SprintInvariance, PTL

\* Only a deletion that broke off after its first statement, or is not done, and
\* an assignment that had found the sprint before, leave a card in a sprint that
\* is gone.
THEOREM CardsInRealSprintsAlways == PlanSpec => []CardsInRealSprints
<1>1. SInv => CardsInRealSprints
  BY DEF SInv
<1>. QED
  BY <1>1, SprintInvariance, PTL

\* A burndown's past is not rewritten: not by columns that are renamed or
\* deleted, nor by moves among Done columns, nor by what completes today.
THEOREM PastIsKeptAlways == PlanSpec => PastIsKept
<1>1. ASSUME PastInv, [PlanNext]_planVars
      PROVE  \A s \in sprints \cap sprints' :
               LET over == {day \in Days : day < today /\ \A r \in Requests :
                                             req[r] # Idle => day < started[r]} IN
               (/\ \A c \in CardIds : s \in {sprintOf[c], sprintOf'[c]} =>
                      /\ sprintOf'[c] = sprintOf[c] /\ column'[c] # 0
                      /\ c \in completed => c \in completed')
               => \A day \in over \cap EachUTCDate(window[s]) \cap EachUTCDate(window'[s]) :
                    BurndownFor(s)'[day] = BurndownFor(s)[day]
  BY <1>1, BurndownStays DEF Over
<1>. QED
  BY <1>1, PastInvariance, PTL DEF PlanSpec, PastIsKept

\* The variables of the board, its sprints, its clock and its page have their
\* types: what is read from a workload, and what is made of it, is in range.
THEOREM PlanTypeOKAlways == PlanSpec => []PlanTypeOK
<1>1. PlanInit => PageInv /\ SprintTypes
  BY InitPageInv, InitSprintTypes
<1>2. /\ BoardInv /\ PastInv /\ PageInv /\ SprintTypes /\ [PlanNext]_planVars
      => PageInv' /\ SprintTypes'
  BY NextPageInv, NextSprintTypes DEF BoardInv, PastInv, TInv, RowsInv
<1>3. BoardInv /\ PastInv /\ PageInv /\ SprintTypes => PlanTypeOK
  BY PlanTypes
<1>. QED
  BY <1>1, <1>2, <1>3, BoardInvariance, PastInvariance, PTL DEF PlanSpec
=============================================================================
