------------------------------ MODULE Planning ------------------------------
(***************************************************************************)
(* The sprints of a board in the Postgres store, their burndown, and the   *)
(* page of the board with its card form, over the board of BoardPg.tla.    *)
(*                                                                         *)
(* Time is counted in halves of a day, and passes between any two steps.   *)
(* A request takes its time from the service when it starts.  Sprints of   *)
(* other boards, and what they are called, are left out.                   *)
(***************************************************************************)
EXTENDS BoardPg

CONSTANTS
  Sprints,        \* the ids that sprints can have
  NoSprint,       \* the empty sprint_id
  LastDay,        \* bound on the days that pass
  MaxSprintDays   \* days a sprint may last

SprintCalls == {"create sprint", "update sprint", "delete sprint", "assign card"}

Days     == 0..LastDay
Instants == 0..(2 * LastDay + 1)

\* The rest of a workload.
PlanWorkload(w) ==
  /\ w.calls \subseteq BoardCalls \cup SprintCalls
  /\ w.windows \subseteq [start : Instants, end : Instants]  \* that clients ask for
  /\ w.days \in Days                                         \* bound on today
  /\ w.page \in BOOLEAN                                      \* somebody has the page

ASSUME PlanningAssumption ==
  /\ NoSprint \notin Sprints
  /\ LastDay \in Nat /\ MaxSprintDays \in Nat
  /\ \A w \in Workloads : PlanWorkload(w)

VARIABLES
  sprints, gone,  \* the sprints that exist, and that have been deleted
  window,         \* the start and the end of each
  sprintOf,       \* the sprint_id of each card
  loose,          \* history: the sprints whose deletion failed half-way, or which
                  \* were written by a request that had read something else of them
  today,
  started,        \* the day on which each request has read the clock
  created, completedAt,  \* the day of each card's created_at and completed_at
  page,           \* the board as the page was last rendered
  form            \* the card form of the page

sprintVars == <<sprints, gone, window, sprintOf, loose>>
clockVars  == <<started, created, completedAt>>
pageVars   == <<page, form>>
planVars   == <<vars, sprintVars, clockVars, today, pageVars>>

NoForm == [open |-> FALSE]

-----------------------------------------------------------------------------
(* Sprints and burndown: domain/sprint.go.                                 *)

UTCDate(t) == t \div 2

EachUTCDate(w) == UTCDate(w.start)..UTCDate(w.end)

ValidSprintWindow(w) ==
  w.end > w.start /\ Cardinality(EachUTCDate(w)) <= MaxSprintDays

CardOpenOn(c, day) ==
  created[c] <= day /\ ~(c \in completed /\ completedAt[c] <= day)

BurndownFor(s) ==
  [day \in EachUTCDate(window[s]) |->
     Cardinality({c \in CardIds : column[c] # 0 /\ sprintOf[c] = s /\ CardOpenOn(c, day)})]

-----------------------------------------------------------------------------
(* The columns and the cards, with what this module adds to them.          *)

\* The time a step of r works with.
Now(r) == IF req[r] = Idle THEN today ELSE started[r]

\* Mutant: every move into a Done column is a new completion.
Dated_Restamped(r) ==
  /\ started' = [started EXCEPT ![r] = IF req'[r] = Idle THEN 0 ELSE Now(r)]
  /\ created' = [c \in CardIds |-> IF c \in nextCard..(nextCard' - 1) THEN Now(r)
                                   ELSE created[c]]
  /\ completedAt' = [c \in CardIds |->
       IF c \notin completed' THEN 0
       ELSE IF c \in completed /\ ~(req[r].at = "enter" /\ req[r].card = c)
            THEN completedAt[c] ELSE Now(r)]

\* The times that a step of r writes down.
Dated(r) ==
  /\ started' = [started EXCEPT ![r] = IF req'[r] = Idle THEN 0 ELSE Now(r)]
  /\ created' = [c \in CardIds |-> IF c \in nextCard..(nextCard' - 1) THEN Now(r)
                                   ELSE created[c]]
  /\ completedAt' = [c \in CardIds |->
       IF c \notin completed' THEN 0
       ELSE IF c \in completed THEN completedAt[c] ELSE Now(r)]

\* A step of the board's own requests, or any request fails.
BoardStep(r) ==
  /\ RequestStep(r) /\ Dated(r)
  /\ sprintOf' = [c \in CardIds |-> IF column'[c] = 0 THEN NoSprint ELSE sprintOf[c]]
  /\ loose' = IF req[r].at = "clear sprint" THEN loose \cup {req[r].sprint} ELSE loose
  /\ UNCHANGED <<load, sprints, gone, window, today, pageVars>>

NextDay ==
  /\ today < load.days
  /\ today' = today + 1
  /\ UNCHANGED <<vars, sprintVars, clockVars, pageVars>>

-----------------------------------------------------------------------------
(* The requests of the sprints.                                            *)

CreateSprint(r, s, w) ==
  /\ Called(r, "create sprint")
  /\ s \in Sprints \ (sprints \cup gone)
  /\ ValidSprintWindow(w)
  /\ sprints' = sprints \cup {s}
  /\ window' = [window EXCEPT ![s] = w]
  /\ UNCHANGED <<vars, gone, sprintOf, loose, clockVars, today, pageVars>>

\* w with the halves that the call gives.
Overlaid(w, given, halves) ==
  [start |-> IF "start" \in halves THEN given.start ELSE w.start,
   end   |-> IF "end" \in halves THEN given.end ELSE w.end]

\* Mutant: the window is checked only when it is given as a whole.
CheckSprint_WholeOnly(r, s, w, halves) ==
  /\ Called(r, "update sprint")
  /\ s \in sprints
  /\ halves = {"start", "end"} => ValidSprintWindow(w)
  /\ Goto(r, [at |-> "update sprint", sprint |-> s, given |-> w, halves |-> halves,
              seen |-> window[s]])
  /\ UNCHANGED <<columnRows, cardRows, load, sprintVars, today, pageVars>>
  /\ Dated(r)

\* GetSprint of the service's UpdateSprint, and the check of the window that
\* the sprint would then have.
CheckSprint(r, s, w, halves) ==
  /\ Called(r, "update sprint")
  /\ s \in sprints
  /\ ValidSprintWindow(Overlaid(window[s], w, halves))
  /\ Goto(r, [at |-> "update sprint", sprint |-> s, given |-> w, halves |-> halves,
              seen |-> window[s]])
  /\ UNCHANGED <<columnRows, cardRows, load, sprintVars, today, pageVars>>
  /\ Dated(r)

\* GetSprint of the store's UpdateSprint.
ReadSprint(r) ==
  LET q == req[r] IN
  /\ q.at = "update sprint"
  /\ q.sprint \in sprints
  /\ Goto(r, [at |-> "write sprint", sprint |-> q.sprint, seen |-> window[q.sprint],
              window |-> Overlaid(window[q.sprint], q.given, q.halves)])
  /\ loose' = IF window[q.sprint] = q.seen THEN loose ELSE loose \cup {q.sprint}
  /\ UNCHANGED <<columnRows, cardRows, load, sprints, gone, window, sprintOf, today, pageVars>>
  /\ Dated(r)

\* Its UPDATE.
WriteSprint(r) ==
  LET q == req[r] IN
  /\ q.at = "write sprint"
  /\ window' = IF q.sprint \in sprints THEN [window EXCEPT ![q.sprint] = q.window] ELSE window
  /\ loose' = IF window[q.sprint] = q.seen THEN loose ELSE loose \cup {q.sprint}
  /\ Goto(r, Idle)
  /\ UNCHANGED <<columnRows, cardRows, load, sprints, gone, sprintOf, today, pageVars>>
  /\ Dated(r)

\* The DELETE of DeleteSprint: no row says 404.
DeleteSprint(r, s) ==
  /\ Called(r, "delete sprint")
  /\ s \in sprints
  /\ sprints' = sprints \ {s} /\ gone' = gone \cup {s}
  /\ Goto(r, [at |-> "clear sprint", sprint |-> s])
  /\ UNCHANGED <<columnRows, cardRows, load, window, sprintOf, loose, today, pageVars>>
  /\ Dated(r)

\* Its UPDATE of the cards, in a transaction of its own: their versions stay.
ClearSprint(r) ==
  LET q == req[r] IN
  /\ q.at = "clear sprint"
  /\ \A c \in CardIds : sprintOf[c] = q.sprint => ~CardHeld(c, r)
  /\ sprintOf' = [c \in CardIds |-> IF sprintOf[c] = q.sprint THEN NoSprint ELSE sprintOf[c]]
  /\ Goto(r, Idle)
  /\ UNCHANGED <<columnRows, cardRows, load, sprints, gone, window, loose, today, pageVars>>
  /\ Dated(r)

\* Mutant: the sprint is not looked for.
AssignCard_AnySprint(r, c, base, s) ==
  /\ column[c] # 0 /\ ~CardHeld(c, r)
  /\ version[c] = base /\ base < load.versions
  /\ Goto(r, [at |-> "assign", card |-> c, base |-> base, sprint |-> s])
  /\ UNCHANGED <<columnRows, cardRows, load, sprintVars, today, pageVars>>
  /\ Dated(r)

\* UpdateCard with a sprintId: SELECT FOR UPDATE, and the SELECT of the sprint.
AssignCard(r, c, base, s) ==
  /\ column[c] # 0 /\ ~CardHeld(c, r)
  /\ version[c] = base /\ base < load.versions
  /\ s \in sprints \cup {NoSprint}
  /\ Goto(r, [at |-> "assign", card |-> c, base |-> base, sprint |-> s])
  /\ UNCHANGED <<columnRows, cardRows, load, sprintVars, today, pageVars>>
  /\ Dated(r)

\* Its UPDATE, and COMMIT: nothing has locked the sprint.
WriteCard(r) ==
  LET q == req[r] IN
  /\ q.at = "assign"
  /\ Accept(q.card, q.base)
  /\ sprintOf' = [sprintOf EXCEPT ![q.card] = q.sprint]
  /\ loose' = IF q.sprint \in gone THEN loose \cup {q.sprint} ELSE loose
  /\ Goto(r, Idle)
  /\ UNCHANGED <<columnRows, column, position, completed, nextCard, load,
                 sprints, gone, window, today, pageVars>>
  /\ Dated(r)

-----------------------------------------------------------------------------
(* The page of the board: web/components/KanbanBoard.tsx.                  *)

\* What the server renders.  A card that is gone from it is in no column.
Rendered == [column |-> column, version |-> version, sprint |-> sprintOf,
             columns |-> columns, sprints |-> sprints]

\* Somebody opens the page, or router.refresh: the form stays as it is.
RefreshPage ==
  /\ load.page
  /\ page' = Rendered
  /\ UNCHANGED <<vars, sprintVars, clockVars, today, form>>

OpenForm(c) ==
  /\ load.page /\ page.column[c] # 0
  /\ form' = [open |-> TRUE, card |-> c, column |-> page.column[c],
              sprint |-> page.sprint[c], version |-> page.version[c],
              from |-> page.column[c]]
  /\ UNCHANGED <<vars, sprintVars, clockVars, today, page>>

PickColumn(k) ==
  /\ form.open /\ k \in page.columns
  /\ form' = [form EXCEPT !.column = k]
  /\ UNCHANGED <<vars, sprintVars, clockVars, today, page>>

PickSprint(s) ==
  /\ form.open /\ s \in page.sprints \cup {NoSprint}
  /\ form' = [form EXCEPT !.sprint = s]
  /\ UNCHANGED <<vars, sprintVars, clockVars, today, page>>

\* It is closed, or its save has succeeded.
CloseForm ==
  /\ form.open
  /\ form' = NoForm
  /\ UNCHANGED <<vars, sprintVars, clockVars, today, page>>

\* Mutant: the version is the one the page was last rendered with.
SaveForm_LatestVersion(r) ==
  LET current == page.column[form.card] IN
  /\ form.open
  /\ r \in load.requests /\ req[r] = Idle
  /\ IF current \notin {0, form.column}
     THEN /\ MoveCard(r, form.card, page.version[form.card], form.column, 0)
          /\ UNCHANGED <<load, sprintVars, today, pageVars>>
          /\ Dated(r)
     ELSE AssignCard(r, form.card, page.version[form.card], form.sprint)

\* saveSelected: a card that is to change its column is moved to the top of the
\* other, and what else the form says of it is dropped.  The save that is
\* refused leaves the form as it is.
SaveForm(r) ==
  LET current == page.column[form.card] IN
  /\ form.open
  /\ r \in load.requests /\ req[r] = Idle
  /\ IF current \notin {0, form.column}
     THEN /\ MoveCard(r, form.card, form.version, form.column, 0)
          /\ UNCHANGED <<load, sprintVars, today, pageVars>>
          /\ Dated(r)
     ELSE AssignCard(r, form.card, form.version, form.sprint)

-----------------------------------------------------------------------------

PlanInit ==
  /\ Init
  /\ sprints = {} /\ gone = {} /\ loose = {}
  /\ window = [s \in Sprints |-> [start |-> 0, end |-> 0]]
  /\ sprintOf = [c \in CardIds |-> NoSprint]
  /\ today = 0
  /\ started = [r \in Requests |-> 0]
  /\ created = [c \in CardIds |-> 0]
  /\ completedAt = [c \in CardIds |-> 0]
  /\ page = Rendered
  /\ form = NoForm

SprintStep(r) ==
  \/ \E s \in Sprints, w \in load.windows :
       \/ CreateSprint(r, s, w)
       \/ \E halves \in SUBSET {"start", "end"} \ {{}} : CheckSprint(r, s, w, halves)
  \/ ReadSprint(r) \/ WriteSprint(r)
  \/ \E s \in Sprints : DeleteSprint(r, s)
  \/ ClearSprint(r)
  \/ \E c \in CardIds, base \in 1..MaxVersion, s \in Sprints \cup {NoSprint} :
       Called(r, "assign card") /\ AssignCard(r, c, base, s)
  \/ WriteCard(r)

PageStep ==
  \/ RefreshPage \/ CloseForm
  \/ \E c \in CardIds : OpenForm(c)
  \/ \E k \in ColumnIds : PickColumn(k)
  \/ \E s \in Sprints \cup {NoSprint} : PickSprint(s)

PlanNext ==
  \/ \E r \in Requests : BoardStep(r) \/ SprintStep(r) \/ SaveForm(r)
  \/ PageStep \/ NextDay

PlanSpec == PlanInit /\ [][PlanNext]_planVars

-----------------------------------------------------------------------------
(* Properties.                                                             *)

\* Every variable has its type.
PlanTypeOK ==
  /\ TypeOK
  /\ sprints \cup gone \cup loose \subseteq Sprints /\ sprints \cap gone = {}
  /\ window \in [Sprints -> [start : Instants, end : Instants]]
  /\ sprintOf \in [CardIds -> Sprints \cup {NoSprint}]
  /\ today \in Days
  /\ started \in [Requests -> 0..today]
  /\ created \in [CardIds -> 0..today] /\ completedAt \in [CardIds -> 0..today]
  /\ form.open => form.card \in CardIds /\ form.version <= version[form.card]

\* A card is in a sprint that exists, or in none, from the deletion of a sprint
\* to the end of time: unless the deletion is still at work, or broke off, or the
\* card was assigned by a request that had found the sprint before.
CardsInRealSprints ==
  \A c \in CardIds :
    \/ sprintOf[c] \in sprints \cup loose \cup {NoSprint}
    \/ \E r \in Requests : req[r].at = "clear sprint" /\ req[r].sprint = sprintOf[c]

\* Every sprint has a window that its burndown can show, though its halves are
\* changed one by one: unless two requests changed them at once.
WindowsAreValid ==
  \A s \in sprints \ loose : ValidSprintWindow(window[s])

\* The page's form moves a card exactly when its user has chosen another column,
\* whatever others have moved, and the page has been rendered with, since it
\* was opened.
SaveMovesOnlyIfPicked ==
  [][\A r \in Requests : SaveForm(r) =>
       (req'[r].at = "leave" <=> form.column # form.from)]_planVars

\* The burndown of days that are over, and that no request began on, is what it
\* will be, as long as no card comes to the sprint or leaves it, is deleted or
\* reopened: renamed columns, and moves among Done columns, do not rewrite it.
PastIsKept ==
  [][\A s \in sprints \cap sprints' :
       LET over == {day \in Days : day < today /\ \A r \in Requests :
                                     req[r] # Idle => day < started[r]} IN
       (/\ \A c \in CardIds : s \in {sprintOf[c], sprintOf'[c]} =>
              /\ sprintOf'[c] = sprintOf[c] /\ column'[c] # 0
              /\ c \in completed => c \in completed')
       => \A day \in over \cap EachUTCDate(window[s]) \cap EachUTCDate(window'[s]) :
            BurndownFor(s)'[day] = BurndownFor(s)[day]]_planVars
=============================================================================
