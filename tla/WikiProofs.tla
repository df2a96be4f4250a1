----------------------------- MODULE WikiProofs -----------------------------
(***************************************************************************)
(* The pages, documents and requests of Wiki and WikiPg, with the room of  *)
(* Collab as one more client, for any number of pages, requests, editors   *)
(* and texts.                                                              *)
(*                                                                         *)
(* First the tree: the pages stay a forest, always in the store's          *)
(* contract, and on Postgres until a move is overtaken by another one.     *)
(*                                                                         *)
(* Then the requests: what a request has read stays true of the row while  *)
(* it holds the row (Fits, Alone), and true of the tree until another      *)
(* request says that it is stale.  So what is written is what the contract *)
(* writes, and each text is on its way to the history, or deep enough in   *)
(* it not to be pushed out by the versions that are still on their way.    *)
(***************************************************************************)
EXTENDS Collab, FiniteSetTheorems, SequenceTheorems, TLAPS

-----------------------------------------------------------------------------
(* Trees.                                                                  *)

\* The ancestors of a page are closed under the way up: what the walk of
\* validateParent has visited when it reaches the top.
LEMMA UpIsClosed ==
  ASSUME NEW f \in [Pages -> Pages \cup {Root}], NEW q \in Pages
  PROVE  /\ Up(f, q) \subseteq Pages
         /\ q \in Up(f, q)
         /\ \A x \in Up(f, q) : f[x] \in Up(f, q) \cup {Root}
<1>1. Up(f, q) \subseteq Pages /\ q \in Up(f, q)
  BY DEF Up
<1>2. ASSUME NEW x \in Up(f, q), f[x] # Root PROVE f[x] \in Up(f, q)
  <2>1. x \in Pages /\ f[x] \in Pages
    BY <1>1, <1>2
  <2>2. ASSUME NEW S \in SUBSET Pages, q \in S, \A y \in S : f[y] \in S \cup {Root}
        PROVE  f[x] \in S
    <3>1. x \in S
      BY <2>2 DEF Up
    <3>. QED
      BY <3>1, <2>2, <1>2
  <2>. QED
    BY <2>1, <2>2 DEF Up
<1>. QED
  BY <1>1, <1>2

\* A page that hangs somewhere else makes no cycle when the pages above its new
\* parent are known, closed under the way up, and it is not among them.
LEMMA HangKeepsAcyclic ==
  ASSUME NEW f \in [Pages -> Pages \cup {Root}], Acyclic(f),
         NEW p \in Pages, NEW q \in Pages \cup {Root}, NEW S \in SUBSET Pages,
         p \notin S, q # Root => q \in S,
         \A x \in S : f[x] \in S \cup {Root}
  PROVE  Acyclic([f EXCEPT ![p] = q])
<1>. DEFINE g == [f EXCEPT ![p] = q]
<1>1. Root \notin Pages
  BY PageTreeAssumption DEF PageTreeAssumption
<1>2. SUFFICES ASSUME NEW C \in SUBSET Pages, C # {}, \A x \in C : g[x] \in C
               PROVE  FALSE
  BY DEF Acyclic
<1>3. CASE p \notin C
  <2>1. \A x \in C : f[x] \in C
    BY <1>2, <1>3
  <2>. QED
    BY <2>1, <1>2 DEF Acyclic
<1>4. CASE p \in C
  <2>1. g[p] = q
    OBVIOUS
  <2>2. q \in C \cap S
    BY <1>1, <1>2, <1>4, <2>1
  <2>3. \A x \in C \cap S : f[x] \in C \cap S
    BY <1>1, <1>2
  <2>. QED
    BY <2>2, <2>3 DEF Acyclic
<1>. QED
  BY <1>3, <1>4

\* Nor does one that nothing hangs from.
LEMMA NewKeepsAcyclic ==
  ASSUME NEW f \in [Pages -> Pages \cup {Root}], Acyclic(f),
         NEW p \in Pages, NEW q \in (Pages \cup {Root}) \ {p},
         \A x \in Pages : f[x] # p
  PROVE  Acyclic([f EXCEPT ![p] = q])
<1>. DEFINE g == [f EXCEPT ![p] = q]
<1>1. Root \notin Pages
  BY PageTreeAssumption DEF PageTreeAssumption
<1>2. SUFFICES ASSUME NEW C \in SUBSET Pages, C # {}, \A x \in C : g[x] \in C
               PROVE  FALSE
  BY DEF Acyclic
<1>3. CASE p \notin C
  <2>1. \A x \in C : f[x] \in C
    BY <1>2, <1>3
  <2>. QED
    BY <2>1, <1>2 DEF Acyclic
<1>4. CASE p \in C
  <2>1. g[p] = q /\ q \in C \ {p}
    BY <1>2, <1>4
  <2>2. \A x \in C \ {p} : f[x] \in C \ {p}
    BY <1>2
  <2>. QED
    BY <2>1, <2>2 DEF Acyclic
<1>. QED
  BY <1>3, <1>4

\* Pages that all hang from the top are a forest.
LEMMA TopIsAcyclic == Acyclic([p \in Pages |-> Root])
BY PageTreeAssumption DEF Acyclic, PageTreeAssumption

\* What a walk down finds of the pages that exist, exists.
LEMMA BelowExists ==
  ASSUME NEW f \in [Pages -> Pages \cup {Root}], NEW E \in SUBSET Pages, NEW p \in E,
         \A x \in Pages \ E : f[x] = Root
  PROVE  Below(f, p) \subseteq E
<1>1. \A y \in Pages : f[y] \in E => y \in E
  BY PageTreeAssumption DEF PageTreeAssumption
<1>. QED
  BY <1>1 DEF Below

\* A history that gets a version is still a history.
LEMMA WithVersionType ==
  ASSUME NEW s \in Seq(Version), NEW v \in Version
  PROVE  WithVersion(s, v) \in Seq(Version)
<1>. DEFINE t == Append(s, v)
<1>1. t \in Seq(Version) /\ Len(t) \in Nat
  OBVIOUS
<1>2. MaxPageVersions \in Nat \ {0}
  BY WikiAssumption DEF WikiAssumption
<1>3. CASE Len(t) <= MaxPageVersions
  BY <1>1, <1>3 DEF WithVersion, LastOf
<1>4. CASE ~(Len(t) <= MaxPageVersions)
  <2>. DEFINE n == Len(t) - MaxPageVersions + 1
  <2>1. n \in 1..Len(t)
    BY <1>1, <1>2, <1>4
  <2>2. SubSeq(t, n, Len(t)) \in Seq(Version)
    BY <1>1, <2>1
  <2>. QED
    BY <1>4, <2>2 DEF WithVersion, LastOf
<1>. QED
  BY <1>3, <1>4

-----------------------------------------------------------------------------
(* The contract.                                                           *)

Inv == TypeOK /\ Forest

LEMMA InitInv ==
  ASSUME Init
  PROVE  Inv
<1>1. TypeOK
  BY DEF Init, TypeOK
<1>2. Forest
  BY TopIsAcyclic DEF Init, Forest
<1>. QED
  BY <1>1, <1>2 DEF Inv

LEMMA CreatePageInv ==
  ASSUME Inv, NEW p \in Pages, NEW q \in Pages \cup {Root},
         NEW s \in Statuses, NEW b \in Bodies, CreatePage(p, q, s, b)
  PROVE  Inv'
<1>. USE DEF Inv
<1>1. q \in pages \cup {Root} /\ q # p
  BY PageTreeAssumption DEF CreatePage, ValidParent, PageTreeAssumption
<1>2. TypeOK'
  BY <1>1 DEF CreatePage, TypeOK, docVars
<1>3. \A x \in Pages : parent[x] # p
  BY PageTreeAssumption DEF CreatePage, TypeOK, PageTreeAssumption
<1>4. parent \in [Pages -> Pages \cup {Root}]
  BY DEF TypeOK
<1>5. Forest'
  BY <1>1, <1>3, <1>4, NewKeepsAcyclic DEF Forest, CreatePage
<1>. QED
  BY <1>2, <1>5

LEMMA UpdatePageInv ==
  ASSUME Inv, NEW p \in Pages, NEW q \in Pages \cup {Root},
         NEW s \in Statuses, NEW b \in Bodies, UpdatePage(p, q, s, b)
  PROVE  Inv'
<1>. USE DEF Inv
<1>1. parent \in [Pages -> Pages \cup {Root}]
  BY DEF TypeOK
<1>2. q \in pages \cup {Root}
  BY DEF UpdatePage, ValidParent, TypeOK
<1>3. TypeOK'
  BY <1>2 DEF UpdatePage, TypeOK, docVars
<1>0. SUFFICES Forest'
  BY <1>3
<1>4. CASE q = parent[p]
  BY <1>1, <1>4 DEF UpdatePage, Forest
<1>5. CASE q = Root
  <2>1. Acyclic([parent EXCEPT ![p] = q])
    <3>. DEFINE S == {}
    <3>1. S \in SUBSET Pages /\ p \notin S /\ \A x \in S : parent[x] \in S \cup {Root}
      OBVIOUS
    <3>. QED
      BY <1>1, <1>5, <3>1, HangKeepsAcyclic DEF Forest
  <2>. QED
    BY <2>1 DEF UpdatePage, Forest
<1>6. CASE q # Root /\ ValidParent(parent, pages, p, q)
  <2>1. q \in Pages /\ p \notin Up(parent, q)
    BY <1>6 DEF ValidParent
  <2>2. /\ Up(parent, q) \in SUBSET Pages
        /\ q \in Up(parent, q)
        /\ \A x \in Up(parent, q) : parent[x] \in Up(parent, q) \cup {Root}
    BY <1>1, <2>1, UpIsClosed
  <2>3. Acyclic([parent EXCEPT ![p] = q])
    BY <1>1, <2>1, <2>2, HangKeepsAcyclic DEF Forest
  <2>. QED
    BY <2>3 DEF UpdatePage, Forest
<1>. QED
  BY <1>4, <1>5, <1>6 DEF UpdatePage

\* The tree is where it was.
LEMMA OtherPageStepInv ==
  ASSUME Inv, NEW p \in Pages,
         \/ ArchivePage(p) \/ UnarchivePage(p)
         \/ \E b \in Bodies : ApplyCollabSnapshot(p, b)
         \/ \E v \in Version : AppendPageVersionIfChanged(p, v)
  PROVE  Inv'
<1>. USE DEF Inv
<1>1. CASE ArchivePage(p)
  <2>1. p \in pages /\ Below(parent, p) \subseteq pages
    <3>1. /\ p \in pages /\ pages \in SUBSET Pages /\ parent \in [Pages -> Pages \cup {Root}]
          /\ \A x \in Pages \ pages : parent[x] = Root
      BY <1>1 DEF ArchivePage, TypeOK
    <3>. QED
      BY <3>1, BelowExists
  <2>. QED
    BY <1>1, <2>1, ZenonT(60) DEF ArchivePage, TypeOK, Forest, docVars
<1>2. CASE UnarchivePage(p)
  BY <1>2 DEF UnarchivePage, TypeOK, Forest, docVars
<1>3. CASE \E b \in Bodies : ApplyCollabSnapshot(p, b)
  BY <1>3 DEF ApplyCollabSnapshot, TypeOK, Forest, docVars
<1>4. ASSUME NEW v \in Version, AppendPageVersionIfChanged(p, v) PROVE Inv'
  <2>1. WithVersion(history[p], v) \in Seq(Version)
    BY WithVersionType DEF TypeOK
  <2>2. history' \in [Pages -> Seq(Version)]
    BY <1>4, <2>1 DEF AppendPageVersionIfChanged, TypeOK
  <2>. QED
    BY <1>4, <2>2 DEF AppendPageVersionIfChanged, TypeOK, Forest, docVars
<1>. QED
  BY <1>1, <1>2, <1>3, <1>4

LEMMA DocumentStepInv ==
  ASSUME Inv, NEW d \in Docs, DocumentStep(d)
  PROVE  Inv'
<1>. USE DEF Inv, TypeOK, Forest, pageVars
<1>1. ASSUME NEW t \in Titles, NEW b \in Bodies, CreateDocument(d, t, b) PROVE Inv'
  BY <1>1 DEF CreateDocument
<1>2. ASSUME NEW t \in Titles, UpdateDocumentTitle(d, t) PROVE Inv'
  BY <1>2 DEF UpdateDocumentTitle
<1>3. CASE TrashDocument(d)
  BY <1>3 DEF TrashDocument
<1>4. CASE RestoreDocument(d)
  BY <1>4 DEF RestoreDocument
<1>5. ASSUME NEW b \in Bodies, ApplyDocumentSnapshot(d, b) PROVE Inv'
  BY <1>5 DEF ApplyDocumentSnapshot
<1>. QED
  BY <1>1, <1>2, <1>3, <1>4, <1>5 DEF DocumentStep

LEMMA NextInv ==
  ASSUME Inv, [Next]_vars
  PROVE  Inv'
<1>1. ASSUME NEW p \in Pages, PageStep(p) PROVE Inv'
  BY <1>1, CreatePageInv, UpdatePageInv, OtherPageStepInv DEF PageStep
<1>2. ASSUME NEW d \in Docs, DocumentStep(d) PROVE Inv'
  BY <1>2, DocumentStepInv
<1>3. CASE UNCHANGED vars
  BY <1>3 DEF Inv, TypeOK, Forest, vars, pageVars, docVars
<1>. QED
  BY <1>1, <1>2, <1>3 DEF Next

\* The store's pages and documents keep their types: a page hangs from a page
\* that exists or from the top, and only what exists is archived or trashed.
THEOREM WikiTypes == Spec => []TypeOK
<1>1. Init => Inv
  BY InitInv
<1>2. Inv /\ [Next]_vars => Inv'
  BY NextInv
<1>3. Inv => TypeOK
  BY DEF Inv
<1>. QED
  BY <1>1, <1>2, <1>3, PTL DEF Spec

\* One operation at a time, validateParent keeps the pages a forest.
THEOREM WikiForest == Spec => []Forest
<1>1. Init => Inv
  BY InitInv
<1>2. Inv /\ [Next]_vars => Inv'
  BY NextInv
<1>3. Inv => Forest
  BY DEF Inv
<1>. QED
  BY <1>1, <1>2, <1>3, PTL DEF Spec

-----------------------------------------------------------------------------
(* Postgres, with the collaboration server as one of its clients.          *)

\* What a walk up has read, as long as no other move was committed: seen is
\* closed under the way up but for cur, the next page to be read.
Walk(q) ==
  /\ q = [at |-> q.at, page |-> q.page, to |-> q.to, status |-> q.status,
          body |-> q.body, cur |-> q.cur, seen |-> q.seen, stale |-> q.stale]
  /\ q.page \in pages /\ q.to \in (pages \cup {Root}) \ {q.page}
  /\ q.cur \in pages \cup {Root}
  /\ q.seen \subseteq pages \ {q.page}
  /\ q.to # Root => q.to \in q.seen
  /\ ~q.stale => \A x \in q.seen : parent[x] \in q.seen \cup {q.cur}
  /\ q.at = "write" => q.cur = Root

Tree(q) == q = [at |-> q.at, page |-> q.page, tree |-> q.tree, stale |-> q.stale]

RequestOK(q) ==
  /\ q.at \in {"walk", "write"} => Walk(q)
  /\ q.at \in {"archive", "unarchive"} => Tree(q)

TreeOK == pages \subseteq Pages /\ parent \in [Pages -> pages \cup {Root}]

RaceInv ==
  /\ TreeOK
  /\ req = [r \in Requests |-> req[r]]
  /\ \A r \in Requests : RequestOK(req[r])
  /\ CycleOnlyFromOverlap

\* A step that leaves the tree alone.
LEMMA RequestFrame ==
  ASSUME RaceInv, UNCHANGED <<pages, parent, raced>>,
         req' = [r \in Requests |-> req'[r]],
         \A r \in Requests : req'[r] = req[r] \/ RequestOK(req'[r])
  PROVE  RaceInv'
<1>1. ASSUME NEW r \in Requests PROVE RequestOK(req[r])'
  <2>1. RequestOK(req'[r])
    BY DEF RaceInv
  <2>. QED
    BY <2>1 DEF RequestOK, Walk, Tree
<1>2. TreeOK' /\ CycleOnlyFromOverlap'
  BY DEF RaceInv, TreeOK, CycleOnlyFromOverlap
<1>. QED
  BY <1>1, <1>2 DEF RaceInv

\* One request goes on.
LEMMA GotoFrame ==
  ASSUME RaceInv, UNCHANGED <<pages, parent, raced>>,
         NEW r \in Requests, NEW q, Goto(r, q), RequestOK(q)
  PROVE  RaceInv'
<1>1. req' = [x \in Requests |-> req'[x]]
  BY DEF Goto, RaceInv
<1>2. \A x \in Requests : req'[x] = req[x] \/ RequestOK(req'[x])
  BY DEF Goto, RaceInv
<1>. QED
  BY <1>1, <1>2, RequestFrame

\* It goes on to anything but the write of a tree.
LEMMA GotoElsewhere ==
  ASSUME RaceInv, UNCHANGED <<pages, parent, raced>>,
         NEW r \in Requests, NEW q, Goto(r, q),
         q.at \in {"idle", "append", "restore", "snapshot", "get"}
  PROVE  RaceInv'
<1>1. RequestOK(q)
  BY DEF RequestOK
<1>. QED
  BY <1>1, GotoFrame

LEMMA InsertPageInv ==
  ASSUME RaceInv, NEW r \in Requests, NEW p \in Pages, NEW q \in Pages \cup {Root},
         NEW v, InsertPage(r, p, q, v)
  PROVE  RaceInv'
<1>1. /\ p \in Pages \ pages /\ q \in pages \cup {Root} /\ q # p
      /\ pages' = pages \cup {p} /\ parent' = [parent EXCEPT ![p] = q]
      /\ raced' = raced
  BY PageTreeAssumption
  DEF InsertPage, CreatePage, ValidParent, PageTreeAssumption
<1>2. TreeOK'
  BY <1>1 DEF RaceInv, TreeOK
<1>3. CycleOnlyFromOverlap'
  <2>1. parent \in [Pages -> Pages \cup {Root}] /\ \A x \in Pages : parent[x] # p
    BY <1>1, PageTreeAssumption DEF RaceInv, TreeOK, PageTreeAssumption
  <2>. QED
    BY <1>1, <2>1, NewKeepsAcyclic DEF RaceInv, CycleOnlyFromOverlap
<1>4. req' = [x \in Requests |->
               IF x = r THEN ToAppend(p, v)
               ELSE IF req[x].at \in {"archive", "unarchive"}
                    THEN [req[x] EXCEPT !.stale = TRUE] ELSE req[x]]
  BY DEF InsertPage, Overtake
<1>5. ASSUME NEW x \in Requests PROVE RequestOK(req[x])'
  <2>1. CASE x = r
    BY <1>4, <2>1 DEF RequestOK, ToAppend
  <2>2. CASE x # r /\ req[x].at \in {"archive", "unarchive"}
    <3>1. Tree(req[x])
      BY <2>2 DEF RaceInv, RequestOK
    <3>2. req'[x] = [req[x] EXCEPT !.stale = TRUE]
      BY <1>4, <2>2
    <3>3. req'[x].at = req[x].at /\ Tree(req[x])'
      BY <3>1, <3>2 DEF Tree
    <3>. QED
      BY <2>2, <3>3 DEF RequestOK
  <2>3. CASE x # r /\ req[x].at \notin {"archive", "unarchive"}
    <3>1. req'[x] = req[x] /\ RequestOK(req[x])
      BY <1>4, <2>3 DEF RaceInv
    <3>2. ASSUME Walk(req[x]) PROVE Walk(req[x])'
      BY <1>1, <3>1, <3>2 DEF Walk, RaceInv, TreeOK
    <3>. QED
      BY <2>3, <3>1, <3>2 DEF RequestOK
  <2>. QED
    BY <2>1, <2>2, <2>3
<1>. QED
  BY <1>2, <1>3, <1>4, <1>5 DEF RaceInv

LEMMA LockPageInv ==
  ASSUME RaceInv, NEW r \in Requests, NEW p \in Pages, NEW q \in Pages \cup {Root},
         LockPage(r, p, q)
  PROVE  RaceInv'
<1>. DEFINE next == [at    |-> IF q = Root THEN "write" ELSE "walk",
                     page  |-> p, to |-> q, status |-> status[p], body |-> body[p],
                     cur   |-> IF q = Root THEN Root ELSE parent[q],
                     seen  |-> {q} \cap Pages, stale |-> FALSE]
<1>1. /\ p \in pages /\ q \in (pages \cup {Root}) \ {p} /\ Goto(r, next)
      /\ UNCHANGED <<pages, parent, raced>>
  BY DEF LockPage, vars, pageVars
<1>2. Walk(next)
  BY <1>1, PageTreeAssumption DEF Walk, RaceInv, TreeOK, PageTreeAssumption
<1>3. RequestOK(next)
  BY <1>2 DEF RequestOK
<1>. HIDE DEF next
<1>. QED
  BY <1>1, <1>3, GotoFrame

\* A walk goes on by one page.
LEMMA OnwardWalk ==
  ASSUME NEW q, NEW c, NEW S,
         q = [at |-> q.at, page |-> q.page, to |-> q.to, status |-> q.status,
              body |-> q.body, cur |-> q.cur, seen |-> q.seen, stale |-> q.stale]
  PROVE  [q EXCEPT !.cur = c, !.seen = S]
           = [at |-> q.at, page |-> q.page, to |-> q.to, status |-> q.status,
              body |-> q.body, cur |-> c, seen |-> S, stale |-> q.stale]
<1>. DEFINE w == [q EXCEPT !.cur = c]
<1>1. w = [at |-> q.at, page |-> q.page, to |-> q.to, status |-> q.status,
           body |-> q.body, cur |-> c, seen |-> q.seen, stale |-> q.stale]
  OBVIOUS
<1>2. [q EXCEPT !.cur = c, !.seen = S] = [w EXCEPT !.seen = S]
  OBVIOUS
<1>. HIDE DEF w
<1>. QED
  BY <1>1, <1>2

LEMMA ReadAncestorInv ==
  ASSUME RaceInv, NEW r \in Requests, ReadAncestor(r)
  PROVE  RaceInv'
<1>. DEFINE q == req[r]
            up == [q EXCEPT !.at = "write"]
            on == [q EXCEPT !.cur = parent[q.cur], !.seen = @ \cup {q.cur}]
<1>1. Walk(q) /\ q.at = "walk" /\ UNCHANGED <<pages, parent, raced>>
  BY DEF RaceInv, RequestOK, ReadAncestor, vars, pageVars
<1>2. CASE q.cur = Root
  <2>0. q.cur \notin q.seen \cup {q.page}
    BY <1>1, <1>2, PageTreeAssumption DEF Walk, RaceInv, TreeOK, PageTreeAssumption
  <2>1. Goto(r, up)
    BY <1>2, <2>0 DEF ReadAncestor
  <2>2. RequestOK(up)
    BY <1>1, <1>2 DEF Walk, RequestOK
  <2>. HIDE DEF up
  <2>. QED
    BY <1>1, <2>1, <2>2, GotoFrame
<1>3. CASE q.cur # Root /\ q.cur \in q.seen \cup {q.page}
  <2>1. Goto(r, Idle)
    BY <1>3 DEF ReadAncestor
  <2>2. Idle.at = "idle"
    BY DEF Idle
  <2>. QED
    BY <1>1, <2>1, <2>2, GotoElsewhere
<1>4. CASE q.cur # Root /\ q.cur \notin q.seen \cup {q.page}
  <2>1. Goto(r, on)
    BY <1>4 DEF ReadAncestor
  <2>2. q.cur \in pages /\ parent[q.cur] \in pages \cup {Root}
    BY <1>1, <1>4 DEF Walk, RaceInv, TreeOK
  <2>3. Walk(on)
    <3>1. on = [at |-> q.at, page |-> q.page, to |-> q.to, status |-> q.status,
                body |-> q.body, cur |-> parent[q.cur], seen |-> q.seen \cup {q.cur},
                stale |-> q.stale]
      BY <1>1, OnwardWalk DEF Walk
    <3>. HIDE DEF on
    <3>2. ~q.stale => \A x \in q.seen \cup {q.cur} :
                        parent[x] \in q.seen \cup {q.cur} \cup {parent[q.cur]}
      BY <1>1 DEF Walk
    <3>3. /\ q.page \in pages /\ q.to \in (pages \cup {Root}) \ {q.page}
          /\ q.to # Root => q.to \in q.seen
          /\ q.seen \cup {q.cur} \subseteq pages \ {q.page}
      BY <1>1, <1>4, <2>2 DEF Walk
    <3>. QED
      BY <1>1, <2>2, <3>1, <3>2, <3>3 DEF Walk
  <2>4. RequestOK(on)
    BY <1>1, <2>3 DEF RequestOK, Walk
  <2>. HIDE DEF on
  <2>. QED
    BY <1>1, <2>1, <2>4, GotoFrame
<1>. QED
  BY <1>2, <1>3, <1>4

\* The commit of a move: if it was overtaken raced says so, else the pages it
\* has seen are all the pages above the new parent.
LEMMA WritePageInv ==
  ASSUME RaceInv, NEW r \in Requests, WritePage(r)
  PROVE  RaceInv'
<1>. DEFINE q == req[r]
<1>1. /\ Walk(q) /\ q.at = "write" /\ q.cur = Root
      /\ pages' = pages /\ parent' = [parent EXCEPT ![q.page] = q.to]
      /\ raced' = (raced \/ q.stale)
  BY DEF RaceInv, RequestOK, WritePage, Walk
<1>2. TreeOK'
  BY <1>1 DEF RaceInv, TreeOK, Walk
<1>3. CycleOnlyFromOverlap'
  <2>1. SUFFICES ASSUME ~raced, ~q.stale PROVE Acyclic(parent')
    BY <1>1 DEF CycleOnlyFromOverlap
  <2>2. /\ parent \in [Pages -> Pages \cup {Root}] /\ Acyclic(parent)
        /\ q.page \in Pages /\ q.to \in Pages \cup {Root}
        /\ q.seen \in SUBSET Pages /\ q.page \notin q.seen
        /\ q.to # Root => q.to \in q.seen
        /\ \A x \in q.seen : parent[x] \in q.seen \cup {Root}
    BY <1>1, <2>1 DEF Walk, RaceInv, TreeOK, CycleOnlyFromOverlap
  <2>. QED
    BY <1>1, <2>2, HangKeepsAcyclic
<1>4. req' = [x \in Requests |->
               IF x = r THEN Idle
               ELSE IF req[x].at \in {"walk", "write", "archive", "unarchive"}
                    THEN [req[x] EXCEPT !.stale = TRUE] ELSE req[x]]
  BY DEF WritePage, Overtake
<1>5. ASSUME NEW x \in Requests PROVE RequestOK(req[x])'
  <2>1. CASE x = r
    BY <1>4, <2>1 DEF RequestOK, Idle
  <2>2. CASE x # r /\ req[x].at \in {"walk", "write"}
    <3>1. Walk(req[x])
      BY <2>2 DEF RaceInv, RequestOK
    <3>2. req'[x] = [req[x] EXCEPT !.stale = TRUE]
      BY <1>4, <2>2
    <3>3. req'[x].at = req[x].at /\ Walk(req[x])'
      BY <1>1, <3>1, <3>2 DEF Walk
    <3>. QED
      BY <2>2, <3>3 DEF RequestOK
  <2>3. CASE x # r /\ req[x].at \in {"archive", "unarchive"}
    <3>1. Tree(req[x])
      BY <2>3 DEF RaceInv, RequestOK
    <3>2. req'[x] = [req[x] EXCEPT !.stale = TRUE]
      BY <1>4, <2>3
    <3>3. req'[x].at = req[x].at /\ Tree(req[x])'
      BY <3>1, <3>2 DEF Tree
    <3>. QED
      BY <2>3, <3>3 DEF RequestOK
  <2>4. CASE x # r /\ req[x].at \notin {"walk", "write", "archive", "unarchive"}
    BY <1>4, <2>4 DEF RequestOK
  <2>. QED
    BY <2>1, <2>2, <2>3, <2>4
<1>. QED
  BY <1>2, <1>3, <1>4, <1>5 DEF RaceInv

LEMMA ReadTreeInv ==
  ASSUME RaceInv, NEW r \in Requests, NEW p \in Pages,
         NEW op \in {"archive", "unarchive"}, ReadTree(r, p, op)
  PROVE  RaceInv'
<1>. DEFINE next == [at |-> op, page |-> p, tree |-> Below(parent, p), stale |-> FALSE]
<1>1. Goto(r, next) /\ UNCHANGED <<pages, parent, raced>>
  BY DEF ReadTree, vars, pageVars
<1>2. RequestOK(next)
  BY DEF RequestOK, Tree
<1>. HIDE DEF next
<1>. QED
  BY <1>1, <1>2, GotoFrame

LEMMA WriteTreeInv ==
  ASSUME RaceInv, NEW r \in Requests, WriteTree(r)
  PROVE  RaceInv'
<1>1. /\ req' = [x \in Requests |-> req'[x]]
      /\ \A x \in Requests : req'[x] = req[x] \/ req'[x] = Idle
      /\ UNCHANGED <<pages, parent>> /\ (raced => raced')
  BY DEF WriteTree, Goto, RaceInv
<1>2. ASSUME NEW x \in Requests PROVE RequestOK(req[x])'
  <2>1. CASE req'[x] = Idle
    BY <2>1 DEF RequestOK, Idle
  <2>2. CASE req'[x] = req[x]
    BY <1>1, <2>2 DEF RaceInv, RequestOK, Walk, Tree
  <2>. QED
    BY <1>1, <2>1, <2>2
<1>3. TreeOK' /\ CycleOnlyFromOverlap'
  BY <1>1 DEF RaceInv, TreeOK, CycleOnlyFromOverlap
<1>. QED
  BY <1>1, <1>2, <1>3 DEF RaceInv

\* The steps that neither read nor write the tree.
LEMMA TextStepInv ==
  ASSUME RaceInv, NEW r \in Requests,
         \/ Abort(r) \/ RestoreVersion(r) \/ WriteSnapshot(r) \/ ReadBack(r)
         \/ AppendVersion(r) \/ WriteDocumentSnapshot(r) \/ Store(r)
         \/ \E p \in Pages, v \in load.texts : EditPage(r, p, v)
         \/ \E p \in Pages, i \in 1..MaxPageVersions : ReadVersion(r, p, i)
         \/ \E p \in Pages \cup Docs, v \in load.texts : SendSnapshot(r, p, v.body)
  PROVE  RaceInv'
<1>1. UNCHANGED <<pages, parent, raced>>
  BY DEF Abort, RestoreVersion, WriteSnapshot, ReadBack, AppendVersion,
         WriteDocumentSnapshot, Store, EditPage, ReadVersion, SendSnapshot,
         ApplyCollabSnapshot, ApplyDocumentSnapshot, AppendPageVersionIfChanged,
         vars, pageVars
<1>2. CASE Abort(r) \/ AppendVersion(r) \/ WriteDocumentSnapshot(r)
  <2>1. Goto(r, Idle) /\ Idle.at = "idle"
    BY <1>2 DEF Abort, AppendVersion, WriteDocumentSnapshot, Idle
  <2>. QED
    BY <1>1, <2>1, GotoElsewhere
<1>3. ASSUME NEW p, NEW v, Goto(r, ToAppend(p, v)) PROVE RaceInv'
  <2>1. ToAppend(p, v).at = "append"
    BY DEF ToAppend
  <2>. QED
    BY <1>1, <1>3, <2>1, GotoElsewhere
<1>4. CASE RestoreVersion(r) \/ ReadBack(r)
           \/ \E p \in Pages, v \in load.texts : EditPage(r, p, v)
  BY <1>3, <1>4 DEF RestoreVersion, ReadBack, EditPage
<1>5. ASSUME NEW p, NEW b, Goto(r, [at |-> "snapshot", page |-> p, body |-> b])
      PROVE  RaceInv'
  BY <1>1, <1>5, GotoElsewhere
<1>6. CASE Store(r) \/ \E p \in Pages \cup Docs, v \in load.texts :
                        SendSnapshot(r, p, v.body)
  BY <1>5, <1>6 DEF Store, SendSnapshot
<1>7. ASSUME NEW p, Goto(r, [at |-> "get", page |-> p]) PROVE RaceInv'
  BY <1>1, <1>7, GotoElsewhere
<1>8. CASE WriteSnapshot(r)
  BY <1>7, <1>8 DEF WriteSnapshot
<1>9. ASSUME NEW p, NEW v, Goto(r, [at |-> "restore", page |-> p, version |-> v])
      PROVE  RaceInv'
  BY <1>1, <1>9, GotoElsewhere
<1>10. CASE \E p \in Pages, i \in 1..MaxPageVersions : ReadVersion(r, p, i)
  BY <1>9, <1>10 DEF ReadVersion
<1>. QED
  BY <1>2, <1>4, <1>6, <1>8, <1>10

LEMMA UnchangedInv ==
  ASSUME RaceInv, UNCHANGED <<pages, parent, raced, req>>
  PROVE  RaceInv'
BY RequestFrame DEF RaceInv

LEMMA RequestStepInv ==
  ASSUME RaceInv, NEW r \in Requests, RequestStep(r)
  PROVE  RaceInv'
<1>1. ASSUME NEW d \in Docs, NEW t, NEW b,
             \/ NewDocument(r, d, t, b) \/ RenameDocument(r, d, t)
             \/ DeleteDocument(r, d) \/ UndeleteDocument(r, d)
      PROVE  UNCHANGED <<pages, parent, raced, req>>
  BY <1>1 DEF NewDocument, RenameDocument, DeleteDocument, UndeleteDocument,
              CreateDocument, UpdateDocumentTitle, TrashDocument, RestoreDocument,
              pageVars
<1>2. CASE \E d \in Docs :
             \/ \E t \in Titles, v \in load.texts : NewDocument(r, d, t, v.body)
             \/ \E t \in Titles : RenameDocument(r, d, t)
             \/ DeleteDocument(r, d) \/ UndeleteDocument(r, d)
  BY <1>1, <1>2, UnchangedInv
<1>3. CASE \E p \in Pages, q \in Pages \cup {Root}, v \in load.texts :
             InsertPage(r, p, q, v)
  BY <1>3, InsertPageInv
<1>4. CASE \E p \in Pages, q \in Pages \cup {Root} : LockPage(r, p, q)
  BY <1>4, LockPageInv
<1>5. CASE \E p \in Pages, op \in {"archive", "unarchive"} : ReadTree(r, p, op)
  BY <1>5, ReadTreeInv
<1>6. CASE ReadAncestor(r) \/ WritePage(r) \/ WriteTree(r)
  BY <1>6, ReadAncestorInv, WritePageInv, WriteTreeInv
<1>. QED
  BY <1>2, <1>3, <1>4, <1>5, <1>6, TextStepInv DEF RequestStep

LEMMA CollabNextInv ==
  ASSUME RaceInv, [CollabNext]_collabVars
  PROVE  RaceInv'
<1>1. ASSUME NEW r \in Requests, RestoreStep(r) \/ ApiStep(r) \/ Store(r) PROVE RaceInv'
  BY <1>1, RequestStepInv, TextStepInv DEF RestoreStep, ApiStep
<1>2. CASE Unload \/ Restart \/ UNCHANGED collabVars
  BY <1>2, UnchangedInv DEF Unload, Restart, collabVars, pgVars, vars, pageVars
<1>3. ASSUME NEW c \in Editors, EditorStep(c) PROVE UNCHANGED pgVars
  BY <1>3 DEF EditorStep, OpenEditor, CloseEditor, Drop, Expire, Connect, Type, SendUp,
              SendDown, Leave
<1>4. ASSUME NEW c \in Editors, EditorStep(c) PROVE RaceInv'
  BY <1>3, <1>4, UnchangedInv DEF pgVars, vars, pageVars
<1>. QED
  BY <1>1, <1>2, <1>4 DEF CollabNext

LEMMA CollabInitInv ==
  ASSUME CollabInit
  PROVE  RaceInv
<1>1. TreeOK
  BY WikiPgAssumption DEF CollabInit, PgInit, TreeOK, WikiPgAssumption, WikiWorkload
<1>2. CycleOnlyFromOverlap
  BY TopIsAcyclic DEF CollabInit, PgInit, CycleOnlyFromOverlap
<1>3. req = [r \in Requests |-> Idle]
  BY DEF CollabInit, PgInit
<1>4. \A r \in Requests : RequestOK(req[r])
  BY <1>3 DEF RequestOK, Idle
<1>. QED
  BY <1>1, <1>2, <1>3, <1>4 DEF RaceInv

\* However many requests run at once, fail, or are snapshots of the rooms: a
\* cycle takes a move that another one has overtaken.
THEOREM CyclesTakeARace == CollabSpec => []CycleOnlyFromOverlap
<1>1. CollabInit => RaceInv
  BY CollabInitInv
<1>2. RaceInv /\ [CollabNext]_collabVars => RaceInv'
  BY CollabNextInv
<1>3. RaceInv => CycleOnlyFromOverlap
  BY DEF RaceInv
<1>. QED
  BY <1>1, <1>2, <1>3, PTL DEF CollabSpec

-----------------------------------------------------------------------------
(* What requests hold.                                                     *)

WalkReq == [at : {"walk", "write"}, page : Pages, to : Pages \cup {Root},
            status : Statuses, body : Bodies, cur : Pages \cup {Root},
            seen : SUBSET Pages, stale : BOOLEAN]

TreeReq == [at : {"archive", "unarchive"}, page : Pages, tree : SUBSET Pages,
            stale : BOOLEAN]

VersionReq == [at : {"restore", "append"}, page : Pages, version : Version]

SnapshotReq == [at : {"snapshot"}, page : Pages \cup Docs, body : Bodies]

GetReq == [at : {"get"}, page : Pages]

Request == {Idle} \cup WalkReq \cup TreeReq \cup VersionReq \cup SnapshotReq \cup GetReq

Locking(q) == q.at \in {"walk", "write"}

Fits(r, q) ==
  /\ q \in Request
  /\ q.at \in {"walk", "write"} => q.status = status[q.page] /\ q.body = body[q.page]
  /\ q.at \in {"archive", "unarchive"} =>
       q.tree \subseteq pages /\ (~q.stale => q.tree = Below(parent, q.page))
  /\ q.at # "idle" => q.page \in pages \cup docs /\ r \in load.requests
  /\ q.at \notin {"idle", "snapshot"} => q.page \in pages

Alone ==
  \A r, s \in Requests :
    r # s /\ Locking(req[r]) /\ Locking(req[s]) => req[r].page # req[s].page

RequestsOK ==
  /\ req = [r \in Requests |-> req[r]]
  /\ \A r \in Requests : Fits(r, req[r])
  /\ Alone

RowsOK ==
  /\ TypeOK
  /\ load \in Workloads
  /\ raced \in BOOLEAN
  /\ \A p \in Pages : Len(history[p]) <= MaxPageVersions

PgInv == RowsOK /\ RequestsOK

\* Another request could be at work only on rows that r does not write.
LEMMA HeldIsLocked ==
  ASSUME NEW p, NEW r \in Requests, ~Held(p, r), NEW s \in Requests, s # r, Locking(req[s])
  PROVE  req[s].page # p
BY DEF Held, Locking

\* r goes on, and writes no row that another request has locked.
LEMMA GotoFits ==
  ASSUME PgInv, NEW r \in Requests, NEW q, Goto(r, q), Fits(r, q)',
         UNCHANGED <<parent, load>>, pages \subseteq pages', docs \subseteq docs',
         \A s \in Requests \ {r} : Locking(req[s]) =>
           status'[req[s].page] = status[req[s].page] /\ body'[req[s].page] = body[req[s].page],
         Locking(q) => \A s \in Requests \ {r} : Locking(req[s]) => req[s].page # q.page
  PROVE  RequestsOK'
<1>1. /\ req = [x \in Requests |-> req[x]]
      /\ \A x \in Requests : Fits(x, req[x])
      /\ Alone
  BY DEF PgInv, RequestsOK
<1>2. /\ req' = [x \in Requests |-> req'[x]] /\ req'[r] = q
      /\ \A s \in Requests \ {r} : req'[s] = req[s]
  BY <1>1 DEF Goto
<1>3. ASSUME NEW s \in Requests PROVE Fits(s, req[s])'
  <2>1. CASE s = r
    BY <1>2, <2>1 DEF Fits
  <2>2. CASE s # r
    <3>1. Fits(s, req[s]) /\ req'[s] = req[s]
      BY <1>1, <1>2, <2>2
    <3>2. req[s].at \in {"walk", "write"} =>
            req[s].status = status'[req[s].page] /\ req[s].body = body'[req[s].page]
      BY <3>1, <2>2 DEF Fits, Locking
    <3>. QED
      BY <3>1, <3>2 DEF Fits
  <2>. QED
    BY <2>1, <2>2
<1>4. Alone'
  BY <1>1, <1>2 DEF Alone, Locking
<1>. QED
  BY <1>2, <1>3, <1>4 DEF RequestsOK

\* The same, when r goes on without a lock, and writes at most one page that is
\* not locked.
LEMMA GotoUnlocked ==
  ASSUME PgInv, NEW r \in Requests, NEW q, Goto(r, q), Fits(r, q)', ~Locking(q),
         UNCHANGED <<parent, load>>, pages \subseteq pages', docs \subseteq docs',
         NEW p, ~Held(p, r),
         \A x \in Pages \ {p} : status'[x] = status[x] /\ body'[x] = body[x]
  PROVE  RequestsOK'
<1>1. ASSUME NEW s \in Requests \ {r}, Locking(req[s])
      PROVE  status'[req[s].page] = status[req[s].page] /\ body'[req[s].page] = body[req[s].page]
  <2>1. req[s].page \in Pages
    BY <1>1 DEF PgInv, RequestsOK, RowsOK, TypeOK, Fits, Locking
  <2>2. req[s].page # p
    BY <1>1, HeldIsLocked
  <2>. QED
    BY <2>1, <2>2
<1>. QED
  BY <1>1, GotoFits

\* The same, when no row is written.
LEMMA GotoReading ==
  ASSUME PgInv, NEW r \in Requests, NEW q, Goto(r, q), Fits(r, q), UNCHANGED <<vars, load>>,
         Locking(q) => \A s \in Requests \ {r} : Locking(req[s]) => req[s].page # q.page
  PROVE  RequestsOK'
<1>1. /\ pages' = pages /\ parent' = parent /\ status' = status /\ body' = body
      /\ docs' = docs /\ load' = load
  BY DEF vars, pageVars, docVars
<1>2. Fits(r, q)'
  BY <1>1 DEF Fits
<1>. QED
  BY <1>1, <1>2, GotoFits

LEMMA IdleFits ==
  ASSUME NEW r PROVE Fits(r, Idle) /\ Fits(r, Idle)' /\ ~Locking(Idle)
BY DEF Fits, Idle, Request, Locking

\* No row, nothing to wait for.
LEMMA RowsStay ==
  ASSUME RowsOK, UNCHANGED <<vars, load>>, raced' \in BOOLEAN
  PROVE  RowsOK'
BY DEF RowsOK, TypeOK, vars, pageVars, docVars

\* Texts change.
LEMMA TextsChange ==
  ASSUME RowsOK, UNCHANGED <<pages, parent, archived, history, docVars, load, raced>>,
         status' \in [Pages -> Statuses], body' \in [Pages -> Bodies]
  PROVE  RowsOK'
BY DEF RowsOK, TypeOK, docVars

-----------------------------------------------------------------------------
(* The statements.                                                         *)

\* What a request appends is a version of a page.
LEMMA AppendFits ==
  ASSUME NEW r, NEW p \in Pages, NEW v \in Version
  PROVE  LET q == ToAppend(p, v) IN
         /\ q \in Request /\ q.at = "append" /\ q.page = p /\ q.version = v /\ ~Locking(q)
         /\ p \in pages /\ r \in load.requests => Fits(r, q)
         /\ p \in pages' /\ r \in load'.requests => Fits(r, q)'
<1>. DEFINE q == ToAppend(p, v)
<1>1. q \in Request /\ q.at = "append" /\ q.page = p /\ q.version = v
  BY DEF ToAppend, Request, VersionReq
<1>. HIDE DEF q
<1>2. /\ p \in pages /\ r \in load.requests => Fits(r, q)
      /\ p \in pages' /\ r \in load'.requests => Fits(r, q)'
  BY <1>1 DEF Fits
<1>. QED
  BY <1>1, <1>2 DEF q, Locking

\* What clients may send.
LEMMA TextsAreVersions ==
  ASSUME PgInv, NEW v \in load.texts
  PROVE  v \in Version /\ v.status \in Statuses /\ v.body \in Bodies
BY WikiPgAssumption DEF PgInv, RowsOK, WikiWorkload, Version

LEMMA OfRequest ==
  ASSUME PgInv, NEW r \in Requests
  PROVE  /\ Fits(r, req[r]) /\ req[r] \in Request
         /\ req[r].at \in {"walk", "write"} => req[r] \in WalkReq
         /\ req[r].at \in {"archive", "unarchive"} => req[r] \in TreeReq
         /\ req[r].at \in {"restore", "append"} => req[r] \in VersionReq
         /\ req[r].at = "snapshot" => req[r] \in SnapshotReq
         /\ req[r].at = "get" => req[r] \in GetReq
         /\ req[r].at # "idle" => r \in load.requests
<1>. DEFINE q == req[r]
<1>1. Fits(r, q) /\ q \in Request
  BY DEF PgInv, RequestsOK, Fits
<1>. HIDE DEF q
<1>2. /\ q.at \in {"walk", "write"} => q \in WalkReq
      /\ q.at \in {"archive", "unarchive"} => q \in TreeReq
      /\ q.at \in {"restore", "append"} => q \in VersionReq
      /\ q.at = "snapshot" => q \in SnapshotReq
      /\ q.at = "get" => q \in GetReq
  BY <1>1 DEF Request, Idle, WalkReq, TreeReq, VersionReq, SnapshotReq, GetReq
<1>. QED
  BY <1>1, <1>2 DEF Fits, q

LEMMA AbortKeeps ==
  ASSUME PgInv, NEW r \in Requests, Abort(r)
  PROVE  PgInv'
BY IdleFits, GotoReading, RowsStay DEF Abort, PgInv, RowsOK

\* r writes the tree; whoever has read it holds a stale one from then on.
LEMMA OvertakeFits ==
  ASSUME PgInv, NEW r \in Requests, NEW q, NEW reading, Overtake(r, q, reading),
         Fits(r, q)', ~Locking(q), load' = load, pages \subseteq pages', docs \subseteq docs',
         {"archive", "unarchive"} \subseteq reading,
         reading \subseteq {"walk", "write", "archive", "unarchive"},
         \A s \in Requests \ {r} : Locking(req[s]) =>
           status'[req[s].page] = status[req[s].page] /\ body'[req[s].page] = body[req[s].page]
  PROVE  RequestsOK'
<1>1. req' = [x \in Requests |->
               IF x = r THEN q
               ELSE IF req[x].at \in reading THEN [req[x] EXCEPT !.stale = TRUE] ELSE req[x]]
  BY DEF Overtake
<1>2. ASSUME NEW s \in Requests \ {r}
      PROVE  /\ Fits(s, req[s])'
             /\ req'[s].at = req[s].at
             /\ Locking(req[s]) => req'[s].page = req[s].page
  <2>1. PICK x : x = req[s]
    OBVIOUS
  <2>2. /\ Fits(s, x) /\ x \in Request
        /\ x.at \in {"walk", "write"} => x \in WalkReq
        /\ x.at \in {"archive", "unarchive"} => x \in TreeReq
    BY <2>1, OfRequest
  <2>3. x.at \in {"walk", "write"} => x.status = status'[x.page] /\ x.body = body'[x.page]
    BY <2>1, <2>2 DEF Fits, Locking
  <2>4. CASE x.at \in reading
    <3>1. PICK y : y = [x EXCEPT !.stale = TRUE]
      OBVIOUS
    <3>2. req'[s] = y
      BY <1>1, <2>1, <2>4, <3>1
    <3>3. /\ y \in Request /\ y.at = x.at /\ y.page = x.page /\ y.stale
          /\ x.at \in {"walk", "write"} => y.status = x.status /\ y.body = x.body
          /\ x.at \in {"archive", "unarchive"} => y.tree = x.tree
      <4>1. CASE x.at \in {"walk", "write"}
        <5>1. y \in WalkReq /\ y.at = x.at /\ y.page = x.page /\ y.stale
              /\ y.status = x.status /\ y.body = x.body
          BY <2>2, <3>1, <4>1 DEF WalkReq
        <5>. QED
          BY <4>1, <5>1 DEF Request
      <4>2. CASE x.at \in {"archive", "unarchive"}
        <5>1. y \in TreeReq /\ y.at = x.at /\ y.page = x.page /\ y.stale /\ y.tree = x.tree
          BY <2>2, <3>1, <4>2 DEF TreeReq
        <5>. QED
          BY <4>2, <5>1 DEF Request
      <4>. QED
        BY <2>4, <4>1, <4>2
    <3>4. x.at \in {"walk", "write", "archive", "unarchive"}
      BY <2>4
    <3>5. /\ x.page \in pages /\ s \in load.requests
          /\ x.at \in {"archive", "unarchive"} => x.tree \subseteq pages
      BY <2>2, <3>4 DEF Fits
    <3>6. /\ x.page \in pages' /\ s \in load'.requests
          /\ x.at \in {"archive", "unarchive"} => x.tree \subseteq pages'
      BY <3>5
    <3>7. Fits(s, y)'
      BY <2>3, <3>3, <3>4, <3>6 DEF Fits
    <3>. QED
      BY <2>1, <3>2, <3>3, <3>7 DEF Fits
  <2>5. CASE x.at \notin reading
    <3>1. req'[s] = x
      BY <1>1, <2>1, <2>5
    <3>2. x.at \notin {"archive", "unarchive"}
      BY <2>5
    <3>3. /\ x.at # "idle" => x.page \in pages' \cup docs' /\ s \in load'.requests
          /\ x.at \notin {"idle", "snapshot"} => x.page \in pages'
      BY <2>2 DEF Fits
    <3>4. Fits(s, x)'
      BY <2>2, <2>3, <3>2, <3>3 DEF Fits
    <3>. QED
      BY <2>1, <3>1, <3>4 DEF Fits
  <2>. QED
    BY <2>4, <2>5
<1>3. req'[r] = q /\ req' = [x \in Requests |-> req'[x]]
  BY <1>1
<1>4. Fits(r, req[r])'
  BY <1>3 DEF Fits
<1>5. Alone'
  BY <1>2, <1>3 DEF PgInv, RequestsOK, Alone, Locking
<1>. QED
  BY <1>2, <1>3, <1>4, <1>5 DEF RequestsOK

LEMMA InsertPageKeeps ==
  ASSUME PgInv, NEW r \in Requests, NEW p \in Pages, NEW q \in Pages \cup {Root},
         NEW v \in load.texts, InsertPage(r, p, q, v)
  PROVE  PgInv'
<1>1. v \in Version /\ v.status \in Statuses /\ v.body \in Bodies
  BY TextsAreVersions
<1>2. /\ p \in Pages \ pages /\ q \in pages \cup {Root}
      /\ pages' = pages \cup {p} /\ parent' = [parent EXCEPT ![p] = q]
      /\ status' = [status EXCEPT ![p] = v.status] /\ body' = [body EXCEPT ![p] = v.body]
      /\ archived' = archived \ {p} /\ history' = history /\ docs' = docs /\ trashed' = trashed
      /\ docTitle' = docTitle /\ docBody' = docBody
      /\ raced' = raced /\ load' = load /\ r \in load.requests
  BY PageTreeAssumption
  DEF InsertPage, CreatePage, ValidParent, Called, docVars, PageTreeAssumption
<1>3. RowsOK'
  <2>1. TypeOK'
    BY <1>1, <1>2 DEF PgInv, RowsOK, TypeOK
  <2>. QED
    BY <1>2, <2>1 DEF PgInv, RowsOK
<1>4. Overtake(r, ToAppend(p, v), {"archive", "unarchive"})
  BY DEF InsertPage
<1>5. Fits(r, ToAppend(p, v))' /\ ~Locking(ToAppend(p, v))
  BY <1>1, <1>2, AppendFits
<1>6. ASSUME NEW s \in Requests \ {r}, Locking(req[s])
      PROVE  status'[req[s].page] = status[req[s].page] /\ body'[req[s].page] = body[req[s].page]
  <2>1. req[s].page \in pages /\ pages \subseteq Pages
    BY <1>6, OfRequest DEF Fits, Locking, PgInv, RowsOK, TypeOK
  <2>. QED
    BY <1>2, <2>1 DEF PgInv, RowsOK, TypeOK
<1>7. RequestsOK'
  BY <1>2, <1>4, <1>5, <1>6, OvertakeFits
<1>. QED
  BY <1>3, <1>7 DEF PgInv

LEMMA EditPageKeeps ==
  ASSUME PgInv, NEW r \in Requests, NEW p \in Pages, NEW v \in load.texts, EditPage(r, p, v)
  PROVE  PgInv'
<1>1. v \in Version /\ v.status \in Statuses /\ v.body \in Bodies
  BY TextsAreVersions
<1>2. TypeOK /\ status \in [Pages -> Statuses] /\ body \in [Pages -> Bodies]
  BY DEF PgInv, RowsOK, TypeOK
<1>3. /\ p \in pages /\ ~Held(p, r) /\ r \in load.requests
      /\ status' = [status EXCEPT ![p] = v.status]
      /\ body' \in {body, [body EXCEPT ![p] = v.body]}
      /\ UNCHANGED <<pages, parent, archived, history, docVars, raced, load>>
      /\ Goto(r, ToAppend(p, [body |-> body'[p], status |-> v.status]))
  BY DEF EditPage, Called
<1>4. /\ status' \in [Pages -> Statuses] /\ body' \in [Pages -> Bodies]
      /\ \A x \in Pages \ {p} : status'[x] = status[x] /\ body'[x] = body[x]
  BY <1>1, <1>2, <1>3
<1>5. [body |-> body'[p], status |-> v.status] \in Version
  BY <1>1, <1>4 DEF Version
<1>6. PICK w \in Version : Goto(r, ToAppend(p, w))
  BY <1>3, <1>5
<1>7. Fits(r, ToAppend(p, w))' /\ ~Locking(ToAppend(p, w))
  BY <1>3, AppendFits
<1>8. RequestsOK'
  BY <1>3, <1>4, <1>6, <1>7, GotoUnlocked DEF docVars
<1>9. RowsOK'
  BY <1>3, <1>4, TextsChange DEF PgInv
<1>. QED
  BY <1>8, <1>9 DEF PgInv

LEMMA LockPageKeeps ==
  ASSUME PgInv, NEW r \in Requests, NEW p \in Pages, NEW t \in Pages \cup {Root},
         LockPage(r, p, t)
  PROVE  PgInv'
<1>. DEFINE q == [at    |-> IF t = Root THEN "write" ELSE "walk",
                  page  |-> p, to |-> t, status |-> status[p], body |-> body[p],
                  cur   |-> IF t = Root THEN Root ELSE parent[t],
                  seen  |-> {t} \cap Pages, stale |-> FALSE]
<1>1. /\ p \in pages /\ ~Held(p, r) /\ r \in load.requests /\ Goto(r, q)
      /\ UNCHANGED <<vars, raced, load>>
  BY DEF LockPage, Called
<1>2. TypeOK
  BY DEF PgInv, RowsOK
<1>3. /\ q \in WalkReq /\ q.at \in {"walk", "write"} /\ q.page = p
      /\ q.status = status[p] /\ q.body = body[p]
  BY <1>1, <1>2 DEF WalkReq, TypeOK
<1>. HIDE DEF q
<1>4. q \in Request
  BY <1>3 DEF Request
<1>5. Fits(r, q)
  BY <1>1, <1>3, <1>4 DEF Fits
<1>6. \A s \in Requests \ {r} : Locking(req[s]) => req[s].page # q.page
  BY <1>1, <1>3, HeldIsLocked
<1>7. RequestsOK'
  BY <1>1, <1>5, <1>6, GotoReading
<1>. QED
  BY <1>1, <1>7, RowsStay DEF PgInv, RowsOK

LEMMA ReadAncestorKeeps ==
  ASSUME PgInv, NEW r \in Requests, ReadAncestor(r)
  PROVE  PgInv'
<1>. DEFINE q == req[r]
            up == [q EXCEPT !.at = "write"]
            on == [q EXCEPT !.cur = parent[q.cur], !.seen = @ \cup {q.cur}]
<1>1. /\ q \in WalkReq /\ q.at = "walk" /\ Fits(r, q) /\ UNCHANGED <<vars, raced, load>>
  BY OfRequest DEF ReadAncestor
<1>2. TypeOK
  BY DEF PgInv, RowsOK
<1>3. ASSUME NEW x, Goto(r, x), x \in WalkReq, x.page = q.page, x.status = q.status,
             x.body = q.body
      PROVE  PgInv'
  <2>0. x \in Request /\ x.at \in {"walk", "write"}
    BY <1>3 DEF Request, WalkReq
  <2>1. Fits(r, x) /\ Locking(q)
    BY <1>1, <1>3, <2>0 DEF Fits, Locking
  <2>2. \A s \in Requests \ {r} : Locking(req[s]) => req[s].page # x.page
    BY <1>3, <2>1 DEF PgInv, RequestsOK, Alone
  <2>3. RequestsOK'
    BY <1>1, <1>3, <2>1, <2>2, GotoReading
  <2>. QED
    BY <1>1, <2>3, RowsStay DEF PgInv, RowsOK
<1>4. CASE q.cur = Root
  <2>0. q.cur \notin q.seen \cup {q.page}
    BY <1>1, <1>4, PageTreeAssumption DEF WalkReq, PageTreeAssumption
  <2>1. Goto(r, up)
    BY <1>4, <2>0 DEF ReadAncestor
  <2>2. up \in WalkReq /\ up.page = q.page /\ up.status = q.status /\ up.body = q.body
    BY <1>1 DEF WalkReq
  <2>. HIDE DEF up
  <2>. QED
    BY <1>3, <2>1, <2>2
<1>5. CASE q.cur # Root /\ q.cur \in q.seen \cup {q.page}
  <2>1. Goto(r, Idle)
    BY <1>5 DEF ReadAncestor
  <2>. QED
    BY <1>1, <2>1, IdleFits, GotoReading, RowsStay DEF PgInv, RowsOK
<1>6. CASE q.cur # Root /\ q.cur \notin q.seen \cup {q.page}
  <2>1. Goto(r, on)
    BY <1>6 DEF ReadAncestor
  <2>2. q.cur \in Pages /\ parent[q.cur] \in Pages \cup {Root}
    BY <1>1, <1>2, <1>6 DEF WalkReq, TypeOK
  <2>3. on \in WalkReq /\ on.page = q.page /\ on.status = q.status /\ on.body = q.body
    <3>1. PICK w : w = [q EXCEPT !.cur = parent[q.cur]]
      OBVIOUS
    <3>2. w \in WalkReq /\ w.page = q.page /\ w.status = q.status /\ w.body = q.body
          /\ w.seen = q.seen
      BY <1>1, <2>2, <3>1 DEF WalkReq
    <3>3. PICK S : S = q.seen \cup {q.cur}
      OBVIOUS
    <3>4. S \in SUBSET Pages
      BY <1>1, <2>2, <3>3 DEF WalkReq
    <3>5. on = [w EXCEPT !.seen = S]
      BY <3>1, <3>3
    <3>. QED
      BY <3>2, <3>4, <3>5 DEF WalkReq
  <2>. HIDE DEF on
  <2>. QED
    BY <1>3, <2>1, <2>3
<1>. QED
  BY <1>4, <1>5, <1>6

LEMMA WritePageKeeps ==
  ASSUME PgInv, RaceInv, NEW r \in Requests, WritePage(r)
  PROVE  PgInv'
<1>1. PICK q : q = req[r]
  OBVIOUS
<1>2. /\ q \in WalkReq /\ q.at = "write" /\ q.page \in pages
      /\ q.status = status[q.page] /\ q.body = body[q.page] /\ Locking(q)
  BY <1>1, OfRequest DEF WritePage, Fits, Locking
<1>3. q.to \in pages \cup {Root} /\ q.page \in Pages
  BY <1>1, <1>2 DEF RaceInv, RequestOK, Walk, WalkReq
<1>4. /\ parent' = [parent EXCEPT ![q.page] = q.to]
      /\ status' = [status EXCEPT ![q.page] = q.status]
      /\ body' = [body EXCEPT ![q.page] = q.body]
      /\ raced' = (raced \/ q.stale)
      /\ Overtake(r, Idle, {"walk", "write", "archive", "unarchive"})
      /\ UNCHANGED <<pages, archived, history, docVars, load>>
  BY <1>1 DEF WritePage
<1>5. TypeOK
  BY DEF PgInv, RowsOK
<1>6. status' = status /\ body' = body
  BY <1>2, <1>4, <1>5 DEF TypeOK
<1>7. RowsOK'
  <2>1. TypeOK'
    BY <1>2, <1>3, <1>4, <1>5, <1>6 DEF TypeOK, docVars
  <2>2. raced' \in BOOLEAN
    BY <1>2, <1>4 DEF PgInv, RowsOK, WalkReq
  <2>. QED
    BY <1>4, <2>1, <2>2 DEF PgInv, RowsOK
<1>8. Fits(r, Idle)' /\ ~Locking(Idle)
  BY IdleFits
<1>9. RequestsOK'
  BY <1>4, <1>6, <1>8, OvertakeFits DEF docVars
<1>. QED
  BY <1>7, <1>9 DEF PgInv

\* What hangs from a page is pages.
LEMMA BelowIsPages ==
  ASSUME TypeOK, NEW p \in pages
  PROVE  Below(parent, p) \subseteq pages
<1>1. /\ p \in pages /\ pages \in SUBSET Pages /\ parent \in [Pages -> Pages \cup {Root}]
      /\ \A x \in Pages \ pages : parent[x] = Root
  BY DEF TypeOK
<1>. QED
  BY <1>1, BelowExists

LEMMA ReadTreeKeeps ==
  ASSUME PgInv, NEW r \in Requests, NEW p \in Pages,
         NEW op \in {"archive", "unarchive"}, ReadTree(r, p, op)
  PROVE  PgInv'
<1>1. PICK q : q = [at |-> op, page |-> p, tree |-> Below(parent, p), stale |-> FALSE]
  OBVIOUS
<1>2. /\ p \in pages /\ r \in load.requests /\ Goto(r, q) /\ UNCHANGED <<vars, raced, load>>
  BY <1>1 DEF ReadTree, Called
<1>3. Below(parent, p) \subseteq pages /\ pages \subseteq Pages
  BY <1>2, BelowIsPages DEF PgInv, RowsOK, TypeOK
<1>4. q \in TreeReq /\ q.at = op /\ q.page = p /\ q.tree = Below(parent, p)
  BY <1>1, <1>3 DEF TreeReq
<1>5. Fits(r, q) /\ ~Locking(q)
  BY <1>2, <1>3, <1>4 DEF Fits, Locking, Request
<1>6. RequestsOK'
  BY <1>2, <1>5, GotoReading
<1>. QED
  BY <1>2, <1>6, RowsStay DEF PgInv, RowsOK

LEMMA WriteTreeKeeps ==
  ASSUME PgInv, NEW r \in Requests, WriteTree(r)
  PROVE  PgInv'
<1>1. PICK q : q = req[r]
  OBVIOUS
<1>2. q \in TreeReq /\ q.tree \subseteq pages
  BY <1>1, OfRequest DEF WriteTree, Fits
<1>3. /\ archived' \in {archived \cup q.tree, archived \ q.tree}
      /\ raced' = (raced \/ q.stale) /\ Goto(r, Idle)
      /\ UNCHANGED <<pages, parent, status, body, history, docVars, load>>
  BY <1>1 DEF WriteTree
<1>4. RowsOK'
  <2>1. archived' \subseteq pages
    BY <1>2, <1>3 DEF PgInv, RowsOK, TypeOK
  <2>2. raced' \in BOOLEAN
    BY <1>2, <1>3 DEF PgInv, RowsOK, TreeReq
  <2>. QED
    BY <1>3, <2>1, <2>2 DEF PgInv, RowsOK, TypeOK, docVars
<1>5. Fits(r, Idle)' /\ ~Locking(Idle)
  BY IdleFits
<1>6. RequestsOK'
  BY <1>3, <1>5, GotoFits DEF docVars
<1>. QED
  BY <1>4, <1>6 DEF PgInv

LEMMA ReadVersionKeeps ==
  ASSUME PgInv, NEW r \in Requests, NEW p \in Pages, NEW i, ReadVersion(r, p, i)
  PROVE  PgInv'
<1>1. PICK q : q = [at |-> "restore", page |-> p, version |-> history[p][i]]
  OBVIOUS
<1>2. /\ p \in pages /\ r \in load.requests /\ i \in DOMAIN history[p]
      /\ Goto(r, q) /\ UNCHANGED <<vars, raced, load>>
  BY <1>1 DEF ReadVersion, Called
<1>3. history[p] \in Seq(Version)
  BY DEF PgInv, RowsOK, TypeOK
<1>4. history[p][i] \in Version
  BY <1>2, <1>3, ElementOfSeq, LenProperties
<1>5. q \in VersionReq /\ q.at = "restore" /\ q.page = p
  BY <1>1, <1>4 DEF VersionReq
<1>6. Fits(r, q) /\ ~Locking(q)
  BY <1>2, <1>5 DEF Fits, Locking, Request
<1>7. RequestsOK'
  BY <1>2, <1>6, GotoReading
<1>. QED
  BY <1>2, <1>7, RowsStay DEF PgInv, RowsOK

LEMMA RestoreVersionKeeps ==
  ASSUME PgInv, NEW r \in Requests, RestoreVersion(r)
  PROVE  PgInv'
<1>1. PICK q : q = req[r]
  OBVIOUS
<1>2. PICK p : p = q.page
  OBVIOUS
<1>3. q \in VersionReq /\ p \in pages /\ p \in Pages /\ r \in load.requests
  BY <1>1, <1>2, OfRequest DEF RestoreVersion, Fits, VersionReq
<1>4. q.version \in Version /\ q.version.status \in Statuses /\ q.version.body \in Bodies
  BY <1>3 DEF VersionReq, Version
<1>5. /\ ~Held(p, r)
      /\ status' = [status EXCEPT ![p] = q.version.status]
      /\ body' = [body EXCEPT ![p] = q.version.body]
      /\ Goto(r, ToAppend(p, q.version))
      /\ UNCHANGED <<pages, parent, archived, history, docVars, raced, load>>
  BY <1>1, <1>2 DEF RestoreVersion
<1>6. /\ status' \in [Pages -> Statuses] /\ body' \in [Pages -> Bodies]
      /\ \A x \in Pages \ {p} : status'[x] = status[x] /\ body'[x] = body[x]
  BY <1>4, <1>5 DEF PgInv, RowsOK, TypeOK
<1>7. Fits(r, ToAppend(p, q.version))' /\ ~Locking(ToAppend(p, q.version))
  <2>1. PICK w \in Version : w = q.version
    BY <1>4
  <2>2. Fits(r, ToAppend(p, w))' /\ ~Locking(ToAppend(p, w))
    BY <1>3, <1>5, AppendFits
  <2>. QED
    BY <2>1, <2>2
<1>8. RequestsOK'
  BY <1>5, <1>6, <1>7, GotoUnlocked DEF docVars
<1>9. RowsOK'
  BY <1>5, <1>6, TextsChange DEF PgInv
<1>. QED
  BY <1>8, <1>9 DEF PgInv

LEMMA WriteSnapshotKeeps ==
  ASSUME PgInv, NEW r \in Requests, WriteSnapshot(r)
  PROVE  PgInv'
<1>1. PICK q : q = req[r]
  OBVIOUS
<1>2. PICK p : p = q.page
  OBVIOUS
<1>3. /\ p \in pages /\ ~Held(p, r) /\ body' = [body EXCEPT ![p] = q.body]
      /\ Goto(r, [at |-> "get", page |-> p])
      /\ UNCHANGED <<pages, parent, status, archived, history, docVars, raced, load>>
  BY <1>1, <1>2 DEF WriteSnapshot, ApplyCollabSnapshot
<1>4. q.body \in Bodies /\ p \in Pages /\ r \in load.requests
  BY <1>1, <1>3, OfRequest DEF WriteSnapshot, SnapshotReq, PgInv, RowsOK, TypeOK
<1>5. /\ status' \in [Pages -> Statuses] /\ body' \in [Pages -> Bodies]
      /\ \A x \in Pages \ {p} : status'[x] = status[x] /\ body'[x] = body[x]
  BY <1>3, <1>4 DEF PgInv, RowsOK, TypeOK
<1>6. PICK g : g = [at |-> "get", page |-> p]
  OBVIOUS
<1>7. g \in GetReq /\ g.at = "get" /\ g.page = p
  BY <1>4, <1>6 DEF GetReq
<1>8. Fits(r, g)' /\ ~Locking(g)
  BY <1>3, <1>4, <1>7 DEF Fits, Locking, Request
<1>9. Goto(r, g)
  BY <1>3, <1>6
<1>10. RequestsOK'
  BY <1>3, <1>5, <1>8, <1>9, GotoUnlocked DEF docVars
<1>11. RowsOK'
  BY <1>3, <1>5, TextsChange DEF PgInv
<1>. QED
  BY <1>10, <1>11 DEF PgInv

LEMMA ReadBackKeeps ==
  ASSUME PgInv, NEW r \in Requests, ReadBack(r)
  PROVE  PgInv'
<1>1. PICK p : p = req[r].page
  OBVIOUS
<1>2. p \in pages /\ p \in Pages /\ r \in load.requests
  BY <1>1, OfRequest DEF ReadBack, Fits, PgInv, RowsOK, TypeOK
<1>3. PICK v : v = [body |-> body[p], status |-> status[p]]
  OBVIOUS
<1>4. v \in Version
  BY <1>2, <1>3 DEF Version, PgInv, RowsOK, TypeOK
<1>5. Goto(r, ToAppend(p, v)) /\ UNCHANGED <<vars, raced, load>>
  BY <1>1, <1>3 DEF ReadBack
<1>6. Fits(r, ToAppend(p, v)) /\ ~Locking(ToAppend(p, v))
  BY <1>2, <1>4, AppendFits
<1>7. RequestsOK'
  BY <1>5, <1>6, GotoReading
<1>. QED
  BY <1>5, <1>7, RowsStay DEF PgInv, RowsOK

LEMMA SnapshotFits ==
  ASSUME NEW r, NEW p \in Pages \cup Docs, p \in pages \cup docs, r \in load.requests,
         NEW b \in Bodies
  PROVE  LET q == [at |-> "snapshot", page |-> p, body |-> b] IN
         Fits(r, q) /\ ~Locking(q)
<1>1. PICK q : q = [at |-> "snapshot", page |-> p, body |-> b]
  OBVIOUS
<1>2. q \in SnapshotReq /\ q.at = "snapshot" /\ q.page = p
  BY <1>1 DEF SnapshotReq
<1>3. Fits(r, q) /\ ~Locking(q)
  BY <1>2 DEF Fits, Locking, Request
<1>. QED
  BY <1>1, <1>3

LEMMA SendSnapshotKeeps ==
  ASSUME PgInv, NEW r \in Requests, NEW p \in Pages \cup Docs, NEW v \in load.texts,
         SendSnapshot(r, p, v.body)
  PROVE  PgInv'
<1>1. v.body \in Bodies
  BY TextsAreVersions
<1>2. /\ p \in pages \cup docs /\ r \in load.requests /\ UNCHANGED <<vars, raced, load>>
      /\ Goto(r, [at |-> "snapshot", page |-> p, body |-> v.body])
  BY DEF SendSnapshot, Called
<1>3. PICK q : q = [at |-> "snapshot", page |-> p, body |-> v.body]
  OBVIOUS
<1>4. Fits(r, q) /\ ~Locking(q)
  BY <1>1, <1>2, <1>3, SnapshotFits
<1>5. RequestsOK'
  BY <1>2, <1>3, <1>4, GotoReading
<1>. QED
  BY <1>2, <1>5, RowsStay DEF PgInv, RowsOK

\* A version that is appended is the last one; the others move one place away
\* from the end, and are kept unless they were at the limit.
LEMMA WithVersionShifts ==
  ASSUME NEW s \in Seq(Version), NEW v \in Version, Len(s) <= MaxPageVersions
  PROVE  LET t == WithVersion(s, v) IN
         /\ t \in Seq(Version) /\ Len(t) \in 1..MaxPageVersions /\ t[Len(t)] = v
         /\ \/ t = s
            \/ \A i \in 1..Len(s) : Len(s) - i + 1 < MaxPageVersions =>
                 \E j \in 1..Len(t) : t[j] = s[i] /\ Len(t) - j = Len(s) - i + 1
<1>. DEFINE a == Append(s, v)
<1>1. /\ a \in Seq(Version) /\ Len(s) \in Nat /\ Len(a) = Len(s) + 1 /\ a[Len(s) + 1] = v
      /\ \A i \in 1..Len(s) : a[i] = s[i]
  BY AppendProperties, LenProperties
<1>2. MaxPageVersions \in Nat \ {0}
  BY WikiAssumption DEF WikiAssumption
<1>. HIDE DEF a
<1>3. CASE s # <<>> /\ s[Len(s)] = v
  <2>1. WithVersion(s, v) = s /\ Len(s) # 0
    BY <1>3, EmptySeq DEF WithVersion
  <2>. QED
    BY <1>1, <1>2, <1>3, <2>1
<1>4. CASE ~(s # <<>> /\ s[Len(s)] = v) /\ Len(a) <= MaxPageVersions
  <2>1. WithVersion(s, v) = a
    BY <1>4 DEF WithVersion, LastOf, a
  <2>. QED
    BY <1>1, <1>2, <1>4, <2>1
<1>5. CASE ~(s # <<>> /\ s[Len(s)] = v) /\ ~(Len(a) <= MaxPageVersions)
  <2>1. Len(s) = MaxPageVersions /\ Len(a) = MaxPageVersions + 1
    BY <1>1, <1>2, <1>5
  <2>2. PICK t : t = SubSeq(a, 2, Len(a))
    OBVIOUS
  <2>3. WithVersion(s, v) = t
    BY <1>2, <1>5, <2>1, <2>2 DEF WithVersion, LastOf, a
  <2>4. /\ t \in Seq(Version) /\ Len(t) = MaxPageVersions
        /\ \A j \in 1..MaxPageVersions : t[j] = a[j + 1]
    BY <1>1, <1>2, <2>1, <2>2, SubSeqProperties
  <2>5. t[MaxPageVersions] = v
    BY <1>1, <1>2, <2>1, <2>4
  <2>6. ASSUME NEW i \in 1..Len(s), Len(s) - i + 1 < MaxPageVersions
        PROVE  \E j \in 1..Len(t) : t[j] = s[i] /\ Len(t) - j = Len(s) - i + 1
    <3>1. i - 1 \in 1..Len(t)
      BY <1>2, <2>1, <2>4, <2>6
    <3>2. t[i - 1] = s[i]
      BY <1>1, <2>1, <2>4, <3>1
    <3>3. Len(t) - (i - 1) = Len(s) - i + 1
      BY <1>2, <2>1, <2>4
    <3>. QED
      BY <3>1, <3>2, <3>3
  <2>. QED
    BY <1>2, <2>3, <2>4, <2>5, <2>6
<1>. QED
  BY <1>3, <1>4, <1>5

LEMMA AppendVersionKeeps ==
  ASSUME PgInv, NEW r \in Requests, AppendVersion(r)
  PROVE  PgInv'
<1>1. PICK q : q = req[r]
  OBVIOUS
<1>2. q.version \in Version /\ q.page \in Pages
  BY <1>1, OfRequest DEF AppendVersion, VersionReq
<1>3. /\ history' = [history EXCEPT ![q.page] = WithVersion(history[q.page], q.version)]
      /\ Goto(r, Idle)
      /\ UNCHANGED <<pages, parent, status, archived, body, docVars, raced, load>>
  BY <1>1 DEF AppendVersion, AppendPageVersionIfChanged
<1>4. history \in [Pages -> Seq(Version)] /\ \A p \in Pages : Len(history[p]) <= MaxPageVersions
  BY DEF PgInv, RowsOK, TypeOK
<1>5. /\ WithVersion(history[q.page], q.version) \in Seq(Version)
      /\ Len(WithVersion(history[q.page], q.version)) <= MaxPageVersions
  <2>1. PICK h \in Seq(Version) : h = history[q.page] /\ Len(h) <= MaxPageVersions
    BY <1>2, <1>4
  <2>2. PICK v \in Version : v = q.version
    BY <1>2
  <2>3. WithVersion(h, v) \in Seq(Version) /\ Len(WithVersion(h, v)) \in 1..MaxPageVersions
    BY <2>1, WithVersionShifts
  <2>4. Len(WithVersion(h, v)) <= MaxPageVersions
    BY <2>3, WikiAssumption DEF WikiAssumption
  <2>. QED
    BY <2>1, <2>2, <2>3, <2>4
<1>6. /\ history' \in [Pages -> Seq(Version)]
      /\ \A p \in Pages : Len(history'[p]) <= MaxPageVersions
  BY <1>2, <1>3, <1>4, <1>5
<1>7. RowsOK'
  BY <1>3, <1>6 DEF PgInv, RowsOK, TypeOK, docVars
<1>8. Fits(r, Idle)' /\ ~Locking(Idle)
  BY IdleFits
<1>9. RequestsOK'
  BY <1>3, <1>8, GotoFits DEF docVars
<1>. QED
  BY <1>7, <1>9 DEF PgInv

LEMMA WriteDocumentSnapshotKeeps ==
  ASSUME PgInv, NEW r \in Requests, WriteDocumentSnapshot(r)
  PROVE  PgInv'
<1>1. PICK q : q = req[r]
  OBVIOUS
<1>2. q.body \in Bodies
  BY <1>1, OfRequest DEF WriteDocumentSnapshot, SnapshotReq
<1>3. /\ q.page \in docs /\ docBody' = [docBody EXCEPT ![q.page] = q.body] /\ Goto(r, Idle)
      /\ UNCHANGED <<docs, trashed, docTitle, pageVars, raced, load>>
  BY <1>1 DEF WriteDocumentSnapshot, ApplyDocumentSnapshot
<1>4. RowsOK'
  BY <1>2, <1>3 DEF PgInv, RowsOK, TypeOK, pageVars
<1>5. Fits(r, Idle)' /\ ~Locking(Idle)
  BY IdleFits
<1>6. RequestsOK'
  BY <1>3, <1>5, GotoFits DEF pageVars
<1>. QED
  BY <1>4, <1>6 DEF PgInv

\* No request goes on.
LEMMA RequestsStay ==
  ASSUME RequestsOK, UNCHANGED <<pageVars, req, load>>, docs \subseteq docs'
  PROVE  RequestsOK'
<1>1. \A r \in Requests : Fits(r, req[r])'
  BY DEF RequestsOK, Fits, pageVars
<1>. QED
  BY <1>1 DEF RequestsOK, Alone, Locking

LEMMA DocumentCallKeeps ==
  ASSUME PgInv, NEW r \in Requests, NEW d \in Docs,
         \/ \E t \in Titles, v \in load.texts : NewDocument(r, d, t, v.body)
         \/ \E t \in Titles : RenameDocument(r, d, t)
         \/ DeleteDocument(r, d) \/ UndeleteDocument(r, d)
  PROVE  PgInv'
<1>. USE DEF PgInv, RowsOK, TypeOK
<1>1. UNCHANGED <<pageVars, req, raced, load>> /\ docs \subseteq docs'
  BY DEF NewDocument, RenameDocument, DeleteDocument, UndeleteDocument,
         CreateDocument, UpdateDocumentTitle, TrashDocument, RestoreDocument
<1>2. RequestsOK'
  BY <1>1, RequestsStay
<1>3. /\ docs' \subseteq Docs /\ trashed' \subseteq docs'
      /\ docTitle' \in [Docs -> Titles] /\ docBody' \in [Docs -> Bodies]
  <2>1. ASSUME NEW t \in Titles, NEW v \in load.texts, NewDocument(r, d, t, v.body)
        PROVE  <1>3!:
    <3>1. v.body \in Bodies
      BY TextsAreVersions
    <3>. QED
      BY <2>1, <3>1 DEF NewDocument, CreateDocument
  <2>2. ASSUME NEW t \in Titles, RenameDocument(r, d, t)
        PROVE  <1>3!:
    BY <2>2 DEF RenameDocument, UpdateDocumentTitle
  <2>3. CASE DeleteDocument(r, d) \/ UndeleteDocument(r, d)
    BY <2>3 DEF DeleteDocument, UndeleteDocument, TrashDocument, RestoreDocument
  <2>. QED
    BY <2>1, <2>2, <2>3
<1>4. RowsOK'
  BY <1>1, <1>3 DEF pageVars
<1>. QED
  BY <1>2, <1>4

-----------------------------------------------------------------------------
(* The room.                                                               *)

\* What is open has been opened, and so the page or document was there.
RoomOK ==
  /\ room = [loaded |-> room.loaded, doc |-> room.doc, dirty |-> room.dirty]
  /\ ed = [c \in Editors |->
            [open |-> ed[c].open, doc |-> ed[c].doc, link |-> ed[c].link,
             expired |-> ed[c].expired, after |-> ed[c].after]]
  /\ room.loaded \/ (\E c \in Editors : ed[c].open) => load.room \in pages \cup docs

LEMMA StoreKeeps ==
  ASSUME PgInv, RoomOK, NEW r \in Requests, Store(r)
  PROVE  PgInv'
<1>1. load.room \in Pages \cup Docs
  BY CollabAssumption DEF CollabAssumption, RoomWorkload, PgInv, RowsOK
<1>2. PICK b \in Bodies : b = TextOf(room.doc)
  BY DEF Store
<1>3. PICK q : q = [at |-> "snapshot", page |-> load.room, body |-> b]
  OBVIOUS
<1>4. /\ load.room \in pages \cup docs /\ r \in load.requests /\ Goto(r, q)
      /\ UNCHANGED <<vars, raced, load>>
  BY <1>2, <1>3 DEF Store, RoomOK
<1>5. Fits(r, q) /\ ~Locking(q)
  BY <1>1, <1>3, <1>4, SnapshotFits
<1>6. RequestsOK'
  BY <1>4, <1>5, GotoReading
<1>. QED
  BY <1>4, <1>6, RowsStay DEF PgInv, RowsOK

LEMMA RoomStay ==
  ASSUME RoomOK, UNCHANGED <<room, ed, load>>, pages \subseteq pages', docs \subseteq docs'
  PROVE  RoomOK'
BY DEF RoomOK

LEMMA StoreRoom ==
  ASSUME RoomOK, NEW r \in Requests, Store(r)
  PROVE  RoomOK'
<1>1. PICK x : x = room
  OBVIOUS
<1>2. PICK y : y = [x EXCEPT !.dirty = FALSE]
  OBVIOUS
<1>3. x = [loaded |-> x.loaded, doc |-> x.doc, dirty |-> x.dirty]
  BY <1>1 DEF RoomOK
<1>4. y = [loaded |-> y.loaded, doc |-> y.doc, dirty |-> y.dirty] /\ y.loaded = x.loaded
  BY <1>2, <1>3
<1>5. room' = y /\ UNCHANGED <<ed, load, pages, docs>>
  BY <1>1, <1>2 DEF Store, vars, pageVars, docVars
<1>. QED
  BY <1>1, <1>4, <1>5 DEF RoomOK

\* An editor step leaves the requests and rows alone.
LEMMA EditorFrame ==
  ASSUME NEW c \in Editors, EditorStep(c)
  PROVE  UNCHANGED pgVars
BY DEF EditorStep, OpenEditor, CloseEditor, Drop, Expire, Connect, Type, SendUp, SendDown, Leave

\* One editor and the server go on.
LEMMA EditorGoesOn ==
  ASSUME RoomOK, NEW c \in Editors, UNCHANGED pgVars, NEW e, NEW x,
         ed' = [ed EXCEPT ![c] = e], room' = x,
         e = [open |-> e.open, doc |-> e.doc, link |-> e.link, expired |-> e.expired,
              after |-> e.after],
         x = [loaded |-> x.loaded, doc |-> x.doc, dirty |-> x.dirty],
         e.open \/ x.loaded => load.room \in pages \cup docs
  PROVE  RoomOK'
<1>1. UNCHANGED <<load, pages, docs>>
  BY DEF pgVars, vars, pageVars, docVars
<1>2. DOMAIN ed = Editors
  BY DEF RoomOK
<1>3. DOMAIN ed' = Editors /\ ed'[c] = e /\ \A d \in Editors \ {c} : ed'[d] = ed[d]
  BY <1>2
<1>4. ed' = [d \in Editors |->
            [open |-> ed'[d].open, doc |-> ed'[d].doc, link |-> ed'[d].link,
             expired |-> ed'[d].expired, after |-> ed'[d].after]]
  <2>1. ed' = [d \in Editors |-> ed'[d]]
    BY <1>2
  <2>2. ASSUME NEW d \in Editors
        PROVE  ed'[d] = [open |-> ed'[d].open, doc |-> ed'[d].doc, link |-> ed'[d].link,
                         expired |-> ed'[d].expired, after |-> ed'[d].after]
    <3>1. CASE d = c
      BY <1>3, <3>1
    <3>2. CASE d # c
      BY <1>3, <3>2 DEF RoomOK
    <3>. QED
      BY <3>1, <3>2
  <2>. QED
    BY <2>1, <2>2
<1>5. room'.loaded \/ (\E d \in Editors : ed'[d].open) => load.room \in pages \cup docs
  BY <1>3 DEF RoomOK
<1>. QED
  BY <1>1, <1>4, <1>5 DEF RoomOK

\* The shapes of an editor and of the room.
LEMMA Shapes ==
  ASSUME RoomOK, NEW c \in Editors
  PROVE  /\ ed[c] = [open |-> ed[c].open, doc |-> ed[c].doc, link |-> ed[c].link,
                     expired |-> ed[c].expired, after |-> ed[c].after]
         /\ room = [loaded |-> room.loaded, doc |-> room.doc, dirty |-> room.dirty]
         /\ DOMAIN ed = Editors /\ ed = [d \in Editors |-> ed[d]]
         /\ room.loaded \/ ed[c].open => load.room \in pages \cup docs
BY DEF RoomOK

LEMMA LeaveRoom ==
  ASSUME RoomOK, NEW c \in Editors, NEW e, Leave(c, e),
         e = [open |-> e.open, doc |-> e.doc, link |-> e.link, expired |-> e.expired,
              after |-> e.after],
         e.open => load.room \in pages \cup docs
  PROVE  RoomOK'
<1>1. PICK z : z = room
  OBVIOUS
<1>2. PICK x : x = IF Linked = {c} THEN [z EXCEPT !.dirty = TRUE] ELSE z
  OBVIOUS
<1>3. x = [loaded |-> x.loaded, doc |-> x.doc, dirty |-> x.dirty] /\ x.loaded = z.loaded
  BY <1>1, <1>2, Shapes
<1>4. ed' = [ed EXCEPT ![c] = e] /\ room' = x /\ UNCHANGED pgVars
  BY <1>1, <1>2 DEF Leave
<1>5. e.open \/ x.loaded => load.room \in pages \cup docs
  BY <1>1, <1>3, Shapes
<1>. QED
  BY <1>3, <1>4, <1>5, EditorGoesOn

LEMMA EditorRoom ==
  ASSUME RoomOK, NEW c \in Editors, EditorStep(c)
  PROVE  RoomOK'
<1>1. UNCHANGED pgVars
  BY EditorFrame
<1>2. PICK a : a = ed[c]
  OBVIOUS
<1>3. PICK z : z = room
  OBVIOUS
<1>4. /\ a = [open |-> a.open, doc |-> a.doc, link |-> a.link, expired |-> a.expired,
              after |-> a.after]
      /\ z = [loaded |-> z.loaded, doc |-> z.doc, dirty |-> z.dirty]
      /\ DOMAIN ed = Editors /\ ed = [d \in Editors |-> ed[d]]
      /\ z.loaded \/ a.open => load.room \in pages \cup docs
  BY <1>2, <1>3, Shapes
<1>5. CASE OpenEditor(c)
  <2>1. PICK e : e = [Closed EXCEPT !.open = TRUE, !.after = restored]
    OBVIOUS
  <2>2. e = [open |-> e.open, doc |-> e.doc, link |-> e.link, expired |-> e.expired,
             after |-> e.after]
    BY <2>1 DEF Closed
  <2>3. load.room \in pages \cup docs
    BY <1>5 DEF OpenEditor, Rooms, Opens, OpensDocument
  <2>4. Leave(c, e)
    BY <1>5, <2>1 DEF OpenEditor
  <2>. QED
    BY <2>2, <2>3, <2>4, LeaveRoom
<1>6. CASE CloseEditor(c)
  <2>1. PICK e : e = Closed
    OBVIOUS
  <2>2. /\ e = [open |-> e.open, doc |-> e.doc, link |-> e.link, expired |-> e.expired,
                after |-> e.after]
        /\ ~e.open
    BY <2>1 DEF Closed
  <2>3. Leave(c, e)
    BY <1>6, <2>1 DEF CloseEditor
  <2>. QED
    BY <2>2, <2>3, LeaveRoom
<1>7. CASE Drop(c)
  <2>1. PICK e : e = [a EXCEPT !.link = FALSE]
    OBVIOUS
  <2>2. /\ e = [open |-> e.open, doc |-> e.doc, link |-> e.link, expired |-> e.expired,
                after |-> e.after]
        /\ e.open = a.open
    BY <1>4, <2>1
  <2>3. Leave(c, e)
    BY <1>2, <1>7, <2>1 DEF Drop
  <2>. QED
    BY <1>4, <2>2, <2>3, LeaveRoom
<1>8. ASSUME NEW e, NEW x, ed' = [ed EXCEPT ![c] = e], room' = x,
             e = [open |-> e.open, doc |-> e.doc, link |-> e.link, expired |-> e.expired,
                  after |-> e.after],
             x = [loaded |-> x.loaded, doc |-> x.doc, dirty |-> x.dirty],
             e.open \/ x.loaded => a.open \/ z.loaded
      PROVE  RoomOK'
  BY <1>1, <1>4, <1>8, EditorGoesOn
<1>9. CASE Expire(c)
  <2>1. PICK e : e = [a EXCEPT !.expired = TRUE]
    OBVIOUS
  <2>2. /\ e = [open |-> e.open, doc |-> e.doc, link |-> e.link, expired |-> e.expired,
                after |-> e.after]
        /\ e.open = a.open
    BY <1>4, <2>1
  <2>3. ed' = [ed EXCEPT ![c] = e] /\ room' = z
    BY <1>2, <1>3, <1>9, <2>1 DEF Expire
  <2>. QED
    BY <1>4, <1>8, <2>2, <2>3
<1>10. CASE Connect(c)
  <2>1. PICK e : e = [a EXCEPT !.link = TRUE]
    OBVIOUS
  <2>2. /\ e = [open |-> e.open, doc |-> e.doc, link |-> e.link, expired |-> e.expired,
                after |-> e.after]
        /\ e.open = a.open
    BY <1>4, <2>1
  <2>3. PICK doc : room' = [z EXCEPT !.loaded = TRUE, !.doc = doc]
    BY <1>3, <1>10 DEF Connect
  <2>4. PICK w : w = [z EXCEPT !.loaded = TRUE]
    OBVIOUS
  <2>5. w = [loaded |-> w.loaded, doc |-> w.doc, dirty |-> w.dirty]
    BY <1>4, <2>4
  <2>6. PICK x : x = [w EXCEPT !.doc = doc]
    OBVIOUS
  <2>7. x = [loaded |-> x.loaded, doc |-> x.doc, dirty |-> x.dirty]
    BY <2>5, <2>6
  <2>8. room' = x
    BY <2>3, <2>4, <2>6
  <2>9. ed' = [ed EXCEPT ![c] = e] /\ a.open
    BY <1>2, <1>10, <2>1 DEF Connect, Authorized
  <2>. QED
    BY <1>8, <2>2, <2>7, <2>8, <2>9
<1>11. ASSUME NEW S, ed' = [ed EXCEPT ![c].doc = S], room' = z
       PROVE  RoomOK'
  <2>1. PICK e : e = [a EXCEPT !.doc = S]
    OBVIOUS
  <2>2. /\ e = [open |-> e.open, doc |-> e.doc, link |-> e.link, expired |-> e.expired,
                after |-> e.after]
        /\ e.open = a.open
    BY <1>4, <2>1
  <2>3. ed' = [ed EXCEPT ![c] = e]
    BY <1>2, <1>11, <2>1
  <2>. QED
    BY <1>4, <1>8, <1>11, <2>2, <2>3
<1>12. CASE Type(c)
  <2>1. ed' = [ed EXCEPT ![c].doc = ed[c].doc \cup {TypedBy(c)}] /\ room' = z
    BY <1>3, <1>12 DEF Type
  <2>. QED
    BY <1>11, <2>1
<1>13. CASE SendDown(c)
  <2>1. ed' = [ed EXCEPT ![c].doc = ed[c].doc \cup room.doc] /\ room' = z
    BY <1>3, <1>13 DEF SendDown
  <2>. QED
    BY <1>11, <2>1
<1>14. CASE SendUp(c)
  <2>1. PICK S : S = z.doc \cup a.doc
    OBVIOUS
  <2>2. PICK w : w = [z EXCEPT !.doc = S]
    OBVIOUS
  <2>3. w = [loaded |-> w.loaded, doc |-> w.doc, dirty |-> w.dirty] /\ w.loaded = z.loaded
    BY <1>4, <2>2
  <2>4. PICK x : x = [w EXCEPT !.dirty = TRUE]
    OBVIOUS
  <2>5. x = [loaded |-> x.loaded, doc |-> x.doc, dirty |-> x.dirty] /\ x.loaded = z.loaded
    BY <2>3, <2>4
  <2>6. room' = x
    BY <1>2, <1>3, <1>14, <2>1, <2>2, <2>4 DEF SendUp
  <2>7. ed' = [ed EXCEPT ![c] = a]
    BY <1>2, <1>4, <1>14 DEF SendUp
  <2>. QED
    BY <1>4, <1>8, <2>5, <2>6, <2>7
<1>. QED
  BY <1>5, <1>6, <1>7, <1>9, <1>10, <1>12, <1>13, <1>14 DEF EditorStep

LEMMA ServerRoom ==
  ASSUME RoomOK, Unload \/ Restart
  PROVE  RoomOK'
<1>1. UNCHANGED pgVars
  BY DEF Unload, Restart
<1>2. UNCHANGED <<load, pages, docs>>
  BY <1>1 DEF pgVars, vars, pageVars, docVars
<1>3. room' = NoRoom
  BY DEF Unload, Restart
<1>4. CASE Unload
  BY <1>2, <1>3, <1>4 DEF Unload, RoomOK, NoRoom
<1>5. CASE Restart
  <2>1. \A c \in Editors :
          /\ ed'[c] = [open |-> ed'[c].open, doc |-> ed'[c].doc, link |-> ed'[c].link,
                       expired |-> ed'[c].expired, after |-> ed'[c].after]
          /\ ed'[c].open = ed[c].open
    <3>1. TAKE c \in Editors
    <3>2. PICK a : a = ed[c]
      OBVIOUS
    <3>3. a = [open |-> a.open, doc |-> a.doc, link |-> a.link, expired |-> a.expired,
               after |-> a.after]
      BY <3>2, Shapes
    <3>4. PICK e : e = [a EXCEPT !.link = FALSE]
      OBVIOUS
    <3>5. /\ e = [open |-> e.open, doc |-> e.doc, link |-> e.link, expired |-> e.expired,
                  after |-> e.after]
          /\ e.open = a.open
      BY <3>3, <3>4
    <3>6. ed'[c] = e
      BY <1>5, <3>2, <3>4 DEF Restart
    <3>. QED
      BY <3>2, <3>5, <3>6
  <2>2. ed' = [c \in Editors |-> ed'[c]]
    BY <1>5 DEF Restart
  <2>3. ed' = [c \in Editors |->
               [open |-> ed'[c].open, doc |-> ed'[c].doc, link |-> ed'[c].link,
                expired |-> ed'[c].expired, after |-> ed'[c].after]]
    BY <2>1, <2>2
  <2>4. /\ room' = [loaded |-> room'.loaded, doc |-> room'.doc, dirty |-> room'.dirty]
        /\ ~room'.loaded
    BY <1>3 DEF NoRoom
  <2>5. (\E c \in Editors : ed'[c].open) => load.room \in pages \cup docs
    BY <2>1 DEF RoomOK
  <2>. QED
    BY <1>2, <2>3, <2>4, <2>5 DEF RoomOK
<1>. QED
  BY <1>4, <1>5

-----------------------------------------------------------------------------
(* The invariant.                                                          *)

WikiInv == PgInv /\ RaceInv /\ RoomOK

LEMMA InitWikiInv ==
  ASSUME CollabInit
  PROVE  WikiInv
<1>1. RaceInv
  BY CollabInitInv
<1>2. PgInit /\ load \in Workloads /\ WikiWorkload(load)
  BY WikiPgAssumption DEF CollabInit, PgInit
<1>3. PICK v : v = FirstVersion
  OBVIOUS
<1>4. v \in Version /\ v.status \in Statuses
  <2>1. (CHOOSE s \in PublishedStatuses : TRUE) \in PublishedStatuses
    BY WikiPgAssumption
  <2>. QED
    BY <1>3, <2>1, WikiPgAssumption DEF FirstVersion, Version
<1>5. (CHOOSE t \in Titles : TRUE) \in Titles
  BY WikiPgAssumption
<1>6. /\ <<v>> \in Seq(Version) /\ Len(<<v>>) = 1
      /\ <<>> \in Seq(Version) /\ Len(<<>>) = 0
      /\ MaxPageVersions \in Nat \ {0}
  BY <1>4, WikiAssumption DEF WikiAssumption
<1>7. TypeOK
  <2>1. history \in [Pages -> Seq(Version)]
    BY <1>2, <1>3, <1>6 DEF PgInit
  <2>2. status \in [Pages -> Statuses] /\ body \in [Pages -> Bodies]
    BY <1>2, <1>3, <1>4, WikiPgAssumption DEF PgInit
  <2>3. docTitle \in [Docs -> Titles] /\ docBody \in [Docs -> Bodies]
    BY <1>2, <1>5, WikiPgAssumption DEF PgInit
  <2>. QED
    BY <1>2, <2>1, <2>2, <2>3 DEF PgInit, TypeOK, WikiWorkload
<1>8. RowsOK
  <2>1. \A p \in Pages : history[p] = <<v>> \/ history[p] = <<>>
    BY <1>2, <1>3 DEF PgInit
  <2>2. Len(<<v>>) <= MaxPageVersions /\ Len(<<>>) <= MaxPageVersions
    BY <1>6
  <2>3. \A p \in Pages : Len(history[p]) <= MaxPageVersions
    BY <2>1, <2>2, Zenon
  <2>. QED
    BY <1>2, <1>7, <2>3 DEF RowsOK, PgInit
<1>9. RequestsOK
  BY <1>2, IdleFits DEF PgInit, RequestsOK, Alone
<1>10. RoomOK
  BY DEF CollabInit, RoomOK, NoRoom, Closed
<1>. QED
  BY <1>1, <1>8, <1>9, <1>10 DEF WikiInv, PgInv

LEMMA RequestStepKeeps ==
  ASSUME PgInv, RaceInv, NEW r \in Requests, RequestStep(r)
  PROVE  PgInv'
BY AbortKeeps, InsertPageKeeps, EditPageKeeps, LockPageKeeps, ReadAncestorKeeps, WritePageKeeps,
   ReadTreeKeeps, WriteTreeKeeps, ReadVersionKeeps, SendSnapshotKeeps, WriteSnapshotKeeps,
   ReadBackKeeps, AppendVersionKeeps, WriteDocumentSnapshotKeeps, DocumentCallKeeps
DEF RequestStep

\* Pages and documents stay.
LEMMA NothingGoes ==
  ASSUME NEW r \in Requests, RequestStep(r) \/ RestoreVersion(r)
  PROVE  pages \subseteq pages' /\ docs \subseteq docs' /\ load' = load
<1>1. CASE Abort(r) \/ ReadAncestor(r) \/ ReadBack(r)
           \/ (\E p \in Pages, q \in Pages \cup {Root} : LockPage(r, p, q))
           \/ (\E p \in Pages, op \in {"archive", "unarchive"} : ReadTree(r, p, op))
           \/ (\E p \in Pages, i \in 1..MaxPageVersions : ReadVersion(r, p, i))
           \/ (\E p \in Pages \cup Docs, v \in load.texts : SendSnapshot(r, p, v.body))
  BY <1>1 DEF Abort, ReadAncestor, ReadBack, LockPage, ReadTree, ReadVersion, SendSnapshot,
              vars, pageVars, docVars
<1>2. CASE \E d \in Docs :
             \/ \E t \in Titles, v \in load.texts : NewDocument(r, d, t, v.body)
             \/ \E t \in Titles : RenameDocument(r, d, t)
             \/ DeleteDocument(r, d) \/ UndeleteDocument(r, d)
  BY <1>2 DEF NewDocument, RenameDocument, DeleteDocument, UndeleteDocument,
              CreateDocument, UpdateDocumentTitle, TrashDocument, RestoreDocument, pageVars
<1>3. CASE \E p \in Pages, q \in Pages \cup {Root}, v \in load.texts : InsertPage(r, p, q, v)
  BY <1>3 DEF InsertPage, CreatePage, docVars
<1>4. CASE \/ WritePage(r) \/ WriteTree(r) \/ WriteSnapshot(r) \/ AppendVersion(r)
           \/ WriteDocumentSnapshot(r) \/ RestoreVersion(r)
           \/ \E p \in Pages, v \in load.texts : EditPage(r, p, v)
  BY <1>4 DEF WritePage, WriteTree, WriteSnapshot, AppendVersion, WriteDocumentSnapshot,
              RestoreVersion, EditPage, ApplyCollabSnapshot, AppendPageVersionIfChanged,
              ApplyDocumentSnapshot, docVars, pageVars
<1>. QED
  BY <1>1, <1>2, <1>3, <1>4 DEF RequestStep

LEMMA NextWikiInv ==
  ASSUME WikiInv, [CollabNext]_collabVars
  PROVE  WikiInv'
<1>. USE DEF WikiInv
<1>1. RaceInv'
  BY CollabNextInv
<1>2. ASSUME UNCHANGED pgVars
      PROVE  PgInv'
  <2>1. UNCHANGED <<vars, pageVars, docs, req, raced, load>>
    BY <1>2 DEF pgVars, vars, docVars
  <2>2. RequestsOK'
    BY <2>1, RequestsStay DEF PgInv
  <2>3. RowsOK'
    BY <2>1, RowsStay DEF PgInv, RowsOK
  <2>. QED
    BY <2>2, <2>3 DEF PgInv
<1>3. ASSUME NEW r \in Requests, RestoreStep(r) \/ ApiStep(r) PROVE PgInv' /\ RoomOK'
  <2>1. PgInv'
    BY <1>3, RequestStepKeeps, RestoreVersionKeeps DEF RestoreStep, ApiStep
  <2>2. UNCHANGED <<room, ed, load>> /\ pages \subseteq pages' /\ docs \subseteq docs'
    BY <1>3, NothingGoes DEF RestoreStep, ApiStep, roomVars
  <2>. QED
    BY <2>1, <2>2, RoomStay
<1>4. ASSUME NEW r \in Requests, Store(r) PROVE PgInv' /\ RoomOK'
  BY <1>4, StoreKeeps, StoreRoom
<1>5. CASE Unload \/ Restart
  <2>1. UNCHANGED pgVars
    BY <1>5 DEF Unload, Restart
  <2>. QED
    BY <1>1, <1>2, <1>5, <2>1, ServerRoom
<1>6. ASSUME NEW c \in Editors, EditorStep(c) PROVE PgInv' /\ RoomOK'
  BY <1>2, <1>6, EditorFrame, EditorRoom
<1>7. CASE UNCHANGED collabVars
  <2>1. UNCHANGED pgVars /\ UNCHANGED <<room, ed>>
    BY <1>7 DEF collabVars, roomVars
  <2>2. UNCHANGED <<pages, docs, load>>
    BY <2>1 DEF pgVars, vars, pageVars, docVars
  <2>. QED
    BY <1>1, <1>2, <2>1, <2>2, RoomStay
<1>. QED
  BY <1>1, <1>3, <1>4, <1>5, <1>6, <1>7 DEF CollabNext

\* It holds in every reachable state.
LEMMA WikiInvAlways == CollabSpec => []WikiInv
<1>1. CollabInit => WikiInv
  BY InitWikiInv
<1>2. WikiInv /\ [CollabNext]_collabVars => WikiInv'
  BY NextWikiInv
<1>. QED
  BY <1>1, <1>2, PTL DEF CollabSpec

\* The rows, and what each request holds of them, have their types, whatever the
\* rooms send and however the requests interleave and fail.
THEOREM PgTypeOKAlways == CollabSpec => []PgTypeOK
<1>1. WikiInv => PgTypeOK
  <2>1. ASSUME WikiInv, NEW r \in Requests
        PROVE  req[r] = Idle \/ (req[r].page \in pages \cup docs /\ r \in load.requests)
    <3>1. PICK q : q = req[r]
      OBVIOUS
    <3>2. Fits(r, q) /\ q \in Request
      BY <2>1, <3>1, OfRequest DEF WikiInv
    <3>3. q.at = "idle" => q = Idle
      BY <3>2 DEF Request, WalkReq, TreeReq, VersionReq, SnapshotReq, GetReq
    <3>. QED
      BY <3>1, <3>2, <3>3 DEF Fits
  <2>. QED
    BY <2>1 DEF WikiInv, PgInv, RowsOK, PgTypeOK
<1>. QED
  BY <1>1, WikiInvAlways, PTL

-----------------------------------------------------------------------------
(* Moves.                                                                  *)

\* A step of one request leaves another where it is, or says that it is stale.
LEMMA OthersStay ==
  ASSUME PgInv, NEW r \in Requests, NEW s \in Requests \ {r},
         RequestStep(r) \/ RestoreVersion(r) \/ Store(r)
  PROVE  req'[s] = req[s] \/ (req[s].at \in {"walk", "write", "archive", "unarchive"}
                               /\ req'[s] = [req[s] EXCEPT !.stale = TRUE])
<1>1. req = [x \in Requests |-> req[x]]
  BY DEF PgInv, RequestsOK
<1>2. ASSUME NEW q, Goto(r, q) PROVE req'[s] = req[s]
  BY <1>1, <1>2 DEF Goto
<1>3. ASSUME NEW p, NEW q, NEW v, InsertPage(r, p, q, v)
      PROVE  req'[s] = req[s] \/ (req[s].at \in {"archive", "unarchive"}
                                   /\ req'[s] = [req[s] EXCEPT !.stale = TRUE])
  BY <1>3 DEF InsertPage, Overtake
<1>4. CASE WritePage(r)
  BY <1>4 DEF WritePage, Overtake
<1>5. CASE Abort(r) \/ RestoreVersion(r) \/ Store(r) \/ ReadAncestor(r) \/ WriteTree(r)
           \/ WriteSnapshot(r) \/ ReadBack(r) \/ AppendVersion(r) \/ WriteDocumentSnapshot(r)
  BY <1>2, <1>5 DEF Abort, RestoreVersion, Store, ReadAncestor, WriteTree, WriteSnapshot,
                    ReadBack, AppendVersion, WriteDocumentSnapshot
<1>6. CASE \/ \E p \in Pages, v \in load.texts : EditPage(r, p, v)
           \/ \E p \in Pages, q \in Pages \cup {Root} : LockPage(r, p, q)
           \/ \E p \in Pages, op \in {"archive", "unarchive"} : ReadTree(r, p, op)
           \/ \E p \in Pages, i \in 1..MaxPageVersions : ReadVersion(r, p, i)
           \/ \E p \in Pages \cup Docs, v \in load.texts : SendSnapshot(r, p, v.body)
  BY <1>2, <1>6 DEF EditPage, LockPage, ReadTree, ReadVersion, SendSnapshot
<1>7. CASE \E d \in Docs :
             \/ \E t \in Titles, v \in load.texts : NewDocument(r, d, t, v.body)
             \/ \E t \in Titles : RenameDocument(r, d, t)
             \/ DeleteDocument(r, d) \/ UndeleteDocument(r, d)
  BY <1>7 DEF NewDocument, RenameDocument, DeleteDocument, UndeleteDocument
<1>. QED
  BY <1>3, <1>4, <1>5, <1>6, <1>7 DEF RequestStep

\* What a request that has read all it needs does next.
LEMMA StepsOf ==
  ASSUME NEW r \in Requests, RequestStep(r) \/ RestoreVersion(r)
  PROVE  req[r].at = "write" => Abort(r) \/ WritePage(r)
<1>1. Called(r, "create") \/ Called(r, "edit") \/ Called(r, "move") \/ Called(r, "archive")
        \/ Called(r, "restore") \/ Called(r, "snapshot") \/ Called(r, "document")
      => req[r].at = "idle"
  BY DEF Called, Idle
<1>2. (\/ \E p \in Pages, q \in Pages \cup {Root}, v \in load.texts : InsertPage(r, p, q, v)
       \/ \E p \in Pages, v \in load.texts : EditPage(r, p, v)
       \/ \E p \in Pages, q \in Pages \cup {Root} : LockPage(r, p, q)
       \/ \E p \in Pages, op \in {"archive", "unarchive"} : ReadTree(r, p, op)
       \/ \E p \in Pages, i \in 1..MaxPageVersions : ReadVersion(r, p, i)
       \/ \E p \in Pages \cup Docs, v \in load.texts : SendSnapshot(r, p, v.body))
      => req[r].at = "idle"
  BY <1>1 DEF InsertPage, EditPage, LockPage, ReadTree, ReadVersion, SendSnapshot
<1>3. (\E d \in Docs :
         \/ \E t \in Titles, v \in load.texts : NewDocument(r, d, t, v.body)
         \/ \E t \in Titles : RenameDocument(r, d, t)
         \/ DeleteDocument(r, d) \/ UndeleteDocument(r, d))
      => req[r].at = "idle"
  BY <1>1 DEF NewDocument, RenameDocument, DeleteDocument, UndeleteDocument
<1>4. /\ ReadAncestor(r) => req[r].at = "walk"
      /\ WritePage(r) => req[r].at = "write"
      /\ WriteTree(r) => req[r].at \in {"archive", "unarchive"}
      /\ WriteSnapshot(r) \/ WriteDocumentSnapshot(r) => req[r].at = "snapshot"
      /\ ReadBack(r) => req[r].at = "get"
      /\ AppendVersion(r) => req[r].at = "append"
      /\ RestoreVersion(r) => req[r].at = "restore"
  BY DEF ReadAncestor, WritePage, WriteTree, WriteSnapshot, WriteDocumentSnapshot, ReadBack,
         AppendVersion, RestoreVersion
<1>. QED
  BY <1>2, <1>3, <1>4 DEF RequestStep

\* Every other step leaves the store and the requests alone.
LEMMA Steps ==
  ASSUME WikiInv, [CollabNext]_collabVars
  PROVE  \/ UNCHANGED pgVars
         \/ \E r \in Requests : RequestStep(r) \/ RestoreVersion(r)
         \/ \E r \in Requests : Store(r)
BY EditorFrame DEF CollabNext, RestoreStep, ApiStep, Unload, Restart, collabVars

\* The commit of a move writes the texts the row has: it is locked from the read
\* of them to the write, so that nothing else can have written it.
THEOREM MoveKeepsTextsAlways == CollabSpec => MoveKeepsTexts
<1>1. WikiInv /\ [CollabNext]_collabVars =>
        [\A r \in Requests : req[r].at = "write" /\ req'[r] = Idle =>
           UNCHANGED <<body, status>>]_pgVars
  <2>1. SUFFICES ASSUME WikiInv, [CollabNext]_collabVars, pgVars' # pgVars,
                        NEW r \in Requests, req[r].at = "write", req'[r] = Idle
                 PROVE  UNCHANGED <<body, status>>
    OBVIOUS
  <2>2. PICK t \in Requests : RequestStep(t) \/ RestoreVersion(t) \/ Store(t)
    BY <2>1, Steps
  <2>3. CASE t # r
    <3>1. req[r] \in WalkReq
      BY <2>1, OfRequest DEF WikiInv
    <3>2. req'[r].at = req[r].at
      <4>1. PICK x : x = req[r]
        OBVIOUS
      <4>2. [x EXCEPT !.stale = TRUE].at = x.at
        BY <3>1, <4>1 DEF WalkReq
      <4>3. req'[r] = x \/ req'[r] = [x EXCEPT !.stale = TRUE]
        BY <2>1, <2>2, <2>3, <4>1, OthersStay DEF WikiInv
      <4>. QED
        BY <4>1, <4>2, <4>3
    <3>. QED
      BY <2>1, <3>2 DEF Idle
  <2>4. CASE t = r
    <3>1. ~Store(r)
      BY <2>1 DEF Store, Idle
    <3>2. Abort(r) \/ WritePage(r)
      BY <2>1, <2>2, <2>4, <3>1, StepsOf
    <3>3. CASE Abort(r)
      BY <3>3 DEF Abort, vars, pageVars
    <3>4. CASE WritePage(r)
      <4>1. PICK q : q = req[r]
        OBVIOUS
      <4>2. q.status = status[q.page] /\ q.body = body[q.page]
        BY <2>1, <4>1, OfRequest DEF WikiInv, Fits
      <4>3. status' = [status EXCEPT ![q.page] = q.status] /\ body' = [body EXCEPT ![q.page] = q.body]
        BY <3>4, <4>1 DEF WritePage
      <4>4. status \in [Pages -> Statuses] /\ body \in [Pages -> Bodies]
        BY <2>1 DEF WikiInv, PgInv, RowsOK, TypeOK
      <4>. QED
        BY <4>2, <4>3, <4>4
    <3>. QED
      BY <3>2, <3>3, <3>4
  <2>. QED
    BY <2>3, <2>4
<1>. QED
  BY <1>1, WikiInvAlways, PTL DEF CollabSpec, MoveKeepsTexts

-----------------------------------------------------------------------------
(* Readers.                                                                *)

\* In a forest the way up from every page ends at the top.
LEMMA AcyclicIsRooted ==
  ASSUME NEW f \in [Pages -> Pages \cup {Root}], Acyclic(f), NEW p \in Pages
  PROVE  Rooted(f, p)
<1>1. /\ Up(f, p) \in SUBSET Pages /\ p \in Up(f, p)
      /\ \A x \in Up(f, p) : f[x] \in Up(f, p) \cup {Root}
  BY UpIsClosed
<1>2. \E x \in Up(f, p) : f[x] \notin Up(f, p)
  BY <1>1, Zenon DEF Acyclic
<1>. QED
  BY <1>1, <1>2 DEF Rooted

\* What is above a page that exists, exists.
LEMMA UpExists ==
  ASSUME NEW f \in [Pages -> Pages \cup {Root}], NEW E \in SUBSET Pages, NEW p \in E,
         \A x \in E : f[x] \in E \cup {Root}
  PROVE  Up(f, p) \subseteq E
BY DEF Up

\* The rooms, the search, the tree, the archive and the trash show each reader
\* the same pages and documents, whatever has been written; a page is missing
\* from the tree only below one that is archived, until a move was overtaken.
THEOREM ReadersAgreeAlways == CollabSpec => []ReadersAgree
<1>1. WikiInv => ReadersAgree
  <2>1. SUFFICES ASSUME WikiInv PROVE ReadersAgree
    OBVIOUS
  <2>2. /\ archived \subseteq pages /\ trashed \subseteq docs /\ pages \in SUBSET Pages
        /\ parent \in [Pages -> pages \cup {Root}]
    BY <2>1 DEF WikiInv, PgInv, RowsOK, TypeOK
  <2>3. Rooms("guest") = Found("guest") \cup FoundDocuments
    BY DEF Rooms, Opens, OpensDocument, Found, FoundDocuments
  <2>4. \A role \in {"guest", "member"} :
          /\ TreeOf(role) \subseteq Found(role)
          /\ ArchiveOf(role) \cup ListedDocuments \cup TrashOf(role) \subseteq Rooms(role)
    <3>1. \A role : TreeOf(role) \subseteq Found(role)
      BY DEF TreeOf, Found, Listed
    <3>2. ArchiveOf("guest") \cup ListedDocuments \cup TrashOf("guest") \subseteq Rooms("guest")
      BY DEF ArchiveOf, ListedDocuments, TrashOf, Rooms, OpensDocument
    <3>3. ArchiveOf("member") \cup ListedDocuments \cup TrashOf("member") \subseteq Rooms("member")
      BY <2>2 DEF ArchiveOf, ListedDocuments, TrashOf, Rooms, Opens, OpensDocument
    <3>. QED
      BY <3>1, <3>2, <3>3
  <2>5. ListedDocuments \cup TrashOf("member") = docs
    BY <2>2 DEF ListedDocuments, TrashOf
  <2>6. ASSUME ~raced, NEW p \in Found("member") \ TreeOf("member")
        PROVE  Up(parent, p) \cap ArchiveOf("member") # {}
    <3>1. parent \in [Pages -> Pages \cup {Root}] /\ \A x \in pages : parent[x] \in pages \cup {Root}
      BY <2>2
    <3>2. p \in pages \ archived /\ p \notin Listed(parent, pages \ archived)
      BY <2>6 DEF Found, Visible, TreeOf
    <3>3. Acyclic(parent)
      BY <2>1, <2>6 DEF WikiInv, RaceInv, CycleOnlyFromOverlap
    <3>4. Rooted(parent, p)
      BY <2>2, <3>1, <3>2, <3>3, AcyclicIsRooted
    <3>5. Up(parent, p) \subseteq pages
      BY <2>2, <3>1, <3>2, UpExists
    <3>6. ~(Up(parent, p) \subseteq pages \ archived)
      BY <3>2, <3>4 DEF Listed
    <3>. QED
      BY <3>5, <3>6 DEF ArchiveOf
  <2>. QED
    BY <2>3, <2>4, <2>5, <2>6 DEF ReadersAgree
<1>. QED
  BY <1>1, WikiInvAlways, PTL

-----------------------------------------------------------------------------
(* Each commit is an operation of the store's contract.                    *)

\* A page whose texts are written, and which stays where it is.
LEMMA TextsAreUpdate ==
  ASSUME TypeOK, NEW p \in pages, NEW s, NEW b,
         status' = [status EXCEPT ![p] = s],
         body' \in {body, [body EXCEPT ![p] = b]},
         UNCHANGED <<pages, parent, archived, history, docVars>>
  PROVE  ContractStep
<1>1. /\ p \in Pages /\ parent \in [Pages -> pages \cup {Root}]
      /\ status \in [Pages -> Statuses] /\ body \in [Pages -> Bodies]
  BY DEF TypeOK
<1>2. /\ parent' = [parent EXCEPT ![p] = parent'[p]]
      /\ status' = [status EXCEPT ![p] = status'[p]]
      /\ body' = [body EXCEPT ![p] = body'[p]]
  BY <1>1
<1>3. UpdatePage(p, parent'[p], status'[p], body'[p])
  BY <1>2 DEF UpdatePage
<1>. QED
  BY <1>3 DEF ContractStep

LEMMA InsertPageContract ==
  ASSUME WikiInv, NEW r \in Requests, NEW p \in Pages, NEW q \in Pages \cup {Root},
         NEW v \in load.texts, InsertPage(r, p, q, v)
  PROVE  ContractStep
<1>1. CreatePage(p, q, v.status, v.body)
  BY DEF InsertPage
<1>2. /\ parent' = [parent EXCEPT ![p] = q] /\ status' = [status EXCEPT ![p] = v.status]
      /\ body' = [body EXCEPT ![p] = v.body] /\ p \in pages'
  BY <1>1 DEF CreatePage
<1>3. parent'[p] = q /\ status'[p] = v.status /\ body'[p] = v.body
  BY <1>2 DEF WikiInv, PgInv, RowsOK, TypeOK
<1>4. CreatePage(p, parent'[p], status'[p], body'[p])
  BY <1>1, <1>3
<1>. QED
  BY <1>2, <1>4 DEF ContractStep

\* The pages that the walk has seen are all that is above the new parent, and
\* the page is not among them.
LEMMA WritePageContract ==
  ASSUME WikiInv, NEW r \in Requests, WritePage(r), ~raced'
  PROVE  ContractStep
<1>1. PICK q : q = req[r]
  OBVIOUS
<1>2. q.at = "write" /\ Walk(q) /\ q.cur = Root
  BY <1>1 DEF WikiInv, RaceInv, RequestOK, WritePage, Walk
<1>3. /\ parent' = [parent EXCEPT ![q.page] = q.to]
      /\ status' = [status EXCEPT ![q.page] = q.status]
      /\ body' = [body EXCEPT ![q.page] = q.body]
      /\ raced' = (raced \/ q.stale)
      /\ UNCHANGED <<pages, archived, history, docVars>>
  BY <1>1 DEF WritePage
<1>4. /\ ~raced /\ ~q.stale
      /\ q.page \in pages /\ q.page \in Pages
      /\ q.to \in (pages \cup {Root}) \ {q.page}
      /\ q.seen \in SUBSET Pages /\ q.page \notin q.seen
      /\ q.to # Root => q.to \in q.seen
      /\ \A x \in q.seen : parent[x] \in q.seen \cup {Root}
  BY <1>2, <1>3 DEF Walk, WikiInv, RaceInv, TreeOK
<1>5. parent \in [Pages -> Pages \cup {Root}] /\ Acyclic(parent)
  BY <1>4 DEF WikiInv, RaceInv, TreeOK, CycleOnlyFromOverlap
<1>6. ASSUME q.to # Root PROVE ValidParent(parent, pages, q.page, q.to)
  <2>1. q.to \in q.seen /\ q.to \in Pages /\ q.to \in pages /\ q.to # q.page
    BY <1>4, <1>6
  <2>2. Up(parent, q.to) \subseteq q.seen
    BY <1>4, <1>5, <2>1, UpExists
  <2>3. Rooted(parent, q.to)
    BY <1>5, <2>1, AcyclicIsRooted
  <2>. QED
    BY <1>4, <2>1, <2>2, <2>3 DEF ValidParent
<1>7. ValidParent(parent, pages, q.page, q.to)
  BY <1>6 DEF ValidParent
<1>8. parent'[q.page] = q.to /\ status'[q.page] = q.status /\ body'[q.page] = q.body
  BY <1>3, <1>4 DEF WikiInv, PgInv, RowsOK, TypeOK
<1>9. UpdatePage(q.page, parent'[q.page], status'[q.page], body'[q.page])
  BY <1>3, <1>4, <1>7, <1>8 DEF UpdatePage
<1>. QED
  BY <1>3, <1>4, <1>9 DEF ContractStep

LEMMA WriteTreeContract ==
  ASSUME WikiInv, NEW r \in Requests, WriteTree(r), ~raced'
  PROVE  ContractStep
<1>1. PICK q : q = req[r]
  OBVIOUS
<1>2. /\ q.at \in {"archive", "unarchive"} /\ raced' = (raced \/ q.stale)
      /\ archived' = IF q.at = "archive" THEN archived \cup q.tree ELSE archived \ q.tree
      /\ UNCHANGED <<pages, parent, status, body, history, docVars>>
  BY <1>1 DEF WriteTree
<1>3. q.page \in pages /\ q.tree = Below(parent, q.page)
  BY <1>1, <1>2, OfRequest DEF WikiInv, Fits
<1>4. ArchivePage(q.page) \/ UnarchivePage(q.page)
  BY <1>2, <1>3 DEF ArchivePage, UnarchivePage
<1>. QED
  BY <1>2, <1>3, <1>4 DEF ContractStep

LEMMA AppendVersionContract ==
  ASSUME WikiInv, NEW r \in Requests, AppendVersion(r)
  PROVE  ContractStep
<1>1. PICK q : q = req[r]
  OBVIOUS
<1>2. PICK v \in Version : v = q.version
  BY <1>1, OfRequest DEF WikiInv, AppendVersion, VersionReq
<1>3. PICK p \in Pages : p = q.page
  BY <1>1, OfRequest DEF WikiInv, AppendVersion, VersionReq
<1>4. AppendPageVersionIfChanged(p, v)
  BY <1>1, <1>2, <1>3 DEF AppendVersion
<1>5. PICK h \in Seq(Version) : h = history[p] /\ Len(h) <= MaxPageVersions
  BY DEF WikiInv, PgInv, RowsOK, TypeOK
<1>6. PICK t : t = WithVersion(h, v)
  OBVIOUS
<1>7. t \in Seq(Version) /\ Len(t) \in 1..MaxPageVersions /\ t[Len(t)] = v
  BY <1>5, <1>6, WithVersionShifts
<1>8. history'[p] = t
  BY <1>4, <1>5, <1>6 DEF AppendPageVersionIfChanged, WikiInv, PgInv, RowsOK, TypeOK
<1>9. Len(t) \in DOMAIN t
  BY <1>7, LenProperties
<1>10. v \in ToSet(history'[p])
  BY <1>7, <1>8, <1>9 DEF ToSet
<1>11. p \in pages'
  BY <1>4 DEF AppendPageVersionIfChanged
<1>. QED
  BY <1>4, <1>10, <1>11 DEF ContractStep

LEMMA DocumentContract ==
  ASSUME WikiInv, NEW r \in Requests, NEW d \in Docs,
         \/ \E t \in Titles, v \in load.texts : NewDocument(r, d, t, v.body)
         \/ \E t \in Titles : RenameDocument(r, d, t)
         \/ DeleteDocument(r, d) \/ UndeleteDocument(r, d)
  PROVE  ContractStep
<1>1. docTitle \in [Docs -> Titles] /\ docBody \in [Docs -> Bodies]
  BY DEF WikiInv, PgInv, RowsOK, TypeOK
<1>2. ASSUME NEW t, NEW b, CreateDocument(d, t, b) PROVE ContractStep
  <2>1. docTitle'[d] = t /\ docBody'[d] = b /\ d \in docs'
    BY <1>1, <1>2 DEF CreateDocument
  <2>2. CreateDocument(d, docTitle'[d], docBody'[d])
    BY <1>2, <2>1
  <2>. QED
    BY <2>1, <2>2 DEF ContractStep
<1>3. ASSUME NEW t, UpdateDocumentTitle(d, t) PROVE ContractStep
  <2>1. docTitle'[d] = t /\ d \in docs'
    BY <1>1, <1>3 DEF UpdateDocumentTitle
  <2>2. UpdateDocumentTitle(d, docTitle'[d])
    BY <1>3, <2>1
  <2>. QED
    BY <2>1, <2>2 DEF ContractStep
<1>4. ASSUME TrashDocument(d) \/ RestoreDocument(d) PROVE ContractStep
  <2>1. d \in docs'
    BY <1>4 DEF TrashDocument, RestoreDocument
  <2>. QED
    BY <1>4, <2>1 DEF ContractStep
<1>. QED
  BY <1>2, <1>3, <1>4 DEF NewDocument, RenameDocument, DeleteDocument, UndeleteDocument

LEMMA SnapshotContract ==
  ASSUME WikiInv, NEW r \in Requests, WriteSnapshot(r) \/ WriteDocumentSnapshot(r)
  PROVE  ContractStep
<1>1. PICK q : q = req[r]
  OBVIOUS
<1>2. CASE WriteSnapshot(r)
  <2>1. ApplyCollabSnapshot(q.page, q.body)
    BY <1>1, <1>2 DEF WriteSnapshot
  <2>2. q.page \in pages' /\ body'[q.page] = q.body
    BY <2>1 DEF ApplyCollabSnapshot, WikiInv, PgInv, RowsOK, TypeOK
  <2>3. ApplyCollabSnapshot(q.page, body'[q.page])
    BY <2>1, <2>2
  <2>. QED
    BY <2>2, <2>3 DEF ContractStep
<1>3. CASE WriteDocumentSnapshot(r)
  <2>1. ApplyDocumentSnapshot(q.page, q.body)
    BY <1>1, <1>3 DEF WriteDocumentSnapshot
  <2>2. q.page \in docs' /\ docBody'[q.page] = q.body
    BY <2>1 DEF ApplyDocumentSnapshot, WikiInv, PgInv, RowsOK, TypeOK
  <2>3. ApplyDocumentSnapshot(q.page, docBody'[q.page])
    BY <2>1, <2>2
  <2>. QED
    BY <2>2, <2>3 DEF ContractStep
<1>. QED
  BY <1>2, <1>3

LEMMA TextsContract ==
  ASSUME WikiInv, NEW r \in Requests,
         RestoreVersion(r) \/ \E p \in Pages, v \in load.texts : EditPage(r, p, v)
  PROVE  ContractStep
<1>1. TypeOK
  BY DEF WikiInv, PgInv, RowsOK
<1>2. CASE RestoreVersion(r)
  <2>1. PICK q : q = req[r]
    OBVIOUS
  <2>2. PICK p \in pages : p = q.page
    BY <1>2, <2>1, OfRequest DEF WikiInv, RestoreVersion, Fits
  <2>3. /\ status' = [status EXCEPT ![p] = q.version.status]
        /\ body' = [body EXCEPT ![p] = q.version.body]
        /\ UNCHANGED <<pages, parent, archived, history, docVars>>
    BY <1>2, <2>1, <2>2 DEF RestoreVersion
  <2>. QED
    BY <1>1, <2>3, TextsAreUpdate
<1>3. ASSUME NEW p \in Pages, NEW v \in load.texts, EditPage(r, p, v) PROVE ContractStep
  BY <1>1, <1>3, TextsAreUpdate DEF EditPage
<1>. QED
  BY <1>2, <1>3

\* Every commit of the Postgres store is one operation of the contract, on the
\* rows as they are at that moment, unless it is of a move or an archive that
\* was overtaken.
THEOREM ContractUntilRacedAlways == CollabSpec => ContractUntilRaced
<1>1. WikiInv /\ [CollabNext]_collabVars => [ContractStep \/ raced']_pgVars
  <2>1. SUFFICES ASSUME WikiInv, [CollabNext]_collabVars, pgVars' # pgVars, ~raced'
                 PROVE  ContractStep
    OBVIOUS
  <2>2. PICK r \in Requests : RequestStep(r) \/ RestoreVersion(r) \/ Store(r)
    BY <2>1, Steps
  <2>3. UNCHANGED vars => ContractStep
    BY DEF ContractStep
  <2>4. CASE \/ Abort(r) \/ ReadAncestor(r) \/ ReadBack(r) \/ Store(r)
             \/ \E p \in Pages, q \in Pages \cup {Root} : LockPage(r, p, q)
             \/ \E p \in Pages, op \in {"archive", "unarchive"} : ReadTree(r, p, op)
             \/ \E p \in Pages, i \in 1..MaxPageVersions : ReadVersion(r, p, i)
             \/ \E p \in Pages \cup Docs, v \in load.texts : SendSnapshot(r, p, v.body)
    BY <2>3, <2>4 DEF Abort, ReadAncestor, ReadBack, Store, LockPage, ReadTree, ReadVersion,
                      SendSnapshot
  <2>5. CASE RestoreVersion(r) \/ \E p \in Pages, v \in load.texts : EditPage(r, p, v)
    BY <2>1, <2>5, TextsContract
  <2>6. CASE WritePage(r) \/ WriteTree(r)
    BY <2>1, <2>6, WritePageContract, WriteTreeContract
  <2>7. CASE WriteSnapshot(r) \/ WriteDocumentSnapshot(r) \/ AppendVersion(r)
    BY <2>1, <2>7, SnapshotContract, AppendVersionContract
  <2>8. CASE \E p \in Pages, q \in Pages \cup {Root}, v \in load.texts : InsertPage(r, p, q, v)
    BY <2>1, <2>8, InsertPageContract
  <2>9. CASE \E d \in Docs :
               \/ \E t \in Titles, v \in load.texts : NewDocument(r, d, t, v.body)
               \/ \E t \in Titles : RenameDocument(r, d, t)
               \/ DeleteDocument(r, d) \/ UndeleteDocument(r, d)
    BY <2>1, <2>9, DocumentContract
  <2>. QED
    BY <2>2, <2>4, <2>5, <2>6, <2>7, <2>8, <2>9 DEF RequestStep
<1>. QED
  BY <1>1, WikiInvAlways, PTL DEF CollabSpec, ContractUntilRaced

-----------------------------------------------------------------------------
(* The versions.                                                           *)

\* The requests that can be at work at once are not more than the versions
\* that a page keeps.  With more, a text can lose its version: it is the last,
\* and as many others are appended after it as are kept, by requests whose
\* texts it had replaced.
RequestsFitVersions == IsFiniteSet(Requests) /\ Cardinality(Requests) <= MaxPageVersions

Text(p) == [body |-> body[p], status |-> status[p]]

\* q will append a version of p.
Touches(q, p) == q.at \in {"get", "append"} /\ q.page = p

\* The text of p is going to be appended.
Owed(p) ==
  \E r \in Requests :
    Touches(req[r], p) /\ (req[r].at = "append" => req[r].version = Text(p))

\* These will append a version of p that is not its text any more.
Late(p) == {r \in Requests : req[r].at = "append" /\ req[r].page = p /\ req[r].version # Text(p)}

\* The text of p is among the versions, and no further from the last one than
\* the late versions leave it.
Kept(p) ==
  \E i \in 1..Len(history[p]) :
    history[p][i] = Text(p) /\ Len(history[p]) - i + 1 + Cardinality(Late(p)) <= MaxPageVersions

TextInv == load.faults \/ \A p \in pages : Owed(p) \/ Kept(p)

\* Nothing happens to p, nor to what will be appended to it.
LEMMA TextFrame ==
  ASSUME NEW p, Owed(p) \/ Kept(p), body'[p] = body[p], status'[p] = status[p],
         history'[p] = history[p],
         \A s \in Requests : Touches(req'[s], p) \/ Touches(req[s], p) => req'[s] = req[s]
  PROVE  Owed(p)' \/ Kept(p)'
<1>1. Text(p)' = Text(p)
  BY DEF Text
<1>2. CASE Owed(p)
  <2>1. PICK s \in Requests :
          Touches(req[s], p) /\ (req[s].at = "append" => req[s].version = Text(p))
    BY <1>2 DEF Owed
  <2>2. req'[s] = req[s]
    BY <2>1
  <2>3. Touches(req'[s], p) /\ (req'[s].at = "append" => req'[s].version = Text(p)')
    BY <1>1, <2>1, <2>2
  <2>4. Owed(p)'
    BY <2>3 DEF Owed, Touches
  <2>. QED
    BY <2>4
<1>3. CASE Kept(p)
  <2>1. \A s \in Requests :
          (req'[s].at = "append" /\ req'[s].page = p /\ req'[s].version # Text(p)')
            <=> (req[s].at = "append" /\ req[s].page = p /\ req[s].version # Text(p))
    BY <1>1 DEF Touches
  <2>2. Late(p)' = Late(p)
    BY <2>1 DEF Late
  <2>3. Kept(p)'
    BY <1>1, <1>3, <2>2 DEF Kept
  <2>. QED
    BY <2>3
<1>. QED
  BY <1>2, <1>3

\* A step of one request changes no other one that is to append something.
LEMMA OthersTouch ==
  ASSUME PgInv, NEW r \in Requests, NEW s \in Requests \ {r}, NEW p,
         RequestStep(r) \/ RestoreVersion(r) \/ Store(r),
         Touches(req'[s], p) \/ Touches(req[s], p)
  PROVE  req'[s] = req[s]
<1>1. PICK x : x = req[s]
  OBVIOUS
<1>2. SUFFICES ASSUME x.at \in {"walk", "write", "archive", "unarchive"},
                      req'[s] = [x EXCEPT !.stale = TRUE]
               PROVE  FALSE
  BY <1>1, OthersStay
<1>3. x \in WalkReq \/ x \in TreeReq
  BY <1>1, <1>2, OfRequest
<1>4. [x EXCEPT !.stale = TRUE].at = x.at
  BY <1>3 DEF WalkReq, TreeReq
<1>. QED
  BY <1>1, <1>2, <1>4 DEF Touches

\* A step that neither changes a text nor has one appended.
LEMMA TextsStay ==
  ASSUME PgInv, TextInv, NEW r \in Requests, RequestStep(r) \/ RestoreVersion(r) \/ Store(r),
         req[r].at \notin {"get", "append"}, req'[r].at \notin {"get", "append"},
         UNCHANGED <<pages, body, status, history, load>>
  PROVE  TextInv'
<1>1. SUFFICES ASSUME ~load.faults, NEW p \in pages PROVE Owed(p)' \/ Kept(p)'
  BY DEF TextInv
<1>2. \A s \in Requests : Touches(req'[s], p) \/ Touches(req[s], p) => req'[s] = req[s]
  BY OthersTouch DEF Touches
<1>3. Owed(p) \/ Kept(p)
  BY <1>1 DEF TextInv
<1>. QED
  BY <1>2, <1>3, TextFrame

\* A text of p is written or read back, to be appended.
LEMMA TextsGoOn ==
  ASSUME PgInv, TextInv, NEW r \in Requests, RequestStep(r) \/ RestoreVersion(r),
         NEW p, Touches(req'[r], p), req'[r].at = "append" => req'[r].version = Text(p)',
         \A x \in Pages \ {p} : ~Touches(req[r], x) /\ body'[x] = body[x]
                                /\ status'[x] = status[x] /\ history'[x] = history[x],
         pages' \subseteq pages \cup {p}, load' = load
  PROVE  TextInv'
<1>1. SUFFICES ASSUME ~load.faults, NEW x \in pages' PROVE Owed(x)' \/ Kept(x)'
  BY DEF TextInv
<1>2. CASE x = p
  <2>1. Owed(p)'
    BY DEF Owed, Touches
  <2>. QED
    BY <1>2, <2>1 DEF Owed, Touches, Text
<1>3. CASE x # p
  <2>1. x \in pages /\ x \in Pages \ {p}
    BY <1>3 DEF PgInv, RowsOK, TypeOK
  <2>2. \A s \in Requests : Touches(req'[s], x) \/ Touches(req[s], x) => req'[s] = req[s]
    BY <1>3, <2>1, OthersTouch DEF Touches
  <2>3. Owed(x) \/ Kept(x)
    BY <1>1, <2>1 DEF TextInv
  <2>. QED
    BY <2>1, <2>2, <2>3, TextFrame
<1>. QED
  BY <1>2, <1>3

\* A version is appended: the one of the text is the last, and of the late ones
\* there is one less.
LEMMA AppendTexts ==
  ASSUME PgInv, TextInv, RequestsFitVersions, NEW r \in Requests, AppendVersion(r)
  PROVE  TextInv'
<1>1. PICK q : q = req[r]
  OBVIOUS
<1>2. PICK v \in Version : v = q.version
  BY <1>1, OfRequest DEF AppendVersion, VersionReq
<1>3. PICK p \in Pages : p = q.page
  BY <1>1, OfRequest DEF AppendVersion, VersionReq
<1>4. /\ q.at = "append" /\ p \in pages
      /\ history' = [history EXCEPT ![p] = WithVersion(history[p], v)] /\ Goto(r, Idle)
      /\ UNCHANGED <<pages, status, body, load>>
  BY <1>1, <1>2, <1>3 DEF AppendVersion, AppendPageVersionIfChanged
<1>5. PICK h \in Seq(Version) : h = history[p] /\ Len(h) <= MaxPageVersions
  BY <1>3 DEF PgInv, RowsOK, TypeOK
<1>6. PICK t : t = WithVersion(h, v)
  OBVIOUS
<1>7. /\ t \in Seq(Version) /\ Len(t) \in 1..MaxPageVersions /\ t[Len(t)] = v
      /\ \/ t = h
         \/ \A i \in 1..Len(h) : Len(h) - i + 1 < MaxPageVersions =>
              \E j \in 1..Len(t) : t[j] = h[i] /\ Len(t) - j = Len(h) - i + 1
  BY <1>5, <1>6, WithVersionShifts
<1>8. history'[p] = t /\ \A x \in Pages \ {p} : history'[x] = history[x]
  BY <1>4, <1>5, <1>6 DEF PgInv, RowsOK, TypeOK
<1>9. req'[r] = Idle /\ \A s \in Requests \ {r} : req'[s] = req[s]
  BY <1>4 DEF Goto, PgInv, RequestsOK
<1>10. SUFFICES ASSUME ~load.faults, NEW x \in pages' PROVE Owed(x)' \/ Kept(x)'
  BY <1>4 DEF TextInv
<1>11. x \in pages /\ x \in Pages /\ (Owed(x) \/ Kept(x))
  BY <1>4, <1>10 DEF TextInv, PgInv, RowsOK, TypeOK
<1>12. CASE x # p
  <2>1. \A s \in Requests : Touches(req'[s], x) \/ Touches(req[s], x) => req'[s] = req[s]
    BY <1>1, <1>3, <1>9, <1>12 DEF Touches, Idle
  <2>. QED
    BY <1>4, <1>8, <1>11, <1>12, <2>1, TextFrame
<1>13. CASE x = p
  <2>0. SUFFICES Owed(p)' \/ Kept(p)'
    BY <1>13 DEF Owed, Kept, Touches, Text, Late
  <2>1. Text(p)' = Text(p) /\ Text(p)' = [body |-> body'[p], status |-> status'[p]]
    BY <1>4 DEF Text
  <2>2. Late(p)' = Late(p) \ {r}
    BY <1>9, <2>1 DEF Late, Idle
  <2>3. IsFiniteSet(Late(p)') /\ Cardinality(Late(p)') \in Nat
    <3>1. Late(p)' \subseteq Requests
      BY DEF Late
    <3>. QED
      BY <3>1, FS_Subset, FS_CardinalityType DEF RequestsFitVersions
  <2>4. MaxPageVersions \in Nat /\ Len(h) \in Nat /\ Len(t) \in Nat
    BY <1>5, <1>7, LenProperties, WikiAssumption DEF WikiAssumption
  <2>5. CASE v = Text(p)
    <3>1. Cardinality(Late(p)') <= Cardinality(Requests) - 1
      <4>1. /\ IsFiniteSet(Requests \ {r})
            /\ Cardinality(Requests \ {r}) = Cardinality(Requests) - 1
        BY FS_RemoveElement DEF RequestsFitVersions
      <4>2. Late(p)' \in SUBSET (Requests \ {r})
        BY <2>2 DEF Late
      <4>. QED
        BY <4>1, <4>2, FS_Subset
    <3>2. Cardinality(Requests) \in Nat /\ Cardinality(Requests) <= MaxPageVersions
      BY FS_CardinalityType DEF RequestsFitVersions
    <3>3. Len(t) - Len(t) + 1 + Cardinality(Late(p)') <= MaxPageVersions
      BY <2>3, <2>4, <3>1, <3>2
    <3>4. Len(t) \in 1..Len(t)
      BY <1>7, <2>4
    <3>5. Kept(p)'
      BY <1>7, <1>8, <2>1, <2>5, <3>3, <3>4 DEF Kept
    <3>. QED
      BY <3>5
  <2>6. CASE v # Text(p) /\ Owed(p)
    <3>1. PICK s \in Requests :
            Touches(req[s], p) /\ (req[s].at = "append" => req[s].version = Text(p))
      BY <2>6 DEF Owed
    <3>2. s # r
      BY <1>1, <1>2, <1>4, <2>6, <3>1
    <3>3. Owed(p)'
      BY <1>9, <2>1, <3>1, <3>2 DEF Owed, Touches
    <3>. QED
      BY <3>3
  <2>7. CASE v # Text(p) /\ Kept(p)
    <3>1. PICK i \in 1..Len(h) :
            h[i] = Text(p) /\ Len(h) - i + 1 + Cardinality(Late(p)) <= MaxPageVersions
      BY <1>5, <2>7 DEF Kept
    <3>2. Cardinality(Late(p)') = Cardinality(Late(p)) - 1 /\ Cardinality(Late(p)) \in Nat
      <4>1. r \in Late(p)
        BY <1>1, <1>2, <1>3, <1>4, <2>7 DEF Late
      <4>2. IsFiniteSet(Late(p))
        <5>1. Late(p) \subseteq Requests
          BY DEF Late
        <5>. QED
          BY <5>1, FS_Subset DEF RequestsFitVersions
      <4>. QED
        BY <2>2, <4>1, <4>2, FS_RemoveElement, FS_CardinalityType
    <3>3. CASE t = h
      <4>1. Len(t) - i + 1 + Cardinality(Late(p)') <= MaxPageVersions
        BY <2>4, <3>1, <3>2, <3>3
      <4>2. Kept(p)'
        BY <1>8, <2>1, <3>1, <3>3, <4>1 DEF Kept
      <4>. QED
        BY <4>2
    <3>4. CASE t # h
      <4>1. Len(h) - i + 1 < MaxPageVersions
        BY <2>3, <2>4, <3>1, <3>2
      <4>2. PICK j \in 1..Len(t) : t[j] = h[i] /\ Len(t) - j = Len(h) - i + 1
        BY <1>7, <3>4, <4>1
      <4>3. Len(t) - j + 1 + Cardinality(Late(p)') <= MaxPageVersions
        BY <2>4, <3>1, <3>2, <4>2
      <4>4. Kept(p)'
        BY <1>8, <2>1, <3>1, <4>2, <4>3 DEF Kept
      <4>. QED
        BY <4>4
    <3>. QED
      BY <3>3, <3>4
  <2>. QED
    BY <1>11, <1>13, <2>5, <2>6, <2>7
<1>. QED
  BY <1>12, <1>13

LEMMA InitTexts ==
  ASSUME CollabInit
  PROVE  TextInv
<1>1. SUFFICES ASSUME NEW p \in pages PROVE Kept(p)
  BY DEF TextInv
<1>2. PICK v : v = FirstVersion
  OBVIOUS
<1>3. p \in Pages /\ history[p] = <<v>>
  BY <1>2, WikiPgAssumption DEF CollabInit, PgInit, WikiWorkload
<1>4. Text(p) = v
  BY <1>2, <1>3 DEF Text, FirstVersion, CollabInit, PgInit
<1>5. Late(p) = {}
  BY DEF Late, CollabInit, PgInit, Idle
<1>6. Len(<<v>>) - 1 + 1 + Cardinality({}) <= MaxPageVersions
  BY FS_EmptySet, WikiAssumption DEF WikiAssumption
<1>7. 1 \in 1..Len(<<v>>) /\ <<v>>[1] = v
  OBVIOUS
<1>. QED
  BY <1>3, <1>4, <1>5, <1>6, <1>7 DEF Kept

\* The request r now is to append v, which p has.
LEMMA ToAppendTouches ==
  ASSUME NEW p, NEW v
  PROVE  LET q == ToAppend(p, v) IN
         Touches(q, p) /\ q.at = "append" /\ q.version = v /\ \A x : x # p => ~Touches(q, x)
BY DEF ToAppend, Touches

LEMMA RequestStepTexts ==
  ASSUME PgInv, TextInv, RequestsFitVersions, NEW r \in Requests,
         RequestStep(r) \/ RestoreVersion(r)
  PROVE  TextInv'
<1>1. /\ req = [s \in Requests |-> req[s]] /\ TypeOK
      /\ status \in [Pages -> Statuses] /\ body \in [Pages -> Bodies]
  BY DEF PgInv, RequestsOK, RowsOK, TypeOK
<1>2. \A q : Goto(r, q) => req'[r] = q
  BY <1>1 DEF Goto
<1>3. CASE Abort(r)
  BY <1>3 DEF Abort, TextInv
<1>4. CASE \/ ReadAncestor(r) \/ WriteTree(r) \/ WriteDocumentSnapshot(r) \/ WritePage(r)
           \/ \E p \in Pages, q \in Pages \cup {Root} : LockPage(r, p, q)
           \/ \E p \in Pages, op \in {"archive", "unarchive"} : ReadTree(r, p, op)
           \/ \E p \in Pages, i \in 1..MaxPageVersions : ReadVersion(r, p, i)
           \/ \E p \in Pages \cup Docs, v \in load.texts : SendSnapshot(r, p, v.body)
  <2>1. UNCHANGED <<pages, body, status, history, load>>
    <3>1. CASE WritePage(r)
      <4>1. PICK q : q = req[r]
        OBVIOUS
      <4>2. q.status = status[q.page] /\ q.body = body[q.page]
        BY <3>1, <4>1, OfRequest DEF WritePage, Fits
      <4>3. /\ status' = [status EXCEPT ![q.page] = q.status]
            /\ body' = [body EXCEPT ![q.page] = q.body]
            /\ UNCHANGED <<pages, history, load>>
        BY <3>1, <4>1 DEF WritePage
      <4>. QED
        BY <1>1, <4>2, <4>3
    <3>. QED
      BY <1>4, <3>1 DEF ReadAncestor, WriteTree, WriteDocumentSnapshot, LockPage, ReadTree,
           ReadVersion, SendSnapshot, ApplyDocumentSnapshot, vars, pageVars
  <2>2. req[r].at \notin {"get", "append"}
    <3>1. \A c : Called(r, c) => req[r].at = "idle"
      BY DEF Called, Idle
    <3>2. req[r].at \in {"walk", "archive", "unarchive", "snapshot", "write", "idle"}
      BY <1>4, <3>1 DEF ReadAncestor, WriteTree, WriteDocumentSnapshot, WritePage, LockPage,
           ReadTree, ReadVersion, SendSnapshot
    <3>. QED
      BY <3>2
  <2>3. req'[r].at \notin {"get", "append"}
    <3>1. CASE WriteTree(r) \/ WriteDocumentSnapshot(r) \/ WritePage(r)
      <4>1. req'[r] = Idle
        BY <1>2, <3>1 DEF WriteTree, WriteDocumentSnapshot, WritePage, Overtake
      <4>. QED
        BY <4>1 DEF Idle
    <3>2. CASE ReadAncestor(r)
      <4>1. PICK q : q = req[r]
        OBVIOUS
      <4>2. q \in WalkReq /\ q.at = "walk"
        BY <3>2, <4>1, OfRequest DEF ReadAncestor
      <4>3. [q EXCEPT !.at = "write"].at = "write"
        BY <4>2 DEF WalkReq
      <4>4. [q EXCEPT !.cur = parent[q.cur], !.seen = q.seen \cup {q.cur}].at = "walk"
        <5>1. PICK c : c = parent[q.cur]
          OBVIOUS
        <5>2. PICK S : S = q.seen \cup {q.cur}
          OBVIOUS
        <5>3. PICK w : w = [q EXCEPT !.cur = c, !.seen = S]
          OBVIOUS
        <5>4. w = [at |-> q.at, page |-> q.page, to |-> q.to, status |-> q.status,
                   body |-> q.body, cur |-> c, seen |-> S, stale |-> q.stale]
          <6>1. q = [at |-> q.at, page |-> q.page, to |-> q.to, status |-> q.status,
                     body |-> q.body, cur |-> q.cur, seen |-> q.seen, stale |-> q.stale]
            BY <4>2 DEF WalkReq
          <6>. QED
            BY <5>3, <6>1, OnwardWalk
        <5>5. w.at = "walk"
          BY <4>2, <5>4
        <5>. QED
          BY <5>1, <5>2, <5>3, <5>5
      <4>5. \/ req'[r] = [q EXCEPT !.at = "write"]
            \/ req'[r] = Idle
            \/ req'[r] = [q EXCEPT !.cur = parent[q.cur], !.seen = q.seen \cup {q.cur}]
        <5>1. CASE q.cur = Root
          BY <1>2, <3>2, <4>1, <5>1 DEF ReadAncestor
        <5>2. CASE q.cur # Root /\ q.cur \in q.seen \cup {q.page}
          BY <1>2, <3>2, <4>1, <5>2 DEF ReadAncestor
        <5>3. CASE q.cur # Root /\ q.cur \notin q.seen \cup {q.page}
          BY <1>2, <3>2, <4>1, <5>3 DEF ReadAncestor
        <5>. QED
          BY <5>1, <5>2, <5>3
      <4>6. Idle.at = "idle"
        BY DEF Idle
      <4>7. req'[r].at \in {"write", "walk", "idle"}
        BY <4>3, <4>4, <4>5, <4>6, Zenon
      <4>. QED
        BY <4>7
    <3>3. ASSUME NEW p, NEW t, LockPage(r, p, t) PROVE req'[r].at \in {"walk", "write"}
      BY <1>2, <3>3 DEF LockPage
    <3>4. ASSUME NEW p, NEW op \in {"archive", "unarchive"}, ReadTree(r, p, op)
          PROVE  req'[r].at \in {"archive", "unarchive"}
      BY <1>2, <3>4 DEF ReadTree
    <3>5. ASSUME NEW p, NEW i, ReadVersion(r, p, i) PROVE req'[r].at = "restore"
      BY <1>2, <3>5 DEF ReadVersion
    <3>6. ASSUME NEW p, NEW b, SendSnapshot(r, p, b) PROVE req'[r].at = "snapshot"
      BY <1>2, <3>6 DEF SendSnapshot
    <3>. QED
      BY <1>4, <3>1, <3>2, <3>3, <3>4, <3>5, <3>6
  <2>. QED
    BY <2>1, <2>2, <2>3, TextsStay
<1>5. ASSUME NEW d \in Docs,
             \/ \E t \in Titles, v \in load.texts : NewDocument(r, d, t, v.body)
             \/ \E t \in Titles : RenameDocument(r, d, t)
             \/ DeleteDocument(r, d) \/ UndeleteDocument(r, d)
      PROVE  TextInv'
  <2>1. UNCHANGED <<pageVars, req, load>>
    BY <1>5 DEF NewDocument, RenameDocument, DeleteDocument, UndeleteDocument,
                CreateDocument, UpdateDocumentTitle, TrashDocument, RestoreDocument
  <2>. QED
    BY <2>1 DEF TextInv, Owed, Kept, Late, Touches, Text, pageVars
<1>6. ASSUME NEW p \in Pages, NEW q \in Pages \cup {Root}, NEW v \in load.texts,
             InsertPage(r, p, q, v)
      PROVE  TextInv'
  <2>1. v \in Version
    BY TextsAreVersions
  <2>2. /\ req'[r] = ToAppend(p, v) /\ req[r].at = "idle" /\ pages' = pages \cup {p}
        /\ status' = [status EXCEPT ![p] = v.status] /\ body' = [body EXCEPT ![p] = v.body]
        /\ history' = history /\ load' = load
    BY <1>6 DEF InsertPage, CreatePage, Overtake, Called, Idle
  <2>3. Text(p)' = v
    BY <1>1, <2>1, <2>2 DEF Text, Version
  <2>4. Touches(req'[r], p) /\ req'[r].version = Text(p)'
    BY <2>2, <2>3, ToAppendTouches
  <2>5. \A x \in Pages \ {p} : ~Touches(req[r], x) /\ body'[x] = body[x]
                              /\ status'[x] = status[x] /\ history'[x] = history[x]
    BY <1>1, <2>2 DEF Touches
  <2>. QED
    BY <2>2, <2>4, <2>5, TextsGoOn
<1>7. ASSUME NEW p \in Pages, NEW w, req'[r] = ToAppend(p, w), Text(p)' = w,
             req[r].at \notin {"get", "append"} \/ req[r].page = p,
             \A x \in Pages \ {p} : body'[x] = body[x] /\ status'[x] = status[x],
             UNCHANGED <<pages, history, load>>
      PROVE  TextInv'
  <2>1. Touches(req'[r], p) /\ req'[r].version = Text(p)'
    BY <1>7, ToAppendTouches
  <2>2. \A x \in Pages \ {p} : ~Touches(req[r], x) /\ body'[x] = body[x]
                              /\ status'[x] = status[x] /\ history'[x] = history[x]
    BY <1>7 DEF Touches
  <2>. QED
    BY <1>7, <2>1, <2>2, TextsGoOn
<1>8. ASSUME NEW p \in Pages, NEW v \in load.texts, EditPage(r, p, v)
      PROVE  TextInv'
  <2>1. v.status \in Statuses /\ v.body \in Bodies
    BY TextsAreVersions
  <2>2. /\ req'[r] = ToAppend(p, [body |-> body'[p], status |-> v.status])
        /\ req[r].at = "idle" /\ status' = [status EXCEPT ![p] = v.status]
        /\ body' \in {body, [body EXCEPT ![p] = v.body]}
        /\ UNCHANGED <<pages, history, load>>
    BY <1>2, <1>8 DEF EditPage, Called, Idle
  <2>3. Text(p)' = [body |-> body'[p], status |-> v.status]
    BY <1>1, <2>2 DEF Text
  <2>4. \A x \in Pages \ {p} : body'[x] = body[x] /\ status'[x] = status[x]
    BY <1>1, <2>2
  <2>5. PICK w : w = [body |-> body'[p], status |-> v.status]
    OBVIOUS
  <2>. QED
    BY <1>7, <2>2, <2>3, <2>4, <2>5
<1>9. CASE RestoreVersion(r)
  <2>1. PICK q : q = req[r]
    OBVIOUS
  <2>2. PICK p \in Pages : p = q.page
    BY <1>9, <2>1, OfRequest DEF RestoreVersion, VersionReq
  <2>3. PICK w \in Version : w = q.version
    BY <1>9, <2>1, OfRequest DEF RestoreVersion, VersionReq
  <2>4. /\ req'[r] = ToAppend(p, w) /\ req[r].at = "restore"
        /\ status' = [status EXCEPT ![p] = w.status] /\ body' = [body EXCEPT ![p] = w.body]
        /\ UNCHANGED <<pages, history, load>>
    BY <1>2, <1>9, <2>1, <2>2, <2>3 DEF RestoreVersion
  <2>5. Text(p)' = w
    BY <1>1, <2>4 DEF Text, Version
  <2>6. \A x \in Pages \ {p} : body'[x] = body[x] /\ status'[x] = status[x]
    BY <1>1, <2>4
  <2>. QED
    BY <1>7, <2>4, <2>5, <2>6
<1>10. CASE ReadBack(r)
  <2>1. PICK p \in Pages : p = req[r].page
    BY <1>10, OfRequest DEF ReadBack, GetReq
  <2>2. PICK w : w = [body |-> body[p], status |-> status[p]]
    OBVIOUS
  <2>3. req'[r] = ToAppend(p, w) /\ UNCHANGED <<pages, status, body, history, load>>
    BY <1>2, <1>10, <2>1, <2>2 DEF ReadBack, vars, pageVars
  <2>4. Text(p)' = w
    BY <2>2, <2>3 DEF Text
  <2>. QED
    BY <1>7, <2>1, <2>3, <2>4
<1>11. CASE WriteSnapshot(r)
  <2>1. PICK q : q = req[r]
    OBVIOUS
  <2>2. PICK p : p = q.page
    OBVIOUS
  <2>3. /\ p \in pages /\ req[r].at = "snapshot" /\ req'[r] = [at |-> "get", page |-> p]
        /\ body' = [body EXCEPT ![p] = q.body] /\ UNCHANGED <<pages, status, history, load>>
    BY <1>2, <1>11, <2>1, <2>2 DEF WriteSnapshot, ApplyCollabSnapshot
  <2>4. Touches(req'[r], p) /\ req'[r].at = "get"
    BY <2>3 DEF Touches
  <2>5. \A x \in Pages \ {p} : ~Touches(req[r], x) /\ body'[x] = body[x]
                              /\ status'[x] = status[x] /\ history'[x] = history[x]
    BY <1>1, <2>3 DEF Touches
  <2>. QED
    BY <2>3, <2>4, <2>5, TextsGoOn
<1>. QED
  BY <1>3, <1>4, <1>5, <1>6, <1>8, <1>9, <1>10, <1>11, AppendTexts DEF RequestStep

\* As long as no request fails half-way, the text of a page that nobody is at
\* work on is one of its versions, when no more requests run at once than a page
\* keeps versions.
THEOREM TextIsAVersionAlways ==
  ASSUME RequestsFitVersions
  PROVE  CollabSpec => []TextIsAVersion
<1>1. CollabInit => TextInv
  BY InitTexts
<1>2. WikiInv /\ TextInv /\ [CollabNext]_collabVars => TextInv'
  <2>1. SUFFICES ASSUME WikiInv, TextInv, [CollabNext]_collabVars PROVE TextInv'
    OBVIOUS
  <2>2. CASE UNCHANGED pgVars
    BY <2>1, <2>2 DEF pgVars, vars, pageVars, TextInv, Owed, Kept, Late, Touches, Text
  <2>3. ASSUME NEW r \in Requests, RequestStep(r) \/ RestoreVersion(r) PROVE TextInv'
    BY <2>1, <2>3, RequestStepTexts DEF WikiInv
  <2>4. ASSUME NEW r \in Requests, Store(r) PROVE TextInv'
    <3>1. /\ req[r].at \notin {"get", "append"} /\ req'[r].at \notin {"get", "append"}
          /\ UNCHANGED <<pages, body, status, history, load>>
      BY <2>1, <2>4 DEF Store, Goto, Idle, WikiInv, PgInv, RequestsOK, vars, pageVars
    <3>. QED
      BY <2>1, <2>4, <3>1, TextsStay DEF WikiInv
  <2>. QED
    BY <2>1, <2>2, <2>3, <2>4, Steps
<1>3. TextInv => TextIsAVersion
  <2>1. SUFFICES ASSUME TextInv, ~load.faults, NEW p \in pages
                 PROVE  \/ \E r \in Requests : req[r] # Idle /\ req[r].page = p
                        \/ Text(p) \in ToSet(history[p])
    BY DEF TextIsAVersion, Text
  <2>2. CASE Owed(p)
    BY <2>2 DEF Owed, Touches, Idle
  <2>3. CASE Kept(p)
    BY <2>3 DEF Kept, ToSet
  <2>. QED
    BY <2>1, <2>2, <2>3 DEF TextInv
<1>. QED
  BY <1>1, <1>2, <1>3, WikiInvAlways, PTL DEF CollabSpec
=============================================================================
