---------------------------- MODULE CollabProofs ----------------------------
(***************************************************************************)
(* The room of the collaboration server with the store that it writes to,  *)
(* for any number of pages, documents, requests and editors.               *)
(*                                                                         *)
(* The argument: the server inserts the text of the page into a document   *)
(* once before a restart and once after it, and never while it has one.    *)
(* So whatever the copies of the document are, each insertion in them was  *)
(* typed, or is of the first or of the second seed (DocsOK); and a text,   *)
(* wherever it is kept or held, has no more of each passage than those     *)
(* (Good), before the restart, after it, and until the next seed.          *)
(*                                                                         *)
(* Then what is owed to the page: without a restart, a snapshot on its way *)
(* has all that the page has, and what neither has the server owes.        *)
(***************************************************************************)
EXTENDS WikiProofs

\* Insertions, and NoDoc is not a set of some.
Insertion == [by : Passages, seed : Nat, copy : {1}]

NoDocIsNoDocument == NoDoc \notin SUBSET Insertion

\* The server has no document: the next one to connect makes it seed one.
Unseeded == ~room.loaded /\ ydoc = NoDoc

Typed == {TypedBy(c) : c \in load.editors}

Seed(k, T) == {[by |-> t, seed |-> k, copy |-> 1] : t \in T}

\* What insertions there can be, when the seeds before and after the restart
\* are k and l.  The first seed has nothing that the room's editors type.
Known(k, l) ==
  Typed \cup (IF restarts = 0 /\ Unseeded THEN {} ELSE Seed(k, Passages \ load.editors))
        \cup (IF restarts = 0 \/ Unseeded THEN {} ELSE Seed(l, Passages))

DocsOK(k, l) ==
  /\ room.doc \subseteq Known(k, l)
  /\ ydoc = NoDoc \/ ydoc \subseteq Known(k, l)
  /\ \A c \in Editors : ed[c].doc \subseteq Known(k, l)

\* What the page began with is in the documents, unless a seed can fail.
HasFirst(doc) == "no seed" \notin load.events => \E i \in doc : i.by = First

SeedsOK ==
  /\ \E k, l \in Nat : DocsOK(k, l)
  /\ room.loaded => HasFirst(room.doc)
  /\ ydoc # NoDoc => HasFirst(ydoc)

\* When nobody is connected and no store is owed, the map has the document.
TabsOK ==
  /\ \A c \in Editors : ed[c].open => c \in load.editors
  /\ \A c \in Editors : ed[c].link => ed[c].open /\ room.loaded
  /\ room.dirty => room.loaded
  /\ room.loaded /\ ~room.dirty /\ Linked = {} => ydoc = room.doc
  /\ typed \subseteq Editors /\ restarts \in 0..1 /\ restored \in BOOLEAN

\* How often a passage is in a text.
Limit(t) ==
  IF restarts = 0 /\ Unseeded THEN IF t \in load.editors THEN 0 ELSE 1
  ELSE IF restarts = 0 \/ Unseeded THEN 1 ELSE 2

Good ==
  {x \in Bodies : /\ \A t \in Passages : x[t] <= Limit(t)
                  /\ "no seed" \notin load.events => x[First] >= 1}

HoldsIn(q, G) ==
  /\ q.at = "snapshot" => q.body \in G
  /\ q.at \in {"restore", "append"} => q.version.body \in G

\* Every text that is kept or held is in G.
TextsIn(G) ==
  /\ \A p \in Pages : body[p] \in G
  /\ \A p \in Pages : \A i \in 1..Len(history[p]) : history[p][i].body \in G
  /\ \A d \in Docs : docBody[d] \in G
  /\ \A r \in Requests : HoldsIn(req[r], G)

CollabInv == WikiInv /\ TabsOK /\ SeedsOK /\ TextsIn(Good)

-----------------------------------------------------------------------------
(* Texts.                                                                  *)

\* A version of a history that gets one is that one or was there.
LEMMA WithVersionFrom ==
  ASSUME NEW s \in Seq(Version), NEW v \in Version, Len(s) <= MaxPageVersions
  PROVE  LET t == WithVersion(s, v) IN
         \A j \in 1..Len(t) : t[j] = v \/ \E i \in 1..Len(s) : t[j] = s[i]
<1>. DEFINE a == Append(s, v)
<1>1. /\ a \in Seq(Version) /\ Len(s) \in Nat /\ Len(a) = Len(s) + 1 /\ a[Len(s) + 1] = v
      /\ \A i \in 1..Len(s) : a[i] = s[i]
  BY AppendProperties, LenProperties
<1>2. MaxPageVersions \in Nat \ {0}
  BY WikiAssumption DEF WikiAssumption
<1>. HIDE DEF a
<1>3. CASE s # <<>> /\ s[Len(s)] = v
  BY <1>3 DEF WithVersion
<1>4. CASE ~(s # <<>> /\ s[Len(s)] = v) /\ Len(a) <= MaxPageVersions
  <2>1. WithVersion(s, v) = a
    BY <1>4 DEF WithVersion, LastOf, a
  <2>. QED
    BY <1>1, <2>1
<1>5. CASE ~(s # <<>> /\ s[Len(s)] = v) /\ ~(Len(a) <= MaxPageVersions)
  <2>1. Len(s) = MaxPageVersions /\ Len(a) = MaxPageVersions + 1
    BY <1>1, <1>2, <1>5
  <2>2. PICK t : t = SubSeq(a, 2, Len(a))
    OBVIOUS
  <2>3. WithVersion(s, v) = t
    BY <1>2, <1>5, <2>1, <2>2 DEF WithVersion, LastOf, a
  <2>4. Len(t) = MaxPageVersions /\ \A j \in 1..MaxPageVersions : t[j] = a[j + 1]
    BY <1>1, <1>2, <2>1, <2>2, SubSeqProperties
  <2>5. ASSUME NEW j \in 1..Len(t) PROVE t[j] = v \/ \E i \in 1..Len(s) : t[j] = s[i]
    <3>1. t[j] = a[j + 1] /\ j + 1 \in 1..Len(a)
      BY <1>2, <2>1, <2>4
    <3>2. j + 1 = Len(s) + 1 \/ j + 1 \in 1..Len(s)
      BY <1>1, <1>2, <2>1, <2>4
    <3>. QED
      BY <1>1, <3>1, <3>2
  <2>. QED
    BY <2>3, <2>5
<1>. QED
  BY <1>3, <1>4, <1>5

\* One request goes on; the texts it keeps and holds then are in G.
LEMMA TextsKept ==
  ASSUME PgInv, NEW G, TextsIn(G), NEW r \in Requests,
         RequestStep(r) \/ RestoreVersion(r) \/ Store(r),
         HoldsIn(req'[r], G),
         \A p \in Pages : body'[p] \in G,
         \A p \in Pages : \A i \in 1..Len(history'[p]) : history'[p][i].body \in G,
         \A d \in Docs : docBody'[d] \in G
  PROVE  TextsIn(G)'
<1>1. ASSUME NEW s \in Requests, s # r PROVE HoldsIn(req'[s], G)
  <2>1. PICK x : x = req[s]
    OBVIOUS
  <2>2. HoldsIn(x, G)
    BY <2>1 DEF TextsIn
  <2>3. CASE req'[s] = x
    BY <2>2, <2>3
  <2>4. CASE x.at \in {"walk", "write", "archive", "unarchive"}
             /\ req'[s] = [x EXCEPT !.stale = TRUE]
    <3>1. x \in WalkReq \/ x \in TreeReq
      BY <2>1, <2>4, OfRequest
    <3>2. [x EXCEPT !.stale = TRUE].at = x.at
      BY <3>1 DEF WalkReq, TreeReq
    <3>. QED
      BY <2>4, <3>2 DEF HoldsIn
  <2>. QED
    BY <1>1, <2>1, <2>3, <2>4, OthersStay
<1>. QED
  BY <1>1 DEF TextsIn

\* The texts of the store stay.
LEMMA TextsSame ==
  ASSUME PgInv, NEW G, TextsIn(G), NEW r \in Requests,
         RequestStep(r) \/ RestoreVersion(r) \/ Store(r),
         HoldsIn(req'[r], G), UNCHANGED <<body, history, docBody>>
  PROVE  TextsIn(G)'
BY TextsKept DEF TextsIn

\* The request r goes on, to what holds no text.
LEMMA HoldsNothing ==
  ASSUME NEW q, NEW G, q.at \notin {"snapshot", "restore", "append"}
  PROVE  HoldsIn(q, G)
BY DEF HoldsIn

LEMMA HoldsVersion ==
  ASSUME NEW p, NEW v, NEW G, v.body \in G
  PROVE  HoldsIn(ToAppend(p, v), G)
<1>1. PICK q : q = ToAppend(p, v)
  OBVIOUS
<1>2. q.at = "append" /\ q.version = v
  BY <1>1 DEF ToAppend
<1>. QED
  BY <1>1, <1>2 DEF HoldsIn

LEMMA GoesTo ==
  ASSUME PgInv, NEW r \in Requests, NEW q, Goto(r, q)
  PROVE  req'[r] = q
BY DEF PgInv, RequestsOK, Goto

\* The request goes on without a text, and the store keeps the ones it has.
LEMMA TextsQuiet ==
  ASSUME PgInv, NEW G, TextsIn(G), NEW r \in Requests, RequestStep(r) \/ RestoreVersion(r),
         NEW q, Goto(r, q), q.at \notin {"snapshot", "restore", "append"},
         UNCHANGED <<body, history, docBody>>
  PROVE  TextsIn(G)'
BY GoesTo, HoldsNothing, TextsSame

\* One page gets a body.
LEMMA TextsOfPage ==
  ASSUME PgInv, NEW G, TextsIn(G), NEW r \in Requests, RequestStep(r) \/ RestoreVersion(r),
         NEW p \in Pages, NEW b \in G, body' \in {body, [body EXCEPT ![p] = b]},
         HoldsIn(req'[r], G), UNCHANGED <<history, docBody>>
  PROVE  TextsIn(G)'
<1>1. \A x \in Pages : body'[x] \in G
  BY DEF TextsIn, PgInv, RowsOK, TypeOK
<1>. QED
  BY <1>1, TextsKept DEF TextsIn

LEMMA TextsOfDocument ==
  ASSUME PgInv, NEW G, TextsIn(G), NEW r \in Requests, RequestStep(r),
         NEW d \in Docs, NEW b \in G, docBody' \in {docBody, [docBody EXCEPT ![d] = b]},
         HoldsIn(req'[r], G), UNCHANGED <<history, body>>
  PROVE  TextsIn(G)'
<1>1. \A x \in Docs : docBody'[x] \in G
  BY DEF TextsIn, PgInv, RowsOK, TypeOK
<1>. QED
  BY <1>1, TextsKept DEF TextsIn

\* A move writes back the body it has read, which the row still has.
LEMMA WritePageTexts ==
  ASSUME PgInv, NEW G, TextsIn(G), NEW r \in Requests, RequestStep(r), WritePage(r)
  PROVE  TextsIn(G)'
<1>1. PICK q : q = req[r]
  OBVIOUS
<1>2. /\ q.at = "write" /\ q \in WalkReq /\ q.body = body[q.page]
  BY <1>1, OfRequest DEF WritePage, Fits
<1>3. q.page \in Pages /\ body[q.page] \in G
  BY <1>2 DEF WalkReq, TextsIn
<1>4. /\ body' = [body EXCEPT ![q.page] = q.body] /\ UNCHANGED <<history, docBody>>
      /\ Overtake(r, Idle, {"walk", "write", "archive", "unarchive"})
  BY <1>1 DEF WritePage, docVars
<1>5. req'[r] = Idle
  BY <1>4 DEF Overtake
<1>6. HoldsIn(req'[r], G)
  <2>1. Idle.at = "idle"
    BY DEF Idle
  <2>. QED
    BY <1>5, <2>1, HoldsNothing
<1>. QED
  BY <1>2, <1>3, <1>4, <1>6, TextsOfPage

\* The history of a page gets the version that the request holds.
LEMMA AppendVersionTexts ==
  ASSUME PgInv, NEW G, TextsIn(G), NEW r \in Requests, RequestStep(r), AppendVersion(r)
  PROVE  TextsIn(G)'
<1>1. PICK q : q = req[r]
  OBVIOUS
<1>2. PICK v : v = q.version
  OBVIOUS
<1>3. q.at = "append" /\ q \in VersionReq /\ v \in Version /\ q.page \in Pages /\ v.body \in G
  BY <1>1, <1>2, OfRequest DEF AppendVersion, VersionReq, TextsIn, HoldsIn
<1>4. PICK s : s = history[q.page]
  OBVIOUS
<1>5. s \in Seq(Version) /\ Len(s) <= MaxPageVersions
  BY <1>3, <1>4 DEF PgInv, RowsOK, TypeOK
<1>6. PICK t : t = WithVersion(s, v)
  OBVIOUS
<1>7. \A j \in 1..Len(t) : t[j] = v \/ \E i \in 1..Len(s) : t[j] = s[i]
  BY <1>3, <1>5, <1>6, WithVersionFrom
<1>8. /\ history' = [history EXCEPT ![q.page] = t] /\ UNCHANGED <<body, docBody>>
      /\ Goto(r, Idle)
  BY <1>1, <1>2, <1>4, <1>6 DEF AppendVersion, AppendPageVersionIfChanged, docVars
<1>9. \A p \in Pages : \A i \in 1..Len(history'[p]) : history'[p][i].body \in G
  <2>1. \A i \in 1..Len(s) : s[i].body \in G
    BY <1>3, <1>4 DEF TextsIn
  <2>2. \A j \in 1..Len(t) : t[j].body \in G
    BY <1>3, <1>7, <2>1
  <2>3. ASSUME NEW p \in Pages, p # q.page PROVE history'[p] = history[p]
    BY <1>8, <2>3 DEF PgInv, RowsOK, TypeOK
  <2>4. history'[q.page] = t
    BY <1>3, <1>8 DEF PgInv, RowsOK, TypeOK
  <2>. QED
    BY <2>2, <2>3, <2>4 DEF TextsIn
<1>10. HoldsIn(req'[r], G)
  <2>1. req'[r] = Idle /\ Idle.at = "idle"
    BY <1>8, GoesTo DEF Idle
  <2>. QED
    BY <2>1, HoldsNothing
<1>. QED
  BY <1>8, <1>9, <1>10, TextsKept DEF TextsIn

\* Nothing the API does brings in a text, except those that clients write.
LEMMA ApiTexts ==
  ASSUME PgInv, NEW G, TextsIn(G), \A v \in load.texts : v.body \in G,
         NEW r \in Requests, RequestStep(r) \/ RestoreVersion(r)
  PROVE  TextsIn(G)'
<1>0. Idle.at = "idle"
  BY DEF Idle
<1>1. ASSUME NEW p \in Pages, NEW q \in Pages \cup {Root}, NEW v \in load.texts,
             InsertPage(r, p, q, v)
      PROVE  TextsIn(G)'
  <2>1. body' = [body EXCEPT ![p] = v.body] /\ UNCHANGED <<history, docBody>>
        /\ req'[r] = ToAppend(p, v)
    BY <1>1 DEF InsertPage, CreatePage, docVars, Overtake
  <2>2. HoldsIn(req'[r], G)
    BY <2>1, HoldsVersion
  <2>. QED
    BY <2>1, <2>2, <1>1, TextsOfPage DEF RequestStep
<1>2. ASSUME NEW p \in Pages, NEW v \in load.texts, EditPage(r, p, v)
      PROVE  TextsIn(G)'
  <2>1. /\ body' \in {body, [body EXCEPT ![p] = v.body]} /\ UNCHANGED <<history, docBody>>
        /\ Goto(r, ToAppend(p, [body |-> body'[p], status |-> v.status]))
    BY <1>2 DEF EditPage, docVars
  <2>2. body'[p] \in G
    BY <2>1 DEF TextsIn, PgInv, RowsOK, TypeOK
  <2>3. PICK w : w = [body |-> body'[p], status |-> v.status]
    OBVIOUS
  <2>4. w.body \in G
    BY <2>2, <2>3
  <2>5. req'[r] = ToAppend(p, w)
    BY <2>1, <2>3, GoesTo
  <2>6. HoldsIn(req'[r], G)
    BY <2>4, <2>5, HoldsVersion
  <2>. QED
    BY <2>1, <2>6, <1>2, TextsOfPage DEF RequestStep
<1>3. CASE Abort(r)
  <2>1. Goto(r, Idle) /\ UNCHANGED <<body, history, docBody>>
    BY <1>3 DEF Abort, vars, pageVars, docVars
  <2>. QED
    BY <1>0, <2>1, TextsQuiet
<1>4. ASSUME NEW p \in Pages, NEW q \in Pages \cup {Root}, LockPage(r, p, q)
      PROVE  TextsIn(G)'
  <2>1. PICK x : x = [at    |-> IF q = Root THEN "write" ELSE "walk",
                      page  |-> p, to |-> q, status |-> status[p], body |-> body[p],
                      cur   |-> IF q = Root THEN Root ELSE parent[q],
                      seen  |-> {q} \cap Pages, stale |-> FALSE]
    OBVIOUS
  <2>2. Goto(r, x) /\ x.at \in {"write", "walk"} /\ UNCHANGED <<body, history, docBody>>
    BY <1>4, <2>1 DEF LockPage, vars, pageVars, docVars
  <2>. QED
    BY <2>2, TextsQuiet
<1>5. CASE ReadAncestor(r)
  <2>1. PICK q : q = req[r]
    OBVIOUS
  <2>2. q.at = "walk" /\ q \in WalkReq /\ UNCHANGED <<body, history, docBody>>
    BY <1>5, <2>1, OfRequest DEF ReadAncestor, vars, pageVars, docVars
  <2>3. PICK x : Goto(r, x) /\ x \in {Idle, [q EXCEPT !.at = "write"],
                  [q EXCEPT !.cur = parent[q.cur], !.seen = @ \cup {q.cur}]}
    <3>1. CASE q.cur = Root
      <4>1. Goto(r, [q EXCEPT !.at = "write"])
        <5>1. q.cur \notin q.seen \cup {q.page}
          BY <2>2, <3>1, PageTreeAssumption DEF WalkReq, PageTreeAssumption
        <5>. QED
          BY <1>5, <2>1, <3>1, <5>1 DEF ReadAncestor
      <4>. QED
        BY <4>1
    <3>2. CASE q.cur # Root /\ q.cur \in q.seen \cup {q.page}
      <4>1. Goto(r, Idle)
        BY <1>5, <2>1, <3>2 DEF ReadAncestor
      <4>. QED
        BY <4>1
    <3>3. CASE q.cur # Root /\ q.cur \notin q.seen \cup {q.page}
      <4>1. Goto(r, [q EXCEPT !.cur = parent[q.cur], !.seen = @ \cup {q.cur}])
        BY <1>5, <2>1, <3>3 DEF ReadAncestor
      <4>. QED
        BY <4>1
    <3>. QED
      BY <3>1, <3>2, <3>3
  <2>4. PICK y : y = [q EXCEPT !.at = "write"]
    OBVIOUS
  <2>5. PICK w : w = [q EXCEPT !.cur = parent[q.cur], !.seen = q.seen \cup {q.cur}]
    OBVIOUS
  <2>6. y.at = "write" /\ w.at = "walk"
    BY <2>2, <2>4, <2>5 DEF WalkReq
  <2>7. x.at \in {"idle", "write", "walk"}
    BY <1>0, <2>3, <2>4, <2>5, <2>6
  <2>. QED
    BY <2>2, <2>3, <2>7, TextsQuiet
<1>6. ASSUME NEW p \in Pages, NEW op \in {"archive", "unarchive"}, ReadTree(r, p, op)
      PROVE  TextsIn(G)'
  <2>1. PICK x : x = [at |-> op, page |-> p, tree |-> Below(parent, p), stale |-> FALSE]
    OBVIOUS
  <2>2. Goto(r, x) /\ x.at = op /\ UNCHANGED <<body, history, docBody>>
    BY <1>6, <2>1 DEF ReadTree, vars, pageVars, docVars
  <2>. QED
    BY <2>2, TextsQuiet
<1>7. CASE WriteTree(r)
  <2>1. Goto(r, Idle) /\ UNCHANGED <<body, history, docBody>>
    BY <1>7 DEF WriteTree, docVars
  <2>. QED
    BY <1>0, <2>1, TextsQuiet
<1>8. ASSUME NEW p \in Pages, NEW i \in 1..MaxPageVersions, ReadVersion(r, p, i)
      PROVE  TextsIn(G)'
  <2>1. PICK x : x = [at |-> "restore", page |-> p, version |-> history[p][i]]
    OBVIOUS
  <2>2. /\ Goto(r, x) /\ x.at = "restore" /\ x.version = history[p][i]
        /\ i \in DOMAIN history[p] /\ UNCHANGED <<body, history, docBody>>
    BY <1>8, <2>1 DEF ReadVersion, vars, pageVars, docVars
  <2>3. i \in 1..Len(history[p])
    BY <2>2, LenProperties DEF PgInv, RowsOK, TypeOK
  <2>4. HoldsIn(req'[r], G)
    BY <2>2, <2>3, GoesTo DEF HoldsIn, TextsIn
  <2>. QED
    BY <2>2, <2>4, TextsSame
<1>9. ASSUME NEW p \in Pages \cup Docs, NEW v \in load.texts, SendSnapshot(r, p, v.body)
      PROVE  TextsIn(G)'
  <2>1. PICK x : x = [at |-> "snapshot", page |-> p, body |-> v.body]
    OBVIOUS
  <2>2. Goto(r, x) /\ x.at = "snapshot" /\ x.body \in G /\ UNCHANGED <<body, history, docBody>>
    BY <1>9, <2>1 DEF SendSnapshot, vars, pageVars, docVars
  <2>3. HoldsIn(req'[r], G)
    BY <2>2, GoesTo DEF HoldsIn
  <2>. QED
    BY <2>2, <2>3, TextsSame
<1>10. CASE WriteSnapshot(r) \/ WriteDocumentSnapshot(r)
  <2>1. PICK q : q = req[r]
    OBVIOUS
  <2>2. q.at = "snapshot" /\ q.body \in G
    BY <1>10, <2>1 DEF WriteSnapshot, WriteDocumentSnapshot, TextsIn, HoldsIn
  <2>3. CASE WriteSnapshot(r)
    <3>1. PICK x : x = [at |-> "get", page |-> q.page]
      OBVIOUS
    <3>2. /\ q.page \in Pages /\ body' = [body EXCEPT ![q.page] = q.body]
          /\ UNCHANGED <<history, docBody>> /\ Goto(r, x) /\ x.at = "get"
      BY <2>1, <2>3, <3>1 DEF WriteSnapshot, ApplyCollabSnapshot, docVars, PgInv, RowsOK, TypeOK
    <3>3. HoldsIn(req'[r], G)
      BY <3>2, GoesTo, HoldsNothing
    <3>. QED
      BY <2>2, <3>2, <3>3, TextsOfPage
  <2>4. CASE WriteDocumentSnapshot(r)
    <3>1. /\ q.page \in Docs /\ docBody' = [docBody EXCEPT ![q.page] = q.body]
          /\ UNCHANGED <<history, body>> /\ Goto(r, Idle)
      BY <2>1, <2>4 DEF WriteDocumentSnapshot, ApplyDocumentSnapshot, pageVars,
                        PgInv, RowsOK, TypeOK
    <3>2. HoldsIn(req'[r], G)
      BY <1>0, <3>1, GoesTo, HoldsNothing
    <3>. QED
      BY <2>2, <2>4, <3>1, <3>2, TextsOfDocument DEF RequestStep
  <2>. QED
    BY <1>10, <2>3, <2>4
<1>11. CASE ReadBack(r)
  <2>1. PICK q : q = req[r]
    OBVIOUS
  <2>2. q.at = "get" /\ q.page \in Pages
    BY <1>11, <2>1, OfRequest DEF ReadBack, GetReq
  <2>3. PICK w : w = [body |-> body[q.page], status |-> status[q.page]]
    OBVIOUS
  <2>4. w.body \in G
    BY <2>2, <2>3 DEF TextsIn
  <2>5. Goto(r, ToAppend(q.page, w)) /\ UNCHANGED <<body, history, docBody>>
    BY <1>11, <2>1, <2>3 DEF ReadBack, vars, pageVars, docVars
  <2>6. HoldsIn(req'[r], G)
    BY <2>4, <2>5, GoesTo, HoldsVersion
  <2>. QED
    BY <2>5, <2>6, TextsSame
<1>12. CASE RestoreVersion(r)
  <2>1. PICK q : q = req[r]
    OBVIOUS
  <2>2. q.at = "restore" /\ q.page \in Pages /\ q.version.body \in G
    BY <1>12, <2>1, OfRequest DEF RestoreVersion, VersionReq, TextsIn, HoldsIn
  <2>3. /\ body' = [body EXCEPT ![q.page] = q.version.body] /\ UNCHANGED <<history, docBody>>
        /\ Goto(r, ToAppend(q.page, q.version))
    BY <1>12, <2>1 DEF RestoreVersion, docVars
  <2>4. HoldsIn(req'[r], G)
    BY <2>2, <2>3, GoesTo, HoldsVersion
  <2>. QED
    BY <2>2, <2>3, <2>4, TextsOfPage
<1>13. ASSUME NEW d \in Docs,
              \/ \E t \in Titles, v \in load.texts : NewDocument(r, d, t, v.body)
              \/ \E t \in Titles : RenameDocument(r, d, t)
              \/ DeleteDocument(r, d) \/ UndeleteDocument(r, d)
       PROVE  TextsIn(G)'
  <2>1. /\ UNCHANGED <<body, history, req>>
        /\ docBody' = docBody \/ \E v \in load.texts : docBody' = [docBody EXCEPT ![d] = v.body]
    BY <1>13 DEF NewDocument, RenameDocument, DeleteDocument, UndeleteDocument, CreateDocument,
                 UpdateDocumentTitle, TrashDocument, RestoreDocument, pageVars
  <2>2. HoldsIn(req'[r], G)
    BY <2>1 DEF TextsIn
  <2>3. \A x \in Docs : docBody'[x] \in G
    BY <2>1 DEF TextsIn, PgInv, RowsOK, TypeOK
  <2>4. RequestStep(r)
    BY <1>13 DEF RequestStep
  <2>. QED
    BY <2>1, <2>2, <2>3, <2>4, TextsKept DEF TextsIn
<1>. QED
  BY <1>1, <1>2, <1>3, <1>4, <1>5, <1>6, <1>7, <1>8, <1>9, <1>10, <1>11, <1>12, <1>13,
     WritePageTexts, AppendVersionTexts DEF RequestStep

-----------------------------------------------------------------------------
(* Documents.                                                              *)

\* The workload says who edits what.
LEMMA RoomWork ==
  ASSUME PgInv
  PROVE  /\ load.editors \subseteq Editors /\ First \notin load.editors
         /\ load.room \in Pages \cup Docs
         /\ \A v \in load.texts :
              /\ v.body \in Bodies /\ v.body[First] = 1
              /\ \A t \in Passages : v.body[t] <= IF t \in load.editors THEN 0 ELSE 1
BY TextsAreVersions, CollabAssumption DEF CollabAssumption, RoomWorkload, PgInv, RowsOK

LEMMA BodyCounts ==
  ASSUME NEW x \in Bodies, NEW t \in Passages
  PROVE  x[t] \in Nat
BY CollabAssumption DEF CollabAssumption

LEMMA FirstPassage == First \in Passages
BY DEF Passages

\* The server seeds a document, or starts again: there can be more of everything.
LEMMA Grows ==
  ASSUME load' = load, restarts \in 0..1,
         \/ restarts' = restarts /\ (Unseeded' => Unseeded)
         \/ restarts = 0 /\ restarts' = 1
  PROVE  Good \subseteq Good' /\ \A k, l \in Nat : Known(k, l) \subseteq Known(k, l)'
<1>1. \A k, l \in Nat : Known(k, l) \subseteq Known(k, l)'
  BY DEF Known, Typed
<1>2. ASSUME NEW x \in Good PROVE x \in Good'
  <2>1. x \in Bodies
    BY DEF Good
  <2>2. ASSUME NEW t \in Passages PROVE x[t] <= Limit(t)'
    <3>1. x[t] \in Nat /\ x[t] <= Limit(t)
      BY <2>1, BodyCounts DEF Good
    <3>2. Limit(t) \in Nat /\ Limit(t)' \in Nat /\ Limit(t) <= Limit(t)'
      BY DEF Limit
    <3>. QED
      BY <3>1, <3>2
  <2>. QED
    BY <2>1, <2>2 DEF Good
<1>. QED
  BY <1>1, <1>2

\* What clients write is good at any time.
LEMMA ClientsWriteGood ==
  ASSUME PgInv, restarts \in 0..1, NEW v \in load.texts
  PROVE  v.body \in Good
<1>1. /\ v.body \in Bodies /\ v.body[First] = 1
      /\ \A t \in Passages : v.body[t] <= IF t \in load.editors THEN 0 ELSE 1
  BY RoomWork
<1>2. ASSUME NEW t \in Passages PROVE v.body[t] <= Limit(t)
  BY <1>1, BodyCounts DEF Limit
<1>3. v.body[First] >= 1
  BY <1>1
<1>. QED
  BY <1>1, <1>2, <1>3 DEF Good

\* The text of the room is one of those kept.
LEMMA RoomTextIsKept ==
  ASSUME PgInv, NEW G, TextsIn(G)
  PROVE  RoomText \in G
BY RoomWork DEF RoomText, TextsIn

\* How often a passage is in a document.
LEMMA Counts ==
  ASSUME PgInv, restarts \in 0..1, NEW k \in Nat, NEW l \in Nat,
         NEW doc, doc \subseteq Known(k, l), NEW t \in Passages
  PROVE  /\ TextOf(doc)[t] \in 0..2
         /\ restarts = 0 \/ Unseeded => TextOf(doc)[t] <= 1
         /\ (\E i \in doc : i.by = t) => TextOf(doc)[t] >= 1
<1>1. PICK S : S = {i \in doc : i.by = t}
  OBVIOUS
<1>2. TextOf(doc)[t] = Cardinality(S)
  BY <1>1 DEF TextOf
<1>3. PICK a : a = IF t \in load.editors THEN TypedBy(t) ELSE [by |-> t, seed |-> k, copy |-> 1]
  OBVIOUS
<1>4. PICK b : b = [by |-> t, seed |-> l, copy |-> 1]
  OBVIOUS
<1>5. S \subseteq {a, b} /\ (restarts = 0 \/ Unseeded => S \subseteq {a})
  BY <1>1, <1>3, <1>4 DEF Known, Typed, TypedBy, Seed
<1>6. IsFiniteSet({a}) /\ Cardinality({a}) = 1
  <2>1. IsFiniteSet({}) /\ Cardinality({}) = 0
    BY FS_EmptySet
  <2>2. a \notin {} /\ {} \cup {a} = {a}
    OBVIOUS
  <2>. QED
    BY <2>1, <2>2, FS_AddElement
<1>7. IsFiniteSet({a, b}) /\ Cardinality({a, b}) <= 2
  <2>1. CASE a = b
    BY <1>6, <2>1
  <2>2. CASE a # b
    <3>1. b \notin {a} /\ {a} \cup {b} = {a, b}
      BY <2>2
    <3>. QED
      BY <1>6, <3>1, FS_AddElement
  <2>. QED
    BY <2>1, <2>2
<1>8. /\ IsFiniteSet(S) /\ Cardinality(S) <= Cardinality({a, b})
      /\ S \subseteq {a} => Cardinality(S) <= 1
  BY <1>5, <1>6, <1>7, FS_Subset
<1>9. Cardinality(S) \in Nat /\ Cardinality({a, b}) \in Nat
  BY <1>7, <1>8, FS_CardinalityType
<1>10. S # {} => Cardinality(S) # 0
  BY <1>8, FS_EmptySet
<1>. QED
  BY <1>1, <1>2, <1>5, <1>7, <1>8, <1>9, <1>10

\* So the text of a document fits the bound.
LEMMA DocumentFits ==
  ASSUME PgInv, restarts \in 0..1, NEW k \in Nat, NEW l \in Nat,
         NEW doc, doc \subseteq Known(k, l)
  PROVE  TextOf(doc) \in Bodies
<1>1. \A t \in Passages : TextOf(doc)[t] \in 0..MaxCopies
  BY Counts, CollabAssumption DEF CollabAssumption
<1>2. TextOf(doc) = [t \in Passages |-> TextOf(doc)[t]]
  BY DEF TextOf
<1>. QED
  BY <1>1, <1>2, CollabAssumption DEF CollabAssumption

\* And what the server stores is good.
LEMMA StoredIsGood ==
  ASSUME PgInv, TabsOK, SeedsOK, room.loaded
  PROVE  TextOf(room.doc) \in Good
<1>1. PICK k \in Nat, l \in Nat : DocsOK(k, l)
  BY DEF SeedsOK
<1>2. PICK doc : doc = room.doc
  OBVIOUS
<1>3. doc \subseteq Known(k, l) /\ HasFirst(doc) /\ restarts \in 0..1 /\ ~Unseeded
  BY <1>1, <1>2 DEF DocsOK, SeedsOK, TabsOK, Unseeded
<1>4. TextOf(doc) \in Bodies
  BY <1>3, DocumentFits
<1>5. ASSUME NEW t \in Passages PROVE TextOf(doc)[t] <= Limit(t)
  BY <1>3, Counts DEF Limit
<1>6. "no seed" \notin load.events => TextOf(doc)[First] >= 1
  BY <1>3, Counts, FirstPassage DEF HasFirst
<1>. QED
  BY <1>2, <1>4, <1>5, <1>6 DEF Good

\* Where the server seeds, and after a restart where it seeds again.
SeedPassages == IF restarts = 0 THEN Passages \ load.editors ELSE Passages

\* The identities of a seed are new, each passage is inserted once at most, and
\* what the page began with is.
LEMMA SeedIsNew ==
  ASSUME PgInv, restarts \in 0..1, Unseeded, NEW k \in Nat, NEW l \in Nat, DocsOK(k, l),
         TextsIn(Good)
  PROVE  /\ \E n \in Nat : Seeded(RoomText) \subseteq Seed(n, SeedPassages)
         /\ HasFirst(Seeded(RoomText))
<1>1. PICK text : text = RoomText
  OBVIOUS
<1>2. text \in Good /\ text \in Bodies
  BY <1>1, RoomTextIsKept DEF Good
<1>. DEFINE known(n) == \E doc \in {ed[c].doc : c \in Editors} \cup ({ydoc} \ {NoDoc}) :
                          \E i \in doc : i.seed = n
<1>3. PICK fresh : fresh = CHOOSE n \in 1..(Cardinality(Editors) + 2) : ~known(n)
  OBVIOUS
<1>4. fresh \in Nat
  <2>1. Cardinality(Editors) \in Nat
    BY CollabAssumption, FS_CardinalityType DEF CollabAssumption
  <2>2. ASSUME NEW n \in Nat \ {0}, n # k PROVE ~known(n)
    <3>1. \A c \in Editors : \A i \in ed[c].doc : i \in Typed \cup Seed(k, Passages)
      BY DEF DocsOK, Known, Seed
    <3>2. \A i \in Typed \cup Seed(k, Passages) : i.seed = 0 \/ i.seed = k
      BY DEF Typed, TypedBy, Seed
    <3>. QED
      BY <2>2, <3>1, <3>2 DEF Unseeded
  <2>3. PICK n \in {1, 2} : n # k
    OBVIOUS
  <2>4. n \in 1..(Cardinality(Editors) + 2) /\ ~known(n)
    BY <2>1, <2>2, <2>3
  <2>. HIDE DEF known
  <2>5. fresh \in 1..(Cardinality(Editors) + 2)
    BY <1>3, <2>4
  <2>. QED
    BY <2>1, <2>5
<1>5. Seeded(text) =
        UNION {{[by |-> t, seed |-> fresh, copy |-> n] : n \in 1..text[t]} : t \in Passages}
  BY <1>3 DEF Seeded
<1>. HIDE DEF known
<1>6. ASSUME NEW t \in Passages, NEW n \in 1..text[t] PROVE n = 1 /\ t \in SeedPassages
  <2>1. text[t] \in Nat /\ text[t] <= Limit(t)
    BY <1>2, BodyCounts DEF Good
  <2>2. Limit(t) <= 1 /\ (t \notin SeedPassages => Limit(t) = 0) /\ Limit(t) \in Nat
    BY DEF Limit, SeedPassages
  <2>. QED
    BY <2>1, <2>2
<1>7. Seeded(text) \subseteq Seed(fresh, SeedPassages)
  BY <1>5, <1>6 DEF Seed
<1>8. HasFirst(Seeded(text))
  <2>1. SUFFICES ASSUME "no seed" \notin load.events
                 PROVE  \E i \in Seeded(text) : i.by = First
    BY DEF HasFirst
  <2>2. text[First] \in Nat /\ text[First] >= 1
    BY <1>2, <2>1, BodyCounts, FirstPassage DEF Good
  <2>3. 1 \in 1..text[First]
    BY <2>2
  <2>4. [by |-> First, seed |-> fresh, copy |-> 1] \in Seeded(text)
    BY <1>5, <2>3, FirstPassage
  <2>. QED
    BY <2>4
<1>. QED
  BY <1>1, <1>4, <1>7, <1>8

-----------------------------------------------------------------------------
(* The tabs.                                                               *)

\* All that matters of a step of the tab c.
TabStep(c) ==
  /\ UNCHANGED <<pgVars, ydoc, restarts, restored>> /\ typed' \subseteq Editors
  /\ \A d \in Editors \ {c} : ed'[d] = ed[d]
  /\ ed'[c].open => c \in load.editors
  /\ ed'[c].link => ed'[c].open /\ room'.loaded
  /\ ed'[c].doc \subseteq ed[c].doc \cup room.doc \cup Typed
  /\ room.loaded => /\ room'.loaded /\ room.doc \subseteq room'.doc
                    /\ room'.doc \subseteq room.doc \cup ed[c].doc
  /\ ~room.loaded => IF room'.loaded THEN room'.doc \in Loads ELSE room'.doc = room.doc
  /\ room'.dirty => room'.loaded
  /\ room'.loaded /\ ~room'.dirty /\ Linked' = {} => ydoc' = room'.doc

\* A tab goes: when it was the last one, the server owes a store.
LEMMA LeaveTab ==
  ASSUME RoomOK, TabsOK, NEW c \in Editors, NEW e, Leave(c, e), ~e.link,
         e.open => c \in load.editors, e.doc \subseteq ed[c].doc
  PROVE  TabStep(c)
<1>1. PICK z : z = room
  OBVIOUS
<1>2. PICK x : x = IF Linked = {c} THEN [z EXCEPT !.dirty = TRUE] ELSE z
  OBVIOUS
<1>3. x.loaded = z.loaded /\ x.doc = z.doc /\ (Linked = {c} => x.dirty) /\ (Linked # {c} => x = z)
  BY <1>1, <1>2, Shapes
<1>4. /\ ed' = [ed EXCEPT ![c] = e] /\ room' = x
      /\ UNCHANGED <<pgVars, ydoc, typed, restarts, restored>>
  BY <1>1, <1>2 DEF Leave
<1>5. ed'[c] = e /\ \A d \in Editors \ {c} : ed'[d] = ed[d]
  BY <1>4, Shapes
<1>6. Linked' = Linked \ {c}
  BY <1>5 DEF Linked
<1>7. Linked = {c} => z.loaded
  BY <1>1 DEF TabsOK, Linked
<1>8. x.dirty => x.loaded
  BY <1>1, <1>3, <1>7 DEF TabsOK
<1>9. x.loaded /\ ~x.dirty /\ Linked' = {} => ydoc' = x.doc
  BY <1>1, <1>3, <1>4, <1>6 DEF TabsOK
<1>. QED
  BY <1>1, <1>3, <1>4, <1>5, <1>8, <1>9 DEF TabStep, TabsOK

\* The tab has the document that the step leaves it, and the room stays.
LEMMA StayTab ==
  ASSUME RoomOK, TabsOK, NEW c \in Editors, NEW e, ed' = [ed EXCEPT ![c] = e],
         UNCHANGED <<pgVars, room, ydoc, restarts, restored>>, typed' \subseteq Editors,
         e.link = ed[c].link, e.open = ed[c].open,
         e.doc \subseteq ed[c].doc \cup room.doc \cup Typed
  PROVE  TabStep(c)
<1>1. ed'[c] = e /\ \A d \in Editors \ {c} : ed'[d] = ed[d]
  BY Shapes
<1>2. Linked' = Linked
  BY <1>1 DEF Linked
<1>. QED
  BY <1>1, <1>2 DEF TabStep, TabsOK

LEMMA ConnectTab ==
  ASSUME RoomOK, TabsOK, NEW c \in Editors, Connect(c)
  PROVE  TabStep(c)
<1>1. PICK a : a = ed[c]
  OBVIOUS
<1>2. PICK z : z = room
  OBVIOUS
<1>3. /\ a = [open |-> a.open, doc |-> a.doc, link |-> a.link, expired |-> a.expired,
              after |-> a.after]
      /\ z = [loaded |-> z.loaded, doc |-> z.doc, dirty |-> z.dirty]
  BY <1>1, <1>2, Shapes
<1>4. PICK e : e = [a EXCEPT !.link = TRUE]
  OBVIOUS
<1>5. e.link /\ e.open = a.open /\ e.doc = a.doc
  BY <1>3, <1>4
<1>6. PICK doc : /\ room' = [z EXCEPT !.loaded = TRUE, !.doc = doc]
                 /\ doc \in IF z.loaded THEN {z.doc} ELSE Loads
  BY <1>2 DEF Connect
<1>7. PICK w : w = [z EXCEPT !.loaded = TRUE]
  OBVIOUS
<1>8. w = [loaded |-> TRUE, doc |-> w.doc, dirty |-> z.dirty]
  BY <1>3, <1>7
<1>9. PICK x : x = [w EXCEPT !.doc = doc]
  OBVIOUS
<1>10. x.loaded /\ x.doc = doc /\ x.dirty = z.dirty /\ room' = x
  BY <1>6, <1>7, <1>8, <1>9
<1>11. /\ ed' = [ed EXCEPT ![c] = e] /\ a.open
       /\ UNCHANGED <<pgVars, ydoc, typed, restarts, restored>>
  BY <1>1, <1>4 DEF Connect, Authorized
<1>12. ed'[c] = e /\ \A d \in Editors \ {c} : ed'[d] = ed[d]
  BY <1>11, Shapes
<1>13. c \in Linked'
  BY <1>5, <1>12 DEF Linked
<1>14. e.open /\ c \in load.editors
  BY <1>1, <1>5, <1>11 DEF TabsOK
<1>15. e.doc \subseteq ed[c].doc
  BY <1>1, <1>5
<1>16. z.loaded => x.doc = z.doc
  BY <1>6, <1>10
<1>17. ~z.loaded => x.doc \in Loads
  BY <1>6, <1>10
<1>. QED
  BY <1>2, <1>10, <1>11, <1>12, <1>13, <1>14, <1>15, <1>16, <1>17 DEF TabStep, TabsOK

LEMMA SendUpTab ==
  ASSUME RoomOK, TabsOK, NEW c \in Editors, SendUp(c)
  PROVE  TabStep(c)
<1>1. PICK a : a = ed[c]
  OBVIOUS
<1>2. PICK z : z = room
  OBVIOUS
<1>3. z = [loaded |-> z.loaded, doc |-> z.doc, dirty |-> z.dirty]
  BY <1>2, Shapes
<1>4. PICK S : S = z.doc \cup a.doc
  OBVIOUS
<1>5. PICK w : w = [z EXCEPT !.doc = S]
  OBVIOUS
<1>6. w = [loaded |-> z.loaded, doc |-> S, dirty |-> z.dirty]
  BY <1>3, <1>5
<1>7. PICK x : x = [w EXCEPT !.dirty = TRUE]
  OBVIOUS
<1>8. x.loaded = z.loaded /\ x.doc = S /\ x.dirty
  BY <1>6, <1>7
<1>9. /\ room' = x /\ a.link
      /\ UNCHANGED <<pgVars, ydoc, ed, typed, restarts, restored>>
  BY <1>1, <1>2, <1>4, <1>5, <1>7 DEF SendUp
<1>10. z.loaded /\ a.open /\ c \in load.editors
  BY <1>1, <1>2, <1>9 DEF TabsOK
<1>. QED
  BY <1>1, <1>2, <1>4, <1>8, <1>9, <1>10 DEF TabStep, TabsOK

LEMMA EditorIsTab ==
  ASSUME PgInv, RoomOK, TabsOK, NEW c \in Editors, EditorStep(c)
  PROVE  TabStep(c)
<1>1. PICK a : a = ed[c]
  OBVIOUS
<1>2. a = [open |-> a.open, doc |-> a.doc, link |-> a.link, expired |-> a.expired,
           after |-> a.after]
  BY <1>1, Shapes
<1>3. CASE OpenEditor(c)
  <2>1. PICK e : e = [Closed EXCEPT !.open = TRUE, !.after = restored]
    OBVIOUS
  <2>2. ~e.link /\ e.doc = {}
    BY <2>1 DEF Closed
  <2>3. Leave(c, e) /\ c \in load.editors
    BY <1>3, <2>1 DEF OpenEditor
  <2>. QED
    BY <2>2, <2>3, LeaveTab
<1>4. CASE CloseEditor(c)
  <2>1. PICK e : e = Closed
    OBVIOUS
  <2>2. ~e.link /\ e.doc = {} /\ ~e.open
    BY <2>1 DEF Closed
  <2>3. Leave(c, e)
    BY <1>4, <2>1 DEF CloseEditor
  <2>. QED
    BY <2>2, <2>3, LeaveTab
<1>5. CASE Drop(c)
  <2>1. PICK e : e = [a EXCEPT !.link = FALSE]
    OBVIOUS
  <2>2. ~e.link /\ e.doc = a.doc /\ e.open = a.open
    BY <1>2, <2>1
  <2>3. Leave(c, e)
    BY <1>1, <1>5, <2>1 DEF Drop
  <2>4. a.open => c \in load.editors
    BY <1>1 DEF TabsOK
  <2>5. e.doc \subseteq ed[c].doc /\ (e.open => c \in load.editors)
    BY <1>1, <2>2, <2>4
  <2>. QED
    BY <2>2, <2>3, <2>5, LeaveTab
<1>6. CASE Expire(c)
  <2>1. PICK e : e = [a EXCEPT !.expired = TRUE]
    OBVIOUS
  <2>2. e.link = a.link /\ e.doc = a.doc /\ e.open = a.open
    BY <1>2, <2>1
  <2>3. /\ ed' = [ed EXCEPT ![c] = e] /\ typed' \subseteq Editors
        /\ UNCHANGED <<pgVars, room, ydoc, restarts, restored>>
    BY <1>1, <1>6, <2>1 DEF Expire, TabsOK
  <2>. QED
    BY <1>1, <2>2, <2>3, StayTab
<1>7. ASSUME NEW S, ed' = [ed EXCEPT ![c].doc = S], typed' \subseteq Editors,
             S \subseteq ed[c].doc \cup room.doc \cup Typed,
             UNCHANGED <<pgVars, room, ydoc, restarts, restored>>
      PROVE  TabStep(c)
  <2>1. PICK e : e = [a EXCEPT !.doc = S]
    OBVIOUS
  <2>2. e.link = a.link /\ e.doc = S /\ e.open = a.open
    BY <1>2, <2>1
  <2>3. ed' = [ed EXCEPT ![c] = e]
    BY <1>1, <1>7, <2>1
  <2>. QED
    BY <1>1, <1>7, <2>2, <2>3, StayTab
<1>8. CASE Type(c)
  <2>1. /\ ed' = [ed EXCEPT ![c].doc = ed[c].doc \cup {TypedBy(c)}] /\ typed' = typed \cup {c}
        /\ UNCHANGED <<pgVars, room, ydoc, restarts, restored>> /\ ed[c].open
    BY <1>8 DEF Type
  <2>2. TypedBy(c) \in Typed /\ typed' \subseteq Editors
    BY <2>1 DEF TabsOK, Typed
  <2>. QED
    BY <1>7, <2>1, <2>2
<1>9. CASE SendDown(c)
  <2>1. /\ ed' = [ed EXCEPT ![c].doc = ed[c].doc \cup room.doc] /\ typed' = typed
        /\ UNCHANGED <<pgVars, room, ydoc, restarts, restored>>
    BY <1>9 DEF SendDown
  <2>. QED
    BY <1>7, <2>1 DEF TabsOK
<1>. QED
  BY <1>3, <1>4, <1>5, <1>6, <1>8, <1>9, ConnectTab, SendUpTab DEF EditorStep

-----------------------------------------------------------------------------
(* The invariant.                                                          *)

LEMMA SameTexts ==
  ASSUME NEW G, NEW H, TextsIn(G), G \subseteq H
  PROVE  TextsIn(H)
BY DEF TextsIn, HoldsIn

\* Nothing of the store changes, and the bound does not fall.
LEMMA TextsRemain ==
  ASSUME TextsIn(Good), UNCHANGED pgVars, Good \subseteq Good'
  PROVE  TextsIn(Good)'
<1>1. TextsIn(Good')
  BY SameTexts
<1>2. UNCHANGED <<body, history, docBody, req>>
  BY DEF pgVars, vars, pageVars, docVars
<1>. QED
  BY <1>1, <1>2 DEF TextsIn, HoldsIn

LEMMA TabKeeps ==
  ASSUME CollabInv, NEW c \in Editors, TabStep(c)
  PROVE  TabsOK' /\ SeedsOK' /\ TextsIn(Good)'
<1>. USE DEF CollabInv, WikiInv
<1>1. load' = load /\ restarts' = restarts /\ ydoc' = ydoc
  BY DEF TabStep, pgVars
<1>2. Unseeded' => Unseeded
  BY <1>1 DEF Unseeded, TabStep
<1>3. restarts \in 0..1
  BY DEF TabsOK
<1>4. Good \subseteq Good' /\ \A k, l \in Nat : Known(k, l) \subseteq Known(k, l)'
  BY <1>1, <1>2, <1>3, Grows
<1>5. TextsIn(Good)'
  BY <1>4, TextsRemain DEF TabStep
<1>6. TabsOK'
  <2>1. \A d \in Editors : ed'[d].open => d \in load'.editors
    BY <1>1 DEF TabsOK, TabStep
  <2>2. \A d \in Editors : ed'[d].link => ed'[d].open /\ room'.loaded
    BY DEF TabsOK, TabStep
  <2>. QED
    BY <1>1, <2>1, <2>2 DEF TabsOK, TabStep
<1>7. PICK k \in Nat, l \in Nat : DocsOK(k, l)
  BY DEF SeedsOK
<1>8. Typed \subseteq Known(k, l)
  BY DEF Known
<1>9. ed'[c].doc \subseteq Known(k, l)
  BY <1>7, <1>8 DEF DocsOK, TabStep
<1>10. \A d \in Editors : ed'[d].doc \subseteq Known(k, l)
  BY <1>7, <1>9 DEF DocsOK, TabStep
<1>11. ydoc # NoDoc => HasFirst(ydoc)'
  BY <1>1 DEF SeedsOK, HasFirst
<1>12. CASE room.loaded \/ ~room'.loaded \/ ydoc # NoDoc
  <2>1. room'.doc \subseteq Known(k, l)
    BY <1>7, <1>12 DEF DocsOK, TabStep, Loads
  <2>2. DocsOK(k, l)'
    BY <1>1, <1>4, <1>7, <1>10, <2>1 DEF DocsOK
  <2>3. room'.loaded => HasFirst(room.doc)'
    BY <1>1, <1>12 DEF SeedsOK, HasFirst, TabStep, Loads
  <2>. QED
    BY <1>1, <1>5, <1>6, <1>11, <2>2, <2>3 DEF SeedsOK
<1>13. CASE ~room.loaded /\ room'.loaded /\ ydoc = NoDoc
  <2>1. Unseeded /\ ~Unseeded'
    BY <1>13 DEF Unseeded
  <2>2. /\ room'.doc = Seeded(RoomText) \/ room'.doc = {}
        /\ room'.doc = {} => room'.doc = Seeded(RoomText) \/ "no seed" \in load.events
    BY <1>13 DEF TabStep, Loads
  <2>3. PICK S : S = Seeded(RoomText)
    OBVIOUS
  <2>4. PICK n \in Nat : S \subseteq Seed(n, SeedPassages)
    BY <1>3, <1>7, <2>1, <2>3, SeedIsNew
  <2>5. HasFirst(S)
    BY <1>3, <1>7, <2>1, <2>3, SeedIsNew
  <2>6. room'.doc \subseteq Seed(n, SeedPassages)
    BY <2>2, <2>3, <2>4
  <2>7. HasFirst(room.doc)'
    BY <1>1, <2>2, <2>3, <2>5 DEF HasFirst
  <2>8. CASE restarts = 0
    <3>1. Known(k, l) \subseteq Known(n, l)' /\ Seed(n, SeedPassages) \subseteq Known(n, l)'
      BY <1>1, <2>1, <2>8 DEF Known, Typed, SeedPassages
    <3>2. DocsOK(n, l)'
      BY <1>1, <1>10, <1>13, <2>6, <3>1 DEF DocsOK
    <3>. QED
      BY <1>1, <1>5, <1>6, <1>11, <2>7, <3>2 DEF SeedsOK
  <2>9. CASE restarts = 1
    <3>1. Known(k, l) \subseteq Known(k, n)' /\ Seed(n, SeedPassages) \subseteq Known(k, n)'
      BY <1>1, <2>1, <2>9 DEF Known, Typed, SeedPassages
    <3>2. DocsOK(k, n)'
      BY <1>1, <1>10, <1>13, <2>6, <3>1 DEF DocsOK
    <3>. QED
      BY <1>1, <1>5, <1>6, <1>11, <2>7, <3>2 DEF SeedsOK
  <2>. QED
    BY <1>3, <2>8, <2>9
<1>. QED
  BY <1>12, <1>13

\* Only the API is at work.
LEMMA ApiKeeps ==
  ASSUME CollabInv, NEW r \in Requests, RestoreStep(r) \/ ApiStep(r)
  PROVE  TabsOK' /\ SeedsOK' /\ TextsIn(Good)'
<1>. USE DEF CollabInv, WikiInv
<1>1. RequestStep(r) \/ RestoreVersion(r)
  BY DEF RestoreStep, ApiStep
<1>2. load' = load
  BY <1>1, NothingGoes
<1>3. UNCHANGED <<room, ydoc, ed, typed, restarts>> /\ restored' \in BOOLEAN
  BY DEF RestoreStep, ApiStep, roomVars
<1>4. PICK G : G = Good
  OBVIOUS
<1>5. G = Good'
  BY <1>2, <1>3, <1>4 DEF Good, Limit, Unseeded
<1>6. \A v \in load.texts : v.body \in G
  BY <1>4, ClientsWriteGood DEF TabsOK
<1>7. TextsIn(G)'
  BY <1>1, <1>4, <1>6, ApiTexts
<1>8. TabsOK'
  BY <1>2, <1>3 DEF TabsOK, Linked
<1>9. SeedsOK'
  BY <1>2, <1>3 DEF SeedsOK, DocsOK, HasFirst, Known, Typed, Unseeded
<1>. QED
  BY <1>5, <1>7, <1>8, <1>9

\* The server stores: the map has the document, and the snapshot is good.
LEMMA StoreTexts ==
  ASSUME CollabInv, NoDocIsNoDocument, NEW r \in Requests, Store(r)
  PROVE  TabsOK' /\ SeedsOK' /\ TextsIn(Good)'
<1>. USE DEF CollabInv, WikiInv
<1>1. PICK z : z = room
  OBVIOUS
<1>2. PICK x : x = [z EXCEPT !.dirty = FALSE]
  OBVIOUS
<1>3. x.loaded = z.loaded /\ x.doc = z.doc /\ ~x.dirty
  BY <1>1, <1>2, Shapes DEF RoomOK
<1>4. /\ room' = x /\ z.loaded /\ ydoc' = z.doc
      /\ UNCHANGED <<vars, raced, load, ed, typed, restarts, restored>>
  BY <1>1, <1>2 DEF Store
<1>5. UNCHANGED <<body, history, docBody>>
  BY <1>4 DEF vars, pageVars, docVars
<1>6. ~Unseeded /\ ~Unseeded'
  BY <1>1, <1>3, <1>4 DEF Unseeded
<1>7. PICK G : G = Good
  OBVIOUS
<1>8. G = Good'
  BY <1>4, <1>6, <1>7 DEF Good, Limit
<1>9. PICK b : b = TextOf(room.doc)
  OBVIOUS
<1>10. b \in G
  BY <1>1, <1>4, <1>7, <1>9, StoredIsGood
<1>11. TextsIn(G)'
  <2>1. PICK q : q = [at |-> "snapshot", page |-> load.room, body |-> b]
    OBVIOUS
  <2>2. Goto(r, q) /\ q.at = "snapshot" /\ q.body = b
    BY <1>9, <2>1 DEF Store
  <2>3. HoldsIn(req'[r], G)
    BY <1>10, <2>2, GoesTo DEF HoldsIn
  <2>. QED
    BY <1>5, <1>7, <2>3, TextsSame
<1>12. TabsOK'
  BY <1>1, <1>3, <1>4 DEF TabsOK, Linked
<1>13. SeedsOK'
  <2>1. PICK k \in Nat, l \in Nat : DocsOK(k, l)
    BY DEF SeedsOK
  <2>2. Known(k, l)' = Known(k, l)
    BY <1>4, <1>6 DEF Known, Typed
  <2>3. DocsOK(k, l)'
    BY <1>1, <1>3, <1>4, <2>1, <2>2 DEF DocsOK
  <2>. QED
    BY <1>1, <1>3, <1>4, <2>3 DEF SeedsOK, HasFirst
<1>. QED
  BY <1>8, <1>11, <1>12, <1>13

\* What is not loaded any more the map has, and NoDoc is not in the map.
LEMMA DocumentIsNotNoDoc ==
  ASSUME NoDocIsNoDocument, PgInv, NEW k \in Nat, NEW l \in Nat, NEW doc, doc \subseteq Known(k, l)
  PROVE  doc # NoDoc
<1>1. Known(k, l) \subseteq Insertion
  BY RoomWork DEF Known, Typed, TypedBy, Seed, Insertion, Passages
<1>. QED
  BY <1>1 DEF NoDocIsNoDocument

LEMMA UnloadKeeps ==
  ASSUME CollabInv, NoDocIsNoDocument, Unload
  PROVE  TabsOK' /\ SeedsOK' /\ TextsIn(Good)'
<1>. USE DEF CollabInv, WikiInv
<1>1. /\ room.loaded /\ ~room.dirty /\ Linked = {}
      /\ room' = NoRoom /\ UNCHANGED <<pgVars, ydoc, ed, typed, restarts, restored>>
  BY DEF Unload
<1>2. ydoc = room.doc
  BY <1>1 DEF TabsOK
<1>3. PICK k \in Nat, l \in Nat : DocsOK(k, l)
  BY DEF SeedsOK
<1>4. PICK doc : doc = room.doc
  OBVIOUS
<1>5. doc # NoDoc
  BY <1>3, <1>4, DocumentIsNotNoDoc DEF DocsOK
<1>6. ~Unseeded /\ ~Unseeded' /\ load' = load
  BY <1>1, <1>2, <1>4, <1>5 DEF Unseeded, pgVars
<1>7. ~room'.loaded /\ ~room'.dirty /\ room'.doc = {}
  BY <1>1 DEF NoRoom
<1>8. Good \subseteq Good' /\ \A i, j \in Nat : Known(i, j) \subseteq Known(i, j)'
  BY <1>1, <1>6, Grows DEF TabsOK
<1>9. TextsIn(Good)'
  BY <1>1, <1>8, TextsRemain
<1>10. TabsOK'
  BY <1>1, <1>6, <1>7 DEF TabsOK, Linked
<1>11. DocsOK(k, l)'
  BY <1>1, <1>3, <1>7, <1>8 DEF DocsOK
<1>12. SeedsOK'
  BY <1>1, <1>6, <1>7, <1>11 DEF SeedsOK, HasFirst
<1>. QED
  BY <1>9, <1>10, <1>12

LEMMA RestartKeeps ==
  ASSUME CollabInv, Restart
  PROVE  TabsOK' /\ SeedsOK' /\ TextsIn(Good)'
<1>. USE DEF CollabInv, WikiInv
<1>1. /\ restarts = 0 /\ restarts' = 1 /\ room' = NoRoom /\ ydoc' = NoDoc
      /\ ed' = [c \in Editors |-> [ed[c] EXCEPT !.link = FALSE]]
      /\ UNCHANGED <<pgVars, typed, restored>>
  BY DEF Restart
<1>2. ASSUME NEW c \in Editors
      PROVE  ~ed'[c].link /\ ed'[c].open = ed[c].open /\ ed'[c].doc = ed[c].doc
  <2>1. PICK a : a = ed[c]
    OBVIOUS
  <2>2. PICK e : e = [a EXCEPT !.link = FALSE]
    OBVIOUS
  <2>3. ~e.link /\ e.open = a.open /\ e.doc = a.doc
    BY <2>1, <2>2, Shapes
  <2>4. ed'[c] = e
    BY <1>1, <2>1, <2>2
  <2>. QED
    BY <2>1, <2>3, <2>4
<1>3. ~room'.loaded /\ ~room'.dirty /\ room'.doc = {}
  BY <1>1 DEF NoRoom
<1>4. load' = load
  BY <1>1 DEF pgVars
<1>5. Good \subseteq Good' /\ \A i, j \in Nat : Known(i, j) \subseteq Known(i, j)'
  BY <1>1, <1>4, Grows DEF TabsOK
<1>6. TextsIn(Good)'
  BY <1>1, <1>5, TextsRemain
<1>7. TabsOK'
  BY <1>1, <1>2, <1>3, <1>4 DEF TabsOK
<1>8. PICK k \in Nat, l \in Nat : DocsOK(k, l)
  BY DEF SeedsOK
<1>9. DocsOK(k, l)'
  BY <1>1, <1>2, <1>3, <1>5, <1>8 DEF DocsOK
<1>10. SeedsOK'
  BY <1>1, <1>3, <1>9 DEF SeedsOK
<1>. QED
  BY <1>6, <1>7, <1>10

LEMMA InitCollabInv ==
  ASSUME CollabInit
  PROVE  CollabInv
<1>1. WikiInv
  BY InitWikiInv
<1>2. /\ room = NoRoom /\ ydoc = NoDoc /\ ed = [c \in Editors |-> Closed]
      /\ typed = {} /\ restarts = 0 /\ restored = FALSE
  BY DEF CollabInit
<1>3. ~room.loaded /\ ~room.dirty /\ room.doc = {}
  BY <1>2 DEF NoRoom
<1>4. \A c \in Editors : ~ed[c].open /\ ~ed[c].link /\ ed[c].doc = {}
  BY <1>2 DEF Closed
<1>5. TabsOK
  <2>1. typed \subseteq Editors /\ restarts \in 0..1
    BY <1>2
  <2>2. restored \in BOOLEAN
    BY <1>2, Zenon
  <2>. QED
    BY <1>3, <1>4, <2>1, <2>2 DEF TabsOK
<1>6. SeedsOK
  <2>1. DocsOK(0, 0)
    BY <1>2, <1>3, <1>4 DEF DocsOK
  <2>. QED
    BY <1>2, <1>3, <2>1 DEF SeedsOK
<1>7. FirstBody \in Good
  <2>1. /\ FirstBody \in Bodies
        /\ FirstBody = [t \in Passages |-> IF t = First THEN 1 ELSE 0]
    BY WikiPgAssumption, CollabAssumption DEF CollabAssumption
  <2>2. First \notin load.editors
    BY <1>1, RoomWork DEF WikiInv
  <2>3. ASSUME NEW t \in Passages PROVE FirstBody[t] <= Limit(t)
    BY <1>2, <1>3, <2>1, <2>2 DEF Limit, Unseeded
  <2>4. FirstBody[First] >= 1
    BY <2>1, FirstPassage
  <2>. QED
    BY <2>1, <2>3, <2>4 DEF Good
<1>8. TextsIn(Good)
  <2>1. /\ body = [p \in Pages |-> FirstBody] /\ docBody = [d \in Docs |-> FirstBody]
        /\ history = [p \in Pages |-> IF p \in load.pages THEN <<FirstVersion>> ELSE <<>>]
        /\ req = [r \in Requests |-> Idle]
    BY DEF CollabInit, PgInit
  <2>2. ASSUME NEW p \in Pages, NEW i \in 1..Len(history[p]) PROVE history[p][i].body \in Good
    <3>1. PICK v : v = FirstVersion
      OBVIOUS
    <3>2. v.body = FirstBody
      BY <3>1 DEF FirstVersion
    <3>3. history[p] = <<v>> \/ history[p] = <<>>
      BY <2>1, <3>1
    <3>4. history[p][i] = v
      BY <3>3
    <3>. QED
      BY <1>7, <3>2, <3>4
  <2>3. \A r \in Requests : HoldsIn(req[r], Good)
    <3>1. Idle.at = "idle"
      BY DEF Idle
    <3>. QED
      BY <2>1, <3>1, HoldsNothing
  <2>. QED
    BY <1>7, <2>1, <2>2, <2>3 DEF TextsIn
<1>. QED
  BY <1>1, <1>5, <1>6, <1>8 DEF CollabInv

LEMMA NextCollabInv ==
  ASSUME CollabInv, NoDocIsNoDocument, [CollabNext]_collabVars
  PROVE  CollabInv'
<1>1. WikiInv'
  BY NextWikiInv DEF CollabInv
<1>2. TabsOK' /\ SeedsOK' /\ TextsIn(Good)'
  <2>1. CASE UNCHANGED collabVars
    <3>1. UNCHANGED <<body, history, docBody, req, load, room, ydoc, ed, typed, restarts, restored>>
      BY <2>1 DEF collabVars, roomVars, pgVars, vars, pageVars, docVars
    <3>2. Good' = Good
      BY <3>1 DEF Good, Limit, Unseeded
    <3>3. TextsIn(Good)'
      BY <3>1, <3>2 DEF CollabInv, TextsIn, HoldsIn
    <3>4. TabsOK'
      BY <3>1 DEF CollabInv, TabsOK, Linked
    <3>5. SeedsOK'
      BY <3>1 DEF CollabInv, SeedsOK, DocsOK, HasFirst, Known, Typed, Unseeded
    <3>. QED
      BY <3>3, <3>4, <3>5
  <2>2. ASSUME NEW c \in Editors, EditorStep(c) PROVE <1>2!:
    BY <2>2, EditorIsTab, TabKeeps DEF CollabInv, WikiInv
  <2>. QED
    BY <2>1, <2>2, ApiKeeps, StoreTexts, UnloadKeeps, RestartKeeps DEF CollabNext
<1>. QED
  BY <1>1, <1>2 DEF CollabInv

LEMMA CollabInvAlways ==
  ASSUME NoDocIsNoDocument
  PROVE  CollabSpec => []CollabInv
<1>1. CollabInit => CollabInv
  BY InitCollabInv
<1>2. CollabInv /\ [CollabNext]_collabVars => CollabInv'
  BY NextCollabInv
<1>. QED
  BY <1>1, <1>2, PTL DEF CollabSpec

-----------------------------------------------------------------------------
(* What follows.                                                           *)

\* The rows, the requests and the room have their types: whatever tabs type,
\* whenever they leave and come back and the server starts again, no document is
\* too large for the texts of the store, so that each store can be made.
THEOREM CollabTypeOKAlways ==
  ASSUME NoDocIsNoDocument
  PROVE  CollabSpec => []CollabTypeOK
<1>1. ASSUME CollabInv, PgTypeOK PROVE CollabTypeOK
  <2>1. PICK k \in Nat, l \in Nat : DocsOK(k, l)
    BY <1>1 DEF CollabInv, SeedsOK
  <2>2. PICK a : a = room.doc
    OBVIOUS
  <2>3. PICK b : b = ydoc
    OBVIOUS
  <2>4. PgInv /\ restarts \in 0..1
    BY <1>1 DEF CollabInv, WikiInv, TabsOK
  <2>5. TextOf(a) \in Bodies /\ (b = NoDoc \/ TextOf(b) \in Bodies)
    BY <2>1, <2>2, <2>3, <2>4, DocumentFits DEF DocsOK
  <2>. QED
    BY <1>1, <2>2, <2>3, <2>5 DEF CollabInv, TabsOK, CollabTypeOK
<1>2. CollabInv /\ PgTypeOK => CollabTypeOK
  BY <1>1
<1>. QED
  BY <1>2, CollabInvAlways, PgTypeOKAlways, PTL

\* No passage comes to be in the text of the page more than once, or once more
\* after a restart, and what the page began with stays in it, however loads,
\* stores, restores, edits, reconnects and requests that fail are interleaved.
THEOREM NeitherLostNorDoubledAlways ==
  ASSUME NoDocIsNoDocument
  PROVE  CollabSpec => []NeitherLostNorDoubled
<1>1. ASSUME CollabInv PROVE NeitherLostNorDoubled
  <2>1. PICK text : text = RoomText
    OBVIOUS
  <2>2. text \in Good /\ text \in Bodies /\ restarts \in 0..1
    BY <1>1, <2>1, RoomTextIsKept DEF CollabInv, WikiInv, TabsOK, Good
  <2>3. ASSUME NEW t \in Passages PROVE text[t] <= 1 + restarts
    <3>1. text[t] \in Nat /\ text[t] <= Limit(t)
      BY <2>2, BodyCounts DEF Good
    <3>2. Limit(t) \in Nat /\ Limit(t) <= 1 + restarts
      BY <2>2 DEF Limit
    <3>. QED
      BY <2>2, <3>1, <3>2
  <2>. QED
    BY <2>1, <2>2, <2>3 DEF NeitherLostNorDoubled, Good
<1>2. CollabInv => NeitherLostNorDoubled
  BY <1>1
<1>. QED
  BY <1>2, CollabInvAlways, PTL

\* What the server has, it keeps.
LEMMA KnownStays ==
  ASSUME CollabInv, NoDocIsNoDocument, [CollabNext]_collabVars, restarts' = restarts
  PROVE  KnownDoc \subseteq KnownDoc'
<1>. USE DEF CollabInv, WikiInv
<1>1. ASSUME UNCHANGED <<room, ydoc>> PROVE KnownDoc \subseteq KnownDoc'
  BY <1>1 DEF KnownDoc
<1>2. ASSUME NEW r \in Requests, Store(r) PROVE KnownDoc \subseteq KnownDoc'
  <2>1. PICK z : z = room
    OBVIOUS
  <2>2. PICK x : x = [z EXCEPT !.dirty = FALSE]
    OBVIOUS
  <2>3. x.loaded = z.loaded /\ x.doc = z.doc
    BY <2>1, <2>2, Shapes DEF RoomOK
  <2>4. room' = x /\ z.loaded
    BY <1>2, <2>1, <2>2 DEF Store
  <2>. QED
    BY <2>1, <2>3, <2>4 DEF KnownDoc
<1>3. CASE Unload
  <2>1. room.loaded /\ ydoc = room.doc /\ ydoc' = ydoc /\ room' = NoRoom
    BY <1>3 DEF Unload, TabsOK
  <2>2. PICK k \in Nat, l \in Nat : DocsOK(k, l)
    BY DEF SeedsOK
  <2>3. PICK doc : doc = room.doc
    OBVIOUS
  <2>4. doc # NoDoc
    BY <2>2, <2>3, DocumentIsNotNoDoc DEF DocsOK
  <2>5. ~room'.loaded
    BY <2>1 DEF NoRoom
  <2>. QED
    BY <2>1, <2>3, <2>4, <2>5 DEF KnownDoc
<1>4. ASSUME NEW c \in Editors, EditorStep(c) PROVE KnownDoc \subseteq KnownDoc'
  <2>1. TabStep(c)
    BY <1>4, EditorIsTab
  <2>. QED
    BY <2>1 DEF TabStep, KnownDoc, Loads
<1>5. ~Restart
  BY DEF Restart, TabsOK
<1>6. ASSUME NEW r \in Requests, RestoreStep(r) \/ ApiStep(r) PROVE UNCHANGED <<room, ydoc>>
  BY <1>6 DEF RestoreStep, ApiStep, roomVars
<1>. QED
  BY <1>1, <1>2, <1>3, <1>4, <1>5, <1>6 DEF CollabNext, collabVars, roomVars

\* Until it restarts, the server has all that it was ever sent, in the document
\* that is loaded or in the map: unloading comes after the store of the last
\* change, and whoever connects gets what the map has.
THEOREM MemoryKeepsEditsAlways ==
  ASSUME NoDocIsNoDocument
  PROVE  CollabSpec => MemoryKeepsEdits
<1>1. CollabInv /\ [CollabNext]_collabVars =>
        [restarts' = restarts => KnownDoc \subseteq KnownDoc']_collabVars
  BY KnownStays
<1>. QED
  BY <1>1, CollabInvAlways, PTL DEF CollabSpec, MemoryKeepsEdits

-----------------------------------------------------------------------------
(* What the page is owed.                                                  *)

\* A page and a document do not have the same room (id.New makes its name for
\* both), and only so many requests are at work.
RoomsAreApart == Pages \cap Docs = {} /\ IsFiniteSet(Requests)

\* The server was sent what c types.
Sent(c) == TypedBy(c) \in KnownDoc

StoreDue == room.loaded /\ room.dirty

\* The request r has a snapshot of the room on its way, with what c types.
Carries(r, c) ==
  req[r].at = "snapshot" /\ req[r].page = load.room /\ req[r].body[c] >= 1

\* What the server was sent the page has, or a snapshot on its way, or the one
\* that the server owes.
SentIsOwed ==
  Undisturbed => \A c \in load.editors :
    Sent(c) => RoomText[c] >= 1 \/ StoreDue \/ \E r \in Requests : Carries(r, c)

\* What has come to the page stays there.
Stays == \A c \in load.editors : RoomText[c] >= 1 => RoomText'[c] >= 1

StaysInPage == [][Undisturbed => Stays]_collabVars

\* Nothing is in the page, or on its way to it, that the server has not; and no
\* snapshot is older than the page.
OwesText(c) ==
  /\ RoomText[c] >= 1 => Sent(c)
  /\ \A r \in Requests : req[r].at = "snapshot" =>
       /\ req[r].body[c] >= 1 => Sent(c)
       /\ RoomText[c] >= 1 => req[r].body[c] >= 1
  /\ Sent(c) => RoomText[c] >= 1 \/ StoreDue \/ \E r \in Requests : Carries(r, c)

\* Snapshots of the room are the only requests.
QuietOK ==
  /\ restarts = 0
  /\ ydoc # NoDoc => load.room \in pages \cup docs
  /\ \A r \in Requests :
       /\ req[r].at \in {"idle", "snapshot", "get", "append"}
       /\ req[r].at = "snapshot" => req[r].page = load.room

OwedInv == Undisturbed => QuietOK /\ \A c \in load.editors : OwesText(c)

\* An insertion by an editor of the room is the one that it types.
LEMMA OwnPassage ==
  ASSUME PgInv, restarts = 0, NEW k \in Nat, NEW l \in Nat, NEW doc, doc \subseteq Known(k, l),
         NEW c \in load.editors
  PROVE  TextOf(doc)[c] >= 1 <=> TypedBy(c) \in doc
<1>1. c \in Passages
  BY RoomWork DEF Passages
<1>2. TypedBy(c) \in doc => TextOf(doc)[c] >= 1
  <2>1. TypedBy(c).by = c
    BY DEF TypedBy
  <2>. QED
    BY <1>1, <2>1, Counts
<1>3. ASSUME TypedBy(c) \notin doc PROVE ~(TextOf(doc)[c] >= 1)
  <2>1. \A i \in Known(k, l) : i.by = c => i = TypedBy(c)
    BY DEF Known, Typed, TypedBy, Seed
  <2>2. {i \in doc : i.by = c} = {}
    BY <1>3, <2>1
  <2>3. TextOf(doc)[c] = Cardinality({})
    BY <1>1, <2>2 DEF TextOf
  <2>. QED
    BY <2>3, FS_EmptySet
<1>. QED
  BY <1>2, <1>3

\* One request is at work at a time.
LEMMA OneAtWork ==
  ASSUME PgInv, Undisturbed, RoomsAreApart, NEW r \in load.requests, NEW s \in Requests, s # r
  PROVE  req[s].at = "idle"
<1>1. load.requests \subseteq Requests
  BY WikiPgAssumption DEF WikiWorkload, PgInv, RowsOK
<1>2. IsFiniteSet(load.requests) /\ Cardinality(load.requests) = 1
  BY <1>1, FS_Subset DEF RoomsAreApart, Undisturbed
<1>3. PICK x : load.requests = {x}
  BY <1>2, FS_Singleton
<1>4. req[s].at # "idle" => s \in load.requests
  BY OfRequest
<1>. QED
  BY <1>3, <1>4

\* A document that the server seeds has nothing that its editors type.
LEMMA NothingSeeded ==
  ASSUME CollabInv, restarts = 0, Unseeded, NEW doc \in Loads, NEW c \in load.editors
  PROVE  TypedBy(c) \notin doc
<1>1. doc = {} \/ doc = Seeded(RoomText)
  BY DEF Loads, Unseeded
<1>2. PICK k \in Nat, l \in Nat : DocsOK(k, l)
  BY DEF CollabInv, SeedsOK
<1>3. PICK n \in Nat : Seeded(RoomText) \subseteq Seed(n, SeedPassages)
  BY <1>2, SeedIsNew DEF CollabInv, WikiInv
<1>4. \A i \in Seed(n, SeedPassages) : i.by # c
  BY DEF Seed, SeedPassages
<1>5. TypedBy(c).by = c
  BY DEF TypedBy
<1>. QED
  BY <1>1, <1>3, <1>4, <1>5

\* What a tab brings makes the server owe a store.
LEMMA TabOwes ==
  ASSUME RoomOK, TabsOK, NEW c \in Editors, EditorStep(c)
  PROVE  /\ room.dirty => room'.dirty
         /\ room.loaded /\ room'.doc # room.doc => room'.dirty
<1>1. PICK z : z = room
  OBVIOUS
<1>2. z = [loaded |-> z.loaded, doc |-> z.doc, dirty |-> z.dirty]
  BY <1>1, Shapes
<1>3. ASSUME NEW e, Leave(c, e)
      PROVE  (z.dirty => room'.dirty) /\ room'.doc = z.doc
  <2>1. PICK x : x = [z EXCEPT !.dirty = TRUE]
    OBVIOUS
  <2>2. x.dirty /\ x.doc = z.doc
    BY <1>2, <2>1
  <2>3. room' \in {x, z}
    BY <1>1, <1>3, <2>1 DEF Leave
  <2>. QED
    BY <2>2, <2>3
<1>4. CASE Connect(c)
  <2>1. PICK doc : /\ room' = [z EXCEPT !.loaded = TRUE, !.doc = doc]
                   /\ doc \in IF z.loaded THEN {z.doc} ELSE Loads
    BY <1>1, <1>4 DEF Connect
  <2>2. PICK w : w = [z EXCEPT !.loaded = TRUE]
    OBVIOUS
  <2>3. w = [loaded |-> TRUE, doc |-> z.doc, dirty |-> z.dirty]
    BY <1>2, <2>2
  <2>4. PICK x : x = [w EXCEPT !.doc = doc]
    OBVIOUS
  <2>5. x.dirty = z.dirty /\ x.doc = doc /\ room' = x
    BY <2>1, <2>2, <2>3, <2>4
  <2>. QED
    BY <1>1, <2>1, <2>5
<1>5. CASE SendUp(c)
  <2>1. PICK w : w = [z EXCEPT !.doc = z.doc \cup ed[c].doc]
    OBVIOUS
  <2>2. w = [loaded |-> z.loaded, doc |-> w.doc, dirty |-> z.dirty]
    BY <1>2, <2>1
  <2>3. PICK x : x = [w EXCEPT !.dirty = TRUE]
    OBVIOUS
  <2>4. x.dirty /\ room' = x
    BY <1>1, <1>5, <2>1, <2>2, <2>3 DEF SendUp
  <2>. QED
    BY <2>4
<1>6. CASE Expire(c) \/ Type(c) \/ SendDown(c)
  BY <1>6 DEF Expire, Type, SendDown
<1>. QED
  BY <1>1, <1>3, <1>4, <1>5, <1>6 DEF EditorStep, OpenEditor, CloseEditor, Drop

\* The store and the requests stay, and what the server gets it owes.
LEMMA RoomOwes ==
  ASSUME CollabInv, OwedInv, UNCHANGED <<body, docBody, pages, docs, req, load, restarts>>,
         ydoc' # NoDoc => ydoc # NoDoc \/ room.loaded,
         \A c \in load.editors : /\ Sent(c) => Sent(c)'
                                 /\ Sent(c)' => StoreDue' \/ (Sent(c) /\ ~StoreDue)
  PROVE  OwedInv' /\ (Undisturbed => Stays)
<1>1. RoomText' = RoomText
  BY DEF RoomText
<1>2. Undisturbed' = Undisturbed
  BY DEF Undisturbed
<1>3. ASSUME QuietOK PROVE QuietOK'
  BY <1>3 DEF QuietOK, CollabInv, WikiInv, RoomOK
<1>4. ASSUME NEW c \in load.editors, OwesText(c) PROVE OwesText(c)'
  <2>1. \A r \in Requests : Carries(r, c)' = Carries(r, c)
    BY DEF Carries
  <2>. QED
    BY <1>1, <1>4, <2>1 DEF OwesText
<1>. QED
  BY <1>1, <1>2, <1>3, <1>4 DEF OwedInv, Stays

\* A step of a tab.
LEMMA TabStaysOwed ==
  ASSUME CollabInv, OwedInv, Undisturbed, NoDocIsNoDocument, NEW c \in Editors, EditorStep(c)
  PROVE  OwedInv' /\ Stays
<1>. USE DEF CollabInv, WikiInv
<1>1. TabStep(c)
  BY EditorIsTab
<1>2. /\ UNCHANGED <<body, docBody, pages, docs, req, load, restarts, ydoc>>
      /\ restarts = 0
  BY <1>1 DEF TabStep, pgVars, vars, pageVars, docVars, OwedInv, QuietOK
<1>3. /\ room.dirty => room'.dirty
      /\ room.loaded /\ room'.doc # room.doc => room'.dirty
  BY TabOwes
<1>4. ASSUME NEW d \in load.editors
      PROVE  /\ Sent(d) => Sent(d)'
             /\ Sent(d)' => StoreDue' \/ (Sent(d) /\ ~StoreDue)
  <2>1. CASE room.loaded
    <3>1. room'.loaded /\ room.doc \subseteq room'.doc
      BY <1>1, <2>1 DEF TabStep
    <3>. QED
      BY <1>3, <2>1, <3>1 DEF Sent, KnownDoc, StoreDue
  <2>2. CASE ~room.loaded /\ ~room'.loaded
    BY <1>2, <2>2 DEF Sent, KnownDoc, StoreDue
  <2>3. CASE ~room.loaded /\ room'.loaded /\ ydoc # NoDoc
    <3>1. room'.doc = ydoc
      BY <1>1, <2>3 DEF TabStep, Loads
    <3>. QED
      BY <2>3, <3>1 DEF Sent, KnownDoc, StoreDue
  <2>4. CASE ~room.loaded /\ room'.loaded /\ ydoc = NoDoc
    <3>1. room'.doc \in Loads
      BY <1>1, <2>4 DEF TabStep
    <3>2. TypedBy(d) \notin room'.doc
      BY <1>2, <2>4, <3>1, NothingSeeded DEF Unseeded
    <3>. QED
      BY <2>4, <3>2 DEF Sent, KnownDoc
  <2>. QED
    BY <2>1, <2>2, <2>3, <2>4
<1>. QED
  BY <1>2, <1>4, RoomOwes

\* The document goes, and the map has it.
LEMMA UnloadStaysOwed ==
  ASSUME CollabInv, OwedInv, Undisturbed, NoDocIsNoDocument, Unload
  PROVE  OwedInv' /\ Stays
<1>. USE DEF CollabInv, WikiInv
<1>1. /\ room.loaded /\ ~room.dirty /\ ydoc = room.doc /\ room' = NoRoom
      /\ UNCHANGED <<body, docBody, pages, docs, req, load, restarts, ydoc>>
  BY DEF Unload, TabsOK, pgVars, vars, pageVars, docVars
<1>2. PICK k \in Nat, l \in Nat : DocsOK(k, l)
  BY DEF SeedsOK
<1>3. PICK doc : doc = room.doc
  OBVIOUS
<1>4. doc # NoDoc
  BY <1>2, <1>3, DocumentIsNotNoDoc DEF DocsOK
<1>5. ~room'.loaded
  BY <1>1 DEF NoRoom
<1>6. KnownDoc' = KnownDoc
  BY <1>1, <1>3, <1>4, <1>5 DEF KnownDoc
<1>7. \A d \in load.editors : Sent(d)' = Sent(d)
  BY <1>6 DEF Sent
<1>8. ~StoreDue
  BY <1>1 DEF StoreDue
<1>. QED
  BY <1>1, <1>7, <1>8, RoomOwes

\* The server stores: the snapshot has all that it was sent.
LEMMA StoreStaysOwed ==
  ASSUME CollabInv, OwedInv, Undisturbed, RoomsAreApart, NEW r \in Requests, Store(r)
  PROVE  OwedInv' /\ Stays
<1>. USE DEF CollabInv, WikiInv
<1>1. PICK z : z = room
  OBVIOUS
<1>2. PICK x : x = [z EXCEPT !.dirty = FALSE]
  OBVIOUS
<1>3. x.loaded = z.loaded /\ x.doc = z.doc
  BY <1>1, <1>2, Shapes DEF RoomOK
<1>4. /\ r \in load.requests /\ room' = x /\ z.loaded /\ ydoc' = z.doc
      /\ UNCHANGED <<body, docBody, pages, docs, load, restarts>>
  BY <1>1, <1>2 DEF Store, vars, pageVars, docVars
<1>5. PICK b : b = TextOf(room.doc)
  OBVIOUS
<1>6. PICK q : q = [at |-> "snapshot", page |-> load.room, body |-> b]
  OBVIOUS
<1>7. q.at = "snapshot" /\ q.page = load.room /\ q.body = b /\ req'[r] = q
  BY <1>5, <1>6, GoesTo DEF Store
<1>8. \A s \in Requests \ {r} : req'[s] = req[s] /\ req[s].at = "idle"
  BY <1>4, OneAtWork DEF Store, Goto, PgInv, RequestsOK
<1>9. RoomText' = RoomText /\ Undisturbed' = Undisturbed
  BY <1>4 DEF RoomText, Undisturbed
<1>10. QuietOK
  BY DEF OwedInv
<1>11. QuietOK'
  BY <1>1, <1>4, <1>7, <1>8, <1>10 DEF QuietOK, RoomOK
<1>12. PICK k \in Nat, l \in Nat : DocsOK(k, l)
  BY DEF SeedsOK
<1>13. ASSUME NEW c \in load.editors PROVE OwesText(c)'
  <2>1. b[c] >= 1 <=> Sent(c)
    <3>1. room.doc \subseteq Known(k, l) /\ restarts = 0
      BY <1>10, <1>12 DEF DocsOK, QuietOK
    <3>. QED
      BY <1>1, <1>4, <1>5, <3>1, OwnPassage DEF Sent, KnownDoc
  <2>2. Sent(c)' = Sent(c)
    BY <1>1, <1>3, <1>4 DEF Sent, KnownDoc
  <2>3. RoomText[c] >= 1 => Sent(c)
    BY DEF OwedInv, OwesText
  <2>4. b[c] >= 1 => Carries(r, c)'
    BY <1>4, <1>7 DEF Carries
  <2>5. \A s \in Requests : req'[s].at = "snapshot" => req'[s].body = b
    BY <1>7, <1>8
  <2>. QED
    BY <1>9, <2>1, <2>2, <2>3, <2>4, <2>5 DEF OwesText
<1>. QED
  BY <1>4, <1>9, <1>11, <1>13 DEF OwedInv, Stays

\* What a request can do in such a workload.
LEMMA QuietSteps ==
  ASSUME CollabInv, OwedInv, Undisturbed, NEW r \in Requests, RequestStep(r) \/ RestoreVersion(r)
  PROVE  \/ WriteSnapshot(r) \/ WriteDocumentSnapshot(r) \/ ReadBack(r) \/ AppendVersion(r)
         \/ \E d \in Docs :
              \/ \E t \in Titles, v \in load.texts : NewDocument(r, d, t, v.body)
              \/ \E t \in Titles : RenameDocument(r, d, t)
              \/ DeleteDocument(r, d) \/ UndeleteDocument(r, d)
<1>1. req[r].at \in {"idle", "snapshot", "get", "append"}
  BY DEF OwedInv, QuietOK
<1>2. \A call : Called(r, call) => call = "document"
  BY DEF Undisturbed, Called
<1>3. ~Abort(r)
  BY DEF Undisturbed, Abort
<1>4. ~ReadAncestor(r) /\ ~WritePage(r) /\ ~WriteTree(r) /\ ~RestoreVersion(r)
  BY <1>1 DEF ReadAncestor, WritePage, WriteTree, RestoreVersion
<1>5. ~ \/ \E p \in Pages, q \in Pages \cup {Root}, v \in load.texts : InsertPage(r, p, q, v)
        \/ \E p \in Pages, v \in load.texts : EditPage(r, p, v)
        \/ \E p \in Pages, q \in Pages \cup {Root} : LockPage(r, p, q)
  BY <1>2 DEF InsertPage, EditPage, LockPage
<1>6. ~ \/ \E p \in Pages, op \in {"archive", "unarchive"} : ReadTree(r, p, op)
        \/ \E p \in Pages, i \in 1..MaxPageVersions : ReadVersion(r, p, i)
        \/ \E p \in Pages \cup Docs, v \in load.texts : SendSnapshot(r, p, v.body)
  BY <1>2 DEF ReadTree, ReadVersion, SendSnapshot
<1>. QED
  BY <1>3, <1>4, <1>5, <1>6 DEF RequestStep

\* The snapshot is written: the page has what it carries.
LEMMA WriteStaysOwed ==
  ASSUME CollabInv, OwedInv, Undisturbed, RoomsAreApart, NEW r \in Requests,
         WriteSnapshot(r) \/ WriteDocumentSnapshot(r), UNCHANGED roomVars
  PROVE  OwedInv' /\ Stays
<1>. USE DEF CollabInv, WikiInv
<1>1. PICK q : q = req[r]
  OBVIOUS
<1>2. QuietOK
  BY DEF OwedInv
<1>3. q.at = "snapshot" /\ q.page = load.room /\ r \in load.requests
  BY <1>1, <1>2, OfRequest DEF WriteSnapshot, WriteDocumentSnapshot, QuietOK
<1>4. UNCHANGED <<room, ydoc, restarts, load, pages, docs>>
  BY DEF roomVars, WriteSnapshot, WriteDocumentSnapshot, ApplyCollabSnapshot,
         ApplyDocumentSnapshot, docVars, pageVars
<1>5. RoomText' = q.body
  <2>1. CASE WriteSnapshot(r)
    <3>1. load.room \in Pages /\ body' = [body EXCEPT ![load.room] = q.body]
      BY <1>1, <1>3, <2>1 DEF WriteSnapshot, ApplyCollabSnapshot, PgInv, RowsOK, TypeOK
    <3>2. body'[load.room] = q.body
      BY <3>1 DEF PgInv, RowsOK, TypeOK
    <3>. QED
      BY <1>4, <3>1, <3>2 DEF RoomText
  <2>2. CASE WriteDocumentSnapshot(r)
    <3>1. load.room \in Docs /\ docBody' = [docBody EXCEPT ![load.room] = q.body]
      BY <1>1, <1>3, <2>2 DEF WriteDocumentSnapshot, ApplyDocumentSnapshot, PgInv, RowsOK, TypeOK
    <3>2. docBody'[load.room] = q.body /\ load.room \notin Pages
      BY <3>1 DEF PgInv, RowsOK, TypeOK, RoomsAreApart
    <3>. QED
      BY <1>4, <3>2 DEF RoomText
  <2>. QED
    BY <2>1, <2>2
<1>6. req'[r].at \in {"get", "idle"}
  <2>1. PICK g : g = [at |-> "get", page |-> q.page]
    OBVIOUS
  <2>2. g.at = "get" /\ Idle.at = "idle"
    BY <2>1 DEF Idle
  <2>3. Goto(r, g) \/ Goto(r, Idle)
    BY <1>1, <2>1 DEF WriteSnapshot, WriteDocumentSnapshot
  <2>. QED
    BY <2>2, <2>3, GoesTo
<1>7. \A s \in Requests \ {r} : req'[s] = req[s] /\ req[s].at = "idle"
  <2>1. PICK g : Goto(r, g)
    BY DEF WriteSnapshot, WriteDocumentSnapshot
  <2>. QED
    BY <1>3, <2>1, OneAtWork DEF Goto, PgInv, RequestsOK
<1>8. QuietOK'
  BY <1>2, <1>4, <1>6, <1>7 DEF QuietOK
<1>9. ASSUME NEW c \in load.editors
      PROVE  OwesText(c)' /\ (RoomText[c] >= 1 => RoomText'[c] >= 1)
  <2>1. OwesText(c)
    BY DEF OwedInv
  <2>2. Sent(c)' = Sent(c) /\ StoreDue' = StoreDue
    BY <1>4 DEF Sent, KnownDoc, StoreDue
  <2>3. \A s \in Requests : req'[s].at # "snapshot"
    BY <1>6, <1>7
  <2>4. \A s \in Requests : Carries(s, c) => q.body[c] >= 1
    BY <1>1, <1>7 DEF Carries
  <2>5. (q.body[c] >= 1 => Sent(c)) /\ (RoomText[c] >= 1 => q.body[c] >= 1)
    BY <1>1, <1>3, <2>1 DEF OwesText
  <2>6. Sent(c) => q.body[c] >= 1 \/ StoreDue
    BY <2>1, <2>4, <2>5 DEF OwesText
  <2>. QED
    BY <1>5, <2>2, <2>3, <2>5, <2>6 DEF OwesText
<1>10. Undisturbed' = Undisturbed
  BY <1>4 DEF Undisturbed
<1>. QED
  BY <1>4, <1>8, <1>9, <1>10 DEF OwedInv, Stays

\* Its version is read and appended.
LEMMA VersionStaysOwed ==
  ASSUME CollabInv, OwedInv, Undisturbed, NEW r \in Requests,
         ReadBack(r) \/ AppendVersion(r), UNCHANGED roomVars
  PROVE  OwedInv' /\ Stays
<1>. USE DEF CollabInv, WikiInv
<1>1. QuietOK
  BY DEF OwedInv
<1>2. /\ req[r].at \in {"get", "append"}
      /\ UNCHANGED <<room, ydoc, restarts, load, pages, docs, body, docBody>>
  BY DEF roomVars, ReadBack, AppendVersion, AppendPageVersionIfChanged, vars, docVars, pageVars
<1>3. PICK g : Goto(r, g) /\ g.at \in {"append", "idle"}
  <2>1. PICK p : p = req[r].page
    OBVIOUS
  <2>2. PICK v : v = [body |-> body[p], status |-> status[p]]
    OBVIOUS
  <2>3. ToAppend(p, v).at = "append" /\ Idle.at = "idle"
    BY DEF ToAppend, Idle
  <2>4. Goto(r, ToAppend(p, v)) \/ Goto(r, Idle)
    BY <2>1, <2>2 DEF ReadBack, AppendVersion
  <2>. QED
    BY <2>3, <2>4
<1>4. req'[r].at \in {"append", "idle"} /\ \A s \in Requests \ {r} : req'[s] = req[s]
  BY <1>3, GoesTo DEF Goto, PgInv, RequestsOK
<1>5. RoomText' = RoomText /\ Undisturbed' = Undisturbed
  BY <1>2 DEF RoomText, Undisturbed
<1>6. QuietOK'
  BY <1>1, <1>2, <1>4 DEF QuietOK
<1>7. ASSUME NEW c \in load.editors PROVE OwesText(c)'
  <2>1. OwesText(c)
    BY DEF OwedInv
  <2>2. Sent(c)' = Sent(c) /\ StoreDue' = StoreDue
    BY <1>2 DEF Sent, KnownDoc, StoreDue
  <2>3. \A s \in Requests : Carries(s, c) => Carries(s, c)'
    <3>1. ~Carries(r, c)
      BY <1>2 DEF Carries
    <3>2. ASSUME NEW s \in Requests, s # r PROVE Carries(s, c) => Carries(s, c)'
      BY <1>2, <1>4, <3>2 DEF Carries
    <3>. QED
      BY <3>1, <3>2
  <2>4. \A s \in Requests : req'[s].at = "snapshot" => req'[s] = req[s]
    BY <1>4
  <2>. QED
    BY <1>5, <2>1, <2>2, <2>3, <2>4 DEF OwesText
<1>. QED
  BY <1>2, <1>5, <1>6, <1>7 DEF OwedInv, Stays

\* A document is made before anything is typed into it, and its text is written
\* by nothing else.
LEMMA DocumentStaysOwed ==
  ASSUME CollabInv, OwedInv, Undisturbed, NEW r \in Requests, NEW d \in Docs,
         \/ \E t \in Titles, v \in load.texts : NewDocument(r, d, t, v.body)
         \/ \E t \in Titles : RenameDocument(r, d, t)
         \/ DeleteDocument(r, d) \/ UndeleteDocument(r, d),
         UNCHANGED roomVars
  PROVE  OwedInv' /\ Stays
<1>. USE DEF CollabInv, WikiInv
<1>1. QuietOK
  BY DEF OwedInv
<1>2. UNCHANGED <<room, ydoc, restarts, load, req, body, pages>> /\ docs \subseteq docs'
  BY DEF roomVars, NewDocument, RenameDocument, DeleteDocument, UndeleteDocument,
         CreateDocument, UpdateDocumentTitle, TrashDocument, RestoreDocument, pageVars
<1>3. QuietOK' /\ Undisturbed' = Undisturbed
  BY <1>1, <1>2 DEF QuietOK, Undisturbed
<1>4. CASE RoomText' = RoomText
  <2>1. ASSUME NEW c \in load.editors PROVE OwesText(c)'
    BY <1>2, <1>4 DEF OwedInv, OwesText, Sent, KnownDoc, StoreDue, Carries
  <2>. QED
    BY <1>2, <1>3, <1>4, <2>1 DEF OwedInv, Stays
<1>5. CASE RoomText' # RoomText
  <2>1. PICK t \in Titles, v \in load.texts : CreateDocument(d, t, v.body)
    BY <1>2, <1>5 DEF RoomText, NewDocument, RenameDocument, DeleteDocument, UndeleteDocument,
                      UpdateDocumentTitle, TrashDocument, RestoreDocument
  <2>2. load.room = d /\ d \notin Pages
    BY <1>2, <1>5, <2>1, RoomWork DEF RoomText, CreateDocument, PgInv, RowsOK, TypeOK
  <2>3. load.room \notin pages \cup docs
    BY <2>1, <2>2 DEF CreateDocument, PgInv, RowsOK, TypeOK
  <2>4. ~room.loaded /\ ydoc = NoDoc
    BY <1>1, <2>3 DEF QuietOK, RoomOK
  <2>5. RoomText' = v.body
    BY <1>2, <2>1, <2>2 DEF RoomText, CreateDocument, PgInv, RowsOK, TypeOK
  <2>6. ASSUME NEW c \in load.editors PROVE ~(RoomText[c] >= 1) /\ OwesText(c)'
    <3>1. OwesText(c) /\ ~Sent(c) /\ Sent(c)' = Sent(c)
      BY <1>2, <2>4 DEF OwedInv, Sent, KnownDoc
    <3>2. ~(v.body[c] >= 1)
      <4>1. c \in Passages /\ v.body \in Bodies /\ v.body[c] <= 0
        BY RoomWork DEF Passages
      <4>2. v.body[c] \in Nat
        BY <4>1, BodyCounts
      <4>. QED
        BY <4>1, <4>2
    <3>. QED
      BY <1>2, <2>5, <3>1, <3>2 DEF OwesText
  <2>. QED
    BY <1>2, <1>3, <2>6 DEF OwedInv, Stays
<1>. QED
  BY <1>4, <1>5

LEMMA InitOwed ==
  ASSUME CollabInit
  PROVE  OwedInv
<1>1. CollabInv
  BY InitCollabInv
<1>2. /\ room = NoRoom /\ ydoc = NoDoc /\ restarts = 0
      /\ body = [p \in Pages |-> FirstBody] /\ docBody = [e \in Docs |-> FirstBody]
      /\ req = [r \in Requests |-> Idle]
  BY DEF CollabInit, PgInit
<1>3. \A r \in Requests : req[r].at = "idle"
  BY <1>2 DEF Idle
<1>4. QuietOK
  BY <1>2, <1>3 DEF QuietOK
<1>5. ASSUME NEW c \in load.editors PROVE OwesText(c)
  <2>1. RoomText = FirstBody
    BY <1>1, <1>2, RoomWork DEF RoomText, CollabInv, WikiInv
  <2>2. c \in Passages /\ c # First
    BY <1>1, RoomWork DEF CollabInv, WikiInv, Passages
  <2>3. FirstBody[c] = 0
    BY <2>2, CollabAssumption DEF CollabAssumption
  <2>4. ~room.loaded
    BY <1>2 DEF NoRoom
  <2>5. ~Sent(c)
    BY <1>2, <2>4 DEF Sent, KnownDoc
  <2>. QED
    BY <1>3, <2>1, <2>3, <2>5 DEF OwesText
<1>. QED
  BY <1>4, <1>5 DEF OwedInv

\* Nobody changes the workload.
LEMMA LoadStays ==
  ASSUME [CollabNext]_collabVars
  PROVE  load' = load
<1>1. ASSUME NEW r \in Requests, RestoreStep(r) \/ ApiStep(r) PROVE load' = load
  BY <1>1, NothingGoes DEF RestoreStep, ApiStep
<1>2. ASSUME NEW c \in Editors, EditorStep(c) PROVE load' = load
  BY <1>2, EditorFrame DEF pgVars
<1>3. ASSUME NEW r \in Requests, Store(r) PROVE load' = load
  BY <1>3 DEF Store
<1>. QED
  BY <1>1, <1>2, <1>3 DEF CollabNext, Unload, Restart, collabVars, pgVars

LEMMA NextOwed ==
  ASSUME CollabInv, OwedInv, NoDocIsNoDocument, RoomsAreApart, [CollabNext]_collabVars
  PROVE  OwedInv' /\ (Undisturbed => Stays)
<1>1. CASE ~Undisturbed
  <2>1. load' = load
    BY LoadStays
  <2>. QED
    BY <1>1, <2>1 DEF OwedInv, Undisturbed
<1>2. CASE Undisturbed
  <2>1. CASE UNCHANGED collabVars
    <3>1. UNCHANGED <<body, docBody, pages, docs, req, load, restarts, ydoc, room>>
      BY <2>1 DEF collabVars, roomVars, pgVars, vars, pageVars, docVars
    <3>2. \A c \in load.editors :
            /\ Sent(c) => Sent(c)'
            /\ OwesText(c) => OwesText(c)'
      BY <3>1 DEF OwesText, Sent, KnownDoc, StoreDue, Carries, RoomText
    <3>. QED
      BY <3>1, <3>2 DEF OwedInv, QuietOK, Undisturbed, Stays, RoomText
  <2>2. ASSUME NEW r \in Requests, RestoreStep(r) \/ ApiStep(r) PROVE OwedInv' /\ Stays
    <3>1. (RequestStep(r) \/ RestoreVersion(r)) /\ UNCHANGED roomVars
      BY <2>2 DEF RestoreStep, ApiStep
    <3>. QED
      BY <1>2, <3>1, QuietSteps, WriteStaysOwed, VersionStaysOwed, DocumentStaysOwed
  <2>3. ~Restart
    BY <1>2 DEF Undisturbed, Restart
  <2>. QED
    BY <1>2, <2>1, <2>2, <2>3, StoreStaysOwed, UnloadStaysOwed, TabStaysOwed DEF CollabNext
<1>. QED
  BY <1>1, <1>2

\* As long as nobody writes the page in another way, requests do not fail and the
\* server does not restart, what an editor has sent it is in the page, or in the
\* snapshot on its way, or the server owes a store, loads, drops and the last one's
\* leaving in whatever order: nothing is waited for but the debounce and the POST.
THEOREM SentIsOwedAlways ==
  ASSUME NoDocIsNoDocument, RoomsAreApart
  PROVE  CollabSpec => []SentIsOwed
<1>1. CollabInit => OwedInv
  BY InitOwed
<1>2. CollabInv /\ OwedInv /\ [CollabNext]_collabVars => OwedInv'
  BY NextOwed
<1>3. OwedInv => SentIsOwed
  BY DEF OwedInv, OwesText, SentIsOwed
<1>. QED
  BY <1>1, <1>2, <1>3, CollabInvAlways, PTL DEF CollabSpec

\* And once it is in the page it stays there: no snapshot that arrives is older
\* than the text it replaces.
THEOREM StaysInPageAlways ==
  ASSUME NoDocIsNoDocument, RoomsAreApart
  PROVE  CollabSpec => StaysInPage
<1>1. CollabInit => OwedInv
  BY InitOwed
<1>2. CollabInv /\ OwedInv /\ [CollabNext]_collabVars => OwedInv'
  BY NextOwed
<1>3. CollabInv /\ OwedInv /\ [CollabNext]_collabVars => [Undisturbed => Stays]_collabVars
  BY NextOwed
<1>. QED
  BY <1>1, <1>2, <1>3, CollabInvAlways, PTL DEF CollabSpec, StaysInPage
=============================================================================
