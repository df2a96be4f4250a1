------------------------------ MODULE ChatProofs ------------------------------
(***************************************************************************)
(* Proofs about Chat, for any pages and users, any number of messages and  *)
(* of open calls, and any faults.                                          *)
(*                                                                         *)
(* The argument: pages meet in the log and the cursors only, and both only *)
(* grow.  So it is enough that each thing a page does to its own state     *)
(* keeps that state in order (Fit), still has what it owes the server      *)
(* under way (Owes), and reports nothing it does not show (Adds); one      *)
(* lemma says so of each operator, and one that a step of one page on such *)
(* a state is a step of the whole.                                         *)
(***************************************************************************)
EXTENDS Chat, FiniteSetTheorems, SequenceTheorems, TLAPS

-----------------------------------------------------------------------------
(* Induction over the natural numbers, for a set in place of a predicate,  *)
(* and what it gives for finite sets of numbers: such a set can be listed  *)
(* in increasing order.                                                    *)

LEMMA SetInduction ==
  ASSUME NEW S, 0 \in S, \A n \in Nat : n \in S => n + 1 \in S
  PROVE  Nat \subseteq S
<1>. DEFINE R == OpToRel(<, Nat)
            T == Nat \ S
<1>1. IsWellFoundedOn(R, Nat)
  BY NatLessThanWellFounded
<1>2. SUFFICES ASSUME T # {} PROVE FALSE
  OBVIOUS
<1>. HIDE DEF R, T
<1>3. PICK n \in T : \A m \in T : ~(<<m, n>> \in R)
  BY <1>1, <1>2, WFMin DEF T
<1>4. n \in Nat /\ n \notin S /\ n # 0
  BY DEF T
<1>5. n - 1 \in Nat /\ n - 1 < n
  BY <1>4
<1>6. <<n - 1, n>> \in R
  BY <1>4, <1>5 DEF R, OpToRel
<1>7. n - 1 \in S
  BY <1>3, <1>5, <1>6 DEF T
<1>. QED
  BY <1>4, <1>5, <1>7

\* s lists members of S, smaller ones first.
Lists(s, S) ==
  /\ s \in [1..Cardinality(S) -> S]
  /\ \A i, j \in DOMAIN s : i < j => s[i] < s[j]

LEMMA ListsAdd ==
  ASSUME NEW n \in Nat, NEW S \in SUBSET (1..(n + 1)), n + 1 \in S,
         IsFiniteSet(S \ {n + 1}), NEW s, Lists(s, S \ {n + 1})
  PROVE  \E t : Lists(t, S)
<1>. DEFINE T == S \ {n + 1}
            m == Cardinality(T)
            t == [i \in 1..(m + 1) |-> IF i = m + 1 THEN n + 1 ELSE s[i]]
<1>1. T \cup {n + 1} = S /\ n + 1 \notin T
  OBVIOUS
<1>2. m \in Nat /\ Cardinality(S) = m + 1
  BY <1>1, FS_CardinalityType, FS_AddElement
<1>3. s \in [1..m -> T] /\ \A i, j \in 1..m : i < j => s[i] < s[j]
  BY DEF Lists
<1>4. \A x \in T : x \in S /\ x \in Nat /\ x < n + 1
  OBVIOUS
<1>. HIDE DEF T, m
<1>5. t \in [1..(m + 1) -> S]
  BY <1>2, <1>3, <1>4
<1>6. \A i, j \in 1..(m + 1) : i < j => t[i] < t[j]
  <2>. TAKE i, j \in 1..(m + 1)
  <2>. HAVE i < j
  <2>1. i \in 1..m /\ t[i] = s[i]
    BY <1>2
  <2>2. CASE j = m + 1
    BY <1>2, <1>3, <1>4, <2>1, <2>2
  <2>3. CASE j # m + 1
    BY <1>2, <1>3, <2>1, <2>3
  <2>. QED
    BY <2>2, <2>3
<1>. HIDE DEF t
<1>7. Lists(t, S)
  BY <1>2, <1>5, <1>6 DEF Lists
<1>. QED
  BY <1>7

\* Every set of numbers up to n can be listed.
LEMMA ListsExist ==
  ASSUME NEW n \in Nat, NEW S \in SUBSET (1..n)
  PROVE  IsFiniteSet(S) /\ \E s : Lists(s, S)
<1>. DEFINE P == {k \in Nat : \A T \in SUBSET (1..k) : IsFiniteSet(T) /\ \E s : Lists(s, T)}
<1>1. 0 \in P
  <2>1. ASSUME NEW T \in SUBSET (1..0)
        PROVE  IsFiniteSet(T) /\ \E s : Lists(s, T)
    <3>. DEFINE s == [i \in 1..0 |-> 0]
    <3>1. T = {}
      OBVIOUS
    <3>2. IsFiniteSet(T) /\ Cardinality(T) = 0
      BY <3>1, FS_EmptySet
    <3>3. s \in [1..0 -> T] /\ \A i, j \in 1..0 : i < j => s[i] < s[j]
      OBVIOUS
    <3>. HIDE DEF s
    <3>4. Lists(s, T)
      BY <3>2, <3>3 DEF Lists
    <3>. QED
      BY <3>2, <3>4
  <2>. QED
    BY <2>1
<1>2. ASSUME NEW k \in Nat, k \in P PROVE k + 1 \in P
  <2>1. ASSUME NEW T \in SUBSET (1..(k + 1))
        PROVE  IsFiniteSet(T) /\ \E s : Lists(s, T)
    <3>. DEFINE U == T \ {k + 1}
    <3>1. U \in SUBSET (1..k)
      OBVIOUS
    <3>2. IsFiniteSet(U) /\ \E s : Lists(s, U)
      BY <1>2, <3>1
    <3>3. CASE k + 1 \notin T
      <4>1. U = T
        BY <3>3
      <4>. QED
        BY <3>2, <4>1
    <3>4. CASE k + 1 \in T
      <4>1. U \cup {k + 1} = T
        BY <3>4
      <4>2. IsFiniteSet(T)
        BY <3>2, <4>1, FS_AddElement
      <4>3. \E s : Lists(s, T)
        BY <3>2, <3>4, ListsAdd
      <4>. QED
        BY <4>2, <4>3
    <3>. QED
      BY <3>3, <3>4
  <2>. QED
    BY <2>1
<1>. HIDE DEF P
<1>3. n \in P
  BY <1>1, <1>2, SetInduction
<1>. QED
  BY <1>3 DEF P

-----------------------------------------------------------------------------
(* Pages and calls.                                                        *)

\* What a call knows of a log of n messages.
CallFits(k, n) ==
  /\ k.arg <= n /\ k.result <= n
  /\ k.op = "read" => k.arg >= 1
  /\ k.op = "post" /\ ~k.served => k = Sent("post", 0)
  /\ k.op = "post" /\ k.served => k.result >= 1

\* A page in order: no repetition, lastSeq the newest message shown, nothing
\* reported beyond it.
Fit(t, n) ==
  /\ t \in Tab
  /\ IsInjective(t.messages)
  /\ t.lastSeq \in Shown(t) \cup {0}
  /\ \A m \in Shown(t) : m <= t.lastSeq
  /\ t.lastSeq <= n
  /\ t.markedSeq <= t.lastSeq
  /\ \A k \in t.calls : CallFits(k, n)

Owes(t, read) ==
  t.markedSeq = t.lastSeq =>
    t.lastSeq <= read \/ Sent("read", t.lastSeq) \in t.calls

\* From t to u no post is added, nor a report of what is not shown.
Adds(t, u) ==
  \A k \in u.calls \ t.calls :
    ~k.served => k.op # "post" /\ (k.op = "read" => k.arg \in Shown(u))

Posting == {c \in Tabs : Sent("post", 0) \in tab[c].calls}

\* There is room in the log for every post that is under way.
RoomInv == IsFiniteSet(Posting) /\ last + Cardinality(Posting) <= MaxMessages

IInv ==
  /\ last \in Seqs
  /\ cursor \in [Users -> Seqs] /\ \A u \in Users : cursor[u] <= last
  /\ tab \in [Tabs -> Tab]
  /\ \A c \in Tabs : Fit(tab[c], last) /\ Owes(tab[c], cursor[UserOf[c]])
  /\ RoomInv

\* What MarksWhatItShows says of one step.
Honest ==
  \A c \in Tabs : \A k \in tab'[c].calls \ tab[c].calls :
    k.op = "read" /\ ~k.served => k.arg \in Shown(tab'[c])

\* What is to be shown of every step.
Kept == IInv' /\ Honest /\ [Log!Next]_<<last, cursor>>

-----------------------------------------------------------------------------
(* The operators on a page.                                                *)

LEMMA SentType ==
  ASSUME NEW op \in {"post", "get", "read", "load"}, NEW arg \in Seqs
  PROVE  /\ Sent(op, arg) \in Call
         /\ Sent(op, arg).op = op /\ Sent(op, arg).arg = arg
         /\ Sent(op, arg).served = FALSE /\ Sent(op, arg).result = 0
BY ChatAssumption DEF Sent, Call, Seqs

LEMMA DrainFields ==
  ASSUME NEW t \in Tab, NEW k
  PROVE  LET u == Drain(t, k) IN
         /\ u \in Tab
         /\ u.mounted = t.mounted /\ u.messages = t.messages /\ u.lastSeq = t.lastSeq
         /\ u.markedSeq = t.markedSeq /\ u.awaited = t.awaited
         /\ u.up = t.up /\ u.ticket = t.ticket
         /\ u.calls = t.calls \ {k}
BY DEF Drain, Tab

LEMMA AskFields ==
  ASSUME NEW t \in Tab, NEW k \in Call
  PROVE  LET u == Ask(t, k) IN
         /\ u \in Tab
         /\ u.mounted = t.mounted /\ u.messages = t.messages /\ u.lastSeq = t.lastSeq
         /\ u.markedSeq = t.markedSeq /\ u.awaited = t.awaited
         /\ u.up = t.up /\ u.ticket = t.ticket
         /\ u.calls = t.calls \cup {k}
BY DEF Ask, Tab

LEMMA MarkFields ==
  ASSUME NEW t \in Tab, NEW seq \in Seqs
  PROVE  LET u == [t EXCEPT !.markedSeq = seq] IN
         /\ u \in Tab
         /\ u.messages = t.messages /\ u.lastSeq = t.lastSeq /\ u.markedSeq = seq
         /\ u.mounted = t.mounted /\ u.up = t.up /\ u.ticket = t.ticket
         /\ u.awaited = t.awaited /\ u.calls = t.calls
BY DEF Tab

\* Equal in all that Fit, Owes and Adds look at, but the calls.
Like(u, t) ==
  /\ u \in Tab /\ u.messages = t.messages
  /\ u.lastSeq = t.lastSeq /\ u.markedSeq = t.markedSeq

LEMMA DrainFits ==
  ASSUME NEW n \in Seqs, NEW t, Fit(t, n), NEW k
  PROVE  Fit(Drain(t, k), n) /\ Like(Drain(t, k), t) /\ Drain(t, k).calls = t.calls \ {k}
BY DrainFields DEF Fit, Like, Shown

LEMMA AskFits ==
  ASSUME NEW n \in Seqs, NEW t, Fit(t, n), NEW k \in Call, CallFits(k, n)
  PROVE  Fit(Ask(t, k), n) /\ Like(Ask(t, k), t) /\ Ask(t, k).calls = t.calls \cup {k}
BY AskFields DEF Fit, Like, Shown

LEMMA ShownType ==
  ASSUME NEW t \in Tab
  PROVE  /\ DOMAIN t.messages = 1..Len(t.messages) /\ Len(t.messages) \in Nat
         /\ \A i \in 1..Len(t.messages) : t.messages[i] \in Shown(t)
         /\ \A m \in Shown(t) : \E i \in 1..Len(t.messages) : m = t.messages[i]
         /\ \A m \in Shown(t) : m \in 1..MaxMessages /\ m \in Seqs /\ m >= 1
<1>1. t.messages \in Seq(1..MaxMessages)
  BY DEF Tab
<1>2. /\ DOMAIN t.messages = 1..Len(t.messages) /\ Len(t.messages) \in Nat
      /\ \A i \in 1..Len(t.messages) : t.messages[i] \in 1..MaxMessages
  BY <1>1, LenProperties, ElementOfSeq
<1>3. \A m : m \in Shown(t) <=> \E i \in 1..Len(t.messages) : m = t.messages[i]
  BY <1>2 DEF Shown, ToSet
<1>4. \A m \in 1..MaxMessages : m \in Seqs /\ m >= 1
  BY ChatAssumption DEF Seqs
<1>5. \A i \in 1..Len(t.messages) : t.messages[i] \in Shown(t)
  BY <1>3
<1>6. \A m \in Shown(t) : m \in 1..MaxMessages
  BY <1>2, <1>3
<1>. QED
  BY <1>2, <1>3, <1>4, <1>5, <1>6

\* What is shown is reported, or was already.
LEMMA SyncReadFits ==
  ASSUME NEW n \in Seqs, NEW t, Fit(t, n), NEW seq \in Shown(t) \cup {0}
  PROVE  LET u == SyncRead(t, seq) IN
         /\ Fit(u, n) /\ u.messages = t.messages /\ u.lastSeq = t.lastSeq
         /\ \A read : Owes(t, read) => Owes(u, read)
         /\ t.calls \subseteq u.calls /\ u.calls \subseteq t.calls \cup {Sent("read", seq)}
         /\ u.calls # t.calls => seq \in Shown(t) /\ seq >= 1
<1>1. CASE seq <= t.markedSeq
  BY <1>1 DEF SyncRead
<1>2. CASE ~(seq <= t.markedSeq)
  <2>. DEFINE v == [t EXCEPT !.markedSeq = seq]
              k == Sent("read", seq)
              u == Ask(v, k)
  <2>1. /\ t \in Tab /\ t.markedSeq \in Nat /\ t.lastSeq \in Nat /\ t.lastSeq <= n
        /\ t.messages \in Seq(1..MaxMessages) /\ n \in Nat
    BY ChatAssumption DEF Fit, Tab, Seqs
  <2>2. \A m \in Shown(t) : m \in 1..MaxMessages
    BY <2>1, ShownType
  <2>3. seq \in Shown(t)
    BY <1>2, <2>1
  <2>4. seq \in Seqs /\ seq >= 1 /\ seq <= t.lastSeq /\ seq <= n
    BY <2>1, <2>2, <2>3, ChatAssumption DEF Fit, Seqs
  <2>5. /\ v \in Tab /\ v.messages = t.messages /\ v.lastSeq = t.lastSeq
        /\ v.markedSeq = seq /\ v.calls = t.calls
    BY <2>1, <2>4, MarkFields
  <2>. HIDE DEF v
  <2>6. Fit(v, n)
    BY <2>1, <2>4, <2>5 DEF Fit, Shown
  <2>7. k \in Call /\ k.op = "read" /\ k.arg = seq /\ k.result = 0
    BY <2>4, SentType
  <2>8. CallFits(k, n)
    BY <2>1, <2>4, <2>7 DEF CallFits
  <2>9. SyncRead(t, seq) = u
    BY <1>2 DEF SyncRead, v
  <2>. HIDE DEF k
  <2>10. Fit(u, n) /\ Like(u, v) /\ u.calls = v.calls \cup {k}
    BY <2>6, <2>7, <2>8, AskFits
  <2>. HIDE DEF u
  <2>11. \A read : Owes(u, read)
    BY <2>5, <2>10 DEF Owes, Like, k
  <2>. QED
    BY <2>3, <2>4, <2>5, <2>9, <2>10, <2>11 DEF Like, k
<1>. QED
  BY <1>1, <1>2

\* The same page but for its calls and for what Fit and Owes do not look at.
LEMMA LikeFits ==
  ASSUME NEW n \in Seqs, NEW t, Fit(t, n), NEW u, Like(u, t), u.calls = t.calls
  PROVE  /\ Fit(u, n) /\ Shown(u) = Shown(t)
         /\ \A read : Owes(t, read) => Owes(u, read)
BY DEF Fit, Like, Shown, Owes

\* A longer log is no reason to change the page.
LEMMA LongerLogFits ==
  ASSUME NEW n \in Seqs, NEW o \in Seqs, n <= o, NEW t, Fit(t, n)
  PROVE  Fit(t, o)
<1>1. n \in Nat /\ o \in Nat /\ t.lastSeq \in Nat /\ t.calls \subseteq Call
  BY ChatAssumption DEF Fit, Tab, Seqs
<1>2. \A k \in t.calls : k.arg \in Nat /\ k.result \in Nat
  BY <1>1, ChatAssumption DEF Call, Seqs
<1>3. \A k \in t.calls : CallFits(k, o)
  BY <1>1, <1>2 DEF Fit, CallFits
<1>. QED
  BY <1>1, <1>3 DEF Fit

\* Messages that are not shown yet are added at the end.
LEMMA JoinedLists ==
  ASSUME NEW S, NEW a \in Seq(S), NEW b \in Seq(S), IsInjective(a), IsInjective(b),
         ToSet(a) \cap ToSet(b) = {}
  PROVE  /\ a \o b \in Seq(S) /\ IsInjective(a \o b)
         /\ ToSet(a \o b) = ToSet(a) \cup ToSet(b)
<1>. DEFINE m == Len(a)
            n == Len(b)
            c == a \o b
<1>1. /\ c \in Seq(S) /\ Len(c) = m + n
      /\ \A i \in 1..(m + n) : c[i] = IF i <= m THEN a[i] ELSE b[i - m]
  BY ConcatProperties
<1>2. /\ m \in Nat /\ n \in Nat /\ DOMAIN a = 1..m /\ DOMAIN b = 1..n
      /\ DOMAIN c = 1..(m + n)
  BY <1>1, LenProperties
<1>. HIDE DEF m, n, c
<1>3. \A i \in 1..(m + n) :
         IF i <= m THEN i \in 1..m /\ c[i] = a[i]
                   ELSE i - m \in 1..n /\ c[i] = b[i - m]
  BY <1>1, <1>2
<1>4. \A i \in 1..m : i \in 1..(m + n) /\ c[i] = a[i] /\ a[i] \in ToSet(a)
  BY <1>1, <1>2 DEF ToSet
<1>5. \A i \in 1..n : m + i \in 1..(m + n) /\ c[m + i] = b[i] /\ b[i] \in ToSet(b)
  <2>. TAKE i \in 1..n
  <2>1. m + i \in 1..(m + n) /\ ~(m + i <= m) /\ (m + i) - m = i
    BY <1>2
  <2>. QED
    BY <1>1, <1>2, <2>1 DEF ToSet
<1>6. \A i \in 1..(m + n) : IF i <= m THEN c[i] \in ToSet(a) ELSE c[i] \in ToSet(b)
  BY <1>2, <1>3 DEF ToSet
<1>7. IsInjective(c)
  <2>. SUFFICES ASSUME NEW i \in 1..(m + n), NEW j \in 1..(m + n), c[i] = c[j]
                PROVE  i = j
    BY <1>2 DEF IsInjective
  <2>1. CASE i <= m /\ j <= m
    BY <1>2, <1>3, <2>1 DEF IsInjective
  <2>2. CASE ~(i <= m) /\ ~(j <= m)
    <3>1. i - m = j - m
      BY <1>2, <1>3, <2>2 DEF IsInjective
    <3>. QED
      BY <1>2, <3>1
  <2>3. CASE (i <= m) # (j <= m)
    BY <1>6, <2>3
  <2>. QED
    BY <2>1, <2>2, <2>3
<1>8. \A x \in ToSet(c) : x \in ToSet(a) \cup ToSet(b)
  BY <1>2, <1>6 DEF ToSet
<1>9. \A x \in ToSet(a) : x \in ToSet(c)
  BY <1>2, <1>4 DEF ToSet
<1>10. \A x \in ToSet(b) : x \in ToSet(c)
  <2>. TAKE x \in ToSet(b)
  <2>1. PICK i \in 1..n : x = b[i]
    BY <1>2 DEF ToSet
  <2>. QED
    BY <1>2, <1>5, <2>1 DEF ToSet
<1>. QED
  BY <1>1, <1>7, <1>8, <1>9, <1>10 DEF c

LEMMA GrowFits ==
  ASSUME NEW n \in Seqs, NEW t, Fit(t, n),
         NEW extra \in Seq(1..MaxMessages), IsInjective(extra),
         ToSet(extra) \cap Shown(t) = {}, \A m \in ToSet(extra) : m <= n,
         NEW u \in Tab, u.messages = t.messages \o extra,
         u.markedSeq = t.markedSeq, u.calls = t.calls,
         u.lastSeq \in Shown(t) \cup ToSet(extra) \cup {0}, t.lastSeq <= u.lastSeq,
         \A m \in ToSet(extra) : m <= u.lastSeq
  PROVE  /\ Fit(u, n) /\ Shown(u) = Shown(t) \cup ToSet(extra)
         /\ \A read : Owes(t, read) => Owes(u, read)
<1>1. /\ t \in Tab /\ t.messages \in Seq(1..MaxMessages) /\ IsInjective(t.messages)
      /\ ToSet(t.messages) = Shown(t) /\ n \in Nat
      /\ t.lastSeq \in Nat /\ u.lastSeq \in Nat /\ t.markedSeq \in Nat
  BY ChatAssumption DEF Fit, Tab, Seqs, Shown
<1>2. IsInjective(u.messages) /\ Shown(u) = Shown(t) \cup ToSet(extra)
  BY <1>1, JoinedLists DEF Shown
<1>3. \A m \in Shown(t) : m \in Nat /\ m <= t.lastSeq /\ t.lastSeq <= n
  BY <1>1, ShownType DEF Fit
<1>4. \A m \in Shown(u) : m <= u.lastSeq
  BY <1>1, <1>2, <1>3
<1>5. u.lastSeq <= n
  BY <1>1, <1>3
<1>6. t.markedSeq <= t.lastSeq
  BY DEF Fit
<1>7. \A read : Owes(t, read) => Owes(u, read)
  BY <1>1, <1>6 DEF Owes
<1>. QED
  BY <1>1, <1>2, <1>4, <1>5, <1>6, <1>7 DEF Fit

\* Receive does that with a message not older than lastSeq.
LEMMA ReceiveFits ==
  ASSUME NEW n \in Seqs, NEW t, Fit(t, n),
         NEW m \in Seqs, m >= 1, t.lastSeq <= m, m <= n
  PROVE  LET u == Receive(t, m) IN
         /\ Fit(u, n) /\ u.lastSeq = m /\ u.calls = t.calls /\ m \in Shown(u)
         /\ \A read : Owes(t, read) => Owes(u, read)
<1>. DEFINE extra == IF m \in Shown(t) THEN <<>> ELSE <<m>>
            u == Receive(t, m)
<1>1. t \in Tab /\ t.messages \in Seq(1..MaxMessages) /\ m \in 1..MaxMessages
  BY ChatAssumption DEF Fit, Tab, Seqs
<1>2. /\ extra \in Seq(1..MaxMessages) /\ IsInjective(extra)
      /\ ToSet(extra) = IF m \in Shown(t) THEN {} ELSE {m}
  <2>1. CASE m \in Shown(t)
    BY <2>1 DEF IsInjective, ToSet
  <2>2. CASE m \notin Shown(t)
    <3>1. extra = <<m>> /\ DOMAIN <<m>> = {1} /\ <<m>>[1] = m
      BY <2>2
    <3>2. IsInjective(<<m>>) /\ ToSet(<<m>>) = {m}
      BY <3>1 DEF IsInjective, ToSet
    <3>3. <<m>> \in Seq(1..MaxMessages)
      BY <1>1
    <3>. QED
      BY <2>2, <3>1, <3>2, <3>3
  <2>. QED
    BY <2>1, <2>2
<1>3. t.messages \o extra = IF m \in Shown(t) THEN t.messages ELSE Append(t.messages, m)
  BY <1>1, AppendIsConcat, ConcatEmptySeq
<1>4. t.messages \o extra \in Seq(1..MaxMessages)
  BY <1>1, <1>2, ConcatProperties
<1>. HIDE DEF extra
<1>5. u = [t EXCEPT !.lastSeq = m, !.messages = t.messages \o extra]
  BY <1>3 DEF Receive
<1>6. /\ u \in Tab /\ u.messages = t.messages \o extra /\ u.lastSeq = m
      /\ u.markedSeq = t.markedSeq /\ u.calls = t.calls
  BY <1>1, <1>4, <1>5 DEF Tab
<1>. HIDE DEF u
<1>7. /\ Fit(u, n) /\ Shown(u) = Shown(t) \cup ToSet(extra)
      /\ \A read : Owes(t, read) => Owes(u, read)
  <2>1. /\ ToSet(extra) \cap Shown(t) = {}
        /\ \A x \in ToSet(extra) : x <= n
        /\ u.lastSeq \in Shown(t) \cup ToSet(extra) \cup {0}
        /\ t.lastSeq <= u.lastSeq
        /\ \A x \in ToSet(extra) : x <= u.lastSeq
    BY <1>1, <1>2, <1>6
  <2>. QED
    BY <1>2, <1>6, <2>1, GrowFits
<1>. QED
  BY <1>2, <1>6, <1>7 DEF u

\* What is fetched is new, in order, and within what was listed.
LEMMA FetchedIsNew ==
  ASSUME NEW n \in Seqs, NEW t \in Tab, NEW k \in Call, k.result <= n
  PROVE  LET e == Fetched(t, k) IN
         /\ e \in Seq(1..MaxMessages) /\ IsInjective(e)
         /\ ToSet(e) \cap Shown(t) = {} /\ \A m \in ToSet(e) : m <= n
         /\ e = <<>> => ToSet(e) = {}
         /\ e # <<>> => /\ e[Len(e)] \in ToSet(e)
                        /\ \A m \in ToSet(e) : m <= e[Len(e)]
<1>. DEFINE S == ((k.arg + 1)..k.result) \ Shown(t)
            e == Fetched(t, k)
            c == Cardinality(S)
<1>1. MaxMessages \in Nat /\ n \in Nat /\ k.arg \in Nat /\ k.result \in Nat /\ n <= MaxMessages
  BY ChatAssumption DEF Call, Seqs
<1>2. S \in SUBSET (1..MaxMessages) /\ \A m \in S : m \in Nat /\ m <= n /\ m \notin Shown(t)
  BY <1>1
<1>. HIDE DEF S
<1>3. IsFiniteSet(S) /\ \E s : Lists(s, S)
  BY <1>1, <1>2, ListsExist
<1>4. e = Ascending(S)
  BY DEF Fetched, S
<1>. HIDE DEF e
<1>5. Lists(e, S)
  BY <1>3, <1>4 DEF Lists, Ascending
<1>6. c \in Nat
  BY <1>3, FS_CardinalityType
<1>. HIDE DEF c
<1>7. /\ e \in [1..c -> S] /\ DOMAIN e = 1..c
      /\ \A i, j \in 1..c : i < j => e[i] < e[j]
  BY <1>5 DEF Lists, c
<1>8. e \in Seq(1..MaxMessages) /\ Len(e) = c
  <2>1. e \in [1..c -> 1..MaxMessages]
    BY <1>2, <1>7
  <2>2. e \in Seq(1..MaxMessages)
    BY <1>6, <2>1, SeqDef
  <2>3. DOMAIN e = 1..Len(e) /\ Len(e) \in Nat
    BY <2>2, LenProperties
  <2>. QED
    BY <1>6, <1>7, <2>2, <2>3
<1>9. IsInjective(e)
  <2>. SUFFICES ASSUME NEW i \in 1..c, NEW j \in 1..c, e[i] = e[j]
                PROVE  i = j
    BY <1>7 DEF IsInjective
  <2>1. e[i] \in Nat /\ e[j] \in Nat
    BY <1>2, <1>7
  <2>. QED
    BY <1>6, <1>7, <2>1
<1>10. \A m \in ToSet(e) : m \in S /\ \E i \in 1..c : m = e[i]
  BY <1>7 DEF ToSet
<1>11. e = <<>> => ToSet(e) = {}
  BY DEF ToSet
<1>12. e # <<>> => c \in 1..c
  BY <1>6, <1>8, EmptySeq
<1>13. \A m \in ToSet(e) : e # <<>> => e[c] \in ToSet(e) /\ m <= e[c]
  <2>. SUFFICES ASSUME NEW i \in 1..c, e # <<>>
                PROVE  e[c] \in ToSet(e) /\ e[i] <= e[c]
    BY <1>10
  <2>1. e[i] \in Nat /\ e[c] \in Nat
    BY <1>2, <1>7, <1>12
  <2>2. i < c => e[i] < e[c]
    BY <1>7, <1>12
  <2>. QED
    BY <1>6, <1>7, <1>12, <2>1, <2>2 DEF ToSet
<1>14. e # <<>> => e[Len(e)] \in ToSet(e)
  BY <1>7, <1>8, <1>12 DEF ToSet
<1>. QED
  BY <1>2, <1>8, <1>9, <1>10, <1>11, <1>13, <1>14 DEF e

LEMMA CaughtUpFits ==
  ASSUME NEW n \in Seqs, NEW t, Fit(t, n), NEW k \in Call, k.result <= n
  PROVE  LET u == CaughtUp(t, k) IN
         /\ Fit(u, n) /\ u.calls = t.calls /\ Shown(t) \subseteq Shown(u)
         /\ \A read : Owes(t, read) => Owes(u, read)
<1>. DEFINE extra == Fetched(t, k)
            newest == IF extra = <<>> THEN t.lastSeq ELSE Larger(t.lastSeq, extra[Len(extra)])
            u == CaughtUp(t, k)
<1>1. /\ t \in Tab /\ t.messages \in Seq(1..MaxMessages) /\ t.lastSeq \in Seqs
      /\ MaxMessages \in Nat
  BY ChatAssumption DEF Fit, Tab
<1>2. /\ extra \in Seq(1..MaxMessages) /\ IsInjective(extra)
      /\ ToSet(extra) \cap Shown(t) = {} /\ \A m \in ToSet(extra) : m <= n
      /\ extra = <<>> => ToSet(extra) = {}
      /\ extra # <<>> => /\ extra[Len(extra)] \in ToSet(extra)
                         /\ \A m \in ToSet(extra) : m <= extra[Len(extra)]
  BY <1>1, FetchedIsNew
<1>3. u = [t EXCEPT !.messages = t.messages \o extra, !.lastSeq = newest]
  BY DEF CaughtUp
<1>. HIDE DEF extra
<1>4. \A m \in ToSet(extra) : m \in 1..MaxMessages
  <2>1. DOMAIN extra = 1..Len(extra) /\ \A i \in 1..Len(extra) : extra[i] \in 1..MaxMessages
    BY <1>2, LenProperties, ElementOfSeq
  <2>. QED
    BY <2>1 DEF ToSet
<1>5. /\ newest \in Seqs /\ newest \in Shown(t) \cup ToSet(extra) \cup {0}
      /\ t.lastSeq <= newest /\ \A m \in ToSet(extra) : m <= newest
  <2>1. t.lastSeq \in Shown(t) \cup {0}
    BY DEF Fit
  <2>2. CASE extra = <<>>
    BY <1>1, <1>2, <2>1, <2>2 DEF Seqs
  <2>3. CASE extra # <<>>
    <3>. DEFINE x == extra[Len(extra)]
    <3>1. /\ x \in ToSet(extra) /\ x \in 1..MaxMessages /\ newest = Larger(t.lastSeq, x)
          /\ \A m \in ToSet(extra) : m <= x
      BY <1>2, <1>4, <2>3
    <3>. HIDE DEF x, newest
    <3>. QED
      BY <1>1, <1>4, <2>1, <3>1 DEF Larger, Seqs
  <2>. QED
    BY <2>2, <2>3
<1>. HIDE DEF newest, u
<1>6. t.messages \o extra \in Seq(1..MaxMessages)
  BY <1>1, <1>2, ConcatProperties
<1>7. /\ u \in Tab /\ u.messages = t.messages \o extra /\ u.lastSeq = newest
      /\ u.markedSeq = t.markedSeq /\ u.calls = t.calls
  BY <1>1, <1>3, <1>5, <1>6 DEF Tab
<1>8. /\ Fit(u, n) /\ Shown(u) = Shown(t) \cup ToSet(extra)
      /\ \A read : Owes(t, read) => Owes(u, read)
  BY <1>2, <1>5, <1>7, GrowFits
<1>. QED
  BY <1>7, <1>8 DEF u

\* The page as rendered, with r messages.
LEMMA LoadedFits ==
  ASSUME NEW n \in Seqs, NEW t, Fit(t, n), NEW r \in Seqs, r <= n, NEW read \in Nat
  PROVE  LET u == Loaded(t, r) IN
         /\ Fit(u, n) /\ Owes(u, read) /\ t.calls \subseteq u.calls
         /\ \A k \in u.calls \ t.calls : k = Sent("read", r) /\ r \in Shown(u)
<1>. DEFINE list == [i \in 1..r |-> i]
            v == [t EXCEPT !.mounted = TRUE, !.messages = list,
                           !.lastSeq = r, !.markedSeq = 0,
                           !.up = FALSE, !.ticket = TRUE]
<1>1. t \in Tab /\ r \in Nat /\ MaxMessages \in Nat /\ r <= MaxMessages /\ 0 \in Seqs
  BY ChatAssumption DEF Fit, Seqs
<1>2. list \in Seq(1..MaxMessages)
  <2>1. list \in [1..r -> 1..MaxMessages]
    BY <1>1
  <2>. QED
    BY <1>1, <2>1, SeqDef
<1>3. IsInjective(list) /\ ToSet(list) = 1..r
  <2>1. DOMAIN list = 1..r /\ \A i \in 1..r : list[i] = i
    OBVIOUS
  <2>. HIDE DEF list
  <2>. QED
    BY <2>1 DEF IsInjective, ToSet
<1>. HIDE DEF list
<1>4. /\ v \in Tab /\ v.messages = list /\ v.lastSeq = r /\ v.markedSeq = 0
      /\ v.calls = t.calls
  BY <1>1, <1>2 DEF Tab
<1>5. Loaded(t, r) = IF t.mounted THEN v ELSE SyncRead(v, r)
  BY DEF Loaded, list
<1>. HIDE DEF v
<1>6. Shown(v) = 1..r
  BY <1>3, <1>4 DEF Shown
<1>7. Fit(v, n)
  BY <1>1, <1>3, <1>4, <1>6 DEF Fit
<1>8. Owes(v, read)
  BY <1>1, <1>4 DEF Owes
<1>9. r \in Shown(v) \cup {0}
  BY <1>1, <1>6
<1>10. LET u == SyncRead(v, r) IN
       /\ Fit(u, n) /\ u.messages = v.messages /\ Owes(u, read)
       /\ v.calls \subseteq u.calls /\ u.calls \subseteq v.calls \cup {Sent("read", r)}
       /\ u.calls # v.calls => r \in Shown(v)
  BY <1>7, <1>8, <1>9, SyncReadFits
<1>11. Shown(SyncRead(v, r)) = Shown(v)
  BY <1>10 DEF Shown
<1>. QED
  BY <1>4, <1>5, <1>7, <1>8, <1>10, <1>11

LEMMA AwaitedLike ==
  ASSUME NEW t \in Tab, NEW m \in Seqs
  PROVE  LET u == [t EXCEPT !.awaited = m] IN Like(u, t) /\ u.calls = t.calls
BY DEF Tab, Like

LEMMA OwnPostFits ==
  ASSUME NEW n \in Seqs, NEW t, Fit(t, n), NEW m \in Seqs, m >= 1, m <= n
  PROVE  LET u == OwnPost(t, m) IN
         /\ Fit(u, n) /\ t.calls \subseteq u.calls
         /\ \A read : Owes(t, read) => Owes(u, read)
         /\ \A k \in u.calls \ t.calls : k = Sent("read", m) /\ m \in Shown(u)
<1>1. CASE m < t.lastSeq
  BY <1>1 DEF OwnPost
<1>2. CASE ~(m < t.lastSeq)
  <2>. DEFINE v == Receive(t, m)
              w == SyncRead(v, m)
              u == [w EXCEPT !.awaited = IF m <= t.markedSeq THEN 0 ELSE m]
  <2>1. t.lastSeq <= m
    BY <1>2 DEF Fit, Tab, Seqs
  <2>2. /\ Fit(v, n) /\ v.calls = t.calls /\ m \in Shown(v)
        /\ \A read : Owes(t, read) => Owes(v, read)
    BY <2>1, ReceiveFits
  <2>. HIDE DEF v
  <2>3. /\ Fit(w, n) /\ w.messages = v.messages
        /\ \A read : Owes(v, read) => Owes(w, read)
        /\ v.calls \subseteq w.calls /\ w.calls \subseteq v.calls \cup {Sent("read", m)}
    BY <2>2, SyncReadFits
  <2>4. OwnPost(t, m) = u
    BY <1>2 DEF OwnPost, v
  <2>. HIDE DEF w
  <2>5. Like(u, w) /\ u.calls = w.calls
    <3>1. w \in Tab /\ 0 \in Seqs
      BY <2>3, ChatAssumption DEF Fit, Seqs
    <3>. QED
      BY <3>1, AwaitedLike
  <2>. HIDE DEF u
  <2>6. /\ Fit(u, n) /\ Shown(u) = Shown(w)
        /\ \A read : Owes(w, read) => Owes(u, read)
    BY <2>3, <2>5, LikeFits
  <2>7. Shown(w) = Shown(v)
    BY <2>3 DEF Shown
  <2>. QED
    BY <2>2, <2>3, <2>4, <2>5, <2>6, <2>7
<1>. QED
  BY <1>1, <1>2

\* A call leaves, and with it nothing that was owed unless it was a report that
\* the server has not received.
LEMMA DrainOwes ==
  ASSUME NEW t \in Tab, NEW k \in Call, NEW read, NEW later \in Nat,
         Owes(t, read), read \in Nat, read <= later,
         k.op # "read" \/ k.served \/ k.arg <= later
  PROVE  Owes(Drain(t, k), later)
<1>. DEFINE u == Drain(t, k)
<1>1. u.markedSeq = t.markedSeq /\ u.lastSeq = t.lastSeq /\ u.calls = t.calls \ {k}
  BY DrainFields
<1>. HIDE DEF u
<1>2. t.lastSeq \in Seqs /\ t.lastSeq \in Nat
  BY ChatAssumption DEF Tab, Seqs
<1>3. CASE k = Sent("read", t.lastSeq)
  <2>1. t.lastSeq <= later
    BY <1>2, <1>3, SentType
  <2>. QED
    BY <1>1, <2>1 DEF Owes, u
<1>4. CASE k # Sent("read", t.lastSeq)
  <2>1. t.lastSeq <= read => t.lastSeq <= later
    BY <1>2
  <2>. QED
    BY <1>1, <1>4, <2>1 DEF Owes, u
<1>. QED
  BY <1>3, <1>4

LEMMA AskOwes ==
  ASSUME NEW t \in Tab, NEW k \in Call, NEW read, Owes(t, read)
  PROVE  Owes(Ask(t, k), read)
BY AskFields DEF Owes

LEMMA ResumeLike ==
  ASSUME NEW t \in Tab, NEW k \in Call
  PROVE  Like(Resume(t, k), t) /\ Resume(t, k).calls = t.calls
<1>1. 0 \in Seqs
  BY ChatAssumption DEF Seqs
<1>. QED
  BY <1>1, AwaitedLike DEF Resume, Like

\* A call that failed: the page owes again what it had reported with it.
LEMMA FailedFits ==
  ASSUME NEW n \in Seqs, NEW t, Fit(t, n), NEW k \in t.calls, NEW read, Owes(t, read)
  PROVE  LET u == AfterFailure(Drain(t, k), k) IN
         Fit(u, n) /\ Owes(u, read) /\ u.calls = t.calls \ {k}
<1>. DEFINE v == Drain(t, k)
            w == Resume(v, k)
            u == AfterFailure(v, k)
<1>1. /\ t \in Tab /\ k \in Call /\ CallFits(k, n) /\ t.markedSeq <= t.lastSeq
      /\ t.markedSeq \in Nat /\ t.lastSeq \in Nat /\ t.lastSeq \in Seqs /\ k.arg \in Nat
      /\ k.arg <= MaxMessages /\ MaxMessages \in Nat
  BY ChatAssumption DEF Fit, Tab, Seqs, Call
<1>2. Fit(v, n) /\ Like(v, t) /\ v.calls = t.calls \ {k}
  BY DrainFits
<1>. HIDE DEF v
<1>3. Like(w, v) /\ w.calls = v.calls
  BY <1>1, <1>2, ResumeLike DEF Fit
<1>. HIDE DEF w
<1>4. Fit(w, n)
  BY <1>2, <1>3, LikeFits
<1>5. CASE k.op = "read" /\ k.arg - 1 < v.markedSeq
  <2>1. k.arg - 1 \in Nat /\ k.arg - 1 \in Seqs /\ k.arg - 1 < t.markedSeq
    BY <1>1, <1>2, <1>5 DEF CallFits, Like, Seqs
  <2>2. u = [w EXCEPT !.markedSeq = k.arg - 1]
    BY <1>5 DEF AfterFailure, w
  <2>. HIDE DEF u
  <2>3. w \in Tab
    BY <1>4 DEF Fit
  <2>4. /\ u \in Tab /\ u.messages = w.messages /\ u.lastSeq = w.lastSeq
        /\ u.markedSeq = k.arg - 1 /\ u.calls = w.calls
    BY <2>1, <2>2, <2>3, MarkFields
  <2>5. u.lastSeq = t.lastSeq /\ u.markedSeq < t.lastSeq
    BY <1>1, <1>2, <1>3, <2>1, <2>4 DEF Like
  <2>6. Fit(u, n)
    BY <1>1, <1>4, <2>1, <2>4, <2>5 DEF Fit, Shown
  <2>7. Owes(u, read)
    BY <1>1, <2>1, <2>4, <2>5 DEF Owes
  <2>. QED
    BY <1>2, <1>3, <2>4, <2>6, <2>7 DEF u, v
<1>6. CASE ~(k.op = "read" /\ k.arg - 1 < v.markedSeq)
  <2>1. u = w
    BY <1>6 DEF AfterFailure, w
  <2>2. ~(k.op = "read" /\ k.arg - 1 < t.markedSeq)
    BY <1>2, <1>6 DEF Like
  <2>. HIDE DEF u
  <2>3. t.markedSeq = t.lastSeq => k # Sent("read", t.lastSeq)
    <3>. SUFFICES ASSUME t.markedSeq = t.lastSeq, k = Sent("read", t.lastSeq) PROVE FALSE
      OBVIOUS
    <3>1. k.op = "read" /\ k.arg = t.lastSeq
      BY <1>1, SentType
    <3>. QED
      BY <1>1, <2>2, <3>1
  <2>4. u.markedSeq = t.markedSeq /\ u.lastSeq = t.lastSeq /\ u.calls = t.calls \ {k}
    BY <1>2, <1>3, <2>1 DEF Like
  <2>5. Owes(u, read)
    BY <2>3, <2>4 DEF Owes
  <2>. QED
    BY <1>4, <2>1, <2>4, <2>5 DEF u, v
<1>. QED
  BY <1>5, <1>6

-----------------------------------------------------------------------------
(* A step of one page is a step of the whole.                              *)

LEMMA StepOn ==
  ASSUME IInv, NEW c \in Tabs, NEW u, tab' = [tab EXCEPT ![c] = u],
         last' \in Seqs, last <= last', cursor' \in [Users -> Seqs],
         \A x \in Users : cursor[x] <= cursor'[x] /\ cursor'[x] <= last',
         Fit(u, last'), Owes(u, cursor'[UserOf[c]]), RoomInv',
         \A k \in u.calls \ tab[c].calls :
           k.op = "read" /\ ~k.served => k.arg \in Shown(u)
  PROVE  IInv' /\ Honest
<1>1. /\ u \in Tab /\ tab \in [Tabs -> Tab] /\ last \in Seqs /\ cursor \in [Users -> Seqs]
      /\ \A d \in Tabs : Fit(tab[d], last) /\ Owes(tab[d], cursor[UserOf[d]])
      /\ \A d \in Tabs : UserOf[d] \in Users /\ tab[d] \in Tab
  BY ChatAssumption DEF Fit, IInv
<1>2. /\ tab' \in [Tabs -> Tab] /\ tab'[c] = u
      /\ \A d \in Tabs \ {c} : tab'[d] = tab[d]
  BY <1>1
<1>3. ASSUME NEW d \in Tabs
      PROVE  Fit(tab'[d], last') /\ Owes(tab'[d], cursor'[UserOf[d]])
  <2>1. CASE d = c
    BY <1>2, <2>1
  <2>2. CASE d # c
    <3>1. tab'[d] = tab[d]
      BY <1>2, <2>2
    <3>2. Fit(tab[d], last')
      BY <1>1, LongerLogFits
    <3>3. /\ tab[d].lastSeq \in Nat /\ cursor[UserOf[d]] \in Nat /\ cursor'[UserOf[d]] \in Nat
          /\ cursor[UserOf[d]] <= cursor'[UserOf[d]]
      BY <1>1, ChatAssumption DEF Tab, Seqs
    <3>4. Owes(tab[d], cursor'[UserOf[d]])
      BY <1>1, <3>3 DEF Owes
    <3>. QED
      BY <3>1, <3>2, <3>4
  <2>. QED
    BY <2>1, <2>2
<1>4. IInv'
  BY <1>2, <1>3 DEF IInv
<1>5. Honest
  <2>. SUFFICES ASSUME NEW d \in Tabs, NEW k \in tab'[d].calls \ tab[d].calls,
                       k.op = "read" /\ ~k.served
                PROVE  k.arg \in Shown(tab'[d])
    BY DEF Honest
  <2>. QED
    BY <1>2
<1>. QED
  BY <1>4, <1>5

\* The posts under way are those of fewer pages, in the same log.
LEMMA RoomStays ==
  ASSUME RoomInv, Posting' \subseteq Posting, last' = last, last \in Seqs
  PROVE  RoomInv'
<1>1. IsFiniteSet(Posting') /\ Cardinality(Posting') <= Cardinality(Posting)
  BY FS_Subset DEF RoomInv
<1>2. Cardinality(Posting) \in Nat /\ Cardinality(Posting') \in Nat
  BY <1>1, FS_CardinalityType DEF RoomInv
<1>3. last \in Nat /\ MaxMessages \in Nat
  BY ChatAssumption DEF Seqs
<1>4. last' + Cardinality(Posting') <= MaxMessages
  BY <1>1, <1>2, <1>3 DEF RoomInv
<1>. QED
  BY <1>1, <1>4 DEF RoomInv

\* A step on one page that leaves the log and the cursors alone.
LEMMA PageStep ==
  ASSUME IInv, NEW c \in Tabs, NEW u, tab' = [tab EXCEPT ![c] = u],
         UNCHANGED <<last, cursor>>,
         Fit(u, last), Owes(u, cursor[UserOf[c]]), Adds(tab[c], u)
  PROVE  Kept
<1>1. /\ last \in Seqs /\ cursor \in [Users -> Seqs] /\ tab \in [Tabs -> Tab] /\ RoomInv
      /\ \A x \in Users : cursor[x] <= last
  BY DEF IInv
<1>2. Posting' \subseteq Posting
  <2>. SUFFICES ASSUME NEW d \in Tabs, Sent("post", 0) \in tab'[d].calls
                PROVE  Sent("post", 0) \in tab[d].calls
    BY DEF Posting
  <2>1. ~(Sent("post", 0) \in u.calls \ tab[c].calls)
    BY DEF Adds, Sent
  <2>. QED
    BY <1>1, <2>1
<1>3. RoomInv'
  BY <1>1, <1>2, RoomStays
<1>4. \A x \in Users : cursor[x] <= cursor'[x] /\ cursor'[x] <= last'
  BY <1>1, ChatAssumption DEF Seqs
<1>5. /\ last' \in Seqs /\ last <= last' /\ cursor' \in [Users -> Seqs]
      /\ Fit(u, last') /\ Owes(u, cursor'[UserOf[c]])
  BY <1>1, ChatAssumption DEF Seqs
<1>6. \A k \in u.calls \ tab[c].calls :
         k.op = "read" /\ ~k.served => k.arg \in Shown(u)
  BY DEF Adds
<1>7. IInv' /\ Honest
  BY <1>3, <1>4, <1>5, <1>6, StepOn
<1>. QED
  BY <1>7 DEF Kept

-----------------------------------------------------------------------------
(* The page's steps.                                                       *)

LEMMA OfPage ==
  ASSUME IInv, NEW c \in Tabs
  PROVE  /\ last \in Seqs /\ last \in Nat /\ cursor[UserOf[c]] \in Nat
         /\ tab[c] \in Tab /\ Fit(tab[c], last) /\ Owes(tab[c], cursor[UserOf[c]])
         /\ \A k \in tab[c].calls : k \in Call /\ CallFits(k, last)
                                  /\ k.arg \in Seqs /\ k.result \in Seqs
<1>1. /\ last \in Seqs /\ tab[c] \in Tab /\ Fit(tab[c], last)
      /\ Owes(tab[c], cursor[UserOf[c]]) /\ cursor[UserOf[c]] \in Seqs
  BY ChatAssumption DEF IInv
<1>2. \A k \in tab[c].calls : k \in Call /\ CallFits(k, last)
  BY <1>1 DEF Fit, Tab
<1>. QED
  BY <1>1, <1>2, ChatAssumption DEF Seqs, Call

LEMMA AnsweredOwes ==
  ASSUME NEW t \in Tab, NEW k \in Call, NEW read \in Nat, Owes(t, read),
         k.op # "read" \/ k.served
  PROVE  Owes(Drain(t, k), read)
<1>1. read <= read
  OBVIOUS
<1>. QED
  BY <1>1, DrainOwes

LEMMA ReplyLoadKeeps ==
  ASSUME IInv, NEW c \in Tabs, ReplyLoad(c)
  PROVE  Kept
<1>1. PICK k \in tab[c].calls :
        /\ k.op = "load" /\ k.served
        /\ tab' = [tab EXCEPT ![c] = Loaded(Drain(tab[c], k), k.result)]
        /\ UNCHANGED <<last, cursor>>
  BY DEF ReplyLoad
<1>. DEFINE v == Drain(tab[c], k)
            u == Loaded(v, k.result)
<1>2. k.result \in Seqs /\ k.result <= last
  BY OfPage DEF CallFits
<1>3. Fit(v, last) /\ v.calls = tab[c].calls \ {k}
  BY OfPage, DrainFits
<1>. HIDE DEF v
<1>4. /\ Fit(u, last) /\ Owes(u, cursor[UserOf[c]])
      /\ \A j \in u.calls \ v.calls : j = Sent("read", k.result) /\ k.result \in Shown(u)
  BY <1>2, <1>3, OfPage, LoadedFits
<1>. HIDE DEF u
<1>5. Adds(tab[c], u)
  <2>1. Sent("read", k.result).op = "read" /\ Sent("read", k.result).arg = k.result
    BY <1>2, SentType
  <2>. QED
    BY <1>3, <1>4, <2>1 DEF Adds
<1>. QED
  BY <1>1, <1>4, <1>5, PageStep DEF u, v

LEMMA ReplyGetKeeps ==
  ASSUME IInv, NEW c \in Tabs, ReplyGet(c)
  PROVE  Kept
<1>1. PICK k \in tab[c].calls :
        /\ k.op = "get" /\ k.served
        /\ \E seq \in {Drain(tab[c], k).lastSeq, CaughtUp(Drain(tab[c], k), k).lastSeq} :
             tab' = [tab EXCEPT ![c] = SyncRead(CaughtUp(Drain(tab[c], k), k), seq)]
        /\ UNCHANGED <<last, cursor>>
  BY DEF ReplyGet
<1>. DEFINE v == Drain(tab[c], k)
            w == CaughtUp(v, k)
<1>2. PICK seq \in {v.lastSeq, w.lastSeq} : tab' = [tab EXCEPT ![c] = SyncRead(w, seq)]
  BY <1>1
<1>. DEFINE u == SyncRead(w, seq)
<1>3. k \in Call /\ k.result <= last
  BY OfPage DEF CallFits
<1>4. Fit(v, last) /\ v.calls = tab[c].calls \ {k}
  BY OfPage, DrainFits
<1>5. Owes(v, cursor[UserOf[c]])
  BY <1>1, OfPage, AnsweredOwes
<1>. HIDE DEF v
<1>6. /\ Fit(w, last) /\ w.calls = v.calls /\ Shown(v) \subseteq Shown(w)
      /\ Owes(w, cursor[UserOf[c]])
  BY <1>3, <1>4, <1>5, OfPage, CaughtUpFits
<1>. HIDE DEF w
<1>7. seq \in Shown(w) \cup {0}
  BY <1>4, <1>6 DEF Fit
<1>8. /\ Fit(u, last) /\ u.messages = w.messages /\ Owes(u, cursor[UserOf[c]])
      /\ u.calls \subseteq w.calls \cup {Sent("read", seq)}
      /\ u.calls # w.calls => seq \in Shown(w)
      /\ w.calls \subseteq u.calls
  BY <1>6, <1>7, OfPage, SyncReadFits
<1>. HIDE DEF u
<1>9. seq \in Shown(w) => seq \in Seqs
  BY <1>6, ShownType DEF Fit
<1>10. Adds(tab[c], u)
  <2>. SUFFICES ASSUME NEW j \in u.calls \ tab[c].calls
                PROVE  j.op = "read" /\ j.arg \in Shown(u)
    BY DEF Adds
  <2>1. j = Sent("read", seq) /\ seq \in Shown(w)
    BY <1>4, <1>6, <1>8
  <2>2. j.op = "read" /\ j.arg = seq
    BY <1>9, <2>1, SentType
  <2>. QED
    BY <1>8, <2>1, <2>2 DEF Shown
<1>. QED
  BY <1>1, <1>2, <1>8, <1>10, PageStep DEF u

LEMMA ReplyPostKeeps ==
  ASSUME IInv, NEW c \in Tabs, ReplyPost(c)
  PROVE  Kept
<1>1. PICK k \in tab[c].calls :
        /\ k.op = "post" /\ k.served
        /\ tab' = [tab EXCEPT ![c] = OwnPost(Drain(tab[c], k), k.result)]
        /\ UNCHANGED <<last, cursor>>
  BY DEF ReplyPost
<1>. DEFINE v == Drain(tab[c], k)
            u == OwnPost(v, k.result)
<1>2. k \in Call /\ k.result \in Seqs /\ k.result <= last /\ k.result >= 1
  BY <1>1, OfPage DEF CallFits
<1>3. Fit(v, last) /\ v.calls = tab[c].calls \ {k}
  BY OfPage, DrainFits
<1>4. Owes(v, cursor[UserOf[c]])
  BY <1>1, OfPage, AnsweredOwes
<1>. HIDE DEF v
<1>5. /\ Fit(u, last) /\ Owes(u, cursor[UserOf[c]])
      /\ \A j \in u.calls \ v.calls : j = Sent("read", k.result) /\ k.result \in Shown(u)
  BY <1>2, <1>3, <1>4, OfPage, OwnPostFits
<1>. HIDE DEF u
<1>6. Adds(tab[c], u)
  <2>1. Sent("read", k.result).op = "read" /\ Sent("read", k.result).arg = k.result
    BY <1>2, SentType
  <2>. QED
    BY <1>3, <1>5, <2>1 DEF Adds
<1>. QED
  BY <1>1, <1>5, <1>6, PageStep DEF u, v

LEMMA ReplyReadKeeps ==
  ASSUME IInv, NEW c \in Tabs, ReplyRead(c)
  PROVE  Kept
<1>1. PICK k \in tab[c].calls :
        /\ k.op = "read" /\ k.served
        /\ tab' = [tab EXCEPT ![c] = Resume(Ask(Drain(tab[c], k), Sent("load", 0)), k)]
        /\ UNCHANGED <<last, cursor>>
  BY DEF ReplyRead
<1>. DEFINE v == Drain(tab[c], k)
            w == Ask(v, Sent("load", 0))
            u == Resume(w, k)
<1>2. /\ Sent("load", 0) \in Call /\ Sent("load", 0).op = "load"
      /\ CallFits(Sent("load", 0), last)
  <2>1. 0 \in Seqs
    BY ChatAssumption DEF Seqs
  <2>2. PICK j : j = Sent("load", 0)
    OBVIOUS
  <2>3. j \in Call /\ j.op = "load" /\ j.arg = 0 /\ j.result = 0
    BY <2>1, <2>2, SentType
  <2>. QED
    BY <2>2, <2>3, OfPage DEF CallFits
<1>3. Fit(v, last) /\ v.calls = tab[c].calls \ {k}
  BY OfPage, DrainFits
<1>4. Owes(v, cursor[UserOf[c]])
  BY <1>1, OfPage, AnsweredOwes
<1>. HIDE DEF v
<1>5. Fit(w, last) /\ w.calls = v.calls \cup {Sent("load", 0)}
  BY <1>2, <1>3, OfPage, AskFits
<1>6. Owes(w, cursor[UserOf[c]])
  BY <1>2, <1>3, <1>4, AskOwes DEF Fit
<1>. HIDE DEF w
<1>7. Like(u, w) /\ u.calls = w.calls
  BY <1>5, OfPage, ResumeLike DEF Fit
<1>. HIDE DEF u
<1>8. Fit(u, last) /\ Owes(u, cursor[UserOf[c]])
  BY <1>5, <1>6, <1>7, OfPage, LikeFits
<1>9. Adds(tab[c], u)
  BY <1>2, <1>3, <1>5, <1>7 DEF Adds
<1>. QED
  BY <1>1, <1>8, <1>9, PageStep DEF u, v, w

LEMMA ConnectKeeps ==
  ASSUME IInv, NEW c \in Tabs, Connect(c)
  PROVE  Kept
<1>1. CASE UNCHANGED tab
  <2>1. PICK u : u = tab[c]
    OBVIOUS
  <2>2. tab' = [tab EXCEPT ![c] = u]
    BY <1>1, <2>1 DEF IInv
  <2>3. Adds(tab[c], u)
    BY <2>1 DEF Adds
  <2>4. Fit(u, last) /\ Owes(u, cursor[UserOf[c]])
    BY <2>1, OfPage
  <2>. QED
    BY <2>2, <2>3, <2>4, PageStep DEF Connect
<1>2. CASE tab' = [tab EXCEPT ![c] =
                     Ask([tab[c] EXCEPT !.up = TRUE], Sent("get", tab[c].lastSeq))]
  <2>. DEFINE v == [tab[c] EXCEPT !.up = TRUE]
              k == Sent("get", tab[c].lastSeq)
              u == Ask(v, k)
  <2>1. tab[c].lastSeq \in Seqs /\ tab[c].lastSeq <= last
    BY OfPage DEF Fit, Tab
  <2>2. k \in Call /\ k.op = "get" /\ CallFits(k, last)
    <3>1. k \in Call /\ k.op = "get" /\ k.arg = tab[c].lastSeq /\ k.result = 0
      BY <2>1, SentType
    <3>. HIDE DEF k
    <3>. QED
      BY <2>1, <3>1, OfPage DEF CallFits
  <2>3. Like(v, tab[c]) /\ v.calls = tab[c].calls
    BY OfPage DEF Like, Tab
  <2>. HIDE DEF v, k
  <2>4. Fit(v, last) /\ Owes(v, cursor[UserOf[c]])
    BY <2>3, OfPage, LikeFits
  <2>5. Fit(u, last) /\ u.calls = v.calls \cup {k}
    BY <2>2, <2>4, OfPage, AskFits
  <2>6. Owes(u, cursor[UserOf[c]])
    BY <2>2, <2>4, AskOwes DEF Fit
  <2>. HIDE DEF u
  <2>7. Adds(tab[c], u)
    BY <2>2, <2>3, <2>5 DEF Adds
  <2>8. tab' = [tab EXCEPT ![c] = u]
    BY <1>2 DEF u, v, k
  <2>. QED
    BY <2>5, <2>6, <2>7, <2>8, PageStep DEF Connect
<1>. QED
  BY <1>1, <1>2 DEF Connect

LEMMA DeliverKeeps ==
  ASSUME IInv, NEW c \in Tabs, Deliver(c)
  PROVE  Kept
<1>1. PICK m \in (tab[c].lastSeq + 1)..last :
        tab' = [tab EXCEPT ![c] = SyncRead(Receive(tab[c], m), m)]
  BY DEF Deliver
<1>. DEFINE v == Receive(tab[c], m)
            u == SyncRead(v, m)
<1>2. m \in Seqs /\ m >= 1 /\ tab[c].lastSeq <= m /\ m <= last
  BY OfPage, ChatAssumption DEF Tab, Seqs
<1>3. /\ Fit(v, last) /\ v.calls = tab[c].calls /\ m \in Shown(v)
      /\ Owes(v, cursor[UserOf[c]])
  BY <1>2, OfPage, ReceiveFits
<1>. HIDE DEF v
<1>4. /\ Fit(u, last) /\ u.messages = v.messages /\ Owes(u, cursor[UserOf[c]])
      /\ u.calls \subseteq v.calls \cup {Sent("read", m)}
  BY <1>3, OfPage, SyncReadFits
<1>. HIDE DEF u
<1>5. Adds(tab[c], u)
  <2>1. Sent("read", m).op = "read" /\ Sent("read", m).arg = m /\ m \in Shown(u)
    BY <1>2, <1>3, <1>4, SentType DEF Shown
  <2>. QED
    BY <1>3, <1>4, <2>1 DEF Adds
<1>. QED
  BY <1>1, <1>4, <1>5, PageStep DEF Deliver, u, v

\* A change of the socket or of the ticket.
LEMMA LineKeeps ==
  ASSUME IInv, NEW c \in Tabs, Drop(c) \/ Expire(c)
  PROVE  Kept
<1>1. PICK u : /\ u \in {[tab[c] EXCEPT !.up = FALSE], [tab[c] EXCEPT !.ticket = FALSE]}
               /\ tab' = [tab EXCEPT ![c] = u] /\ UNCHANGED <<last, cursor>>
  BY DEF Drop, Expire
<1>2. Like(u, tab[c]) /\ u.calls = tab[c].calls
  BY <1>1, OfPage DEF Like, Tab
<1>3. Fit(u, last) /\ Owes(u, cursor[UserOf[c]])
  BY <1>2, OfPage, LikeFits
<1>4. Adds(tab[c], u)
  BY <1>2 DEF Adds
<1>. QED
  BY <1>1, <1>3, <1>4, PageStep

LEMMA FailKeeps ==
  ASSUME IInv, NEW c \in Tabs, Fail(c)
  PROVE  Kept
<1>1. PICK k \in tab[c].calls : tab' = [tab EXCEPT ![c] = AfterFailure(Drain(tab[c], k), k)]
  BY DEF Fail
<1>. DEFINE u == AfterFailure(Drain(tab[c], k), k)
<1>2. Fit(u, last) /\ Owes(u, cursor[UserOf[c]]) /\ u.calls = tab[c].calls \ {k}
  BY OfPage, FailedFits
<1>. HIDE DEF u
<1>3. Adds(tab[c], u)
  BY <1>2 DEF Adds
<1>. QED
  BY <1>1, <1>2, <1>3, PageStep DEF u, Fail

\* A post needs room for itself and for those under way.
LEMMA UnservedPosts ==
  ASSUME IInv
  PROVE  /\ {c \in Tabs : Unserved(c)} = Posting
         /\ IsFiniteSet(Posting) /\ Cardinality(Posting) \in Nat
         /\ last + Cardinality(Posting) <= MaxMessages
<1>1. ASSUME NEW c \in Tabs
      PROVE  Unserved(c) <=> Sent("post", 0) \in tab[c].calls
  <2>1. \A k \in tab[c].calls : k.op = "post" /\ ~k.served => k = Sent("post", 0)
    BY OfPage DEF CallFits
  <2>2. Sent("post", 0).op = "post" /\ Sent("post", 0).served = FALSE
    BY DEF Sent
  <2>. QED
    BY <2>1, <2>2 DEF Unserved
<1>. QED
  BY <1>1, FS_CardinalityType DEF Posting, IInv, RoomInv

LEMMA SubmitKeeps ==
  ASSUME IInv, NEW c \in Tabs, Submit(c)
  PROVE  Kept
<1>. DEFINE k == Sent("post", 0)
            u == Ask(tab[c], k)
<1>1. /\ k \in Call /\ k.op = "post" /\ k.arg = 0 /\ k.result = 0 /\ k.served = FALSE
      /\ k = Sent("post", 0) /\ tab' = [tab EXCEPT ![c] = u] /\ UNCHANGED <<last, cursor>>
      /\ last + Cardinality(Posting) < MaxMessages
  <2>1. 0 \in Seqs
    BY ChatAssumption DEF Seqs
  <2>. QED
    BY <2>1, SentType, UnservedPosts, ZenonT(60) DEF Submit, Room
<1>. HIDE DEF k
<1>2. CallFits(k, last)
  BY <1>1, OfPage DEF CallFits
<1>3. Fit(u, last) /\ u.calls = tab[c].calls \cup {k}
  BY <1>1, <1>2, OfPage, AskFits
<1>4. Owes(u, cursor[UserOf[c]])
  BY <1>1, OfPage, AskOwes
<1>. HIDE DEF u
<1>5. /\ last \in Seqs /\ last \in Nat /\ MaxMessages \in Nat /\ cursor \in [Users -> Seqs]
      /\ tab \in [Tabs -> Tab] /\ \A x \in Users : cursor[x] <= last /\ cursor[x] \in Nat
  BY OfPage, ChatAssumption DEF IInv, Seqs
<1>6. Posting' = Posting \cup {c}
  <2>. SUFFICES ASSUME NEW d \in Tabs
                PROVE  k \in tab'[d].calls <=> k \in tab[d].calls \/ d = c
    BY <1>1 DEF Posting
  <2>. QED
    BY <1>1, <1>3, <1>5
<1>7. RoomInv'
  <2>1. IsFiniteSet(Posting') /\ Cardinality(Posting') <= Cardinality(Posting) + 1
    BY <1>6, UnservedPosts, FS_AddElement
  <2>2. Cardinality(Posting') \in Nat
    BY <2>1, FS_CardinalityType
  <2>3. last' + Cardinality(Posting') <= MaxMessages
    BY <1>1, <1>5, <2>1, <2>2, UnservedPosts
  <2>. QED
    BY <2>1, <2>3 DEF RoomInv
<1>8. /\ last' \in Seqs /\ last <= last' /\ cursor' \in [Users -> Seqs]
      /\ \A x \in Users : cursor[x] <= cursor'[x] /\ cursor'[x] <= last'
      /\ Fit(u, last') /\ Owes(u, cursor'[UserOf[c]])
  BY <1>1, <1>3, <1>4, <1>5
<1>9. \A j \in u.calls \ tab[c].calls :
         j.op = "read" /\ ~j.served => j.arg \in Shown(u)
  BY <1>1, <1>3
<1>10. IInv' /\ Honest
  BY <1>1, <1>7, <1>8, <1>9, StepOn
<1>. QED
  BY <1>1, <1>10 DEF Kept

-----------------------------------------------------------------------------
(* The server's steps.                                                     *)

\* A call takes effect: in its place the page has the answer on its way.
LEMMA ServedFits ==
  ASSUME NEW n \in Seqs, NEW t, Fit(t, n), NEW k \in t.calls, NEW j \in Call, CallFits(j, n),
         NEW read \in Nat, NEW later \in Nat, Owes(t, read), read <= later,
         k.op # "read" \/ k.served \/ k.arg <= later
  PROVE  LET u == Ask(Drain(t, k), j) IN
         /\ Fit(u, n) /\ Owes(u, later)
         /\ u.calls = (t.calls \ {k}) \cup {j}
<1>. DEFINE v == Drain(t, k)
            u == Ask(v, j)
<1>1. k \in Call /\ t \in Tab
  BY DEF Fit, Tab
<1>2. Fit(v, n) /\ v.calls = t.calls \ {k}
  BY DrainFits
<1>3. Owes(v, later)
  BY <1>1, DrainOwes
<1>. HIDE DEF v
<1>4. Fit(u, n) /\ u.calls = v.calls \cup {j}
  BY <1>2, AskFits
<1>5. Owes(u, later)
  BY <1>2, <1>3, AskOwes DEF Fit
<1>. QED
  BY <1>2, <1>4, <1>5 DEF v

LEMMA ServeListKeeps ==
  ASSUME IInv, NEW c \in Tabs, NEW op, ServeList(c, op)
  PROVE  Kept
<1>1. PICK k \in tab[c].calls :
        /\ k.op = op /\ op \in {"get", "load"} /\ ~k.served
        /\ tab' = [tab EXCEPT ![c] =
                     Ask(Drain(tab[c], k), [k EXCEPT !.served = TRUE, !.result = last])]
        /\ UNCHANGED <<last, cursor>>
  BY DEF ServeList
<1>. DEFINE j == [k EXCEPT !.served = TRUE, !.result = last]
            u == Ask(Drain(tab[c], k), j)
<1>2. k \in Call /\ last \in Seqs /\ last \in Nat /\ k.arg <= last
  BY OfPage DEF CallFits
<1>3. j \in Call /\ j.op = op /\ j.served /\ j.result = last /\ j.arg = k.arg
  BY <1>1, <1>2 DEF Call
<1>. HIDE DEF j
<1>4. CallFits(j, last)
  BY <1>1, <1>2, <1>3 DEF CallFits
<1>5. cursor[UserOf[c]] \in Nat /\ cursor[UserOf[c]] <= cursor[UserOf[c]]
  BY OfPage
<1>6. /\ Fit(u, last) /\ Owes(u, cursor[UserOf[c]])
      /\ u.calls = (tab[c].calls \ {k}) \cup {j}
  BY <1>1, <1>3, <1>4, <1>5, OfPage, ServedFits
<1>. HIDE DEF u
<1>7. Adds(tab[c], u)
  BY <1>3, <1>6 DEF Adds
<1>. QED
  BY <1>1, <1>6, <1>7, PageStep DEF u, j

\* GREATEST: the cursor moves to the argument if that is further, and the
\* argument is within the log.
LEMMA ServeReadKeeps ==
  ASSUME IInv, NEW c \in Tabs, ServeRead(c)
  PROVE  Kept
<1>1. PICK k \in tab[c].calls :
        /\ k.op = "read" /\ ~k.served
        /\ cursor' = [cursor EXCEPT ![UserOf[c]] = Larger(cursor[UserOf[c]], k.arg)]
        /\ tab' = [tab EXCEPT ![c] = Ask(Drain(tab[c], k), [k EXCEPT !.served = TRUE])]
        /\ last' = last
  BY DEF ServeRead
<1>. DEFINE j == [k EXCEPT !.served = TRUE]
            u == Ask(Drain(tab[c], k), j)
            x == UserOf[c]
            far == Larger(cursor[x], k.arg)
<1>2. /\ k \in Call /\ last \in Seqs /\ last \in Nat /\ k.arg <= last /\ k.arg \in Nat
      /\ k.arg >= 1 /\ k.result <= last /\ k.arg \in Seqs
  BY <1>1, OfPage, ChatAssumption DEF CallFits, Seqs
<1>3. /\ j \in Call /\ j.op = "read" /\ j.served /\ j.arg = k.arg /\ j.result = k.result
  BY <1>1, <1>2 DEF Call
<1>. HIDE DEF j
<1>4. CallFits(j, last)
  BY <1>2, <1>3 DEF CallFits
<1>5. x \in Users
  BY ChatAssumption
<1>. HIDE DEF x
<1>6. /\ cursor \in [Users -> Seqs] /\ RoomInv
      /\ \A y \in Users : cursor[y] <= last /\ cursor[y] \in Nat
  BY ChatAssumption DEF IInv, Seqs
<1>7. /\ far \in Seqs /\ far \in Nat /\ cursor[x] <= far /\ k.arg <= far /\ far <= last
      /\ far = cursor[x] \/ (far = k.arg /\ cursor[x] < k.arg)
  BY <1>2, <1>5, <1>6, ChatAssumption DEF Larger, Seqs
<1>. HIDE DEF far
<1>8. cursor' = [cursor EXCEPT ![x] = far]
  BY <1>1 DEF far, x
<1>9. /\ cursor' \in [Users -> Seqs] /\ cursor'[x] = far
      /\ \A y \in Users : cursor[y] <= cursor'[y] /\ cursor'[y] <= last'
  <2>1. cursor' \in [Users -> Seqs] /\ cursor'[x] = far
    BY <1>5, <1>6, <1>7, <1>8
  <2>2. \A y \in Users : y # x => cursor'[y] = cursor[y]
    BY <1>5, <1>6, <1>8
  <2>3. ASSUME NEW y \in Users PROVE cursor[y] <= cursor'[y] /\ cursor'[y] <= last'
    <3>1. CASE y = x
      BY <1>1, <1>7, <2>1, <3>1
    <3>2. CASE y # x
      <4>1. cursor'[y] = cursor[y] /\ cursor[y] \in Nat /\ cursor[y] <= last
        BY <1>6, <2>2, <3>2
      <4>. QED
        BY <1>1, <4>1
    <3>. QED
      BY <3>1, <3>2
  <2>. QED
    BY <2>1, <2>3
<1>10. /\ Fit(u, last) /\ Owes(u, far)
       /\ u.calls = (tab[c].calls \ {k}) \cup {j}
  <2>1. /\ cursor[x] \in Nat /\ Owes(tab[c], cursor[x]) /\ Fit(tab[c], last)
    BY <1>5, <1>6, OfPage DEF x
  <2>. QED
    BY <1>2, <1>3, <1>4, <1>7, <2>1, ServedFits
<1>. HIDE DEF u
<1>11. Posting' \subseteq Posting
  <2>. SUFFICES ASSUME NEW d \in Tabs, Sent("post", 0) \in tab'[d].calls
                PROVE  Sent("post", 0) \in tab[d].calls
    BY DEF Posting
  <2>1. Sent("post", 0) # j
    BY <1>3 DEF Sent
  <2>2. tab' = [tab EXCEPT ![c] = u] /\ tab \in [Tabs -> Tab]
    BY <1>1 DEF u, j, IInv
  <2>. QED
    BY <1>10, <2>1, <2>2
<1>12. RoomInv'
  BY <1>1, <1>2, <1>6, <1>11, RoomStays
<1>13. \A i \in u.calls \ tab[c].calls :
          i.op = "read" /\ ~i.served => i.arg \in Shown(u)
  BY <1>3, <1>10
<1>14. tab' = [tab EXCEPT ![c] = u]
  BY <1>1 DEF u, j
<1>15. /\ last' \in Seqs /\ last <= last' /\ Fit(u, last') /\ Owes(u, cursor'[UserOf[c]])
  BY <1>1, <1>2, <1>9, <1>10 DEF x
<1>16. IInv' /\ Honest
  BY <1>9, <1>12, <1>13, <1>14, <1>15, StepOn
<1>17. [Log!Next]_<<last, cursor>>
  <2>1. CASE far = cursor[x]
    BY <1>1, <1>5, <1>6, <1>8, <2>1
  <2>2. CASE far = k.arg /\ cursor[x] < k.arg
    <3>1. far \in (cursor[x] + 1)..last
      BY <1>2, <1>5, <1>6, <1>7, <2>2
    <3>2. Log!Advance(x)
      BY <1>1, <1>8, <3>1 DEF Log!Advance
    <3>. QED
      BY <1>5, <3>2 DEF Log!Next
  <2>. QED
    BY <1>7, <2>1, <2>2
<1>. QED
  BY <1>16, <1>17 DEF Kept

LEMMA ServePostKeeps ==
  ASSUME IInv, NEW c \in Tabs, ServePost(c)
  PROVE  Kept
<1>1. PICK k \in tab[c].calls :
        /\ k = Sent("post", 0)
        /\ last' = last + 1
        /\ tab' = [tab EXCEPT ![c] =
                     Ask(Drain(tab[c], k), [k EXCEPT !.served = TRUE, !.result = last + 1])]
        /\ UNCHANGED cursor
  BY DEF ServePost
<1>. DEFINE j == [k EXCEPT !.served = TRUE, !.result = last + 1]
            u == Ask(Drain(tab[c], k), j)
<1>2. /\ IsFiniteSet(Posting) /\ Cardinality(Posting) \in Nat /\ c \in Posting
      /\ last + Cardinality(Posting) <= MaxMessages /\ last \in Seqs /\ last \in Nat
      /\ MaxMessages \in Nat
  BY <1>1, UnservedPosts, OfPage, ChatAssumption DEF Posting
<1>3. /\ IsFiniteSet(Posting \ {c}) /\ Cardinality(Posting \ {c}) \in Nat
      /\ Cardinality(Posting \ {c}) = Cardinality(Posting) - 1
  BY <1>2, FS_RemoveElement, FS_CardinalityType
<1>4. last + 1 \in Seqs /\ last + 1 \in Nat
  BY <1>2, <1>3 DEF Seqs
<1>5. k \in Call /\ k.op = "post" /\ k.arg = 0
  BY <1>1, OfPage DEF Sent
<1>6. j \in Call /\ j.op = "post" /\ j.served /\ j.result = last + 1 /\ j.arg = 0
  BY <1>4, <1>5 DEF Call
<1>. HIDE DEF j
<1>7. CallFits(j, last + 1)
  BY <1>2, <1>6 DEF CallFits
<1>8. /\ cursor \in [Users -> Seqs] /\ tab \in [Tabs -> Tab]
      /\ \A y \in Users : cursor[y] <= last /\ cursor[y] \in Nat
  BY ChatAssumption DEF IInv, Seqs
<1>9. Fit(tab[c], last + 1)
  BY <1>2, <1>4, OfPage, LongerLogFits
<1>10. /\ Fit(u, last + 1) /\ Owes(u, cursor[UserOf[c]])
       /\ u.calls = (tab[c].calls \ {k}) \cup {j}
  <2>1. cursor[UserOf[c]] <= cursor[UserOf[c]]
    BY OfPage
  <2>. QED
    BY <1>4, <1>5, <1>6, <1>7, <1>9, <2>1, OfPage, ServedFits
<1>11. tab' = [tab EXCEPT ![c] = u]
  BY <1>1 DEF j
<1>. HIDE DEF u
<1>12. Posting' \subseteq Posting \ {c}
  <2>. SUFFICES ASSUME NEW d \in Tabs, k \in tab'[d].calls
                PROVE  d # c /\ k \in tab[d].calls
    BY <1>1 DEF Posting
  <2>1. k # j
    BY <1>1, <1>6 DEF Sent
  <2>. QED
    BY <1>8, <1>10, <1>11, <2>1
<1>13. RoomInv'
  <2>1. IsFiniteSet(Posting') /\ Cardinality(Posting') <= Cardinality(Posting \ {c})
    BY <1>3, <1>12, FS_Subset
  <2>2. Cardinality(Posting') \in Nat
    BY <2>1, FS_CardinalityType
  <2>3. last' + Cardinality(Posting') <= MaxMessages
    BY <1>1, <1>2, <1>3, <2>1, <2>2
  <2>. QED
    BY <2>1, <2>3 DEF RoomInv
<1>14. \A i \in u.calls \ tab[c].calls :
          i.op = "read" /\ ~i.served => i.arg \in Shown(u)
  BY <1>6, <1>10
<1>15. /\ last' \in Seqs /\ last <= last' /\ Fit(u, last') /\ Owes(u, cursor'[UserOf[c]])
       /\ cursor' \in [Users -> Seqs]
       /\ \A y \in Users : cursor[y] <= cursor'[y] /\ cursor'[y] <= last'
  BY <1>1, <1>2, <1>4, <1>8, <1>10
<1>16. IInv' /\ Honest
  BY <1>11, <1>13, <1>14, <1>15, StepOn
<1>17. Log!Next
  BY <1>1 DEF Log!Next, Log!Append
<1>. QED
  BY <1>16, <1>17 DEF Kept

LEMMA PostElsewhereKeeps ==
  ASSUME IInv, PostElsewhere
  PROVE  Kept
<1>1. /\ last' = last + 1 /\ cursor' = cursor /\ tab' = tab
      /\ last + Cardinality(Posting) < MaxMessages /\ Posting' = Posting
  BY UnservedPosts DEF PostElsewhere, Room, Posting
<1>2. /\ IsFiniteSet(Posting) /\ Cardinality(Posting) \in Nat /\ last \in Nat
      /\ MaxMessages \in Nat /\ last \in Seqs
      /\ cursor \in [Users -> Seqs] /\ tab \in [Tabs -> Tab]
      /\ \A y \in Users : cursor[y] <= last /\ cursor[y] \in Nat
  BY UnservedPosts, ChatAssumption DEF IInv, Seqs
<1>3. last + 1 \in Seqs /\ last <= last + 1
  BY <1>1, <1>2 DEF Seqs
<1>4. RoomInv'
  BY <1>1, <1>2 DEF RoomInv
<1>5. ASSUME NEW d \in Tabs
      PROVE  Fit(tab'[d], last') /\ Owes(tab'[d], cursor'[UserOf[d]])
  <2>1. last' \in Seqs /\ last <= last' /\ tab'[d] = tab[d] /\ cursor' = cursor
    BY <1>1, <1>3
  <2>2. Fit(tab[d], last')
    BY <1>2, <2>1, OfPage, LongerLogFits
  <2>. QED
    BY <2>1, <2>2, OfPage
<1>6. \A y \in Users : cursor'[y] <= last'
  BY <1>1, <1>2
<1>7. IInv'
  BY <1>1, <1>2, <1>3, <1>4, <1>5, <1>6 DEF IInv
<1>8. Honest
  BY <1>1 DEF Honest
<1>9. Log!Next
  BY <1>1 DEF Log!Next, Log!Append
<1>. QED
  BY <1>7, <1>8, <1>9 DEF Kept

-----------------------------------------------------------------------------
(* The theorems.                                                           *)

LEMMA InitIInv ==
  ASSUME Init PROVE IInv
<1>1. PICK t : t = [mounted |-> FALSE, messages |-> <<>>, lastSeq |-> 0, markedSeq |-> 0,
                    awaited |-> 0, up |-> FALSE, ticket |-> FALSE, calls |-> {Sent("load", 0)}]
  OBVIOUS
<1>2. tab = [c \in Tabs |-> t] /\ last = 0 /\ cursor = [u \in Users |-> 0]
  BY <1>1 DEF Init
<1>3. 0 \in Seqs /\ MaxMessages \in Nat
  BY ChatAssumption DEF Seqs
<1>4. PICK k : k = Sent("load", 0)
  OBVIOUS
<1>5. k \in Call /\ k.op = "load" /\ k.arg = 0 /\ k.result = 0
  BY <1>3, <1>4, SentType
<1>6. t \in Tab /\ t.messages = <<>> /\ t.lastSeq = 0 /\ t.markedSeq = 0 /\ t.calls = {k}
  BY <1>1, <1>3, <1>4, <1>5, EmptySeq DEF Tab
<1>7. Shown(t) = {} /\ IsInjective(<<>>)
  BY <1>6 DEF Shown, ToSet, IsInjective
<1>8. CallFits(k, 0)
  BY <1>5 DEF CallFits
<1>9. Fit(t, 0)
  BY <1>6, <1>7, <1>8 DEF Fit
<1>10. Owes(t, 0)
  BY <1>6 DEF Owes
<1>11. Posting = {}
  BY <1>2, <1>5, <1>6 DEF Posting, Sent
<1>12. RoomInv
  BY <1>2, <1>3, <1>11, FS_EmptySet DEF RoomInv
<1>13. \A c \in Tabs : UserOf[c] \in Users
  BY ChatAssumption
<1>. QED
  BY <1>2, <1>3, <1>6, <1>9, <1>10, <1>12, <1>13 DEF IInv

LEMMA NextKeeps ==
  ASSUME IInv, Next PROVE Kept
<1>1. CASE PostElsewhere
  BY <1>1, PostElsewhereKeeps
<1>2. ASSUME NEW c \in Tabs, Server(c) PROVE Kept
  BY <1>2, ServePostKeeps, ServeReadKeeps, ServeListKeeps DEF Server
<1>3. ASSUME NEW c \in Tabs, Page(c) PROVE Kept
  BY <1>3, ReplyLoadKeeps, ReplyGetKeeps, ReplyPostKeeps, ReplyReadKeeps, ConnectKeeps,
     DeliverKeeps, SubmitKeeps DEF Page
<1>4. ASSUME NEW c \in Tabs, Environment(c) PROVE Kept
  BY <1>4, FailKeeps, LineKeeps DEF Environment
<1>. QED
  BY <1>1, <1>2, <1>3, <1>4 DEF Next

LEMMA StutterKeeps ==
  ASSUME IInv, UNCHANGED vars PROVE Kept
<1>1. Posting' = Posting
  BY DEF vars, Posting
<1>2. IInv'
  BY <1>1 DEF vars, IInv, RoomInv
<1>. QED
  BY <1>2 DEF vars, Kept, Honest

LEMMA IInvAlways == Spec => []IInv
<1>1. IInv /\ [Next]_vars => IInv'
  BY NextKeeps, StutterKeeps DEF Kept
<1>. QED
  BY <1>1, InitIInv, PTL DEF Spec

\* Every variable keeps its type, with any number of pages and messages.
THEOREM ChatTypeOKAlways == Spec => []TypeOK
<1>1. IInv => TypeOK
  BY DEF IInv, TypeOK
<1>. QED
  BY <1>1, IInvAlways, PTL

\* No page ever shows a message twice, whatever the order of catch-ups, live
\* messages, answers and refreshes.
THEOREM NoDuplicatesAlways == Spec => []NoDuplicates
<1>1. IInv => NoDuplicates
  BY DEF IInv, Fit, NoDuplicates
<1>. QED
  BY <1>1, IInvAlways, PTL

\* lastSeq, from which catchUp asks and below which a live message is ignored,
\* is always the newest message on the page.
THEOREM LastSeqIsNewestAlways == Spec => []LastSeqIsNewest
<1>1. IInv => LastSeqIsNewest
  BY DEF IInv, Fit, LastSeqIsNewest
<1>. QED
  BY <1>1, IInvAlways, PTL

\* A page with nothing left to report has told the server, or is telling it,
\* however its calls fail.
THEOREM ReadNotForgottenAlways == Spec => []ReadNotForgotten
<1>1. IInv => ReadNotForgotten
  BY DEF IInv, Owes, ReadNotForgotten
<1>. QED
  BY <1>1, IInvAlways, PTL

\* No step of a page reports as read a message that it does not show.
THEOREM MarksWhatItShowsAlways == Spec => MarksWhatItShows
<1>1. IInv /\ [Next]_vars => [Honest]_vars
  BY NextKeeps DEF Kept
<1>2. Honest <=> \A c \in Tabs : \A k \in tab'[c].calls \ tab[c].calls :
                   k.op = "read" /\ ~k.served => k.arg \in Shown(tab'[c])
  BY DEF Honest
<1>. QED
  BY <1>1, <1>2, IInvAlways, PTL DEF Spec, MarksWhatItShows

\* The channel implements its contract: a log that grows by one message at a
\* time, and cursors that only move forward, within the log, whatever the order
\* in which the calls of the pages of one user reach the server.
THEOREM LogSpecAlways == Spec => LogSpec
<1>1. Init => Log!Init
  BY DEF Init, Log!Init
<1>2. IInv /\ [Next]_vars => [Log!Next]_Log!vars
  BY NextKeeps, StutterKeeps DEF Kept, Log!vars
<1>. QED
  BY <1>1, <1>2, IInvAlways, PTL DEF Spec, LogSpec, Log!Spec
=============================================================================
