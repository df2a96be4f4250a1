----------------------------- MODULE TextProofs -----------------------------
(***************************************************************************)
(* The texts: the binding of the editor to the shared text (ImeSync), and  *)
(* the diff of two versions of a page (PageDiff), for texts of any length, *)
(* any number of changes in an edit, and deltas of any number of pieces.   *)
(***************************************************************************)
EXTENDS ImeSync, PageDiff, SequenceTheorems, WellFoundedInduction, NaturalsInduction, TLAPS

-----------------------------------------------------------------------------
(* Induction over the natural numbers, for a set in place of a predicate.  *)

LEMMA SetInduction ==
  ASSUME NEW S, 0 \in S, \A n \in Nat : n \in S => n + 1 \in S
  PROVE  Nat \subseteq S
<1>. DEFINE R == OpToRel(<, Nat)
            T == Nat \ S
<1>1. IsWellFoundedOn(R, Nat)
  BY NatLessThanWellFounded
<1>2. SUFFICES ASSUME T # {} PROVE FALSE
  OBVIOUS
<1>. HIDE DEF R, T
<1>3. PICK n \in T : \A m \in T : ~(<<m, n>> \in R)
  BY <1>1, <1>2, WFMin DEF T
<1>4. n \in Nat /\ n \notin S /\ n # 0
  BY DEF T
<1>5. n - 1 \in Nat /\ n - 1 < n
  BY <1>4
<1>6. <<n - 1, n>> \in R
  BY <1>4, <1>5 DEF R, OpToRel
<1>7. n - 1 \in S
  BY <1>3, <1>5, <1>6 DEF T
<1>. QED
  BY <1>4, <1>5, <1>7

\* The same up to a bound.
LEMMA UpTo ==
  ASSUME NEW n \in Nat, NEW S, 0 \in S,
         \A i \in 1..n : i - 1 \in S => i \in S
  PROVE  0..n \subseteq S
<1>. DEFINE U == S \cup {i \in Nat : i > n}
<1>1. ASSUME NEW i \in Nat, i \in U PROVE i + 1 \in U
  <2>1. CASE i + 1 > n
    BY <2>1
  <2>2. CASE i + 1 <= n
    <3>1. i \in S /\ i + 1 \in 1..n /\ (i + 1) - 1 = i
      BY <1>1, <2>2
    <3>. QED
      BY <3>1
  <2>. QED
    BY <2>1, <2>2
<1>2. Nat \subseteq U
  <2>. HIDE DEF U
  <2>1. 0 \in U
    BY DEF U
  <2>. QED
    BY <1>1, <2>1, SetInduction
<1>3. ASSUME NEW i \in 0..n PROVE i \in S
  BY <1>2
<1>. QED
  BY <1>3

\* A set of numbers that has a bound has a greatest one.
LEMMA GreatestIs ==
  ASSUME NEW n \in Nat, NEW S \in SUBSET (0..n), S # {}
  PROVE  Max(S) \in S /\ \A x \in S : x <= Max(S)
<1>. DEFINE H == {k \in Nat : \A A \in SUBSET (0..k) :
                     A # {} => \E m \in A : \A x \in A : m >= x}
<1>1. 0 \in H
  <2>1. ASSUME NEW A \in SUBSET (0..0), A # {} PROVE \E m \in A : \A x \in A : m >= x
    <3>1. \A x \in 0..0 : x = 0
      OBVIOUS
    <3>2. PICK m \in A : TRUE
      BY <2>1
    <3>3. \A x \in A : x = 0 /\ x >= x
      BY <3>1, <2>1
    <3>. QED
      BY <3>2, <3>3
  <2>. QED
    BY <2>1
<1>2. ASSUME NEW k \in Nat, k \in H PROVE k + 1 \in H
  <2>1. ASSUME NEW A \in SUBSET (0..(k + 1)), A # {}
        PROVE  \E m \in A : \A x \in A : m >= x
    <3>1. CASE k + 1 \in A
      BY <3>1
    <3>2. CASE k + 1 \notin A
      <4>1. A \in SUBSET (0..k)
        BY <3>2
      <4>. QED
        BY <1>2, <2>1, <4>1
    <3>. QED
      BY <3>1, <3>2
  <2>. QED
    BY <2>1
<1>3. n \in H
  <2>. HIDE DEF H
  <2>. QED
    BY <1>1, <1>2, SetInduction
<1>4. \E m \in S : \A x \in S : m >= x
  BY <1>3
<1>. QED
  BY <1>4 DEF Max

-----------------------------------------------------------------------------
(* Texts and parts of them.                                                *)

LEMMA CutIs ==
  ASSUME NEW T, NEW s \in Seq(T), NEW f \in Nat, NEW t \in Nat, f <= t, t <= Len(s)
  PROVE  /\ Cut(s, f, t) \in Seq(T)
         /\ Len(Cut(s, f, t)) = t - f
         /\ \A i \in 1..(t - f) : Cut(s, f, t)[i] = s[f + i]
<1>1. \A i \in (f + 1)..t : s[i] \in T
  BY ElementOfSeq
<1>2. /\ SubSeq(s, f + 1, t) \in Seq(T)
      /\ Len(SubSeq(s, f + 1, t)) = IF f + 1 <= t THEN t - (f + 1) + 1 ELSE 0
      /\ \A i \in 1..(t - (f + 1) + 1) : SubSeq(s, f + 1, t)[i] = s[f + 1 + i - 1]
  BY <1>1, SubSeqProperties
<1>. QED
  BY <1>2 DEF Cut

LEMMA PrefixIs ==
  ASSUME NEW T, NEW s \in Seq(T), NEW t \in Nat, t <= Len(s)
  PROVE  /\ Cut(s, 0, t) \in Seq(T)
         /\ Len(Cut(s, 0, t)) = t
         /\ \A i \in 1..t : Cut(s, 0, t)[i] = s[i]
<1>1. PICK c : c = Cut(s, 0, t)
  OBVIOUS
<1>2. 0 \in Nat /\ 0 <= t
  OBVIOUS
<1>3. c \in Seq(T) /\ Len(c) = t - 0 /\ \A i \in 1..(t - 0) : c[i] = s[0 + i]
  BY <1>1, <1>2, CutIs
<1>4. c \in Seq(T) /\ Len(c) = t /\ \A i \in 1..t : c[i] = s[i]
  BY <1>3
<1>. QED
  BY <1>1, <1>4

LEMMA CutJoin ==
  ASSUME NEW T, NEW s \in Seq(T), NEW f \in Nat, NEW m \in Nat, NEW t \in Nat,
         f <= m, m <= t, t <= Len(s)
  PROVE  Cut(s, f, m) \o Cut(s, m, t) = Cut(s, f, t)
<1>1. Len(s) \in Nat
  BY LenProperties
<1>2. f + 1 \in 1..(Len(s) + 1) /\ m \in ((f + 1) - 1)..Len(s) /\ t \in m..Len(s)
  BY <1>1
<1>. QED
  BY <1>2, ConcatAdjacentSubSeq DEF Cut

LEMMA CutAll ==
  ASSUME NEW T, NEW s \in Seq(T)
  PROVE  Cut(s, 0, Len(s)) = s
BY SubSeqFull, LenProperties DEF Cut

LEMMA CutNone ==
  ASSUME NEW s, NEW f \in Nat
  PROVE  Cut(s, f, f) = <<>>
BY SubSeqEmpty DEF Cut

LEMMA ConcatType ==
  ASSUME NEW T, NEW s \in Seq(T), NEW t \in Seq(T)
  PROVE  s \o t \in Seq(T) /\ Len(s \o t) = Len(s) + Len(t)
BY ConcatProperties

\* What is cut out of a text that was built of two.
LEMMA CutOfConcat ==
  ASSUME NEW T, NEW s \in Seq(T), NEW t \in Seq(T), NEW k \in Nat, k <= Len(t)
  PROVE  /\ Cut(s \o t, 0, Len(s) + k) = s \o Cut(t, 0, k)
         /\ Cut(s \o t, Len(s) + k, Len(s) + Len(t)) = Cut(t, k, Len(t))
<1>1. PICK m : m = Len(s)
  OBVIOUS
<1>2. PICK n : n = Len(t)
  OBVIOUS
<1>3. m \in Nat /\ n \in Nat
  BY <1>1, <1>2, LenProperties
<1>4. PICK u : u = s \o t
  OBVIOUS
<1>5. /\ u \in Seq(T)
      /\ Len(u) = m + n
      /\ \A i \in 1..(m + n) : u[i] = IF i <= m THEN s[i] ELSE t[i - m]
  BY <1>1, <1>2, <1>4, ConcatProperties
<1>6. Cut(u, 0, m + k) = s \o Cut(t, 0, k)
  <2>1. PICK a : a = Cut(u, 0, m + k)
    OBVIOUS
  <2>2. a \in Seq(T) /\ Len(a) = m + k /\ \A i \in 1..(m + k) : a[i] = u[i]
    <3>1. m + k \in Nat /\ m + k <= Len(u)
      BY <1>2, <1>3, <1>5
    <3>. QED
      BY <1>5, <2>1, <3>1, PrefixIs
  <2>3. PICK c : c = Cut(t, 0, k)
    OBVIOUS
  <2>4. c \in Seq(T) /\ Len(c) = k /\ \A i \in 1..k : c[i] = t[i]
    BY <2>3, PrefixIs
  <2>5. PICK b : b = s \o c
    OBVIOUS
  <2>6. /\ b \in Seq(T)
        /\ Len(b) = m + k
        /\ \A i \in 1..(m + k) : b[i] = IF i <= m THEN s[i] ELSE c[i - m]
    BY <1>1, <2>4, <2>5, ConcatProperties
  <2>7. \A i \in 1..(m + k) : a[i] = b[i]
    <3>1. ASSUME NEW i \in 1..(m + k) PROVE a[i] = b[i]
      <4>1. i \in 1..(m + n) /\ (~(i <= m) => i - m \in 1..k)
        BY <1>2, <1>3
      <4>2. a[i] = IF i <= m THEN s[i] ELSE t[i - m]
        BY <1>5, <2>2, <4>1
      <4>3. b[i] = IF i <= m THEN s[i] ELSE c[i - m]
        BY <2>6
      <4>. QED
        BY <2>4, <4>1, <4>2, <4>3
    <3>. QED
      BY <3>1
  <2>8. a = b
    BY <2>2, <2>6, <2>7, SeqEqual
  <2>. QED
    BY <2>1, <2>3, <2>5, <2>8
<1>7. Cut(u, m + k, m + n) = Cut(t, k, n)
  <2>1. PICK a : a = Cut(u, m + k, m + n)
    OBVIOUS
  <2>2. /\ a \in Seq(T)
        /\ Len(a) = (m + n) - (m + k)
        /\ \A i \in 1..((m + n) - (m + k)) : a[i] = u[m + k + i]
    <3>1. m + k \in Nat /\ m + n \in Nat /\ m + k <= m + n /\ m + n <= Len(u)
      BY <1>2, <1>3, <1>5
    <3>. QED
      BY <1>5, <2>1, <3>1, CutIs
  <2>3. PICK b : b = Cut(t, k, n)
    OBVIOUS
  <2>4. b \in Seq(T) /\ Len(b) = n - k /\ \A i \in 1..(n - k) : b[i] = t[k + i]
    <3>1. k <= n /\ n <= Len(t)
      BY <1>2, <1>3
    <3>. QED
      BY <1>3, <2>3, <3>1, CutIs
  <2>5. \A i \in 1..(n - k) : a[i] = b[i]
    <3>1. ASSUME NEW i \in 1..(n - k) PROVE a[i] = b[i]
      <4>1. m + k + i \in 1..(m + n) /\ ~(m + k + i <= m) /\ (m + k + i) - m = k + i
        BY <1>2, <1>3
      <4>2. a[i] = u[m + k + i]
        BY <1>2, <1>3, <2>2
      <4>3. u[m + k + i] = t[k + i]
        BY <1>5, <4>1
      <4>. QED
        BY <2>4, <4>2, <4>3
    <3>. QED
      BY <3>1
  <2>6. Len(a) = Len(b) /\ Len(a) = n - k
    BY <1>2, <1>3, <2>2, <2>4
  <2>7. a = b
    BY <2>2, <2>4, <2>5, <2>6, SeqEqual
  <2>. QED
    BY <2>1, <2>3, <2>7
<1>. QED
  BY <1>1, <1>2, <1>4, <1>6, <1>7

LEMMA CutOfCut ==
  ASSUME NEW T, NEW s \in Seq(T), NEW p \in Nat, NEW q \in Nat, p <= q, q <= Len(s),
         NEW f \in Nat, NEW t \in Nat, f <= t, t <= q - p
  PROVE  Cut(Cut(s, p, q), f, t) = Cut(s, p + f, p + t)
<1>1. PICK u : u = Cut(s, p, q)
  OBVIOUS
<1>2. u \in Seq(T) /\ Len(u) = q - p /\ \A i \in 1..(q - p) : u[i] = s[p + i]
  BY <1>1, CutIs
<1>3. Len(s) \in Nat
  BY LenProperties
<1>4. PICK a : a = Cut(u, f, t)
  OBVIOUS
<1>5. a \in Seq(T) /\ Len(a) = t - f /\ \A i \in 1..(t - f) : a[i] = u[f + i]
  <2>1. t <= Len(u) /\ u \in Seq(T)
    BY <1>2
  <2>2. /\ Cut(u, f, t) \in Seq(T)
        /\ Len(Cut(u, f, t)) = t - f
        /\ \A i \in 1..(t - f) : Cut(u, f, t)[i] = u[f + i]
    BY <2>1, CutIs
  <2>. QED
    BY <1>4, <2>2
<1>6. PICK b : b = Cut(s, p + f, p + t)
  OBVIOUS
<1>7. /\ b \in Seq(T)
      /\ Len(b) = (p + t) - (p + f)
      /\ \A i \in 1..((p + t) - (p + f)) : b[i] = s[(p + f) + i]
  <2>1. p + f \in Nat /\ p + t \in Nat /\ p + f <= p + t /\ p + t <= Len(s)
    BY <1>3
  <2>. QED
    BY <1>6, <2>1, CutIs
<1>8. ASSUME NEW i \in 1..(t - f) PROVE a[i] = b[i]
  <2>1. f + i \in 1..(q - p) /\ p + (f + i) = (p + f) + i
    OBVIOUS
  <2>2. a[i] = s[(p + f) + i]
    BY <1>2, <1>5, <2>1
  <2>. QED
    BY <1>7, <2>2
<1>9. Len(a) = Len(b)
  BY <1>5, <1>7
<1>. QED
  BY <1>4, <1>5, <1>6, <1>7, <1>8, <1>9, <1>1, SeqEqual

-----------------------------------------------------------------------------
(* What the recursive functions compute, step by step.  To the provers     *)
(* each is a CHOOSE: a function that satisfies the recursion up to any     *)
(* point exists, by induction, and so one does for the whole.              *)

LEMMA DispatchedSteps ==
  ASSUME NEW doc, NEW cs, Len(cs) \in Nat
  PROVE  /\ Dispatched(doc, cs)[0] = <<>>
         /\ \A i \in 1..Len(cs) :
              Dispatched(doc, cs)[i] =
                Dispatched(doc, cs)[i - 1] \o Cut(doc, Past(cs, i - 1), cs[i].from)
                                           \o cs[i].insert
<1>. DEFINE n == Len(cs)
            Step(g, i) == IF i = 0 THEN <<>>
                          ELSE g[i - 1] \o Cut(doc, Past(cs, i - 1), cs[i].from) \o cs[i].insert
            S == {k \in Nat : \E g : \A i \in 0..n : i < k => g[i] = Step(g, i)}
<1>1. 0 \in S
  OBVIOUS
<1>2. ASSUME NEW k \in Nat, NEW g, \A i \in 0..n : i < k => g[i] = Step(g, i),
             NEW h, h = [i \in 0..n |-> Step(g, i)]
      PROVE  \A i \in 0..n : i < k + 1 => h[i] = Step(h, i)
  <2>1. ASSUME NEW i \in 1..n, i < k + 1 PROVE h[i] = Step(h, i)
    <3>1. i - 1 \in 0..n /\ i - 1 < k /\ i \in 0..n /\ i # 0
      BY <2>1
    <3>2. h[i - 1] = g[i - 1]
      BY <1>2, <3>1
    <3>. QED
      BY <1>2, <3>1, <3>2
  <2>2. h[0] = Step(h, 0)
    BY <1>2
  <2>. QED
    BY <2>1, <2>2
<1>3. ASSUME NEW k \in Nat, k \in S PROVE k + 1 \in S
  <2>1. PICK g : \A i \in 0..n : i < k => g[i] = Step(g, i)
    BY <1>3
  <2>2. PICK h : h = [i \in 0..n |-> Step(g, i)]
    OBVIOUS
  <2>3. \A i \in 0..n : i < k + 1 => h[i] = Step(h, i)
    BY <1>2, <2>1, <2>2
  <2>. QED
    BY <2>3
<1>0. PICK m \in Nat : m = n + 1
  OBVIOUS
<1>4. m \in S
  <2>. HIDE DEF S
  <2>. QED
    BY <1>1, <1>3, SetInduction
<1>5. PICK g : \A i \in 0..n : i < m => g[i] = Step(g, i)
  BY <1>4
<1>6. PICK h : h = [i \in 0..n |-> Step(g, i)]
  OBVIOUS
<1>7. h = [i \in 0..n |-> Step(h, i)]
  <2>1. \A i \in 0..n : i < m + 1 => h[i] = Step(h, i)
    <3>. HIDE DEF Step
    <3>. QED
      BY <1>2, <1>5, <1>6
  <2>2. ASSUME NEW i \in 0..n PROVE Step(g, i) = Step(h, i)
    <3>1. i < m + 1
      BY <1>0
    <3>2. h[i] = Step(h, i)
      BY <2>1, <3>1
    <3>3. h[i] = Step(g, i)
      BY <1>6
    <3>. QED
      BY <3>2, <3>3
  <2>3. [i \in 0..n |-> Step(g, i)] = [i \in 0..n |-> Step(h, i)]
    BY <2>2
  <2>. QED
    BY <1>6, <2>3
<1>8. PICK d : d = Dispatched(doc, cs)
  OBVIOUS
<1>9. d = [i \in 0..n |-> Step(d, i)]
  <2>1. d = CHOOSE f : f = [i \in 0..n |-> Step(f, i)]
    BY <1>8 DEF Dispatched
  <2>. HIDE DEF Step
  <2>. QED
    BY <1>7, <2>1
<1>10. d[0] = Step(d, 0) /\ \A i \in 1..n : d[i] = Step(d, i) /\ i # 0
  <2>. HIDE DEF Step
  <2>1. d[0] = Step(d, 0)
    BY <1>9
  <2>2. ASSUME NEW i \in 1..n PROVE d[i] = Step(d, i) /\ i # 0
    <3>1. i \in 0..n /\ i # 0
      OBVIOUS
    <3>. QED
      BY <1>9, <3>1
  <2>. QED
    BY <2>1, <2>2
<1>. QED
  BY <1>8, <1>10

LEMMA OffsetsSteps ==
  ASSUME NEW delta, Len(delta) \in Nat
  PROVE  /\ Offsets(delta)[0] = 0
         /\ \A i \in 1..Len(delta) :
              Offsets(delta)[i] = Offsets(delta)[i - 1] + Consumed(delta[i])
<1>. DEFINE n == Len(delta)
            Step(g, i) == IF i = 0 THEN 0 ELSE g[i - 1] + Consumed(delta[i])
            S == {k \in Nat : \E g : \A i \in 0..n : i < k => g[i] = Step(g, i)}
<1>1. 0 \in S
  OBVIOUS
<1>2. ASSUME NEW k \in Nat, NEW g, \A i \in 0..n : i < k => g[i] = Step(g, i),
             NEW h, h = [i \in 0..n |-> Step(g, i)]
      PROVE  \A i \in 0..n : i < k + 1 => h[i] = Step(h, i)
  <2>1. ASSUME NEW i \in 1..n, i < k + 1 PROVE h[i] = Step(h, i)
    <3>1. i - 1 \in 0..n /\ i - 1 < k /\ i \in 0..n /\ i # 0
      BY <2>1
    <3>2. h[i - 1] = g[i - 1]
      BY <1>2, <3>1
    <3>. QED
      BY <1>2, <3>1, <3>2
  <2>2. h[0] = Step(h, 0)
    BY <1>2
  <2>. QED
    BY <2>1, <2>2
<1>3. ASSUME NEW k \in Nat, k \in S PROVE k + 1 \in S
  <2>1. PICK g : \A i \in 0..n : i < k => g[i] = Step(g, i)
    BY <1>3
  <2>2. PICK h : h = [i \in 0..n |-> Step(g, i)]
    OBVIOUS
  <2>3. \A i \in 0..n : i < k + 1 => h[i] = Step(h, i)
    BY <1>2, <2>1, <2>2
  <2>. QED
    BY <2>3
<1>0. PICK m \in Nat : m = n + 1
  OBVIOUS
<1>4. m \in S
  <2>. HIDE DEF S
  <2>. QED
    BY <1>1, <1>3, SetInduction
<1>5. PICK g : \A i \in 0..n : i < m => g[i] = Step(g, i)
  BY <1>4
<1>6. PICK h : h = [i \in 0..n |-> Step(g, i)]
  OBVIOUS
<1>7. h = [i \in 0..n |-> Step(h, i)]
  <2>1. \A i \in 0..n : i < m + 1 => h[i] = Step(h, i)
    <3>. HIDE DEF Step
    <3>. QED
      BY <1>2, <1>5, <1>6
  <2>2. ASSUME NEW i \in 0..n PROVE Step(g, i) = Step(h, i)
    <3>1. i < m + 1
      BY <1>0
    <3>2. h[i] = Step(h, i)
      BY <2>1, <3>1
    <3>3. h[i] = Step(g, i)
      BY <1>6
    <3>. QED
      BY <3>2, <3>3
  <2>3. [i \in 0..n |-> Step(g, i)] = [i \in 0..n |-> Step(h, i)]
    BY <2>2
  <2>. QED
    BY <1>6, <2>3
<1>8. PICK d : d = Offsets(delta)
  OBVIOUS
<1>9. d = [i \in 0..n |-> Step(d, i)]
  <2>1. d = CHOOSE f : f = [i \in 0..n |-> Step(f, i)]
    BY <1>8 DEF Offsets
  <2>. HIDE DEF Step
  <2>. QED
    BY <1>7, <2>1
<1>10. d[0] = Step(d, 0) /\ \A i \in 1..n : d[i] = Step(d, i) /\ i # 0
  <2>. HIDE DEF Step
  <2>1. d[0] = Step(d, 0)
    BY <1>9
  <2>2. ASSUME NEW i \in 1..n PROVE d[i] = Step(d, i) /\ i # 0
    <3>1. i \in 0..n /\ i # 0
      OBVIOUS
    <3>. QED
      BY <1>9, <3>1
  <2>. QED
    BY <2>1, <2>2
<1>. QED
  BY <1>8, <1>10

\* One piece of a delta: what is written to the new text.
Written(text, delta, out, i) ==
  CASE delta[i].op = "retain" -> out \o Cut(text, Offsets(delta)[i - 1], Offsets(delta)[i])
    [] delta[i].op = "insert" -> out \o delta[i].text
    [] delta[i].op = "delete" -> out

LEMMA AppliedSteps ==
  ASSUME NEW text, NEW delta, Len(delta) \in Nat
  PROVE  /\ Applied(text, delta)[0] = <<>>
         /\ \A i \in 1..Len(delta) :
              Applied(text, delta)[i] = Written(text, delta, Applied(text, delta)[i - 1], i)
<1>. DEFINE n == Len(delta)
            Step(g, i) == IF i = 0 THEN <<>> ELSE Written(text, delta, g[i - 1], i)
            S == {k \in Nat : \E g : \A i \in 0..n : i < k => g[i] = Step(g, i)}
<1>1. 0 \in S
  OBVIOUS
<1>2. ASSUME NEW k \in Nat, NEW g, \A i \in 0..n : i < k => g[i] = Step(g, i),
             NEW h, h = [i \in 0..n |-> Step(g, i)]
      PROVE  \A i \in 0..n : i < k + 1 => h[i] = Step(h, i)
  <2>1. ASSUME NEW i \in 1..n, i < k + 1 PROVE h[i] = Step(h, i)
    <3>1. i - 1 \in 0..n /\ i - 1 < k /\ i \in 0..n /\ i # 0
      BY <2>1
    <3>2. h[i - 1] = g[i - 1]
      BY <1>2, <3>1
    <3>. QED
      BY <1>2, <3>1, <3>2
  <2>2. h[0] = Step(h, 0)
    BY <1>2
  <2>. QED
    BY <2>1, <2>2
<1>3. ASSUME NEW k \in Nat, k \in S PROVE k + 1 \in S
  <2>1. PICK g : \A i \in 0..n : i < k => g[i] = Step(g, i)
    BY <1>3
  <2>2. PICK h : h = [i \in 0..n |-> Step(g, i)]
    OBVIOUS
  <2>3. \A i \in 0..n : i < k + 1 => h[i] = Step(h, i)
    BY <1>2, <2>1, <2>2
  <2>. QED
    BY <2>3
<1>0. PICK m \in Nat : m = n + 1
  OBVIOUS
<1>4. m \in S
  <2>. HIDE DEF S
  <2>. QED
    BY <1>1, <1>3, SetInduction
<1>5. PICK g : \A i \in 0..n : i < m => g[i] = Step(g, i)
  BY <1>4
<1>6. PICK h : h = [i \in 0..n |-> Step(g, i)]
  OBVIOUS
<1>7. h = [i \in 0..n |-> Step(h, i)]
  <2>1. \A i \in 0..n : i < m + 1 => h[i] = Step(h, i)
    <3>. HIDE DEF Step
    <3>. QED
      BY <1>2, <1>5, <1>6
  <2>2. ASSUME NEW i \in 0..n PROVE Step(g, i) = Step(h, i)
    <3>1. i < m + 1
      BY <1>0
    <3>2. h[i] = Step(h, i)
      BY <2>1, <3>1
    <3>3. h[i] = Step(g, i)
      BY <1>6
    <3>. QED
      BY <3>2, <3>3
  <2>3. [i \in 0..n |-> Step(g, i)] = [i \in 0..n |-> Step(h, i)]
    BY <2>2
  <2>. QED
    BY <1>6, <2>3
<1>8. PICK d : d = Applied(text, delta)
  OBVIOUS
<1>9. d = [i \in 0..n |-> Step(d, i)]
  <2>1. d = CHOOSE f : f = [i \in 0..n |-> Step(f, i)]
    BY <1>8 DEF Applied, Written
  <2>. HIDE DEF Step
  <2>. QED
    BY <1>7, <2>1
<1>10. d[0] = Step(d, 0) /\ \A i \in 1..n : d[i] = Step(d, i) /\ i # 0
  <2>. HIDE DEF Step
  <2>1. d[0] = Step(d, 0)
    BY <1>9
  <2>2. ASSUME NEW i \in 1..n PROVE d[i] = Step(d, i) /\ i # 0
    <3>1. i \in 0..n /\ i # 0
      OBVIOUS
    <3>. QED
      BY <1>9, <3>1
  <2>. QED
    BY <2>1, <2>2
<1>. QED
  BY <1>8, <1>10

\* One piece of a delta: the changes of the view so far.
Pushed(delta, pos, changes, i) ==
  CASE delta[i].op = "insert" ->
         Append(changes, [from |-> pos[i - 1], to |-> pos[i - 1], insert |-> delta[i].text])
    [] delta[i].op = "delete" ->
         Append(changes, [from |-> pos[i - 1], to |-> pos[i - 1] + delta[i].n, insert |-> <<>>])
    [] OTHER -> changes

LEMMA ChangesSteps ==
  ASSUME NEW delta, NEW pos, Len(delta) \in Nat
  PROVE  /\ ChangesAt(delta, pos)[0] = <<>>
         /\ \A i \in 1..Len(delta) :
              ChangesAt(delta, pos)[i] = Pushed(delta, pos, ChangesAt(delta, pos)[i - 1], i)
<1>. DEFINE n == Len(delta)
            Step(g, i) == IF i = 0 THEN <<>> ELSE Pushed(delta, pos, g[i - 1], i)
            S == {k \in Nat : \E g : \A i \in 0..n : i < k => g[i] = Step(g, i)}
<1>1. 0 \in S
  OBVIOUS
<1>2. ASSUME NEW k \in Nat, NEW g, \A i \in 0..n : i < k => g[i] = Step(g, i),
             NEW h, h = [i \in 0..n |-> Step(g, i)]
      PROVE  \A i \in 0..n : i < k + 1 => h[i] = Step(h, i)
  <2>1. ASSUME NEW i \in 1..n, i < k + 1 PROVE h[i] = Step(h, i)
    <3>1. i - 1 \in 0..n /\ i - 1 < k /\ i \in 0..n /\ i # 0
      BY <2>1
    <3>2. h[i - 1] = g[i - 1]
      BY <1>2, <3>1
    <3>. QED
      BY <1>2, <3>1, <3>2
  <2>2. h[0] = Step(h, 0)
    BY <1>2
  <2>. QED
    BY <2>1, <2>2
<1>3. ASSUME NEW k \in Nat, k \in S PROVE k + 1 \in S
  <2>1. PICK g : \A i \in 0..n : i < k => g[i] = Step(g, i)
    BY <1>3
  <2>2. PICK h : h = [i \in 0..n |-> Step(g, i)]
    OBVIOUS
  <2>3. \A i \in 0..n : i < k + 1 => h[i] = Step(h, i)
    BY <1>2, <2>1, <2>2
  <2>. QED
    BY <2>3
<1>0. PICK m \in Nat : m = n + 1
  OBVIOUS
<1>4. m \in S
  <2>. HIDE DEF S
  <2>. QED
    BY <1>1, <1>3, SetInduction
<1>5. PICK g : \A i \in 0..n : i < m => g[i] = Step(g, i)
  BY <1>4
<1>6. PICK h : h = [i \in 0..n |-> Step(g, i)]
  OBVIOUS
<1>7. h = [i \in 0..n |-> Step(h, i)]
  <2>1. \A i \in 0..n : i < m + 1 => h[i] = Step(h, i)
    <3>. HIDE DEF Step
    <3>. QED
      BY <1>2, <1>5, <1>6
  <2>2. ASSUME NEW i \in 0..n PROVE Step(g, i) = Step(h, i)
    <3>1. i < m + 1
      BY <1>0
    <3>2. h[i] = Step(h, i)
      BY <2>1, <3>1
    <3>3. h[i] = Step(g, i)
      BY <1>6
    <3>. QED
      BY <3>2, <3>3
  <2>3. [i \in 0..n |-> Step(g, i)] = [i \in 0..n |-> Step(h, i)]
    BY <2>2
  <2>. QED
    BY <1>6, <2>3
<1>8. PICK d : d = ChangesAt(delta, pos)
  OBVIOUS
<1>9. d = [i \in 0..n |-> Step(d, i)]
  <2>1. d = CHOOSE f : f = [i \in 0..n |-> Step(f, i)]
    BY <1>8 DEF ChangesAt, Pushed
  <2>. HIDE DEF Step
  <2>. QED
    BY <1>7, <2>1
<1>10. d[0] = Step(d, 0) /\ \A i \in 1..n : d[i] = Step(d, i) /\ i # 0
  <2>. HIDE DEF Step
  <2>1. d[0] = Step(d, 0)
    BY <1>9
  <2>2. ASSUME NEW i \in 1..n PROVE d[i] = Step(d, i) /\ i # 0
    <3>1. i \in 0..n /\ i # 0
      OBVIOUS
    <3>. QED
      BY <1>9, <3>1
  <2>. QED
    BY <2>1, <2>2
<1>. QED
  BY <1>8, <1>10

\* One change made in the shared text.
Made(s, c) ==
  [text |-> Splice(s.text, c.from + s.adj, c.to + s.adj, c.insert),
   adj |-> s.adj + Len(c.insert) - (c.to - c.from)]

LEMMA ReplayedSteps ==
  ASSUME NEW text, NEW cs, Len(cs) \in Nat
  PROVE  /\ Replayed(text, cs)[0] = [text |-> text, adj |-> 0]
         /\ \A i \in 1..Len(cs) :
              Replayed(text, cs)[i] = Made(Replayed(text, cs)[i - 1], cs[i])
<1>. DEFINE n == Len(cs)
            Step(g, i) == IF i = 0 THEN [text |-> text, adj |-> 0] ELSE Made(g[i - 1], cs[i])
            S == {k \in Nat : \E g : \A i \in 0..n : i < k => g[i] = Step(g, i)}
<1>1. 0 \in S
  OBVIOUS
<1>2. ASSUME NEW k \in Nat, NEW g, \A i \in 0..n : i < k => g[i] = Step(g, i),
             NEW h, h = [i \in 0..n |-> Step(g, i)]
      PROVE  \A i \in 0..n : i < k + 1 => h[i] = Step(h, i)
  <2>1. ASSUME NEW i \in 1..n, i < k + 1 PROVE h[i] = Step(h, i)
    <3>1. i - 1 \in 0..n /\ i - 1 < k /\ i \in 0..n /\ i # 0
      BY <2>1
    <3>2. h[i - 1] = g[i - 1]
      BY <1>2, <3>1
    <3>. QED
      BY <1>2, <3>1, <3>2
  <2>2. h[0] = Step(h, 0)
    BY <1>2
  <2>. QED
    BY <2>1, <2>2
<1>3. ASSUME NEW k \in Nat, k \in S PROVE k + 1 \in S
  <2>1. PICK g : \A i \in 0..n : i < k => g[i] = Step(g, i)
    BY <1>3
  <2>2. PICK h : h = [i \in 0..n |-> Step(g, i)]
    OBVIOUS
  <2>3. \A i \in 0..n : i < k + 1 => h[i] = Step(h, i)
    BY <1>2, <2>1, <2>2
  <2>. QED
    BY <2>3
<1>0. PICK m \in Nat : m = n + 1
  OBVIOUS
<1>4. m \in S
  <2>. HIDE DEF S
  <2>. QED
    BY <1>1, <1>3, SetInduction
<1>5. PICK g : \A i \in 0..n : i < m => g[i] = Step(g, i)
  BY <1>4
<1>6. PICK h : h = [i \in 0..n |-> Step(g, i)]
  OBVIOUS
<1>7. h = [i \in 0..n |-> Step(h, i)]
  <2>1. \A i \in 0..n : i < m + 1 => h[i] = Step(h, i)
    <3>. HIDE DEF Step
    <3>. QED
      BY <1>2, <1>5, <1>6
  <2>2. ASSUME NEW i \in 0..n PROVE Step(g, i) = Step(h, i)
    <3>1. i < m + 1
      BY <1>0
    <3>2. h[i] = Step(h, i)
      BY <2>1, <3>1
    <3>3. h[i] = Step(g, i)
      BY <1>6
    <3>. QED
      BY <3>2, <3>3
  <2>3. [i \in 0..n |-> Step(g, i)] = [i \in 0..n |-> Step(h, i)]
    BY <2>2
  <2>. QED
    BY <1>6, <2>3
<1>8. PICK d : d = Replayed(text, cs)
  OBVIOUS
<1>9. d = [i \in 0..n |-> Step(d, i)]
  <2>1. d = CHOOSE f : f = [i \in 0..n |-> Step(f, i)]
    BY <1>8 DEF Replayed, Made
  <2>. HIDE DEF Step
  <2>. QED
    BY <1>7, <2>1
<1>10. d[0] = Step(d, 0) /\ \A i \in 1..n : d[i] = Step(d, i) /\ i # 0
  <2>. HIDE DEF Step
  <2>1. d[0] = Step(d, 0)
    BY <1>9
  <2>2. ASSUME NEW i \in 1..n PROVE d[i] = Step(d, i) /\ i # 0
    <3>1. i \in 0..n /\ i # 0
      OBVIOUS
    <3>. QED
      BY <1>9, <3>1
  <2>. QED
    BY <2>1, <2>2
<1>. QED
  BY <1>8, <1>10

-----------------------------------------------------------------------------
(* Edits in several places: replaying the changes one after another, moved *)
(* by what the earlier ones have added, makes the document that CodeMirror *)
(* has built from the old one.                                             *)

Change(T) == [from : Nat, to : Nat, insert : Seq(T)]

\* The changes are in order, within the first n characters.
InOrder(cs, n, T) ==
  /\ cs \in Seq(Change(T))
  /\ \A i \in 1..Len(cs) :
       Past(cs, i - 1) <= cs[i].from /\ cs[i].from <= cs[i].to /\ cs[i].to <= n

LEMMA ChangeFields ==
  ASSUME NEW T, NEW c \in Change(T)
  PROVE  c.from \in Nat /\ c.to \in Nat /\ c.insert \in Seq(T)
BY DEF Change

LEMMA InOrderFacts ==
  ASSUME NEW T, NEW n \in Nat, NEW cs, InOrder(cs, n, T)
  PROVE  /\ Len(cs) \in Nat
         /\ \A i \in 0..Len(cs) : Past(cs, i) \in Nat /\ Past(cs, i) <= n
         /\ \A i \in 1..Len(cs) : /\ cs[i] \in Change(T)
                                  /\ cs[i].from \in Nat /\ cs[i].to \in Nat
                                  /\ cs[i].insert \in Seq(T)
                                  /\ Past(cs, i - 1) <= cs[i].from
                                  /\ cs[i].from <= cs[i].to /\ cs[i].to <= n
                                  /\ Past(cs, i) = cs[i].to
<1>1. cs \in Seq(Change(T)) /\ Len(cs) \in Nat
  BY LenProperties DEF InOrder
<1>2. ASSUME NEW i \in 1..Len(cs)
      PROVE  /\ cs[i] \in Change(T)
             /\ cs[i].from \in Nat /\ cs[i].to \in Nat /\ cs[i].insert \in Seq(T)
             /\ Past(cs, i - 1) <= cs[i].from /\ cs[i].from <= cs[i].to /\ cs[i].to <= n
             /\ Past(cs, i) = cs[i].to
  <2>1. cs[i] \in Change(T)
    BY <1>1, ElementOfSeq
  <2>2. cs[i].from \in Nat /\ cs[i].to \in Nat /\ cs[i].insert \in Seq(T)
    BY <2>1, ChangeFields
  <2>3. Past(cs, i - 1) <= cs[i].from /\ cs[i].from <= cs[i].to /\ cs[i].to <= n
    BY DEF InOrder
  <2>4. Past(cs, i) = cs[i].to
    BY DEF Past
  <2>. QED
    BY <2>1, <2>2, <2>3, <2>4
<1>3. ASSUME NEW i \in 0..Len(cs) PROVE Past(cs, i) \in Nat /\ Past(cs, i) <= n
  <2>1. CASE i = 0
    BY <2>1 DEF Past
  <2>2. CASE i # 0
    <3>1. i \in 1..Len(cs)
      BY <1>1, <2>2
    <3>. QED
      BY <1>2, <3>1
  <2>. QED
    BY <2>1, <2>2
<1>. QED
  BY <1>1, <1>2, <1>3

\* A text whose first part, out, is new, and whose rest is what followed offset
\* p of the document, moved by adj.
Kept(T, out, doc, p, text, adj) ==
  /\ out \in Seq(T) /\ doc \in Seq(T)
  /\ p \in Nat /\ p <= Len(doc)
  /\ text = out \o Cut(doc, p, Len(doc))
  /\ adj = Len(out) - p

\* One change of the rest.
LEMMA MadeOfKept ==
  ASSUME NEW T, NEW out, NEW doc, NEW p, NEW s, Kept(T, out, doc, p, s.text, s.adj),
         NEW c \in Change(T), p <= c.from, c.from <= c.to, c.to <= Len(doc)
  PROVE  Kept(T, out \o Cut(doc, p, c.from) \o c.insert, doc, c.to, Made(s, c).text, Made(s, c).adj)
<1>1. PICK f : f = c.from
  OBVIOUS
<1>2. PICK t : t = c.to
  OBVIOUS
<1>3. PICK x : x = c.insert
  OBVIOUS
<1>4. PICK n : n = Len(doc)
  OBVIOUS
<1>5. PICK m : m = Len(out)
  OBVIOUS
<1>6. PICK adj : adj = s.adj
  OBVIOUS
<1>7. out \in Seq(T) /\ doc \in Seq(T) /\ p \in Nat
  BY DEF Kept
<1>8. f \in Nat /\ t \in Nat /\ x \in Seq(T)
  BY <1>1, <1>2, <1>3, ChangeFields
<1>9. p <= f /\ f <= t /\ t <= n /\ n \in Nat /\ m \in Nat
  BY <1>1, <1>2, <1>4, <1>5, <1>7, LenProperties
<1>10. adj = m - p /\ adj \in Int
  BY <1>5, <1>6, <1>7, <1>9 DEF Kept
<1>11. PICK u : u = Cut(doc, p, n)
  OBVIOUS
<1>12. u \in Seq(T) /\ Len(u) = n - p
  <2>1. p <= n /\ n <= Len(doc)
    BY <1>4, <1>8, <1>9, <1>7
  <2>2. Cut(doc, p, n) \in Seq(T) /\ Len(Cut(doc, p, n)) = n - p
    BY <1>7, <1>9, <2>1, CutIs
  <2>. QED
    BY <1>11, <2>2
<1>13. s.text = out \o u
  BY <1>4, <1>11 DEF Kept
<1>14. PICK a : a = f - p
  OBVIOUS
<1>15. PICK b : b = t - p
  OBVIOUS
<1>16. /\ a \in Nat /\ b \in Nat /\ a <= Len(u) /\ b <= Len(u)
       /\ p + a = f /\ p + b = t /\ p + (n - p) = n
       /\ f + adj = m + a /\ t + adj = m + b
       /\ n - p \in Nat /\ a <= n - p /\ b <= n - p
  BY <1>7, <1>8, <1>9, <1>10, <1>12, <1>14, <1>15
<1>17. p <= n /\ n <= Len(doc)
  BY <1>4, <1>7, <1>8, <1>9
<1>18. Cut(out \o u, 0, m + a) = out \o Cut(doc, p, f)
  <2>1. Cut(out \o u, 0, m + a) = out \o Cut(u, 0, a)
    BY <1>5, <1>7, <1>12, <1>16, CutOfConcat
  <2>2. 0 \in Nat /\ 0 <= a /\ p + 0 = p
    BY <1>7, <1>16
  <2>3. Cut(Cut(doc, p, n), 0, a) = Cut(doc, p + 0, p + a)
    BY <1>7, <1>9, <1>16, <1>17, <2>2, CutOfCut
  <2>. QED
    BY <1>11, <1>16, <2>1, <2>2, <2>3
<1>19. Cut(out \o u, m + b, Len(out \o u)) = Cut(doc, t, n)
  <2>1. Len(out \o u) = m + Len(u)
    BY <1>5, <1>7, <1>12, ConcatType
  <2>2. Cut(out \o u, m + b, m + Len(u)) = Cut(u, b, Len(u))
    BY <1>5, <1>7, <1>12, <1>16, CutOfConcat
  <2>3. n - p <= n - p
    BY <1>16
  <2>4. Cut(Cut(doc, p, n), b, n - p) = Cut(doc, p + b, p + (n - p))
    BY <1>7, <1>9, <1>16, <1>17, <2>3, CutOfCut
  <2>. QED
    BY <1>11, <1>12, <1>16, <2>1, <2>2, <2>4
<1>20. PICK new : new = (out \o Cut(doc, p, f)) \o x
  OBVIOUS
<1>21. new \in Seq(T) /\ Len(new) = (m + (f - p)) + Len(x)
  <2>1. f <= Len(doc)
    BY <1>4, <1>8, <1>9
  <2>2. Cut(doc, p, f) \in Seq(T) /\ Len(Cut(doc, p, f)) = f - p
    BY <1>7, <1>8, <1>9, <2>1, CutIs
  <2>3. out \o Cut(doc, p, f) \in Seq(T) /\ Len(out \o Cut(doc, p, f)) = m + (f - p)
    BY <1>5, <1>7, <2>2, ConcatType
  <2>. QED
    BY <1>8, <1>20, <2>3, ConcatType
<1>22. Made(s, c).text = new \o Cut(doc, t, n)
  <2>1. Made(s, c).text = Splice(s.text, f + adj, t + adj, x)
    BY <1>1, <1>2, <1>3, <1>6 DEF Made
  <2>2. Splice(out \o u, m + a, m + b, x) =
          Cut(out \o u, 0, m + a) \o x \o Cut(out \o u, m + b, Len(out \o u))
    BY DEF Splice
  <2>. QED
    BY <1>13, <1>16, <1>18, <1>19, <1>20, <2>1, <2>2
<1>23. Made(s, c).adj = Len(new) - t
  <2>1. Made(s, c).adj = adj + Len(x) - (t - f)
    BY <1>1, <1>2, <1>3, <1>6 DEF Made
  <2>2. Len(x) \in Nat
    BY <1>8, LenProperties
  <2>. QED
    BY <1>7, <1>8, <1>9, <1>10, <1>21, <2>1, <2>2
<1>24. Kept(T, new, doc, t, Made(s, c).text, Made(s, c).adj)
  BY <1>4, <1>7, <1>8, <1>9, <1>21, <1>22, <1>23 DEF Kept
<1>. QED
  BY <1>1, <1>2, <1>3, <1>20, <1>24

\* After i changes, where the first i of them have been looked at.
LEMMA StagesAgree ==
  ASSUME NEW T, NEW doc \in Seq(T), NEW cs, InOrder(cs, Len(doc), T)
  PROVE  \A i \in 0..Len(cs) :
           Kept(T, Dispatched(doc, cs)[i], doc, Past(cs, i),
                Replayed(doc, cs)[i].text, Replayed(doc, cs)[i].adj)
<1>. DEFINE b(i) == Dispatched(doc, cs)[i]
            r(i) == Replayed(doc, cs)[i]
            S == {i \in 0..Len(cs) : Kept(T, b(i), doc, Past(cs, i), r(i).text, r(i).adj)}
<1>1. Len(doc) \in Nat
  BY LenProperties
<1>2. /\ Len(cs) \in Nat
      /\ \A i \in 0..Len(cs) : Past(cs, i) \in Nat /\ Past(cs, i) <= Len(doc)
      /\ \A i \in 1..Len(cs) : /\ cs[i] \in Change(T)
                               /\ cs[i].from \in Nat /\ cs[i].to \in Nat
                               /\ cs[i].insert \in Seq(T)
                               /\ Past(cs, i - 1) <= cs[i].from
                               /\ cs[i].from <= cs[i].to /\ cs[i].to <= Len(doc)
                               /\ Past(cs, i) = cs[i].to
  BY <1>1, InOrderFacts
<1>3. 0 \in S
  <2>1. b(0) = <<>> /\ r(0) = [text |-> doc, adj |-> 0]
    BY <1>2, DispatchedSteps, ReplayedSteps
  <2>2. Past(cs, 0) = 0 /\ 0 \in 0..Len(cs)
    BY <1>2 DEF Past
  <2>3. <<>> \in Seq(T) /\ Len(<<>>) = 0
    BY EmptySeq
  <2>4. <<>> \o Cut(doc, 0, Len(doc)) = doc
    BY CutAll, ConcatEmptySeq
  <2>. HIDE DEF b, r
  <2>5. r(0).text = doc /\ r(0).adj = 0
    BY <2>1
  <2>6. Kept(T, <<>>, doc, 0, doc, 0)
    <3>1. 0 <= Len(doc) /\ 0 = 0 - 0 /\ 0 \in Nat
      BY <1>1
    <3>. QED
      BY <2>3, <2>4, <3>1 DEF Kept
  <2>7. Kept(T, b(0), doc, Past(cs, 0), r(0).text, r(0).adj)
    BY <2>1, <2>2, <2>5, <2>6
  <2>. QED
    BY <2>2, <2>7
<1>4. ASSUME NEW i \in 1..Len(cs), i - 1 \in S PROVE i \in S
  <2>1. i - 1 \in 0..Len(cs) /\ i \in 0..Len(cs)
    BY <1>2
  <2>2. PICK c : c = cs[i]
    OBVIOUS
  <2>3. PICK p : p = Past(cs, i - 1)
    OBVIOUS
  <2>4. Kept(T, b(i - 1), doc, p, r(i - 1).text, r(i - 1).adj)
    BY <1>4, <2>3
  <2>5. c \in Change(T) /\ p <= c.from /\ c.from <= c.to /\ c.to <= Len(doc) /\ Past(cs, i) = c.to
    BY <1>2, <2>2, <2>3
  <2>6. b(i) = b(i - 1) \o Cut(doc, p, c.from) \o c.insert
    BY <1>2, <2>2, <2>3, DispatchedSteps
  <2>7. r(i) = Made(r(i - 1), c)
    BY <1>2, <2>2, ReplayedSteps
  <2>. HIDE DEF b, r
  <2>8. Kept(T, b(i - 1) \o Cut(doc, p, c.from) \o c.insert, doc, c.to,
             Made(r(i - 1), c).text, Made(r(i - 1), c).adj)
    BY <2>4, <2>5, MadeOfKept
  <2>9. Kept(T, b(i), doc, Past(cs, i), r(i).text, r(i).adj)
    BY <2>5, <2>6, <2>7, <2>8
  <2>. QED
    BY <2>1, <2>9
<1>5. 0..Len(cs) \subseteq S
  <2>. HIDE DEF S
  <2>. QED
    BY <1>2, <1>3, <1>4, UpTo
<1>. QED
  BY <1>5

\* update makes the shared text what the editor shows: for any document, any
\* number of changes in order, however they lengthen or shorten it, the changes
\* replayed with the running adjustment give the document that CodeMirror built.
THEOREM ReplayIsDispatch ==
  ASSUME NEW T, NEW doc \in Seq(T), NEW cs, InOrder(cs, Len(doc), T)
  PROVE  Dispatch(doc, cs) \in Seq(T) /\ Replay(doc, cs) = Dispatch(doc, cs)
<1>1. Len(doc) \in Nat
  BY LenProperties
<1>2. Len(cs) \in Nat /\ \A i \in 0..Len(cs) : Past(cs, i) \in Nat /\ Past(cs, i) <= Len(doc)
  BY <1>1, InOrderFacts
<1>3. PICK n : n = Len(cs)
  OBVIOUS
<1>4. n \in 0..Len(cs)
  BY <1>2, <1>3
<1>5. PICK b : b = Dispatched(doc, cs)[n]
  OBVIOUS
<1>6. PICK p : p = Past(cs, n)
  OBVIOUS
<1>7. Kept(T, b, doc, p, Replayed(doc, cs)[n].text, Replayed(doc, cs)[n].adj)
  BY <1>4, <1>5, <1>6, StagesAgree
<1>8. b \in Seq(T) /\ Replayed(doc, cs)[n].text = b \o Cut(doc, p, Len(doc))
  BY <1>7 DEF Kept
<1>9. Cut(doc, p, Len(doc)) \in Seq(T)
  <2>1. p \in Nat /\ p <= Len(doc)
    BY <1>2, <1>4, <1>6
  <2>2. Len(doc) <= Len(doc)
    BY <1>1
  <2>. QED
    BY <1>1, <2>1, <2>2, CutIs
<1>10. b \o Cut(doc, p, Len(doc)) \in Seq(T)
  BY <1>8, <1>9, ConcatType
<1>. QED
  BY <1>3, <1>5, <1>6, <1>8, <1>10 DEF Dispatch, Replay

-----------------------------------------------------------------------------
(* The peers' edits: the changes that applyRemoteDelta makes of a delta    *)
(* give the text that Yjs makes of it.                                     *)

IsDelta(delta, T) ==
  /\ Len(delta) \in Nat
  /\ \A i \in 1..Len(delta) :
       \/ delta[i].op = "insert" /\ delta[i].text \in Seq(T)
       \/ delta[i].op \in {"retain", "delete"} /\ delta[i].n \in Nat

\* The position of a delta only advances.
LEMMA OffsetsAdvance ==
  ASSUME NEW T, NEW delta, IsDelta(delta, T)
  PROVE  \A i \in 0..Len(delta) :
           /\ Offsets(delta)[i] \in Nat /\ Reach(delta) \in Nat
           /\ Offsets(delta)[i] <= Reach(delta)
           /\ i > 0 => Offsets(delta)[i - 1] <= Offsets(delta)[i]
<1>1. PICK o : o = Offsets(delta)
  OBVIOUS
<1>2. PICK n : n = Len(delta)
  OBVIOUS
<1>3. n \in Nat
  BY <1>2 DEF IsDelta
<1>4. \A i \in 1..n : Consumed(delta[i]) \in Nat
  BY <1>2 DEF IsDelta, Consumed
<1>5. o[0] = 0 /\ \A i \in 1..n : o[i] = o[i - 1] + Consumed(delta[i])
  BY <1>1, <1>2, <1>3, OffsetsSteps
<1>6. \A i \in 0..n : o[i] \in Nat
  <2>. DEFINE S == {i \in 0..n : o[i] \in Nat}
  <2>1. 0 \in S
    BY <1>3, <1>5
  <2>2. ASSUME NEW i \in 1..n, i - 1 \in S PROVE i \in S
    <3>1. o[i - 1] \in Nat /\ i \in 0..n
      BY <2>2
    <3>. QED
      BY <1>4, <1>5, <3>1
  <2>3. 0..n \subseteq S
    <3>. HIDE DEF S
    <3>. QED
      BY <1>3, <2>1, <2>2, UpTo
  <2>. QED
    BY <2>3
<1>7. \A i \in 1..n : o[i - 1] <= o[i]
  <2>1. ASSUME NEW i \in 1..n PROVE o[i - 1] <= o[i]
    <3>1. i - 1 \in 0..n
      BY <1>3
    <3>2. o[i - 1] \in Nat
      BY <1>6, <3>1
    <3>. QED
      BY <1>4, <1>5, <3>2
  <2>. QED
    BY <2>1
<1>8. \A i \in 0..n : o[n - i] <= o[n]
  <2>. DEFINE S == {i \in 0..n : o[n - i] <= o[n]}
  <2>1. 0 \in S
    BY <1>3, <1>6
  <2>2. ASSUME NEW i \in 1..n, i - 1 \in S PROVE i \in S
    <3>1. o[n - (i - 1)] <= o[n]
      BY <2>2
    <3>2. PICK k : k = n - (i - 1)
      OBVIOUS
    <3>3. k \in 1..n /\ k - 1 = n - i /\ k - 1 \in 0..n /\ k \in 0..n /\ n \in 0..n
      BY <1>3, <3>2
    <3>4. o[k - 1] <= o[k]
      BY <1>7, <3>3
    <3>5. o[k - 1] \in Nat /\ o[k] \in Nat /\ o[n] \in Nat
      BY <1>6, <3>3
    <3>6. o[k - 1] <= o[n]
      BY <3>1, <3>2, <3>4, <3>5
    <3>. QED
      BY <3>3, <3>6
  <2>3. 0..n \subseteq S
    <3>. HIDE DEF S
    <3>. QED
      BY <1>3, <2>1, <2>2, UpTo
  <2>. QED
    BY <2>3
<1>9. ASSUME NEW i \in 0..n PROVE o[i] <= o[n]
  <2>1. n - i \in 0..n /\ n - (n - i) = i
    BY <1>3
  <2>2. o[n - (n - i)] <= o[n]
    BY <1>8, <2>1
  <2>. QED
    BY <2>1, <2>2
<1>10. Reach(delta) = o[n] /\ n \in 0..n
  BY <1>1, <1>2, <1>3 DEF Reach
<1>11. ASSUME NEW i \in 0..n, i > 0 PROVE o[i - 1] <= o[i]
  <2>1. i \in 1..n
    BY <1>11
  <2>. QED
    BY <1>7, <2>1
<1>12. ASSUME NEW i \in 0..n
       PROVE  /\ o[i] \in Nat /\ Reach(delta) \in Nat /\ o[i] <= Reach(delta)
              /\ i > 0 => o[i - 1] <= o[i]
  BY <1>6, <1>9, <1>10, <1>11
<1>. QED
  BY <1>1, <1>2, <1>12

\* One more change at the end does not move what the ones before it do.
LEMMA DispatchedAppend ==
  ASSUME NEW T, NEW doc, NEW cs \in Seq(Change(T)), NEW c \in Change(T)
  PROVE  Dispatched(doc, Append(cs, c))[Len(cs) + 1] =
           Dispatched(doc, cs)[Len(cs)] \o Cut(doc, Past(cs, Len(cs)), c.from) \o c.insert
<1>1. PICK n : n = Len(cs)
  OBVIOUS
<1>2. PICK ds : ds = Append(cs, c)
  OBVIOUS
<1>3. n \in Nat
  BY <1>1, LenProperties
<1>4. Len(ds) = n + 1 /\ ds[n + 1] = c /\ \A i \in 1..n : ds[i] = cs[i]
  BY <1>1, <1>2, AppendProperties
<1>5. \A i \in 0..n : Past(ds, i) = Past(cs, i)
  BY <1>3, <1>4 DEF Past
<1>6. PICK b : b = Dispatched(doc, cs)
  OBVIOUS
<1>7. PICK d : d = Dispatched(doc, ds)
  OBVIOUS
<1>8. b[0] = <<>> /\ \A i \in 1..n : b[i] = b[i - 1] \o Cut(doc, Past(cs, i - 1), cs[i].from) \o cs[i].insert
  BY <1>1, <1>3, <1>6, DispatchedSteps
<1>9. Len(ds) \in Nat /\ n + 1 \in 1..Len(ds) /\ (n + 1) - 1 = n
  BY <1>3, <1>4
<1>10. /\ d[0] = <<>>
       /\ \A i \in 1..(n + 1) : d[i] = d[i - 1] \o Cut(doc, Past(ds, i - 1), ds[i].from) \o ds[i].insert
  <2>1. /\ d[0] = <<>>
        /\ \A i \in 1..Len(ds) :
             d[i] = d[i - 1] \o Cut(doc, Past(ds, i - 1), ds[i].from) \o ds[i].insert
    BY <1>7, <1>9, DispatchedSteps
  <2>. QED
    BY <1>4, <2>1
<1>11. 0..n \subseteq {i \in 0..n : d[i] = b[i]}
  <2>. DEFINE S == {i \in 0..n : d[i] = b[i]}
  <2>1. 0 \in S
    BY <1>3, <1>8, <1>10
  <2>2. ASSUME NEW i \in 1..n, i - 1 \in S PROVE i \in S
    <3>1. i \in 1..(n + 1) /\ i - 1 \in 0..n /\ i \in 0..n
      BY <1>3
    <3>2. d[i] = d[i - 1] \o Cut(doc, Past(ds, i - 1), ds[i].from) \o ds[i].insert
      BY <1>10, <3>1
    <3>3. b[i] = b[i - 1] \o Cut(doc, Past(cs, i - 1), cs[i].from) \o cs[i].insert
      BY <1>8
    <3>4. ds[i] = cs[i] /\ Past(ds, i - 1) = Past(cs, i - 1) /\ d[i - 1] = b[i - 1]
      BY <1>4, <1>5, <2>2, <3>1
    <3>. QED
      BY <3>1, <3>2, <3>3, <3>4
  <2>. HIDE DEF S
  <2>3. 0..n \subseteq S
    BY <1>3, <2>1, <2>2, UpTo
  <2>. QED
    BY <2>3 DEF S
<1>12. d[n] = b[n] /\ Past(ds, n) = Past(cs, n)
  BY <1>3, <1>5, <1>11
<1>13. d[n + 1] = d[n] \o Cut(doc, Past(ds, n), c.from) \o c.insert
  BY <1>4, <1>9, <1>10
<1>. QED
  BY <1>1, <1>2, <1>6, <1>7, <1>12, <1>13

\* What has been read of a delta, up to offset at of the text: out is the new
\* text so far, and the changes cs of the view make the same of it.
Follows(T, text, cs, at, out) ==
  /\ text \in Seq(T) /\ out \in Seq(T)
  /\ at \in Nat /\ at <= Len(text)
  /\ InOrder(cs, at, T)
  /\ Dispatched(text, cs)[Len(cs)] \in Seq(T)
  /\ Dispatched(text, cs)[Len(cs)] \o Cut(text, Past(cs, Len(cs)), at) = out

LEMMA InOrderWithin ==
  ASSUME NEW T, NEW m \in Nat, NEW n \in Nat, m <= n, NEW cs, InOrder(cs, m, T)
  PROVE  InOrder(cs, n, T)
<1>1. \A i \in 1..Len(cs) : /\ cs[i].to \in Nat /\ cs[i].to <= m
                            /\ Past(cs, i - 1) <= cs[i].from /\ cs[i].from <= cs[i].to
  BY InOrderFacts
<1>2. \A i \in 1..Len(cs) : cs[i].to <= n
  BY <1>1
<1>3. cs \in Seq(Change(T))
  BY DEF InOrder
<1>. QED
  BY <1>1, <1>2, <1>3 DEF InOrder

\* A piece that keeps what follows.
LEMMA FollowsKept ==
  ASSUME NEW T, NEW text, NEW cs, NEW at, NEW out, Follows(T, text, cs, at, out),
         NEW to \in Nat, at <= to, to <= Len(text)
  PROVE  Follows(T, text, cs, to, out \o Cut(text, at, to))
<1>1. text \in Seq(T) /\ out \in Seq(T) /\ at \in Nat /\ InOrder(cs, at, T)
  BY DEF Follows
<1>2. PICK d : d = Dispatched(text, cs)[Len(cs)]
  OBVIOUS
<1>3. PICK p : p = Past(cs, Len(cs))
  OBVIOUS
<1>4. p \in Nat /\ p <= at
  <2>1. Len(cs) \in Nat /\ \A i \in 0..Len(cs) : Past(cs, i) \in Nat /\ Past(cs, i) <= at
    BY <1>1, InOrderFacts
  <2>2. Len(cs) \in 0..Len(cs)
    BY <2>1
  <2>. QED
    BY <1>3, <2>1, <2>2
<1>5. d \in Seq(T) /\ d \o Cut(text, p, at) = out
  BY <1>2, <1>3 DEF Follows
<1>6. Len(text) \in Nat /\ at <= Len(text) /\ p <= to
  BY <1>1, <1>4, LenProperties DEF Follows
<1>7. Cut(text, p, at) \in Seq(T)
  BY <1>1, <1>4, <1>6, CutIs
<1>8. Cut(text, at, to) \in Seq(T)
  BY <1>1, CutIs
<1>9. Cut(text, p, at) \o Cut(text, at, to) = Cut(text, p, to)
  BY <1>1, <1>4, CutJoin
<1>10. (d \o Cut(text, p, at)) \o Cut(text, at, to) = d \o (Cut(text, p, at) \o Cut(text, at, to))
  <2>1. d \in Seq(T)
    BY <1>5
  <2>. QED
    BY <1>7, <1>8, <2>1, ConcatAssociative
<1>11. d \o Cut(text, p, to) = out \o Cut(text, at, to)
  BY <1>5, <1>9, <1>10
<1>12. out \o Cut(text, at, to) \in Seq(T)
  BY <1>1, <1>8, ConcatType
<1>13. InOrder(cs, to, T)
  BY <1>1, InOrderWithin
<1>. QED
  BY <1>1, <1>2, <1>3, <1>5, <1>11, <1>12, <1>13 DEF Follows

\* A piece that changes something.
LEMMA FollowsPushed ==
  ASSUME NEW T, NEW text, NEW cs, NEW at, NEW out, Follows(T, text, cs, at, out),
         NEW c \in Change(T), c.from = at, at <= c.to, c.to <= Len(text)
  PROVE  Follows(T, text, Append(cs, c), c.to, out \o c.insert)
<1>1. text \in Seq(T) /\ out \in Seq(T) /\ at \in Nat /\ InOrder(cs, at, T)
  BY DEF Follows
<1>2. PICK n : n = Len(cs)
  OBVIOUS
<1>3. cs \in Seq(Change(T)) /\ n \in Nat
  BY <1>1, <1>2, LenProperties DEF InOrder
<1>4. c.to \in Nat /\ c.insert \in Seq(T)
  BY ChangeFields
<1>5. PICK ds : ds = Append(cs, c)
  OBVIOUS
<1>6. ds \in Seq(Change(T)) /\ Len(ds) = n + 1 /\ ds[n + 1] = c /\ \A i \in 1..n : ds[i] = cs[i]
  BY <1>2, <1>3, <1>5, AppendProperties
<1>7. /\ \A i \in 0..n : Past(cs, i) \in Nat /\ Past(cs, i) <= at
      /\ \A i \in 1..n : /\ Past(cs, i - 1) <= cs[i].from /\ cs[i].from <= cs[i].to
                         /\ cs[i].to <= at /\ cs[i].to \in Nat
  BY <1>1, <1>2, InOrderFacts
<1>8. /\ \A i \in 0..n : Past(ds, i) = Past(cs, i)
      /\ Past(ds, n + 1) = c.to
  BY <1>3, <1>6 DEF Past
<1>9. InOrder(ds, c.to, T)
  <2>1. ASSUME NEW i \in 1..(n + 1)
        PROVE  Past(ds, i - 1) <= ds[i].from /\ ds[i].from <= ds[i].to /\ ds[i].to <= c.to
    <3>1. CASE i = n + 1
      <4>1. i - 1 = n /\ n \in 0..n /\ ds[i] = c
        BY <1>3, <1>6, <3>1
      <4>2. Past(ds, i - 1) <= at
        BY <1>7, <1>8, <4>1
      <4>3. c.to <= c.to
        BY <1>4
      <4>. QED
        BY <4>1, <4>2, <4>3
    <3>2. CASE i # n + 1
      <4>1. i \in 1..n /\ i - 1 \in 0..n
        BY <1>3, <3>2
      <4>2. ds[i] = cs[i] /\ Past(ds, i - 1) = Past(cs, i - 1)
        BY <1>6, <1>8, <4>1
      <4>3. cs[i].to <= c.to
        BY <1>1, <1>4, <1>7, <4>1
      <4>. QED
        BY <1>7, <4>1, <4>2, <4>3
    <3>. QED
      BY <3>1, <3>2
  <2>. QED
    BY <1>6, <2>1 DEF InOrder
<1>10. PICK d : d = Dispatched(text, cs)[n]
  OBVIOUS
<1>11. PICK p : p = Past(cs, n)
  OBVIOUS
<1>12. d \in Seq(T) /\ d \o Cut(text, p, at) = out
  BY <1>2, <1>10, <1>11 DEF Follows
<1>13. Dispatched(text, ds)[n + 1] = d \o Cut(text, p, c.from) \o c.insert
  BY <1>2, <1>3, <1>5, <1>10, <1>11, DispatchedAppend
<1>14. Dispatched(text, ds)[Len(ds)] = out \o c.insert
  BY <1>6, <1>12, <1>13
<1>15. out \o c.insert \in Seq(T)
  BY <1>1, <1>4, ConcatType
<1>16. Cut(text, Past(ds, Len(ds)), c.to) = <<>>
  BY <1>4, <1>6, <1>8, CutNone
<1>17. (out \o c.insert) \o <<>> = out \o c.insert
  BY <1>15, ConcatEmptySeq
<1>18. Follows(T, text, ds, c.to, out \o c.insert)
  BY <1>1, <1>4, <1>9, <1>14, <1>15, <1>16, <1>17 DEF Follows
<1>. QED
  BY <1>5, <1>18

LEMMA DeltaFollowed ==
  ASSUME NEW T, NEW text \in Seq(T), NEW delta, IsDelta(delta, T), Reach(delta) <= Len(text)
  PROVE  \A i \in 0..Len(delta) :
           Follows(T, text, ChangesAt(delta, Offsets(delta))[i], Offsets(delta)[i],
                   Applied(text, delta)[i])
<1>1. PICK o : o = Offsets(delta)
  OBVIOUS
<1>2. PICK n : n = Len(delta)
  OBVIOUS
<1>3. PICK cs : cs = ChangesAt(delta, o)
  OBVIOUS
<1>4. PICK out : out = Applied(text, delta)
  OBVIOUS
<1>5. n \in Nat /\ Len(text) \in Nat
  BY <1>2, LenProperties DEF IsDelta
<1>6. \A i \in 0..n : o[i] \in Nat /\ o[i] <= Len(text) /\ (i > 0 => o[i - 1] <= o[i])
  <2>1. ASSUME NEW i \in 0..n
        PROVE  o[i] \in Nat /\ o[i] <= Len(text) /\ (i > 0 => o[i - 1] <= o[i])
    <3>1. o[i] \in Nat /\ Reach(delta) \in Nat /\ o[i] <= Reach(delta) /\ (i > 0 => o[i - 1] <= o[i])
      BY <1>1, <1>2, OffsetsAdvance
    <3>. QED
      BY <1>5, <3>1
  <2>. QED
    BY <2>1
<1>7. o[0] = 0 /\ \A i \in 1..n : o[i] = o[i - 1] + Consumed(delta[i])
  BY <1>1, <1>2, <1>5, OffsetsSteps
<1>8. cs[0] = <<>> /\ \A i \in 1..n : cs[i] = Pushed(delta, o, cs[i - 1], i)
  BY <1>2, <1>3, <1>5, ChangesSteps
<1>9. out[0] = <<>> /\ \A i \in 1..n : out[i] = Written(text, delta, out[i - 1], i)
  BY <1>2, <1>4, <1>5, AppliedSteps
<1>. DEFINE S == {i \in 0..n : Follows(T, text, cs[i], o[i], out[i])}
<1>10. 0 \in S
  <2>1. <<>> \in Seq(Change(T)) /\ <<>> \in Seq(T) /\ Len(<<>>) = 0
    BY EmptySeq
  <2>2. InOrder(<<>>, 0, T)
    BY <2>1 DEF InOrder
  <2>3. Dispatched(text, <<>>)[0] = <<>>
    BY <2>1, DispatchedSteps
  <2>4. Cut(text, Past(<<>>, 0), 0) = <<>>
    BY CutNone DEF Past
  <2>5. <<>> \o <<>> = <<>>
    BY <2>1, ConcatEmptySeq
  <2>6. 0 \in Nat /\ 0 <= Len(text) /\ 0 \in 0..n
    BY <1>5
  <2>7. Follows(T, text, <<>>, 0, <<>>)
    BY <2>1, <2>2, <2>3, <2>4, <2>5, <2>6 DEF Follows
  <2>. QED
    BY <1>7, <1>8, <1>9, <2>6, <2>7
<1>11. ASSUME NEW i \in 1..n, i - 1 \in S PROVE i \in S
  <2>1. i - 1 \in 0..n /\ i \in 0..n /\ i > 0
    BY <1>5
  <2>2. PICK d : d = delta[i]
    OBVIOUS
  <2>3. PICK at : at = o[i - 1]
    OBVIOUS
  <2>4. PICK to : to = o[i]
    OBVIOUS
  <2>5. at \in Nat /\ to \in Nat /\ at <= to /\ to <= Len(text) /\ to = at + Consumed(d)
    BY <1>6, <1>7, <2>1, <2>2, <2>3, <2>4
  <2>6. PICK old : old = out[i - 1]
    OBVIOUS
  <2>7. PICK es : es = cs[i - 1]
    OBVIOUS
  <2>8. Follows(T, text, es, at, old)
    BY <1>11, <2>3, <2>6, <2>7
  <2>9. cs[i] = Pushed(delta, o, es, i) /\ out[i] = Written(text, delta, old, i)
    BY <1>8, <1>9, <2>6, <2>7
  <2>. HIDE DEF S
  <2>10. Follows(T, text, cs[i], to, out[i])
    <3>1. CASE d.op = "retain"
      <4>1. Written(text, delta, old, i) = old \o Cut(text, at, to)
        BY <1>1, <2>2, <2>3, <2>4, <3>1 DEF Written
      <4>2. Pushed(delta, o, es, i) = es
        BY <2>2, <3>1 DEF Pushed
      <4>3. Follows(T, text, es, to, old \o Cut(text, at, to))
        BY <2>5, <2>8, FollowsKept
      <4>. QED
        BY <2>9, <4>1, <4>2, <4>3
    <3>2. CASE d.op = "insert"
      <4>1. PICK c : c = [from |-> at, to |-> at, insert |-> d.text]
        OBVIOUS
      <4>2. d.text \in Seq(T)
        BY <1>2, <2>2, <3>2 DEF IsDelta
      <4>3. c \in Change(T) /\ c.from = at /\ c.to = at /\ c.insert = d.text
        BY <2>5, <4>1, <4>2 DEF Change
      <4>4. to = at
        BY <2>5, <3>2 DEF Consumed
      <4>5. Pushed(delta, o, es, i) = Append(es, c)
        BY <2>2, <2>3, <3>2, <4>1 DEF Pushed
      <4>6. Written(text, delta, old, i) = old \o d.text
        BY <2>2, <3>2 DEF Written
      <4>7. at <= c.to /\ c.to <= Len(text)
        BY <2>5, <4>3, <4>4
      <4>8. Follows(T, text, Append(es, c), c.to, old \o c.insert)
        BY <2>8, <4>3, <4>7, FollowsPushed
      <4>. QED
        BY <2>9, <4>3, <4>4, <4>5, <4>6, <4>8
    <3>3. CASE d.op = "delete"
      <4>1. PICK c : c = [from |-> at, to |-> at + d.n, insert |-> <<>>]
        OBVIOUS
      <4>2. to = at + d.n
        BY <2>5, <3>3 DEF Consumed
      <4>3. <<>> \in Seq(T)
        BY EmptySeq
      <4>4. c \in Change(T) /\ c.from = at /\ c.to = to /\ c.insert = <<>>
        BY <2>5, <4>1, <4>2, <4>3 DEF Change
      <4>5. Pushed(delta, o, es, i) = Append(es, c)
        BY <2>2, <2>3, <3>3, <4>1 DEF Pushed
      <4>6. Written(text, delta, old, i) = old
        BY <2>2, <3>3 DEF Written
      <4>7. at <= c.to /\ c.to <= Len(text)
        BY <2>5, <4>4
      <4>8. Follows(T, text, Append(es, c), c.to, old \o c.insert)
        BY <2>8, <4>4, <4>7, FollowsPushed
      <4>9. old \in Seq(T)
        BY <2>8 DEF Follows
      <4>10. old \o <<>> = old
        BY <4>9, ConcatEmptySeq
      <4>. QED
        BY <2>9, <4>4, <4>5, <4>6, <4>8, <4>10
    <3>4. d.op \in {"retain", "insert", "delete"}
      BY <1>2, <2>2 DEF IsDelta
    <3>. QED
      BY <3>1, <3>2, <3>3, <3>4
  <2>. QED
    BY <2>1, <2>4, <2>10 DEF S
<1>12. 0..n \subseteq S
  <2>. HIDE DEF S
  <2>. QED
    BY <1>5, <1>10, <1>11, UpTo
<1>13. \A i \in 0..n : Follows(T, text, cs[i], o[i], out[i])
  BY <1>12
<1>. QED
  BY <1>1, <1>2, <1>3, <1>4, <1>13

\* applyRemoteDelta: for any delta that stays within the text, however many
\* pieces it has, the changes it makes of it turn a view of that text into a
\* view of the new one.
THEOREM DeltaIsDispatch ==
  ASSUME NEW T, NEW text \in Seq(T), NEW delta, IsDelta(delta, T), Reach(delta) <= Len(text)
  PROVE  ApplyDelta(text, delta) \in Seq(T) /\ Dispatch(text, FromDelta(delta)) = ApplyDelta(text, delta)
<1>1. PICK o : o = Offsets(delta)
  OBVIOUS
<1>2. PICK n : n = Len(delta)
  OBVIOUS
<1>3. PICK cs : cs = ChangesAt(delta, o)[n]
  OBVIOUS
<1>4. PICK out : out = Applied(text, delta)[n]
  OBVIOUS
<1>5. PICK l : l = Len(text)
  OBVIOUS
<1>6. n \in Nat /\ l \in Nat /\ n \in 0..n
  BY <1>2, <1>5, LenProperties DEF IsDelta
<1>7. Reach(delta) = o[n] /\ FromDelta(delta) = cs
  BY <1>1, <1>2, <1>3 DEF Reach, FromDelta
<1>8. Follows(T, text, cs, o[n], out)
  BY <1>1, <1>2, <1>3, <1>4, <1>6, DeltaFollowed
<1>9. o[n] \in Nat /\ o[n] <= l /\ l <= Len(text)
  BY <1>5, <1>6, <1>8 DEF Follows
<1>10. PICK new : new = out \o Cut(text, o[n], l)
  OBVIOUS
<1>11. Follows(T, text, cs, l, new)
  BY <1>6, <1>8, <1>9, <1>10, FollowsKept
<1>12. Dispatch(text, cs) = new /\ new \in Seq(T)
  BY <1>5, <1>11 DEF Follows, Dispatch
<1>13. ApplyDelta(text, delta) = new
  BY <1>2, <1>4, <1>5, <1>7, <1>10 DEF ApplyDelta
<1>. QED
  BY <1>7, <1>12, <1>13

-----------------------------------------------------------------------------
(* The end of a composition: replacing the middle that diffEnds finds.     *)

LEMMA MinOfTwo ==
  ASSUME NEW m \in Nat, NEW n \in Nat
  PROVE  Min({m, n}) \in Nat /\ Min({m, n}) <= m /\ Min({m, n}) <= n
<1>1. \E x \in {m, n} : \A y \in {m, n} : x =< y
  <2>1. CASE m <= n
    BY <2>1
  <2>2. CASE ~(m <= n)
    BY <2>2
  <2>. QED
    BY <2>1, <2>2
<1>2. PICK x : x = Min({m, n})
  OBVIOUS
<1>3. x \in {m, n} /\ \A y \in {m, n} : x =< y
  BY <1>1, <1>2 DEF Min
<1>. QED
  BY <1>2, <1>3

\* The ends that diffEnds finds: they are common, and apart.
Ends(a, b, start, end) ==
  /\ start = CommonStart(a, b) /\ end = CommonEnd(a, b, start)
  /\ start \in Nat /\ end \in Nat
  /\ start + end <= Len(a) /\ start + end <= Len(b)
  /\ \A i \in 1..start : a[i] = b[i]
  /\ \A i \in 1..end : a[Len(a) - i + 1] = b[Len(b) - i + 1]

LEMMA CommonEnds ==
  ASSUME NEW T, NEW a \in Seq(T), NEW b \in Seq(T)
  PROVE  \E start, end : Ends(a, b, start, end)
<1>. DEFINE start == CommonStart(a, b)
            end == CommonEnd(a, b, start)
<1>1. Len(a) \in Nat /\ Len(b) \in Nat
  BY LenProperties
<1>2. PICK m : m = Min({Len(a), Len(b)})
  OBVIOUS
<1>3. m \in Nat /\ m <= Len(a) /\ m <= Len(b)
  BY <1>1, <1>2, MinOfTwo
<1>4. start \in 0..m /\ \A i \in 1..start : a[i] = b[i]
  <2>. DEFINE S == {n \in 0..m : \A i \in 1..n : a[i] = b[i]}
  <2>1. 0 \in S
    BY <1>3
  <2>2. S \in SUBSET (0..m) /\ S # {}
    BY <2>1
  <2>3. start = Max(S)
    BY <1>2 DEF CommonStart
  <2>4. Max(S) \in S
    <3>. HIDE DEF S
    <3>. QED
      BY <1>3, <2>2, GreatestIs
  <2>5. start \in S
    BY <2>3, <2>4
  <2>. QED
    BY <2>5
<1>5. PICK k : k = m - start
  OBVIOUS
<1>6. k \in Nat
  BY <1>3, <1>4, <1>5
<1>7. end \in 0..k /\ \A i \in 1..end : a[Len(a) - i + 1] = b[Len(b) - i + 1]
  <2>. DEFINE S == {n \in 0..k : \A i \in 1..n : a[Len(a) - i + 1] = b[Len(b) - i + 1]}
  <2>1. 0 \in S
    BY <1>6
  <2>2. S \in SUBSET (0..k) /\ S # {}
    BY <2>1
  <2>3. end = Max(S)
    BY <1>2, <1>5 DEF CommonEnd
  <2>4. Max(S) \in S
    <3>. HIDE DEF S
    <3>. QED
      BY <1>6, <2>2, GreatestIs
  <2>5. end \in S
    BY <2>3, <2>4
  <2>. QED
    BY <2>5
<1>8. start \in Nat /\ end \in Nat /\ start + end <= Len(a) /\ start + end <= Len(b)
  BY <1>1, <1>3, <1>4, <1>5, <1>6, <1>7
<1>. QED
  BY <1>4, <1>7, <1>8 DEF Ends

\* flushLocalToYtext: whatever the two texts are, replacing the middle that
\* diffEnds has found makes the shared text the one that the editor shows.
THEOREM DiffEndsReplaces ==
  ASSUME NEW T, NEW a \in Seq(T), NEW b \in Seq(T)
  PROVE  Splice(a, DiffEnds(a, b).from, DiffEnds(a, b).to, DiffEnds(a, b).insert) = b
<1>1. PICK start, end : Ends(a, b, start, end)
  BY CommonEnds
<1>3. PICK m : m = Len(a)
  OBVIOUS
<1>4. PICK n : n = Len(b)
  OBVIOUS
<1>5. m \in Nat /\ n \in Nat
  BY <1>3, <1>4, LenProperties
<1>6. /\ start \in Nat /\ end \in Nat
      /\ start + end <= m /\ start + end <= n
      /\ \A i \in 1..start : a[i] = b[i]
      /\ \A i \in 1..end : a[m - i + 1] = b[n - i + 1]
  BY <1>1, <1>3, <1>4 DEF Ends
<1>7. PICK p : p = m - end
  OBVIOUS
<1>8. PICK q : q = n - end
  OBVIOUS
<1>9. p \in Nat /\ q \in Nat /\ start <= p /\ start <= q /\ p <= m /\ q <= n /\ start <= m /\ start <= n
  BY <1>5, <1>6, <1>7, <1>8
<1>10. Cut(a, 0, start) = Cut(b, 0, start)
  <2>1. PICK u : u = Cut(a, 0, start)
    OBVIOUS
  <2>2. PICK v : v = Cut(b, 0, start)
    OBVIOUS
  <2>3. start <= Len(a) /\ start <= Len(b)
    BY <1>3, <1>4, <1>9
  <2>4. u \in Seq(T) /\ Len(u) = start /\ \A i \in 1..start : u[i] = a[i]
    BY <1>6, <2>1, <2>3, PrefixIs
  <2>5. v \in Seq(T) /\ Len(v) = start /\ \A i \in 1..start : v[i] = b[i]
    BY <1>6, <2>2, <2>3, PrefixIs
  <2>6. \A i \in 1..start : u[i] = v[i]
    BY <1>6, <2>4, <2>5
  <2>7. u = v
    BY <2>4, <2>5, <2>6, SeqEqual
  <2>. QED
    BY <2>1, <2>2, <2>7
<1>11. Cut(a, p, m) = Cut(b, q, n)
  <2>1. PICK u : u = Cut(a, p, m)
    OBVIOUS
  <2>2. PICK v : v = Cut(b, q, n)
    OBVIOUS
  <2>3. m <= Len(a) /\ n <= Len(b)
    BY <1>3, <1>4, <1>5
  <2>4. u \in Seq(T) /\ Len(u) = m - p /\ \A i \in 1..(m - p) : u[i] = a[p + i]
    BY <1>5, <1>9, <2>1, <2>3, CutIs
  <2>5. v \in Seq(T) /\ Len(v) = n - q /\ \A i \in 1..(n - q) : v[i] = b[q + i]
    BY <1>5, <1>9, <2>2, <2>3, CutIs
  <2>6. m - p = end /\ n - q = end
    BY <1>5, <1>6, <1>7, <1>8
  <2>7. ASSUME NEW i \in 1..end PROVE u[i] = v[i]
    <3>1. PICK k : k = end - i + 1
      OBVIOUS
    <3>2. k \in 1..end /\ m - k + 1 = p + i /\ n - k + 1 = q + i
      BY <1>5, <1>6, <1>7, <1>8, <3>1
    <3>3. a[m - k + 1] = b[n - k + 1]
      BY <1>6, <3>2
    <3>4. u[i] = a[p + i] /\ v[i] = b[q + i]
      BY <2>4, <2>5, <2>6
    <3>. QED
      BY <3>2, <3>3, <3>4
  <2>8. Len(u) = end /\ Len(v) = end
    BY <2>4, <2>5, <2>6
  <2>9. u = v
    BY <2>4, <2>5, <2>7, <2>8, SeqEqual
  <2>. QED
    BY <2>1, <2>2, <2>9
<1>12. Cut(b, 0, start) \o Cut(b, start, q) = Cut(b, 0, q)
  <2>1. 0 \in Nat /\ 0 <= start /\ q <= Len(b)
    BY <1>4, <1>6, <1>9
  <2>. QED
    BY <1>6, <1>9, <2>1, CutJoin
<1>13. Cut(b, 0, q) \o Cut(b, q, n) = Cut(b, 0, n)
  <2>1. 0 \in Nat /\ 0 <= q /\ n <= Len(b)
    BY <1>4, <1>5, <1>9
  <2>. QED
    BY <1>5, <1>9, <2>1, CutJoin
<1>14. Cut(b, 0, n) = b
  BY <1>4, CutAll
<1>15. PICK d : d = DiffEnds(a, b)
  OBVIOUS
<1>16. d.from = start /\ d.to = p /\ d.insert = Cut(b, start, q)
  BY <1>1, <1>3, <1>4, <1>7, <1>8, <1>15 DEF DiffEnds, Ends
<1>17. Splice(a, start, p, Cut(b, start, q)) = Cut(a, 0, start) \o Cut(b, start, q) \o Cut(a, p, m)
  BY <1>3 DEF Splice
<1>. QED
  BY <1>10, <1>11, <1>12, <1>13, <1>14, <1>15, <1>16, <1>17

-----------------------------------------------------------------------------
(* The binding.                                                            *)

\* Both texts are texts, and apart only while the input method composes.
Bound ==
  /\ view \in Seq(Chars) /\ ytext \in Seq(Chars)
  /\ composing \in BOOLEAN
  /\ Converged

LEMMA ChangesInOrder ==
  ASSUME NEW doc \in Seq(Chars), NEW cs \in Changes(doc)
  PROVE  InOrder(cs, Len(doc), Chars)
<1>. DEFINE change == [from : 0..Len(doc), to : 0..Len(doc),
                       insert : {<<>>} \cup {<<x>> : x \in Chars}]
<1>1. Len(doc) \in Nat
  BY LenProperties
<1>2. PICK k \in 1..MaxChanges : cs \in [1..k -> change]
  BY DEF Changes
<1>3. /\ \A i \in DOMAIN cs : cs[i].from <= cs[i].to
      /\ \A i \in DOMAIN cs : i > 1 => cs[i - 1].to < cs[i].from
  BY DEF Changes
<1>4. k \in Nat
  BY <1>2
<1>5. ASSUME NEW c \in change
      PROVE  c \in Change(Chars) /\ c.from \in 0..Len(doc) /\ c.to \in 0..Len(doc)
  <2>1. c.from \in 0..Len(doc) /\ c.to \in 0..Len(doc)
        /\ c.insert \in {<<>>} \cup {<<x>> : x \in Chars}
        /\ c = [from |-> c.from, to |-> c.to, insert |-> c.insert]
    OBVIOUS
  <2>2. <<>> \in Seq(Chars) /\ \A x \in Chars : <<x>> \in Seq(Chars)
    BY EmptySeq
  <2>3. c.insert \in Seq(Chars)
    BY <2>1, <2>2
  <2>4. c.from \in Nat /\ c.to \in Nat
    BY <1>1, <2>1
  <2>. QED
    BY <2>1, <2>3, <2>4 DEF Change
<1>6. ASSUME NEW i \in 1..k
      PROVE  cs[i] \in Change(Chars) /\ cs[i].from \in 0..Len(doc) /\ cs[i].to \in 0..Len(doc)
  <2>1. cs[i] \in change
    BY <1>2
  <2>. QED
    BY <1>5, <2>1
<1>. HIDE DEF change
<1>7. cs \in [1..k -> Change(Chars)]
  BY <1>2, <1>6
<1>8. cs \in Seq(Change(Chars)) /\ Len(cs) = k /\ DOMAIN cs = 1..k
  BY <1>4, <1>7
<1>9. ASSUME NEW i \in 1..k
      PROVE  Past(cs, i - 1) <= cs[i].from /\ cs[i].from <= cs[i].to /\ cs[i].to <= Len(doc)
  <2>1. cs[i].from <= cs[i].to /\ cs[i].to <= Len(doc) /\ cs[i].from >= 0
    BY <1>1, <1>3, <1>6, <1>8
  <2>2. CASE i = 1
    BY <2>1, <2>2 DEF Past
  <2>3. CASE i # 1
    <3>1. i > 1 /\ i - 1 \in 1..k /\ i - 1 # 0
      BY <1>4, <2>3
    <3>2. cs[i - 1].to < cs[i].from
      BY <1>3, <1>8, <3>1
    <3>3. cs[i - 1].to \in 0..Len(doc) /\ cs[i].from \in 0..Len(doc)
      BY <1>6, <3>1
    <3>4. cs[i - 1].to <= cs[i].from
      BY <1>1, <3>2, <3>3
    <3>. QED
      BY <2>1, <3>1, <3>4 DEF Past
  <2>. QED
    BY <2>2, <2>3
<1>. QED
  BY <1>8, <1>9 DEF InOrder

LEMMA DeltaIs ==
  ASSUME NEW delta \in Delta
  PROVE  IsDelta(delta, Chars)
<1>. DEFINE piece == [op : {"retain", "delete"}, n : 1..MaxLen]
                       \cup [op : {"insert"}, text : {<<x>> : x \in Chars}]
<1>1. PICK k \in 1..MaxPieces : delta \in [1..k -> piece]
  BY DEF Delta
<1>2. k \in Nat /\ Len(delta) = k
  BY <1>1
<1>3. ASSUME NEW d \in piece
      PROVE  \/ d.op = "insert" /\ d.text \in Seq(Chars)
             \/ d.op \in {"retain", "delete"} /\ d.n \in Nat
  <2>1. \A x \in Chars : <<x>> \in Seq(Chars)
    OBVIOUS
  <2>2. CASE d \in [op : {"retain", "delete"}, n : 1..MaxLen]
    BY <2>2
  <2>3. CASE d \in [op : {"insert"}, text : {<<x>> : x \in Chars}]
    BY <2>1, <2>3
  <2>. QED
    BY <2>2, <2>3
<1>4. \A i \in 1..k : delta[i] \in piece
  BY <1>1
<1>. QED
  BY <1>2, <1>3, <1>4 DEF IsDelta

LEMMA EditBound ==
  ASSUME Bound, Edit
  PROVE  Bound'
<1>1. PICK cs \in Changes(view) :
        /\ view' = Dispatch(view, cs)
        /\ Len(view') <= MaxLen
        /\ ytext' = IF ShouldSync(composing, FALSE) THEN Replay(ytext, cs) ELSE ytext
        /\ UNCHANGED <<composing, before>>
  BY DEF Edit
<1>2. view \in Seq(Chars) /\ ytext \in Seq(Chars) /\ composing \in BOOLEAN
  BY DEF Bound
<1>3. InOrder(cs, Len(view), Chars)
  BY <1>2, ChangesInOrder
<1>4. Dispatch(view, cs) \in Seq(Chars) /\ Replay(view, cs) = Dispatch(view, cs)
  BY <1>2, <1>3, ReplayIsDispatch
<1>5. CASE composing
  <2>1. ytext' = ytext /\ composing' = composing
    BY <1>1, <1>5 DEF ShouldSync
  <2>2. view' \in Seq(Chars) /\ ytext' \in Seq(Chars)
    BY <1>1, <1>2, <1>4, <2>1
  <2>. QED
    BY <1>5, <2>1, <2>2 DEF Bound, Converged
<1>6. CASE ~composing
  <2>1. ytext' = Replay(ytext, cs) /\ composing' = composing
    BY <1>1, <1>6 DEF ShouldSync
  <2>2. ytext = view
    BY <1>6 DEF Bound, Converged
  <2>3. ytext' = view'
    BY <1>1, <1>4, <2>1, <2>2
  <2>. QED
    BY <1>1, <1>2, <1>4, <2>1, <2>3 DEF Bound, Converged
<1>. QED
  BY <1>5, <1>6

LEMMA RemoteBound ==
  ASSUME Bound, Remote
  PROVE  Bound'
<1>1. PICK delta \in Delta :
        /\ Reach(delta) <= Len(ytext)
        /\ IF composing
           THEN ytext' = ApplyDelta(ytext, delta) /\ UNCHANGED view
           ELSE /\ view' = Dispatch(view, FromDelta(delta))
                /\ ytext' = IF ShouldSync(composing, TRUE)
                            THEN Replay(ApplyDelta(ytext, delta), FromDelta(delta))
                            ELSE ApplyDelta(ytext, delta)
        /\ UNCHANGED <<composing, before>>
  BY DEF Remote
<1>2. view \in Seq(Chars) /\ ytext \in Seq(Chars) /\ composing \in BOOLEAN
  BY DEF Bound
<1>3. IsDelta(delta, Chars)
  BY DeltaIs
<1>4. /\ ApplyDelta(ytext, delta) \in Seq(Chars)
      /\ Dispatch(ytext, FromDelta(delta)) = ApplyDelta(ytext, delta)
  BY <1>1, <1>2, <1>3, DeltaIsDispatch
<1>5. CASE composing
  <2>1. ytext' = ApplyDelta(ytext, delta) /\ view' = view /\ composing' = composing
    BY <1>1, <1>5
  <2>. QED
    BY <1>2, <1>4, <1>5, <2>1 DEF Bound, Converged
<1>6. CASE ~composing
  <2>1. /\ view' = Dispatch(view, FromDelta(delta))
        /\ ytext' = ApplyDelta(ytext, delta)
        /\ composing' = composing
    BY <1>1, <1>6 DEF ShouldSync
  <2>2. ytext = view
    BY <1>6 DEF Bound, Converged
  <2>3. view' = ytext'
    BY <1>4, <2>1, <2>2
  <2>. QED
    BY <1>2, <1>4, <2>1, <2>3 DEF Bound, Converged
<1>. QED
  BY <1>5, <1>6

LEMMA StepBound ==
  Bound /\ [Next]_vars => Bound'
<1>. SUFFICES ASSUME Bound, [Next]_vars PROVE Bound'
  OBVIOUS
<1>1. CASE Edit
  BY <1>1, EditBound
<1>2. CASE Remote
  BY <1>2, RemoteBound
<1>3. CASE CompositionStart
  BY <1>3 DEF CompositionStart, Bound, Converged
<1>4. CASE CompositionEnd
  <2>1. /\ ytext' = Splice(ytext, DiffEnds(ytext, view).from, DiffEnds(ytext, view).to,
                           DiffEnds(ytext, view).insert)
        /\ view' = view /\ composing' = FALSE
    BY <1>4 DEF CompositionEnd
  <2>2. view \in Seq(Chars) /\ ytext \in Seq(Chars)
    BY DEF Bound
  <2>3. ytext' = view
    BY <2>1, <2>2, DiffEndsReplaces
  <2>. QED
    BY <2>1, <2>2, <2>3 DEF Bound, Converged
<1>5. CASE UNCHANGED vars
  BY <1>5 DEF Bound, Converged, vars
<1>. QED
  BY <1>1, <1>2, <1>3, <1>4, <1>5 DEF Next

\* Whatever is typed in however many places, whatever the peers write, and
\* however often an input method composes in between, the editor shows the
\* shared text whenever no composition is under way.
THEOREM ConvergedAlways == Spec => []Converged
<1>1. Init => Bound
  <2>1. <<>> \in Seq(Chars)
    BY EmptySeq
  <2>. QED
    BY <2>1 DEF Init, Bound, Converged
<1>2. Bound => Converged
  BY DEF Bound
<1>. QED
  BY <1>1, <1>2, StepBound, PTL DEF Spec

\* While the input method composes no step changes both texts: what is typed
\* stays in the view, and what the peers write stays in the shared text.
THEOREM ApartWhileComposingAlways == Spec => ApartWhileComposing
<1>1. [Next]_vars => [composing /\ composing' => view' = view \/ ytext' = ytext]_vars
  <2>. SUFFICES ASSUME Next, composing, composing' PROVE view' = view \/ ytext' = ytext
    BY DEF vars
  <2>1. CASE Edit
    BY <2>1 DEF Edit, ShouldSync
  <2>2. CASE Remote
    BY <2>2 DEF Remote
  <2>3. CASE CompositionStart
    BY <2>3 DEF CompositionStart
  <2>4. CASE CompositionEnd
    BY <2>4 DEF CompositionEnd
  <2>. QED
    BY <2>1, <2>2, <2>3, <2>4 DEF Next
<1>. QED
  BY <1>1, PTL DEF Spec, ApartWhileComposing

-----------------------------------------------------------------------------
(* The diff of two versions.  Both recursions go from a place in the two   *)
(* texts to places that leave less of them, so what is shown of a place is *)
(* shown of those first.                                                   *)

\* What is left of the two texts at line i of the one and line j of the other.
Left(n, m, i, j) == (n - i) + (m - j)

\* What the table has at a place, from what it has behind it.
TableStep(a, b, g, i, j) ==
  IF i = Len(a) \/ j = Len(b) THEN 0
  ELSE IF a[i + 1] = b[j + 1] THEN 1 + g[<<i + 1, j + 1>>]
  ELSE Max({g[<<i + 1, j>>], g[<<i, j + 1>>]})

\* g and h agree on the places that leave less than one does.
SameBehind(a, b, i, j, g, h) ==
  \A x \in 0..Len(a), y \in 0..Len(b) :
    Left(Len(a), Len(b), x, y) < Left(Len(a), Len(b), i, j) => g[<<x, y>>] = h[<<x, y>>]

\* A step looks only at those.
LEMMA TableStepLooksBehind ==
  ASSUME NEW a, NEW b, Len(a) \in Nat, Len(b) \in Nat,
         NEW i \in 0..Len(a), NEW j \in 0..Len(b), NEW g, NEW h, SameBehind(a, b, i, j, g, h)
  PROVE  TableStep(a, b, g, i, j) = TableStep(a, b, h, i, j)
<1>. DEFINE n == Len(a)
            m == Len(b)
<1>0. \A x \in 0..n, y \in 0..m : Left(n, m, x, y) < Left(n, m, i, j) => g[<<x, y>>] = h[<<x, y>>]
  BY DEF SameBehind
<1>1. CASE i = n \/ j = m
  BY <1>1 DEF TableStep
<1>2. CASE ~(i = n \/ j = m)
  <2>1. i + 1 \in 0..n /\ j + 1 \in 0..m
    BY <1>2
  <2>2. /\ Left(n, m, i + 1, j + 1) < Left(n, m, i, j)
        /\ Left(n, m, i + 1, j) < Left(n, m, i, j)
        /\ Left(n, m, i, j + 1) < Left(n, m, i, j)
    BY DEF Left
  <2>3. g[<<i + 1, j + 1>>] = h[<<i + 1, j + 1>>]
    BY <1>0, <2>1, <2>2
  <2>4. g[<<i + 1, j>>] = h[<<i + 1, j>>]
    BY <1>0, <2>1, <2>2
  <2>5. g[<<i, j + 1>>] = h[<<i, j + 1>>]
    BY <1>0, <2>1, <2>2
  <2>. QED
    BY <1>2, <2>3, <2>4, <2>5 DEF TableStep
<1>. QED
  BY <1>1, <1>2

\* g satisfies the recursion where fewer than k lines are left.
TableSolved(a, b, g, k) ==
  \A i \in 0..Len(a), j \in 0..Len(b) :
    Left(Len(a), Len(b), i, j) < k => g[<<i, j>>] = TableStep(a, b, g, i, j)

TableStepped(a, b, g) == [p \in (0..Len(a)) \X (0..Len(b)) |-> TableStep(a, b, g, p[1], p[2])]

LEMMA TableSolvedFurther ==
  ASSUME NEW a, NEW b, Len(a) \in Nat, Len(b) \in Nat, NEW k \in Nat,
         NEW g, TableSolved(a, b, g, k), NEW h, h = TableStepped(a, b, g)
  PROVE  TableSolved(a, b, h, k + 1)
<1>1. PICK n : n = Len(a)
  OBVIOUS
<1>2. PICK m : m = Len(b)
  OBVIOUS
<1>3. n \in Nat /\ m \in Nat
  BY <1>1, <1>2
<1>4. \A i \in 0..n, j \in 0..m : h[<<i, j>>] = TableStep(a, b, g, i, j)
  BY <1>1, <1>2 DEF TableStepped
<1>5. \A x \in 0..n, y \in 0..m : Left(n, m, x, y) < k => g[<<x, y>>] = TableStep(a, b, g, x, y)
  BY <1>1, <1>2 DEF TableSolved
<1>6. ASSUME NEW i \in 0..n, NEW j \in 0..m, Left(n, m, i, j) < k + 1
      PROVE  h[<<i, j>>] = TableStep(a, b, h, i, j)
  <2>1. ASSUME NEW x \in 0..n, NEW y \in 0..m, Left(n, m, x, y) < Left(n, m, i, j)
        PROVE  g[<<x, y>>] = h[<<x, y>>]
    <3>1. Left(n, m, x, y) < k
      BY <1>3, <1>6, <2>1 DEF Left
    <3>2. g[<<x, y>>] = TableStep(a, b, g, x, y)
      BY <1>5, <3>1
    <3>. QED
      BY <1>4, <3>2
  <2>2. SameBehind(a, b, i, j, g, h)
    BY <1>1, <1>2, <2>1 DEF SameBehind
  <2>3. TableStep(a, b, g, i, j) = TableStep(a, b, h, i, j)
    BY <1>1, <1>2, <2>2, TableStepLooksBehind
  <2>. QED
    BY <1>4, <2>3
<1>. QED
  BY <1>1, <1>2, <1>6 DEF TableSolved

LEMMA TableSteps ==
  ASSUME NEW a, NEW b, Len(a) \in Nat, Len(b) \in Nat
  PROVE  \A i \in 0..Len(a), j \in 0..Len(b) :
           Table(a, b)[<<i, j>>] = TableStep(a, b, Table(a, b), i, j)
<1>. DEFINE S == {k \in Nat : \E g : TableSolved(a, b, g, k)}
<1>1. 0 \in S
  <2>1. \A i \in 0..Len(a), j \in 0..Len(b) : ~(Left(Len(a), Len(b), i, j) < 0)
    BY DEF Left
  <2>2. TableSolved(a, b, a, 0)
    BY <2>1 DEF TableSolved
  <2>. QED
    BY <2>2
<1>2. ASSUME NEW k \in Nat, k \in S PROVE k + 1 \in S
  <2>1. PICK g : TableSolved(a, b, g, k)
    BY <1>2
  <2>2. PICK h : h = TableStepped(a, b, g)
    OBVIOUS
  <2>3. TableSolved(a, b, h, k + 1)
    BY <2>1, <2>2, TableSolvedFurther
  <2>. QED
    BY <2>3
<1>3. PICK k \in Nat : \A i \in 0..Len(a), j \in 0..Len(b) : Left(Len(a), Len(b), i, j) < k
  <2>1. PICK k : k = Len(a) + Len(b) + 1
    OBVIOUS
  <2>2. k \in Nat /\ \A i \in 0..Len(a), j \in 0..Len(b) : Left(Len(a), Len(b), i, j) < k
    BY <2>1 DEF Left
  <2>. QED
    BY <2>2
<1>4. k \in S
  <2>. HIDE DEF S
  <2>. QED
    BY <1>1, <1>2, SetInduction
<1>5. PICK h : TableSolved(a, b, h, k)
  BY <1>4
<1>6. \A i \in 0..Len(a), j \in 0..Len(b) : h[<<i, j>>] = TableStep(a, b, h, i, j)
  BY <1>3, <1>5 DEF TableSolved
<1>7. PICK g : g = [p \in (0..Len(a)) \X (0..Len(b)) |-> h[p]]
  OBVIOUS
<1>8. \A i \in 0..Len(a), j \in 0..Len(b) : g[<<i, j>>] = h[<<i, j>>]
  BY <1>7
<1>9. \A i \in 0..Len(a), j \in 0..Len(b) : TableStep(a, b, g, i, j) = TableStep(a, b, h, i, j)
  <2>1. \A i \in 0..Len(a), j \in 0..Len(b) : SameBehind(a, b, i, j, g, h)
    BY <1>8 DEF SameBehind
  <2>. QED
    BY <2>1, TableStepLooksBehind
<1>10. \A p \in (0..Len(a)) \X (0..Len(b)) : h[p] = TableStep(a, b, g, p[1], p[2])
  <2>1. ASSUME NEW i \in 0..Len(a), NEW j \in 0..Len(b)
        PROVE  h[<<i, j>>] = TableStep(a, b, g, i, j)
    BY <1>6, <1>9
  <2>. QED
    BY <2>1
<1>11. g = TableStepped(a, b, g)
  BY <1>7, <1>10 DEF TableStepped
<1>12. PICK d : d = Table(a, b)
  OBVIOUS
<1>13. d = (CHOOSE f : f = TableStepped(a, b, f))
  BY <1>12 DEF Table, TableStepped, TableStep
<1>14. d = TableStepped(a, b, d)
  BY <1>11, <1>13
<1>15. \A i \in 0..Len(a), j \in 0..Len(b) : d[<<i, j>>] = TableStep(a, b, d, i, j)
  BY <1>14 DEF TableStepped
<1>. QED
  BY <1>12, <1>15

\* The diff from a place on.
DiffStep(a, b, g, i, j) ==
  CASE i = Len(a) /\ j = Len(b) -> <<>>
    [] i < Len(a) /\ j < Len(b) /\ a[i + 1] = b[j + 1] ->
         <<[op |-> "equal", text |-> a[i + 1]]>> \o g[<<i + 1, j + 1>>]
    [] i < Len(a) /\ (j = Len(b) \/ (a[i + 1] # b[j + 1]
                      /\ Table(a, b)[<<i + 1, j>>] >= Table(a, b)[<<i, j + 1>>])) ->
         <<[op |-> "delete", text |-> a[i + 1]]>> \o g[<<i + 1, j>>]
    [] OTHER -> <<[op |-> "insert", text |-> b[j + 1]]>> \o g[<<i, j + 1>>]

LEMMA DiffStepLooksBehind ==
  ASSUME NEW a, NEW b, Len(a) \in Nat, Len(b) \in Nat,
         NEW i \in 0..Len(a), NEW j \in 0..Len(b), NEW g, NEW h, SameBehind(a, b, i, j, g, h)
  PROVE  DiffStep(a, b, g, i, j) = DiffStep(a, b, h, i, j)
<1>. DEFINE n == Len(a)
            m == Len(b)
<1>0. \A x \in 0..n, y \in 0..m : Left(n, m, x, y) < Left(n, m, i, j) => g[<<x, y>>] = h[<<x, y>>]
  BY DEF SameBehind
<1>1. Left(n, m, i + 1, j + 1) < Left(n, m, i, j)
  BY DEF Left
<1>2. Left(n, m, i + 1, j) < Left(n, m, i, j)
  BY DEF Left
<1>3. Left(n, m, i, j + 1) < Left(n, m, i, j)
  BY DEF Left
<1>4. i < n /\ j < m => g[<<i + 1, j + 1>>] = h[<<i + 1, j + 1>>]
  BY <1>0, <1>1
<1>5. i < n => g[<<i + 1, j>>] = h[<<i + 1, j>>]
  BY <1>0, <1>2
<1>6. j < m => g[<<i, j + 1>>] = h[<<i, j + 1>>]
  BY <1>0, <1>3
<1>7. i = n => ~(i < n)
  OBVIOUS
<1>8. j # m => j < m
  OBVIOUS
<1>. QED
  BY <1>4, <1>5, <1>6, <1>7, <1>8 DEF DiffStep

\* g satisfies the recursion where fewer than k lines are left.
DiffSolved(a, b, g, k) ==
  \A i \in 0..Len(a), j \in 0..Len(b) :
    Left(Len(a), Len(b), i, j) < k => g[<<i, j>>] = DiffStep(a, b, g, i, j)

DiffStepped(a, b, g) == [p \in (0..Len(a)) \X (0..Len(b)) |-> DiffStep(a, b, g, p[1], p[2])]

LEMMA DiffSolvedFurther ==
  ASSUME NEW a, NEW b, Len(a) \in Nat, Len(b) \in Nat, NEW k \in Nat,
         NEW g, DiffSolved(a, b, g, k), NEW h, h = DiffStepped(a, b, g)
  PROVE  DiffSolved(a, b, h, k + 1)
<1>1. PICK n : n = Len(a)
  OBVIOUS
<1>2. PICK m : m = Len(b)
  OBVIOUS
<1>3. n \in Nat /\ m \in Nat
  BY <1>1, <1>2
<1>4. \A i \in 0..n, j \in 0..m : h[<<i, j>>] = DiffStep(a, b, g, i, j)
  BY <1>1, <1>2 DEF DiffStepped
<1>5. \A x \in 0..n, y \in 0..m : Left(n, m, x, y) < k => g[<<x, y>>] = DiffStep(a, b, g, x, y)
  BY <1>1, <1>2 DEF DiffSolved
<1>6. ASSUME NEW i \in 0..n, NEW j \in 0..m, Left(n, m, i, j) < k + 1
      PROVE  h[<<i, j>>] = DiffStep(a, b, h, i, j)
  <2>1. ASSUME NEW x \in 0..n, NEW y \in 0..m, Left(n, m, x, y) < Left(n, m, i, j)
        PROVE  g[<<x, y>>] = h[<<x, y>>]
    <3>1. Left(n, m, x, y) < k
      BY <1>3, <1>6, <2>1 DEF Left
    <3>2. g[<<x, y>>] = DiffStep(a, b, g, x, y)
      BY <1>5, <3>1
    <3>. QED
      BY <1>4, <3>2
  <2>2. SameBehind(a, b, i, j, g, h)
    BY <1>1, <1>2, <2>1 DEF SameBehind
  <2>3. DiffStep(a, b, g, i, j) = DiffStep(a, b, h, i, j)
    BY <1>1, <1>2, <2>2, DiffStepLooksBehind
  <2>. QED
    BY <1>4, <2>3
<1>. QED
  BY <1>1, <1>2, <1>6 DEF DiffSolved

LEMMA DiffFromSteps ==
  ASSUME NEW a, NEW b, Len(a) \in Nat, Len(b) \in Nat
  PROVE  \A i \in 0..Len(a), j \in 0..Len(b) :
           DiffFrom(a, b)[<<i, j>>] = DiffStep(a, b, DiffFrom(a, b), i, j)
<1>. DEFINE S == {k \in Nat : \E g : DiffSolved(a, b, g, k)}
<1>1. 0 \in S
  <2>1. \A i \in 0..Len(a), j \in 0..Len(b) : ~(Left(Len(a), Len(b), i, j) < 0)
    BY DEF Left
  <2>2. DiffSolved(a, b, a, 0)
    BY <2>1 DEF DiffSolved
  <2>. QED
    BY <2>2
<1>2. ASSUME NEW k \in Nat, k \in S PROVE k + 1 \in S
  <2>1. PICK g : DiffSolved(a, b, g, k)
    BY <1>2
  <2>2. PICK h : h = DiffStepped(a, b, g)
    OBVIOUS
  <2>3. DiffSolved(a, b, h, k + 1)
    BY <2>1, <2>2, DiffSolvedFurther
  <2>. QED
    BY <2>3
<1>3. PICK k \in Nat : \A i \in 0..Len(a), j \in 0..Len(b) : Left(Len(a), Len(b), i, j) < k
  <2>1. PICK k : k = Len(a) + Len(b) + 1
    OBVIOUS
  <2>2. k \in Nat /\ \A i \in 0..Len(a), j \in 0..Len(b) : Left(Len(a), Len(b), i, j) < k
    BY <2>1 DEF Left
  <2>. QED
    BY <2>2
<1>4. k \in S
  <2>. HIDE DEF S
  <2>. QED
    BY <1>1, <1>2, SetInduction
<1>5. PICK h : DiffSolved(a, b, h, k)
  BY <1>4
<1>6. \A i \in 0..Len(a), j \in 0..Len(b) : h[<<i, j>>] = DiffStep(a, b, h, i, j)
  BY <1>3, <1>5 DEF DiffSolved
<1>7. PICK g : g = [p \in (0..Len(a)) \X (0..Len(b)) |-> h[p]]
  OBVIOUS
<1>8. \A i \in 0..Len(a), j \in 0..Len(b) : g[<<i, j>>] = h[<<i, j>>]
  BY <1>7
<1>9. \A i \in 0..Len(a), j \in 0..Len(b) : DiffStep(a, b, g, i, j) = DiffStep(a, b, h, i, j)
  <2>1. \A i \in 0..Len(a), j \in 0..Len(b) : SameBehind(a, b, i, j, g, h)
    BY <1>8 DEF SameBehind
  <2>. QED
    BY <2>1, DiffStepLooksBehind
<1>10. \A p \in (0..Len(a)) \X (0..Len(b)) : h[p] = DiffStep(a, b, g, p[1], p[2])
  <2>1. ASSUME NEW i \in 0..Len(a), NEW j \in 0..Len(b)
        PROVE  h[<<i, j>>] = DiffStep(a, b, g, i, j)
    BY <1>6, <1>9
  <2>. QED
    BY <2>1
<1>11. g = DiffStepped(a, b, g)
  BY <1>7, <1>10 DEF DiffStepped
<1>12. PICK d : d = DiffFrom(a, b)
  OBVIOUS
<1>13. d = (CHOOSE f : f = DiffStepped(a, b, f))
  BY <1>12 DEF DiffFrom, DiffStepped, DiffStep
<1>14. d = DiffStepped(a, b, d)
  BY <1>11, <1>13
<1>15. \A i \in 0..Len(a), j \in 0..Len(b) : d[<<i, j>>] = DiffStep(a, b, d, i, j)
  BY <1>14 DEF DiffStepped
<1>. QED
  BY <1>12, <1>15

\* What a line adds to the lines with given ops.
Added(out, d, ops) == IF d.op \in ops THEN out \o <<d.text>> ELSE out

LEMMA LinesLeftSteps ==
  ASSUME NEW diff, NEW ops, Len(diff) \in Nat
  PROVE  /\ LinesLeft(diff, ops)[0] = <<>>
         /\ \A i \in 1..Len(diff) :
              LinesLeft(diff, ops)[i] = Added(LinesLeft(diff, ops)[i - 1], diff[i], ops)
<1>. DEFINE n == Len(diff)
            Step(g, i) == IF i = 0 THEN <<>> ELSE Added(g[i - 1], diff[i], ops)
            S == {k \in Nat : \E g : \A i \in 0..n : i < k => g[i] = Step(g, i)}
<1>1. 0 \in S
  OBVIOUS
<1>2. ASSUME NEW k \in Nat, NEW g, \A i \in 0..n : i < k => g[i] = Step(g, i),
             NEW h, h = [i \in 0..n |-> Step(g, i)]
      PROVE  \A i \in 0..n : i < k + 1 => h[i] = Step(h, i)
  <2>1. ASSUME NEW i \in 1..n, i < k + 1 PROVE h[i] = Step(h, i)
    <3>1. i - 1 \in 0..n /\ i - 1 < k /\ i \in 0..n /\ i # 0
      BY <2>1
    <3>2. h[i - 1] = g[i - 1]
      BY <1>2, <3>1
    <3>. QED
      BY <1>2, <3>1, <3>2
  <2>2. h[0] = Step(h, 0)
    BY <1>2
  <2>. QED
    BY <2>1, <2>2
<1>3. ASSUME NEW k \in Nat, k \in S PROVE k + 1 \in S
  <2>1. PICK g : \A i \in 0..n : i < k => g[i] = Step(g, i)
    BY <1>3
  <2>2. PICK h : h = [i \in 0..n |-> Step(g, i)]
    OBVIOUS
  <2>3. \A i \in 0..n : i < k + 1 => h[i] = Step(h, i)
    BY <1>2, <2>1, <2>2
  <2>. QED
    BY <2>3
<1>0. PICK m \in Nat : m = n + 1
  OBVIOUS
<1>4. m \in S
  <2>. HIDE DEF S
  <2>. QED
    BY <1>1, <1>3, SetInduction
<1>5. PICK g : \A i \in 0..n : i < m => g[i] = Step(g, i)
  BY <1>4
<1>6. PICK h : h = [i \in 0..n |-> Step(g, i)]
  OBVIOUS
<1>7. h = [i \in 0..n |-> Step(h, i)]
  <2>1. \A i \in 0..n : i < m + 1 => h[i] = Step(h, i)
    <3>. HIDE DEF Step
    <3>. QED
      BY <1>2, <1>5, <1>6
  <2>2. ASSUME NEW i \in 0..n PROVE Step(g, i) = Step(h, i)
    <3>1. i < m + 1
      BY <1>0
    <3>2. h[i] = Step(h, i)
      BY <2>1, <3>1
    <3>3. h[i] = Step(g, i)
      BY <1>6
    <3>. QED
      BY <3>2, <3>3
  <2>3. [i \in 0..n |-> Step(g, i)] = [i \in 0..n |-> Step(h, i)]
    BY <2>2
  <2>. QED
    BY <1>6, <2>3
<1>8. PICK d : d = LinesLeft(diff, ops)
  OBVIOUS
<1>9. d = [i \in 0..n |-> Step(d, i)]
  <2>1. d = CHOOSE f : f = [i \in 0..n |-> Step(f, i)]
    BY <1>8 DEF LinesLeft, Added
  <2>. HIDE DEF Step
  <2>. QED
    BY <1>7, <2>1
<1>10. d[0] = Step(d, 0) /\ \A i \in 1..n : d[i] = Step(d, i) /\ i # 0
  <2>. HIDE DEF Step
  <2>1. d[0] = Step(d, 0)
    BY <1>9
  <2>2. ASSUME NEW i \in 1..n PROVE d[i] = Step(d, i) /\ i # 0
    <3>1. i \in 0..n /\ i # 0
      OBVIOUS
    <3>. QED
      BY <1>9, <3>1
  <2>. QED
    BY <2>1, <2>2
<1>. QED
  BY <1>8, <1>10

Entry(T) == [op : {"equal", "delete", "insert"}, text : T]

LEMMA EntryFields ==
  ASSUME NEW T, NEW d \in Entry(T)
  PROVE  d.op \in {"equal", "delete", "insert"} /\ d.text \in T
BY DEF Entry

LEMMA AddedIs ==
  ASSUME NEW T, NEW d \in Entry(T), NEW out \in Seq(T), NEW pre \in Seq(T), NEW ops
  PROVE  Added(out, d, ops) \in Seq(T) /\ Added(pre \o out, d, ops) = pre \o Added(out, d, ops)
<1>1. d.text \in T
  BY EntryFields
<1>2. PICK x : x = <<d.text>>
  OBVIOUS
<1>3. x \in Seq(T)
  BY <1>1, <1>2
<1>4. out \o x \in Seq(T)
  BY <1>3, ConcatType
<1>5. (pre \o out) \o x = pre \o (out \o x)
  BY <1>3, ConcatAssociative
<1>. QED
  BY <1>2, <1>4, <1>5 DEF Added

\* The lines of a diff that begins with the line d.
Leads(T, d, s, ops) ==
  /\ <<d>> \o s \in Seq(Entry(T))
  /\ LinesWith(s, ops) \in Seq(T)
  /\ LinesWith(<<d>> \o s, ops) =
       (IF d.op \in ops THEN <<d.text>> ELSE <<>>) \o LinesWith(s, ops)

LEMMA LinesOfFirst ==
  ASSUME NEW T, NEW d \in Entry(T), NEW s \in Seq(Entry(T)), NEW ops
  PROVE  Leads(T, d, s, ops)
<1>1. PICK u : u = <<d>> \o s
  OBVIOUS
<1>2. PICK n : n = Len(s)
  OBVIOUS
<1>3. n \in Nat /\ <<d>> \in Seq(Entry(T)) /\ Len(<<d>>) = 1 /\ <<d>>[1] = d
  BY <1>2, LenProperties
<1>4. /\ u \in Seq(Entry(T)) /\ Len(u) = 1 + n
      /\ \A i \in 1..(1 + n) : u[i] = IF i <= 1 THEN <<d>>[i] ELSE s[i - 1]
  <2>1. /\ <<d>> \o s \in Seq(Entry(T)) /\ Len(<<d>> \o s) = Len(<<d>>) + Len(s)
        /\ \A i \in 1..(Len(<<d>>) + Len(s)) :
             (<<d>> \o s)[i] = IF i <= Len(<<d>>) THEN <<d>>[i] ELSE s[i - Len(<<d>>)]
    BY <1>3, ConcatProperties
  <2>. QED
    BY <1>1, <1>2, <1>3, <2>1
<1>5. u[1] = d /\ \A k \in 1..n : u[k + 1] = s[k] /\ s[k] \in Entry(T)
  <2>1. u[1] = d
    BY <1>3, <1>4
  <2>2. ASSUME NEW k \in 1..n PROVE u[k + 1] = s[k] /\ s[k] \in Entry(T)
    <3>1. k + 1 \in 1..(1 + n) /\ ~(k + 1 <= 1) /\ (k + 1) - 1 = k
      BY <1>3
    <3>2. s[k] \in Entry(T)
      BY <1>2, ElementOfSeq
    <3>. QED
      BY <1>4, <3>1, <3>2
  <2>. QED
    BY <2>1, <2>2
<1>6. PICK pre : pre = IF d.op \in ops THEN <<d.text>> ELSE <<>>
  OBVIOUS
<1>7. pre \in Seq(T)
  <2>1. d.text \in T
    BY EntryFields
  <2>2. <<d.text>> \in Seq(T) /\ <<>> \in Seq(T)
    BY <2>1
  <2>. QED
    BY <1>6, <2>2
<1>8. PICK l : l = LinesLeft(s, ops)
  OBVIOUS
<1>9. PICK r : r = LinesLeft(u, ops)
  OBVIOUS
<1>10. l[0] = <<>> /\ \A k \in 1..n : l[k] = Added(l[k - 1], s[k], ops)
  BY <1>2, <1>3, <1>8, LinesLeftSteps
<1>11. Len(u) \in Nat
  BY <1>3, <1>4
<1>12. r[0] = <<>> /\ \A k \in 1..Len(u) : r[k] = Added(r[k - 1], u[k], ops)
  BY <1>9, <1>11, LinesLeftSteps
<1>13. r[1] = pre
  <2>1. 1 \in 1..Len(u) /\ 1 - 1 = 0
    BY <1>3, <1>4
  <2>2. r[1] = Added(r[1 - 1], u[1], ops)
    BY <1>12, <2>1
  <2>3. r[1] = Added(<<>>, d, ops)
    BY <1>5, <1>12, <2>1, <2>2
  <2>4. <<>> \o <<d.text>> = <<d.text>>
    <3>1. d.text \in T
      BY EntryFields
    <3>. QED
      BY <3>1, ConcatEmptySeq
  <2>. QED
    BY <1>6, <2>3, <2>4 DEF Added
<1>. DEFINE S == {k \in 0..n : l[k] \in Seq(T) /\ r[k + 1] = pre \o l[k]}
<1>14. 0 \in S
  <2>1. l[0] \in Seq(T)
    BY <1>10, EmptySeq
  <2>2. pre \o <<>> = pre
    BY <1>7, ConcatEmptySeq
  <2>3. 0 + 1 = 1 /\ 0 \in 0..n
    BY <1>3
  <2>. QED
    BY <1>10, <1>13, <2>1, <2>2, <2>3
<1>15. ASSUME NEW k \in 1..n, k - 1 \in S PROVE k \in S
  <2>1. l[k - 1] \in Seq(T) /\ r[(k - 1) + 1] = pre \o l[k - 1]
    BY <1>15
  <2>2. (k - 1) + 1 = k /\ (k + 1) - 1 = k /\ k + 1 \in 1..Len(u) /\ k \in 0..n
    BY <1>3, <1>4
  <2>3. l[k] = Added(l[k - 1], s[k], ops)
    BY <1>10
  <2>4. r[k + 1] = Added(r[k], s[k], ops)
    BY <1>5, <1>12, <2>2
  <2>5. r[k] = pre \o l[k - 1]
    BY <2>1, <2>2
  <2>6. s[k] \in Entry(T)
    BY <1>5
  <2>7. Added(l[k - 1], s[k], ops) \in Seq(T)
        /\ Added(pre \o l[k - 1], s[k], ops) = pre \o Added(l[k - 1], s[k], ops)
    <3>1. PICK x : x = l[k - 1]
      OBVIOUS
    <3>2. PICK y : y = s[k]
      OBVIOUS
    <3>3. x \in Seq(T)
      BY <2>1, <3>1
    <3>4. y \in Entry(T)
      BY <2>6, <3>2
    <3>5. Added(x, y, ops) \in Seq(T) /\ Added(pre \o x, y, ops) = pre \o Added(x, y, ops)
      BY <1>7, <3>3, <3>4, AddedIs
    <3>. QED
      BY <3>1, <3>2, <3>5
  <2>8. l[k] \in Seq(T) /\ r[k + 1] = pre \o l[k]
    BY <2>3, <2>4, <2>5, <2>7
  <2>. QED
    BY <2>2, <2>8
<1>16. n \in S
  <2>. HIDE DEF S
  <2>1. 0..n \subseteq S
    BY <1>3, <1>14, <1>15, UpTo
  <2>. QED
    BY <1>3, <2>1
<1>17. l[n] \in Seq(T) /\ r[n + 1] = pre \o l[n]
  BY <1>16
<1>18. LinesWith(s, ops) = l[n] /\ LinesWith(u, ops) = r[n + 1]
  <2>1. 1 + n = n + 1
    BY <1>3
  <2>. QED
    BY <1>2, <1>4, <1>8, <1>9, <2>1 DEF LinesWith
<1>. QED
  BY <1>1, <1>4, <1>6, <1>17, <1>18 DEF Leads

-----------------------------------------------------------------------------
(* What holds of a place when it holds of those one line further holds of  *)
(* every place.                                                            *)

LEMMA PlacesInduction ==
  ASSUME NEW n \in Nat, NEW m \in Nat, NEW P,
         \A i \in 0..n, j \in 0..m :
           /\ i < n /\ j < m => <<i + 1, j + 1>> \in P
           /\ i < n => <<i + 1, j>> \in P
           /\ j < m => <<i, j + 1>> \in P
           => <<i, j>> \in P
  PROVE  \A i \in 0..n, j \in 0..m : <<i, j>> \in P
<1>. DEFINE S == {k \in Nat : \A i \in 0..n, j \in 0..m : Left(n, m, i, j) < k => <<i, j>> \in P}
<1>1. 0 \in S
  <2>1. \A i \in 0..n, j \in 0..m : ~(Left(n, m, i, j) < 0)
    BY DEF Left
  <2>. QED
    BY <2>1
<1>2. ASSUME NEW k \in Nat, k \in S PROVE k + 1 \in S
  <2>1. ASSUME NEW i \in 0..n, NEW j \in 0..m, Left(n, m, i, j) < k + 1
        PROVE  <<i, j>> \in P
    <3>1. \A x \in 0..n, y \in 0..m : Left(n, m, x, y) < k => <<x, y>> \in P
      BY <1>2
    <3>2. i < n /\ j < m => <<i + 1, j + 1>> \in P
      <4>1. Left(n, m, i + 1, j + 1) < k
        BY <2>1 DEF Left
      <4>2. i < n /\ j < m => i + 1 \in 0..n /\ j + 1 \in 0..m
        OBVIOUS
      <4>. QED
        BY <3>1, <4>1, <4>2
    <3>3. i < n => <<i + 1, j>> \in P
      <4>1. Left(n, m, i + 1, j) < k
        BY <2>1 DEF Left
      <4>2. i < n => i + 1 \in 0..n
        OBVIOUS
      <4>. QED
        BY <3>1, <4>1, <4>2
    <3>4. j < m => <<i, j + 1>> \in P
      <4>1. Left(n, m, i, j + 1) < k
        BY <2>1 DEF Left
      <4>2. j < m => j + 1 \in 0..m
        OBVIOUS
      <4>. QED
        BY <3>1, <4>1, <4>2
    <3>. QED
      BY <3>2, <3>3, <3>4
  <2>. QED
    BY <2>1
<1>3. PICK k \in Nat : \A i \in 0..n, j \in 0..m : Left(n, m, i, j) < k
  <2>1. PICK k : k = n + m + 1
    OBVIOUS
  <2>2. k \in Nat /\ \A i \in 0..n, j \in 0..m : Left(n, m, i, j) < k
    BY <2>1 DEF Left
  <2>. QED
    BY <2>2
<1>4. k \in S
  <2>. HIDE DEF S
  <2>. QED
    BY <1>1, <1>2, SetInduction
<1>. QED
  BY <1>3, <1>4

LEMMA MaxOfTwo ==
  ASSUME NEW m \in Nat, NEW n \in Nat
  PROVE  Max({m, n}) = IF m >= n THEN m ELSE n
<1>1. \E x \in {m, n} : \A y \in {m, n} : x >= y
  <2>1. CASE m <= n
    BY <2>1
  <2>2. CASE ~(m <= n)
    BY <2>2
  <2>. QED
    BY <2>1, <2>2
<1>2. PICK x : x = Max({m, n})
  OBVIOUS
<1>3. x \in {m, n} /\ \A y \in {m, n} : x >= y
  BY <1>1, <1>2 DEF Max
<1>4. x >= m /\ x >= n
  BY <1>3
<1>5. x = IF m >= n THEN m ELSE n
  BY <1>3, <1>4
<1>. QED
  BY <1>2, <1>5

\* The table holds numbers.
LEMMA TableNat ==
  ASSUME NEW a, NEW b, Len(a) \in Nat, Len(b) \in Nat
  PROVE  \A i \in 0..Len(a), j \in 0..Len(b) : Table(a, b)[<<i, j>>] \in Nat
<1>. DEFINE n == Len(a)
            m == Len(b)
            t == Table(a, b)
            P == {p \in (0..n) \X (0..m) : t[p] \in Nat}
<1>1. \A i \in 0..n, j \in 0..m : t[<<i, j>>] = TableStep(a, b, t, i, j)
  BY TableSteps
<1>2. ASSUME NEW i \in 0..n, NEW j \in 0..m,
             i < n /\ j < m => t[<<i + 1, j + 1>>] \in Nat,
             i < n => t[<<i + 1, j>>] \in Nat,
             j < m => t[<<i, j + 1>>] \in Nat
      PROVE  t[<<i, j>>] \in Nat
  <2>. HIDE DEF t
  <2>0. t[<<i, j>>] = TableStep(a, b, t, i, j)
    BY <1>1
  <2>1. CASE i = n \/ j = m
    <3>1. TableStep(a, b, t, i, j) = 0
      BY <2>1 DEF TableStep
    <3>. QED
      BY <2>0, <3>1
  <2>2. CASE ~(i = n \/ j = m)
    <3>1. i < n /\ j < m
      BY <2>2
    <3>2. PICK u : u = t[<<i + 1, j>>]
      OBVIOUS
    <3>3. PICK v : v = t[<<i, j + 1>>]
      OBVIOUS
    <3>4. u \in Nat /\ v \in Nat
      BY <1>2, <3>1, <3>2, <3>3
    <3>5. Max({u, v}) \in Nat
      BY <3>4, MaxOfTwo
    <3>6. t[<<i, j>>] = IF a[i + 1] = b[j + 1] THEN 1 + t[<<i + 1, j + 1>>] ELSE Max({u, v})
      BY <2>0, <2>2, <3>2, <3>3 DEF TableStep
    <3>. QED
      BY <1>2, <3>1, <3>5, <3>6
  <2>. QED
    BY <2>1, <2>2
<1>3. \A i \in 0..n, j \in 0..m :
           /\ i < n /\ j < m => <<i + 1, j + 1>> \in P
           /\ i < n => <<i + 1, j>> \in P
           /\ j < m => <<i, j + 1>> \in P
           => <<i, j>> \in P
  <2>. HIDE DEF t
  <2>. QED
    BY <1>2
<1>4. \A i \in 0..n, j \in 0..m : <<i, j>> \in P
  <2>. HIDE DEF P
  <2>. QED
    BY <1>3, PlacesInduction
<1>. QED
  BY <1>4

\* What the table has at a place that is not at the end of either text.
LEMMA TableWithin ==
  ASSUME NEW a, NEW b, Len(a) \in Nat, Len(b) \in Nat,
         NEW i \in 0..Len(a), NEW j \in 0..Len(b), i # Len(a), j # Len(b)
  PROVE  Table(a, b)[<<i, j>>] =
           IF a[i + 1] = b[j + 1] THEN 1 + Table(a, b)[<<i + 1, j + 1>>]
           ELSE IF Table(a, b)[<<i + 1, j>>] >= Table(a, b)[<<i, j + 1>>]
                THEN Table(a, b)[<<i + 1, j>>] ELSE Table(a, b)[<<i, j + 1>>]
<1>. DEFINE t == Table(a, b)
<1>1. PICK u : u = t[<<i + 1, j>>]
  OBVIOUS
<1>2. PICK v : v = t[<<i, j + 1>>]
  OBVIOUS
<1>3. i + 1 \in 0..Len(a) /\ j + 1 \in 0..Len(b)
  OBVIOUS
<1>4. u \in Nat /\ v \in Nat
  BY <1>1, <1>2, <1>3, TableNat
<1>5. Max({u, v}) = IF u >= v THEN u ELSE v
  BY <1>4, MaxOfTwo
<1>6. t[<<i, j>>] = TableStep(a, b, t, i, j)
  BY TableSteps
<1>7. t[<<i, j>>] = IF a[i + 1] = b[j + 1] THEN 1 + t[<<i + 1, j + 1>>] ELSE Max({u, v})
  BY <1>1, <1>2, <1>6 DEF TableStep
<1>. QED
  BY <1>1, <1>2, <1>5, <1>7

LEMMA TableAtEnd ==
  ASSUME NEW a, NEW b, Len(a) \in Nat, Len(b) \in Nat,
         NEW i \in 0..Len(a), NEW j \in 0..Len(b), i = Len(a) \/ j = Len(b)
  PROVE  Table(a, b)[<<i, j>>] = 0
<1>1. Table(a, b)[<<i, j>>] = TableStep(a, b, Table(a, b), i, j)
  BY TableSteps
<1>2. TableStep(a, b, Table(a, b), i, j) = 0
  BY DEF TableStep
<1>. QED
  BY <1>1, <1>2

LEMMA CutFirst ==
  ASSUME NEW T, NEW s \in Seq(T), NEW i \in Nat, i < Len(s)
  PROVE  s[i + 1] \in T /\ Cut(s, i, Len(s)) = <<s[i + 1]>> \o Cut(s, i + 1, Len(s))
<1>1. PICK n : n = Len(s)
  OBVIOUS
<1>2. PICK k : k = i + 1
  OBVIOUS
<1>3. n \in Nat /\ k \in Nat /\ i <= k /\ k <= n /\ n <= Len(s) /\ k <= Len(s)
  BY <1>1, <1>2, LenProperties
<1>4. Cut(s, i, k) \o Cut(s, k, n) = Cut(s, i, n)
  BY <1>1, <1>3, CutJoin
<1>5. k \in 1..Len(s)
  BY <1>1, <1>2, <1>3
<1>6. s[k] \in T
  BY <1>5, ElementOfSeq
<1>7. PICK c : c = Cut(s, i, k)
  OBVIOUS
<1>8. c \in Seq(T) /\ Len(c) = k - i /\ \A x \in 1..(k - i) : c[x] = s[i + x]
  BY <1>3, <1>7, CutIs
<1>9. k - i = 1
  BY <1>2
<1>10. c \in Seq(T) /\ Len(c) = 1 /\ c[1] = s[k]
  BY <1>2, <1>8, <1>9
<1>11. c = <<s[k]>>
  <2>1. <<s[k]>> \in Seq(T) /\ Len(<<s[k]>>) = 1 /\ <<s[k]>>[1] = s[k]
    BY <1>6
  <2>2. \A x \in 1..Len(c) : c[x] = <<s[k]>>[x]
    BY <1>10, <2>1
  <2>. QED
    BY <1>10, <2>1, <2>2, SeqEqual
<1>. QED
  BY <1>1, <1>2, <1>4, <1>6, <1>7, <1>11

\* What a diff s from line i of a and line j of b on has to show.
Shows(T, a, b, i, j, s) ==
  /\ s \in Seq(Entry(T))
  /\ LinesWith(s, {"equal", "delete"}) = Cut(a, i, Len(a))
  /\ LinesWith(s, {"equal", "insert"}) = Cut(b, j, Len(b))
  /\ Len(LinesWith(s, {"equal"})) = Table(a, b)[<<i, j>>]

LEMMA ShowsEnd ==
  ASSUME NEW T, NEW a \in Seq(T), NEW b \in Seq(T)
  PROVE  Shows(T, a, b, Len(a), Len(b), <<>>)
<1>1. Len(a) \in Nat /\ Len(b) \in Nat
  BY LenProperties
<1>2. \A ops : LinesWith(<<>>, ops) = <<>>
  <2>1. ASSUME NEW ops PROVE LinesWith(<<>>, ops) = <<>>
    <3>1. Len(<<>>) = 0 /\ Len(<<>>) \in Nat
      OBVIOUS
    <3>2. LinesLeft(<<>>, ops)[0] = <<>>
      BY <3>1, LinesLeftSteps
    <3>. QED
      BY <3>1, <3>2 DEF LinesWith
  <2>. QED
    BY <2>1
<1>3. Cut(a, Len(a), Len(a)) = <<>> /\ Cut(b, Len(b), Len(b)) = <<>>
  BY <1>1, CutNone
<1>4. Table(a, b)[<<Len(a), Len(b)>>] = 0
  <2>1. Len(a) \in 0..Len(a) /\ Len(b) \in 0..Len(b)
    BY <1>1
  <2>. QED
    BY <1>1, <2>1, TableAtEnd
<1>5. <<>> \in Seq(Entry(T)) /\ Len(<<>>) = 0
  BY EmptySeq
<1>. QED
  BY <1>2, <1>3, <1>4, <1>5 DEF Shows

LEMMA ShowsEqual ==
  ASSUME NEW T, NEW a \in Seq(T), NEW b \in Seq(T), NEW i \in Nat, NEW j \in Nat,
         i < Len(a), j < Len(b), a[i + 1] = b[j + 1],
         Table(a, b)[<<i, j>>] = 1 + Table(a, b)[<<i + 1, j + 1>>],
         NEW s, Shows(T, a, b, i + 1, j + 1, s)
  PROVE  Shows(T, a, b, i, j, <<[op |-> "equal", text |-> a[i + 1]]>> \o s)
<1>1. PICK x : x = a[i + 1]
  OBVIOUS
<1>2. x \in T /\ Cut(a, i, Len(a)) = <<x>> \o Cut(a, i + 1, Len(a))
  BY <1>1, CutFirst
<1>3. Cut(b, j, Len(b)) = <<x>> \o Cut(b, j + 1, Len(b))
  BY <1>1, CutFirst
<1>4. PICK d : d = [op |-> "equal", text |-> x]
  OBVIOUS
<1>5. d \in Entry(T) /\ d.op = "equal" /\ d.text = x
  BY <1>2, <1>4 DEF Entry
<1>6. s \in Seq(Entry(T))
  BY DEF Shows
<1>7. \A ops : Leads(T, d, s, ops)
  <2>1. d \in Entry(T)
    BY <1>5
  <2>. QED
    BY <1>6, <2>1, LinesOfFirst
<1>8. LinesWith(<<d>> \o s, {"equal", "delete"}) = <<x>> \o LinesWith(s, {"equal", "delete"})
  BY <1>5, <1>7 DEF Leads
<1>9. LinesWith(<<d>> \o s, {"equal", "insert"}) = <<x>> \o LinesWith(s, {"equal", "insert"})
  BY <1>5, <1>7 DEF Leads
<1>10. Len(LinesWith(<<d>> \o s, {"equal"})) = 1 + Len(LinesWith(s, {"equal"}))
  <2>1. LinesWith(<<d>> \o s, {"equal"}) = <<x>> \o LinesWith(s, {"equal"})
    BY <1>5, <1>7 DEF Leads
  <2>2. PICK r : r = LinesWith(s, {"equal"})
    OBVIOUS
  <2>3. r \in Seq(T) /\ <<x>> \in Seq(T) /\ Len(<<x>>) = 1
    BY <1>2, <1>7, <2>2 DEF Leads
  <2>4. Len(<<x>> \o r) = Len(<<x>>) + Len(r)
    BY <2>3, ConcatType
  <2>. QED
    BY <2>1, <2>2, <2>3, <2>4
<1>12. /\ LinesWith(s, {"equal", "delete"}) = Cut(a, i + 1, Len(a))
       /\ LinesWith(s, {"equal", "insert"}) = Cut(b, j + 1, Len(b))
       /\ Len(LinesWith(s, {"equal"})) = Table(a, b)[<<i + 1, j + 1>>]
  BY DEF Shows
<1>13. Shows(T, a, b, i, j, <<d>> \o s)
  BY <1>2, <1>3, <1>7, <1>8, <1>9, <1>10, <1>12 DEF Shows, Leads
<1>. QED
  BY <1>1, <1>4, <1>13

\* A line of a that is deleted: b goes on where it was.
LEMMA ShowsDelete ==
  ASSUME NEW T, NEW a \in Seq(T), NEW b \in Seq(T), NEW i \in Nat, NEW j \in Nat,
         i < Len(a), j <= Len(b), Table(a, b)[<<i, j>>] = Table(a, b)[<<i + 1, j>>],
         NEW s, Shows(T, a, b, i + 1, j, s)
  PROVE  Shows(T, a, b, i, j, <<[op |-> "delete", text |-> a[i + 1]]>> \o s)
<1>1. PICK x : x = a[i + 1]
  OBVIOUS
<1>2. x \in T /\ Cut(a, i, Len(a)) = <<x>> \o Cut(a, i + 1, Len(a))
  BY <1>1, CutFirst
<1>3. PICK d : d = [op |-> "delete", text |-> x]
  OBVIOUS
<1>4. d \in Entry(T) /\ d.op = "delete" /\ d.text = x
  BY <1>2, <1>3 DEF Entry
<1>5. s \in Seq(Entry(T))
  BY DEF Shows
<1>6. \A ops : Leads(T, d, s, ops)
  <2>1. d \in Entry(T)
    BY <1>4
  <2>. QED
    BY <1>5, <2>1, LinesOfFirst
<1>7. LinesWith(<<d>> \o s, {"equal", "delete"}) = <<x>> \o LinesWith(s, {"equal", "delete"})
  BY <1>4, <1>6 DEF Leads
<1>8. LinesWith(<<d>> \o s, {"equal", "insert"}) = LinesWith(s, {"equal", "insert"})
  BY <1>4, <1>6, ConcatEmptySeq DEF Leads
<1>9. LinesWith(<<d>> \o s, {"equal"}) = LinesWith(s, {"equal"})
  BY <1>4, <1>6, ConcatEmptySeq DEF Leads
<1>10. /\ LinesWith(s, {"equal", "delete"}) = Cut(a, i + 1, Len(a))
       /\ LinesWith(s, {"equal", "insert"}) = Cut(b, j, Len(b))
       /\ Len(LinesWith(s, {"equal"})) = Table(a, b)[<<i + 1, j>>]
  BY DEF Shows
<1>11. Shows(T, a, b, i, j, <<d>> \o s)
  BY <1>2, <1>6, <1>7, <1>8, <1>9, <1>10 DEF Shows, Leads
<1>. QED
  BY <1>1, <1>3, <1>11

\* A line of b that is inserted: a goes on where it was.
LEMMA ShowsInsert ==
  ASSUME NEW T, NEW a \in Seq(T), NEW b \in Seq(T), NEW i \in Nat, NEW j \in Nat,
         i <= Len(a), j < Len(b), Table(a, b)[<<i, j>>] = Table(a, b)[<<i, j + 1>>],
         NEW s, Shows(T, a, b, i, j + 1, s)
  PROVE  Shows(T, a, b, i, j, <<[op |-> "insert", text |-> b[j + 1]]>> \o s)
<1>1. PICK x : x = b[j + 1]
  OBVIOUS
<1>2. x \in T /\ Cut(b, j, Len(b)) = <<x>> \o Cut(b, j + 1, Len(b))
  BY <1>1, CutFirst
<1>3. PICK d : d = [op |-> "insert", text |-> x]
  OBVIOUS
<1>4. d \in Entry(T) /\ d.op = "insert" /\ d.text = x
  BY <1>2, <1>3 DEF Entry
<1>5. s \in Seq(Entry(T))
  BY DEF Shows
<1>6. \A ops : Leads(T, d, s, ops)
  <2>1. d \in Entry(T)
    BY <1>4
  <2>. QED
    BY <1>5, <2>1, LinesOfFirst
<1>7. LinesWith(<<d>> \o s, {"equal", "insert"}) = <<x>> \o LinesWith(s, {"equal", "insert"})
  BY <1>4, <1>6 DEF Leads
<1>8. LinesWith(<<d>> \o s, {"equal", "delete"}) = LinesWith(s, {"equal", "delete"})
  BY <1>4, <1>6, ConcatEmptySeq DEF Leads
<1>9. LinesWith(<<d>> \o s, {"equal"}) = LinesWith(s, {"equal"})
  BY <1>4, <1>6, ConcatEmptySeq DEF Leads
<1>10. /\ LinesWith(s, {"equal", "delete"}) = Cut(a, i, Len(a))
       /\ LinesWith(s, {"equal", "insert"}) = Cut(b, j + 1, Len(b))
       /\ Len(LinesWith(s, {"equal"})) = Table(a, b)[<<i, j + 1>>]
  BY DEF Shows
<1>11. Shows(T, a, b, i, j, <<d>> \o s)
  BY <1>2, <1>6, <1>7, <1>8, <1>9, <1>10 DEF Shows, Leads
<1>. QED
  BY <1>1, <1>3, <1>11

LEMMA DiffShows ==
  ASSUME NEW T, NEW a \in Seq(T), NEW b \in Seq(T)
  PROVE  \A i \in 0..Len(a), j \in 0..Len(b) : Shows(T, a, b, i, j, DiffFrom(a, b)[<<i, j>>])
<1>. DEFINE n == Len(a)
            m == Len(b)
            d == DiffFrom(a, b)
            t == Table(a, b)
            P == {p \in (0..n) \X (0..m) : Shows(T, a, b, p[1], p[2], d[p])}
<1>1. n \in Nat /\ m \in Nat
  BY LenProperties
<1>2. \A i \in 0..n, j \in 0..m : d[<<i, j>>] = DiffStep(a, b, d, i, j)
  BY <1>1, DiffFromSteps
<1>3. \A i \in 0..n, j \in 0..m : t[<<i, j>>] \in Nat
  BY <1>1, TableNat
<1>4. ASSUME NEW i \in 0..n, NEW j \in 0..m,
             i < n /\ j < m => Shows(T, a, b, i + 1, j + 1, d[<<i + 1, j + 1>>]),
             i < n => Shows(T, a, b, i + 1, j, d[<<i + 1, j>>]),
             j < m => Shows(T, a, b, i, j + 1, d[<<i, j + 1>>])
      PROVE  Shows(T, a, b, i, j, d[<<i, j>>])
  <2>. HIDE DEF d, t, P
  <2>0. d[<<i, j>>] = DiffStep(a, b, d, i, j) /\ i \in Nat /\ j \in Nat /\ i <= n /\ j <= m
    BY <1>1, <1>2
  <2>1. CASE i = n /\ j = m
    <3>1. DiffStep(a, b, d, i, j) = <<>>
      BY <1>1, <2>1 DEF DiffStep
    <3>2. Shows(T, a, b, n, m, <<>>)
      BY ShowsEnd
    <3>. QED
      BY <2>0, <2>1, <3>1, <3>2
  <2>2. CASE i < n /\ j < m /\ a[i + 1] = b[j + 1]
    <3>1. DiffStep(a, b, d, i, j) = <<[op |-> "equal", text |-> a[i + 1]]>> \o d[<<i + 1, j + 1>>]
      BY <1>1, <2>2 DEF DiffStep
    <3>2. PICK s : s = d[<<i + 1, j + 1>>]
      OBVIOUS
    <3>3. Shows(T, a, b, i + 1, j + 1, s)
      BY <1>4, <2>2, <3>2
    <3>4. t[<<i, j>>] = 1 + t[<<i + 1, j + 1>>]
      <4>1. i # n /\ j # m
        BY <1>1, <2>2
      <4>2. t[<<i, j>>] = IF a[i + 1] = b[j + 1] THEN 1 + t[<<i + 1, j + 1>>]
                          ELSE IF t[<<i + 1, j>>] >= t[<<i, j + 1>>]
                               THEN t[<<i + 1, j>>] ELSE t[<<i, j + 1>>]
        BY <1>1, <4>1, TableWithin DEF t
      <4>. QED
        BY <2>2, <4>2
    <3>5. Shows(T, a, b, i, j, <<[op |-> "equal", text |-> a[i + 1]]>> \o s)
      BY <2>0, <2>2, <3>3, <3>4, ShowsEqual DEF t
    <3>. QED
      BY <2>0, <3>1, <3>2, <3>5
  <2>3. CASE i < n /\ (j = m \/ (a[i + 1] # b[j + 1] /\ t[<<i + 1, j>>] >= t[<<i, j + 1>>]))
    <3>0. ~(i = n /\ j = m) /\ ~(i < n /\ j < m /\ a[i + 1] = b[j + 1])
      BY <1>1, <2>3
    <3>1. DiffStep(a, b, d, i, j) = <<[op |-> "delete", text |-> a[i + 1]]>> \o d[<<i + 1, j>>]
      BY <2>3, <3>0 DEF DiffStep, t
    <3>2. PICK s : s = d[<<i + 1, j>>]
      OBVIOUS
    <3>3. Shows(T, a, b, i + 1, j, s)
      BY <1>4, <2>3, <3>2
    <3>4. t[<<i, j>>] = t[<<i + 1, j>>]
      <4>1. CASE j = m
        <5>1. i + 1 \in 0..n
          BY <1>1, <2>3
        <5>2. t[<<i, j>>] = 0
          BY <1>1, <4>1, TableAtEnd DEF t
        <5>3. t[<<i + 1, j>>] = 0
          BY <1>1, <4>1, <5>1, TableAtEnd DEF t
        <5>. QED
          BY <5>2, <5>3
      <4>2. CASE j # m
        <5>1. i # n
          BY <1>1, <2>3
        <5>2. t[<<i, j>>] = IF a[i + 1] = b[j + 1] THEN 1 + t[<<i + 1, j + 1>>]
                            ELSE IF t[<<i + 1, j>>] >= t[<<i, j + 1>>]
                                 THEN t[<<i + 1, j>>] ELSE t[<<i, j + 1>>]
          BY <1>1, <4>2, <5>1, TableWithin DEF t
        <5>. QED
          BY <2>3, <4>2, <5>2
      <4>. QED
        BY <4>1, <4>2
    <3>5. i < n
      BY <2>3
    <3>6. Shows(T, a, b, i, j, <<[op |-> "delete", text |-> a[i + 1]]>> \o s)
      BY <2>0, <3>3, <3>4, <3>5, ShowsDelete DEF t
    <3>. QED
      BY <2>0, <3>1, <3>2, <3>6
  <2>4. CASE /\ ~(i = n /\ j = m)
             /\ ~(i < n /\ j < m /\ a[i + 1] = b[j + 1])
             /\ ~(i < n /\ (j = m \/ (a[i + 1] # b[j + 1] /\ t[<<i + 1, j>>] >= t[<<i, j + 1>>])))
    <3>1. DiffStep(a, b, d, i, j) = <<[op |-> "insert", text |-> b[j + 1]]>> \o d[<<i, j + 1>>]
      BY <2>4 DEF DiffStep, t
    <3>2. PICK s : s = d[<<i, j + 1>>]
      OBVIOUS
    <3>3. j < m
      BY <1>1, <2>0, <2>4
    <3>4. Shows(T, a, b, i, j + 1, s)
      BY <1>4, <3>2, <3>3
    <3>5. t[<<i, j>>] = t[<<i, j + 1>>]
      <4>1. CASE i = n
        <5>1. j + 1 \in 0..m
          BY <1>1, <3>3
        <5>2. t[<<i, j>>] = 0
          BY <1>1, <4>1, TableAtEnd DEF t
        <5>3. t[<<i, j + 1>>] = 0
          BY <1>1, <4>1, <5>1, TableAtEnd DEF t
        <5>. QED
          BY <5>2, <5>3
      <4>2. CASE i # n
        <5>1. j # m /\ i < n
          BY <1>1, <2>0, <3>3, <4>2
        <5>2. t[<<i, j>>] = IF a[i + 1] = b[j + 1] THEN 1 + t[<<i + 1, j + 1>>]
                            ELSE IF t[<<i + 1, j>>] >= t[<<i, j + 1>>]
                                 THEN t[<<i + 1, j>>] ELSE t[<<i, j + 1>>]
          BY <1>1, <4>2, <5>1, TableWithin DEF t
        <5>. QED
          BY <2>4, <3>3, <5>1, <5>2
      <4>. QED
        BY <4>1, <4>2
    <3>6. Shows(T, a, b, i, j, <<[op |-> "insert", text |-> b[j + 1]]>> \o s)
      BY <2>0, <3>3, <3>4, <3>5, ShowsInsert DEF t
    <3>. QED
      BY <2>0, <3>1, <3>2, <3>6
  <2>. QED
    BY <2>1, <2>2, <2>3, <2>4
<1>5. \A i \in 0..n, j \in 0..m :
           /\ i < n /\ j < m => <<i + 1, j + 1>> \in P
           /\ i < n => <<i + 1, j>> \in P
           /\ j < m => <<i, j + 1>> \in P
           => <<i, j>> \in P
  <2>. HIDE DEF d, t
  <2>. QED
    BY <1>4
<1>6. \A i \in 0..n, j \in 0..m : <<i, j>> \in P
  <2>. HIDE DEF P
  <2>. QED
    BY <1>1, <1>5, PlacesInduction
<1>. QED
  BY <1>6

-----------------------------------------------------------------------------
(* No diff keeps more lines.                                               *)

\* f and g place l common lines of the two texts in order behind i and j.
Common(a, b, i, j, l, f, g) ==
  /\ \A k \in 1..l :
       /\ f[k] \in Nat /\ i < f[k] /\ f[k] <= Len(a)
       /\ g[k] \in Nat /\ j < g[k] /\ g[k] <= Len(b)
       /\ a[f[k]] = b[g[k]]
  /\ \A k, r \in 1..l : k < r => f[k] < f[r] /\ g[k] < g[r]

\* Without the first of them: the rest begins behind it.
LEMMA CommonRest ==
  ASSUME NEW a, NEW b, NEW i \in Nat, NEW j \in Nat, NEW l \in Nat, l # 0,
         NEW f, NEW g, Common(a, b, i, j, l, f, g)
  PROVE  \E u, v : Common(a, b, i + 1, j + 1, l - 1, u, v)
<1>1. PICK u : u = [k \in 1..(l - 1) |-> f[k + 1]]
  OBVIOUS
<1>2. PICK v : v = [k \in 1..(l - 1) |-> g[k + 1]]
  OBVIOUS
<1>3. 1 \in 1..l /\ l - 1 \in Nat
  OBVIOUS
<1>4. f[1] \in Nat /\ i < f[1] /\ g[1] \in Nat /\ j < g[1]
  BY <1>3 DEF Common
<1>5. ASSUME NEW k \in 1..(l - 1)
      PROVE  /\ u[k] \in Nat /\ i + 1 < u[k] /\ u[k] <= Len(a)
             /\ v[k] \in Nat /\ j + 1 < v[k] /\ v[k] <= Len(b)
             /\ a[u[k]] = b[v[k]]
  <2>1. PICK r : r = k + 1
    OBVIOUS
  <2>2. r \in 1..l /\ 1 < r
    BY <2>1
  <2>3. u[k] = f[r] /\ v[k] = g[r]
    BY <1>1, <1>2, <2>1
  <2>4. /\ f[r] \in Nat /\ f[r] <= Len(a) /\ g[r] \in Nat /\ g[r] <= Len(b)
        /\ a[f[r]] = b[g[r]]
    BY <2>2 DEF Common
  <2>5. f[1] < f[r] /\ g[1] < g[r]
    BY <1>3, <2>2 DEF Common
  <2>6. i + 1 < f[r] /\ j + 1 < g[r]
    BY <1>4, <2>4, <2>5
  <2>. QED
    BY <2>3, <2>4, <2>6
<1>6. ASSUME NEW k \in 1..(l - 1), NEW r \in 1..(l - 1), k < r
      PROVE  u[k] < u[r] /\ v[k] < v[r]
  <2>1. k + 1 \in 1..l /\ r + 1 \in 1..l /\ k + 1 < r + 1
    BY <1>6
  <2>2. f[k + 1] < f[r + 1] /\ g[k + 1] < g[r + 1]
    BY <2>1 DEF Common
  <2>. QED
    BY <1>1, <1>2, <2>2
<1>7. Common(a, b, i + 1, j + 1, l - 1, u, v)
  BY <1>5, <1>6 DEF Common
<1>. QED
  BY <1>7

\* Where the next lines differ, one of the two is not among them.
LEMMA CommonSkips ==
  ASSUME NEW a, NEW b, NEW i \in Nat, NEW j \in Nat, NEW l \in Nat, l # 0,
         NEW f, NEW g, Common(a, b, i, j, l, f, g), a[i + 1] # b[j + 1]
  PROVE  Common(a, b, i + 1, j, l, f, g) \/ Common(a, b, i, j + 1, l, f, g)
<1>1. 1 \in 1..l
  OBVIOUS
<1>2. f[1] \in Nat /\ i < f[1] /\ g[1] \in Nat /\ j < g[1] /\ a[f[1]] = b[g[1]]
  BY <1>1 DEF Common
<1>3. ~(f[1] = i + 1 /\ g[1] = j + 1)
  BY <1>2
<1>4. \A k \in 1..l : f[k] \in Nat /\ f[1] <= f[k] /\ g[k] \in Nat /\ g[1] <= g[k]
  <2>1. ASSUME NEW k \in 1..l PROVE f[k] \in Nat /\ f[1] <= f[k] /\ g[k] \in Nat /\ g[1] <= g[k]
    <3>1. f[k] \in Nat /\ g[k] \in Nat
      BY DEF Common
    <3>2. CASE k = 1
      BY <3>1, <3>2
    <3>3. CASE k # 1
      <4>1. 1 < k
        BY <3>3
      <4>2. f[1] < f[k] /\ g[1] < g[k]
        BY <1>1, <4>1 DEF Common
      <4>. QED
        BY <1>2, <3>1, <4>2
    <3>. QED
      BY <3>2, <3>3
  <2>. QED
    BY <2>1
<1>5. CASE f[1] # i + 1
  <2>1. i + 1 < f[1]
    BY <1>2, <1>5
  <2>2. \A k \in 1..l : i + 1 < f[k]
    BY <1>2, <1>4, <2>1
  <2>. QED
    BY <2>2 DEF Common
<1>6. CASE g[1] # j + 1
  <2>1. j + 1 < g[1]
    BY <1>2, <1>6
  <2>2. \A k \in 1..l : j + 1 < g[k]
    BY <1>2, <1>4, <2>1
  <2>. QED
    BY <2>2 DEF Common
<1>. QED
  BY <1>3, <1>5, <1>6

LEMMA CommonNoneAtEnd ==
  ASSUME NEW a, NEW b, NEW i \in Nat, NEW j \in Nat, NEW l \in Nat,
         i = Len(a) \/ j = Len(b), NEW f, NEW g, Common(a, b, i, j, l, f, g)
  PROVE  l = 0
<1>1. SUFFICES ASSUME l # 0 PROVE FALSE
  OBVIOUS
<1>2. 1 \in 1..l
  BY <1>1
<1>3. f[1] \in Nat /\ i < f[1] /\ f[1] <= Len(a) /\ g[1] \in Nat /\ j < g[1] /\ g[1] <= Len(b)
  BY <1>2 DEF Common
<1>. QED
  BY <1>3

\* The table bounds what the two texts have in common from a place on.
Bounds(a, b, t, i, j) == \A l \in Nat : \A f, g : Common(a, b, i, j, l, f, g) => l <= t[<<i, j>>]

LEMMA TableBounds ==
  ASSUME NEW a, NEW b, Len(a) \in Nat, Len(b) \in Nat
  PROVE  \A i \in 0..Len(a), j \in 0..Len(b) : Bounds(a, b, Table(a, b), i, j)
<1>. DEFINE n == Len(a)
            m == Len(b)
            t == Table(a, b)
            P == {p \in (0..n) \X (0..m) : Bounds(a, b, t, p[1], p[2])}
<1>1. \A i \in 0..n, j \in 0..m : t[<<i, j>>] \in Nat
  BY TableNat
<1>2. ASSUME NEW i \in 0..n, NEW j \in 0..m,
             i < n /\ j < m => Bounds(a, b, t, i + 1, j + 1),
             i < n => Bounds(a, b, t, i + 1, j),
             j < m => Bounds(a, b, t, i, j + 1),
             NEW l \in Nat, NEW f, NEW g, Common(a, b, i, j, l, f, g)
      PROVE  l <= t[<<i, j>>]
  <2>. HIDE DEF t, P
  <2>0. i \in Nat /\ j \in Nat /\ t[<<i, j>>] \in Nat
    BY <1>1
  <2>1. CASE l = 0
    BY <2>0, <2>1
  <2>2. CASE i = n \/ j = m
    <3>1. l = 0
      BY <1>2, <2>0, <2>2, CommonNoneAtEnd
    <3>. QED
      BY <2>0, <3>1
  <2>3. CASE l # 0 /\ i # n /\ j # m
    <3>1. i < n /\ j < m /\ i + 1 \in 0..n /\ j + 1 \in 0..m
      BY <2>3
    <3>2. t[<<i, j>>] = IF a[i + 1] = b[j + 1] THEN 1 + t[<<i + 1, j + 1>>]
                        ELSE IF t[<<i + 1, j>>] >= t[<<i, j + 1>>]
                             THEN t[<<i + 1, j>>] ELSE t[<<i, j + 1>>]
      BY <2>3, TableWithin DEF t
    <3>3. t[<<i + 1, j + 1>>] \in Nat /\ t[<<i + 1, j>>] \in Nat /\ t[<<i, j + 1>>] \in Nat
      BY <1>1, <3>1
    <3>4. CASE a[i + 1] = b[j + 1]
      <4>1. \E u, v : Common(a, b, i + 1, j + 1, l - 1, u, v)
        BY <1>2, <2>0, <2>3, CommonRest
      <4>2. Bounds(a, b, t, i + 1, j + 1)
        BY <1>2, <3>1
      <4>3. l - 1 \in Nat
        BY <2>3
      <4>4. l - 1 <= t[<<i + 1, j + 1>>]
        BY <4>1, <4>2, <4>3 DEF Bounds
      <4>. QED
        BY <3>2, <3>3, <3>4, <4>4
    <3>5. CASE a[i + 1] # b[j + 1]
      <4>1. Common(a, b, i + 1, j, l, f, g) \/ Common(a, b, i, j + 1, l, f, g)
        BY <1>2, <2>0, <2>3, <3>5, CommonSkips
      <4>2. Bounds(a, b, t, i + 1, j) /\ Bounds(a, b, t, i, j + 1)
        BY <1>2, <3>1
      <4>3. l <= t[<<i + 1, j>>] \/ l <= t[<<i, j + 1>>]
        BY <4>1, <4>2 DEF Bounds
      <4>. QED
        BY <3>2, <3>3, <3>5, <4>3
    <3>. QED
      BY <3>4, <3>5
  <2>. QED
    BY <2>1, <2>2, <2>3
<1>3. ASSUME NEW i \in 0..n, NEW j \in 0..m,
             i < n /\ j < m => Bounds(a, b, t, i + 1, j + 1),
             i < n => Bounds(a, b, t, i + 1, j),
             j < m => Bounds(a, b, t, i, j + 1)
      PROVE  Bounds(a, b, t, i, j)
  <2>. HIDE DEF t
  <2>1. ASSUME NEW l \in Nat, NEW f, NEW g, Common(a, b, i, j, l, f, g)
        PROVE  l <= t[<<i, j>>]
    BY <1>2, <1>3, <2>1
  <2>. QED
    BY <2>1 DEF Bounds
<1>4. \A i \in 0..n, j \in 0..m :
           /\ i < n /\ j < m => <<i + 1, j + 1>> \in P
           /\ i < n => <<i + 1, j>> \in P
           /\ j < m => <<i, j + 1>> \in P
           => <<i, j>> \in P
  <2>. HIDE DEF t
  <2>. QED
    BY <1>3
<1>5. \A i \in 0..n, j \in 0..m : <<i, j>> \in P
  <2>. HIDE DEF P
  <2>. QED
    BY <1>4, PlacesInduction
<1>. QED
  BY <1>5

\* LineDiff (domain/diff.go): of any two versions, whatever their lines, the
\* diff without its insertions is the first and without its deletions the
\* second, and no sequence of lines that both contain is longer than what it
\* keeps.
THEOREM LineDiffIsRight ==
  ASSUME NEW T, NEW a \in Seq(T), NEW b \in Seq(T)
  PROVE  DiffIsRight(a, b)
<1>1. PICK n : n = Len(a)
  OBVIOUS
<1>2. PICK m : m = Len(b)
  OBVIOUS
<1>3. n \in Nat /\ m \in Nat /\ DOMAIN a = 1..n /\ DOMAIN b = 1..m /\ 0 \in 0..n /\ 0 \in 0..m
  BY <1>1, <1>2, LenProperties
<1>4. PICK diff : diff = LineDiff(a, b)
  OBVIOUS
<1>5. Shows(T, a, b, 0, 0, diff)
  BY <1>1, <1>2, <1>3, <1>4, DiffShows DEF LineDiff
<1>6. LinesWith(diff, {"equal", "delete"}) = a /\ LinesWith(diff, {"equal", "insert"}) = b
  BY <1>5, CutAll DEF Shows
<1>7. PICK z : z = Table(a, b)[<<0, 0>>]
  OBVIOUS
<1>8. Len(LinesWith(diff, {"equal"})) = z
  BY <1>5, <1>7 DEF Shows
<1>9. Bounds(a, b, Table(a, b), 0, 0)
  BY <1>1, <1>2, <1>3, TableBounds
<1>10. ASSUME NEW s \in UNION {[1..k -> ToSet(a)] : k \in 0..Len(a)},
              IsPartOf(s, a), IsPartOf(s, b)
       PROVE  Len(s) <= z
  <2>1. PICK k \in 0..n : s \in [1..k -> ToSet(a)]
    BY <1>1
  <2>2. k \in Nat /\ DOMAIN s = 1..k /\ Len(s) = k
    <3>1. k \in Nat /\ s \in Seq(ToSet(a))
      BY <2>1
    <3>2. Len(s) \in Nat /\ DOMAIN s = 1..Len(s) /\ DOMAIN s = 1..k
      BY <2>1, <3>1, LenProperties
    <3>3. \A x : x \in 1..Len(s) <=> x \in 1..k
      BY <3>2
    <3>4. PICK r : r = Len(s)
      OBVIOUS
    <3>5. r \in Nat /\ \A x \in Nat : x \in 1..r <=> x \in 1..k
      BY <3>2, <3>3, <3>4
    <3>6. r = k
      <4>1. r \in 1..r <=> r \in 1..k
        BY <3>5
      <4>2. k \in 1..r <=> k \in 1..k
        BY <3>1, <3>5
      <4>. QED
        BY <3>1, <3>5, <4>1, <4>2
    <3>. QED
      BY <3>1, <3>2, <3>4, <3>6
  <2>3. PICK f \in [1..k -> 1..n] : /\ \A x, y \in 1..k : x < y => f[x] < f[y]
                                    /\ \A x \in 1..k : s[x] = a[f[x]]
    <3>1. PICK at \in [DOMAIN s -> DOMAIN a] : /\ \A x, y \in DOMAIN s : x < y => at[x] < at[y]
                                               /\ \A x \in DOMAIN s : s[x] = a[at[x]]
      BY <1>10 DEF IsPartOf
    <3>2. DOMAIN s = 1..k /\ DOMAIN a = 1..n
      BY <1>3, <2>2
    <3>3. at \in [1..k -> 1..n]
      BY <3>1, <3>2
    <3>4. \A x, y \in 1..k : x < y => at[x] < at[y]
      BY <3>1, <3>2
    <3>5. ASSUME NEW x \in 1..k PROVE s[x] = a[at[x]]
      <4>1. x \in DOMAIN s
        BY <3>2
      <4>. QED
        BY <3>1, <4>1
    <3>. QED
      BY <3>3, <3>4, <3>5
  <2>4. PICK g \in [1..k -> 1..m] : /\ \A x, y \in 1..k : x < y => g[x] < g[y]
                                    /\ \A x \in 1..k : s[x] = b[g[x]]
    <3>1. PICK at \in [DOMAIN s -> DOMAIN b] : /\ \A x, y \in DOMAIN s : x < y => at[x] < at[y]
                                               /\ \A x \in DOMAIN s : s[x] = b[at[x]]
      BY <1>10 DEF IsPartOf
    <3>2. DOMAIN s = 1..k /\ DOMAIN b = 1..m
      BY <1>3, <2>2
    <3>3. at \in [1..k -> 1..m]
      BY <3>1, <3>2
    <3>4. \A x, y \in 1..k : x < y => at[x] < at[y]
      BY <3>1, <3>2
    <3>5. ASSUME NEW x \in 1..k PROVE s[x] = b[at[x]]
      <4>1. x \in DOMAIN s
        BY <3>2
      <4>. QED
        BY <3>1, <4>1
    <3>. QED
      BY <3>3, <3>4, <3>5
  <2>5. \A x \in 1..k : f[x] \in 1..n /\ g[x] \in 1..m
    BY <2>3, <2>4
  <2>6. \A x \in 1..k : /\ f[x] \in Nat /\ 0 < f[x] /\ f[x] <= n
                        /\ g[x] \in Nat /\ 0 < g[x] /\ g[x] <= m
                        /\ a[f[x]] = b[g[x]]
    BY <1>3, <2>3, <2>4, <2>5
  <2>7. Common(a, b, 0, 0, k, f, g)
    BY <1>1, <1>2, <2>3, <2>4, <2>6 DEF Common
  <2>. QED
    BY <1>7, <1>9, <2>2, <2>7 DEF Bounds
<1>. QED
  BY <1>4, <1>6, <1>8, <1>10 DEF DiffIsRight
=============================================================================
