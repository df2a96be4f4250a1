----------------------------- MODULE HubProofs -----------------------------
(***************************************************************************)
(* What a socket is written: no message after one whose author could have  *)
(* read it, with any number of sockets and broadcasts, whatever is         *)
(* dropped and whoever panics.  And what the end of a broadcast rests on:  *)
(* it always has a step to take, and each brings it nearer to its end.     *)
(***************************************************************************)
EXTENDS Hub, TLAPS

-----------------------------------------------------------------------------
(* The inductive invariant.                                                *)

\* What was answered when a message was appended is still answered.
LogInv ==
  /\ last \in Payloads /\ typings \in 0..MaxTypings
  /\ answered \subseteq 1..last
  /\ known \in [1..MaxMessages -> SUBSET (1..MaxMessages)]
  /\ \A m \in 1..MaxMessages : known[m] \subseteq answered

\* A message is not answered while its broadcast runs, which is the only one.
SenderInv ==
  /\ sender \in [Senders -> Sender]
  /\ \A b \in Senders : sender[b].payload <= last /\ sender[b].payload \notin answered
  /\ \A a, b \in Senders :
       a # b /\ sender[a].payload = sender[b].payload => sender[a].payload = Typing

\* In the line of a subscription, what is sent and then what is in the buffer,
\* nothing comes after a message whose author could have read it.
Ordered(t) ==
  /\ \A i \in DOMAIN t.sent : t.sent[i] <= last
  /\ \A i \in DOMAIN t.buf : t.buf[i] <= last
  /\ \A i, j \in DOMAIN t.sent : i < j => t.sent[j] \notin known[t.sent[i]]
  /\ \A i \in DOMAIN t.sent, j \in DOMAIN t.buf : t.buf[j] \notin known[t.sent[i]]
  /\ \A i, j \in DOMAIN t.buf :
       i < j /\ t.buf[i] # Typing => t.buf[j] \notin known[t.buf[i]]

SubInv ==
  /\ sub \in [Subs -> Sub]
  /\ \A s \in Subs : Len(sub[s].buf) <= Cap /\ Ordered(sub[s])

IInv == LogInv /\ SenderInv /\ SubInv

-----------------------------------------------------------------------------
(* One subscription.                                                       *)

LEMMA ElementOfSeq ==
  ASSUME NEW S, NEW q \in Seq(S), NEW i \in DOMAIN q
  PROVE  q[i] \in S
OBVIOUS

LEMMA NoSubIsOrdered ==
  NoSub \in Sub /\ Len(NoSub.buf) <= Cap /\ Ordered(NoSub)
<1>1. NoSub.buf = <<>> /\ NoSub.sent = <<>>
  BY DEF NoSub
<1>2. NoSub \in Sub
  BY DEF NoSub, Sub, Payloads
<1>3. Len(<<>>) = 0 /\ DOMAIN <<>> = {} /\ 0 <= Cap
  BY HubAssumption DEF HubAssumption
<1>. QED
  BY <1>1, <1>2, <1>3 DEF Ordered

\* A step of one subscription.
LEMMA SubStep ==
  ASSUME IInv, NEW s \in Subs, NEW t, t \in Sub, Len(t.buf) <= Cap, Ordered(t),
         sub' = [sub EXCEPT ![s] = t], UNCHANGED <<last, known>>
  PROVE  SubInv'
<1>1. sub' \in [Subs -> Sub]
  BY DEF IInv, SubInv
<1>2. ASSUME NEW z \in Subs PROVE Len(sub'[z].buf) <= Cap /\ Ordered(sub[z])'
  <2>1. CASE z = s
    <3>1. sub'[z] = t
      BY <2>1 DEF IInv, SubInv
    <3>. QED
      BY <3>1 DEF Ordered
  <2>2. CASE z # s
    <3>1. sub'[z] = sub[z] /\ Len(sub[z].buf) <= Cap /\ Ordered(sub[z])
      BY <2>2 DEF IInv, SubInv
    <3>. QED
      BY <3>1 DEF Ordered
  <2>. QED
    BY <2>1, <2>2
<1>. QED
  BY <1>1, <1>2 DEF SubInv

\* What is taken out of the buffer, and sent or lost, keeps its place.
LEMMA TakenIsOrdered ==
  ASSUME NEW t \in Sub, Ordered(t), LogInv, t.buf # <<>>, Len(t.buf) <= Cap
  PROVE  /\ Written(t) \in Sub /\ Ordered(Written(t)) /\ Len(Written(t).buf) <= Cap
         /\ LET u == [t EXCEPT !.buf = Tail(@), !.writing = FALSE]
            IN  u \in Sub /\ Ordered(u) /\ Len(u.buf) <= Cap
<1>. DEFINE h == Head(t.buf)
            rest == Tail(t.buf)
            w == Written(t)
            u == [t EXCEPT !.buf = Tail(@), !.writing = FALSE]
            more == Append(t.sent, h)
<1>1. /\ t.buf \in Seq(Payloads) /\ t.sent \in Seq(1..MaxMessages)
      /\ t.chan \in {"none", "open", "closed"} /\ t.conn \in {"open", "closed"}
      /\ t.writing \in BOOLEAN
  BY DEF Sub
<1>2. /\ rest \in Seq(Payloads) /\ Len(rest) = Len(t.buf) - 1 /\ Len(rest) <= Cap
      /\ h \in Payloads /\ h = t.buf[1] /\ 1 \in DOMAIN t.buf
  BY <1>1, HubAssumption DEF HubAssumption
<1>3. \A i \in DOMAIN rest : i + 1 \in DOMAIN t.buf /\ rest[i] = t.buf[i + 1] /\ 1 < i + 1
  BY <1>1, <1>2
<1>4. /\ u.buf = rest /\ u.sent = t.sent /\ u \in Sub
  BY <1>1, <1>2 DEF Sub
<1>5. /\ \A i \in DOMAIN rest : rest[i] <= last
      /\ \A i \in DOMAIN t.sent, j \in DOMAIN rest : rest[j] \notin known[t.sent[i]]
      /\ \A i, j \in DOMAIN rest :
           i < j /\ rest[i] # Typing => rest[j] \notin known[rest[i]]
  <2>1. \A i, j \in DOMAIN rest : i < j => i + 1 < j + 1
    BY <1>1, <1>2
  <2>. QED
    BY <1>3, <2>1 DEF Ordered
<1>6. Ordered(u)
  <2>. HIDE DEF u, rest
  <2>. QED
    BY <1>4, <1>5 DEF Ordered
<1>7. CASE h = Typing
  <2>1. w.buf = rest /\ w.sent = t.sent /\ w \in Sub
    BY <1>1, <1>2, <1>7 DEF Sub, Written
  <2>2. Ordered(w)
    <3>. HIDE DEF w, rest
    <3>. QED
      BY <1>5, <2>1 DEF Ordered
  <2>. QED
    BY <1>2, <1>4, <1>6, <2>1, <2>2
<1>8. CASE h # Typing
  <2>1. h \in 1..MaxMessages
    BY <1>2, <1>8 DEF Payloads, Typing
  <2>2. /\ more \in Seq(1..MaxMessages) /\ Len(more) = Len(t.sent) + 1
        /\ more[Len(t.sent) + 1] = h
        /\ \A i \in DOMAIN t.sent : more[i] = t.sent[i]
        /\ \A i \in DOMAIN more :
             i # Len(t.sent) + 1 => i \in DOMAIN t.sent
    BY <1>1, <2>1
  <2>3. w.buf = rest /\ w.sent = more /\ w \in Sub
    BY <1>1, <1>2, <1>8, <2>2 DEF Sub, Written
  <2>. DEFINE n == Len(t.sent) + 1
  <2>4. /\ h <= last
        /\ \A i \in DOMAIN t.sent : h \notin known[t.sent[i]]
        /\ \A j \in DOMAIN rest : rest[j] \notin known[h]
    BY <1>2, <1>3, <1>8 DEF Ordered
  <2>5. \A i \in DOMAIN more : more[i] <= last
    BY <2>2, <2>4 DEF Ordered
  <2>6. ASSUME NEW i \in DOMAIN more, NEW j \in DOMAIN more, i < j
        PROVE  more[j] \notin known[more[i]]
    <3>1. i \in DOMAIN t.sent
      <4>1. i \in 1..n /\ j \in 1..n
        BY <2>2
      <4>2. i # n
        BY <1>1, <2>6, <4>1
      <4>. QED
        BY <2>2, <4>2
    <3>2. CASE j = n
      BY <2>2, <2>4, <3>1, <3>2
    <3>3. CASE j # n
      <4>1. j \in DOMAIN t.sent
        BY <2>2, <3>3
      <4>. QED
        BY <2>2, <2>6, <3>1, <4>1 DEF Ordered
    <3>. QED
      BY <3>2, <3>3
  <2>7. \A i \in DOMAIN more, j \in DOMAIN rest : rest[j] \notin known[more[i]]
    BY <1>5, <2>2, <2>4
  <2>8. Ordered(w)
    <3>. HIDE DEF w, more, rest
    <3>. QED
      BY <1>5, <2>3, <2>5, <2>6, <2>7 DEF Ordered
  <2>. QED
    BY <1>2, <1>4, <1>6, <2>3, <2>8
<1>. QED
  BY <1>7, <1>8

\* Nothing that is in the line knows of a message that is not answered.
LEMMA SentIsOrdered ==
  ASSUME LogInv, NEW t \in Sub, Ordered(t), Len(t.buf) < Cap,
         NEW m \in Payloads, m <= last, m \notin answered
  PROVE  LET u == [t EXCEPT !.buf = Append(@, m)]
         IN  u \in Sub /\ Ordered(u) /\ Len(u.buf) <= Cap
<1>. DEFINE more == Append(t.buf, m)
            u == [t EXCEPT !.buf = Append(@, m)]
            n == Len(t.buf) + 1
<1>1. /\ t.buf \in Seq(Payloads) /\ t.sent \in Seq(1..MaxMessages)
      /\ t.chan \in {"none", "open", "closed"} /\ t.conn \in {"open", "closed"}
      /\ t.writing \in BOOLEAN
  BY DEF Sub
<1>2. /\ more \in Seq(Payloads) /\ Len(more) = n /\ n <= Cap
      /\ more[n] = m
      /\ \A i \in DOMAIN t.buf : more[i] = t.buf[i]
      /\ \A i \in DOMAIN more : i # n => i \in DOMAIN t.buf
  BY <1>1, HubAssumption DEF HubAssumption
<1>3. u.buf = more /\ u.sent = t.sent /\ u \in Sub
  BY <1>1, <1>2 DEF Sub
<1>4. \A y \in 1..MaxMessages : m \notin known[y]
  BY DEF LogInv
<1>5. /\ \A i \in DOMAIN more : more[i] <= last
      /\ \A i \in DOMAIN t.sent, j \in DOMAIN more : more[j] \notin known[t.sent[i]]
  <2>1. \A i \in DOMAIN t.sent : t.sent[i] \in 1..MaxMessages
    BY <1>1, ElementOfSeq
  <2>. QED
    BY <1>2, <1>4, <2>1 DEF Ordered
<1>6. ASSUME NEW i \in DOMAIN more, NEW j \in DOMAIN more, i < j, more[i] # Typing
      PROVE  more[j] \notin known[more[i]]
  <2>1. i \in DOMAIN t.buf
    <3>1. i \in 1..n /\ j \in 1..n
      BY <1>2
    <3>2. i # n
      BY <1>1, <1>6, <3>1
    <3>. QED
      BY <1>2, <3>2
  <2>2. more[i] = t.buf[i] /\ t.buf[i] \in 1..MaxMessages
    <3>1. more[i] = t.buf[i]
      BY <1>2, <2>1
    <3>2. t.buf[i] \in Payloads
      BY <1>1, <2>1, ElementOfSeq
    <3>. QED
      BY <1>6, <3>1, <3>2, HubAssumption DEF HubAssumption, Payloads, Typing
  <2>3. CASE j = n
    BY <1>2, <1>4, <2>2, <2>3
  <2>4. CASE j # n
    <3>1. j \in DOMAIN t.buf
      BY <1>2, <2>4
    <3>. QED
      BY <1>2, <1>6, <2>1, <2>2, <3>1 DEF Ordered
  <2>. QED
    BY <2>3, <2>4
<1>7. Ordered(u)
  <2>. HIDE DEF u, more
  <2>. QED
    BY <1>3, <1>5, <1>6 DEF Ordered
<1>. QED
  BY <1>2, <1>3, <1>7

-----------------------------------------------------------------------------
(* The steps.                                                              *)

LEMMA InitIInv == Init => IInv
<1>. SUFFICES ASSUME Init PROVE IInv
  OBVIOUS
<1>1. LogInv
  BY HubAssumption DEF Init, LogInv, HubAssumption, Payloads
<1>2. Idle \in Sender /\ Idle.payload = Typing
  BY HubAssumption DEF HubAssumption, Idle, Sender, Typing, Payloads
<1>3. SenderInv
  <2>. HIDE DEF Idle
  <2>. QED
    BY <1>2 DEF Init, SenderInv, Typing
<1>4. SubInv
  BY NoSubIsOrdered DEF Init, SubInv
<1>. QED
  BY <1>1, <1>3, <1>4 DEF IInv

\* A step of a socket: the log and the broadcasts are left alone.
LEMMA SocketStep ==
  ASSUME IInv, NEW s \in Subs,
         Subscribe(s) \/ Hangup(s) \/ Write(s) \/ Unsubscribe(s) \/ Collect(s)
  PROVE  IInv'
<1>. UNCHANGED <<last, typings, sender, answered, known>>
  BY DEF Subscribe, Hangup, Write, Unsubscribe, Collect
<1>1. LogInv' /\ SenderInv'
  BY DEF IInv, LogInv, SenderInv
<1>2. sub[s] \in Sub /\ Len(sub[s].buf) <= Cap /\ Ordered(sub[s])
  BY DEF IInv, SubInv
<1>3. CASE Subscribe(s)
  <2>. DEFINE t == [NoSub EXCEPT !.chan = "open", !.conn = "open", !.writing = TRUE]
  <2>1. t \in Sub /\ t.buf = NoSub.buf /\ t.sent = NoSub.sent
    BY NoSubIsOrdered DEF Sub
  <2>2. sub' = [sub EXCEPT ![s] = t]
    BY <1>3 DEF Subscribe
  <2>. HIDE DEF t
  <2>3. Ordered(t) /\ Len(t.buf) <= Cap
    BY <2>1, NoSubIsOrdered DEF Ordered
  <2>. QED
    BY <1>1, <2>1, <2>2, <2>3, SubStep DEF IInv
<1>4. CASE Hangup(s)
  <2>. DEFINE t == [sub[s] EXCEPT !.conn = "closed"]
  <2>1. t \in Sub /\ t.buf = sub[s].buf /\ t.sent = sub[s].sent
    BY <1>2 DEF Sub
  <2>2. sub' = [sub EXCEPT ![s] = t]
    BY <1>4 DEF Hangup
  <2>. HIDE DEF t
  <2>3. Ordered(t) /\ Len(t.buf) <= Cap
    BY <1>2, <2>1 DEF Ordered
  <2>. QED
    BY <1>1, <2>1, <2>2, <2>3, SubStep DEF IInv
<1>5. CASE Write(s)
  <2>. DEFINE u == [sub[s] EXCEPT !.buf = Tail(@), !.writing = FALSE]
  <2>1. /\ Written(sub[s]) \in Sub /\ Ordered(Written(sub[s]))
        /\ Len(Written(sub[s]).buf) <= Cap
        /\ u \in Sub /\ Ordered(u) /\ Len(u.buf) <= Cap
    BY <1>2, <1>5, TakenIsOrdered DEF IInv, Write
  <2>2. \/ sub' = [sub EXCEPT ![s] = Written(sub[s])]
        \/ sub' = [sub EXCEPT ![s] = u]
    BY <1>5 DEF Write
  <2>. HIDE DEF u
  <2>. QED
    BY <1>1, <2>1, <2>2, SubStep DEF IInv
<1>6. CASE Unsubscribe(s)
  <2>. DEFINE t == [sub[s] EXCEPT !.chan = "closed", !.conn = "closed"]
  <2>1. t \in Sub /\ t.buf = sub[s].buf /\ t.sent = sub[s].sent
    BY <1>2 DEF Sub
  <2>2. sub' = [sub EXCEPT ![s] = t]
    BY <1>6 DEF Unsubscribe
  <2>. HIDE DEF t
  <2>3. Ordered(t) /\ Len(t.buf) <= Cap
    BY <1>2, <2>1 DEF Ordered
  <2>. QED
    BY <1>1, <2>1, <2>2, <2>3, SubStep DEF IInv
<1>7. CASE Collect(s)
  BY <1>1, <1>7, NoSubIsOrdered, SubStep DEF IInv, Collect
<1>. QED
  BY <1>3, <1>4, <1>5, <1>6, <1>7

\* The subscriptions are left alone, and what their lines are compared with.
LEMMA SubsKept ==
  ASSUME IInv, UNCHANGED <<last, sub, known>>
  PROVE  SubInv'
BY DEF IInv, SubInv, Ordered

LEMMA AppendMessageStep ==
  ASSUME IInv, NEW b \in Senders, AppendMessage(b)
  PROVE  IInv'
<1>. DEFINE m == last + 1
            r == [Idle EXCEPT !.pc = "appended", !.payload = last + 1]
<1>1. /\ last' = m /\ sender' = [sender EXCEPT ![b] = r]
      /\ known' = [known EXCEPT ![m] = answered]
      /\ typings' = typings /\ sub' = sub /\ answered' = answered
  BY DEF AppendMessage
<1>2. /\ last \in Nat /\ m \in 1..MaxMessages /\ m \in Payloads
      /\ answered \subseteq 1..last
  BY HubAssumption DEF AppendMessage, IInv, LogInv, Payloads, HubAssumption
<1>3. m \notin answered /\ \A x \in Nat : x <= last => x <= m /\ x # m
  BY <1>2
<1>4. LogInv'
  <2>1. last' \in Payloads /\ typings' \in 0..MaxTypings
    BY <1>1, <1>2 DEF IInv, LogInv
  <2>2. answered' \subseteq 1..last' /\ answered \subseteq 1..MaxMessages
    BY <1>1, <1>2, HubAssumption DEF HubAssumption
  <2>3. /\ known' \in [1..MaxMessages -> SUBSET (1..MaxMessages)]
        /\ \A y \in 1..MaxMessages : known'[y] \subseteq answered'
    <3>. HIDE DEF m
    <3>. QED
      BY <1>1, <1>2, <2>2 DEF IInv, LogInv
  <2>. QED
    BY <2>1, <2>2, <2>3 DEF LogInv
<1>5. r \in Sender /\ r.payload = m
  BY <1>2 DEF Idle, Sender
<1>6. SenderInv'
  <2>1. sender' \in [Senders -> Sender] /\ sender'[b].payload = m
    <3>. HIDE DEF r, m
    <3>. QED
      BY <1>1, <1>5 DEF IInv, SenderInv
  <2>2. \A a \in Senders : a # b => sender'[a] = sender[a]
    BY <1>1 DEF IInv, SenderInv
  <2>3. \A a \in Senders : a # b => /\ sender'[a].payload <= last
                                    /\ sender'[a].payload \in Nat
                                    /\ sender'[a].payload \notin answered
    <3>1. \A a \in Senders : sender[a].payload \in Nat
      BY HubAssumption DEF IInv, SenderInv, Sender, Payloads, HubAssumption
    <3>. QED
      BY <2>2, <3>1 DEF IInv, SenderInv
  <2>4. m <= last'
    BY <1>1, <1>2
  <2>5. \A a \in Senders : /\ sender'[a].payload <= last'
                           /\ sender'[a].payload \notin answered'
    <3>. HIDE DEF m
    <3>. QED
      BY <1>1, <1>3, <2>1, <2>3, <2>4
  <2>6. ASSUME NEW a \in Senders, NEW c \in Senders, a # c,
               sender'[a].payload = sender'[c].payload
        PROVE  sender'[a].payload = Typing
    <3>1. a # b /\ c # b
      <4>. HIDE DEF m
      <4>. QED
        BY <1>3, <2>1, <2>3, <2>6
    <3>. QED
      BY <2>2, <2>6, <3>1 DEF IInv, SenderInv
  <2>. QED
    BY <2>1, <2>5, <2>6 DEF SenderInv
<1>7. SubInv'
  <2>1. ASSUME NEW s \in Subs PROVE Ordered(sub[s])'
    <3>. DEFINE t == sub[s]
    <3>1. /\ t.buf \in Seq(Payloads) /\ t.sent \in Seq(1..MaxMessages) /\ Ordered(t)
      BY DEF IInv, SubInv, Sub
    <3>2. /\ \A i \in DOMAIN t.sent : t.sent[i] \in 1..MaxMessages /\ t.sent[i] \in Nat
          /\ \A i \in DOMAIN t.buf : t.buf[i] \in Payloads /\ t.buf[i] \in Nat
      <4>1. \A i \in DOMAIN t.sent : t.sent[i] \in 1..MaxMessages
        BY <3>1, ElementOfSeq
      <4>2. \A i \in DOMAIN t.buf : t.buf[i] \in Payloads
        BY <3>1, ElementOfSeq
      <4>. QED
        BY <4>1, <4>2, HubAssumption DEF HubAssumption, Payloads
    <3>3. /\ \A i \in DOMAIN t.sent : t.sent[i] <= m /\ t.sent[i] # m
          /\ \A i \in DOMAIN t.buf : t.buf[i] <= m /\ t.buf[i] # m
      <4>. HIDE DEF m, t
      <4>. QED
        BY <1>3, <3>1, <3>2 DEF Ordered
    <3>4. /\ \A i \in DOMAIN t.sent : known'[t.sent[i]] = known[t.sent[i]]
          /\ \A i \in DOMAIN t.buf :
               t.buf[i] # Typing => known'[t.buf[i]] = known[t.buf[i]]
      <4>1. \A y \in 1..MaxMessages : y # m => known'[y] = known[y]
        BY <1>1 DEF IInv, LogInv
      <4>2. \A y \in Payloads : y # Typing => y \in 1..MaxMessages
        BY HubAssumption DEF HubAssumption, Payloads, Typing
      <4>. HIDE DEF m, t
      <4>. QED
        BY <3>2, <3>3, <4>1, <4>2
    <3>5. sub'[s] = t
      BY <1>1
    <3>. HIDE DEF m, t
    <3>. QED
      BY <1>1, <3>1, <3>3, <3>4, <3>5 DEF Ordered
  <2>. QED
    BY <1>1, <2>1 DEF IInv, SubInv
<1>. QED
  BY <1>4, <1>6, <1>7 DEF IInv

\* A broadcast stays the one of its payload.
LEMMA SenderKept ==
  ASSUME IInv, NEW b \in Senders, NEW r \in Sender, r.payload = sender[b].payload,
         sender' = [sender EXCEPT ![b] = r], UNCHANGED <<last, answered>>
  PROVE  SenderInv'
<1>1. /\ sender' \in [Senders -> Sender]
      /\ \A a \in Senders : sender'[a].payload = sender[a].payload
  BY DEF IInv, SenderInv
<1>. QED
  BY <1>1 DEF IInv, SenderInv

LEMMA SnapshotStep ==
  ASSUME IInv, NEW b \in Senders, Snapshot(b)
  PROVE  IInv'
<1>. DEFINE r == [sender[b] EXCEPT !.pc = "sending", !.targets = Room]
<1>1. /\ sender' = [sender EXCEPT ![b] = r] /\ UNCHANGED <<last, sub, answered, known>>
      /\ typings' \in 0..MaxTypings
  BY HubAssumption DEF Snapshot, IInv, LogInv, HubAssumption
<1>2. r \in Sender /\ r.payload = sender[b].payload
  BY DEF IInv, SenderInv, Sender, Room
<1>3. SenderInv'
  <2>. HIDE DEF r
  <2>. QED
    BY <1>1, <1>2, SenderKept
<1>. QED
  BY <1>1, <1>3, SubsKept DEF IInv, LogInv

\* A send takes its target off the list; it adds the payload to a buffer with
\* room and leaves a full one as it is.
LEMMA SendOutcome ==
  ASSUME IInv, NEW b \in Senders, Send(b)
  PROVE  \E s \in sender[b].targets :
           /\ sub' = IF Len(sub[s].buf) < Cap
                     THEN [sub EXCEPT ![s] = [sub[s] EXCEPT !.buf = Append(@, sender[b].payload)]]
                     ELSE sub
           /\ sender' = [sender EXCEPT ![b] = [sender[b] EXCEPT !.targets = @ \ {s}]]
           /\ UNCHANGED <<last, typings, answered, known>>
<1>1. sub \in [Subs -> Sub] /\ sender[b].targets \subseteq Subs
  BY DEF IInv, SubInv, SenderInv, Sender
<1>2. PICK s \in sender[b].targets :
        /\ \E t \in Offered(sub[s], sender[b].payload) : sub' = [sub EXCEPT ![s] = t]
        /\ sender' = [sender EXCEPT ![b] = [sender[b] EXCEPT !.targets = @ \ {s}]]
        /\ UNCHANGED <<last, typings, answered, known>>
  BY DEF Send
<1>3. PICK t \in Offered(sub[s], sender[b].payload) : sub' = [sub EXCEPT ![s] = t]
  BY <1>2
<1>4. CASE Len(sub[s].buf) < Cap
  <2>1. t = [sub[s] EXCEPT !.buf = Append(@, sender[b].payload)]
    BY <1>4 DEF Offered
  <2>. QED
    BY <1>2, <1>3, <1>4, <2>1
<1>5. CASE ~(Len(sub[s].buf) < Cap)
  <2>1. t = sub[s]
    BY <1>5 DEF Offered
  <2>2. sub' = sub
    BY <1>1, <1>2, <1>3, <2>1
  <2>. QED
    BY <1>2, <1>5, <2>2
<1>. QED
  BY <1>4, <1>5

LEMMA SendStep ==
  ASSUME IInv, NEW b \in Senders, Send(b)
  PROVE  IInv'
<1>1. PICK s \in sender[b].targets :
        /\ sub' = IF Len(sub[s].buf) < Cap
                  THEN [sub EXCEPT ![s] = [sub[s] EXCEPT !.buf = Append(@, sender[b].payload)]]
                  ELSE sub
        /\ sender' = [sender EXCEPT ![b] = [sender[b] EXCEPT !.targets = @ \ {s}]]
        /\ UNCHANGED <<last, typings, answered, known>>
  BY SendOutcome
<1>. DEFINE r == [sender[b] EXCEPT !.targets = @ \ {s}]
            m == sender[b].payload
            u == [sub[s] EXCEPT !.buf = Append(@, m)]
<1>2. /\ sender[b] \in Sender /\ m \in Payloads /\ m <= last /\ m \notin answered
      /\ s \in Subs
  BY <1>1 DEF IInv, SenderInv, Sender
<1>3. r \in Sender /\ r.payload = m /\ sender' = [sender EXCEPT ![b] = r]
  <2>1. r \in Sender /\ r.payload = m
    BY <1>2 DEF Sender
  <2>. QED
    BY <1>1, <2>1
<1>4. SenderInv'
  <2>. HIDE DEF r
  <2>. QED
    BY <1>1, <1>3, SenderKept
<1>5. SubInv'
  <2>1. CASE Len(sub[s].buf) < Cap
    <3>1. u \in Sub /\ Ordered(u) /\ Len(u.buf) <= Cap
      <4>1. sub[s] \in Sub /\ Ordered(sub[s]) /\ LogInv
        BY <1>2 DEF IInv, SubInv
      <4>. HIDE DEF m
      <4>. QED
        BY <1>2, <2>1, <4>1, SentIsOrdered
    <3>2. sub' = [sub EXCEPT ![s] = u]
      BY <1>1, <1>2, <2>1 DEF IInv, SubInv
    <3>. HIDE DEF u
    <3>. QED
      BY <1>1, <1>2, <3>1, <3>2, SubStep
  <2>2. CASE ~(Len(sub[s].buf) < Cap)
    BY <1>1, <2>2, SubsKept
  <2>. QED
    BY <2>1, <2>2
<1>. QED
  BY <1>1, <1>4, <1>5 DEF IInv, LogInv

\* A broadcast that is over leaves an idle sender, whose payload is no message.
LEMMA IdleIsFree == Idle \in Sender /\ Idle.payload = Typing
BY HubAssumption DEF HubAssumption, Idle, Sender, Typing, Payloads

LEMMA PanicStep ==
  ASSUME IInv, NEW b \in Senders, PanicPost(b) \/ PanicTyping(b)
  PROVE  IInv'
<1>. UNCHANGED <<last, typings, answered, known>>
  BY DEF PanicPost, PanicTyping
<1>1. LogInv'
  BY DEF IInv, LogInv
<1>2. Typing <= last /\ Typing \notin answered
  BY HubAssumption DEF IInv, LogInv, Typing, Payloads, HubAssumption
<1>3. CASE PanicPost(b)
  <2>1. /\ sender' \in [Senders -> Sender] /\ sender'[b].payload = Typing
        /\ \A a \in Senders : a # b => sender'[a] = sender[a]
    BY <1>3, IdleIsFree DEF IInv, SenderInv, PanicPost
  <2>2. SenderInv'
    BY <1>2, <2>1 DEF IInv, SenderInv
  <2>. QED
    BY <1>1, <1>3, <2>2, SubsKept DEF IInv, PanicPost
<1>4. CASE PanicTyping(b)
  <2>1. SenderInv'
    <3>1. /\ sender' \in [Senders -> Sender]
          /\ \A a \in Senders : sender'[a].payload = Typing
      BY <1>4, IdleIsFree DEF PanicTyping
    <3>. QED
      BY <1>2, <3>1 DEF SenderInv
  <2>2. SubInv'
    <3>1. /\ sub' \in [Subs -> Sub]
          /\ \A s \in Subs : sub'[s] = NoSub
      BY <1>4, NoSubIsOrdered DEF PanicTyping
    <3>2. \A s \in Subs : Ordered(sub[s])'
      BY <3>1, NoSubIsOrdered DEF Ordered
    <3>. QED
      BY <3>1, <3>2, NoSubIsOrdered DEF SubInv
  <2>. QED
    BY <1>1, <2>1, <2>2 DEF IInv
<1>. QED
  BY <1>3, <1>4

LEMMA ReturnStep ==
  ASSUME IInv, NEW b \in Senders, Return(b)
  PROVE  IInv'
<1>1. /\ sender' = [sender EXCEPT ![b] = Idle]
      /\ answered' = answered \cup ({sender[b].payload} \ {Typing})
      /\ UNCHANGED <<last, typings, sub, known>>
  BY DEF Return
<1>2. sender[b].payload \in Payloads /\ sender[b].payload <= last
  BY DEF IInv, SenderInv, Sender
<1>3. answered' \subseteq 1..last /\ answered \subseteq answered'
  <2>1. sender[b].payload # Typing => sender[b].payload \in 1..last
    BY <1>2, HubAssumption DEF IInv, LogInv, Typing, Payloads, HubAssumption
  <2>2. answered \subseteq 1..last
    BY DEF IInv, LogInv
  <2>. QED
    BY <1>1, <2>1, <2>2
<1>4. LogInv'
  BY <1>1, <1>3 DEF IInv, LogInv
<1>5. SenderInv'
  <2>1. /\ sender' \in [Senders -> Sender] /\ sender'[b].payload = Typing
        /\ \A a \in Senders : a # b => sender'[a] = sender[a]
    BY <1>1, IdleIsFree DEF IInv, SenderInv
  <2>2. Typing <= last /\ Typing \notin answered'
    BY <1>1, HubAssumption DEF IInv, LogInv, Typing, Payloads, HubAssumption
  <2>3. \A a \in Senders : sender'[a].payload \notin answered'
    <3>1. ASSUME NEW a \in Senders, a # b PROVE sender[a].payload \notin answered'
      BY <1>1, <3>1 DEF IInv, SenderInv
    <3>. QED
      BY <2>1, <2>2, <3>1
  <2>. QED
    BY <1>1, <2>1, <2>2, <2>3 DEF IInv, SenderInv
<1>. QED
  BY <1>1, <1>4, <1>5, SubsKept DEF IInv

LEMMA NextIInv == IInv /\ [Next]_vars => IInv'
<1>. SUFFICES ASSUME IInv, [Next]_vars PROVE IInv'
  OBVIOUS
<1>1. CASE UNCHANGED vars
  BY <1>1, SubsKept DEF IInv, LogInv, SenderInv, vars
<1>2. ASSUME NEW s \in Subs,
             Subscribe(s) \/ Hangup(s) \/ Write(s) \/ Unsubscribe(s) \/ Collect(s)
      PROVE  IInv'
  BY <1>2, SocketStep
<1>3. ASSUME NEW b \in Senders, AppendMessage(b) \/ Broadcasting(b)
      PROVE  IInv'
  BY <1>3, AppendMessageStep, SnapshotStep, SendStep, PanicStep, ReturnStep
     DEF Broadcasting
<1>. QED
  BY <1>1, <1>2, <1>3 DEF Next

-----------------------------------------------------------------------------
(* What is proved.                                                         *)

\* Every variable has its type, and no Go channel of hub.go ever holds more
\* payloads than it was made for.
THEOREM TypeOKAlways == Spec => []TypeOK
<1>1. IInv => TypeOK
  BY DEF IInv, LogInv, SenderInv, SubInv, TypeOK
<1>. QED
  BY <1>1, InitIInv, NextIInv, PTL DEF Spec

\* No socket of chatWS is written a message after one whose author could have
\* read it, whatever Broadcast drops and whoever panics: PostMessage answers
\* after its broadcast, so what is appended then is behind it in every channel.
THEOREM AnswerOrderAlways == Spec => []AnswerOrder
<1>1. IInv => AnswerOrder
  BY DEF IInv, SubInv, Ordered, AnswerOrder
<1>. QED
  BY <1>1, InitIInv, NextIInv, PTL DEF Spec

-----------------------------------------------------------------------------
(* The steps that end a broadcast, and those of a dead socket.             *)

\* A goroutine that is not sending has no targets, and a target's Go channel
\* was made: it is collected when no broadcast refers to it.
TargetInv ==
  \A b \in Senders :
    /\ sender[b].pc # "sending" => sender[b].targets = {}
    /\ \A s \in sender[b].targets : sub[s].chan # "none"

\* A broadcast that is under way waits for nobody.  Whichever of its targets the
\* map iteration comes to next, its Go channel is closed, and the send panics,
\* or it is open, and the select has an outcome even when the channel is full:
\* what a select without its default (Offered_Blocking) would not have.
NeverStuck ==
  \A b \in Senders : sender[b].pc = "sending" =>
    \A s \in sender[b].targets :
      \/ sub[s].chan = "closed"
      \/ sub[s].chan = "open" /\ Offered(sub[s], sender[b].payload) # {}

\* A step leaves a broadcast that is under way alone, ends it, or takes one
\* target from it: nobody who subscribes meanwhile gets on its list.
GoesOn(b) ==
  \/ sender'[b] = sender[b]
  \/ sender'[b] = Idle
  \/ \E s \in sender[b].targets :
       sender'[b] = [sender[b] EXCEPT !.targets = @ \ {s}]

BroadcastShrinks ==
  [][\A b \in Senders : sender[b].pc = "sending" =>
       /\ GoesOn(b)
       /\ Broadcasting(b) => sender'[b] # sender[b]]_vars

\* While its channel is in the room, a closed socket stays closed and is written
\* nothing more, and a writer that has stopped does not start again; a buffer
\* loses a payload only by its writer, and with it the writer.
StaysDead(s) ==
  sub'[s].chan = "open" =>
    /\ sub'[s].conn = "closed"
    /\ sub'[s].sent = sub[s].sent
    /\ sub'[s].writing => sub[s].writing /\ Len(sub[s].buf) <= Len(sub'[s].buf)

DeadSocketsStayDead ==
  [][\A s \in Subs : sub[s].chan = "open" /\ sub[s].conn = "closed" => StaysDead(s)]_vars

LEMMA InitTargetInv == Init => TargetInv
BY DEF Init, Idle, TargetInv

LEMMA SocketTargets ==
  ASSUME IInv, TargetInv, NEW s \in Subs,
         Subscribe(s) \/ Hangup(s) \/ Write(s) \/ Unsubscribe(s) \/ Collect(s)
  PROVE  TargetInv'
<1>1. sender' = sender /\ sub \in [Subs -> Sub]
  BY DEF IInv, SubInv, Subscribe, Hangup, Write, Unsubscribe, Collect
<1>2. /\ \A z \in Subs : z # s => sub'[z] = sub[z]
      /\ \/ sub'[s].chan # "none"
         \/ sub[s].chan = "none" /\ sub'[s].chan = sub[s].chan
         \/ \A b \in Senders : s \notin sender[b].targets
  <2>1. CASE Subscribe(s)
    BY <1>1, <2>1 DEF Subscribe, NoSub
  <2>2. CASE Hangup(s)
    BY <1>1, <2>2 DEF Hangup, Sub
  <2>3. CASE Write(s)
    BY <1>1, <2>3 DEF Write, Written, Sub
  <2>4. CASE Unsubscribe(s)
    BY <1>1, <2>4 DEF Unsubscribe, Sub
  <2>5. CASE Collect(s)
    BY <1>1, <2>5 DEF Collect
  <2>. QED
    BY <2>1, <2>2, <2>3, <2>4, <2>5
<1>. QED
  <2>1. \A b \in Senders : sender[b].targets \subseteq Subs
    BY DEF IInv, SenderInv, Sender
  <2>. QED
    BY <1>1, <1>2, <2>1 DEF TargetInv

LEMMA SenderTargets ==
  ASSUME IInv, TargetInv, NEW b \in Senders, AppendMessage(b) \/ Broadcasting(b)
  PROVE  TargetInv'
<1>1. sender \in [Senders -> Sender] /\ sub \in [Subs -> Sub]
  BY DEF IInv, SenderInv, SubInv
<1>2. CASE AppendMessage(b)
  BY <1>1, <1>2 DEF AppendMessage, TargetInv, Idle, Sender
<1>3. CASE Snapshot(b)
  BY <1>1, <1>3 DEF Snapshot, TargetInv, Room, Idle, Sender
<1>4. CASE Send(b)
  <2>1. PICK s \in sender[b].targets :
          /\ sub' = IF Len(sub[s].buf) < Cap
                    THEN [sub EXCEPT ![s] = [sub[s] EXCEPT !.buf = Append(@, sender[b].payload)]]
                    ELSE sub
          /\ sender' = [sender EXCEPT ![b] = [sender[b] EXCEPT !.targets = @ \ {s}]]
    BY <1>4, SendOutcome
  <2>2. \A z \in Subs : sub'[z].chan = sub[z].chan
    BY <1>1, <2>1 DEF Sub
  <2>3. \A a \in Senders : /\ sender'[a].pc = sender[a].pc
                           /\ sender'[a].targets \subseteq sender[a].targets
    BY <1>1, <2>1 DEF Sender
  <2>4. \A a \in Senders : sender[a].targets \subseteq Subs
    BY <1>1 DEF Sender
  <2>. QED
    BY <2>2, <2>3, <2>4 DEF TargetInv
<1>5. CASE PanicPost(b) \/ Return(b)
  BY <1>1, <1>5 DEF PanicPost, Return, TargetInv, Idle
<1>6. CASE PanicTyping(b)
  BY <1>6 DEF PanicTyping, TargetInv, Idle
<1>. QED
  BY <1>2, <1>3, <1>4, <1>5, <1>6 DEF Broadcasting

LEMMA NextTargetInv == IInv /\ TargetInv /\ [Next]_vars => TargetInv'
BY SocketTargets, SenderTargets DEF Next, TargetInv, vars

LEMMA TargetsAreChannels == IInv /\ TargetInv => NeverStuck
BY DEF IInv, SenderInv, SubInv, TargetInv, NeverStuck, Offered, Sender, Sub

LEMMA SenderGoesOn ==
  ASSUME IInv, TargetInv, [Next]_vars, NEW b \in Senders, sender[b].pc = "sending"
  PROVE  GoesOn(b)
<1>1. sender \in [Senders -> Sender]
  BY DEF IInv, SenderInv
<1>2. ASSUME NEW a \in Senders, AppendMessage(a) \/ Broadcasting(a) PROVE GoesOn(b)
  <2>1. CASE AppendMessage(a)
    BY <1>1, <2>1 DEF AppendMessage, Idle, GoesOn
  <2>2. CASE Snapshot(a)
    BY <1>1, <2>2 DEF Snapshot, Idle, GoesOn
  <2>3. CASE Send(a)
    BY <1>1, <2>3, SendOutcome DEF GoesOn
  <2>4. CASE PanicPost(a) \/ PanicTyping(a) \/ Return(a)
    BY <1>1, <2>4 DEF PanicPost, PanicTyping, Return, GoesOn
  <2>. QED
    BY <1>2, <2>1, <2>2, <2>3, <2>4 DEF Broadcasting
<1>3. ASSUME NEW s \in Subs,
             Subscribe(s) \/ Hangup(s) \/ Write(s) \/ Unsubscribe(s) \/ Collect(s)
      PROVE  GoesOn(b)
  BY <1>3 DEF Subscribe, Hangup, Write, Unsubscribe, Collect, GoesOn
<1>. QED
  BY <1>2, <1>3 DEF Next, vars, GoesOn

LEMMA OwnStepCounts ==
  ASSUME IInv, NEW b \in Senders, sender[b].pc = "sending", Broadcasting(b)
  PROVE  sender'[b] # sender[b]
<1>1. sender \in [Senders -> Sender]
  BY DEF IInv, SenderInv
<1>2. ~ Snapshot(b)
  BY DEF Snapshot, Idle
<1>3. CASE Send(b)
  <2>1. PICK s \in sender[b].targets :
          sender' = [sender EXCEPT ![b] = [sender[b] EXCEPT !.targets = @ \ {s}]]
    BY <1>3, SendOutcome
  <2>2. s \notin sender'[b].targets
    BY <1>1, <2>1 DEF Sender
  <2>. QED
    BY <2>2
<1>4. CASE PanicPost(b) \/ PanicTyping(b) \/ Return(b)
  BY <1>1, <1>4 DEF PanicPost, PanicTyping, Return, Idle
<1>. QED
  BY <1>2, <1>3, <1>4 DEF Broadcasting

LEMMA DeadSocket ==
  ASSUME IInv, [Next]_vars, NEW s \in Subs, sub[s].chan = "open", sub[s].conn = "closed"
  PROVE  StaysDead(s)
<1>1. sub \in [Subs -> Sub] /\ sender \in [Senders -> Sender]
  BY DEF IInv, SenderInv, SubInv
<1>2. CASE sub'[s] = sub[s]
  <2>1. sub[s].buf \in Seq(Payloads)
    BY <1>1 DEF Sub
  <2>2. Len(sub[s].buf) <= Len(sub[s].buf)
    BY <2>1
  <2>. QED
    BY <1>2, <2>2 DEF StaysDead
<1>3. ASSUME NEW z \in Subs,
             Subscribe(z) \/ Hangup(z) \/ Write(z) \/ Unsubscribe(z) \/ Collect(z)
      PROVE  StaysDead(s)
  <2>1. CASE z # s
    BY <1>1, <1>2, <1>3, <2>1 DEF Subscribe, Hangup, Write, Unsubscribe, Collect
  <2>2. CASE z = s /\ Write(s)
    BY <1>1, <2>2 DEF Write, Sub, StaysDead
  <2>3. CASE z = s /\ ~ Write(s)
    BY <1>1, <1>3, <2>3
       DEF Subscribe, Hangup, Unsubscribe, Collect, Sub, NoSub, StaysDead
  <2>. QED
    BY <2>1, <2>2, <2>3
<1>4. ASSUME NEW b \in Senders, AppendMessage(b) \/ Broadcasting(b) PROVE StaysDead(s)
  <2>1. CASE Send(b)
    <3>1. PICK z \in sender[b].targets :
            sub' = IF Len(sub[z].buf) < Cap
                   THEN [sub EXCEPT ![z] = [sub[z] EXCEPT !.buf = Append(@, sender[b].payload)]]
                   ELSE sub
      BY <2>1, SendOutcome
    <3>2. CASE sub'[s] # sub[s]
      <4>1. sub'[s] = [sub[s] EXCEPT !.buf = Append(@, sender[b].payload)]
        BY <1>1, <3>1, <3>2
      <4>2. /\ sub[s].buf \in Seq(Payloads) /\ sender[b].payload \in Payloads
            /\ sub[s] \in Sub
        BY <1>1 DEF Sub, Sender
      <4>3. Len(sub[s].buf) <= Len(Append(sub[s].buf, sender[b].payload))
        BY <4>2
      <4>. QED
        BY <4>1, <4>2, <4>3 DEF Sub, StaysDead
    <3>. QED
      BY <1>2, <3>2
  <2>2. CASE PanicTyping(b)
    BY <2>2 DEF PanicTyping, NoSub, StaysDead
  <2>3. CASE AppendMessage(b) \/ Snapshot(b) \/ PanicPost(b) \/ Return(b)
    BY <1>2, <2>3 DEF AppendMessage, Snapshot, PanicPost, Return
  <2>. QED
    BY <1>4, <2>1, <2>2, <2>3 DEF Broadcasting
<1>. QED
  BY <1>2, <1>3, <1>4 DEF Next, vars

\* Broadcast never waits, whoever subscribes, hangs up or panics between its
\* sends: whatever socket its loop comes to next, the send to it panics or the
\* select goes on, also when the channel is full.  When none is left it returns.
THEOREM NeverStuckAlways == Spec => []NeverStuck
<1>. QED
  BY InitIInv, NextIInv, InitTargetInv, NextTargetInv, TargetsAreChannels, PTL DEF Spec

\* Every step that Broadcast takes ends it or takes one socket from those it
\* still has to send to, and nobody else's step gives it more or undoes one.
THEOREM BroadcastShrinksAlways == Spec => BroadcastShrinks
<1>1. IInv /\ TargetInv /\ [Next]_vars =>
        [\A b \in Senders : sender[b].pc = "sending" =>
           /\ GoesOn(b)
           /\ Broadcasting(b) => sender'[b] # sender[b]]_vars
  BY SenderGoesOn, OwnStepCounts
<1>. QED
  BY <1>1, InitIInv, NextIInv, InitTargetInv, NextTargetInv, PTL
     DEF Spec, BroadcastShrinks

\* chatWS never writes to a socket again once its reader has closed it, and a
\* writer that has left its loop does not come back: what is left is to leave.
THEOREM DeadSocketsStayDeadAlways == Spec => DeadSocketsStayDead
<1>1. IInv /\ [Next]_vars =>
        [\A s \in Subs :
           sub[s].chan = "open" /\ sub[s].conn = "closed" => StaysDead(s)]_vars
  BY DeadSocket
<1>. QED
  BY <1>1, InitIInv, NextIInv, PTL DEF Spec, DeadSocketsStayDead
=============================================================================
