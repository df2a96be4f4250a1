-------------------------------- MODULE Chat --------------------------------
(***************************************************************************)
(* One chat channel: its log, the read cursors of its users, and the open  *)
(* pages (components/ChatRoom.tsx) that show it.                           *)
(*                                                                         *)
(* A page talks to the API with calls that take effect at the server at    *)
(* one time and are answered at another, and with a WebSocket on which     *)
(* messages arrive.  The socket is modelled by what the hub behind it      *)
(* (Hub.tla) guarantees, which is little: whatever arrives was posted, in  *)
(* any order, and any message may never arrive.                            *)
(*                                                                         *)
(* A message is its seq: the log is 1..last.                               *)
(***************************************************************************)
EXTENDS Naturals, SequencesExt

CONSTANTS
  Tabs,         \* open pages
  Writers,      \* the ones that may post: those of members, not of guests
  Users,
  UserOf,       \* who is signed in, by page
  MaxMessages,  \* bound on the log
  MaxCalls,     \* bound on the calls a page has open when it reconnects
  Faults        \* what may go wrong: a subset of {"drop", "fail", "expire"}

ASSUME ChatAssumption ==
  /\ Writers \subseteq Tabs
  /\ UserOf \in [Tabs -> Users]
  /\ MaxMessages \in Nat
  /\ MaxCalls \in Nat \ {0}
  /\ Faults \subseteq {"drop", "fail", "expire"}

VARIABLES
  last,         \* the highest seq in chat_messages, 0 without a message
  cursor,       \* last_read_seq of each user, 0 without a row
  tab           \* the state of each page

vars == <<last, cursor, tab>>

Seqs == 0..MaxMessages

\* A call of a page: PostMessage, ListMessages after arg, MarkChannelRead of arg,
\* or the rendering of the page itself, which router.refresh asks for again.
\* result: what PostMessage returned, or how far a list of messages goes.
Call == [op : {"post", "get", "read", "load"}, arg : Seqs,
         served : BOOLEAN, result : Seqs]

Sent(op, arg)  == [op |-> op, arg |-> arg, served |-> FALSE, result |-> 0]

Tab == [mounted   : BOOLEAN,      \* the page has been rendered once
        messages  : Seq(1..MaxMessages),
        lastSeq   : Seqs,
        markedSeq : Seqs,
        awaited   : Seqs,         \* the read call that a post waits for, or 0
        up        : BOOLEAN,      \* the socket is open
        ticket    : BOOLEAN,      \* the page's chat ticket has not expired
        calls     : SUBSET Call]

Shown(t) == ToSet(t.messages)

Larger(a, b) == IF a > b THEN a ELSE b

Drain(t, k) == [t EXCEPT !.calls = @ \ {k}]
Ask(t, k)   == [t EXCEPT !.calls = @ \cup {k}]

\* syncRead
SyncRead(t, seq) ==
  IF seq <= t.markedSeq THEN t
  ELSE Ask([t EXCEPT !.markedSeq = seq], Sent("read", seq))

\* lastSeq, and m at the end of the list unless it is there already
Receive(t, m) ==
  [t EXCEPT !.lastSeq = m,
            !.messages = IF m \in Shown(t) THEN @ ELSE Append(@, m)]

-----------------------------------------------------------------------------
(* The server.                                                             *)

\* AppendMessage of a page's post: MAX(seq) + 1 under the lock on the channel.
ServePost(c) ==
  \E k \in tab[c].calls :
    /\ k = Sent("post", 0)
    /\ last' = last + 1
    /\ tab' = [tab EXCEPT ![c] =
                 Ask(Drain(tab[c], k), [k EXCEPT !.served = TRUE, !.result = last + 1])]
    /\ UNCHANGED cursor

Unserved(c) == \E k \in tab[c].calls : k.op = "post" /\ ~k.served

Room == last + Cardinality({c \in Tabs : Unserved(c)}) < MaxMessages

\* AppendMessage for somebody whose page is not one of Tabs.
PostElsewhere ==
  /\ Room
  /\ last' = last + 1
  /\ UNCHANGED <<cursor, tab>>

\* ListMessages, or the part of the page's rendering that lists the messages.
\* A page is rendered again only after the previous rendering has arrived.
ServeList(c, op) ==
  \E k \in tab[c].calls :
    /\ k.op = op /\ op \in {"get", "load"} /\ ~k.served
    /\ op = "load" => \A j \in tab[c].calls : ~(j.op = "load" /\ j.served)
    /\ tab' = [tab EXCEPT ![c] =
                 Ask(Drain(tab[c], k), [k EXCEPT !.served = TRUE, !.result = last])]
    /\ UNCHANGED <<last, cursor>>

\* Mutant: the row is overwritten.
ServeRead_NoGreatest(c) ==
  \E k \in tab[c].calls :
    /\ k.op = "read" /\ ~k.served
    /\ cursor' = [cursor EXCEPT ![UserOf[c]] = k.arg]
    /\ tab' = [tab EXCEPT ![c] = Ask(Drain(tab[c], k), [k EXCEPT !.served = TRUE])]
    /\ UNCHANGED last

\* UpsertChannelRead: GREATEST of the row and the argument, which is not
\* compared with the log.
ServeRead(c) ==
  \E k \in tab[c].calls :
    /\ k.op = "read" /\ ~k.served
    /\ cursor' = [cursor EXCEPT ![UserOf[c]] = Larger(@, k.arg)]
    /\ tab' = [tab EXCEPT ![c] = Ask(Drain(tab[c], k), [k EXCEPT !.served = TRUE])]
    /\ UNCHANGED last

-----------------------------------------------------------------------------
(* The page.                                                               *)

\* Mutant: the effect on `initial` does not touch lastSeq.
Loaded_KeepsLastSeq(t, n) ==
  LET fresh == [t EXCEPT !.mounted = TRUE, !.messages = [i \in 1..n |-> i],
                         !.markedSeq = 0, !.up = FALSE, !.ticket = TRUE]
  IN  IF t.mounted THEN fresh ELSE SyncRead(fresh, n)

\* A new `initial` and a new `ticket`: the refs are reset, the list replaced,
\* the old socket closed and a new one started.  The first time, the mount
\* effect also reports what is shown as read.
Loaded(t, n) ==
  LET fresh == [t EXCEPT !.mounted = TRUE, !.messages = [i \in 1..n |-> i],
                         !.lastSeq = n, !.markedSeq = 0,
                         !.up = FALSE, !.ticket = TRUE]
  IN  IF t.mounted THEN fresh ELSE SyncRead(fresh, n)

ReplyLoad(c) ==
  \E k \in tab[c].calls :
    /\ k.op = "load" /\ k.served
    /\ tab' = [tab EXCEPT ![c] = Loaded(Drain(tab[c], k), k.result)]
    /\ UNCHANGED <<last, cursor>>

\* The 1500 ms timer.  onopen: catchUp asks for what came after lastSeq.  With
\* an expired ticket the attempt fails and is made again, for ever.
Connect(c) ==
  /\ tab[c].mounted /\ ~tab[c].up
  /\ \/ /\ tab[c].ticket
        /\ Cardinality(tab[c].calls) < MaxCalls
        /\ tab' = [tab EXCEPT ![c] =
                     Ask([tab[c] EXCEPT !.up = TRUE], Sent("get", tab[c].lastSeq))]
     \/ ~tab[c].ticket /\ UNCHANGED tab
  /\ UNCHANGED <<last, cursor>>

\* Mutant: what catchUp fetched is appended without looking for repetitions.
Fetched_NoFilter(t, k) == [i \in 1..(k.result - k.arg) |-> k.arg + i]

\* The numbers of a set, in order.
Ascending(S) ==
  CHOOSE s \in [1..Cardinality(S) -> S] :
    \A i, j \in DOMAIN s : i < j => s[i] < s[j]

\* The messages of a catch-up that the page does not show yet.
Fetched(t, k) == Ascending(((k.arg + 1)..k.result) \ Shown(t))

\* What catchUp makes of its answer: the new messages at the end of the list,
\* and lastSeq raised to the last of them.
CaughtUp(t, k) ==
  LET extra == Fetched(t, k)
  IN  [t EXCEPT !.messages = @ \o extra,
                !.lastSeq = IF extra = <<>> THEN @ ELSE Larger(@, extra[Len(extra)])]

\* catchUp's continuation.  React runs the updater that raises lastSeq at once
\* or at its next rendering, so syncRead gets the new lastSeq or the old one.
ReplyGet(c) ==
  \E k \in tab[c].calls :
    /\ k.op = "get" /\ k.served
    /\ LET t == Drain(tab[c], k)  next == CaughtUp(t, k)
       IN  \E seq \in {t.lastSeq, next.lastSeq} :
             tab' = [tab EXCEPT ![c] = SyncRead(next, seq)]
    /\ UNCHANGED <<last, cursor>>

\* onmessage: only a message beyond lastSeq is looked at.
Deliver(c) ==
  \E m \in (tab[c].lastSeq + 1)..last :
    /\ tab[c].up
    /\ tab' = [tab EXCEPT ![c] = SyncRead(Receive(tab[c], m), m)]
    /\ UNCHANGED <<last, cursor>>

\* submit; the button is disabled (pending) while a post is open, and then
\* while the read call it made is.
Submit(c) ==
  /\ c \in Writers /\ tab[c].mounted /\ tab[c].awaited = 0
  /\ \A k \in tab[c].calls : k.op # "post"
  /\ Room
  /\ tab' = [tab EXCEPT ![c] = Ask(tab[c], Sent("post", 0))]
  /\ UNCHANGED <<last, cursor>>

\* Own message: shown and reported as read unless the page is past it.
OwnPost(t, m) ==
  IF m < t.lastSeq THEN t
  ELSE [SyncRead(Receive(t, m), m) EXCEPT !.awaited = IF m <= t.markedSeq THEN 0 ELSE m]

\* Mutant: an own message the page is past is reported as read too.
ReplyPost_MarksAlways(c) ==
  \E k \in tab[c].calls :
    /\ k.op = "post" /\ k.served
    /\ tab' = [tab EXCEPT ![c] = SyncRead(OwnPost(Drain(tab[c], k), k.result), k.result)]
    /\ UNCHANGED <<last, cursor>>

ReplyPost(c) ==
  \E k \in tab[c].calls :
    /\ k.op = "post" /\ k.served
    /\ tab' = [tab EXCEPT ![c] = OwnPost(Drain(tab[c], k), k.result)]
    /\ UNCHANGED <<last, cursor>>

\* The read call that was awaited, if any, has ended.
Resume(t, k) ==
  IF k.op = "read" /\ k.arg = t.awaited THEN [t EXCEPT !.awaited = 0] ELSE t

\* Mutant: the page is not refreshed.
ReplyRead_NoRefresh(c) ==
  \E k \in tab[c].calls :
    /\ k.op = "read" /\ k.served
    /\ tab' = [tab EXCEPT ![c] = Resume(Drain(tab[c], k), k)]
    /\ UNCHANGED <<last, cursor>>

\* router.refresh()
ReplyRead(c) ==
  \E k \in tab[c].calls :
    /\ k.op = "read" /\ k.served
    /\ tab' = [tab EXCEPT ![c] = Resume(Ask(Drain(tab[c], k), Sent("load", 0)), k)]
    /\ UNCHANGED <<last, cursor>>

\* Mutant: a failed read call still counts as made.
AfterFailure_Forgets(t, k) == Resume(t, k)

\* Mutant: markedSeq is lowered whatever the call was.
AfterFailure_AnyCall(t, k) ==
  IF k.arg - 1 < t.markedSeq
  THEN [Resume(t, k) EXCEPT !.markedSeq = k.arg - 1] ELSE Resume(t, k)

\* The catch of syncRead; the other calls leave the page as it is.
AfterFailure(t, k) ==
  IF k.op = "read" /\ k.arg - 1 < t.markedSeq
  THEN [Resume(t, k) EXCEPT !.markedSeq = k.arg - 1] ELSE Resume(t, k)

\* A call fails on its way there, or on its way back.
Fail(c) ==
  \E k \in tab[c].calls :
    /\ "fail" \in Faults
    /\ tab[c].mounted
    /\ tab' = [tab EXCEPT ![c] = AfterFailure(Drain(tab[c], k), k)]
    /\ UNCHANGED <<last, cursor>>

\* onclose: the server, the network or the browser ends the connection.
Drop(c) ==
  /\ "drop" \in Faults
  /\ tab[c].up
  /\ tab' = [tab EXCEPT ![c] = [tab[c] EXCEPT !.up = FALSE]]
  /\ UNCHANGED <<last, cursor>>

\* CollabTicketTTL has passed since the page was rendered.
Expire(c) ==
  /\ "expire" \in Faults
  /\ tab[c].ticket
  /\ tab' = [tab EXCEPT ![c] = [tab[c] EXCEPT !.ticket = FALSE]]
  /\ UNCHANGED <<last, cursor>>

-----------------------------------------------------------------------------

Init ==
  /\ last = 0
  /\ cursor = [u \in Users |-> 0]
  /\ tab = [c \in Tabs |->
              [mounted |-> FALSE, messages |-> <<>>, lastSeq |-> 0,
               markedSeq |-> 0, awaited |-> 0, up |-> FALSE, ticket |-> FALSE,
               calls |-> {Sent("load", 0)}]]

Server(c) ==
  \/ ServePost(c) \/ ServeRead(c)
  \/ \E op \in {"get", "load"} : ServeList(c, op)

Page(c) ==
  \/ ReplyLoad(c) \/ ReplyGet(c) \/ ReplyPost(c) \/ ReplyRead(c)
  \/ Connect(c) \/ Deliver(c) \/ Submit(c)

Environment(c) == Fail(c) \/ Drop(c) \/ Expire(c)

Next ==
  \/ PostElsewhere
  \/ \E c \in Tabs : Server(c) \/ Page(c) \/ Environment(c)

Spec == Init /\ [][Next]_vars

\* The server answers, answers arrive, and the page's reconnect timer fires.
\* Nothing is assumed of the socket: no message need ever be delivered on it.
Fairness ==
  \A c \in Tabs :
    /\ WF_vars(ServeRead(c)) /\ WF_vars(ServePost(c))
    /\ \A op \in {"get", "load"} : WF_vars(ServeList(c, op))
    /\ WF_vars(ReplyLoad(c)) /\ WF_vars(ReplyGet(c))
    /\ WF_vars(ReplyPost(c)) /\ WF_vars(ReplyRead(c))
    /\ WF_vars(Connect(c))

FairSpec == Spec /\ Fairness

-----------------------------------------------------------------------------
(* Properties.                                                             *)

\* Every variable has its type.
TypeOK ==
  /\ last \in Seqs
  /\ cursor \in [Users -> Seqs]
  /\ tab \in [Tabs -> Tab]

\* However catch-ups, live messages, answers to posts and refreshes interleave,
\* the page shows no message twice.
NoDuplicates == \A c \in Tabs : IsInjective(tab[c].messages)

\* lastSeq is the newest message on the page: were it higher, catchUp would
\* skip messages; were it lower, it would fetch what is there.
LastSeqIsNewest ==
  \A c \in Tabs :
    /\ tab[c].lastSeq \in Shown(tab[c]) \cup {0}
    /\ \A m \in Shown(tab[c]) : m <= tab[c].lastSeq

\* A page that has nothing left to report as read (markedSeq has reached
\* lastSeq) has told the server, or is telling it: a failed or reordered call
\* never makes it forget.
ReadNotForgotten ==
  \A c \in Tabs :
    tab[c].markedSeq = tab[c].lastSeq =>
      \/ tab[c].lastSeq <= cursor[UserOf[c]]
      \/ Sent("read", tab[c].lastSeq) \in tab[c].calls

\* The page never marks as read, up to seq, while the message seq itself is not
\* shown (older ones may be missing: they may have been skipped).
MarksWhatItShows ==
  [][\A c \in Tabs : \A k \in tab'[c].calls \ tab[c].calls :
       k.op = "read" /\ ~k.served => k.arg \in Shown(tab'[c])]_vars

\* The channel keeps the promise of ChannelLog: in particular the read cursor
\* "must be monotonic" (web/server_test.go), whatever the order in which the
\* calls of several pages of one user reach the server, and stays in the log.
Log    == INSTANCE ChannelLog
LogSpec == Log!Spec

\* A page that has marked anything as read eventually shows every message,
\* also those that never arrived on its socket or were skipped by lastSeq: the
\* refresh after each markChannelRead is what brings them in.
EventuallyShown ==
  \A c \in Tabs : \A m \in 1..MaxMessages :
    (m <= last /\ tab[c].markedSeq > 0) ~> (m \in Shown(tab[c]))
=============================================================================
