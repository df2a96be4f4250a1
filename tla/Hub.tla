-------------------------------- MODULE Hub ---------------------------------
(***************************************************************************)
(* The hub of one chat channel (realtime/hub.go), the goroutines that      *)
(* broadcast into it and the ones that write what it holds to the sockets  *)
(* (web/chat.go).                                                          *)
(*                                                                         *)
(* Broadcast takes a snapshot of the subscribers under the lock and sends  *)
(* to them after it has let the lock go, so between two of its sends       *)
(* subscribers come and leave.  A leaving one closes its Go channel: a     *)
(* send that still has it in its snapshot panics.  In a handler of         *)
(* PostMessage net/http recovers and drops the request; in the reading     *)
(* goroutine of a socket, which broadcasts typing notices, nobody does and *)
(* the process ends.                                                       *)
(***************************************************************************)
EXTENDS Naturals, Sequences, FiniteSets

CONSTANTS
  Subs,         \* subscriptions: a socket, its Go channel and its writer
  Senders,      \* goroutines that broadcast
  Cap,          \* capacity of a Go channel, 16 in Subscribe
  MaxMessages,  \* bound on the log
  MaxTypings    \* bound on the typing notices

ASSUME HubAssumption ==
  /\ Cap \in Nat \ {0}
  /\ MaxMessages \in Nat
  /\ MaxTypings \in Nat

VARIABLES
  last,         \* the highest seq of the channel's messages
  typings,      \* number of typing notices so far
  sub,          \* the state of each subscription
  sender,       \* the state of each broadcast
  answered,     \* messages whose PostMessage has returned
  known         \* history: what was answered when a message was appended

vars == <<last, typings, sub, sender, answered, known>>

Typing == 0     \* the payload of a typing notice; a message's is its seq

Payloads == 0..MaxMessages

\* chan: "none" before Subscribe, "open" while it is in the hub's room, "closed"
\* by Unsubscribe; sent: the messages written to the socket.
Sub == [chan : {"none", "open", "closed"}, buf : Seq(Payloads),
        conn : {"open", "closed"}, writing : BOOLEAN, sent : Seq(1..MaxMessages)]

NoSub == [chan |-> "none", buf |-> <<>>, conn |-> "closed",
          writing |-> FALSE, sent |-> <<>>]

Sender == [pc : {"idle", "appended", "sending"}, payload : Payloads,
           targets : SUBSET Subs]

Idle == [pc |-> "idle", payload |-> Typing, targets |-> {}]

Room == {s \in Subs : sub[s].chan = "open"}

-----------------------------------------------------------------------------
(* Subscriptions: chatWS.                                                  *)

\* The socket is open, and the channel in the room.
Subscribe(s) ==
  /\ sub[s].chan = "none"
  /\ sub' = [sub EXCEPT ![s] = [NoSub EXCEPT !.chan = "open", !.conn = "open",
                                             !.writing = TRUE]]
  /\ UNCHANGED <<last, typings, sender, answered, known>>

\* The reading goroutine gets an error and closes the socket.  It does not
\* tell the writer, which waits for a payload.
Hangup(s) ==
  /\ sub[s].conn = "open"
  /\ sub' = [sub EXCEPT ![s] = [@ EXCEPT !.conn = "closed"]]
  /\ UNCHANGED <<last, typings, sender, answered, known>>

\* The payload is on its way: a message is counted as sent.
Written(t) ==
  [t EXCEPT !.buf = Tail(@),
            !.sent = IF Head(t.buf) = Typing THEN @ ELSE Append(@, Head(t.buf))]

\* Mutant: the error of WriteMessage is not looked at.
Write_IgnoresError(s) ==
  /\ sub[s].writing /\ sub[s].buf # <<>>
  /\ sub' = [sub EXCEPT ![s] =
               IF sub[s].conn = "open" THEN Written(@) ELSE [sub[s] EXCEPT !.buf = Tail(@)]]
  /\ UNCHANGED <<last, typings, sender, answered, known>>

\* One round of the writer's loop.  It ends when the write fails: on a closed
\* socket, or when the reader is so slow that the deadline passes.
Write(s) ==
  /\ sub[s].writing /\ sub[s].buf # <<>>
  /\ \/ sub[s].conn = "open" /\ sub' = [sub EXCEPT ![s] = Written(@)]
     \/ sub' = [sub EXCEPT ![s] = [sub[s] EXCEPT !.buf = Tail(@), !.writing = FALSE]]
  /\ UNCHANGED <<last, typings, sender, answered, known>>

\* The deferred Unsubscribe, then the deferred Close.
Unsubscribe(s) ==
  /\ sub[s].chan = "open" /\ ~sub[s].writing
  /\ sub' = [sub EXCEPT ![s] = [@ EXCEPT !.chan = "closed", !.conn = "closed"]]
  /\ UNCHANGED <<last, typings, sender, answered, known>>

\* Nobody refers to the channel any more: its name is free for another one.
Collect(s) ==
  /\ sub[s].chan = "closed"
  /\ \A b \in Senders : s \notin sender[b].targets
  /\ sub' = [sub EXCEPT ![s] = NoSub]
  /\ UNCHANGED <<last, typings, sender, answered, known>>

-----------------------------------------------------------------------------
(* Broadcasts.                                                             *)

\* Mutant: the broadcast is left to a goroutine of its own.
AppendMessage_Async(b) ==
  /\ sender[b] = Idle
  /\ last < MaxMessages
  /\ last' = last + 1
  /\ sender' = [sender EXCEPT ![b] = [Idle EXCEPT !.pc = "appended",
                                                  !.payload = last + 1]]
  /\ known' = [known EXCEPT ![last + 1] = answered]
  /\ answered' = answered \cup {last + 1}
  /\ UNCHANGED <<typings, sub>>

\* PostMessage has appended the message.
AppendMessage(b) ==
  /\ sender[b] = Idle
  /\ last < MaxMessages
  /\ last' = last + 1
  /\ sender' = [sender EXCEPT ![b] = [Idle EXCEPT !.pc = "appended",
                                                  !.payload = last + 1]]
  /\ known' = [known EXCEPT ![last + 1] = answered]
  /\ UNCHANGED <<typings, sub, answered>>

\* The lock, the copy of the room, the unlock; for a message, or for a typing
\* notice of a socket that is read.
Snapshot(b) ==
  /\ \/ sender[b].pc = "appended" /\ UNCHANGED typings
     \/ /\ sender[b] = Idle
        /\ typings < MaxTypings
        /\ \E s \in Subs : sub[s].conn = "open"
        /\ typings' = typings + 1
  /\ sender' = [sender EXCEPT ![b] = [@ EXCEPT !.pc = "sending", !.targets = Room]]
  /\ UNCHANGED <<last, sub, answered, known>>

\* Mutant: the select has no default.
Offered_Blocking(t, m) ==
  IF Len(t.buf) < Cap THEN {[t EXCEPT !.buf = Append(@, m)]} ELSE {}

\* What the select can leave of a subscription: one with the payload or, when
\* the Go channel is full, by its default, the same one.
Offered(t, m) ==
  IF Len(t.buf) < Cap THEN {[t EXCEPT !.buf = Append(@, m)]} ELSE {t}

\* One send, in the order of no particular map iteration; it waits for as long
\* as the select has no outcome.
Send(b) ==
  \E s \in sender[b].targets :
    /\ sub[s].chan = "open"
    /\ \E t \in Offered(sub[s], sender[b].payload) : sub' = [sub EXCEPT ![s] = t]
    /\ sender' = [sender EXCEPT ![b] = [sender[b] EXCEPT !.targets = @ \ {s}]]
    /\ UNCHANGED <<last, typings, answered, known>>

\* A send to a closed channel, in a handler: the request ends there.
PanicPost(b) ==
  /\ sender[b].payload # Typing
  /\ \E s \in sender[b].targets : sub[s].chan = "closed"
  /\ sender' = [sender EXCEPT ![b] = Idle]
  /\ UNCHANGED <<last, typings, sub, answered, known>>

\* The same in the goroutine of a typing notice: the process ends, and starts
\* again with no socket and no broadcast.
PanicTyping(b) ==
  /\ sender[b].payload = Typing
  /\ \E s \in sender[b].targets : sub[s].chan = "closed"
  /\ sub' = [s \in Subs |-> NoSub]
  /\ sender' = [a \in Senders |-> Idle]
  /\ UNCHANGED <<last, typings, answered, known>>

\* Mutant: a typing notice is answered like a message.
Return_TypingToo(b) ==
  /\ sender[b].pc = "sending" /\ sender[b].targets = {}
  /\ sender' = [sender EXCEPT ![b] = Idle]
  /\ answered' = answered \cup {sender[b].payload}
  /\ UNCHANGED <<last, typings, sub, known>>

\* Broadcast returns, and with it PostMessage.
Return(b) ==
  /\ sender[b].pc = "sending" /\ sender[b].targets = {}
  /\ sender' = [sender EXCEPT ![b] = Idle]
  /\ answered' = answered \cup ({sender[b].payload} \ {Typing})
  /\ UNCHANGED <<last, typings, sub, known>>

-----------------------------------------------------------------------------

Init ==
  /\ last = 0
  /\ typings = 0
  /\ sub = [s \in Subs |-> NoSub]
  /\ sender = [b \in Senders |-> Idle]
  /\ answered = {}
  /\ known = [m \in 1..MaxMessages |-> {}]

Broadcasting(b) ==
  Snapshot(b) \/ Send(b) \/ PanicPost(b) \/ PanicTyping(b) \/ Return(b)

Next ==
  \/ \E s \in Subs : Subscribe(s) \/ Hangup(s) \/ Write(s) \/ Unsubscribe(s) \/ Collect(s)
  \/ \E b \in Senders : AppendMessage(b) \/ Broadcasting(b)

Spec == Init /\ [][Next]_vars

\* The steps of a running broadcast are taken; its start is up to the users.
SendersRun ==
  \A b \in Senders :
    WF_vars(Broadcasting(b) /\ sender[b].pc # "idle")

\* A write ends within its 10 s deadline, and its goroutine goes on: what has
\* to be assumed for the sockets, and never for the broadcasts.
WritersRun == \A s \in Subs : WF_vars(Write(s)) /\ WF_vars(Unsubscribe(s))

FairSpec == Spec /\ SendersRun

-----------------------------------------------------------------------------
(* Properties.                                                             *)

\* Every variable has its type; no Go channel holds more than its capacity.
TypeOK ==
  /\ last \in Payloads
  /\ typings \in 0..MaxTypings
  /\ sub \in [Subs -> Sub]
  /\ \A s \in Subs : Len(sub[s].buf) <= Cap
  /\ sender \in [Senders -> Sender]
  /\ answered \subseteq 1..last
  /\ known \in [1..MaxMessages -> SUBSET (1..MaxMessages)]

\* No socket gets a message after one that was written by someone who could
\* have read it: PostMessage answers only after its broadcast, so a message
\* that was appended later stays behind it in every buffer.
AnswerOrder ==
  \A s \in Subs : \A i, j \in DOMAIN sub[s].sent :
    i < j => sub[s].sent[j] \notin known[sub[s].sent[i]]

\* Broadcast ends even if no writer ever takes anything out of a buffer: a slow
\* reader never holds up a poster.
BroadcastEnds == \A b \in Senders : (sender[b].pc = "sending") ~> (sender[b] = Idle)

\* With writers that run, once there is something to write to a socket that is
\* closed, its subscription goes away.  (Without traffic it stays for ever.)
DeadSocketsLeave ==
  WritersRun => \A s \in Subs :
    (sub[s].chan = "open" /\ sub[s].conn = "closed" /\ sub[s].buf # <<>>)
      ~> (sub[s].chan # "open")
=============================================================================
