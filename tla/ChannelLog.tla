----------------------------- MODULE ChannelLog -----------------------------
(***************************************************************************)
(* What a chat channel promises: a log that only grows, one message at a   *)
(* time, and for each user a read cursor that only moves forward and never *)
(* passes the end of the log.  Chat.tla implements it.                     *)
(***************************************************************************)
EXTENDS Naturals

CONSTANT Users

VARIABLES last, cursor

vars == <<last, cursor>>

Init ==
  /\ last = 0
  /\ cursor = [u \in Users |-> 0]

Append ==
  /\ last' = last + 1
  /\ UNCHANGED cursor

Advance(u) ==
  /\ \E s \in (cursor[u] + 1)..last : cursor' = [cursor EXCEPT ![u] = s]
  /\ UNCHANGED last

Next == Append \/ \E u \in Users : Advance(u)

Spec == Init /\ [][Next]_vars
=============================================================================
