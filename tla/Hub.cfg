\* Two sockets with buffers of one, two broadcasters, two messages.
SPECIFICATION FairSpec
CONSTANTS
  Subs = {s1, s2}
  Senders = {b1, b2}
  Cap = 1
  MaxMessages = 2
  MaxTypings = 1
INVARIANTS
  TypeOK
  AnswerOrder
PROPERTIES
  BroadcastEnds
  DeadSocketsLeave
CHECK_DEADLOCK FALSE
