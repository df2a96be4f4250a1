------------------------------- MODULE MCChat -------------------------------
EXTENDS Chat

\* Every page belongs to the same user.
OneUser == [c \in Tabs |-> CHOOSE u \in Users : TRUE]
=============================================================================
