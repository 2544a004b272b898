------------------------ MODULE MCEventSubscriptions ------------------------
\* An instance of EventSubscriptions for TLC.
EXTENDS EventSubscriptions

CONSTANTS c1, c2, c3, s1, s2, t1

\* The client of s1 may reconnect; that of s2 has one connection.
MCSessionOf == [c \in Conns |-> IF c = c3 THEN s2 ELSE s1]
MCBefore == [c \in Conns |-> IF c = c2 THEN {c1} ELSE {}]
=============================================================================
