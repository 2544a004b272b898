--------------------------- MODULE SessionRegistry ---------------------------
(***************************************************************************)
(* What the transport promises about sessions and connections, whatever    *)
(* its maps, its mutex and its threads: at any time a session has at most  *)
(* one connection that answers for it and a connection answers for at most *)
(* one session; a session only changes hands as a whole, and a connection  *)
(* that departed never comes back.                                         *)
(*                                                                         *)
(* WebSocketTransport implements this specification (there:                *)
(* ImplementsRegistry); EventSubscriptions is built on top of it.          *)
(***************************************************************************)
CONSTANTS Conns, Sessions, NoConn

VARIABLES
  registry,  \* session -> the connection that answers for it, or NoConn
  departed   \* the connections that are gone for good

vars == <<registry, departed>>

Init ==
  /\ registry = [s \in Sessions |-> NoConn]
  /\ departed = {}

\* The registry without connection c.
Without(c) ==
  [s \in Sessions |-> IF registry[s] = c THEN NoConn ELSE registry[s]]

\* Connection c is the one that answers for session s from now on: whoever did
\* loses it, and c loses the session that it had.
Take(s, c) ==
  /\ c \notin departed
  /\ registry' = [Without(c) EXCEPT ![s] = c]
  /\ UNCHANGED departed

\* Connection c departs.
Depart(c) ==
  /\ registry' = Without(c)
  /\ departed' = departed \cup {c}

Next == \E c \in Conns : Depart(c) \/ \E s \in Sessions : Take(s, c)

Spec == Init /\ [][Next]_vars
=============================================================================
