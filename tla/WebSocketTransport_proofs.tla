---------------------- MODULE WebSocketTransport_proofs ----------------------
(***************************************************************************)
(* Proofs about WebSocketTransport, for any number of connections and of   *)
(* sessions.                                                               *)
(***************************************************************************)
EXTENDS WebSocketTransport, TLAPS

\* The handler that is between the two halves of storeConnection holds the
\* mutex, and the maps name its connection for its session.
StoreInv ==
  \A c \in Conns : pc[c] = "keepAlive" =>
    /\ mutex = c
    /\ session[c] \in Sessions
    /\ connections[session[c]] = c

\* secureConnections agrees with the connection of each session, except for
\* the session that storeConnection is storing.
ServerInv ==
  \A s \in Sessions : connections[s] # NoConn =>
    \/ secureConnections[s] = ServerOf(connections[s])
    \/ /\ pc[connections[s]] = "keepAlive"
       /\ session[connections[s]] = s

\* Every connection belongs to one of the two servers.
LEMMA ServerOfType == \A c \in Conns : ServerOf(c) \in {"plain", "secure"}
  BY DEF ServerOf

-----------------------------------------------------------------------------
(* Types                                                                   *)

\* Every step keeps the types: what the maps hold are connections and sessions.
LEMMA TypeStep == TypeOK /\ [Next]_vars => TypeOK'
<1> SUFFICES ASSUME TypeOK, [Next]_vars PROVE TypeOK'
  OBVIOUS
<1> USE ConnsAssumption, SessionsAssumption DEF TypeOK, regVars, connVars, kaVars
<1>1. CASE UNCHANGED vars
  BY <1>1 DEF vars
<1>2. ASSUME NEW c \in Conns, OpenHandler(c) PROVE TypeOK'
  BY <1>2 DEF OpenHandler
<1>3. ASSUME NEW c \in Conns, PeerGone(c) PROVE TypeOK'
  BY <1>3 DEF PeerGone
<1>4. ASSUME NEW c \in Conns, CloseHandler(c) PROVE TypeOK'
  BY <1>4 DEF CloseHandler
<1>5. ASSUME NEW c \in Conns, Receive(c) PROVE TypeOK'
  BY <1>5 DEF Receive
<1>6. ASSUME NEW c \in Conns, ReadSession(c) PROVE TypeOK'
  BY <1>6 DEF ReadSession
<1>7. ASSUME NEW c \in Conns, ProcessSession(c) PROVE TypeOK'
  BY <1>7 DEF ProcessSession, Processed, Touch, Effective
<1>8. ASSUME NEW c \in Conns, ProcessFresh(c) PROVE TypeOK'
  BY <1>8 DEF ProcessFresh, Processed, Touch
<1>9. ASSUME NEW c \in Conns, ProcessError(c) PROVE TypeOK'
  BY <1>9 DEF ProcessError, Processed
<1>10. ASSUME NEW c \in Conns, ProcessNoSession(c) PROVE TypeOK'
  BY <1>10 DEF ProcessNoSession, Processed, Effective
<1>11. ASSUME NEW c \in Conns, ParseError(c) PROVE TypeOK'
  BY <1>11 DEF ParseError
<1>12. ASSUME NEW c \in Conns, StoreNothing(c) PROVE TypeOK'
  BY <1>12 DEF StoreNothing
<1>13. ASSUME NEW c \in Conns, StoreConnection(c) PROVE TypeOK'
  <2>1. /\ StoredConnections(c) \in [Sessions -> Conns \cup {NoConn}]
        /\ StoredReverse(c) \in [Conns -> Sessions \cup {NoSession}]
    BY <1>13 DEF StoreConnection, StoredConnections, StoredReverse
  <2>2. /\ SetSecure(c) \in [Sessions -> {"none", "plain", "secure"}]
        /\ EraseSecure(c) \in [Sessions -> {"none", "plain", "secure"}]
    BY <1>13, ServerOfType DEF StoreConnection, SetSecure, EraseSecure
  <2> QED
    BY <1>13, <2>1, <2>2 DEF StoreConnection
<1>14. ASSUME NEW c \in Conns, FinishStore(c) PROVE TypeOK'
  <2>1. SetSecure(c) \in [Sessions -> {"none", "plain", "secure"}]
    BY ServerOfType DEF SetSecure
  <2> QED
    BY <1>14, <2>1 DEF FinishStore, KeepAliveStored, KeepAlive
<1>15. ASSUME NEW c \in Conns, Reply(c) PROVE TypeOK'
  BY <1>15 DEF Reply
<1>16. CASE KeepAliveSnapshot
  BY <1>16 DEF KeepAliveSnapshot
<1>17. ASSUME NEW s \in Sessions, KeepAliveSession(s) PROVE TypeOK'
  BY <1>17 DEF KeepAliveSession, KeepAlive
<1>18. ASSUME NEW s \in Sessions, SendLookup(s) PROVE TypeOK'
  BY <1>18 DEF SendLookup
<1>19. CASE Collect
  BY <1>19 DEF Collect
<1>20. CASE SendEvent
  BY <1>20 DEF SendEvent, NoEvent
<1> QED
  BY <1>1, <1>2, <1>3, <1>4, <1>5, <1>6, <1>7, <1>8, <1>9, <1>10, <1>11, <1>12,
     <1>13, <1>14, <1>15, <1>16, <1>17, <1>18, <1>19, <1>20
     DEF Next, Handle, Process

\* Init and Next give the type invariant.
THEOREM TypeCorrect == Spec => []TypeOK
<1>1. Init => TypeOK
  BY DEF Init, TypeOK, NoEvent
<1> QED
  BY <1>1, TypeStep, PTL DEF Spec

-----------------------------------------------------------------------------
(* What the steps change                                                   *)

\* Only closeHandler and storeConnection write the maps of connections.
LEMMA WhoWritesMaps ==
  ASSUME [Next]_vars
  PROVE  \/ UNCHANGED <<connections, connectionsReverse>>
         \/ \E c \in Conns : CloseHandler(c) \/ StoreConnection(c)
  BY DEF Next, Handle, Process, vars, regVars, connVars, OpenHandler, PeerGone,
     Receive, ReadSession, ProcessSession, ProcessFresh, ProcessError,
     ProcessNoSession, Processed, ParseError, StoreNothing, FinishStore,
     KeepAliveStored, Reply, KeepAliveSnapshot, KeepAliveSession, Collect,
     SendLookup, SendEvent

-----------------------------------------------------------------------------
(* The maps are inverse to each other                                      *)

\* closeHandler and storeConnection keep the maps inverse to each other.
LEMMA MapsInverseStep ==
  TypeOK /\ MapsInverse /\ [Next]_vars => MapsInverse'
<1> SUFFICES ASSUME TypeOK, MapsInverse, [Next]_vars PROVE MapsInverse'
  OBVIOUS
<1> USE ConnsAssumption, SessionsAssumption DEF TypeOK, MapsInverse
<1>1. CASE UNCHANGED <<connections, connectionsReverse>>
  BY <1>1
<1>2. ASSUME NEW c \in Conns, CloseHandler(c) PROVE MapsInverse'
  BY <1>2 DEF CloseHandler
<1>3. ASSUME NEW c \in Conns, StoreConnection(c) PROVE MapsInverse'
  <2> DEFINE s == session[c]
  <2>1. s \in Sessions
    BY <1>3 DEF StoreConnection
  <2>2. /\ connections' = [x \in Sessions |->
                             IF x = s THEN c
                             ELSE IF x = connectionsReverse[c] THEN NoConn
                             ELSE connections[x]]
        /\ connectionsReverse' = [d \in Conns |->
                             IF d = c THEN s
                             ELSE IF d = connections[s] THEN NoSession
                             ELSE connectionsReverse[d]]
    BY <1>3 DEF StoreConnection, StoredConnections, StoredReverse
  <2> HIDE DEF s
  <2>3. ASSUME NEW d \in Conns, connectionsReverse'[d] # NoSession
        PROVE  connections'[connectionsReverse'[d]] = d
    BY <2>1, <2>2, <2>3
  <2>4. ASSUME NEW x \in Sessions, connections'[x] # NoConn
        PROVE  connectionsReverse'[connections'[x]] = x
    BY <2>1, <2>2, <2>4
  <2> QED
    BY <2>3, <2>4
<1> QED
  BY <1>1, <1>2, <1>3, WhoWritesMaps

\* The maps are inverse to each other, whatever connections do concurrently.
THEOREM MapsAlwaysInverse == Spec => []MapsInverse
<1>1. Init => MapsInverse
  BY DEF Init, MapsInverse
<1> QED
  BY <1>1, TypeCorrect, MapsInverseStep, PTL DEF Spec

-----------------------------------------------------------------------------
(* Closed connections                                                      *)

\* A connection that is closed is not stored: its handler does not run, and
\* storeConnection stores only the connection of the handler that calls it.
LEMMA NoGhostStep ==
  TypeOK /\ MapsInverse /\ NoGhost /\ [Next]_vars => NoGhost'
<1> SUFFICES ASSUME TypeOK, MapsInverse, NoGhost, [Next]_vars,
                    NEW c \in Conns, link'[c] = "closed"
             PROVE  /\ connectionsReverse'[c] = NoSession
                    /\ \A s \in Sessions : connections'[s] # c
                    /\ pc'[c] = "idle"
  BY DEF NoGhost
<1> USE ConnsAssumption, SessionsAssumption DEF TypeOK, MapsInverse, NoGhost
<1>1. CASE link[c] = "closed"
  <2>1. pc'[c] = "idle"
    BY <1>1 DEF Next, Handle, Process, vars, connVars, OpenHandler, PeerGone,
       CloseHandler, CanClose, Receive, ReadSession, ProcessSession, ProcessFresh,
       ProcessError, ProcessNoSession, Processed, ParseError, StoreNothing,
       StoreConnection, FinishStore, KeepAliveStored, Reply, KeepAliveSnapshot,
       KeepAliveSession, Collect, SendLookup, SendEvent
  <2>2. ASSUME NEW d \in Conns, StoreConnection(d)
        PROVE  /\ connectionsReverse'[c] = NoSession
               /\ \A s \in Sessions : connections'[s] # c
    BY <1>1, <2>2 DEF StoreConnection, StoredConnections, StoredReverse
  <2>3. ASSUME NEW d \in Conns, CloseHandler(d)
        PROVE  /\ connectionsReverse'[c] = NoSession
               /\ \A s \in Sessions : connections'[s] # c
    BY <1>1, <2>3 DEF CloseHandler
  <2> QED
    BY <1>1, <2>1, <2>2, <2>3, WhoWritesMaps
<1>2. CASE link[c] # "closed"
  <2>1. CloseHandler(c)
    BY <1>2 DEF Next, Handle, Process, vars, connVars, OpenHandler, PeerGone,
       CloseHandler, CanClose, Receive, ReadSession, ProcessSession, ProcessFresh,
       ProcessError, ProcessNoSession, Processed, ParseError, StoreNothing,
       StoreConnection, FinishStore, KeepAliveStored, Reply, KeepAliveSnapshot,
       KeepAliveSession, Collect, SendLookup, SendEvent
  <2> QED
    BY <2>1 DEF CloseHandler, CanClose
<1> QED
  BY <1>1, <1>2

\* A connection that was closed is in no map, for ever.
THEOREM NeverGhost == Spec => []NoGhost
<1>1. Init => NoGhost
  BY DEF Init, NoGhost
<1> QED
  BY <1>1, TypeCorrect, MapsAlwaysInverse, NoGhostStep, PTL DEF Spec

-----------------------------------------------------------------------------
(* Events go to the right server                                           *)

\* Only the handler that took the mutex is between the halves of
\* storeConnection, and nobody else writes the maps meanwhile.
LEMMA StoreInvStep ==
  TypeOK /\ MapsInverse /\ StoreInv /\ [Next]_vars => StoreInv'
<1> SUFFICES ASSUME TypeOK, MapsInverse, StoreInv, [Next]_vars,
                    NEW c \in Conns, pc'[c] = "keepAlive"
             PROVE  /\ mutex' = c
                    /\ session'[c] \in Sessions
                    /\ connections'[session'[c]] = c
  BY DEF StoreInv
<1> USE ConnsAssumption, SessionsAssumption DEF TypeOK, StoreInv
<1>1. CASE pc[c] = "keepAlive"
  <2>1. mutex = c /\ c # NoConn
    BY <1>1
  <2>2. ASSUME NEW d \in Conns, StoreConnection(d) \/ CloseHandler(d)
        PROVE  FALSE
    BY <2>1, <2>2 DEF StoreConnection, CloseHandler
  <2>3. UNCHANGED <<connections, connectionsReverse>>
    BY <2>2, WhoWritesMaps
  <2>4. mutex' = mutex /\ session'[c] = session[c]
    BY <1>1, <2>1, <2>2 DEF Next, Handle, Process, vars, connVars, OpenHandler, PeerGone,
       Receive, ReadSession, ProcessSession, ProcessFresh, ProcessError,
       ProcessNoSession, Processed, ParseError, StoreNothing, FinishStore,
       KeepAliveStored, Reply, KeepAliveSnapshot, KeepAliveSession, Collect,
       SendLookup, SendEvent
  <2> QED
    BY <1>1, <2>3, <2>4
<1>2. CASE pc[c] # "keepAlive"
  <2>1. StoreConnection(c) /\ NeedsWrite(c)
    BY <1>2 DEF Next, Handle, Process, vars, connVars, OpenHandler, PeerGone,
       CloseHandler, Receive, ReadSession, ProcessSession, ProcessFresh,
       ProcessError, ProcessNoSession, Processed, ParseError, StoreNothing,
       StoreConnection, FinishStore, KeepAliveStored, Reply, KeepAliveSnapshot,
       KeepAliveSession, Collect, SendLookup, SendEvent
  <2> QED
    BY <2>1 DEF StoreConnection, StoredConnections, NeedsWrite
<1> QED
  BY <1>1, <1>2

\* The steps that neither write the maps nor end storeConnection nor look a
\* session up leave secureConnections alone.
LEMMA WhoWritesSecure ==
  ASSUME [Next]_vars
  PROVE  \/ /\ UNCHANGED <<connections, secureConnections>>
            /\ \A c \in Conns : pc[c] = "keepAlive" /\ TypeOK =>
                 pc'[c] = "keepAlive" /\ session'[c] = session[c]
         \/ \E c \in Conns : CloseHandler(c) \/ StoreConnection(c) \/ FinishStore(c)
         \/ \E s \in Sessions : SendLookup(s)
  BY DEF TypeOK, Next, Handle, Process, vars, regVars, connVars, OpenHandler, PeerGone,
     Receive, ReadSession, ProcessSession, ProcessFresh, ProcessError,
     ProcessNoSession, Processed, ParseError, StoreNothing, Reply,
     KeepAliveSnapshot, KeepAliveSession, Collect, SendEvent

\* Each step that writes the maps, ends storeConnection or looks a session up
\* leaves each registered session with the server of its connection.
LEMMA ServerInvStep ==
  TypeOK /\ MapsInverse /\ StoreInv /\ ServerInv /\ [Next]_vars => ServerInv'
<1> SUFFICES ASSUME TypeOK, MapsInverse, StoreInv, ServerInv, [Next]_vars,
                    NEW s \in Sessions, connections'[s] # NoConn
             PROVE  \/ secureConnections'[s] = ServerOf(connections'[s])
                    \/ /\ pc'[connections'[s]] = "keepAlive"
                       /\ session'[connections'[s]] = s
  BY DEF ServerInv
<1> USE ConnsAssumption, SessionsAssumption DEF TypeOK, MapsInverse, ServerInv
<1>1. CASE /\ UNCHANGED <<connections, secureConnections>>
           /\ \A c \in Conns : pc[c] = "keepAlive" /\ TypeOK =>
                pc'[c] = "keepAlive" /\ session'[c] = session[c]
  BY <1>1
<1>2. ASSUME NEW c \in Conns, CloseHandler(c)
      PROVE  \/ secureConnections'[s] = ServerOf(connections'[s])
             \/ /\ pc'[connections'[s]] = "keepAlive"
                /\ session'[connections'[s]] = s
  BY <1>2 DEF CloseHandler
<1>3. ASSUME NEW c \in Conns, StoreConnection(c)
      PROVE  \/ secureConnections'[s] = ServerOf(connections'[s])
             \/ /\ pc'[connections'[s]] = "keepAlive"
                /\ session'[connections'[s]] = s
  <2>1. CASE s = session[c]
    BY <1>3, <2>1 DEF StoreConnection, StoredConnections, SetSecure
  <2>2. CASE s # session[c]
    <3>1. /\ connections'[s] = connections[s]
          /\ connections[s] # c
      BY <1>3, <2>2 DEF StoreConnection, StoredConnections
    <3>2. /\ secureConnections'[s] = secureConnections[s]
          /\ pc'[connections[s]] = pc[connections[s]]
          /\ session' = session
      BY <1>3, <2>2, <3>1 DEF StoreConnection, SetSecure, EraseSecure
    <3> QED
      BY <3>1, <3>2
  <2> QED
    BY <2>1, <2>2
<1>4. ASSUME NEW c \in Conns, FinishStore(c)
      PROVE  \/ secureConnections'[s] = ServerOf(connections'[s])
             \/ /\ pc'[connections'[s]] = "keepAlive"
                /\ session'[connections'[s]] = s
  BY <1>4 DEF FinishStore, KeepAliveStored, SetSecure, StoreInv
<1>5. ASSUME NEW x \in Sessions, SendLookup(x)
      PROVE  \/ secureConnections'[s] = ServerOf(connections'[s])
             \/ /\ pc'[connections'[s]] = "keepAlive"
                /\ session'[connections'[s]] = s
  <2>1. \A c \in Conns : pc[c] # "keepAlive"
    BY <1>5 DEF SendLookup, StoreInv
  <2> QED
    BY <1>5, <2>1, ServerOfType DEF SendLookup, connVars
<1> QED
  BY <1>1, <1>2, <1>3, <1>4, <1>5, WhoWritesSecure

\* The lookup of an event finds the mutex free, so no session is being stored.
LEMMA EventStep ==
  TypeOK /\ StoreInv /\ ServerInv /\ EventOnOwnServer /\ [Next]_vars
    => EventOnOwnServer'
<1> SUFFICES ASSUME TypeOK, StoreInv, ServerInv, EventOnOwnServer, [Next]_vars
             PROVE  EventOnOwnServer'
  OBVIOUS
<1> USE ConnsAssumption DEF TypeOK, EventOnOwnServer
<1>1. CASE UNCHANGED event
  BY <1>1 DEF NoEvent, ServerOf
<1>2. ASSUME NEW s \in Sessions, SendLookup(s) PROVE EventOnOwnServer'
  <2>1. secureConnections[s] = ServerOf(connections[s])
    BY <1>2 DEF SendLookup, StoreInv, ServerInv
  <2> QED
    BY <1>2, <2>1, ServerOfType DEF SendLookup, ServerOf, NoEvent
<1>3. CASE SendEvent
  BY <1>3 DEF SendEvent, NoEvent
<1> QED
  BY <1>1, <1>2, <1>3 DEF Next, Handle, Process, vars, OpenHandler, PeerGone,
     CloseHandler, Receive, ReadSession, ProcessSession, ProcessFresh,
     ProcessError, ProcessNoSession, Processed, ParseError, StoreNothing,
     StoreConnection, FinishStore, KeepAliveStored, Reply, KeepAliveSnapshot,
     KeepAliveSession, Collect

\* An event is always handed to the server that its connection belongs to.
THEOREM EventsOnOwnServer == Spec => []EventOnOwnServer
<1> DEFINE Inv == StoreInv /\ ServerInv /\ EventOnOwnServer
<1>1. Init => Inv
  BY DEF Init, StoreInv, ServerInv, EventOnOwnServer
<1>2. TypeOK /\ MapsInverse /\ Inv /\ [Next]_vars => Inv'
  BY StoreInvStep, ServerInvStep, EventStep
<1> QED
  BY <1>1, <1>2, TypeCorrect, MapsAlwaysInverse, PTL DEF Spec

-----------------------------------------------------------------------------
(* Who holds the mutex                                                     *)

\* The mutex is locked only while one handler stands between the two halves of
\* storeConnection; its next step, FinishStore, waits for nothing.
HeldByOneStore ==
  /\ mutex # NoConn => pc[mutex] = "keepAlive"
  /\ \A c \in Conns : pc[c] = "keepAlive" => mutex = c

\* Whoever locks the mutex comes to stand there, and leaving unlocks it.
LEMMA HolderStep ==
  ASSUME TypeOK, MapsInverse, StoreInv, HeldByOneStore, [Next]_vars
  PROVE  HeldByOneStore'
<1> USE ConnsAssumption, SessionsAssumption DEF TypeOK, HeldByOneStore
<1>1. \A c \in Conns : pc'[c] = "keepAlive" => mutex' = c
  BY StoreInvStep DEF StoreInv
<1>2. ASSUME NEW c \in Conns, StoreConnection(c)
      PROVE  mutex' # NoConn => pc'[mutex'] = "keepAlive"
  BY <1>2 DEF StoreConnection
<1>3. ASSUME NEW c \in Conns, FinishStore(c)
      PROVE  mutex' # NoConn => pc'[mutex'] = "keepAlive"
  BY <1>3 DEF FinishStore
<1>4. ASSUME UNCHANGED mutex,
             \A c \in Conns : pc[c] = "keepAlive" => pc'[c] = "keepAlive"
      PROVE  mutex' # NoConn => pc'[mutex'] = "keepAlive"
  BY <1>4
<1>5. \/ \E c \in Conns : StoreConnection(c) \/ FinishStore(c)
      \/ /\ UNCHANGED mutex
         /\ \A c \in Conns : pc[c] = "keepAlive" => pc'[c] = "keepAlive"
  BY DEF Next, Handle, Process, vars, connVars, OpenHandler, PeerGone, CloseHandler,
     CanClose, Receive, ReadSession, ProcessSession, ProcessFresh, ProcessError,
     ProcessNoSession, Processed, ParseError, StoreNothing, Reply,
     KeepAliveSnapshot, KeepAliveSession, Collect, SendLookup, SendEvent
<1> QED
  BY <1>1, <1>2, <1>3, <1>4, <1>5

\* The transport cannot dead-lock on its own mutex, and no handler leaves it
\* locked: the safety that HandlerEnds and DepartedForgotten rest on.
THEOREM MutexHeldByOneStore == Spec => []HeldByOneStore
<1>1. Init => StoreInv /\ HeldByOneStore
  BY DEF Init, StoreInv, HeldByOneStore
<1>2. TypeOK /\ MapsInverse /\ StoreInv /\ HeldByOneStore /\ [Next]_vars
        => StoreInv' /\ HeldByOneStore'
  BY StoreInvStep, HolderStep
<1> QED
  BY <1>1, <1>2, TypeCorrect, MapsAlwaysInverse, PTL DEF Spec

-----------------------------------------------------------------------------
(* How a connection stops answering for a session                          *)

\* A connection loses its session only by its close, by a session of its own
\* choice, or to another connection.
THEOREM LosesOnlyByTakeover == Spec => OnlyTakenOver
<1> DEFINE A == \A c \in Conns :
       LET s == connectionsReverse[c] IN
       (s # NoSession /\ connectionsReverse'[c] # s) =>
         \/ link'[c] = "closed"
         \/ connectionsReverse'[c] # NoSession
         \/ connections'[s] \notin {c, NoConn}
<1>1. TypeOK /\ MapsInverse /\ [Next]_vars => A
  <2> SUFFICES ASSUME TypeOK, MapsInverse, [Next]_vars, NEW c \in Conns,
                      connectionsReverse[c] # NoSession,
                      connectionsReverse'[c] # connectionsReverse[c]
               PROVE  \/ link'[c] = "closed"
                      \/ connectionsReverse'[c] # NoSession
                      \/ connections'[connectionsReverse[c]] \notin {c, NoConn}
    OBVIOUS
  <2> USE ConnsAssumption DEF TypeOK, MapsInverse
  <2>1. ASSUME NEW d \in Conns, CloseHandler(d)
        PROVE  link'[c] = "closed"
    BY <2>1 DEF CloseHandler
  <2>2. ASSUME NEW d \in Conns, StoreConnection(d)
        PROVE  \/ connectionsReverse'[c] # NoSession
               \/ connections'[connectionsReverse[c]] \notin {c, NoConn}
    BY <2>2, SessionsAssumption DEF StoreConnection, StoredConnections, StoredReverse
  <2> QED
    BY <2>1, <2>2, WhoWritesMaps
<1> QED
  BY <1>1, TypeCorrect, MapsAlwaysInverse, PTL DEF Spec, OnlyTakenOver

-----------------------------------------------------------------------------
(* The collector spares the sessions that a connection answers for         *)

\* A handler is between the two halves of storeConnection with this session.
Storing(s) == \E c \in Conns : pc[c] = "keepAlive" /\ session[c] = s

\* A registered session without MediaSet's mark is on the list of the keep-alive
\* round that precedes the next sweep, or that round has yet to begin.
RoundInv ==
  \A s \in Sessions :
    (connections[s] # NoConn /\ inUse[s] = "idle" /\ ~Storing(s)) =>
      \/ kaRound = "none"
      \/ kaRound = "running" /\ s \in kaList

\* A round takes every registered session along; a session registered later was
\* just kept alive.
LEMMA RoundInvStep ==
  TypeOK /\ StoreInv /\ RoundInv /\ [Next]_vars => RoundInv'
<1> SUFFICES ASSUME TypeOK, StoreInv, RoundInv, [Next]_vars,
                    NEW s \in Sessions,
                    connections'[s] # NoConn, inUse'[s] = "idle", ~Storing(s)'
             PROVE  \/ kaRound' = "none"
                    \/ kaRound' = "running" /\ s \in kaList'
  BY DEF RoundInv
<1> USE ConnsAssumption, SessionsAssumption DEF TypeOK, RoundInv, Storing, regVars,
                                               connVars, kaVars
<1>1. CASE UNCHANGED vars
  BY <1>1 DEF vars
<1>2. ASSUME NEW c \in Conns, OpenHandler(c) \/ PeerGone(c)
      PROVE  \/ kaRound' = "none"
             \/ kaRound' = "running" /\ s \in kaList'
  BY <1>2 DEF OpenHandler, PeerGone
<1>3. ASSUME NEW c \in Conns, CloseHandler(c)
      PROVE  \/ kaRound' = "none"
             \/ kaRound' = "running" /\ s \in kaList'
  BY <1>3 DEF CloseHandler
<1>4. ASSUME NEW c \in Conns,
             \/ Receive(c) \/ ReadSession(c) \/ ProcessError(c) \/ ParseError(c)
             \/ StoreNothing(c) \/ Reply(c)
      PROVE  \/ kaRound' = "none"
             \/ kaRound' = "running" /\ s \in kaList'
  BY <1>4 DEF Receive, ReadSession, ProcessError, Processed, ParseError,
     StoreNothing, Reply
<1>5. ASSUME NEW c \in Conns,
             ProcessSession(c) \/ ProcessFresh(c) \/ ProcessNoSession(c)
      PROVE  \/ kaRound' = "none"
             \/ kaRound' = "running" /\ s \in kaList'
  <2>1. inUse[s] = "idle"
    BY <1>5 DEF ProcessSession, ProcessFresh, ProcessNoSession, Touch, Effective
  <2>2. UNCHANGED <<connections, kaList, kaRound>> /\ ~Storing(s)
    BY <1>5 DEF ProcessSession, ProcessFresh, ProcessNoSession, Processed
  <2> QED
    BY <2>1, <2>2
<1>6. ASSUME NEW c \in Conns, StoreConnection(c)
      PROVE  \/ kaRound' = "none"
             \/ kaRound' = "running" /\ s \in kaList'
  <2>1. ~Storing(s) /\ UNCHANGED <<inUse, kaList, kaRound>>
    BY <1>6 DEF StoreConnection
  <2>2. connections[s] # NoConn
    BY <1>6 DEF StoreConnection, StoredConnections, NeedsWrite
  <2> QED
    BY <2>1, <2>2
<1>7. ASSUME NEW c \in Conns, FinishStore(c)
      PROVE  \/ kaRound' = "none"
             \/ kaRound' = "running" /\ s \in kaList'
  BY <1>7 DEF FinishStore, KeepAliveStored, KeepAlive
<1>8. CASE KeepAliveSnapshot
  <2>1. s \in kaList' /\ kaList' # {}
    BY <1>8 DEF KeepAliveSnapshot
  <2>2. kaRound # "done"
    BY <1>8 DEF KeepAliveSnapshot
  <2>3. kaRound' = "running"
    BY <1>8, <2>1, <2>2, Zenon DEF KeepAliveSnapshot
  <2> QED
    BY <2>1, <2>3
<1>9. ASSUME NEW x \in Sessions, KeepAliveSession(x)
      PROVE  \/ kaRound' = "none"
             \/ kaRound' = "running" /\ s \in kaList'
  <2>1. s # x /\ inUse[s] = "idle" /\ ~Storing(s) /\ connections[s] # NoConn
    BY <1>9 DEF KeepAliveSession, KeepAlive
  <2> QED
    BY <1>9, <2>1 DEF KeepAliveSession
<1>10. ASSUME NEW x \in Sessions, SendLookup(x)
       PROVE  \/ kaRound' = "none"
              \/ kaRound' = "running" /\ s \in kaList'
  BY <1>10 DEF SendLookup
<1>11. CASE Collect
  BY <1>11 DEF Collect
<1>12. CASE SendEvent
  BY <1>12 DEF SendEvent
<1> QED
  BY <1>1, <1>2, <1>3, <1>4, <1>5, <1>6, <1>7, <1>8, <1>9, <1>10, <1>11, <1>12
     DEF Next, Handle, Process

\* MediaSet never collects a session that a connection answers for, except one
\* whose storeConnection has its own keep-alive still to come.
THEOREM RegisteredNotCollected == Spec => RegisteredSurvives
<1> DEFINE A == \A s \in Sessions :
       (Collect /\ connections[s] # NoConn /\ inUse[s] # "unknown")
         => \/ inUse'[s] # "unknown"
            \/ \E c \in Conns : pc[c] = "keepAlive" /\ session[c] = s
<1>1. Init => StoreInv /\ RoundInv
  BY DEF Init, StoreInv, RoundInv
<1>2. TypeOK /\ RoundInv /\ [Next]_vars => A
  BY DEF Collect, TypeOK, RoundInv, Storing
<1> QED
  BY <1>1, <1>2, TypeCorrect, MapsAlwaysInverse, StoreInvStep, RoundInvStep, PTL
     DEF Spec, RegisteredSurvives

-----------------------------------------------------------------------------
(* The transport implements the session registry                           *)

Departed == {c \in Conns : link[c] = "closed"}

\* Only closeHandler makes a connection one that departed, and for good.
LEMMA WhoDeparts ==
  ASSUME TypeOK, [Next]_vars
  PROVE  \/ UNCHANGED Departed
         \/ \E c \in Conns : CloseHandler(c)
<1> SUFFICES ASSUME \A c \in Conns : ~CloseHandler(c) PROVE UNCHANGED Departed
  OBVIOUS
<1>1. ASSUME NEW d \in Conns PROVE (link[d] = "closed") <=> (link'[d] = "closed")
  BY DEF TypeOK, Next, Handle, Process, vars, connVars, OpenHandler, PeerGone,
     Receive, ReadSession, ProcessSession, ProcessFresh, ProcessError,
     ProcessNoSession, Processed, ParseError, StoreNothing, StoreConnection,
     FinishStore, KeepAliveStored, Reply, KeepAliveSnapshot, KeepAliveSession,
     Collect, SendLookup, SendEvent
<1> QED
  BY <1>1 DEF Departed

\* closeHandler is a departure, storeConnection a take-over, and every other step
\* is a stutter of the registry.
LEMMA RegistryStep ==
  TypeOK /\ MapsInverse /\ NoGhost /\ [Next]_vars
    => [Registry!Next]_(Registry!vars)
<1> SUFFICES ASSUME TypeOK, MapsInverse, NoGhost, [Next]_vars
             PROVE  [Registry!Next]_(Registry!vars)
  OBVIOUS
<1> USE ConnsAssumption, SessionsAssumption DEF TypeOK, MapsInverse
<1>1. ASSUME NEW c \in Conns, CloseHandler(c) PROVE Registry!Depart(c)
  <2>1. connections' = Registry!Without(c)
    BY <1>1 DEF CloseHandler, Registry!Without
  <2>2. Departed' = Departed \cup {c}
    BY <1>1 DEF CloseHandler, Departed
  <2> QED
    BY <2>1, <2>2 DEF Registry!Depart, Departed
<1>2. ASSUME NEW c \in Conns, StoreConnection(c)
      PROVE  Registry!Take(session[c], c) /\ session[c] \in Sessions
  <2>1. session[c] \in Sessions
    BY <1>2 DEF StoreConnection
  <2>2. connections' = [Registry!Without(c) EXCEPT ![session[c]] = c]
    <3>1. connections' = [x \in Sessions |->
                            IF x = session[c] THEN c
                            ELSE IF x = connectionsReverse[c] THEN NoConn
                            ELSE connections[x]]
      BY <1>2 DEF StoreConnection, StoredConnections
    <3>2. \A x \in Sessions : x = connectionsReverse[c] <=> connections[x] = c
      BY <2>1
    <3>3. [Registry!Without(c) EXCEPT ![session[c]] = c]
            = [x \in Sessions |-> IF x = session[c] THEN c
                                  ELSE IF connections[x] = c THEN NoConn
                                  ELSE connections[x]]
      BY <2>1 DEF Registry!Without
    <3> QED
      BY <3>1, <3>2, <3>3
  <2>3. c \notin Departed
    BY <1>2 DEF StoreConnection, NoGhost, Departed
  <2>4. UNCHANGED Departed
    BY <1>2 DEF StoreConnection, Departed
  <2> QED
    BY <2>1, <2>2, <2>3, <2>4 DEF Registry!Take, Departed
<1>3. CASE UNCHANGED <<connections, Departed>>
  BY <1>3 DEF Registry!vars, Departed
<1> QED
  BY <1>1, <1>2, <1>3, WhoWritesMaps, WhoDeparts DEF Registry!Next

\* The transport, with all its maps, threads and its mutex, implements the
\* session registry, for any number of connections and sessions.
THEOREM ImplementsSessionRegistry == Spec => ImplementsRegistry
<1>1. Init => Registry!Init
  BY DEF Init, Registry!Init
<1> QED
  BY <1>1, TypeCorrect, MapsAlwaysInverse, NeverGhost, RegistryStep, PTL
     DEF Spec, ImplementsRegistry, Registry!Spec
=============================================================================
