------------------------- MODULE WebSocketTransport -------------------------
(***************************************************************************)
(* The WebSocket transport of the media server                             *)
(* (server/transport/websocket/WebSocketTransport.cpp): which client       *)
(* connection answers for which session.                                   *)
(*                                                                         *)
(* Ten threads run the handlers of the connections.  websocketpp wraps the *)
(* handlers of one connection in one strand, so the handlers of a          *)
(* connection never overlap, while those of different connections do: the  *)
(* program counter pc[c] is therefore kept per connection.  Two more       *)
(* threads use the maps: the keep-alive thread and the threads that emit   *)
(* the events of media objects.                                            *)
(*                                                                         *)
(* The std::maps are total functions here; a key that the map does not     *)
(* hold is mapped to NoConn, NoSession or "none".                          *)
(***************************************************************************)
EXTENDS Naturals, FiniteSets

CONSTANTS
  Conns,        \* the connections that clients may open, each once
  SecureConns,  \* those of them that arrive at the TLS listener
  Sessions,     \* the session identifiers that may be generated or named
  NoConn, NoSession,
  NThreads      \* n_threads, the size of the handler pool

ASSUME ConnsAssumption ==
  /\ NoConn \notin Conns
  /\ SecureConns \subseteq Conns

ASSUME SessionsAssumption == NoSession \notin Sessions

ASSUME ThreadsAssumption == NThreads \in Nat \ {0}

VARIABLES
  link,               \* what websocketpp knows of each connection
  pc,                 \* where the message handler of each connection stands
  session,            \* processMessage's local variable sessionId
  connections,        \* session -> connection
  connectionsReverse, \* connection -> session
  secureConnections,  \* session -> kind of listener, as a string
  mutex,              \* the connection whose handler holds the mutex
  issued,             \* the session identifiers generated or named so far
  inUse,              \* MediaSet's mark of each session (external)
  kaList,             \* the sessions the keep-alive thread has yet to visit
  kaRound,            \* progress of the keep-alive round since the last sweep
  event               \* the event between the lookup and the send

regVars  == <<connections, connectionsReverse, secureConnections>>
connVars == <<link, pc, session>>
kaVars   == <<kaList, kaRound>>
vars == <<connVars, regVars, mutex, issued, inUse, kaVars, event>>

NoEvent == [hdl |-> NoConn, server |-> "none"]

\* Which of the two websocketpp servers a connection belongs to: the template
\* parameter ServerType of its handlers.
ServerOf(c) == IF c \in SecureConns THEN "secure" ELSE "plain"

Busy == {c \in Conns : pc[c] \notin {"idle", "wedged"}}

TypeOK ==
  /\ link \in [Conns -> {"new", "open", "gone", "closed"}]
  /\ pc \in [Conns -> {"idle", "read", "process", "store", "keepAlive",
                       "reply", "wedged"}]
  /\ session \in [Conns -> Sessions \cup {NoSession}]
  /\ connections \in [Sessions -> Conns \cup {NoConn}]
  /\ connectionsReverse \in [Conns -> Sessions \cup {NoSession}]
  /\ secureConnections \in [Sessions -> {"none", "plain", "secure"}]
  /\ mutex \in {c \in Conns : pc[c] = "keepAlive"} \cup {NoConn}
  /\ issued \in SUBSET Sessions
  /\ inUse \in [Sessions -> {"unknown", "idle", "used"}]
  /\ kaList \in SUBSET Sessions
  /\ kaRound \in {"none", "running", "done"}
  /\ event \in [hdl : Conns \cup {NoConn}, server : {"none", "plain", "secure"}]

Init ==
  /\ link = [c \in Conns |-> "new"]
  /\ pc = [c \in Conns |-> "idle"]
  /\ session = [c \in Conns |-> NoSession]
  /\ connections = [s \in Sessions |-> NoConn]
  /\ connectionsReverse = [c \in Conns |-> NoSession]
  /\ secureConnections = [s \in Sessions |-> "none"]
  /\ mutex = NoConn
  /\ issued = {}
  /\ inUse = [s \in Sessions |-> "unknown"]
  /\ kaList = {}
  /\ kaRound = "none"
  /\ event = NoEvent

-----------------------------------------------------------------------------
(* Connections: websocketpp and the clients                                *)

\* openHandler: a connection to another path than "kurento" is closed at once.
OpenHandler(c) ==
  /\ link[c] = "new"
  /\ \E state \in {"open", "gone"} : link' = [link EXCEPT ![c] = state]
  /\ UNCHANGED <<pc, session, regVars, mutex, issued, inUse, kaVars, event>>

\* The client closes the connection or the network loses it.  A handler that
\* is running goes on; the close handler waits for it in the strand.
PeerGone(c) ==
  /\ link[c] = "open"
  /\ link' = [link EXCEPT ![c] = "gone"]
  /\ UNCHANGED <<pc, session, regVars, mutex, issued, inUse, kaVars, event>>

\* The close handler waits in the strand for the connection's message handler.
CanClose(c) == link[c] = "gone" /\ pc[c] = "idle"

\* closeHandler: forget the connection and the session it answers for.
CloseHandler(c) ==
  LET s == connectionsReverse[c] IN
  /\ CanClose(c)
  /\ mutex = NoConn
  /\ link' = [link EXCEPT ![c] = "closed"]
  /\ connections' = [x \in Sessions |-> IF x = s THEN NoConn ELSE connections[x]]
  /\ connectionsReverse' = [connectionsReverse EXCEPT ![c] = NoSession]
  /\ secureConnections' =
       [x \in Sessions |-> IF x = s THEN "none" ELSE secureConnections[x]]
  /\ UNCHANGED <<pc, session, mutex, issued, inUse, kaVars, event>>

-----------------------------------------------------------------------------
(* processMessage, one action per step                                     *)

\* A thread of the pool takes a message of the connection.
Receive(c) ==
  /\ link[c] = "open"
  /\ pc[c] = "idle"
  /\ Cardinality(Busy) < NThreads
  /\ pc' = [pc EXCEPT ![c] = "read"]
  /\ UNCHANGED <<link, session, regVars, mutex, issued, inUse, kaVars, event>>

\* Mutant: only a connection that had no session yet is kept alive.
NeedsWrite_NewOnly(c) == connectionsReverse[c] = NoSession

\* storeConnection has something to write: the session is another connection's
\* or nobody's, or the connection had another session or none.
NeedsWrite(c) ==
  connections[session[c]] # c \/ connectionsReverse[c] # session[c]

\* Which handlers write connectionsReverse, once they have the mutex: that of a
\* response with another session than before, ...
StoreWrites(d) == pc[d] = "store" /\ session[d] # NoSession /\ NeedsWrite(d)

\* ... and that of the end of a connection in the map; for any other one at()
\* throws before the erasures.
CloseWrites(d) == CanClose(d) /\ connectionsReverse[d] # NoSession

\* The handler of d may be writing in this very moment.
MayWrite(d) == mutex = NoConn /\ (StoreWrites(d) \/ CloseWrites(d))

\* The session of the connection is read without the mutex.  While another
\* thread rebalances the tree the search may miss the key, and the handler
\* goes on as if the connection had no session yet.
ReadSession(c) ==
  /\ pc[c] = "read"
  /\ \E s \in {connectionsReverse[c], NoSession} :
       /\ s # connectionsReverse[c] => \E d \in Conns \ {c} : MayWrite(d)
       /\ session' = [session EXCEPT ![c] = s]
  /\ pc' = [pc EXCEPT ![c] = "process"]
  /\ UNCHANGED <<link, regVars, mutex, issued, inUse, kaVars, event>>

\* ServerMethods::process, seen from the transport.  p is the sessionId
\* parameter of the request, NoSession when it has none: injectSessionId then
\* adds the session of the connection.
Effective(c, p) == IF p # NoSession THEN p ELSE session[c]

Processed(c, s) ==
  /\ pc[c] = "process"
  /\ pc' = [pc EXCEPT ![c] = "store"]
  /\ session' = [session EXCEPT ![c] = s]
  /\ UNCHANGED <<link, regVars, mutex, kaVars, event>>

\* MediaSet uses the session (and creates it when it does not know it), or
\* the method answers without asking MediaSet.
Touch(s) == inUse' \in {inUse, [inUse EXCEPT ![s] = "used"]}

\* The method answers with the sessionId it worked with: whatever the client
\* named, be it generated or made up, or that of the connection.
ProcessSession(c) ==
  \E p \in Sessions \cup {NoSession} :
    /\ Effective(c, p) # NoSession
    /\ Processed(c, Effective(c, p))
    /\ Touch(Effective(c, p))
    /\ issued' = issued \cup {Effective(c, p)}

\* No session is named and the connection has none: getOrCreateSessionId.
ProcessFresh(c) ==
  \E s \in Sessions \ issued :
    /\ session[c] = NoSession
    /\ Processed(c, s)
    /\ Touch(s)
    /\ issued' = issued \cup {s}

\* The response is an error: no sessionId.
ProcessError(c) ==
  /\ Processed(c, NoSession)
  /\ UNCHANGED <<issued, inUse>>

\* A result without sessionId leaves the connection its session.  That of
\* closeSession is one: the session is closed, the connection keeps it.
ProcessNoSession(c) ==
  /\ Processed(c, session[c])
  /\ \/ UNCHANGED inUse
     \/ \E p \in Sessions \cup {NoSession} :
          /\ Effective(c, p) # NoSession
          /\ inUse' = [inUse EXCEPT ![Effective(c, p)] = "unknown"]
  /\ UNCHANGED issued

\* A message that is not JSON: the exception leaves the handler, run() logs
\* it, and neither the maps nor the client hear of it.  Whether websocketpp
\* reads from this connection again is up to it.
ParseError(c) ==
  /\ pc[c] = "process"
  /\ \E next \in {"idle", "wedged"} : pc' = [pc EXCEPT ![c] = next]
  /\ session' = [session EXCEPT ![c] = NoSession]
  /\ UNCHANGED <<link, regVars, mutex, issued, inUse, kaVars, event>>

\* storeConnection with an empty sessionId does nothing.
StoreNothing(c) ==
  /\ pc[c] = "store"
  /\ session[c] = NoSession
  /\ pc' = [pc EXCEPT ![c] = "reply"]
  /\ UNCHANGED <<link, session, regVars, mutex, issued, inUse, kaVars, event>>

\* Mutant: the old connection is erased after the new one is written.
StoredConnections_EraseLast(c) ==
  [s \in Sessions |->
     IF s = session[c] THEN IF connections[s] \in {c, NoConn} THEN c ELSE NoConn
     ELSE IF s = connectionsReverse[c] THEN NoConn
     ELSE connections[s]]

\* Mutant: the connection's old session is not erased.
StoredConnections_KeepOld(c) == [connections EXCEPT ![session[c]] = c]

\* The maps after the erasures and the two writes of storeConnection.
StoredConnections(c) ==
  [s \in Sessions |-> IF s = session[c] THEN c
                      ELSE IF s = connectionsReverse[c] THEN NoConn
                      ELSE connections[s]]

\* Mutant: the session's old connection is not erased.
StoredReverse_KeepOld(c) == [connectionsReverse EXCEPT ![c] = session[c]]

\* Mutant: the session's old connection is erased after the new one is written,
\* even if they are the same.
StoredReverse_EraseLast(c) ==
  [d \in Conns |-> IF d = connections[session[c]] THEN NoSession
                   ELSE IF d = c THEN session[c]
                   ELSE connectionsReverse[d]]

StoredReverse(c) ==
  [d \in Conns |-> IF d = c THEN session[c]
                   ELSE IF d = connections[session[c]] THEN NoSession
                   ELSE connectionsReverse[d]]

\* Mutant: map::insert, which leaves a value that is there alone.
SetSecure_Insert(c) ==
  [secureConnections EXCEPT ![session[c]] = IF @ = "none" THEN ServerOf(c) ELSE @]

\* The entries of secureConnections that storeConnection writes and erases.
SetSecure(c) == [secureConnections EXCEPT ![session[c]] = ServerOf(c)]

EraseSecure(c) ==
  IF connections[session[c]] \in {c, NoConn} THEN secureConnections
  ELSE [secureConnections EXCEPT ![session[c]] = "none"]

\* storeConnection up to the call of keepAliveSession, where the mutex stays
\* held, or to its end when there is nothing to write.
StoreConnection(c) ==
  /\ pc[c] = "store"
  /\ session[c] # NoSession
  /\ mutex = NoConn
  /\ connections' = StoredConnections(c)
  /\ connectionsReverse' = StoredReverse(c)
  /\ \/ /\ NeedsWrite(c)
        /\ secureConnections' = EraseSecure(c)
        /\ mutex' = c
        /\ pc' = [pc EXCEPT ![c] = "keepAlive"]
     \/ /\ ~NeedsWrite(c)
        /\ secureConnections' = SetSecure(c)
        /\ pc' = [pc EXCEPT ![c] = "reply"]
        /\ UNCHANGED mutex
  /\ UNCHANGED <<link, session, issued, inUse, kaVars, event>>

\* MediaSet::keepAliveSession throws INVALID_SESSION for a session it does not
\* know; both callers swallow it.
KeepAlive(s) ==
  inUse' = [inUse EXCEPT ![s] = IF @ = "unknown" THEN @ ELSE "used"]

\* The end of storeConnection: the keep-alive, still under the mutex, and the
\* kind of listener.
KeepAliveStored(c) ==
  /\ pc[c] = "keepAlive"
  /\ KeepAlive(session[c])
  /\ secureConnections' = SetSecure(c)
  /\ pc' = [pc EXCEPT ![c] = "reply"]
  /\ UNCHANGED <<link, session, connections, connectionsReverse, issued, kaVars,
                 event>>

\* Mutant: the mutex stays locked when MediaSet does not know the session.
FinishStore_KeepMutex(c) ==
  /\ KeepAliveStored(c)
  /\ mutex' = IF inUse[session[c]] = "unknown" THEN mutex ELSE NoConn

FinishStore(c) == KeepAliveStored(c) /\ mutex' = NoConn

\* The response is sent; a connection that is gone makes send throw, which is
\* caught.
Reply(c) ==
  /\ pc[c] = "reply"
  /\ pc' = [pc EXCEPT ![c] = "idle"]
  /\ session' = [session EXCEPT ![c] = NoSession]
  /\ UNCHANGED <<link, regVars, mutex, issued, inUse, kaVars, event>>

-----------------------------------------------------------------------------
(* keepAliveSessions, the thread, and the session collector of MediaSet    *)

\* The thread wakes up and copies the keys of connections under the mutex.
KeepAliveSnapshot ==
  /\ kaList = {}
  /\ kaRound # "running"
  /\ mutex = NoConn
  /\ kaList' = {s \in Sessions : connections[s] # NoConn}
  /\ kaRound' = CASE kaRound = "done" -> "done"
                  [] kaList' = {} -> "done"
                  [] OTHER -> "running"
  /\ UNCHANGED <<connVars, regVars, mutex, issued, inUse, event>>

\* One session of the copy, without the mutex.  The round that began after the
\* last sweep is done with its last session.
KeepAliveSession(s) ==
  /\ s \in kaList
  /\ KeepAlive(s)
  /\ kaList' = kaList \ {s}
  /\ kaRound' = IF kaList' = {} /\ kaRound = "running" THEN "done" ELSE kaRound
  /\ UNCHANGED <<connVars, regVars, mutex, issued, event>>

\* MediaSet's collector (external): a session that was not used since the last
\* sweep goes, the others lose their mark.  The thread's period is a quarter of
\* the collector's, so at least one whole round fits between two sweeps.
Collect ==
  /\ kaRound = "done"
  /\ inUse' = [s \in Sessions |-> IF inUse[s] = "used" THEN "idle" ELSE "unknown"]
  /\ kaRound' = "none"
  /\ UNCHANGED <<connVars, regVars, mutex, issued, kaList, event>>

-----------------------------------------------------------------------------
(* send, called from the thread that emits the event of a media object     *)

\* The connection and the kind of listener are read under the mutex;
\* operator[] inserts false for a session that secureConnections lacks.
SendLookup(s) ==
  /\ event = NoEvent
  /\ mutex = NoConn
  /\ connections[s] # NoConn
  /\ secureConnections' =
       [secureConnections EXCEPT ![s] = IF @ = "none" THEN "plain" ELSE @]
  /\ event' = [hdl |-> connections[s], server |-> secureConnections'[s]]
  /\ UNCHANGED <<connVars, connections, connectionsReverse, mutex, issued, inUse,
                 kaVars>>

\* ... and the message is sent after the unlock.
SendEvent ==
  /\ event # NoEvent
  /\ event' = NoEvent
  /\ UNCHANGED <<connVars, regVars, mutex, issued, inUse, kaVars>>

-----------------------------------------------------------------------------
Process(c) ==
  \/ ProcessSession(c) \/ ProcessFresh(c) \/ ProcessError(c)
  \/ ProcessNoSession(c) \/ ParseError(c)

Handle(c) ==
  \/ ReadSession(c) \/ Process(c) \/ StoreNothing(c) \/ FinishStore(c) \/ Reply(c)

Next ==
  \/ \E c \in Conns :
       \/ OpenHandler(c) \/ PeerGone(c) \/ CloseHandler(c) \/ Receive(c)
       \/ Handle(c) \/ StoreConnection(c)
  \/ KeepAliveSnapshot
  \/ \E s \in Sessions : KeepAliveSession(s) \/ SendLookup(s)
  \/ Collect
  \/ SendEvent

Spec == Init /\ [][Next]_vars

\* Every thread goes on; one that waits for the mutex gets it eventually even
\* if others take it again and again in between.
Fairness ==
  /\ \A c \in Conns : WF_vars(Handle(c)) /\ SF_vars(StoreConnection(c))
                                         /\ SF_vars(CloseHandler(c))
  /\ SF_vars(KeepAliveSnapshot)
  /\ \A s \in Sessions : WF_vars(KeepAliveSession(s))
  /\ WF_vars(SendEvent)

FairSpec == Spec /\ Fairness
-----------------------------------------------------------------------------
(* Properties                                                              *)

\* storeConnection and closeHandler keep the two maps inverse to each other,
\* whatever connections take each other's sessions over or change their own.
MapsInverse ==
  /\ \A c \in Conns : connectionsReverse[c] # NoSession
                        => connections[connectionsReverse[c]] = c
  /\ \A s \in Sessions : connections[s] # NoConn
                           => connectionsReverse[connections[s]] = s

\* After its closeHandler a connection is in no map and never comes back, even
\* when its last message was still being processed as the client left: no event
\* and no keep-alive goes to the dead connection for ever after.
NoGhost ==
  \A c \in Conns : link[c] = "closed" =>
    /\ connectionsReverse[c] = NoSession
    /\ \A s \in Sessions : connections[s] # c
    /\ pc[c] = "idle"

\* send casts the handle to the connection type of the server it picks: the
\* server must be the one the connection came from, also when the session moved
\* between a plain and a TLS connection.
EventOnOwnServer == event # NoEvent => event.server = ServerOf(event.hdl)

\* MediaSet never collects a session that a connection answers for, whenever the
\* connection was stored relative to the keep-alive thread's copy of the keys;
\* the keep-alive of storeConnection, about to run, covers what the copy misses.
RegisteredSurvives ==
  [][\A s \in Sessions :
       (Collect /\ connections[s] # NoConn /\ inUse[s] # "unknown")
         => \/ inUse'[s] # "unknown"
            \/ \E c \in Conns : pc[c] = "keepAlive" /\ session[c] = s]_vars

\* A connection stops answering for its session only because it closed, moved
\* to another session itself, or another connection stored the same session.
OnlyTakenOver ==
  [][\A c \in Conns :
       LET s == connectionsReverse[c] IN
       (s # NoSession /\ connectionsReverse'[c] # s) =>
         \/ link'[c] = "closed"
         \/ connectionsReverse'[c] # NoSession
         \/ connections'[s] \notin {c, NoConn}]_vars

\* The handler of a message ends: nobody keeps the mutex.
HandlerEnds == \A c \in Conns : pc[c] = "read" ~> pc[c] \in {"idle", "wedged"}

\* A client that left is forgotten for good, whatever its last message was doing,
\* unless the exception of ParseError left its connection without a reader.
DepartedForgotten ==
  \A c \in Conns : link[c] = "gone" ~>
    [](\/ link[c] = "closed" /\ \A s \in Sessions : connections[s] # c
       \/ pc[c] = "wedged")

\* The transport seen from outside: who answers for which session, and who left.
Registry == INSTANCE SessionRegistry
  WITH registry <- connections, departed <- {c \in Conns : link[c] = "closed"}

\* storeConnection and closeHandler, with their erasures in three maps, implement
\* the registry of the abstract specification, and no other step touches it: a
\* session changes hands in one step, its old connection and the old session of
\* the new one are forgotten in the same step, and who left never takes one.
ImplementsRegistry == Registry!Spec

\* "WebSocketTransport: Avoid memory leak when sessions are destroyed": a session
\* that no connection answers for has no entry in secureConnections either.
NoSecureLeak ==
  \A s \in Sessions : connections[s] = NoConn => secureConnections[s] = "none"

\* Processor::process gets "the sessionId associated with the channel that
\* received the request", although it was read without the mutex.
ChannelSession ==
  [][\A c \in Conns : ReadSession(c) => session'[c] = connectionsReverse[c]]_vars

=============================================================================
