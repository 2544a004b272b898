-------------------------- MODULE EventSubscriptions --------------------------
(***************************************************************************)
(* Subscriptions to the events of media objects: subscribe, unsubscribe    *)
(* (server/ServerMethods.cpp), processSubscription and send                *)
(* (transport/websocket/WebSocketTransport.cpp) and sendEvent              *)
(* (WebSocketEventHandler.cpp), beside the connections of the clients.     *)
(*                                                                         *)
(* All the subscriptions of a session to one type of event of one object   *)
(* share one handler.  MediaSet keeps it alive, one shared pointer for     *)
(* each subscription; the transport and the object that emits the event    *)
(* have weak pointers only.                                                *)
(*                                                                         *)
(* Which connection answers for a session is that of SessionRegistry, the  *)
(* abstract specification that WebSocketTransport implements.  Here every  *)
(* session is one client's, which opens its connections one after the      *)
(* other; clients that fight for a session are WebSocketTransport's part.  *)
(***************************************************************************)
EXTENDS Naturals, FiniteSets

CONSTANTS
  Conns, Sessions,
  Topics,        \* an object and one of its types of events
  NoConn,
  SessionOf,     \* the session whose client opens the connection
  Before,        \* Before[c]: the connections that c's client had before it
  MaxRequests,   \* bound on the requests to subscribe
  MaxEmissions   \* bound on the events that objects emit

ASSUME ClientsAssumption ==
  /\ NoConn \notin Conns
  /\ Topics # {}
  /\ SessionOf \in [Conns -> Sessions]
  /\ Before \in [Conns -> SUBSET Conns]
  /\ \A c, d \in Conns :
       c # d /\ SessionOf[c] = SessionOf[d] => c \in Before[d] \/ d \in Before[c]

ASSUME BoundsAssumption == MaxRequests \in Nat /\ MaxEmissions \in Nat

EventIds == Sessions \X Topics

\* The n-th request to subscribe makes handler n, if it makes one, and its
\* subscription has the number n; 0 is none.
Requests == 1 .. MaxRequests

VARIABLES
  registry, departed,  \* see SessionRegistry
  left,       \* the connections whose client is no longer there
  pc,         \* where the message handler of each connection stands
  topic,      \* what its request is about
  sub,        \* the request's number, or the subscription to take back
  ptr,        \* processSubscription's local shared pointer
  asked,      \* number of requests to subscribe so far
  mutex,      \* the connection whose handler holds the transport's mutex
  handlers,   \* the transport's weak pointers
  home,       \* the session, object and type that each handler was made for
  connected,  \* the handlers that objects know, by weak pointers (external)
  subs,       \* MediaSet's shared pointers: <<subscription, handler>> (external)
  em,         \* the event that is being emitted
  emissions,  \* number of events so far
  due,        \* history: <<subscription, event id>> not taken back
  told,       \* history: the subscriptions that clients know
  answered,   \* history: the connections that got a response with a session
  stolen      \* history: sessions last stored by a connection that was left

clientVars  == <<registry, departed, left>>
requestVars == <<pc, topic, sub, ptr, asked>>
handlerVars == <<handlers, home, connected>>
eventVars   == <<em, emissions>>
knownVars   == <<told, answered, stolen>>
vars == <<clientVars, requestVars, mutex, handlerVars, subs, eventVars, due,
          knownVars>>

Registry == INSTANCE SessionRegistry

NoEmission == [topic |-> {}]

\* Mutant: the session is left out of the event id.
EventId_AnySession(c) == <<CHOOSE s \in Sessions : TRUE, topic[c]>>

\* The event id of connection c's request.
EventId(c) == <<SessionOf[c], topic[c]>>

\* Mutant: a map of shared pointers.
Alive_Strong(h) ==
  \/ \E p \in subs : p[2] = h
  \/ \E c \in Conns : ptr[c] = h
  \/ \E k \in EventIds : handlers[k] = h

\* Somebody has a shared pointer to handler h.
Alive(h) ==
  \/ \E p \in subs : p[2] = h
  \/ \E c \in Conns : ptr[c] = h
  \/ em # NoEmission /\ em.current = h

TypeOK ==
  /\ registry \in [Sessions -> Conns \cup {NoConn}]
  /\ departed \subseteq left
  /\ left \subseteq Conns
  /\ pc \in [Conns -> {"idle", "find", "connect", "register", "remember", "share",
                       "remove", "store", "reply", "refuse"}]
  /\ topic \in [Conns -> Topics]
  /\ sub \in [Conns -> Requests \cup {0}]
  /\ ptr \in [Conns -> Requests \cup {0}]
  /\ asked \in 0 .. MaxRequests
  /\ mutex \in Conns \cup {NoConn}
  /\ handlers \in [EventIds -> Requests \cup {0}]
  /\ home \in [Requests -> EventIds \cup {<<>>}]
  /\ \A k \in EventIds : handlers[k] # 0 => home[handlers[k]] = k
  /\ connected \subseteq Requests
  /\ subs \subseteq Requests \X Requests
  /\ em = NoEmission \/
     em \in [topic : Topics, todo : SUBSET Requests, current : Requests \cup {0},
             hdl : Conns \cup {NoConn}, got : [Sessions -> Nat]]
  /\ emissions \in 0 .. MaxEmissions
  /\ due \subseteq Requests \X EventIds
  /\ told \subseteq Requests
  /\ answered \subseteq Conns
  /\ stolen \subseteq Sessions

Init ==
  /\ Registry!Init
  /\ left = {}
  /\ pc = [c \in Conns |-> "idle"]
  /\ topic = [c \in Conns |-> CHOOSE t \in Topics : TRUE]
  /\ sub = [c \in Conns |-> 0]
  /\ ptr = [c \in Conns |-> 0]
  /\ asked = 0
  /\ mutex = NoConn
  /\ handlers = [k \in EventIds |-> 0]
  /\ home = [h \in Requests |-> <<>>]
  /\ connected = {}
  /\ subs = {}
  /\ em = NoEmission
  /\ emissions = 0
  /\ due = {} /\ told = {} /\ answered = {} /\ stolen = {}

-----------------------------------------------------------------------------
(* Clients                                                                 *)

\* The client of c is there, and its earlier connections are not.
Present(c) == c \notin left /\ Before[c] \subseteq left

Leave(c) ==
  /\ Present(c)
  /\ left' = left \cup {c}
  /\ UNCHANGED <<registry, departed, requestVars, mutex, handlerVars, subs,
                 eventVars, due, knownVars>>

\* closeHandler, which the strand keeps apart from the message handler.
CloseHandler(c) ==
  /\ c \in left \ departed
  /\ pc[c] = "idle"
  /\ mutex = NoConn
  /\ Registry!Depart(c)
  /\ UNCHANGED <<left, requestVars, mutex, handlerVars, subs, eventVars, due,
                 knownVars>>

ReceiveSubscribe(c, t) ==
  /\ Present(c)
  /\ pc[c] = "idle"
  /\ asked < MaxRequests
  /\ asked' = asked + 1
  /\ pc' = [pc EXCEPT ![c] = "find"]
  /\ topic' = [topic EXCEPT ![c] = t]
  /\ sub' = [sub EXCEPT ![c] = asked']
  /\ UNCHANGED <<clientVars, ptr, mutex, handlerVars, subs, eventVars, due,
                 knownVars>>

ReceiveUnsubscribe(c, n, t) ==
  /\ Present(c)
  /\ pc[c] = "idle"
  /\ n \in told
  /\ <<n, <<SessionOf[c], t>>>> \in due
  /\ pc' = [pc EXCEPT ![c] = "remove"]
  /\ topic' = [topic EXCEPT ![c] = t]
  /\ sub' = [sub EXCEPT ![c] = n]
  /\ UNCHANGED <<clientVars, ptr, asked, mutex, handlerVars, subs, eventVars,
                 due, knownVars>>

-----------------------------------------------------------------------------
(* subscribe and processSubscription                                       *)

\* The method throws; the mutex, if it is held, and the local pointer go.
Throw(c) ==
  /\ mutex' = IF mutex = c THEN NoConn ELSE mutex
  /\ ptr' = [ptr EXCEPT ![c] = 0]
  /\ sub' = [sub EXCEPT ![c] = 0]
  /\ pc' = [pc EXCEPT ![c] = "refuse"]

\* MediaSet does not know the object.
ObjectNotFound(c) ==
  /\ pc[c] = "find"
  /\ Throw(c)
  /\ UNCHANGED <<clientVars, topic, asked, handlerVars, subs, eventVars, due,
                 knownVars>>

\* Mutant: every subscription has a handler of its own.
Shared_Never(k) == 0

\* The handler that lock() returns: the weak pointer's, if it is still alive.
Shared(k) == IF handlers[k] # 0 /\ Alive(handlers[k]) THEN handlers[k] ELSE 0

FindHandler(c) ==
  LET h == Shared(EventId(c)) IN
  /\ pc[c] = "find"
  /\ mutex = NoConn
  /\ mutex' = c
  /\ \/ /\ h # 0
        /\ ptr' = [ptr EXCEPT ![c] = h]
        /\ pc' = [pc EXCEPT ![c] = "share"]
        /\ UNCHANGED home
     \/ /\ h = 0
        /\ ptr' = [ptr EXCEPT ![c] = sub[c]]
        /\ home' = [home EXCEPT ![sub[c]] = <<SessionOf[c], topic[c]>>]
        /\ pc' = [pc EXCEPT ![c] = "connect"]
  /\ UNCHANGED <<clientVars, topic, sub, asked, handlers, connected, subs,
                 eventVars, due, knownVars>>

ConnectHandler(c) ==
  /\ pc[c] = "connect"
  /\ connected' = connected \cup {ptr[c]}
  /\ pc' = [pc EXCEPT ![c] = "register"]
  /\ UNCHANGED <<clientVars, topic, sub, ptr, asked, mutex, handlers, home,
                 subs, eventVars, due, knownVars>>

\* The object has no event of this type.
EventNotFound(c) ==
  /\ pc[c] = "connect"
  /\ Throw(c)
  /\ UNCHANGED <<clientVars, topic, asked, handlerVars, subs, eventVars, due,
                 knownVars>>

\* Mutant: MediaSet gets the handler when it is made, and never again.
WithSub_NewOnly(c) ==
  IF pc[c] = "register" THEN subs \cup {<<sub[c], ptr[c]>>} ELSE subs

\* registerEventHandler: MediaSet keeps the handler for this subscription.
WithSub(c) == subs \cup {<<sub[c], ptr[c]>>}

RegisterNew(c) ==
  /\ pc[c] = "register"
  /\ subs' = WithSub(c)
  /\ due' = due \cup {<<sub[c], EventId(c)>>}
  /\ pc' = [pc EXCEPT ![c] = "remember"]
  /\ UNCHANGED <<clientVars, topic, sub, ptr, asked, mutex, handlerVars,
                 eventVars, knownVars>>

\* handlers gets the weak pointer, and processSubscription returns.
RememberHandler(c) ==
  /\ pc[c] = "remember"
  /\ handlers' = [handlers EXCEPT ![EventId(c)] = ptr[c]]
  /\ ptr' = [ptr EXCEPT ![c] = 0]
  /\ mutex' = NoConn
  /\ pc' = [pc EXCEPT ![c] = "store"]
  /\ UNCHANGED <<clientVars, topic, sub, asked, home, connected, subs,
                 eventVars, due, knownVars>>

RegisterShared(c) ==
  /\ pc[c] = "share"
  /\ subs' = WithSub(c)
  /\ due' = due \cup {<<sub[c], EventId(c)>>}
  /\ ptr' = [ptr EXCEPT ![c] = 0]
  /\ mutex' = NoConn
  /\ pc' = [pc EXCEPT ![c] = "store"]
  /\ UNCHANGED <<clientVars, topic, sub, asked, handlerVars, eventVars,
                 knownVars>>

\* unsubscribe: MediaSet::removeEventHandler.
RemoveHandler(c) ==
  /\ pc[c] = "remove"
  /\ subs' = {p \in subs : p[1] # sub[c]}
  /\ due' = {d \in due : d[1] # sub[c]}
  /\ sub' = [sub EXCEPT ![c] = 0]
  /\ pc' = [pc EXCEPT ![c] = "store"]
  /\ UNCHANGED <<clientVars, topic, ptr, asked, mutex, handlerVars, eventVars,
                 knownVars>>

\* MediaSet releases the object or ends the session: its subscriptions go.
Drop(k) ==
  LET gone == {d[1] : d \in {x \in due : x[2] = k}} IN
  /\ subs' = {p \in subs : p[1] \notin gone}
  /\ due' = {d \in due : d[2] # k}
  /\ UNCHANGED <<clientVars, requestVars, mutex, handlerVars, eventVars,
                 knownVars>>

-----------------------------------------------------------------------------
(* The response                                                            *)

\* Mutant: map::insert, which leaves a session that has a connection alone.
Stored_Insert(c) ==
  IF registry[SessionOf[c]] = NoConn THEN Registry!Take(SessionOf[c], c)
  ELSE UNCHANGED <<registry, departed>>

Stored(c) == Registry!Take(SessionOf[c], c)

\* storeConnection, before the response is sent.
StoreConnection(c) ==
  /\ pc[c] = "store"
  /\ mutex = NoConn
  /\ Stored(c)
  /\ stolen' = IF c \in left THEN stolen \cup {SessionOf[c]}
               ELSE stolen \ {SessionOf[c]}
  /\ pc' = [pc EXCEPT ![c] = "reply"]
  /\ UNCHANGED <<left, topic, sub, ptr, asked, mutex, handlerVars, subs, eventVars,
                 due, told, answered>>

\* The client gets the response, if it is still there.
Reply(c) ==
  /\ pc[c] = "reply"
  /\ \/ c \in left /\ UNCHANGED <<told, answered>>
     \/ /\ c \notin left
        /\ told' = told \cup ({sub[c]} \ {0})
        /\ answered' = answered \cup {c}
  /\ sub' = [sub EXCEPT ![c] = 0]
  /\ pc' = [pc EXCEPT ![c] = "idle"]
  /\ UNCHANGED <<clientVars, topic, ptr, asked, mutex, handlerVars, subs, eventVars,
                 due, stolen>>

\* An error names no session: storeConnection has nothing to do.
ReplyError(c) ==
  /\ pc[c] = "refuse"
  /\ pc' = [pc EXCEPT ![c] = "idle"]
  /\ UNCHANGED <<clientVars, topic, sub, ptr, asked, mutex, handlerVars, subs,
                 eventVars, due, knownVars>>

-----------------------------------------------------------------------------
(* Events                                                                  *)

\* An object emits an event: the handlers that are connected to it are called
\* one after the other, each if it is still alive.
Emit(t) ==
  /\ em = NoEmission
  /\ emissions < MaxEmissions
  /\ emissions' = emissions + 1
  /\ em' = [topic |-> t, todo |-> {h \in connected : Alive(h) /\ home[h][2] = t},
            current |-> 0, hdl |-> NoConn, got |-> [s \in Sessions |-> 0]]
  /\ UNCHANGED <<clientVars, requestVars, mutex, handlerVars, subs, due,
                 knownVars>>

Emitting == em # NoEmission

CallHandler(h) ==
  /\ Emitting
  /\ em.current = 0
  /\ h \in em.todo
  /\ em' = [em EXCEPT !.todo = @ \ {h}, !.current = IF Alive(h) THEN h ELSE 0]
  /\ UNCHANGED <<clientVars, requestVars, mutex, handlerVars, subs, emissions,
                 due, knownVars>>

Calling == Emitting /\ em.current # 0 /\ em.hdl = NoConn

\* send looks the connection of the handler's session up; without one getConnection
\* throws, sendEvent catches, and the event is lost.
LookUp ==
  /\ Calling
  /\ mutex = NoConn
  /\ LET c == registry[home[em.current][1]] IN
       em' = [em EXCEPT !.hdl = c, !.current = IF c = NoConn THEN 0 ELSE @]
  /\ UNCHANGED <<clientVars, requestVars, mutex, handlerVars, subs, emissions,
                 due, knownVars>>

\* The message is sent after the unlock; on a connection that was left it is lost.
Send ==
  /\ Emitting
  /\ em.hdl # NoConn
  /\ em' = [em EXCEPT !.current = 0, !.hdl = NoConn,
             !.got[home[em.current][1]] = IF em.hdl \in left THEN @ ELSE @ + 1]
  /\ UNCHANGED <<clientVars, requestVars, mutex, handlerVars, subs, emissions, due,
                 knownVars>>

EmissionEnd ==
  /\ Emitting
  /\ em.todo = {} /\ em.current = 0
  /\ em' = NoEmission
  /\ UNCHANGED <<clientVars, requestVars, mutex, handlerVars, subs, emissions,
                 due, knownVars>>

-----------------------------------------------------------------------------
Subscribe(c) ==
  \/ ObjectNotFound(c) \/ FindHandler(c) \/ ConnectHandler(c) \/ EventNotFound(c)
  \/ RegisterNew(c) \/ RememberHandler(c) \/ RegisterShared(c)

Next ==
  \/ \E c \in Conns :
       \/ Leave(c) \/ CloseHandler(c)
       \/ \E t \in Topics :
            \/ ReceiveSubscribe(c, t)
            \/ \E n \in Requests : ReceiveUnsubscribe(c, n, t)
       \/ Subscribe(c) \/ RemoveHandler(c)
       \/ StoreConnection(c) \/ Reply(c) \/ ReplyError(c)
  \/ \E k \in EventIds : Drop(k)
  \/ \E t \in Topics : Emit(t)
  \/ \E h \in Requests : CallHandler(h)
  \/ LookUp \/ Send \/ EmissionEnd

Spec == Init /\ [][Next]_vars

-----------------------------------------------------------------------------
(* Properties                                                              *)

\* "Only send events once per sessionId": however many subscriptions a session
\* has to an event, made and taken back in any order while it is emitted, the
\* client gets it at most once.
OncePerSession == Emitting => \A s \in Sessions : em.got[s] <= 1

\* As long as a subscription was neither taken back nor dropped, the object knows
\* a living handler of its session for its event, although other subscriptions
\* that shared the handler, the one that made it included, were taken back.
SubscribedIsConnected ==
  \A d \in due : \E h \in connected : Alive(h) /\ home[h] = d[2]

\* "Unsubscribe second listener and no event should be received": no event that
\* is emitted when the last subscription is gone finds a handler, unless one is
\* just being made.
SilentAfterUnsubscribe ==
  [][(em = NoEmission /\ em' # NoEmission) =>
       \A h \in em'.todo : \/ \E d \in due : d[2] = home[h]
                          \/ \E c \in Conns : ptr[c] = h]_vars

\* The connection that got the last response of its client answers for the
\* session, so no event is lost from then on, even if the client reconnected before
\* the old connection was closed.  Only when the old connection's handler was so
\* slow that it stored the session after the new one is the client not heard.
AnsweredIsHeard ==
  \A c \in answered \ left :
    registry[SessionOf[c]] = c \/ SessionOf[c] \in stolen

=============================================================================
