---------------------- MODULE EventSubscriptions_proofs ----------------------
(***************************************************************************)
(* Proofs about EventSubscriptions, for any clients, connections, topics   *)
(* and numbers of subscriptions and events.                                *)
(***************************************************************************)
EXTENDS EventSubscriptions, TLAPS

\* The handler of the connection holds the mutex in processSubscription.
Locked == {"connect", "register", "remember", "share"}

\* Its subscription is not registered yet.
Asking == {"find", "connect", "register", "share"}

\* It makes the handler of the subscription.
Making == {"connect", "register", "remember"}

\* processSubscription has a local pointer exactly while it holds the mutex.
LockHeld ==
  \A c \in Conns : /\ pc[c] \in Locked => mutex = c
                   /\ pc[c] \in Locked <=> ptr[c] # 0

\* The number of a subscription is used once.
NumbersFresh ==
  /\ \A n \in Requests : n > asked => home[n] = <<>>
  /\ \A d \in due : d[1] <= asked
  /\ \A c \in Conns : pc[c] \in Asking =>
       /\ sub[c] \in 1 .. asked
       /\ \A d \in due : d[1] # sub[c]
       /\ pc[c] = "find" => home[sub[c]] = <<>>
       /\ \A d \in Conns : pc[d] \in Asking /\ sub[d] = sub[c] => d = c

\* Whoever has a pointer to a handler has one that was made for what it is used
\* for and that, but for the one that is just being made, its object knows.
HandlersMade ==
  /\ \A h \in connected : home[h] \in EventIds
  /\ \A p \in subs : p[2] \in connected
  /\ \A c \in Conns : pc[c] \in Locked =>
       /\ home[ptr[c]] = EventId(c)
       /\ pc[c] = "connect" <=> ptr[c] \notin connected
  /\ Emitting => /\ em.todo \subseteq connected
                 /\ em.current # 0 => em.current \in connected
                 /\ em.hdl # NoConn => em.current # 0

\* Every living handler is the one that the transport remembers for its event id,
\* or the one that is being made because that one is dead.
OneAlive ==
  /\ \A h \in Requests : Alive(h) =>
       \/ handlers[home[h]] = h
       \/ \E c \in Conns : pc[c] \in Making /\ ptr[c] = h
  /\ \A c \in Conns : pc[c] \in Making /\ handlers[EventId(c)] # 0 =>
       ~Alive(handlers[EventId(c)])

\* MediaSet has a shared pointer for each subscription that was not taken back.
SubsAreDue ==
  /\ \A p \in subs : <<p[1], home[p[2]]>> \in due
  /\ \A d \in due : \E p \in subs : p[1] = d[1]
  /\ \A d, e \in due : d[1] = e[1] => d = e

\* The handlers that an emission has still to call.
Pending == em.todo \cup ({em.current} \ {0})

\* They are of different sessions, which have not got the event yet.
SessionsOnce ==
  Emitting =>
    /\ em.current \notin em.todo
    /\ \A h, g \in Pending : home[h][1] = home[g][1] => h = g
    /\ \A h \in Pending : em.got[home[h][1]] = 0
    /\ \A s \in Sessions : em.got[s] <= 1

\* A client that was heard on a connection has left the earlier ones, and the
\* session is that of the connection unless a slower one took it.
HeardLast ==
  \A c \in Conns :
    /\ pc[c] # "idle" \/ c \in answered => Before[c] \subseteq left
    /\ (pc[c] = "reply" \/ c \in answered) /\ c \notin left =>
         registry[SessionOf[c]] = c \/ SessionOf[c] \in stolen

SubscriptionsInv ==
  /\ TypeOK /\ LockHeld /\ NumbersFresh /\ HandlersMade /\ OneAlive
  /\ SubsAreDue /\ SessionsOnce /\ HeardLast

-----------------------------------------------------------------------------
(* Types                                                                   *)

\* The event id of a request is one, and not the mark of a handler not made.
LEMMA EventIdsTyped ==
  /\ \A k \in EventIds : k # <<>> /\ k[1] \in Sessions /\ k[2] \in Topics
  /\ TypeOK => \A c \in Conns : EventId(c) \in EventIds
<1>1. ASSUME NEW k \in EventIds
      PROVE  k # <<>> /\ k[1] \in Sessions /\ k[2] \in Topics
  BY <1>1 DEF EventIds
<1>2. ASSUME TypeOK, NEW c \in Conns PROVE EventId(c) \in EventIds
  BY <1>2, ClientsAssumption DEF EventIds, EventId, TypeOK
<1> QED
  BY <1>1, <1>2


\* Every operation keeps the types.
LEMMA TypeStep == SubscriptionsInv /\ [Next]_vars => TypeOK'
<1> SUFFICES ASSUME SubscriptionsInv, [Next]_vars PROVE TypeOK'
  OBVIOUS
<1>0. TypeOK /\ LockHeld /\ NumbersFresh /\ HandlersMade
  BY DEF SubscriptionsInv
<1>c. NoConn \notin Conns /\ SessionOf \in [Conns -> Sessions]
  BY ClientsAssumption
<1> USE <1>c, BoundsAssumption
    DEF clientVars, requestVars, handlerVars, eventVars, knownVars
<1>1. ASSUME NEW c \in Conns, Leave(c) \/ CloseHandler(c) PROVE TypeOK'
  BY <1>0, <1>1 DEF TypeOK, Leave, CloseHandler, Registry!Depart, Registry!Without
<1>2. ASSUME NEW c \in Conns, NEW t \in Topics, ReceiveSubscribe(c, t) PROVE TypeOK'
  BY <1>0, <1>2 DEF TypeOK, ReceiveSubscribe, Requests
<1>3. ASSUME NEW c \in Conns, NEW t \in Topics, NEW n \in Requests,
             ReceiveUnsubscribe(c, n, t)
      PROVE  TypeOK'
  BY <1>0, <1>3 DEF TypeOK, ReceiveUnsubscribe
<1>4. ASSUME NEW c \in Conns, ObjectNotFound(c) \/ EventNotFound(c) PROVE TypeOK'
  BY <1>0, <1>4 DEF TypeOK, ObjectNotFound, EventNotFound, Throw
<1>5. ASSUME NEW c \in Conns, FindHandler(c) PROVE TypeOK'
  <2>1. EventId(c) \in EventIds /\ Shared(EventId(c)) \in Requests \cup {0}
    BY <1>0, EventIdsTyped DEF Shared, TypeOK
  <2>2. sub[c] \in Requests /\ home[sub[c]] = <<>>
    BY <1>0, <1>5 DEF NumbersFresh, FindHandler, Asking, TypeOK, Requests
  <2>3. /\ ptr' \in [Conns -> Requests \cup {0}]
        /\ pc' \in [Conns -> {"idle", "find", "connect", "register", "remember", "share",
                              "remove", "store", "reply", "refuse"}]
        /\ mutex' \in Conns \cup {NoConn}
    BY <1>0, <1>5, <2>1, <2>2 DEF TypeOK, FindHandler
  <2>4. /\ home' \in [Requests -> EventIds \cup {<<>>}]
        /\ \A h \in Requests : home[h] # <<>> => home'[h] = home[h]
    BY <1>0, <1>5, <2>1, <2>2 DEF TypeOK, FindHandler, EventId
  <2>5. \A k \in EventIds : handlers'[k] # 0 => home'[handlers'[k]] = k
    BY <1>0, <1>5, <2>4, EventIdsTyped DEF TypeOK, FindHandler
  <2> QED
    BY <1>0, <1>5, <2>3, <2>4, <2>5 DEF TypeOK, FindHandler
<1>6. ASSUME NEW c \in Conns, ConnectHandler(c) PROVE TypeOK'
  <2>1. ptr[c] \in Requests
    BY <1>0, <1>6 DEF TypeOK, LockHeld, Locked, ConnectHandler
  <2> QED
    BY <1>0, <1>6, <2>1 DEF TypeOK, ConnectHandler
<1>7. ASSUME NEW c \in Conns, RegisterNew(c) \/ RegisterShared(c) PROVE TypeOK'
  <2>1. ptr[c] \in Requests /\ sub[c] \in Requests
    BY <1>0, <1>7
    DEF TypeOK, LockHeld, NumbersFresh, Asking, Locked, RegisterNew, RegisterShared,
        Requests
  <2>2. EventId(c) \in EventIds
    BY <1>0, EventIdsTyped
  <2> QED
    BY <1>0, <1>7, <2>1, <2>2 DEF TypeOK, RegisterNew, RegisterShared, WithSub
<1>8. ASSUME NEW c \in Conns, RememberHandler(c) PROVE TypeOK'
  <2>1. ptr[c] \in Requests /\ home[ptr[c]] = EventId(c)
    BY <1>0, <1>8 DEF TypeOK, LockHeld, Locked, HandlersMade, RememberHandler
  <2>2. EventId(c) \in EventIds
    BY <1>0, EventIdsTyped
  <2> QED
    BY <1>0, <1>8, <2>1, <2>2 DEF TypeOK, RememberHandler
<1>9. ASSUME NEW c \in Conns, RemoveHandler(c) PROVE TypeOK'
  BY <1>0, <1>9 DEF TypeOK, RemoveHandler
<1>10. ASSUME NEW c \in Conns, StoreConnection(c) PROVE TypeOK'
  BY <1>0, <1>10 DEF TypeOK, StoreConnection, Stored, Registry!Take, Registry!Without
<1>11. ASSUME NEW c \in Conns, Reply(c) \/ ReplyError(c) PROVE TypeOK'
  BY <1>0, <1>11 DEF TypeOK, Reply, ReplyError
<1>12. ASSUME NEW k \in EventIds, Drop(k) PROVE TypeOK'
  BY <1>0, <1>12 DEF TypeOK, Drop
<1>13. ASSUME NEW t \in Topics, Emit(t) PROVE TypeOK'
  BY <1>0, <1>13 DEF TypeOK, Emit
<1>14. ASSUME NEW h \in Requests, CallHandler(h) PROVE TypeOK'
  BY <1>0, <1>14 DEF TypeOK, CallHandler, Emitting
<1>15. CASE LookUp
  <2>1. home[em.current][1] \in Sessions
    BY <1>0, <1>15, EventIdsTyped DEF LookUp, Calling, HandlersMade
  <2> QED
    BY <1>0, <1>15, <2>1 DEF TypeOK, LookUp, Calling, Emitting
<1>16. CASE Send
  <2>1. home[em.current][1] \in Sessions
    BY <1>0, <1>16, EventIdsTyped DEF Send, HandlersMade
  <2> DEFINE n == em.got[home[em.current][1]]
             got2 == [em.got EXCEPT ![home[em.current][1]] =
                        IF em.hdl \in left THEN n ELSE n + 1]
  <2>2. em \in [topic : Topics, todo : SUBSET Requests, current : Requests \cup {0},
                hdl : Conns \cup {NoConn}, got : [Sessions -> Nat]]
    BY <1>0, <1>16 DEF TypeOK, Send, Emitting
  <2>3. em.got \in [Sessions -> Nat] /\ n \in Nat /\ n + 1 \in Nat
    BY <2>1, <2>2
  <2>4. got2 \in [Sessions -> Nat]
    <3> HIDE DEF n
    <3> QED
      BY <2>3
  <2>5. em' = [em EXCEPT !.current = 0, !.hdl = NoConn, !.got = got2]
    BY <1>16 DEF Send
  <2>6. em' \in [topic : Topics, todo : SUBSET Requests, current : Requests \cup {0},
                 hdl : Conns \cup {NoConn}, got : [Sessions -> Nat]]
    BY <2>2, <2>4, <2>5
  <2> QED
    BY <1>0, <1>16, <2>6 DEF TypeOK, Send
<1>17. CASE EmissionEnd
  BY <1>0, <1>17 DEF TypeOK, EmissionEnd
<1>18. CASE UNCHANGED vars
  BY <1>0, <1>18 DEF TypeOK, vars
<1> QED
  BY <1>1, <1>2, <1>3, <1>4, <1>5, <1>6, <1>7, <1>8, <1>9, <1>10, <1>11, <1>12,
     <1>13, <1>14, <1>15, <1>16, <1>17, <1>18
  DEF Next, Subscribe

-----------------------------------------------------------------------------
(* The mutex and the numbers of subscriptions                              *)

\* A handler takes the mutex when nobody has it and gives it back with its
\* local pointer.
LEMMA LockStep == SubscriptionsInv /\ [Next]_vars => LockHeld'
<1> SUFFICES ASSUME SubscriptionsInv, [Next]_vars PROVE LockHeld'
  OBVIOUS
<1>0. TypeOK /\ LockHeld /\ NumbersFresh
  BY DEF SubscriptionsInv
<1> USE ClientsAssumption
    DEF clientVars, requestVars, handlerVars, eventVars, knownVars, LockHeld, Locked
<1>1. CASE UNCHANGED <<pc, ptr, mutex>>
  BY <1>0, <1>1
<1>2. ASSUME NEW c \in Conns,
             \/ \E t \in Topics : ReceiveSubscribe(c, t)
             \/ \E t \in Topics : \E n \in Requests : ReceiveUnsubscribe(c, n, t)
             \/ RemoveHandler(c) \/ StoreConnection(c) \/ Reply(c) \/ ReplyError(c)
      PROVE  LockHeld'
  <2>1. /\ UNCHANGED <<ptr, mutex>>
        /\ pc[c] \notin Locked /\ pc'[c] \notin Locked
        /\ \A d \in Conns \ {c} : pc'[d] = pc[d]
    <3>1. pc \in [Conns -> {"idle", "find", "connect", "register", "remember",
                            "share", "remove", "store", "reply", "refuse"}]
      BY <1>0 DEF TypeOK
    <3> QED
      BY <3>1, <1>2
      DEF ReceiveSubscribe, ReceiveUnsubscribe, RemoveHandler, StoreConnection, Reply,
          ReplyError
  <2> QED
    BY <1>0, <2>1
<1>3. ASSUME NEW c \in Conns, ObjectNotFound(c) \/ EventNotFound(c) PROVE LockHeld'
  BY <1>0, <1>3 DEF TypeOK, ObjectNotFound, EventNotFound, Throw
<1>4. ASSUME NEW c \in Conns, FindHandler(c) PROVE LockHeld'
  <2>1. sub[c] # 0
    BY <1>0, <1>4 DEF TypeOK, NumbersFresh, Asking, FindHandler
  <2> QED
    BY <1>0, <1>4, <2>1 DEF TypeOK, FindHandler
<1>5. ASSUME NEW c \in Conns, ConnectHandler(c) \/ RegisterNew(c) PROVE LockHeld'
  BY <1>0, <1>5 DEF TypeOK, ConnectHandler, RegisterNew
<1>6. ASSUME NEW c \in Conns, RememberHandler(c) \/ RegisterShared(c) PROVE LockHeld'
  BY <1>0, <1>6 DEF TypeOK, RememberHandler, RegisterShared
<1>7. ASSUME \/ \E c \in Conns : Leave(c) \/ CloseHandler(c)
             \/ \E k \in EventIds : Drop(k)
             \/ \E t \in Topics : Emit(t)
             \/ \E h \in Requests : CallHandler(h)
             \/ LookUp \/ Send \/ EmissionEnd \/ UNCHANGED vars
      PROVE  UNCHANGED <<pc, ptr, mutex>>
  BY <1>7
  DEF Leave, CloseHandler, Drop, Emit, CallHandler, LookUp, Send, EmissionEnd, vars
<1> QED
  BY <1>1, <1>2, <1>3, <1>4, <1>5, <1>6, <1>7 DEF Next, Subscribe

\* A number is given out once, and used up when a handler is made for it or its
\* subscription is registered.
LEMMA NumbersStep == SubscriptionsInv /\ [Next]_vars => NumbersFresh'
<1> SUFFICES ASSUME SubscriptionsInv, [Next]_vars PROVE NumbersFresh'
  OBVIOUS
<1>0. TypeOK /\ LockHeld /\ NumbersFresh
  BY DEF SubscriptionsInv
<1>t. /\ asked \in Nat
      /\ pc \in [Conns -> {"idle", "find", "connect", "register", "remember", "share",
                           "remove", "store", "reply", "refuse"}]
      /\ sub \in [Conns -> Requests \cup {0}]
      /\ home \in [Requests -> EventIds \cup {<<>>}]
      /\ due \subseteq Requests \X EventIds
  BY <1>0, BoundsAssumption DEF TypeOK
<1> USE DEF clientVars, requestVars, handlerVars, eventVars, knownVars, NumbersFresh,
            Asking
<1>1. CASE UNCHANGED <<pc, sub, asked, home, due>>
  BY <1>0, <1>1
<1>2. ASSUME NEW c \in Conns, NEW t \in Topics, ReceiveSubscribe(c, t)
      PROVE  NumbersFresh'
  <2>1. /\ asked' = asked + 1 /\ asked' \in Requests
        /\ pc' = [pc EXCEPT ![c] = "find"] /\ sub' = [sub EXCEPT ![c] = asked']
        /\ UNCHANGED <<home, due>>
    BY <1>t, <1>2, BoundsAssumption DEF ReceiveSubscribe, Requests
  <2>2. home[asked'] = <<>> /\ \A d \in due : d[1] <= asked /\ d[1] \in Nat
    BY <1>0, <1>t, <2>1 DEF Requests
  <2>3. \A d \in Conns : pc[d] \in Asking => sub[d] \in 1 .. asked
    BY <1>0
  <2> QED
    BY <1>0, <1>t, <2>1, <2>2, <2>3 DEF Requests
<1>3. ASSUME NEW c \in Conns,
             \/ \E t \in Topics : \E n \in Requests : ReceiveUnsubscribe(c, n, t)
             \/ StoreConnection(c) \/ Reply(c) \/ ReplyError(c) \/ RememberHandler(c)
             \/ ObjectNotFound(c) \/ EventNotFound(c)
      PROVE  NumbersFresh'
  <2>1. /\ UNCHANGED <<asked, home, due>>
        /\ pc'[c] \notin Asking
        /\ \A d \in Conns \ {c} : pc'[d] = pc[d] /\ sub'[d] = sub[d]
    BY <1>t, <1>3
    DEF ReceiveUnsubscribe, StoreConnection, Reply, ReplyError, RememberHandler,
        ObjectNotFound, EventNotFound, Throw
  <2> QED
    BY <1>0, <2>1
<1>4. ASSUME NEW c \in Conns, FindHandler(c) PROVE NumbersFresh'
  <2>1. /\ UNCHANGED <<asked, sub, due>>
        /\ pc[c] = "find" /\ pc'[c] \in {"share", "connect"}
        /\ \A d \in Conns \ {c} : pc'[d] = pc[d]
        /\ \A n \in Requests : n # sub[c] => home'[n] = home[n]
    BY <1>t, <1>4 DEF FindHandler
  <2>2. sub[c] \in 1 .. asked
    BY <1>0, <2>1
  <2>3. \A d \in Conns \ {c} : pc[d] \in Asking => sub[d] # sub[c] /\ sub[d] \in Requests
    BY <1>0, <1>t, <2>1 DEF Requests
  <2>4. \A n \in Requests : n > asked => home'[n] = <<>>
    BY <1>0, <1>t, <2>1, <2>2 DEF Requests
  <2> QED
    BY <1>0, <2>1, <2>2, <2>3, <2>4
<1>5. ASSUME NEW c \in Conns, ConnectHandler(c) PROVE NumbersFresh'
  BY <1>0, <1>t, <1>5 DEF ConnectHandler
<1>6. ASSUME NEW c \in Conns, RegisterNew(c) \/ RegisterShared(c) PROVE NumbersFresh'
  <2>1. /\ UNCHANGED <<asked, sub, home>>
        /\ due' = due \cup {<<sub[c], EventId(c)>>}
        /\ pc[c] \in Asking /\ pc'[c] \notin Asking
        /\ \A d \in Conns \ {c} : pc'[d] = pc[d]
    BY <1>t, <1>6 DEF RegisterNew, RegisterShared
  <2>2. /\ sub[c] \in 1 .. asked
        /\ \A d \in Conns \ {c} : pc[d] \in Asking => sub[d] # sub[c]
    BY <1>0, <2>1
  <2>3. \A d \in due' : d[1] <= asked
    BY <1>0, <1>t, <2>1, <2>2
  <2> QED
    BY <1>0, <2>1, <2>2, <2>3
<1>7. ASSUME NEW c \in Conns, RemoveHandler(c) PROVE NumbersFresh'
  <2>1. /\ UNCHANGED <<asked, home>>
        /\ due' \subseteq due
        /\ pc'[c] \notin Asking
        /\ \A d \in Conns \ {c} : pc'[d] = pc[d] /\ sub'[d] = sub[d]
    BY <1>t, <1>7 DEF RemoveHandler
  <2> QED
    BY <1>0, <2>1
<1>8. ASSUME NEW k \in EventIds, Drop(k) PROVE NumbersFresh'
  <2>1. UNCHANGED <<asked, home, pc, sub>> /\ due' \subseteq due
    BY <1>8 DEF Drop
  <2> QED
    BY <1>0, <2>1
<1>9. ASSUME \/ \E c \in Conns : Leave(c) \/ CloseHandler(c)
             \/ \E t \in Topics : Emit(t)
             \/ \E h \in Requests : CallHandler(h)
             \/ LookUp \/ Send \/ EmissionEnd \/ UNCHANGED vars
      PROVE  UNCHANGED <<pc, sub, asked, home, due>>
  BY <1>9 DEF Leave, CloseHandler, Emit, CallHandler, LookUp, Send, EmissionEnd, vars
<1> QED
  BY <1>1, <1>2, <1>3, <1>4, <1>5, <1>6, <1>7, <1>8, <1>9 DEF Next, Subscribe

-----------------------------------------------------------------------------
(* Handlers                                                                *)

\* Only one handler of a connection holds the mutex.
LEMMA OneLocks ==
  LockHeld => \A c, d \in Conns : pc[c] \in Locked /\ pc[d] \in Locked => c = d
BY DEF LockHeld

\* Taking the mutex: nobody has a local pointer.
LEMMA NobodyLocks ==
  LockHeld /\ mutex = NoConn => \A c \in Conns : pc[c] \notin Locked /\ ptr[c] = 0
BY ClientsAssumption DEF LockHeld

\* The handler that FindHandler shares is one that its object knows.
LEMMA SharedIsConnected ==
  ASSUME SubscriptionsInv, NEW c \in Conns, mutex = NoConn, Shared(EventId(c)) # 0
  PROVE  LET h == Shared(EventId(c))
         IN  h \in connected /\ home[h] = EventId(c) /\ Alive(h)
<1> DEFINE h == handlers[EventId(c)]
<1>1. /\ Shared(EventId(c)) = h /\ h # 0 /\ Alive(h)
  BY DEF Shared
<1>2. home[h] = EventId(c)
  BY <1>1, EventIdsTyped DEF SubscriptionsInv, TypeOK
<1>3. \A d \in Conns : ptr[d] # h
  BY <1>1, NobodyLocks DEF SubscriptionsInv
<1>4. h \in connected
  BY <1>1, <1>3 DEF Alive, SubscriptionsInv, HandlersMade, Emitting
<1> QED
  BY <1>1, <1>2, <1>4

\* A handler that was made keeps its event id, and a request its topic while it
\* is being processed.
LEMMA HomesStay ==
  ASSUME SubscriptionsInv, [Next]_vars
  PROVE  /\ \A h \in Requests : home[h] # <<>> => home'[h] = home[h]
         /\ \A c \in Conns : pc'[c] \in Locked => EventId(c)' = EventId(c)
<1>0. TypeOK /\ NumbersFresh
  BY DEF SubscriptionsInv
<1>t. /\ topic \in [Conns -> Topics]
      /\ home \in [Requests -> EventIds \cup {<<>>}]
      /\ pc \in [Conns -> {"idle", "find", "connect", "register", "remember", "share",
                           "remove", "store", "reply", "refuse"}]
  BY <1>0 DEF TypeOK
<1> USE DEF clientVars, requestVars, handlerVars, eventVars, knownVars, EventId
<1>1. ASSUME NEW c \in Conns, FindHandler(c)
      PROVE  UNCHANGED topic /\ \A h \in Requests : home[h] # <<>> => home'[h] = home[h]
  <2>1. home[sub[c]] = <<>>
    BY <1>0, <1>1 DEF NumbersFresh, Asking, FindHandler
  <2> QED
    BY <1>t, <1>1, <2>1 DEF FindHandler
<1>2. ASSUME NEW c \in Conns,
             \/ \E t \in Topics : ReceiveSubscribe(c, t)
             \/ \E t \in Topics : \E n \in Requests : ReceiveUnsubscribe(c, n, t)
      PROVE  /\ UNCHANGED home /\ pc'[c] \notin Locked
             /\ \A d \in Conns \ {c} : topic'[d] = topic[d]
  BY <1>t, <1>2 DEF ReceiveSubscribe, ReceiveUnsubscribe, Locked
<1>3. ASSUME NEW c \in Conns,
             \/ Leave(c) \/ CloseHandler(c) \/ ObjectNotFound(c) \/ ConnectHandler(c)
             \/ EventNotFound(c) \/ RegisterNew(c) \/ RememberHandler(c)
             \/ RegisterShared(c) \/ RemoveHandler(c) \/ StoreConnection(c) \/ Reply(c)
             \/ ReplyError(c)
      PROVE  UNCHANGED <<home, topic>>
  BY <1>3
  DEF Leave, CloseHandler, ObjectNotFound, ConnectHandler, EventNotFound, RegisterNew,
      RememberHandler, RegisterShared, RemoveHandler, StoreConnection, Reply, ReplyError
<1>4. ASSUME \/ \E k \in EventIds : Drop(k)
             \/ \E t \in Topics : Emit(t)
             \/ \E h \in Requests : CallHandler(h)
             \/ LookUp \/ Send \/ EmissionEnd \/ UNCHANGED vars
      PROVE  UNCHANGED <<home, topic>>
  BY <1>4 DEF Drop, Emit, CallHandler, LookUp, Send, EmissionEnd, vars
<1> QED
  BY <1>1, <1>2, <1>3, <1>4 DEF Next, Subscribe

\* What pointers point to stays what they were taken for.
LEMMA MadeStep == SubscriptionsInv /\ [Next]_vars => HandlersMade'
<1> SUFFICES ASSUME SubscriptionsInv, [Next]_vars PROVE HandlersMade'
  OBVIOUS
<1>0. LockHeld /\ NumbersFresh /\ HandlersMade
  BY DEF SubscriptionsInv
<1>t. /\ pc \in [Conns -> {"idle", "find", "connect", "register", "remember", "share",
                           "remove", "store", "reply", "refuse"}]
      /\ ptr \in [Conns -> Requests \cup {0}]
      /\ connected \subseteq Requests
      /\ home \in [Requests -> EventIds \cup {<<>>}]
      /\ sub \in [Conns -> Requests \cup {0}]
      /\ \A k \in EventIds : k # <<>>
      /\ \A c \in Conns : EventId(c) \in EventIds
  BY EventIdsTyped DEF SubscriptionsInv, TypeOK
<1>h. /\ \A h \in Requests : home[h] # <<>> => home'[h] = home[h]
      /\ \A c \in Conns : pc'[c] \in Locked => EventId(c)' = EventId(c)
  BY HomesStay
<1>c. \A h \in connected : home'[h] = home[h]
  BY <1>0, <1>t, <1>h DEF HandlersMade
<1>l. \A c \in Conns : pc[c] \in Locked => ptr[c] \in Requests /\ home'[ptr[c]] = home[ptr[c]]
  BY <1>0, <1>t, <1>h DEF HandlersMade, LockHeld
<1> DEFINE Known == \A h \in connected : home[h] \in EventIds
           SubsKnown == \A p \in subs : p[2] \in connected
           LocalKnown == \A c \in Conns : pc[c] \in Locked =>
                           /\ home[ptr[c]] = EventId(c)
                           /\ pc[c] = "connect" <=> ptr[c] \notin connected
           EventKnown == Emitting =>
                           /\ em.todo \subseteq connected
                           /\ em.current # 0 => em.current \in connected
                           /\ em.hdl # NoConn => em.current # 0
<1>i. Known /\ SubsKnown /\ LocalKnown /\ EventKnown
  BY <1>0 DEF HandlersMade
<1> USE DEF clientVars, requestVars, handlerVars, eventVars, knownVars
<1>1. ASSUME UNCHANGED connected PROVE Known'
  BY <1>1, <1>c, <1>i
<1>2. ASSUME UNCHANGED connected, subs' \subseteq subs PROVE SubsKnown'
  BY <1>2, <1>i
<1>3. ASSUME UNCHANGED connected, NEW c \in Conns, ptr'[c] = ptr[c],
             pc'[c] \in Locked, pc[c] \in Locked, pc'[c] = "connect" <=> pc[c] = "connect"
      PROVE  /\ home'[ptr'[c]] = EventId(c)'
             /\ pc'[c] = "connect" <=> ptr'[c] \notin connected'
  BY <1>3, <1>h, <1>l, <1>i
<1>4. ASSUME connected \subseteq connected', UNCHANGED em PROVE EventKnown'
  BY <1>4, <1>i DEF Emitting
<1>5. ASSUME NEW c \in Conns,
             \/ \E t \in Topics : ReceiveSubscribe(c, t)
             \/ \E t \in Topics : \E n \in Requests : ReceiveUnsubscribe(c, n, t)
             \/ ObjectNotFound(c) \/ EventNotFound(c) \/ RememberHandler(c)
             \/ RemoveHandler(c) \/ StoreConnection(c) \/ Reply(c) \/ ReplyError(c)
      PROVE  HandlersMade'
  <2>1. /\ UNCHANGED <<connected, em>> /\ subs' \subseteq subs
        /\ pc'[c] \notin Locked
        /\ \A d \in Conns \ {c} : pc'[d] = pc[d] /\ ptr'[d] = ptr[d]
    BY <1>t, <1>5
    DEF ReceiveSubscribe, ReceiveUnsubscribe, ObjectNotFound, EventNotFound, Throw,
        RememberHandler, RemoveHandler, StoreConnection, Reply, ReplyError, Locked
  <2>2. LocalKnown'
    BY <1>3, <2>1
  <2> QED
    BY <1>1, <1>2, <1>4, <2>1, <2>2 DEF HandlersMade
<1>6. ASSUME NEW c \in Conns, FindHandler(c) PROVE HandlersMade'
  <2>1. /\ UNCHANGED <<connected, em, subs>>
        /\ \A d \in Conns \ {c} : pc'[d] = pc[d]
    BY <1>t, <1>6 DEF FindHandler
  <2>2. \A d \in Conns : pc[d] \notin Locked
    BY <1>0, <1>6, NobodyLocks DEF FindHandler
  <2>3. /\ home'[ptr'[c]] = EventId(c)'
        /\ pc'[c] = "connect" <=> ptr'[c] \notin connected
    <3>1. CASE Shared(EventId(c)) # 0
      BY <1>t, <1>6, <1>c, <1>h, <3>1, SharedIsConnected DEF FindHandler, Locked
    <3>2. CASE Shared(EventId(c)) = 0
      <4>1. home[sub[c]] = <<>> /\ sub[c] \in Requests
        BY <1>0, <1>t, <1>6 DEF NumbersFresh, Asking, FindHandler, Requests
      <4>2. sub[c] \notin connected
        BY <1>i, <1>t, <4>1
      <4>3. /\ ptr'[c] = sub[c] /\ pc'[c] = "connect"
            /\ home'[sub[c]] = EventId(c)
        BY <1>t, <1>6, <3>2, <4>1 DEF FindHandler, EventId
      <4> QED
        BY <1>h, <4>2, <4>3 DEF Locked
    <3> QED
      BY <3>1, <3>2
  <2> QED
    BY <1>1, <1>2, <1>4, <2>1, <2>2, <2>3 DEF HandlersMade
<1>7. ASSUME NEW c \in Conns, ConnectHandler(c) PROVE HandlersMade'
  <2>1. /\ UNCHANGED <<em, subs, ptr>> /\ pc[c] \in Locked /\ pc'[c] = "register"
        /\ connected' = connected \cup {ptr[c]}
        /\ \A d \in Conns \ {c} : pc'[d] = pc[d]
    BY <1>t, <1>7 DEF ConnectHandler, Locked
  <2>2. \A d \in Conns \ {c} : pc[d] \notin Locked
    BY <1>0, <2>1, OneLocks
  <2>3. home'[ptr[c]] = EventId(c)' /\ EventId(c)' \in EventIds
    BY <1>h, <1>l, <1>i, <1>t, <2>1 DEF Locked
  <2>4. Known' /\ SubsKnown' /\ LocalKnown'
    BY <1>c, <1>i, <2>1, <2>2, <2>3
  <2> QED
    BY <1>4, <2>1, <2>4 DEF HandlersMade
<1>8. ASSUME NEW c \in Conns, RegisterNew(c) \/ RegisterShared(c) PROVE HandlersMade'
  <2>1. /\ UNCHANGED <<em, connected>> /\ pc[c] \in Locked /\ pc[c] # "connect"
        /\ pc'[c] # "connect"
        /\ pc'[c] \in Locked => ptr'[c] = ptr[c]
        /\ subs' = subs \cup {<<sub[c], ptr[c]>>}
        /\ \A d \in Conns \ {c} : pc'[d] = pc[d] /\ ptr'[d] = ptr[d]
    BY <1>t, <1>8 DEF RegisterNew, RegisterShared, WithSub, Locked
  <2>2. ptr[c] \in connected
    BY <1>i, <2>1
  <2>3. SubsKnown' /\ LocalKnown'
    BY <1>3, <1>i, <2>1, <2>2
  <2> QED
    BY <1>1, <1>4, <2>1, <2>3 DEF HandlersMade
<1>9. ASSUME \/ \E c \in Conns : Leave(c) \/ CloseHandler(c)
             \/ \E k \in EventIds : Drop(k)
             \/ \E t \in Topics : Emit(t)
             \/ \E h \in Requests : CallHandler(h)
             \/ LookUp \/ Send \/ EmissionEnd \/ UNCHANGED vars
      PROVE  UNCHANGED <<pc, ptr, connected>> /\ subs' \subseteq subs
  BY <1>9
  DEF Leave, CloseHandler, Drop, Emit, CallHandler, LookUp, Send, EmissionEnd, vars
<1>10. ASSUME UNCHANGED <<pc, ptr, connected>>, subs' \subseteq subs, EventKnown'
       PROVE  HandlersMade'
  <2>1. LocalKnown'
    BY <1>3, <1>10
  <2> QED
    BY <1>1, <1>2, <1>10, <2>1 DEF HandlersMade
<1>11. ASSUME \/ \E c \in Conns : Leave(c) \/ CloseHandler(c)
              \/ \E k \in EventIds : Drop(k)
              \/ UNCHANGED vars
       PROVE  UNCHANGED em
  BY <1>11 DEF Leave, CloseHandler, Drop, vars
<1>12. ASSUME NEW t \in Topics, Emit(t) PROVE EventKnown'
  BY <1>12 DEF Emit, Emitting
<1>e. ASSUME Emitting
      PROVE  em \in [topic : Topics, todo : SUBSET Requests, current : Requests \cup {0},
                     hdl : Conns \cup {NoConn}, got : [Sessions -> Nat]]
  BY <1>e DEF SubscriptionsInv, TypeOK, Emitting
<1>13. ASSUME NEW h \in Requests, CallHandler(h) PROVE EventKnown'
  BY <1>13, <1>i, <1>e DEF CallHandler, Emitting
<1>14. ASSUME LookUp PROVE EventKnown'
  BY <1>14, <1>i, <1>e DEF LookUp, Calling, Emitting
<1>15. ASSUME Send PROVE EventKnown'
  BY <1>15, <1>i, <1>e DEF Send, Emitting
<1>16. ASSUME EmissionEnd PROVE EventKnown'
  BY <1>16 DEF EmissionEnd, Emitting
<1> QED
  BY <1>4, <1>5, <1>6, <1>7, <1>8, <1>9, <1>10, <1>11, <1>12, <1>13, <1>14, <1>15,
     <1>16
  DEF Next, Subscribe

\* No step but the one that makes a handler gives life to one.
LEMMA NoNewLife ==
  ASSUME SubscriptionsInv, [Next]_vars, NEW h \in Requests, Alive(h)'
  PROVE  Alive(h) \/ \E c \in Conns : FindHandler(c) /\ Shared(EventId(c)) = 0 /\ h = sub[c]
<1>t. /\ h # 0
      /\ ptr \in [Conns -> Requests \cup {0}]
      /\ Emitting => em \in [topic : Topics, todo : SUBSET Requests,
                             current : Requests \cup {0}, hdl : Conns \cup {NoConn},
                             got : [Sessions -> Nat]]
  BY DEF SubscriptionsInv, TypeOK, Emitting, Requests
<1> USE DEF clientVars, requestVars, handlerVars, eventVars, knownVars
<1>1. ASSUME \A p \in subs' : p[2] = h => Alive(h),
             \A c \in Conns : ptr'[c] = h => ptr[c] = h,
             em' # NoEmission /\ em'.current = h => Alive(h)
      PROVE  Alive(h)
  BY <1>1 DEF Alive
<1>2. UNCHANGED em => (em' # NoEmission /\ em'.current = h => Alive(h))
  BY DEF Alive
<1>3. subs' \subseteq subs => \A p \in subs' : p[2] = h => Alive(h)
  BY DEF Alive
<1>4. ASSUME NEW c \in Conns,
             \/ \E t \in Topics : ReceiveSubscribe(c, t)
             \/ \E t \in Topics : \E n \in Requests : ReceiveUnsubscribe(c, n, t)
             \/ Leave(c) \/ CloseHandler(c) \/ ConnectHandler(c)
             \/ RemoveHandler(c) \/ StoreConnection(c) \/ Reply(c) \/ ReplyError(c)
      PROVE  UNCHANGED <<ptr, em>> /\ subs' \subseteq subs
  BY <1>4
  DEF ReceiveSubscribe, ReceiveUnsubscribe, Leave, CloseHandler, ConnectHandler,
      RemoveHandler, StoreConnection, Reply, ReplyError
<1>5. ASSUME NEW c \in Conns,
             ObjectNotFound(c) \/ EventNotFound(c) \/ RememberHandler(c)
      PROVE  UNCHANGED <<em, subs>> /\ ptr' = [ptr EXCEPT ![c] = 0]
  BY <1>5 DEF ObjectNotFound, EventNotFound, RememberHandler, Throw
<1>6. ASSUME NEW c \in Conns, RegisterNew(c) \/ RegisterShared(c) PROVE Alive(h)
  <2>1. /\ UNCHANGED em /\ subs' = subs \cup {<<sub[c], ptr[c]>>}
        /\ ptr' = ptr \/ ptr' = [ptr EXCEPT ![c] = 0]
    BY <1>6 DEF RegisterNew, RegisterShared, WithSub
  <2>2. \A p \in subs' : p[2] = h => Alive(h)
    BY <2>1 DEF Alive
  <2>3. \A d \in Conns : ptr'[d] = h => ptr[d] = h
    BY <1>t, <2>1
  <2> QED
    BY <1>1, <1>2, <2>1, <2>2, <2>3
<1>7. ASSUME NEW c \in Conns, FindHandler(c), Shared(EventId(c)) # 0 PROVE Alive(h)
  <2>1. UNCHANGED <<em, subs>> /\ ptr' = [ptr EXCEPT ![c] = Shared(EventId(c))]
    BY <1>7 DEF FindHandler
  <2>2. Alive(Shared(EventId(c)))
    BY <1>7, SharedIsConnected DEF FindHandler
  <2>3. CASE h = Shared(EventId(c))
    BY <2>2, <2>3
  <2>4. CASE h # Shared(EventId(c))
    BY <1>1, <1>2, <1>3, <1>t, <2>1, <2>4
  <2> QED
    BY <2>3, <2>4
<1>8. ASSUME NEW c \in Conns, FindHandler(c), Shared(EventId(c)) = 0, h # sub[c]
      PROVE  Alive(h)
  <2>1. UNCHANGED <<em, subs>> /\ ptr' = [ptr EXCEPT ![c] = sub[c]]
    BY <1>8 DEF FindHandler
  <2> QED
    BY <1>1, <1>2, <1>3, <1>t, <1>8, <2>1
<1>9. ASSUME (\E k \in EventIds : Drop(k)) \/ UNCHANGED vars
      PROVE  UNCHANGED <<ptr, em>> /\ subs' \subseteq subs
  BY <1>9 DEF Drop, vars
<1>10. ASSUME \/ \E t \in Topics : Emit(t)
              \/ \E g \in Requests : CallHandler(g)
              \/ LookUp \/ Send \/ EmissionEnd
       PROVE  Alive(h)
  <2>1. UNCHANGED <<ptr, subs>>
    BY <1>10 DEF Emit, CallHandler, LookUp, Send, EmissionEnd
  <2>2. CASE \E g \in Requests : CallHandler(g)
    <3>1. em' # NoEmission /\ em'.current = h => Alive(h)
      BY <1>t, <2>2 DEF CallHandler
    <3> QED
      BY <1>1, <1>3, <2>1, <3>1
  <2>3. CASE (\E t \in Topics : Emit(t)) \/ LookUp \/ Send \/ EmissionEnd
    <3>1. em' # NoEmission /\ em'.current = h => Emitting /\ em.current = h
      <4>1. ASSUME NEW t \in Topics, Emit(t) PROVE em'.current = 0
        BY <4>1 DEF Emit
      <4>2. CASE LookUp
        BY <1>t, <4>2 DEF LookUp, Calling, Emitting
      <4>3. CASE Send
        BY <1>t, <4>3 DEF Send, Emitting
      <4>4. CASE EmissionEnd
        BY <4>4 DEF EmissionEnd
      <4> QED
        BY <1>t, <2>3, <4>1, <4>2, <4>3, <4>4
    <3>2. em' # NoEmission /\ em'.current = h => Alive(h)
      BY <3>1 DEF Alive, Emitting
    <3> QED
      BY <1>1, <1>3, <2>1, <3>2
  <2> QED
    BY <1>10, <2>2, <2>3
<1>11. (UNCHANGED <<ptr, em>> /\ subs' \subseteq subs) => Alive(h)
  BY <1>1, <1>2, <1>3
<1>12. ASSUME NEW c \in Conns, UNCHANGED <<em, subs>>, ptr' = [ptr EXCEPT ![c] = 0]
       PROVE  Alive(h)
  BY <1>1, <1>2, <1>3, <1>12, <1>t
<1> QED
  BY <1>4, <1>5, <1>6, <1>7, <1>8, <1>9, <1>10, <1>11, <1>12 DEF Next, Subscribe

\* A handler that dies is replaced only when a subscription asks for its event
\* again, and the one that is being made is remembered before it is shared.
LEMMA AliveStep == SubscriptionsInv /\ [Next]_vars => OneAlive'
<1> SUFFICES ASSUME SubscriptionsInv, [Next]_vars PROVE OneAlive'
  OBVIOUS
<1>0. LockHeld /\ NumbersFresh /\ HandlersMade /\ OneAlive /\ HandlersMade'
  BY MadeStep DEF SubscriptionsInv
<1>t. /\ pc \in [Conns -> {"idle", "find", "connect", "register", "remember", "share",
                           "remove", "store", "reply", "refuse"}]
      /\ ptr \in [Conns -> Requests \cup {0}]
      /\ handlers \in [EventIds -> Requests \cup {0}]
      /\ home \in [Requests -> EventIds \cup {<<>>}]
      /\ \A k \in EventIds : handlers[k] # 0 => home[handlers[k]] = k
      /\ \A k \in EventIds : k # <<>>
      /\ \A c \in Conns : EventId(c) \in EventIds
  BY EventIdsTyped DEF SubscriptionsInv, TypeOK
<1>h. /\ \A h \in Requests : home[h] # <<>> => home'[h] = home[h]
      /\ \A c \in Conns : pc'[c] \in Locked => EventId(c)' = EventId(c)
  BY HomesStay
<1>m. \A h \in Requests : Alive(h) => home[h] \in EventIds
  <2>1. ASSUME NEW h \in Requests, Alive(h) PROVE home[h] \in EventIds
    <3>1. CASE h \in connected
      BY <1>0, <3>1 DEF HandlersMade
    <3>2. CASE \E c \in Conns : ptr[c] = h
      BY <1>0, <1>t, <3>2 DEF HandlersMade, LockHeld, Requests
    <3>3. h \in connected \/ \E c \in Conns : ptr[c] = h
      BY <1>0, <2>1 DEF Alive, HandlersMade, Emitting, Requests
    <3> QED
      BY <3>1, <3>2, <3>3
  <2> QED
    BY <2>1
<1> USE DEF clientVars, requestVars, handlerVars, eventVars, knownVars
<1>1. ASSUME NEW c \in Conns, FindHandler(c) PROVE OneAlive'
  <2>1. /\ UNCHANGED handlers /\ pc[c] = "find"
        /\ \A d \in Conns : pc[d] \notin Locked
        /\ \A d \in Conns \ {c} : pc'[d] = pc[d]
    BY <1>t, <1>0, <1>1, NobodyLocks DEF FindHandler
  <2>2. \A h \in Requests : Alive(h) => handlers[home[h]] = h
    BY <1>0, <2>1 DEF OneAlive, Making, Locked
  <2>3. CASE Shared(EventId(c)) # 0
    <3>1. \A h \in Requests : Alive(h)' => Alive(h)
      <4>1. ASSUME NEW h \in Requests, Alive(h)' PROVE Alive(h)
        <5>1. ASSUME NEW d \in Conns, FindHandler(d), Shared(EventId(d)) = 0 PROVE FALSE
          <6>1. pc'[c] = "share" /\ pc'[d] = "connect"
            BY <1>t, <1>1, <2>3, <5>1 DEF FindHandler
          <6>2. pc'[d] # pc[d] /\ pc'[c] # pc[c]
            BY <2>1, <6>1, <5>1 DEF FindHandler
          <6> QED
            BY <2>1, <6>1, <6>2
        <5> QED
          BY <4>1, <5>1, NoNewLife
      <4> QED
        BY <4>1
    <3>2. pc'[c] = "share"
      BY <1>t, <1>1, <2>3 DEF FindHandler
    <3> QED
      BY <1>h, <1>m, <1>t, <2>1, <2>2, <3>1, <3>2 DEF OneAlive, Making, Locked
  <2>4. CASE Shared(EventId(c)) = 0
    <3>1. pc'[c] = "connect" /\ ptr' = [ptr EXCEPT ![c] = sub[c]]
      BY <1>t, <1>1, <2>4 DEF FindHandler
    <3>2. \A h \in Requests : Alive(h)' => Alive(h) \/ h = sub[c]
      <4>1. ASSUME NEW h \in Requests, Alive(h)' PROVE Alive(h) \/ h = sub[c]
        <5>1. ASSUME NEW d \in Conns, FindHandler(d) PROVE d = c
          <6>1. pc'[d] # pc[d]
            BY <1>t, <5>1 DEF FindHandler
          <6> QED
            BY <2>1, <6>1
        <5> QED
          BY <4>1, <5>1, NoNewLife
      <4> QED
        BY <4>1
    <3>3. home[sub[c]] = <<>>
      BY <1>0, <1>1 DEF NumbersFresh, Asking, FindHandler
    <3>4. ASSUME NEW h \in Requests, Alive(h)'
          PROVE  handlers'[home'[h]] = h \/ \E d \in Conns : pc'[d] \in Making /\ ptr'[d] = h
      <4>1. CASE h = sub[c]
        BY <1>t, <3>1, <4>1 DEF Making
      <4>2. CASE Alive(h)
        BY <1>h, <1>m, <1>t, <2>1, <2>2, <4>2
      <4> QED
        BY <3>2, <3>4, <4>1, <4>2
    <3>5. ASSUME handlers[EventId(c)] # 0 PROVE ~Alive(handlers[EventId(c)])'
      <4>1. ~Alive(handlers[EventId(c)])
        BY <2>4, <3>5 DEF Shared
      <4>2. handlers[EventId(c)] \in Requests /\ handlers[EventId(c)] # sub[c]
        BY <1>t, <3>3, <3>5
      <4> DEFINE g == handlers[EventId(c)]
      <4>3. \A h \in Requests : Alive(h)' /\ h # sub[c] => Alive(h)
        BY <3>2
      <4>4. UNCHANGED g
        BY <2>1, <1>1 DEF FindHandler, EventId
      <4> QED
        BY <4>1, <4>2, <4>3, <4>4 DEF Alive
    <3>6. EventId(c)' = EventId(c)
      BY <1>h, <3>1 DEF Locked
    <3> QED
      BY <2>1, <3>4, <3>5, <3>6 DEF OneAlive, Making, Locked
  <2> QED
    BY <2>3, <2>4
<1>2. ASSUME NEW c \in Conns, RememberHandler(c) PROVE OneAlive'
  <2> DEFINE k == EventId(c)
  <2>1. /\ pc[c] = "remember" /\ handlers' = [handlers EXCEPT ![k] = ptr[c]]
        /\ pc'[c] = "store"
        /\ UNCHANGED home
    BY <1>t, <1>2 DEF RememberHandler
  <2>2. \A d \in Conns \ {c} : pc[d] \notin Locked /\ pc'[d] \notin Locked
    BY <1>0, <1>t, <1>2, <2>1, OneLocks DEF RememberHandler, Locked
  <2>3. \A h \in Requests : Alive(h)' => Alive(h)
    <3>1. \A d \in Conns : ~FindHandler(d)
      <4>1. ASSUME NEW d \in Conns, FindHandler(d) PROVE FALSE
        BY <1>0, <2>1, <4>1, NobodyLocks DEF FindHandler, Locked
      <4> QED
        BY <4>1
    <3> QED
      BY <3>1, NoNewLife
  <2>4. home[ptr[c]] = k /\ (handlers[k] # 0 => ~Alive(handlers[k]))
    BY <1>0, <2>1 DEF HandlersMade, OneAlive, Locked, Making
  <2>5. ASSUME NEW h \in Requests, Alive(h) PROVE handlers'[home[h]] = h
    <3>1. CASE h = ptr[c]
      BY <1>t, <2>1, <2>4, <3>1
    <3>2. CASE h # ptr[c]
      <4>1. handlers[home[h]] = h
        BY <1>0, <2>1, <2>2, <2>5, <3>2 DEF OneAlive, Making, Locked
      <4>2. home[h] # k
        BY <2>4, <2>5, <4>1 DEF Requests
      <4> QED
        BY <1>t, <1>m, <2>1, <2>5, <4>1, <4>2
    <3> QED
      BY <3>1, <3>2
  <2> QED
    BY <2>1, <2>2, <2>3, <2>5 DEF OneAlive, Making, Locked
<1>3. ASSUME \A c \in Conns : ~FindHandler(c) /\ ~RememberHandler(c) PROVE OneAlive'
  <2>1. \A h \in Requests : Alive(h)' => Alive(h)
    BY <1>3, NoNewLife
  <2>2. ASSUME NEW d \in Conns,
               \/ \E t \in Topics : ReceiveSubscribe(d, t)
               \/ \E t \in Topics : \E n \in Requests : ReceiveUnsubscribe(d, n, t)
               \/ RemoveHandler(d) \/ StoreConnection(d) \/ Reply(d) \/ ReplyError(d)
        PROVE  /\ UNCHANGED <<handlers, home, ptr>>
               /\ \A c \in Conns : pc'[c] \in Making <=> pc[c] \in Making
    BY <1>t, <2>2
    DEF ReceiveSubscribe, ReceiveUnsubscribe, RemoveHandler, StoreConnection, Reply,
        ReplyError, Making
  <2>3. ASSUME NEW d \in Conns,
               \/ ObjectNotFound(d) \/ ConnectHandler(d) \/ RegisterNew(d)
               \/ RegisterShared(d)
        PROVE  /\ UNCHANGED <<handlers, home>>
               /\ \A c \in Conns : /\ pc'[c] \in Making <=> pc[c] \in Making
                                   /\ pc[c] \in Making => ptr'[c] = ptr[c]
    BY <1>t, <2>3
    DEF ObjectNotFound, ConnectHandler, Throw, RegisterNew, RegisterShared, Making
  <2>4. ASSUME NEW d \in Conns, EventNotFound(d)
        PROVE  /\ UNCHANGED <<handlers, home>>
               /\ \A c \in Conns : pc'[c] \in Making => pc[c] \in Making
               /\ \A c \in Conns \ {d} : pc'[c] = pc[c] /\ ptr'[c] = ptr[c]
               /\ \A h \in Requests : h = ptr[d] => ~Alive(h)'
    <3>1. /\ pc[d] = "connect" /\ ptr' = [ptr EXCEPT ![d] = 0]
          /\ UNCHANGED <<subs, em, handlers, home>>
          /\ pc' = [pc EXCEPT ![d] = "refuse"]
      BY <2>4 DEF EventNotFound, Throw
    <3>2. ptr[d] \notin connected /\ ptr[d] # 0
      BY <1>0, <3>1 DEF HandlersMade, LockHeld, Locked
    <3>3. \A c \in Conns \ {d} : ptr[c] = 0
      BY <1>0, <3>1, OneLocks DEF LockHeld, Locked
    <3>4. /\ \A p \in subs : p[2] # ptr[d]
          /\ em # NoEmission => em.current # ptr[d]
      BY <1>0, <3>2 DEF HandlersMade, Emitting
    <3>5. ASSUME NEW h \in Requests, h = ptr[d] PROVE ~Alive(h)'
      BY <1>t, <3>1, <3>2, <3>3, <3>4, <3>5 DEF Alive
    <3> QED
      BY <1>t, <3>1, <3>5 DEF Making
  <2>5. ASSUME \/ \E d \in Conns : Leave(d) \/ CloseHandler(d)
               \/ \E k \in EventIds : Drop(k)
               \/ \E t \in Topics : Emit(t)
               \/ \E h \in Requests : CallHandler(h)
               \/ LookUp \/ Send \/ EmissionEnd \/ UNCHANGED vars
        PROVE  UNCHANGED <<handlers, home, pc, ptr>>
    BY <2>5
    DEF Leave, CloseHandler, Drop, Emit, CallHandler, LookUp, Send, EmissionEnd, vars
  <2>6. /\ UNCHANGED <<handlers, home>>
        /\ \A c \in Conns : pc'[c] \in Making => pc[c] \in Making
        /\ \A h \in Requests : Alive(h)' =>
             \A c \in Conns : pc[c] \in Making /\ ptr[c] = h =>
               pc'[c] \in Making /\ ptr'[c] = h
    <3>1. CASE \E d \in Conns : EventNotFound(d)
      <4>1. PICK d \in Conns : EventNotFound(d)
        BY <3>1
      <4>2. /\ UNCHANGED <<handlers, home>>
            /\ \A c \in Conns : pc'[c] \in Making => pc[c] \in Making
            /\ \A c \in Conns \ {d} : pc'[c] = pc[c] /\ ptr'[c] = ptr[c]
            /\ \A h \in Requests : h = ptr[d] => ~Alive(h)'
        BY <2>4, <4>1
      <4> QED
        BY <4>2
    <3>2. CASE ~\E d \in Conns : EventNotFound(d)
      BY <1>3, <2>2, <2>3, <2>5, <3>2 DEF Next, Subscribe
    <3> QED
      BY <3>1, <3>2
  <2>7. \A h \in Requests : Alive(h)' =>
          handlers[home[h]] = h \/ \E c \in Conns : pc'[c] \in Making /\ ptr'[c] = h
    BY <1>0, <2>1, <2>6 DEF OneAlive
  <2>8. ASSUME NEW c \in Conns, pc'[c] \in Making, handlers[EventId(c)] # 0
        PROVE  ~Alive(handlers[EventId(c)])'
    <3> DEFINE g == handlers[EventId(c)]
    <3>1. ~Alive(g) /\ g \in Requests
      BY <1>0, <1>t, <2>6, <2>8 DEF OneAlive
    <3>2. UNCHANGED g
      BY <1>h, <2>6, <2>8 DEF Making, Locked
    <3>3. \A h \in Requests : Alive(h)' => Alive(h)
      BY <2>1
    <3> QED
      BY <3>1, <3>2, <3>3 DEF Alive
  <2>9. \A c \in Conns : pc'[c] \in Making => EventId(c)' = EventId(c)
    BY <1>h DEF Making, Locked
  <2> QED
    BY <2>6, <2>7, <2>8, <2>9 DEF OneAlive
<1> QED
  BY <1>1, <1>2, <1>3

-----------------------------------------------------------------------------
(* Subscriptions                                                           *)

\* MediaSet's pointers come and go with the subscriptions.
LEMMA SubsStep == SubscriptionsInv /\ [Next]_vars => SubsAreDue'
<1> SUFFICES ASSUME SubscriptionsInv, [Next]_vars PROVE SubsAreDue'
  OBVIOUS
<1>0. LockHeld /\ NumbersFresh /\ HandlersMade /\ SubsAreDue
  BY DEF SubscriptionsInv
<1>t. /\ home \in [Requests -> EventIds \cup {<<>>}]
      /\ connected \subseteq Requests
      /\ subs \subseteq Requests \X Requests
      /\ due \subseteq Requests \X EventIds
      /\ \A k \in EventIds : k # <<>>
      /\ \A c \in Conns : EventId(c) \in EventIds
  BY EventIdsTyped DEF SubscriptionsInv, TypeOK
<1>h. \A h \in connected : home'[h] = home[h] /\ home[h] \in EventIds
  BY <1>0, <1>t, HomesStay DEF HandlersMade
<1>s. \A p \in subs : home'[p[2]] = home[p[2]]
  BY <1>0, <1>h DEF HandlersMade
<1> USE DEF clientVars, requestVars, handlerVars, eventVars, knownVars
<1>1. ASSUME UNCHANGED <<subs, due>> PROVE SubsAreDue'
  BY <1>0, <1>1, <1>s DEF SubsAreDue
<1>2. ASSUME NEW c \in Conns, RegisterNew(c) \/ RegisterShared(c) PROVE SubsAreDue'
  <2> DEFINE n == sub[c]
             h == ptr[c]
             k == EventId(c)
  <2>1. /\ pc[c] \in Locked /\ pc[c] \in Asking /\ pc[c] # "connect"
        /\ subs' = subs \cup {<<n, h>>} /\ due' = due \cup {<<n, k>>}
    BY <1>2 DEF RegisterNew, RegisterShared, WithSub, Locked, Asking
  <2>2. home'[h] = k
    BY <1>0, <1>h, <2>1 DEF HandlersMade
  <2>3. \A d \in due : d[1] # n
    BY <1>0, <2>1 DEF NumbersFresh
  <2> HIDE DEF n, h, k
  <2>4. \A p \in subs' : <<p[1], home'[p[2]]>> \in due'
    BY <1>0, <1>s, <2>1, <2>2 DEF SubsAreDue
  <2>5. \A d \in due' : \E p \in subs' : p[1] = d[1]
    <3>1. ASSUME NEW d \in due PROVE \E p \in subs' : p[1] = d[1]
      BY <1>0, <2>1, <3>1 DEF SubsAreDue
    <3>2. <<n, h>> \in subs' /\ <<n, h>>[1] = <<n, k>>[1]
      BY <2>1
    <3> QED
      BY <2>1, <3>1, <3>2
  <2>6. \A d, e \in due' : d[1] = e[1] => d = e
    BY <1>0, <2>1, <2>3 DEF SubsAreDue
  <2> QED
    BY <2>4, <2>5, <2>6 DEF SubsAreDue
<1>3. ASSUME NEW c \in Conns, RemoveHandler(c) PROVE SubsAreDue'
  <2>1. /\ subs' = {p \in subs : p[1] # sub[c]}
        /\ due' = {d \in due : d[1] # sub[c]}
    BY <1>3 DEF RemoveHandler
  <2>2. \A p \in subs' : <<p[1], home'[p[2]]>> \in due'
    BY <1>0, <1>s, <2>1 DEF SubsAreDue
  <2>3. \A d \in due' : \E p \in subs' : p[1] = d[1]
    BY <1>0, <2>1 DEF SubsAreDue
  <2>4. \A d, e \in due' : d[1] = e[1] => d = e
    BY <1>0, <2>1 DEF SubsAreDue
  <2> QED
    BY <2>2, <2>3, <2>4 DEF SubsAreDue
<1>4. ASSUME NEW k \in EventIds, Drop(k) PROVE SubsAreDue'
  <2> DEFINE gone == {d[1] : d \in {x \in due : x[2] = k}}
  <2>1. /\ subs' = {p \in subs : p[1] \notin gone}
        /\ due' = {d \in due : d[2] # k}
    BY <1>4 DEF Drop
  <2>2. \A d \in due : d[1] \in gone <=> d[2] = k
    BY <1>0 DEF SubsAreDue
  <2>3. \A p \in subs' : <<p[1], home'[p[2]]>> \in due'
    <3>1. ASSUME NEW p \in subs' PROVE <<p[1], home'[p[2]]>> \in due'
      <4>1. p \in subs /\ p[1] \notin gone /\ home'[p[2]] = home[p[2]]
        BY <1>s, <2>1
      <4>2. <<p[1], home[p[2]]>> \in due
        BY <1>0, <4>1 DEF SubsAreDue
      <4> QED
        BY <2>1, <2>2, <4>1, <4>2
    <3> QED
      BY <3>1
  <2>4. \A d \in due' : \E p \in subs' : p[1] = d[1]
    BY <1>0, <2>1, <2>2 DEF SubsAreDue
  <2>5. \A d, e \in due' : d[1] = e[1] => d = e
    BY <1>0, <2>1 DEF SubsAreDue
  <2> QED
    BY <2>3, <2>4, <2>5 DEF SubsAreDue
<1>5. ASSUME NEW c \in Conns,
             \/ \E t \in Topics : ReceiveSubscribe(c, t)
             \/ \E t \in Topics : \E n \in Requests : ReceiveUnsubscribe(c, n, t)
             \/ Leave(c) \/ CloseHandler(c) \/ ObjectNotFound(c) \/ FindHandler(c)
             \/ ConnectHandler(c) \/ EventNotFound(c) \/ RememberHandler(c)
             \/ StoreConnection(c) \/ Reply(c) \/ ReplyError(c)
      PROVE  UNCHANGED <<subs, due>>
  BY <1>5
  DEF ReceiveSubscribe, ReceiveUnsubscribe, Leave, CloseHandler, ObjectNotFound,
      FindHandler, ConnectHandler, EventNotFound, RememberHandler, StoreConnection, Reply,
      ReplyError
<1>6. ASSUME \/ \E t \in Topics : Emit(t)
             \/ \E h \in Requests : CallHandler(h)
             \/ LookUp \/ Send \/ EmissionEnd \/ UNCHANGED vars
      PROVE  UNCHANGED <<subs, due>>
  BY <1>6 DEF Emit, CallHandler, LookUp, Send, EmissionEnd, vars
<1> QED
  BY <1>1, <1>2, <1>3, <1>4, <1>5, <1>6 DEF Next, Subscribe

-----------------------------------------------------------------------------
(* Emissions                                                               *)

\* Living handlers that objects know are of different event ids.
LEMMA OneLiving ==
  ASSUME SubscriptionsInv, NEW h \in connected, NEW g \in connected,
         Alive(h), Alive(g), home[h] = home[g]
  PROVE  h = g
<1>0. LockHeld /\ HandlersMade /\ OneAlive /\ connected \subseteq Requests
  BY DEF SubscriptionsInv, TypeOK
<1> DEFINE k == home[h]
<1>1. \A x \in {h, g} : \/ handlers[k] = x
                        \/ \E c \in Conns : pc[c] \in Making /\ ptr[c] = x
  BY <1>0 DEF OneAlive
<1>2. ASSUME NEW c \in Conns, NEW x \in {h, g}, pc[c] \in Making, ptr[c] = x
      PROVE  \A y \in {h, g} : handlers[k] # y
  <2>1. EventId(c) = k
    BY <1>0, <1>2 DEF HandlersMade, Making, Locked
  <2> QED
    BY <1>0, <1>2, <2>1 DEF OneAlive, Requests
<1>3. \A c, d \in Conns : pc[c] \in Making /\ pc[d] \in Making => c = d
  BY <1>0, OneLocks DEF Making, Locked
<1> QED
  BY <1>1, <1>2, <1>3

\* An emission calls one handler of each session, and each once.
LEMMA SessionsStep == SubscriptionsInv /\ [Next]_vars => SessionsOnce'
<1> SUFFICES ASSUME SubscriptionsInv, [Next]_vars PROVE SessionsOnce'
  OBVIOUS
<1>0. HandlersMade /\ SessionsOnce
  BY DEF SubscriptionsInv
<1>t. /\ home \in [Requests -> EventIds \cup {<<>>}]
      /\ connected \subseteq Requests
      /\ \A k \in EventIds : k # <<>> /\ k[1] \in Sessions /\ k[2] \in Topics
  BY EventIdsTyped DEF SubscriptionsInv, TypeOK
<1>e. ASSUME Emitting
      PROVE  em \in [topic : Topics, todo : SUBSET Requests, current : Requests \cup {0},
                     hdl : Conns \cup {NoConn}, got : [Sessions -> Nat]]
  BY <1>e DEF SubscriptionsInv, TypeOK, Emitting
<1>h. \A h \in connected : home'[h] = home[h] /\ home[h] \in EventIds
  BY <1>0, <1>t, HomesStay DEF HandlersMade
<1>p. Emitting => Pending \subseteq connected /\ \A h \in Pending : home'[h] = home[h]
  BY <1>0, <1>h DEF HandlersMade, Pending
<1> USE DEF clientVars, requestVars, handlerVars, eventVars, knownVars
<1>1. ASSUME UNCHANGED em PROVE SessionsOnce'
  BY <1>0, <1>1, <1>p DEF SessionsOnce, Emitting, Pending
<1>2. ASSUME NEW t \in Topics, Emit(t) PROVE SessionsOnce'
  <2>1. /\ em'.todo \subseteq {h \in connected : Alive(h) /\ home[h][2] = t}
        /\ em'.current = 0
        /\ em'.got = [s \in Sessions |-> 0]
        /\ UNCHANGED home
    BY <1>2 DEF Emit
  <2>2. Pending' \subseteq em'.todo /\ em'.current \notin em'.todo
    BY <1>t, <2>1 DEF Pending, Requests
  <2>3. ASSUME NEW h \in em'.todo, NEW g \in em'.todo, home[h][1] = home[g][1]
        PROVE  h = g
    <3>1. /\ h \in connected /\ g \in connected /\ Alive(h) /\ Alive(g)
          /\ home[h][2] = home[g][2]
      BY <2>1
    <3>2. home[h] = home[g]
      BY <1>h, <2>3, <3>1 DEF EventIds
    <3> QED
      BY <3>1, <3>2, OneLiving
  <2>4. \A h \in em'.todo : em'.got[home'[h][1]] = 0
    BY <1>h, <1>t, <2>1
  <2>5. \A s \in Sessions : em'.got[s] <= 1
    BY <2>1
  <2> QED
    BY <2>1, <2>2, <2>3, <2>4, <2>5 DEF SessionsOnce
<1>3. ASSUME NEW h \in Requests, CallHandler(h) PROVE SessionsOnce'
  <2>1. /\ Emitting /\ h \in em.todo /\ em'.todo = em.todo \ {h}
        /\ em'.current \in {h, 0} /\ em'.got = em.got
    BY <1>3, <1>e DEF CallHandler
  <2>2. Pending' \subseteq Pending /\ em'.current \notin em'.todo
    BY <1>e, <2>1 DEF Pending, Requests
  <2> QED
    BY <1>0, <1>p, <2>1, <2>2 DEF SessionsOnce
<1>4. CASE LookUp
  <2>1. /\ Emitting /\ em'.todo = em.todo
        /\ em'.current \in {em.current, 0} /\ em'.got = em.got
    BY <1>4, <1>e DEF LookUp, Calling, Emitting
  <2>2. Pending' \subseteq Pending /\ em'.current \notin em'.todo
    BY <1>0, <1>e, <2>1 DEF Pending, Requests, SessionsOnce
  <2> QED
    BY <1>0, <1>p, <2>1, <2>2 DEF SessionsOnce
<1>5. CASE Send
  <2> DEFINE s == home[em.current][1]
             n == em.got[s]
             m == IF em.hdl \in left THEN n ELSE n + 1
  <2>1. Emitting /\ em.current # 0
    BY <1>0, <1>5 DEF Send, HandlersMade
  <2>2. /\ em'.todo = em.todo /\ em'.current = 0
        /\ em'.got = [em.got EXCEPT ![s] = m]
        /\ UNCHANGED home
    BY <1>5, <1>e, <2>1 DEF Send
  <2>3. em.current \in Pending /\ em.current \notin em.todo
    BY <1>0, <2>1 DEF Pending, SessionsOnce
  <2>4. n = 0
    BY <1>0, <2>1, <2>3 DEF SessionsOnce
  <2>5. m \in {0, 1}
    BY <2>4
  <2>6. em.got \in [Sessions -> Nat]
    BY <1>e, <2>1
  <2> HIDE DEF m
  <2>7. Pending' \subseteq em.todo /\ Pending' \subseteq Pending /\ 0 \notin em.todo
    BY <1>e, <2>1, <2>2 DEF Pending, Requests
  <2>8. \A h \in em.todo : home[h][1] # s
    BY <1>0, <2>1, <2>3 DEF SessionsOnce, Pending
  <2>9. \A x \in Sessions : em'.got[x] = IF x = s THEN m ELSE em.got[x]
    BY <2>2, <2>6
  <2>10. \A h \in Pending' : em'.got[home'[h][1]] = 0
    <3>1. ASSUME NEW h \in Pending' PROVE em'.got[home'[h][1]] = 0
      <4>1. h \in em.todo /\ h \in Pending /\ h \in connected
        BY <1>p, <2>1, <2>7
      <4>2. home[h][1] \in Sessions /\ home[h][1] # s
        BY <1>h, <1>t, <2>8, <4>1
      <4>3. em.got[home[h][1]] = 0
        BY <1>0, <2>1, <4>1 DEF SessionsOnce
      <4> QED
        BY <2>2, <2>9, <4>2, <4>3
    <3> QED
      BY <3>1
  <2>11. \A x \in Sessions : em'.got[x] <= 1
    BY <1>0, <2>1, <2>5, <2>9 DEF SessionsOnce
  <2>12. \A h, g \in Pending' : home'[h][1] = home'[g][1] => h = g
    BY <1>0, <2>1, <2>2, <2>7 DEF SessionsOnce
  <2> QED
    BY <2>2, <2>7, <2>10, <2>11, <2>12 DEF SessionsOnce
<1>6. CASE EmissionEnd
  BY <1>6 DEF EmissionEnd, SessionsOnce, Emitting
<1>7. ASSUME NEW c \in Conns,
             \/ \E t \in Topics : ReceiveSubscribe(c, t)
             \/ \E t \in Topics : \E n \in Requests : ReceiveUnsubscribe(c, n, t)
             \/ Leave(c) \/ CloseHandler(c) \/ ObjectNotFound(c) \/ FindHandler(c)
             \/ ConnectHandler(c) \/ EventNotFound(c) \/ RegisterNew(c)
             \/ RememberHandler(c) \/ RegisterShared(c) \/ RemoveHandler(c)
             \/ StoreConnection(c) \/ Reply(c) \/ ReplyError(c)
      PROVE  UNCHANGED em
  BY <1>7
  DEF ReceiveSubscribe, ReceiveUnsubscribe, Leave, CloseHandler, ObjectNotFound,
      FindHandler, ConnectHandler, EventNotFound, RegisterNew, RememberHandler,
      RegisterShared, RemoveHandler, StoreConnection, Reply, ReplyError
<1>8. ASSUME (\E k \in EventIds : Drop(k)) \/ UNCHANGED vars PROVE UNCHANGED em
  BY <1>8 DEF Drop, vars
<1> QED
  BY <1>1, <1>2, <1>3, <1>4, <1>5, <1>6, <1>7, <1>8 DEF Next, Subscribe

-----------------------------------------------------------------------------
(* Sessions                                                                *)

\* Of the connections of a session whose clients are there, one sent requests.
LEMMA OneActive ==
  ASSUME HeardLast, NEW c \in Conns \ left, NEW d \in Conns \ left,
         SessionOf[c] = SessionOf[d],
         pc[c] # "idle" \/ c \in answered, pc[d] # "idle" \/ d \in answered
  PROVE  c = d
BY ClientsAssumption DEF HeardLast

\* Nobody but a slow handler takes a session from the connection that was heard.
LEMMA HeardStep == SubscriptionsInv /\ [Next]_vars => HeardLast'
<1> SUFFICES ASSUME SubscriptionsInv, [Next]_vars PROVE HeardLast'
  OBVIOUS
<1>0. HeardLast
  BY DEF SubscriptionsInv
<1>t. /\ registry \in [Sessions -> Conns \cup {NoConn}]
      /\ left \subseteq Conns /\ departed \subseteq left
      /\ pc \in [Conns -> {"idle", "find", "connect", "register", "remember", "share",
                           "remove", "store", "reply", "refuse"}]
      /\ answered \subseteq Conns /\ stolen \subseteq Sessions
      /\ SessionOf \in [Conns -> Sessions]
  BY ClientsAssumption DEF SubscriptionsInv, TypeOK
<1> USE DEF clientVars, requestVars, handlerVars, eventVars, knownVars
<1>1. ASSUME /\ left \subseteq left' /\ UNCHANGED <<registry, stolen, answered>>
             /\ \A c \in Conns :
                  /\ pc'[c] # "idle" => pc[c] # "idle" \/ Before[c] \subseteq left
                  /\ pc'[c] = "reply" => pc[c] = "reply"
      PROVE  HeardLast'
  BY <1>0, <1>1 DEF HeardLast
<1>2. ASSUME NEW c \in Conns, CloseHandler(c) PROVE HeardLast'
  <2>1. /\ UNCHANGED <<left, pc, stolen, answered>> /\ c \in left
        /\ \A s \in Sessions : registry[s] # c => registry'[s] = registry[s]
    BY <1>t, <1>2 DEF CloseHandler, Registry!Depart, Registry!Without
  <2> QED
    BY <1>0, <1>t, <2>1 DEF HeardLast
<1>3. ASSUME NEW c \in Conns, StoreConnection(c) PROVE HeardLast'
  <2> DEFINE s == SessionOf[c]
  <2>1. /\ pc[c] = "store" /\ pc' = [pc EXCEPT ![c] = "reply"]
        /\ stolen' = IF c \in left THEN stolen \cup {s} ELSE stolen \ {s}
        /\ UNCHANGED <<left, answered>>
    BY <1>3 DEF StoreConnection
  <2>2. /\ registry'[s] \in {c, registry[s]} /\ (c \notin left => registry'[s] = c)
        /\ \A r \in Sessions : r # s /\ registry[r] # c => registry'[r] = registry[r]
    BY <1>t, <1>3 DEF StoreConnection, Stored, Registry!Take, Registry!Without
  <2>3. \A d \in Conns : pc'[d] # "idle" \/ d \in answered' => Before[d] \subseteq left'
    BY <1>0, <1>t, <2>1 DEF HeardLast
  <2>4. ASSUME NEW d \in Conns, pc'[d] = "reply" \/ d \in answered', d \notin left'
        PROVE  registry'[SessionOf[d]] = d \/ SessionOf[d] \in stolen'
    <3>1. CASE d = c
      BY <2>1, <2>2, <2>4, <3>1
    <3>2. CASE d # c /\ SessionOf[d] = s
      <4>1. c \in left
        BY <1>0, <1>t, <2>1, <2>4, <3>2, OneActive
      <4> QED
        BY <2>1, <3>2, <4>1
    <3>3. CASE d # c /\ SessionOf[d] # s
      BY <1>0, <1>t, <2>1, <2>2, <2>4, <3>3 DEF HeardLast
    <3> QED
      BY <3>1, <3>2, <3>3
  <2> QED
    BY <2>3, <2>4 DEF HeardLast
<1>4. ASSUME NEW c \in Conns, Reply(c) PROVE HeardLast'
  <2>1. /\ pc[c] = "reply" /\ pc' = [pc EXCEPT ![c] = "idle"]
        /\ answered' \subseteq answered \cup {c}
        /\ UNCHANGED <<left, registry, stolen>>
    BY <1>4 DEF Reply
  <2> QED
    BY <1>0, <1>t, <2>1 DEF HeardLast
<1>5. ASSUME NEW c \in Conns,
             \/ \E t \in Topics : ReceiveSubscribe(c, t)
             \/ \E t \in Topics : \E n \in Requests : ReceiveUnsubscribe(c, n, t)
      PROVE  HeardLast'
  <2>1. /\ Present(c) /\ UNCHANGED <<left, registry, stolen, answered>>
        /\ \E x \in {"find", "remove"} : pc' = [pc EXCEPT ![c] = x]
    BY <1>5 DEF ReceiveSubscribe, ReceiveUnsubscribe
  <2> QED
    BY <1>1, <1>t, <2>1 DEF Present
<1>6. ASSUME NEW c \in Conns,
             \/ ObjectNotFound(c) \/ FindHandler(c) \/ ConnectHandler(c)
             \/ EventNotFound(c) \/ RegisterNew(c) \/ RememberHandler(c)
             \/ RegisterShared(c) \/ RemoveHandler(c) \/ ReplyError(c)
      PROVE  HeardLast'
  <2>1. /\ pc[c] # "idle" /\ UNCHANGED <<left, registry, stolen, answered>>
        /\ \E x \in {"idle", "connect", "register", "remember", "share", "store",
                     "refuse"} : pc' = [pc EXCEPT ![c] = x]
    BY <1>6
    DEF ObjectNotFound, FindHandler, ConnectHandler, EventNotFound, Throw, RegisterNew,
        RememberHandler, RegisterShared, RemoveHandler, ReplyError
  <2> QED
    BY <1>1, <1>t, <2>1
<1>7. ASSUME NEW c \in Conns, Leave(c) PROVE HeardLast'
  BY <1>1, <1>7 DEF Leave
<1>8. ASSUME \/ \E k \in EventIds : Drop(k)
             \/ \E t \in Topics : Emit(t)
             \/ \E h \in Requests : CallHandler(h)
             \/ LookUp \/ Send \/ EmissionEnd \/ UNCHANGED vars
      PROVE  HeardLast'
  BY <1>1, <1>8 DEF Drop, Emit, CallHandler, LookUp, Send, EmissionEnd, vars
<1> QED
  BY <1>2, <1>3, <1>4, <1>5, <1>6, <1>7, <1>8 DEF Next, Subscribe

-----------------------------------------------------------------------------
(* The theorems                                                            *)

\* At first no client asked for anything, and there is no handler.
LEMMA InitInv == Init => SubscriptionsInv
<1> SUFFICES ASSUME Init PROVE SubscriptionsInv
  OBVIOUS
<1>1. TypeOK
  <2>1. (CHOOSE t \in Topics : TRUE) \in Topics
    BY ClientsAssumption
  <2> QED
    BY <2>1, BoundsAssumption DEF Init, Registry!Init, TypeOK
<1>2. LockHeld /\ NumbersFresh
  BY DEF Init, LockHeld, NumbersFresh, Locked, Asking
<1>3. HandlersMade /\ SubsAreDue /\ SessionsOnce
  BY DEF Init, HandlersMade, SubsAreDue, SessionsOnce, Emitting, Locked
<1>4. OneAlive
  BY DEF Init, OneAlive, Alive, Making, Requests
<1>5. HeardLast
  BY DEF Init, HeardLast
<1> QED
  BY <1>1, <1>2, <1>3, <1>4, <1>5 DEF SubscriptionsInv

\* The invariant is inductive.
LEMMA StepInv == SubscriptionsInv /\ [Next]_vars => SubscriptionsInv'
BY TypeStep, LockStep, NumbersStep, MadeStep, AliveStep, SubsStep, SessionsStep, HeardStep
DEF SubscriptionsInv

\* It holds in every reachable state.
LEMMA Invariance == Spec => []SubscriptionsInv
BY InitInv, StepInv, PTL DEF Spec

\* The variables have their types: a handler that the transport remembers for an
\* event id was made for it.
THEOREM TypeCorrect == Spec => []TypeOK
<1>1. SubscriptionsInv => TypeOK
  BY DEF SubscriptionsInv
<1> QED
  BY <1>1, Invariance, PTL

\* However processSubscription, unsubscribe and an emission interleave, a client
\* gets an event once.
THEOREM EventsOnce == Spec => []OncePerSession
<1>1. SubscriptionsInv => OncePerSession
  BY DEF SubscriptionsInv, SessionsOnce, OncePerSession
<1> QED
  BY <1>1, Invariance, PTL

\* Handlers that subscriptions share live as long as one of these does.
THEOREM SubscribersConnected == Spec => []SubscribedIsConnected
<1>1. ASSUME SubscriptionsInv PROVE SubscribedIsConnected
  <2>1. HandlersMade /\ SubsAreDue
    BY <1>1 DEF SubscriptionsInv
  <2>2. ASSUME NEW d \in due
        PROVE  \E h \in connected : Alive(h) /\ home[h] = d[2]
    <3>1. PICK p \in subs : p[1] = d[1]
      BY <2>1 DEF SubsAreDue
    <3>2. p[2] \in connected /\ Alive(p[2])
      BY <2>1 DEF HandlersMade, Alive
    <3>3. <<p[1], home[p[2]]>> = d
      BY <2>1, <3>1 DEF SubsAreDue
    <3>4. home[p[2]] = d[2]
      BY <3>3
    <3> QED
      BY <3>2, <3>4
  <2> QED
    BY <2>2 DEF SubscribedIsConnected
<1> QED
  BY <1>1, Invariance, PTL

\* The events of a session go to the connection of its client's last response.
THEOREM AnsweredHeard == Spec => []AnsweredIsHeard
<1>1. ASSUME SubscriptionsInv PROVE AnsweredIsHeard
  BY <1>1 DEF SubscriptionsInv, HeardLast, TypeOK, AnsweredIsHeard
<1> QED
  BY <1>1, Invariance, PTL

\* An object calls no handler whose subscriptions were all taken back.
THEOREM UnsubscribedSilent == Spec => SilentAfterUnsubscribe
<1> DEFINE Silent == (em = NoEmission /\ em' # NoEmission) =>
                       \A h \in em'.todo : \/ \E d \in due : d[2] = home[h]
                                          \/ \E c \in Conns : ptr[c] = h
<1>1. ASSUME SubscriptionsInv, [Next]_vars PROVE [Silent]_vars
  <2> USE DEF clientVars, requestVars, handlerVars, eventVars, knownVars
  <2>1. ASSUME NEW t \in Topics, Emit(t) PROVE Silent
    <3>1. ASSUME NEW h \in em'.todo
          PROVE  \/ \E d \in due : d[2] = home[h]
                 \/ \E c \in Conns : ptr[c] = h
      <4>1. em = NoEmission /\ Alive(h)
        BY <2>1 DEF Emit
      <4>2. CASE \E c \in Conns : ptr[c] = h
        BY <4>2
      <4>3. ASSUME NEW p \in subs, p[2] = h PROVE \E d \in due : d[2] = home[h]
        <5>1. <<p[1], home[h]>> \in due
          BY <1>1, <4>3 DEF SubscriptionsInv, SubsAreDue
        <5>2. <<p[1], home[h]>>[2] = home[h]
          OBVIOUS
        <5> QED
          BY <5>1, <5>2
      <4> QED
        BY <4>1, <4>2, <4>3 DEF Alive
    <3> QED
      BY <3>1
  <2>2. ASSUME \/ \E h \in Requests : CallHandler(h)
               \/ LookUp \/ Send \/ EmissionEnd
        PROVE  em # NoEmission
    BY <2>2 DEF CallHandler, LookUp, Calling, Send, EmissionEnd, Emitting
  <2>3. ASSUME NEW c \in Conns,
               \/ \E t \in Topics : ReceiveSubscribe(c, t)
               \/ \E t \in Topics : \E n \in Requests : ReceiveUnsubscribe(c, n, t)
               \/ Leave(c) \/ CloseHandler(c) \/ ObjectNotFound(c) \/ FindHandler(c)
               \/ ConnectHandler(c) \/ EventNotFound(c) \/ RegisterNew(c)
               \/ RememberHandler(c) \/ RegisterShared(c) \/ RemoveHandler(c)
               \/ StoreConnection(c) \/ Reply(c) \/ ReplyError(c)
        PROVE  UNCHANGED em
    BY <2>3
    DEF ReceiveSubscribe, ReceiveUnsubscribe, Leave, CloseHandler, ObjectNotFound,
        FindHandler, ConnectHandler, EventNotFound, RegisterNew, RememberHandler,
        RegisterShared, RemoveHandler, StoreConnection, Reply, ReplyError
  <2>4. ASSUME (\E k \in EventIds : Drop(k)) \/ UNCHANGED vars PROVE UNCHANGED em
    BY <2>4 DEF Drop, vars
  <2> QED
    BY <1>1, <2>1, <2>2, <2>3, <2>4 DEF Next, Subscribe
<1> QED
  BY <1>1, Invariance, PTL DEF Spec, SilentAfterUnsubscribe

-----------------------------------------------------------------------------
(* The registry of sessions                                                *)

\* A connection departs only when its handler is idle, and no message of it is read
\* afterwards: the strand of websocketpp.
DepartedIdle == \A c \in departed : pc[c] = "idle"

\* No operation brings the handler of a departed connection back to work.
LEMMA DepartedStep == TypeOK /\ DepartedIdle /\ [Next]_vars => DepartedIdle'
<1> SUFFICES ASSUME TypeOK, DepartedIdle, [Next]_vars PROVE DepartedIdle'
  OBVIOUS
<1>t. departed \subseteq left /\ departed \subseteq Conns /\ DOMAIN pc = Conns
  BY DEF TypeOK
<1> USE DEF DepartedIdle, clientVars, requestVars, eventVars, knownVars
<1>1. ASSUME NEW c \in Conns, CloseHandler(c) PROVE DepartedIdle'
  BY <1>1 DEF CloseHandler, Registry!Depart
<1>2. ASSUME NEW c \in Conns, NEW t \in Topics,
             ReceiveSubscribe(c, t) \/ \E n \in Requests : ReceiveUnsubscribe(c, n, t)
      PROVE  DepartedIdle'
  BY <1>2, <1>t DEF ReceiveSubscribe, ReceiveUnsubscribe, Present
<1>3. ASSUME NEW c \in Conns, Subscribe(c) \/ RemoveHandler(c) PROVE DepartedIdle'
  BY <1>3, <1>t
  DEF Subscribe, ObjectNotFound, FindHandler, ConnectHandler, EventNotFound, RegisterNew,
      RememberHandler, RegisterShared, RemoveHandler, Throw
<1>4. ASSUME NEW c \in Conns, StoreConnection(c) PROVE DepartedIdle'
  BY <1>4, <1>t DEF StoreConnection, Stored, Registry!Take
<1>5. ASSUME NEW c \in Conns, Reply(c) \/ ReplyError(c) PROVE DepartedIdle'
  BY <1>5, <1>t DEF Reply, ReplyError
<1>6. ASSUME \/ \E c \in Conns : Leave(c)
             \/ \E k \in EventIds : Drop(k)
             \/ \E t \in Topics : Emit(t)
             \/ \E h \in Requests : CallHandler(h)
             \/ LookUp \/ Send \/ EmissionEnd
             \/ UNCHANGED vars
      PROVE  DepartedIdle'
  BY <1>6 DEF Leave, Drop, Emit, CallHandler, LookUp, Send, EmissionEnd, vars
<1> QED
  BY <1>1, <1>2, <1>3, <1>4, <1>5, <1>6 DEF Next

\* The registry never refuses a session to a handler that stores one: the guard of
\* SessionRegistry's Take, which storeConnection does not have, is not what keeps a
\* slow handler from storing the session of a client that left.
THEOREM StoreNeverRefused ==
  Spec => [](\A c \in Conns : pc[c] = "store" => c \notin departed)
<1>1. Init => DepartedIdle
  BY DEF Init, Registry!Init, DepartedIdle
<1>2. DepartedIdle => \A c \in Conns : pc[c] = "store" => c \notin departed
  BY DEF DepartedIdle
<1> QED
  BY <1>1, <1>2, DepartedStep, TypeCorrect, PTL DEF Spec

\* Between them, closeHandler and storeConnection behave as the registry that
\* WebSocketTransport implements, and nothing that subscribe, unsubscribe or an
\* event does moves a session.
THEOREM RunsOnRegistry == Spec => Registry!Spec
<1>1. Init => Registry!Init
  BY DEF Init
<1>2. [Next]_vars => [Registry!Next]_(Registry!vars)
  <2> SUFFICES ASSUME [Next]_vars PROVE [Registry!Next]_(Registry!vars)
    OBVIOUS
  <2> USE DEF clientVars
  <2>1. ASSUME NEW c \in Conns, CloseHandler(c) PROVE Registry!Next
    BY <2>1 DEF CloseHandler, Registry!Next
  <2>2. ASSUME NEW c \in Conns, StoreConnection(c) PROVE Registry!Next
    <3>1. SessionOf[c] \in Sessions
      BY ClientsAssumption
    <3> QED
      BY <2>2, <3>1 DEF StoreConnection, Stored, Registry!Next
  <2>3. ASSUME NEW c \in Conns,
               \/ Leave(c) \/ Subscribe(c) \/ RemoveHandler(c) \/ Reply(c)
               \/ ReplyError(c)
               \/ \E t \in Topics : \/ ReceiveSubscribe(c, t)
                                    \/ \E n \in Requests : ReceiveUnsubscribe(c, n, t)
        PROVE  UNCHANGED <<registry, departed>>
    BY <2>3
    DEF Leave, Subscribe, ObjectNotFound, FindHandler, ConnectHandler, EventNotFound,
        RegisterNew, RememberHandler, RegisterShared, RemoveHandler, Reply, ReplyError,
        ReceiveSubscribe, ReceiveUnsubscribe
  <2>4. ASSUME \/ \E k \in EventIds : Drop(k)
               \/ \E t \in Topics : Emit(t)
               \/ \E h \in Requests : CallHandler(h)
               \/ LookUp \/ Send \/ EmissionEnd
               \/ UNCHANGED vars
        PROVE  UNCHANGED <<registry, departed>>
    BY <2>4 DEF Drop, Emit, CallHandler, LookUp, Send, EmissionEnd, vars
  <2> QED
    BY <2>1, <2>2, <2>3, <2>4 DEF Next, Registry!vars
<1> QED
  BY <1>1, <1>2, PTL DEF Spec, Registry!Spec

=============================================================================
