------------------------ MODULE RequestCache_proofs ------------------------
(***************************************************************************)
(* Proofs about RequestCache, for any number of connections, sessions,     *)
(* request ids and executions.                                             *)
(***************************************************************************)
EXTENDS RequestCache, FiniteSetTheorems, TLAPS

\* A handler past the execution holds the response of an execution.
RespInv ==
  \A c \in Conns : pc[c] \in {"check", "add", "reply"} => resp[c] \in 1 .. execs

\* A response that postProcess may still cache is held by one handler and has
\* no entry yet; only an entry that was added has a timer.
FreshInv ==
  /\ \A c \in Conns : pc[c] \in {"check", "add"} =>
       /\ timer[resp[c]] = "none"
       /\ \A d \in Conns \ {c} : pc[d] \in {"check", "add"} => resp[d] # resp[c]
  /\ \A c \in Conns : pc[c] = "add" => keyOf[resp[c]] \in Keys
  /\ \A e \in Execs : timer[e] # "none" => e <= execs /\ keyOf[e] \in Keys

\* The callback that runs is that of a cached entry, and nobody is about to
\* replace this entry.
LoopInv ==
  /\ firing # None => timer[firing] = "fired" /\ AddIsPrompt(firing)
  /\ \A e \in Execs : timer[e] = "fired" => e = firing

IInv ==
  TypeOK /\ RespInv /\ FreshInv /\ LoopInv /\ TimersMatchCache

-----------------------------------------------------------------------------
\* The initial state satisfies the invariant.
LEMMA InitInv == Init => IInv
<1> SUFFICES ASSUME Init PROVE IInv
  OBVIOUS
<1>1. NoKey \in AnyKeys /\ NoKey[2] \in Ids
  BY IdsAssumption DEF NoKey, AnyKeys
<1>2. TypeOK
  <2>1. execs \in 0 .. MaxExecs
    BY ExecsAssumption DEF Init
  <2>2. /\ id \in [Conns -> Ids]
        /\ keyOf \in [Execs -> AnyKeys]
    BY <1>1 DEF Init
  <2> QED
    BY <2>1, <2>2 DEF Init, TypeOK
<1> QED
  BY <1>2 DEF Init, IInv, RespInv, FreshInv, LoopInv, TimersMatchCache, Execs, None

-----------------------------------------------------------------------------
(* The steps of the handlers                                               *)

\* The steps that touch neither the entries nor the responses held.
LEMMA QuietStep ==
  ASSUME IInv,
         \/ UNCHANGED vars
         \/ \E c \in Conns : Reconnect(c)
         \/ \E c \in Conns, i \in Ids, p \in known \cup {NoSession},
               s \in Sessions \cup {NoSession} : Receive(c, i, p, s)
  PROVE  IInv'
<1> USE DEF IInv, handlerVars, execVars, cacheVars, loopVars, historyVars
<1>1. CASE UNCHANGED vars
  BY <1>1 DEF vars, TypeOK, RespInv, FreshInv, LoopInv, TimersMatchCache, AddIsPrompt
<1>2. ASSUME NEW c \in Conns, Reconnect(c) PROVE IInv'
  BY <1>2 DEF Reconnect, TypeOK, RespInv, FreshInv, LoopInv, TimersMatchCache,
     AddIsPrompt
<1>3. ASSUME NEW c \in Conns, NEW i \in Ids, NEW p \in known \cup {NoSession},
             NEW s \in Sessions \cup {NoSession}, Receive(c, i, p, s)
      PROVE  IInv'
  <2>1. ASSUME NEW k PROVE Promised(c, k) \in Execs \cup {None}
    <3>1. CASE k \in Keys /\ Cardinality(answered[k]) = 1
      <4>1. answered[k] \in SUBSET Execs
        BY <3>1 DEF TypeOK
      <4>2. answered[k] # {}
        BY <3>1, FS_EmptySet
      <4> QED
        BY <4>1, <4>2, <3>1 DEF Promised
    <3>2. CASE ~(k \in Keys /\ Cardinality(answered[k]) = 1)
      BY <3>2 DEF Promised
    <3> QED
      BY <3>1, <3>2
  <2>2. TypeOK'
    BY <1>3, <2>1 DEF Receive, TypeOK
  <2> QED
    BY <1>3, <2>2 DEF Receive, TypeOK, RespInv, FreshInv, LoopInv,
       TimersMatchCache, AddIsPrompt
<1> QED
  BY <1>1, <1>2, <1>3

\* preProcess either answers with a cached response or goes on.
LEMMA PreProcessStep ==
  ASSUME IInv, NEW c \in Conns, PreProcess(c)
  PROVE  IInv'
<1> USE DEF IInv, handlerVars, execVars, cacheVars, loopVars, historyVars
<1>1. /\ Cached(Key(c)) \in Execs \cup {None}
      /\ Cached(Key(c)) # None => Cached(Key(c)) \in 1 .. execs
  BY ExecsAssumption DEF Cached, TypeOK, Keys, FreshInv, TimersMatchCache, Execs, None
<1>2. TypeOK'
  BY <1>1 DEF PreProcess, TypeOK
<1> QED
  BY <1>1, <1>2 DEF PreProcess, TypeOK, RespInv, FreshInv, LoopInv,
     TimersMatchCache, AddIsPrompt

\* The method makes a new response, which no entry holds.
LEMMA ExecuteStep ==
  ASSUME IInv, NEW c \in Conns, NEW s \in Sessions \cup {NoSession}, Execute(c, s)
  PROVE  IInv'
<1> USE ExecsAssumption
    DEF IInv, handlerVars, execVars, cacheVars, loopVars, historyVars, Execs, None
<1> DEFINE e == execs + 1
<1>1. /\ e \in Execs
      /\ execs' = e
      /\ keyOf' = [keyOf EXCEPT ![e] = CacheKey(c, s)]
      /\ resp' = [resp EXCEPT ![c] = e]
      /\ pc' = [pc EXCEPT ![c] = "check"]
      /\ UNCHANGED <<cache, timer, firing, timedout>>
  BY DEF Execute, TypeOK
<1>2. CacheKey(c, s) \in AnyKeys
  BY DEF CacheKey, Key, AnyKeys, TypeOK
<1>3. TypeOK'
  BY <1>1, <1>2 DEF Execute, TypeOK
<1>4. timer[e] = "none"
  BY <1>1 DEF FreshInv, TypeOK
<1>5. \A x \in Execs : timer[x] # "none" => x # e /\ keyOf'[x] = keyOf[x]
  BY <1>1, <1>4 DEF TypeOK
<1>6. \A d \in Conns \ {c} : pc[d] \in {"check", "add", "reply"} =>
        resp[d] # e /\ keyOf'[resp[d]] = keyOf[resp[d]]
  BY <1>1 DEF RespInv, TypeOK
<1>7. RespInv' /\ FreshInv'
  BY <1>1, <1>4, <1>5, <1>6 DEF RespInv, FreshInv, TypeOK
<1>8. LoopInv'
  BY <1>1, <1>5, <1>6 DEF LoopInv, AddIsPrompt, TypeOK
<1>9. TimersMatchCache'
  BY <1>1, <1>4, <1>5 DEF TimersMatchCache, TypeOK
<1> QED
  BY <1>3, <1>7, <1>8, <1>9

\* postProcess decides to add only when the key is not cached: then the callback
\* that may be running is not that of an entry with this key.
LEMMA CheckCacheStep ==
  ASSUME IInv, NEW c \in Conns, CheckCache(c)
  PROVE  IInv'
<1> USE ExecsAssumption
    DEF IInv, handlerVars, execVars, cacheVars, loopVars, historyVars, Execs, None
<1> DEFINE k == keyOf[resp[c]]
<1>1. resp[c] \in Execs
  BY DEF CheckCache, RespInv, TypeOK
<1>2. pc' = [pc EXCEPT ![c] = IF k \in Keys /\ cache[k] = None THEN "add" ELSE "reply"]
  BY DEF CheckCache, Cached
<1>3. UNCHANGED <<chan, id, sess, resp, execVars, known, cacheVars, loopVars,
                  historyVars>>
  BY DEF CheckCache
<1>4. TypeOK' /\ RespInv' /\ TimersMatchCache'
  BY <1>2, <1>3 DEF CheckCache, TypeOK, RespInv, TimersMatchCache
<1>5. FreshInv'
  BY <1>2, <1>3 DEF CheckCache, TypeOK, FreshInv
<1>6. LoopInv'
  <2>1. firing # None => cache[keyOf[firing]] = firing
    BY DEF TypeOK, LoopInv, TimersMatchCache
  <2> QED
    BY <1>2, <1>3, <2>1 DEF TypeOK, LoopInv, AddIsPrompt
<1> QED
  BY <1>4, <1>5, <1>6

\* addResponse destroys the source of the entry that it replaces, whose callback
\* does not run.
LEMMA AddResponseStep ==
  ASSUME IInv, NEW c \in Conns, AddResponse(c)
  PROVE  IInv'
<1> USE ExecsAssumption
    DEF IInv, handlerVars, execVars, cacheVars, loopVars, historyVars, Execs, None
<1> DEFINE e == resp[c]
           k == keyOf[e]
           old == cache[k]
<1>1. /\ pc[c] = "add"
      /\ e \in Execs
      /\ k \in Keys
      /\ timer[e] = "none"
  BY DEF AddResponse, RespInv, FreshInv, TypeOK
<1>2. /\ cache' = [cache EXCEPT ![k] = e]
      /\ timer' = [Destroyed(old, timer) EXCEPT ![e] = "armed"]
      /\ pc' = [pc EXCEPT ![c] = "reply"]
      /\ UNCHANGED <<chan, id, sess, resp, execVars, known, loopVars, historyVars>>
  BY DEF AddResponse
<1> HIDE DEF e, k
<1>3. old # None => old \in Execs /\ keyOf[old] = k /\ old # e /\ old # firing
  <2>1. old # None => old \in Execs /\ keyOf[old] = k /\ timer[old] # "none"
    BY <1>1 DEF TypeOK, TimersMatchCache
  <2>2. firing # None => keyOf[firing] # k
    BY <1>1 DEF LoopInv, AddIsPrompt, e, k
  <2> QED
    BY <1>1, <2>1, <2>2
<1>4. timer' = [x \in Execs |-> IF x = e THEN "armed"
                                ELSE IF x = old THEN "none"
                                ELSE timer[x]]
  <2>1. CASE old = None
    <3>1. timer' = [timer EXCEPT ![e] = "armed"]
      BY <1>2, <2>1 DEF Destroyed
    <3>2. \A x \in Execs : x # old
      BY <2>1
    <3> QED
      BY <1>1, <3>1, <3>2 DEF TypeOK
  <2>2. CASE old # None
    <3>1. old \in Execs /\ Destroyed(old, timer) = [timer EXCEPT ![old] = "none"]
      BY <1>3, <2>2 DEF Destroyed
    <3> QED
      BY <1>1, <1>2, <1>3, <3>1 DEF TypeOK
  <2> QED
    BY <2>1, <2>2
<1>5. TypeOK'
  BY <1>1, <1>2, <1>4 DEF TypeOK
<1>6. TimersMatchCache'
  <2>1. ASSUME NEW j \in Keys, cache'[j] # None
        PROVE  keyOf'[cache'[j]] = j /\ timer'[cache'[j]] # "none"
    <3>1. CASE j = k
      BY <1>1, <1>2, <1>4, <3>1 DEF TypeOK, k
    <3>2. CASE j # k
      <4>1. cache'[j] = cache[j] /\ cache[j] \in Execs /\ keyOf[cache[j]] = j
        BY <1>1, <1>2, <2>1, <3>2 DEF TypeOK, TimersMatchCache
      <4>2. timer[cache[j]] # "none" /\ cache[j] # e /\ cache[j] # old
        BY <1>1, <1>3, <4>1, <3>2 DEF TypeOK, TimersMatchCache, k
      <4> QED
        BY <1>2, <1>4, <4>1, <4>2
    <3> QED
      BY <3>1, <3>2
  <2>2. ASSUME NEW x \in Execs, timer'[x] # "none"
        PROVE  cache'[keyOf'[x]] = x
    <3>1. CASE x = e
      BY <1>1, <1>2, <3>1 DEF TypeOK, k
    <3>2. CASE x # e
      <4>1. timer[x] # "none" /\ x # old
        BY <1>4, <2>2, <3>2
      <4>2. cache[keyOf[x]] = x
        BY <4>1 DEF TimersMatchCache
      <4> QED
        BY <1>1, <1>2, <4>1, <4>2 DEF TypeOK
    <3> QED
      BY <3>1, <3>2
  <2> QED
    BY <2>1, <2>2 DEF TimersMatchCache
<1>7. RespInv'
  BY <1>1, <1>2 DEF RespInv, TypeOK
<1>8. FreshInv'
  <2>1. ASSUME NEW d \in Conns, pc'[d] \in {"check", "add"}
        PROVE  /\ timer'[resp'[d]] = "none"
               /\ \A b \in Conns \ {d} : pc'[b] \in {"check", "add"} =>
                    resp'[b] # resp'[d]
               /\ pc'[d] = "add" => keyOf'[resp'[d]] \in Keys
    <3>1. d # c /\ pc[d] = pc'[d] /\ resp[d] \in Execs
      BY <1>2, <2>1 DEF TypeOK, RespInv
    <3>2. resp[d] # e /\ timer[resp[d]] = "none"
      BY <1>1, <2>1, <3>1 DEF FreshInv, e
    <3>3. \A b \in Conns \ {d} : pc'[b] \in {"check", "add"} => resp'[b] # resp'[d]
      BY <1>2, <2>1, <3>1 DEF FreshInv, TypeOK
    <3> QED
      BY <1>2, <1>4, <2>1, <3>1, <3>2, <3>3 DEF FreshInv
  <2>2. \A x \in Execs : timer'[x] # "none" => x <= execs /\ keyOf[x] \in Keys
    BY <1>1, <1>4 DEF FreshInv, RespInv, TypeOK, e, k
  <2> QED
    BY <1>2, <2>1, <2>2 DEF FreshInv
<1>9. LoopInv'
  <2>1. \A x \in Execs : timer'[x] = "fired" => x = firing
    BY <1>4 DEF LoopInv
  <2>2. firing # None => timer'[firing] = "fired" /\ AddIsPrompt(firing)'
    BY <1>1, <1>2, <1>3, <1>4 DEF LoopInv, AddIsPrompt, TypeOK
  <2> QED
    BY <1>2, <2>1, <2>2 DEF LoopInv
<1> QED
  BY <1>5, <1>6, <1>7, <1>8, <1>9

\* The response leaves; the entries stay as they are.
LEMMA ReplyStep ==
  ASSUME IInv, NEW c \in Conns, Reply(c)
  PROVE  IInv'
<1> USE ExecsAssumption
    DEF IInv, handlerVars, execVars, cacheVars, loopVars, historyVars, Execs, None
<1>1. resp[c] \in Execs /\ names[resp[c]] \in Sessions \cup {NoSession}
  BY DEF Reply, RespInv, TypeOK
<1>3. chan' \in [Conns -> Sessions \cup {NoSession}]
  BY <1>1 DEF Reply, TypeOK
<1>4. answered' \in [Keys -> SUBSET Execs]
  BY <1>1 DEF Reply, TypeOK
<1>5. known' \in SUBSET Sessions
  BY <1>1 DEF Reply, TypeOK
<1>6. TypeOK'
  BY <1>3, <1>4, <1>5 DEF Reply, TypeOK
<1> QED
  BY <1>6 DEF Reply, TypeOK, RespInv, FreshInv, LoopInv, TimersMatchCache,
     AddIsPrompt

-----------------------------------------------------------------------------
(* The steps of the main loop                                              *)

\* A timer fires while no handler is about to replace its entry.
LEMMA TimerFiresStep ==
  ASSUME IInv, NEW e \in Execs, TimerFires(e)
  PROVE  IInv'
<1> USE ExecsAssumption
    DEF IInv, handlerVars, execVars, cacheVars, loopVars, historyVars, Execs, None
<1>1. TypeOK'
  BY DEF TimerFires, TypeOK
<1>2. RespInv' /\ TimersMatchCache'
  BY DEF TimerFires, TypeOK, RespInv, TimersMatchCache
<1>3. FreshInv'
  BY DEF TimerFires, TypeOK, FreshInv, RespInv
<1>4. LoopInv'
  BY DEF TimerFires, TypeOK, LoopInv, AddIsPrompt
<1> QED
  BY <1>1, <1>2, <1>3, <1>4

\* The callback sets timedout.
LEMMA TimerMarksStep ==
  ASSUME IInv, TimerMarks
  PROVE  IInv'
  BY DEF IInv, handlerVars, execVars, cacheVars, loopVars, historyVars, TimerMarks,
     TypeOK, RespInv, FreshInv, LoopInv, TimersMatchCache, AddIsPrompt

\* The slot erases the entry whose callback it is, and its source goes with it.
LEMMA TimerErasesStep ==
  ASSUME IInv, TimerErases
  PROVE  IInv' /\ cache[keyOf[firing]] = firing
<1> USE ExecsAssumption
    DEF IInv, handlerVars, execVars, cacheVars, loopVars, historyVars, Execs, None
<1> DEFINE k == keyOf[firing]
<1>1. firing \in Execs /\ k \in Keys /\ cache[k] = firing
  BY DEF TimerErases, TypeOK, LoopInv, FreshInv, TimersMatchCache
<1>2. /\ cache' = [cache EXCEPT ![k] = None]
      /\ timer' = [timer EXCEPT ![firing] = "none"]
      /\ firing' = None
      /\ UNCHANGED <<pc, resp, execs, keyOf>>
  BY <1>1 DEF TimerErases, Erased, Destroyed, TypeOK
<1>3. TypeOK'
  BY <1>1, <1>2 DEF TimerErases, TypeOK, Using, Busy
<1>4. RespInv' /\ FreshInv' /\ LoopInv'
  BY <1>1, <1>2 DEF TimerErases, TypeOK, RespInv, FreshInv, LoopInv
<1>5. TimersMatchCache'
  BY <1>1, <1>2 DEF TypeOK, TimersMatchCache, FreshInv
<1> QED
  BY <1>1, <1>3, <1>4, <1>5

-----------------------------------------------------------------------------
\* Every step keeps the invariant.
LEMMA InvStep == IInv /\ [Next]_vars => IInv'
  BY QuietStep, PreProcessStep, ExecuteStep, CheckCacheStep, AddResponseStep,
     ReplyStep, TimerFiresStep, TimerMarksStep, TimerErasesStep DEF Next

\* The invariant holds in every reachable state.
LEMMA AlwaysInv == Spec => []IInv
  BY InitInv, InvStep, PTL DEF Spec

\* The variables keep their types.
THEOREM TypeCorrect == Spec => []TypeOK
<1>1. IInv => TypeOK
  BY DEF IInv
<1> QED
  BY <1>1, AlwaysInv, PTL

\* Every cached entry has a source that will erase it, and every source belongs
\* to a cached entry, however duplicates race.
THEOREM TimersAlwaysMatch == Spec => []TimersMatchCache
<1>1. IInv => TimersMatchCache
  BY DEF IInv
<1> QED
  BY <1>1, AlwaysInv, PTL

\* The slot of a timeout destroys the entry that timed out and no other.
THEOREM TimeoutErasesItself == Spec => ErasesItself
<1>1. IInv /\ [Next]_vars => (TimerErases => cache[keyOf[firing]] = firing)
  BY TimerErasesStep
<1> QED
  BY <1>1, AlwaysInv, PTL DEF Spec, ErasesItself

-----------------------------------------------------------------------------
(* Retries                                                                 *)

\* The handlers that hold a response.
Responding == {c \in Conns : pc[c] \in {"check", "add", "reply"}}

\* Those whose request had no session and whose response names a new one.
Opening == {c \in Responding : sess[c] = NoSession /\ names[resp[c]] # NoSession}

\* Requests are about sessions that clients know, and a session that a response is
\* about to tell a client is known to nobody.
SessionsInv ==
  /\ \A c \in Conns : chan[c] \in known \cup {NoSession} /\ sess[c] \in known \cup {NoSession}
  /\ known \subseteq Issued
  /\ \A k \in Keys : answered[k] # {} => k[1] \in known
  /\ \A c \in Opening :
       /\ names[resp[c]] \notin known
       /\ \A d \in Opening : names[resp[d]] = names[resp[c]] => d = c

\* The key under which postProcess caches a response is that for which its client
\* may retry.
KeysInv ==
  /\ \A e \in 1 .. execs : names[e] # NoSession => keyOf[e][1] = names[e]
  /\ \A c \in Responding :
       /\ keyOf[resp[c]] = AnswerKey(c, resp[c])
       /\ c \notin Opening => keyOf[resp[c]] = Key(c)

\* What was answered for a key since it expired is cached, or another response
\* is that some handler has yet to answer.
AnswersInv ==
  /\ \A c \in late : pc[c] \in {"idle", "reply"}
  /\ \A k \in Keys : answered[k] # {} => cache[k] # None
  /\ \A c \in Conns \ late : pc[c] = "reply" /\ keyOf[resp[c]] \in Keys =>
       cache[keyOf[resp[c]]] # None
  /\ \A k \in Keys : cache[k] # None =>
       \/ cache[k] \in answered[k]
       \/ \E c \in Conns \ late : pc[c] = "reply" /\ resp[c] = cache[k]

\* Some handler will answer key k with a new response.
Computing(k) ==
  \E d \in Conns : \/ pc[d] = "exec" /\ Key(d) = k
                   \/ pc[d] \in {"check", "add"} /\ keyOf[resp[d]] = k

\* The promised answer is cached until the handler has it, and nobody is about
\* to replace it.
PromiseInv ==
  \A c \in Conns : promise[c] # None =>
    /\ pc[c] \in {"pre", "reply"}
    /\ Key(c) \in Keys
    /\ pc[c] = "pre" => cache[Key(c)] = promise[c] /\ ~Computing(Key(c))
    /\ pc[c] = "reply" => resp[c] = promise[c]

RetryInv == IInv /\ SessionsInv /\ KeysInv /\ AnswersInv /\ PromiseInv

\* What the invariant says of one state's types, for the steps below.
LEMMA RetryTypes ==
  ASSUME RetryInv
  PROVE  /\ chan \in [Conns -> Sessions \cup {NoSession}]
         /\ pc \in [Conns -> {"idle", "pre", "exec", "check", "add", "reply"}]
         /\ id \in [Conns -> Ids]
         /\ sess \in [Conns -> Sessions \cup {NoSession}]
         /\ resp \in [Conns -> Execs \cup {None}]
         /\ execs \in Nat
         /\ names \in [Execs -> Sessions \cup {NoSession}]
         /\ keyOf \in [Execs -> AnyKeys]
         /\ known \subseteq Sessions
         /\ cache \in [Keys -> Execs \cup {None}]
         /\ answered \in [Keys -> SUBSET Execs]
         /\ promise \in [Conns -> Execs \cup {None}]
         /\ late \subseteq Conns
         /\ \A c \in Responding : resp[c] \in Execs /\ resp[c] \in 1 .. execs
         /\ NoSession \notin Sessions
         /\ None \notin Execs
BY SessionAssumption, ExecsAssumption
DEF RetryInv, IInv, TypeOK, RespInv, Responding, Execs, None

\* At first nothing was answered.
LEMMA RetryInit == Init => RetryInv
BY InitInv, ExecsAssumption
DEF Init, RetryInv, SessionsInv, KeysInv, AnswersInv, PromiseInv, Issued, Opening,
    Responding, None

-----------------------------------------------------------------------------
(* One lemma for each operation                                            *)

\* A new connection has no session.
LEMMA RetryReconnect ==
  ASSUME RetryInv, NEW c \in Conns, Reconnect(c)
  PROVE  SessionsInv' /\ KeysInv' /\ AnswersInv' /\ PromiseInv'
<1> USE DEF handlerVars, execVars, cacheVars, loopVars, historyVars, RetryInv
<1>1. SessionsInv'
  BY RetryTypes DEF Reconnect, SessionsInv, Issued, Opening, Responding
<1>2. KeysInv' /\ AnswersInv' /\ PromiseInv'
  BY DEF Reconnect, KeysInv, AnswersInv, PromiseInv, Opening, Responding, AnswerKey, Key,
         Computing
<1> QED
  BY <1>1, <1>2

\* A key that was answered once and that nobody else is busy with: its answer is
\* cached, and nobody is about to replace it.
LEMMA PromiseHolds ==
  ASSUME RetryInv, NEW c \in Conns, pc[c] = "idle", NEW k \in AnyKeys,
         Promised(c, k) # None
  PROVE  k \in Keys /\ cache[k] = Promised(c, k) /\ ~Computing(k)
<1>1. /\ k \in Keys
      /\ \A d \in Busy \ {c} : Key(d) # k
      /\ Cardinality(answered[k]) = 1
      /\ Promised(c, k) = CHOOSE r \in answered[k] : TRUE
  BY DEF Promised
<1>2. PICK r : answered[k] = {r}
  <2>1. answered[k] \subseteq Execs /\ IsFiniteSet(Execs)
    BY RetryTypes, <1>1, ExecsAssumption, FS_Interval DEF Execs
  <2>2. IsFiniteSet(answered[k])
    BY <2>1, FS_Subset
  <2> QED
    BY <1>1, <2>2, FS_Singleton
<1>3. Promised(c, k) = r
  BY <1>1, <1>2
<1>4. \A d \in Conns : pc[d] # "idle" => Key(d) # k
  BY <1>1 DEF Busy
<1>5. ASSUME NEW d \in Responding PROVE keyOf[resp[d]] # k
  <2>1. pc[d] # "idle" /\ d \in Conns
    BY DEF Responding
  <2>2. CASE d \notin Opening
    BY <1>4, <2>1, <2>2 DEF RetryInv, KeysInv
  <2>3. CASE d \in Opening
    <3>1. keyOf[resp[d]][1] \notin known
      BY <2>3, RetryTypes DEF RetryInv, KeysInv, SessionsInv, Opening
    <3>2. k[1] \in known
      BY <1>1, <1>2 DEF RetryInv, SessionsInv
    <3> QED
      BY <3>1, <3>2
  <2> QED
    BY <2>2, <2>3
<1>6. ~Computing(k)
  BY <1>4, <1>5 DEF Computing, Responding
<1>7. cache[k] # None /\ keyOf[cache[k]] = k
  BY <1>1, <1>2 DEF RetryInv, AnswersInv, IInv, TimersMatchCache
<1>8. cache[k] \in answered[k]
  BY <1>1, <1>5, <1>7 DEF RetryInv, AnswersInv, Responding
<1> QED
  BY <1>1, <1>2, <1>3, <1>6, <1>8

\* A request that arrives is given a promise that is true.
LEMMA RetryReceive ==
  ASSUME RetryInv, NEW c \in Conns, NEW i \in Ids, NEW p \in known \cup {NoSession},
         NEW s \in Sessions \cup {NoSession}, Receive(c, i, p, s)
  PROVE  SessionsInv' /\ KeysInv' /\ AnswersInv' /\ PromiseInv'
<1>1. /\ pc[c] = "idle"
      /\ pc' = [pc EXCEPT ![c] = "pre"]
      /\ id' = [id EXCEPT ![c] = i]
      /\ sess' = [sess EXCEPT ![c] = s]
      /\ promise' = [promise EXCEPT ![c] = Promised(c, <<s, i>>)]
      /\ late' = late \ {c}
      /\ UNCHANGED <<chan, resp, execs, names, keyOf, known, cache, answered>>
  BY DEF Receive, execVars, cacheVars
<1>2. s \in known \cup {NoSession} /\ <<s, i>> \in AnyKeys
  <2>1. s \in {p, chan[c], NoSession}
    BY DEF Receive, Injected
  <2> QED
    BY <2>1, RetryTypes DEF RetryInv, SessionsInv, AnyKeys
<1>3. /\ \A d \in Conns \ {c} : pc'[d] = pc[d] /\ sess'[d] = sess[d] /\ id'[d] = id[d]
                                /\ promise'[d] = promise[d]
      /\ pc'[c] = "pre" /\ sess'[c] = s /\ id'[c] = i
      /\ promise'[c] = Promised(c, <<s, i>>)
  BY <1>1, RetryTypes
<1>4. Responding' = Responding /\ c \notin Responding
  BY <1>1, <1>3 DEF Responding
<1>5. Opening' = Opening
  BY <1>1, <1>3, <1>4 DEF Opening, Responding
<1>6. SessionsInv'
  BY <1>1, <1>2, <1>3, <1>5, <1>4 DEF RetryInv, SessionsInv, Issued
<1>7. KeysInv'
  <2>1. \A d \in Responding :
          /\ resp'[d] = resp[d] /\ Key(d)' = Key(d)
          /\ AnswerKey(d, resp[d])' = AnswerKey(d, resp[d])
    BY <1>1, <1>3, <1>4 DEF AnswerKey, Key, Responding
  <2>2. UNCHANGED <<execs, names, keyOf>>
    BY <1>1
  <2>3. KeysInv
    BY DEF RetryInv
  <2>4. \A d \in Responding : AnswerKey(d, resp[d])' = AnswerKey(d, resp[d])
    BY <2>1
  <2> QED
    BY <1>4, <1>5, <2>1, <2>2, <2>3, <2>4 DEF KeysInv
<1>8. AnswersInv'
  <2>1. \A d \in late' : pc'[d] \in {"idle", "reply"}
    BY <1>1, <1>3, RetryTypes DEF RetryInv, AnswersInv
  <2>2. \A d \in Conns \ late' : pc'[d] = "reply" => d \in Conns \ late /\ pc[d] = "reply"
    BY <1>1, <1>3
  <2>3. \A d \in Conns \ late : pc[d] = "reply" => d \in Conns \ late' /\ pc'[d] = "reply"
    BY <1>1, <1>3
  <2> QED
    BY <1>1, <2>1, <2>2, <2>3 DEF RetryInv, AnswersInv
<1>9. PromiseInv'
  <2>1. \A k : Computing(k)' => Computing(k)
    BY <1>1, <1>3 DEF Computing, Key
  <2>2. ASSUME promise'[c] # None
        PROVE  /\ Key(c)' \in Keys /\ cache'[Key(c)'] = promise'[c]
               /\ ~Computing(<<s, i>>)
    BY <1>1, <1>2, <1>3, <2>2, PromiseHolds DEF Key
  <2>3. \A d \in Conns \ {c} : Key(d)' = Key(d)
    BY <1>3 DEF Key
  <2>4. Key(c)' = <<s, i>>
    BY <1>3 DEF Key
  <2>5. ASSUME NEW d \in Conns, promise'[d] # None
        PROVE  /\ pc'[d] \in {"pre", "reply"}
               /\ Key(d)' \in Keys
               /\ pc'[d] = "pre" => cache'[Key(d)'] = promise'[d] /\ ~Computing(Key(d))'
               /\ pc'[d] = "reply" => resp'[d] = promise'[d]
    <3>1. CASE d = c
      BY <1>3, <2>1, <2>2, <2>4, <2>5, <3>1
    <3>2. CASE d # c
      <4>1. promise[d] # None /\ pc'[d] = pc[d] /\ Key(d)' = Key(d)
        BY <1>3, <2>3, <2>5, <3>2
      <4> QED
        BY <1>1, <1>3, <2>1, <3>2, <4>1 DEF RetryInv, PromiseInv
    <3> QED
      BY <3>1, <3>2
  <2> QED
    BY <2>5 DEF PromiseInv
<1> QED
  BY <1>6, <1>7, <1>8, <1>9

\* A cached response is what was promised, and its key is that of the request.
LEMMA RetryPreProcess ==
  ASSUME RetryInv, NEW c \in Conns, PreProcess(c)
  PROVE  SessionsInv' /\ KeysInv' /\ AnswersInv' /\ PromiseInv'
<1> DEFINE k == Key(c)
           r == Cached(k)
<1>1. /\ pc[c] = "pre"
      /\ resp' = [resp EXCEPT ![c] = r]
      /\ pc' = [pc EXCEPT ![c] = IF r = None THEN "exec" ELSE "reply"]
      /\ UNCHANGED <<chan, id, sess, execs, names, keyOf, known, cache, answered,
                     promise, late>>
  BY DEF PreProcess, execVars, cacheVars, historyVars
<1>2. r # None => /\ k \in Keys /\ r = cache[k] /\ keyOf[r] = k /\ r \in 1 .. execs
                  /\ sess[c] # NoSession
  <2>1. ASSUME r # None
        PROVE  /\ k \in Keys /\ r = cache[k] /\ keyOf[r] = k
    BY <2>1 DEF Cached, RetryInv, IInv, TimersMatchCache
  <2>2. ASSUME r # None PROVE r \in 1 .. execs
    BY <2>1, <2>2, RetryTypes, ExecsAssumption
       DEF RetryInv, IInv, TimersMatchCache, FreshInv, Execs
  <2>3. ASSUME r # None PROVE sess[c] # NoSession
    BY <2>1, <2>3, RetryTypes DEF Keys, Key
  <2> QED
    BY <2>1, <2>2, <2>3
<1> HIDE DEF k, r
<1>3. /\ \A d \in Conns \ {c} : pc'[d] = pc[d] /\ resp'[d] = resp[d]
      /\ pc'[c] = (IF r = None THEN "exec" ELSE "reply") /\ resp'[c] = r
  BY <1>1, RetryTypes
<1>4. Responding' = IF r = None THEN Responding ELSE Responding \cup {c}
  BY <1>1, <1>3 DEF Responding
<1>5. Opening' = Opening /\ c \notin Opening
  BY <1>1, <1>2, <1>3, <1>4 DEF Opening, Responding
<1>6. SessionsInv'
  <2>1. \A d \in Opening : resp'[d] = resp[d]
    BY <1>3, <1>5 DEF Opening, Responding
  <2> QED
    BY <1>1, <1>5, <2>1 DEF RetryInv, SessionsInv, Issued
<1>7. KeysInv'
  <2>1. ASSUME NEW d \in Responding'
        PROVE  /\ keyOf'[resp'[d]] = AnswerKey(d, resp[d])'
               /\ d \notin Opening' => keyOf'[resp'[d]] = Key(d)'
    <3>1. CASE d = c
      <4>1. r # None /\ keyOf[r] = k /\ resp'[c] = r
        BY <1>1, <1>2, <1>3, <1>4, <2>1, <3>1 DEF Responding
      <4>2. names[r] # NoSession => names[r] = sess[c]
        BY <1>2, <4>1 DEF RetryInv, KeysInv, Key, k
      <4> QED
        BY <1>1, <3>1, <4>1, <4>2 DEF AnswerKey, Key, k
    <3>2. CASE d # c
      <4>1. d \in Responding /\ resp'[d] = resp[d]
        BY <1>3, <1>4, <2>1, <3>2 DEF Responding
      <4> QED
        BY <1>1, <1>5, <4>1 DEF RetryInv, KeysInv, AnswerKey, Key
    <3> QED
      BY <3>1, <3>2
  <2> QED
    BY <1>1, <2>1 DEF RetryInv, KeysInv
<1>8. AnswersInv'
  <2>1. c \notin late
    BY <1>1 DEF RetryInv, AnswersInv
  <2>2. \A d \in Conns : pc[d] = "reply" => d # c /\ pc'[d] = "reply" /\ resp'[d] = resp[d]
    BY <1>1, <1>3
  <2>3. \A d \in Conns : pc'[d] = "reply" => d = c \/ pc[d] = "reply"
    BY <1>3
  <2>4. pc'[c] = "reply" => keyOf[resp'[c]] = k /\ cache[k] # None
    BY <1>2, <1>3
  <2>5. \A d \in late : pc'[d] \in {"idle", "reply"}
    BY <1>3, <2>1, RetryTypes DEF RetryInv, AnswersInv
  <2>6. AnswersInv
    BY DEF RetryInv
  <2>7. \A j \in Keys : answered'[j] # {} => cache'[j] # None
    BY <1>1, <2>6 DEF AnswersInv
  <2>8. \A d \in Conns \ late' : pc'[d] = "reply" /\ keyOf'[resp'[d]] \in Keys =>
          cache'[keyOf'[resp'[d]]] # None
    BY <1>1, <2>2, <2>3, <2>4, <2>6 DEF AnswersInv
  <2>9. \A j \in Keys : cache'[j] # None =>
          \/ cache'[j] \in answered'[j]
          \/ \E d \in Conns \ late' : pc'[d] = "reply" /\ resp'[d] = cache'[j]
    BY <1>1, <2>2, <2>6 DEF AnswersInv
  <2> QED
    BY <1>1, <2>5, <2>7, <2>8, <2>9 DEF AnswersInv
<1>9. PromiseInv'
  <2>1. \A j \in Keys : cache[j] # None /\ ~Computing(j) => ~Computing(j)'
    <3>1. ASSUME NEW j \in Keys, cache[j] # None, ~Computing(j), NEW d \in Conns
          PROVE  /\ pc'[d] = "exec" => Key(d)' # j
                 /\ pc'[d] \in {"check", "add"} => keyOf'[resp'[d]] # j
      <4>1. Key(d)' = Key(d)
        BY <1>1 DEF Key
      <4>2. d = c /\ pc'[d] = "exec" => Key(c) # j
        BY <1>3, <3>1 DEF r, k, Cached
      <4> QED
        BY <1>1, <1>3, <3>1, <4>1, <4>2 DEF Computing
    <3> QED
      BY <3>1 DEF Computing
  <2>2. \A d \in Conns : Key(d)' = Key(d)
    BY <1>1 DEF Key
  <2>3. ASSUME NEW d \in Conns, promise'[d] # None
        PROVE  /\ pc'[d] \in {"pre", "reply"}
               /\ Key(d)' \in Keys
               /\ pc'[d] = "pre" => cache'[Key(d)'] = promise'[d] /\ ~Computing(Key(d))'
               /\ pc'[d] = "reply" => resp'[d] = promise'[d]
    <3>1. /\ pc[d] \in {"pre", "reply"} /\ Key(d) \in Keys /\ promise[d] # None
          /\ pc[d] = "pre" => cache[Key(d)] = promise[d] /\ ~Computing(Key(d))
          /\ pc[d] = "reply" => resp[d] = promise[d]
      BY <1>1, <2>3 DEF RetryInv, PromiseInv
    <3>2. CASE d = c
      <4>1. r = promise[c]
        BY <1>1, <3>1, <3>2 DEF r, k, Cached
      <4> QED
        BY <1>1, <1>3, <2>2, <3>1, <3>2, <4>1
    <3>3. CASE d # c
      BY <1>1, <1>3, <2>1, <2>2, <3>1, <3>3
    <3> QED
      BY <3>2, <3>3
  <2> QED
    BY <2>3 DEF PromiseInv
<1> QED
  BY <1>6, <1>7, <1>8, <1>9

\* A response that names a session names that of the request or one that was
\* never issued, so it is not about a promised answer.
LEMMA RetryExecute ==
  ASSUME RetryInv, NEW c \in Conns, NEW n \in Sessions \cup {NoSession}, Execute(c, n)
  PROVE  SessionsInv' /\ KeysInv' /\ AnswersInv' /\ PromiseInv'
<1> DEFINE e == execs + 1
           k == CacheKey(c, n)
<1>1. /\ pc[c] = "exec" /\ e \in Execs
      /\ n # NoSession /\ sess[c] # NoSession => n = sess[c]
      /\ n # NoSession /\ sess[c] = NoSession => n \notin Issued
      /\ execs' = e
      /\ names' = [names EXCEPT ![e] = n]
      /\ keyOf' = [keyOf EXCEPT ![e] = k]
      /\ resp' = [resp EXCEPT ![c] = e]
      /\ pc' = [pc EXCEPT ![c] = "check"]
      /\ UNCHANGED <<chan, id, sess, known, cache, answered, promise, late>>
  BY RetryTypes, ExecsAssumption DEF Execute, cacheVars, historyVars, Execs
<1>k. k = IF n = NoSession THEN Key(c) ELSE <<n, id[c]>>
  BY DEF CacheKey
<1>n. \A x \in 1 .. execs : x # e /\ x \in Execs
  BY <1>1, RetryTypes, ExecsAssumption DEF Execs
<1> HIDE DEF e, k
<1>2. /\ \A d \in Conns \ {c} : pc'[d] = pc[d] /\ resp'[d] = resp[d]
      /\ pc'[c] = "check" /\ resp'[c] = e
      /\ names'[e] = n /\ keyOf'[e] = k
      /\ \A x \in 1 .. execs : names'[x] = names[x] /\ keyOf'[x] = keyOf[x]
      /\ 1 .. execs' = (1 .. execs) \cup {e}
  BY <1>1, <1>n, RetryTypes DEF e
<1>3. Responding' = Responding \cup {c} /\ c \notin Responding
  BY <1>1, <1>2 DEF Responding
<1>4. \A d \in Responding : /\ d # c /\ resp'[d] = resp[d] /\ resp[d] \in 1 .. execs
                            /\ names'[resp[d]] = names[resp[d]]
                            /\ keyOf'[resp[d]] = keyOf[resp[d]]
  BY <1>2, <1>3, RetryTypes DEF Responding
<1>5. /\ c \in Opening' <=> sess[c] = NoSession /\ n # NoSession
      /\ \A d \in Conns \ {c} : d \in Opening' <=> d \in Opening
      /\ c \notin Opening
  BY <1>1, <1>2, <1>3, <1>4 DEF Opening
<1>6. Issued' = Issued \cup {n}
  <2>1. Issued' = {names'[x] : x \in 1 .. execs'}
    BY DEF Issued
  <2> QED
    BY <1>2, <2>1 DEF Issued
<1>7. SessionsInv'
  <2>1. SessionsInv
    BY DEF RetryInv
  <2>2. ASSUME NEW d \in Opening'
        PROVE  /\ names'[resp'[d]] \notin known
               /\ \A b \in Opening' : names'[resp'[b]] = names'[resp'[d]] => b = d
    <3>1. \A b \in Opening : names[resp[b]] \in Issued
      BY RetryTypes DEF Opening, Issued, Responding
    <3>2. c \in Opening' => n \notin Issued
      BY <1>1, <1>5
    <3>3. \A b \in Opening' \ {c} : b \in Opening /\ names'[resp'[b]] = names[resp[b]]
      BY <1>4, <1>5 DEF Opening, Responding
    <3>4. names'[resp'[c]] = n
      BY <1>2
    <3>5. CASE d = c
      BY <2>1, <2>2, <3>1, <3>2, <3>3, <3>4, <3>5 DEF SessionsInv
    <3>6. CASE d # c
      BY <2>1, <2>2, <3>1, <3>2, <3>3, <3>4, <3>6 DEF SessionsInv
    <3> QED
      BY <3>5, <3>6
  <2>3. known \subseteq Issued'
    BY <1>6, <2>1 DEF SessionsInv
  <2> QED
    BY <1>1, <2>1, <2>2, <2>3 DEF SessionsInv
<1>8. KeysInv'
  <2>1. KeysInv
    BY DEF RetryInv
  <2>2. \A x \in 1 .. execs' : names'[x] # NoSession => keyOf'[x][1] = names'[x]
    BY <1>2, <1>k, <2>1 DEF KeysInv
  <2>3. ASSUME NEW d \in Responding'
        PROVE  /\ keyOf'[resp'[d]] = AnswerKey(d, resp[d])'
               /\ d \notin Opening' => keyOf'[resp'[d]] = Key(d)'
    <3>1. Key(d)' = Key(d) /\ id' = id
      BY <1>1 DEF Key
    <3>2. CASE d = c
      BY <1>1, <1>2, <1>5, <1>k, <3>1, <3>2 DEF AnswerKey, Key
    <3>3. CASE d # c
      <4>1. d \in Responding /\ (d \notin Opening' => d \notin Opening)
        BY <1>3, <1>5, <2>3, <3>3 DEF Responding
      <4>2. /\ keyOf'[resp'[d]] = keyOf[resp[d]]
            /\ AnswerKey(d, resp[d])' = AnswerKey(d, resp[d])
        BY <1>4, <3>1, <4>1 DEF AnswerKey
      <4> QED
        BY <2>1, <3>1, <4>1, <4>2 DEF KeysInv
    <3> QED
      BY <3>2, <3>3
  <2> QED
    BY <2>2, <2>3 DEF KeysInv
<1>9. AnswersInv'
  <2>1. AnswersInv
    BY DEF RetryInv
  <2>2. \A d \in Conns : pc'[d] = "reply" <=> pc[d] = "reply" /\ d # c
    BY <1>1, <1>2
  <2>3. \A d \in Conns : pc[d] = "reply" =>
          d # c /\ resp'[d] = resp[d] /\ keyOf'[resp[d]] = keyOf[resp[d]]
    BY <1>1, <1>4 DEF Responding
  <2>4. \A d \in late : pc'[d] \in {"idle", "reply"}
    BY <1>1, <1>2, <2>1 DEF AnswersInv
  <2>5. \A d \in Conns \ late' : pc'[d] = "reply" /\ keyOf'[resp'[d]] \in Keys =>
          cache'[keyOf'[resp'[d]]] # None
    BY <1>1, <2>1, <2>2, <2>3 DEF AnswersInv
  <2>6. \A j \in Keys : cache'[j] # None =>
          \/ cache'[j] \in answered'[j]
          \/ \E d \in Conns \ late' : pc'[d] = "reply" /\ resp'[d] = cache'[j]
    BY <1>1, <2>1, <2>2, <2>3 DEF AnswersInv
  <2> QED
    BY <1>1, <2>1, <2>4, <2>5, <2>6 DEF AnswersInv
<1>10. PromiseInv'
  <2>1. \A j \in Keys : j[1] \in known /\ ~Computing(j) => ~Computing(j)'
    <3>1. ASSUME NEW j \in Keys, j[1] \in known, ~Computing(j), NEW d \in Conns
          PROVE  /\ pc'[d] = "exec" => Key(d)' # j
                 /\ pc'[d] \in {"check", "add"} => keyOf'[resp'[d]] # j
      <4>1. Key(d)' = Key(d)
        BY <1>1 DEF Key
      <4>2. k # j
        <5>1. Key(c) # j
          BY <1>1, <3>1 DEF Computing
        <5>2. CASE n = NoSession \/ n = sess[c]
          BY <1>k, <5>1, <5>2 DEF Key
        <5>3. CASE n # NoSession /\ n # sess[c]
          BY <1>1, <1>k, <3>1, <5>3 DEF RetryInv, SessionsInv
        <5> QED
          BY <5>2, <5>3
      <4>3. CASE d = c
        BY <1>2, <4>2, <4>3
      <4>4. CASE d # c
        BY <1>2, <1>4, <3>1, <4>1, <4>4 DEF Computing, Responding
      <4> QED
        BY <4>3, <4>4
    <3> QED
      BY <3>1 DEF Computing
  <2>2. \A d \in Conns : Key(d)' = Key(d)
    BY <1>1 DEF Key
  <2>3. ASSUME NEW d \in Conns, promise'[d] # None
        PROVE  /\ pc'[d] \in {"pre", "reply"}
               /\ Key(d)' \in Keys
               /\ pc'[d] = "pre" => cache'[Key(d)'] = promise'[d] /\ ~Computing(Key(d))'
               /\ pc'[d] = "reply" => resp'[d] = promise'[d]
    <3>1. /\ pc[d] \in {"pre", "reply"} /\ Key(d) \in Keys /\ promise[d] # None
          /\ pc[d] = "pre" => cache[Key(d)] = promise[d] /\ ~Computing(Key(d))
          /\ pc[d] = "reply" => resp[d] = promise[d]
      BY <1>1, <2>3 DEF RetryInv, PromiseInv
    <3>2. Key(d)[1] \in known
      BY <3>1, RetryTypes DEF Key, Keys, RetryInv, SessionsInv
    <3>3. d # c
      BY <1>1, <3>1
    <3> QED
      BY <1>1, <1>2, <2>1, <2>2, <3>1, <3>2, <3>3
  <2> QED
    BY <2>3 DEF PromiseInv
<1> QED
  BY <1>7, <1>8, <1>9, <1>10

\* postProcess only decides to add when nothing is cached, so nothing was promised.
LEMMA RetryCheckCache ==
  ASSUME RetryInv, NEW c \in Conns, CheckCache(c)
  PROVE  SessionsInv' /\ KeysInv' /\ AnswersInv' /\ PromiseInv'
<1> DEFINE k == keyOf[resp[c]]
<1>1. /\ pc[c] = "check"
      /\ pc' = [pc EXCEPT ![c] = IF k \in Keys /\ Cached(k) = None THEN "add" ELSE "reply"]
      /\ UNCHANGED <<chan, id, sess, resp, execs, names, keyOf, known, cache, answered,
                     promise, late>>
  BY DEF CheckCache, execVars, cacheVars, historyVars
<1>2. /\ \A d \in Conns \ {c} : pc'[d] = pc[d]
      /\ pc'[c] \in {"add", "reply"}
      /\ pc'[c] = "reply" /\ k \in Keys => cache[k] # None
  BY <1>1, RetryTypes DEF Cached
<1> HIDE DEF k
<1>3. Responding' = Responding
  BY <1>1, <1>2 DEF Responding
<1>4. Opening' = Opening
  BY <1>1, <1>3 DEF Opening
<1>5. SessionsInv' /\ KeysInv'
  BY <1>1, <1>3, <1>4 DEF RetryInv, SessionsInv, KeysInv, Issued, AnswerKey, Key
<1>6. AnswersInv'
  <2>1. AnswersInv
    BY DEF RetryInv
  <2>2. c \notin late
    BY <1>1, <2>1 DEF AnswersInv
  <2>3. \A d \in late : pc'[d] \in {"idle", "reply"}
    BY <1>2, <2>1, <2>2, RetryTypes DEF AnswersInv
  <2>4. \A d \in Conns \ late' : pc'[d] = "reply" /\ keyOf'[resp'[d]] \in Keys =>
          cache'[keyOf'[resp'[d]]] # None
    BY <1>1, <1>2, <2>1 DEF AnswersInv, k
  <2>5. \A j \in Keys : cache'[j] # None =>
          \/ cache'[j] \in answered'[j]
          \/ \E d \in Conns \ late' : pc'[d] = "reply" /\ resp'[d] = cache'[j]
    BY <1>1, <1>2, <2>1 DEF AnswersInv
  <2> QED
    BY <1>1, <2>1, <2>3, <2>4, <2>5 DEF AnswersInv
<1>7. PromiseInv'
  <2>1. \A d \in Conns : Key(d)' = Key(d)
    BY <1>1 DEF Key
  <2>2. \A j : ~Computing(j) => ~Computing(j)'
    BY <1>1, <1>2, <2>1 DEF Computing
  <2>3. \A d \in Conns : promise[d] # None => d # c
    BY <1>1 DEF RetryInv, PromiseInv
  <2> QED
    BY <1>1, <1>2, <2>1, <2>2, <2>3 DEF RetryInv, PromiseInv
<1> QED
  BY <1>5, <1>6, <1>7

\* addResponse caches a response that its handler is about to answer, under a key
\* that nothing was promised for.
LEMMA RetryAddResponse ==
  ASSUME RetryInv, NEW c \in Conns, AddResponse(c)
  PROVE  SessionsInv' /\ KeysInv' /\ AnswersInv' /\ PromiseInv'
<1> DEFINE e == resp[c]
           k == keyOf[e]
<1>1. /\ pc[c] = "add"
      /\ cache' = [cache EXCEPT ![k] = e]
      /\ pc' = [pc EXCEPT ![c] = "reply"]
      /\ UNCHANGED <<chan, id, sess, resp, execs, names, keyOf, known, answered,
                     promise, late>>
  BY DEF AddResponse, execVars, historyVars
<1>2. e \in Execs /\ k \in Keys
  BY <1>1, RetryTypes DEF RetryInv, IInv, FreshInv, Responding
<1> HIDE DEF e, k
<1>3. /\ \A d \in Conns \ {c} : pc'[d] = pc[d]
      /\ pc'[c] = "reply"
      /\ cache'[k] = e /\ e # None
      /\ \A j \in Keys \ {k} : cache'[j] = cache[j]
  BY <1>1, <1>2, RetryTypes
<1>4. Responding' = Responding
  BY <1>1, <1>3 DEF Responding
<1>5. Opening' = Opening
  BY <1>1, <1>4 DEF Opening
<1>6. SessionsInv' /\ KeysInv'
  BY <1>1, <1>4, <1>5 DEF RetryInv, SessionsInv, KeysInv, Issued, AnswerKey, Key
<1>7. AnswersInv'
  <2>1. AnswersInv
    BY DEF RetryInv
  <2>2. c \notin late
    BY <1>1, <2>1 DEF AnswersInv
  <2>3. \A d \in late : pc'[d] \in {"idle", "reply"}
    BY <1>3, <2>1, <2>2, RetryTypes DEF AnswersInv
  <2>4. \A j \in Keys : cache[j] # None => cache'[j] # None
    BY <1>3
  <2>5. \A d \in Conns \ late' : pc'[d] = "reply" /\ keyOf'[resp'[d]] \in Keys =>
          cache'[keyOf'[resp'[d]]] # None
    BY <1>1, <1>3, <2>1, <2>4 DEF AnswersInv, k, e
  <2>6. \A j \in Keys : cache'[j] # None =>
          \/ cache'[j] \in answered'[j]
          \/ \E d \in Conns \ late' : pc'[d] = "reply" /\ resp'[d] = cache'[j]
    <3>1. ASSUME NEW j \in Keys \ {k}, cache'[j] # None
          PROVE  \/ cache'[j] \in answered'[j]
                 \/ \E d \in Conns \ late' : pc'[d] = "reply" /\ resp'[d] = cache'[j]
      BY <1>1, <1>3, <2>1, <3>1 DEF AnswersInv
    <3>2. c \in Conns \ late' /\ pc'[c] = "reply" /\ resp'[c] = cache'[k]
      BY <1>1, <1>3, <2>2 DEF e
    <3> QED
      BY <3>1, <3>2
  <2> QED
    BY <1>1, <2>1, <2>3, <2>4, <2>5, <2>6 DEF AnswersInv
<1>8. PromiseInv'
  <2>1. \A d \in Conns : Key(d)' = Key(d)
    BY <1>1 DEF Key
  <2>2. \A j : ~Computing(j) => ~Computing(j)'
    BY <1>1, <1>3, <2>1 DEF Computing
  <2>3. ASSUME NEW d \in Conns, promise'[d] # None
        PROVE  /\ pc'[d] \in {"pre", "reply"}
               /\ Key(d)' \in Keys
               /\ pc'[d] = "pre" => cache'[Key(d)'] = promise'[d] /\ ~Computing(Key(d))'
               /\ pc'[d] = "reply" => resp'[d] = promise'[d]
    <3>1. /\ pc[d] \in {"pre", "reply"} /\ Key(d) \in Keys /\ promise[d] # None
          /\ pc[d] = "pre" => cache[Key(d)] = promise[d] /\ ~Computing(Key(d))
          /\ pc[d] = "reply" => resp[d] = promise[d]
      BY <1>1, <2>3 DEF RetryInv, PromiseInv
    <3>2. d # c /\ (~Computing(Key(d)) => Key(d) # k)
      BY <1>1, <3>1 DEF Computing, k, e
    <3>3. ~Computing(Key(d)) => ~Computing(Key(d))'
      BY <2>1, <2>2
    <3> QED
      BY <1>1, <1>3, <2>1, <3>1, <3>2, <3>3
  <2> QED
    BY <2>3 DEF PromiseInv
<1> QED
  BY <1>6, <1>7, <1>8

\* A response that leaves is counted for the key under which it may be cached,
\* unless this key expired since the handler has it.
LEMMA RetryReply ==
  ASSUME RetryInv, NEW c \in Conns, Reply(c)
  PROVE  SessionsInv' /\ KeysInv' /\ AnswersInv' /\ PromiseInv'
<1> DEFINE e == resp[c]
           s == names[e]
           k == AnswerKey(c, e)
<1>1. /\ pc[c] = "reply"
      /\ pc' = [pc EXCEPT ![c] = "idle"]
      /\ chan' = IF s = NoSession THEN chan
                 ELSE [d \in Conns |-> IF d = c THEN s
                                       ELSE IF chan[d] = s THEN NoSession
                                       ELSE chan[d]]
      /\ known' = known \cup ({s} \ {NoSession})
      /\ answered' = IF k \notin Keys \/ c \in late THEN answered
                     ELSE [answered EXCEPT ![k] = @ \cup {e}]
      /\ promise' = [promise EXCEPT ![c] = None]
      /\ resp' = [resp EXCEPT ![c] = None]
      /\ UNCHANGED <<id, sess, execs, names, keyOf, cache, late>>
  BY DEF Reply, execVars, cacheVars
<1>2. /\ c \in Responding /\ e \in 1 .. execs /\ e \in Execs
      /\ s \in Sessions \cup {NoSession}
      /\ k = keyOf[e]
      /\ s # NoSession => k[1] = s
      /\ c \notin Opening => k = Key(c)
  BY <1>1, RetryTypes DEF RetryInv, KeysInv, Responding
<1>3. s # NoSession => s \in Issued
  BY <1>2 DEF Issued
<1>4. s \notin known \cup {NoSession} => c \in Opening
  <2>1. ASSUME c \notin Opening, s # NoSession PROVE s \in known
    <3>1. k[1] = s /\ k = Key(c)
      BY <1>2, <2>1
    <3>2. sess[c] = s
      BY <3>1 DEF Key
    <3> QED
      BY <2>1, <3>2 DEF RetryInv, SessionsInv
  <2> QED
    BY <2>1
<1>5. k \in Keys => k[1] \in known'
  <2>1. CASE s # NoSession
    BY <1>1, <1>2, <2>1
  <2>2. CASE s = NoSession
    <3>1. k = Key(c)
      BY <2>2 DEF AnswerKey
    <3> QED
      BY <1>1, <3>1, RetryTypes DEF RetryInv, SessionsInv, Key, Keys
  <2> QED
    BY <2>1, <2>2
<1> HIDE DEF e, s, k
<1>6. /\ \A d \in Conns \ {c} : pc'[d] = pc[d] /\ resp'[d] = resp[d]
                                /\ promise'[d] = promise[d]
      /\ pc'[c] = "idle" /\ promise'[c] = None
  BY <1>1, RetryTypes
<1>7. Responding' = Responding \ {c}
  BY <1>1, <1>6 DEF Responding
<1>8. Opening' = Opening \ {c}
  BY <1>1, <1>6, <1>7 DEF Opening, Responding
<1>9. \A d \in Responding' : d \in Responding /\ d # c /\ resp'[d] = resp[d]
  BY <1>6, <1>7 DEF Responding
<1>10. \A j \in Keys : j # k => answered'[j] = answered[j]
  BY <1>1, RetryTypes
<1>11. k \in Keys => answered'[k] = IF c \in late THEN answered[k] ELSE answered[k] \cup {e}
  BY <1>1, RetryTypes
<1>12. SessionsInv'
  <2>1. SessionsInv
    BY DEF RetryInv
  <2>2. \A d \in Conns : /\ chan'[d] \in known' \cup {NoSession}
                         /\ sess'[d] \in known' \cup {NoSession}
    BY <1>1, <2>1, RetryTypes DEF SessionsInv
  <2>3. known' \subseteq Issued'
    BY <1>1, <1>3, <2>1 DEF SessionsInv, Issued
  <2>4. \A j \in Keys : answered'[j] # {} => j[1] \in known'
    BY <1>1, <1>5, <1>10, <2>1 DEF SessionsInv
  <2>5. ASSUME NEW d \in Opening'
        PROVE  /\ names'[resp'[d]] \notin known'
               /\ \A b \in Opening' : names'[resp'[b]] = names'[resp'[d]] => b = d
    <3>1. d \in Opening /\ d # c /\ resp'[d] = resp[d] /\ names' = names
      BY <1>1, <1>8, <1>9 DEF Opening
    <3>2. names[resp[d]] # s
      BY <1>4, <2>1, <3>1 DEF SessionsInv, Opening, s, e
    <3>3. \A b \in Opening' : b \in Opening /\ resp'[b] = resp[b]
      BY <1>8, <1>9 DEF Opening
    <3> QED
      BY <1>1, <2>1, <3>1, <3>2, <3>3 DEF SessionsInv
  <2> QED
    BY <2>2, <2>3, <2>4, <2>5 DEF SessionsInv
<1>13. KeysInv'
  <2>1. \A d \in Conns : Key(d)' = Key(d)
    BY <1>1 DEF Key
  <2>2. \A d \in Responding' : AnswerKey(d, resp[d])' = AnswerKey(d, resp[d])
    <3>1. \A d \in Responding' : d \in Conns /\ resp'[d] = resp[d]
      BY <1>9 DEF Responding
    <3> QED
      BY <1>1, <2>1, <3>1 DEF AnswerKey
  <2>3. ASSUME NEW d \in Responding'
        PROVE  /\ keyOf'[resp'[d]] = AnswerKey(d, resp[d])'
               /\ d \notin Opening' => keyOf'[resp'[d]] = Key(d)'
    <3>1. d \in Responding /\ d \in Conns /\ resp'[d] = resp[d] /\ d # c
      BY <1>9 DEF Responding
    <3>2. /\ keyOf[resp[d]] = AnswerKey(d, resp[d])
          /\ d \notin Opening => keyOf[resp[d]] = Key(d)
      BY <3>1 DEF RetryInv, KeysInv
    <3> QED
      BY <1>1, <1>8, <2>1, <2>2, <3>1, <3>2
  <2> QED
    BY <1>1, <2>3 DEF RetryInv, KeysInv
<1>14. AnswersInv'
  <2>1. AnswersInv
    BY DEF RetryInv
  <2>2. \A d \in late' : pc'[d] \in {"idle", "reply"}
    BY <1>1, <1>6, <2>1, RetryTypes DEF AnswersInv
  <2>3. \A d \in Conns : pc'[d] = "reply" => d # c /\ pc[d] = "reply" /\ resp'[d] = resp[d]
    BY <1>6
  <2>4. \A j \in Keys : answered'[j] # {} => cache'[j] # None
    <3>1. k \in Keys /\ c \notin late => cache[k] # None
      BY <1>1, <1>2, <2>1 DEF AnswersInv, e
    <3> QED
      BY <1>1, <1>10, <1>11, <2>1, <3>1 DEF AnswersInv
  <2>5. \A d \in Conns \ late' : pc'[d] = "reply" /\ keyOf'[resp'[d]] \in Keys =>
          cache'[keyOf'[resp'[d]]] # None
    BY <1>1, <2>1, <2>3 DEF AnswersInv
  <2>6. ASSUME NEW j \in Keys, cache'[j] # None
        PROVE  \/ cache'[j] \in answered'[j]
               \/ \E d \in Conns \ late' : pc'[d] = "reply" /\ resp'[d] = cache'[j]
    <3>1. cache'[j] = cache[j] /\ keyOf[cache[j]] = j
      BY <1>1, <2>6 DEF RetryInv, IInv, TimersMatchCache
    <3>2. answered[j] \subseteq answered'[j]
      BY <1>10, <1>11
    <3>3. CASE cache[j] \in answered[j]
      BY <3>1, <3>2, <3>3
    <3>4. CASE c \notin late /\ e = cache[j]
      BY <1>2, <1>11, <3>1, <3>4
    <3>5. ASSUME NEW d \in Conns \ late, d # c, pc[d] = "reply", resp[d] = cache[j]
          PROVE  \E b \in Conns \ late' : pc'[b] = "reply" /\ resp'[b] = cache'[j]
      BY <1>1, <1>6, <3>1, <3>5
    <3> QED
      BY <2>1, <2>6, <3>1, <3>3, <3>4, <3>5 DEF AnswersInv, e
  <2> QED
    BY <2>2, <2>4, <2>5, <2>6 DEF AnswersInv
<1>15. PromiseInv'
  <2>1. \A d \in Conns : Key(d)' = Key(d)
    BY <1>1 DEF Key
  <2>2. \A j : ~Computing(j) => ~Computing(j)'
    BY <1>1, <1>6, <2>1 DEF Computing
  <2> QED
    BY <1>1, <1>6, <2>1, <2>2 DEF RetryInv, PromiseInv
<1> QED
  BY <1>12, <1>13, <1>14, <1>15

\* A timer that fires changes no answer, and neither does the mark of its callback.
LEMMA RetryTimer ==
  ASSUME RetryInv, (\E e \in Execs : TimerFires(e)) \/ TimerMarks \/ UNCHANGED vars
  PROVE  SessionsInv' /\ KeysInv' /\ AnswersInv' /\ PromiseInv'
<1>1. UNCHANGED <<chan, pc, id, sess, resp, execs, names, keyOf, known, cache, answered,
                  promise, late>>
  BY DEF TimerFires, TimerMarks, vars, handlerVars, execVars, cacheVars, historyVars
<1>2. Opening' = Opening /\ Responding' = Responding /\ Issued' = Issued
  BY <1>1 DEF Opening, Responding, Issued
<1>3. SessionsInv' /\ KeysInv'
  BY <1>1, <1>2 DEF RetryInv, SessionsInv, KeysInv, AnswerKey, Key
<1>4. AnswersInv' /\ PromiseInv'
  BY <1>1 DEF RetryInv, AnswersInv, PromiseInv, Computing, Key
<1> QED
  BY <1>3, <1>4

\* When an answer expires, so does every promise of it; a handler that has it in
\* its hands is too late, and one that has not will compute it again.
LEMMA RetryTimerErases ==
  ASSUME RetryInv, TimerErases
  PROVE  SessionsInv' /\ KeysInv' /\ AnswersInv' /\ PromiseInv'
<1> DEFINE k == keyOf[firing]
<1>1. /\ cache' = [cache EXCEPT ![k] = None]
      /\ answered' = [answered EXCEPT ![k] = {}]
      /\ promise' = [c \in Conns |-> IF c \in Using(k) THEN None ELSE promise[c]]
      /\ late' = late \cup {c \in Using(k) : pc[c] = "reply"}
      /\ UNCHANGED <<chan, pc, id, sess, resp, execs, names, keyOf, known>>
  BY DEF TimerErases, Erased, handlerVars, execVars
<1>2. k \in Keys
  BY DEF TimerErases, RetryInv, IInv, TypeOK, LoopInv, FreshInv
<1> HIDE DEF k
<1>3. /\ cache'[k] = None /\ answered'[k] = {}
      /\ \A j \in Keys \ {k} : cache'[j] = cache[j] /\ answered'[j] = answered[j]
  BY <1>1, <1>2, RetryTypes
<1>4. Opening' = Opening /\ Responding' = Responding /\ Issued' = Issued
  BY <1>1 DEF Opening, Responding, Issued
<1>5. \A c \in Conns : Key(c)' = Key(c)
  BY <1>1 DEF Key
<1>6. SessionsInv'
  BY <1>1, <1>3, <1>4 DEF RetryInv, SessionsInv
<1>7. KeysInv'
  BY <1>1, <1>4 DEF RetryInv, KeysInv, AnswerKey, Key
<1>8. \A c \in Conns : pc[c] = "reply" => (c \in Using(k) <=> keyOf[resp[c]] = k)
  <2>1. ASSUME NEW c \in Conns, pc[c] = "reply"
        PROVE  c \in Using(k) <=> keyOf[resp[c]] = k
    <3>1. c \in Busy /\ c \in Responding /\ resp[c] # None
      BY <2>1, RetryTypes DEF Busy, Responding
    <3>2. keyOf[resp[c]] = AnswerKey(c, resp[c])
      BY <3>1 DEF RetryInv, KeysInv
    <3>3. Key(c) = k => AnswerKey(c, resp[c]) = k
      <4>1. Key(c) = k => sess[c] # NoSession
        BY <1>2, RetryTypes DEF Key, Keys
      <4> QED
        BY <3>1, <3>2, <4>1 DEF RetryInv, KeysInv, Opening
    <3> QED
      BY <3>1, <3>2, <3>3 DEF Using
  <2> QED
    BY <2>1
<1>9. AnswersInv'
  <2>1. AnswersInv
    BY DEF RetryInv
  <2>2. \A c \in late' : pc'[c] \in {"idle", "reply"}
    BY <1>1, <2>1 DEF AnswersInv
  <2>3. \A j \in Keys : answered'[j] # {} => cache'[j] # None
    BY <1>3, <2>1 DEF AnswersInv
  <2>4. \A c \in Conns \ late' : pc'[c] = "reply" => c \notin late /\ keyOf[resp[c]] # k
    BY <1>1, <1>8
  <2>5. \A c \in Conns \ late' : pc'[c] = "reply" /\ keyOf'[resp'[c]] \in Keys =>
          cache'[keyOf'[resp'[c]]] # None
    BY <1>1, <1>3, <2>1, <2>4 DEF AnswersInv
  <2>6. ASSUME NEW j \in Keys, cache'[j] # None
        PROVE  \/ cache'[j] \in answered'[j]
               \/ \E c \in Conns \ late' : pc'[c] = "reply" /\ resp'[c] = cache'[j]
    <3>1. j # k /\ cache'[j] = cache[j] /\ answered'[j] = answered[j] /\ keyOf[cache[j]] = j
      BY <1>3, <2>6 DEF RetryInv, IInv, TimersMatchCache
    <3>2. ASSUME NEW c \in Conns \ late, pc[c] = "reply", resp[c] = cache[j]
          PROVE  c \in Conns \ late' /\ pc'[c] = "reply" /\ resp'[c] = cache'[j]
      BY <1>1, <1>8, <3>1, <3>2
    <3> QED
      BY <2>1, <2>6, <3>1, <3>2 DEF AnswersInv
  <2> QED
    BY <2>2, <2>3, <2>5, <2>6 DEF AnswersInv
<1>10. PromiseInv'
  <2>1. \A j : ~Computing(j) => ~Computing(j)'
    BY <1>1, <1>5 DEF Computing
  <2>2. ASSUME NEW c \in Conns, promise'[c] # None
        PROVE  /\ pc'[c] \in {"pre", "reply"}
               /\ Key(c)' \in Keys
               /\ pc'[c] = "pre" => cache'[Key(c)'] = promise'[c] /\ ~Computing(Key(c))'
               /\ pc'[c] = "reply" => resp'[c] = promise'[c]
    <3>1. c \notin Using(k) /\ promise'[c] = promise[c]
      BY <1>1, <2>2
    <3>2. /\ pc[c] \in {"pre", "reply"} /\ Key(c) \in Keys /\ promise[c] # None
          /\ pc[c] = "pre" => cache[Key(c)] = promise[c] /\ ~Computing(Key(c))
          /\ pc[c] = "reply" => resp[c] = promise[c]
      BY <2>2, <3>1 DEF RetryInv, PromiseInv
    <3>3. Key(c) # k
      BY <3>1, <3>2 DEF Using, Busy
    <3>4. ~Computing(Key(c)) => ~Computing(Key(c))'
      BY <1>5, <2>1
    <3> QED
      BY <1>1, <1>3, <1>5, <3>1, <3>2, <3>3, <3>4
  <2> QED
    BY <2>2 DEF PromiseInv
<1> QED
  BY <1>6, <1>7, <1>9, <1>10

-----------------------------------------------------------------------------
\* Every operation keeps the invariant.
LEMMA RetryStep == RetryInv /\ [Next]_vars => RetryInv'
<1>1. ASSUME RetryInv, [Next]_vars PROVE IInv'
  BY <1>1, InvStep DEF RetryInv
<1>2. ASSUME RetryInv, [Next]_vars
      PROVE  SessionsInv' /\ KeysInv' /\ AnswersInv' /\ PromiseInv'
  BY <1>2, RetryReconnect, RetryReceive, RetryPreProcess, RetryExecute, RetryCheckCache,
     RetryAddResponse, RetryReply, RetryTimer, RetryTimerErases DEF Next
<1> QED
  BY <1>1, <1>2 DEF RetryInv

\* A retry is answered as before, whatever other handlers, other clients and the
\* main loop do at the same time.
THEOREM RetriesAnswered == Spec => []RetryAnswered
<1>1. RetryInv => RetryAnswered
  BY DEF RetryInv, PromiseInv, RetryAnswered
<1> QED
  BY <1>1, RetryInit, RetryStep, PTL DEF Spec

-----------------------------------------------------------------------------
(* The cache implements the store                                          *)

\* A handler that goes on without a response of its own to keep, or past it.
LEMMA SpentStays ==
  ASSUME IInv, UNCHANGED execs,
         \A c \in Conns : \/ UNCHANGED <<pc[c], resp[c]>>
                          \/ {pc[c], pc'[c]} \cap {"check", "add"} = {}
                          \/ pc[c] = "check" /\ pc'[c] = "add" /\ resp'[c] = resp[c]
  PROVE  Spent' = Spent
BY DEF Spent

\* A handler that is done with its response.
LEMMA SpentGrows ==
  ASSUME IInv, NEW c \in Conns, pc[c] \in {"check", "add"}, UNCHANGED <<execs, resp>>,
         pc' = [pc EXCEPT ![c] = "reply"]
  PROVE  resp[c] \in Execs /\ resp[c] \notin Spent /\ Spent' = Spent \cup {resp[c]}
<1>1. resp[c] \in 1 .. execs /\ resp[c] \in Execs
  BY ExecsAssumption DEF IInv, RespInv, TypeOK, Execs
<1>2. \A d \in Conns \ {c} : pc'[d] = pc[d]
                             /\ (pc[d] \in {"check", "add"} => resp[d] # resp[c])
  BY DEF IInv, FreshInv, TypeOK
<1>3. pc'[c] = "reply"
  BY DEF IInv, TypeOK
<1> QED
  BY <1>1, <1>2, <1>3 DEF Spent

\* A response that was just made is not spent.
LEMMA SpentExecute ==
  ASSUME IInv, NEW c \in Conns, NEW n \in Sessions \cup {NoSession}, Execute(c, n)
  PROVE  Spent' = Spent
<1> DEFINE e == execs + 1
<1>1. /\ execs \in Nat /\ execs' = e /\ pc[c] = "exec"
      /\ \A d \in Conns \ {c} : pc'[d] = pc[d] /\ resp'[d] = resp[d]
      /\ pc'[c] = "check" /\ resp'[c] = e
  BY DEF IInv, TypeOK, Execute
<1>2. 1 .. execs' = (1 .. execs) \cup {e} /\ e \notin 1 .. execs
  BY <1>1
<1> QED
  BY <1>1, <1>2 DEF Spent

\* At first nothing is kept and nothing was made.
LEMMA StoreInit == Init => Store!Init
<1> SUFFICES ASSUME Init PROVE Store!Init
  OBVIOUS
<1>1. 1 .. execs = {}
  BY DEF Init
<1> QED
  BY <1>1 DEF Init, Store!Init, Spent, None

\* addResponse keeps, the decision not to add discards, a timer that fires is
\* TimeOut and its slot Expire; all other steps are none of the store's.
LEMMA StoreStep == IInv /\ [Next]_vars => [Store!Next]_(Store!vars)
<1> SUFFICES ASSUME IInv, [Next]_vars PROVE Store!Next \/ UNCHANGED Store!vars
  OBVIOUS
<1> USE DEF handlerVars, execVars, cacheVars, loopVars, historyVars
<1>1. ASSUME NEW c \in Conns, CheckCache(c) PROVE Store!Next \/ UNCHANGED Store!vars
  <2>1. /\ pc[c] = "check" /\ pc'[c] \in {"add", "reply"} /\ pc' = [pc EXCEPT ![c] = pc'[c]]
        /\ UNCHANGED <<resp, execs, cache, firing>>
    BY <1>1 DEF CheckCache, IInv, TypeOK
  <2>2. CASE pc'[c] = "add"
    <3>1. Spent' = Spent
      BY <2>1, <2>2, SpentStays
    <3> QED
      BY <2>1, <3>1 DEF Store!vars
  <2>3. CASE pc'[c] = "reply"
    <3>1. resp[c] \in Execs /\ resp[c] \notin Spent /\ Spent' = Spent \cup {resp[c]}
      BY <2>1, <2>3, SpentGrows
    <3> QED
      BY <2>1, <3>1 DEF Store!Next, Store!Discard
  <2> QED
    BY <2>1, <2>2, <2>3
<1>2. ASSUME NEW c \in Conns, AddResponse(c) PROVE Store!Next
  <2> DEFINE e == resp[c]
             k == keyOf[e]
  <2>1. /\ pc[c] = "add" /\ pc' = [pc EXCEPT ![c] = "reply"]
        /\ cache' = [cache EXCEPT ![k] = e]
        /\ UNCHANGED <<resp, execs, firing>>
    BY <1>2 DEF AddResponse
  <2>2. e \in Execs /\ e \notin Spent /\ Spent' = Spent \cup {e}
    BY <2>1, SpentGrows
  <2>3. k \in Keys
    BY <2>1 DEF IInv, FreshInv
  <2>4. cache[k] # None => cache[k] # firing
    <3>1. ASSUME cache[k] # None, cache[k] = firing PROVE FALSE
      <4>1. AddIsPrompt(firing) /\ keyOf[firing] = k
        BY <2>3, <3>1 DEF IInv, LoopInv, TimersMatchCache
      <4> QED
        BY <2>1, <4>1 DEF AddIsPrompt
    <3> QED
      BY <3>1
  <2>5. Store!Keep(e, k)
    BY <2>1, <2>2, <2>4 DEF Store!Keep
  <2> QED
    BY <2>2, <2>3, <2>5 DEF Store!Next
<1>3. ASSUME NEW e \in Execs, TimerFires(e) PROVE Store!Next
  <2>1. firing = None /\ firing' = e /\ timer[e] = "armed"
        /\ UNCHANGED <<pc, resp, execs, cache>>
    BY <1>3 DEF TimerFires
  <2>2. keyOf[e] \in Keys /\ cache[keyOf[e]] = e
    BY <2>1 DEF IInv, FreshInv, TimersMatchCache
  <2>3. Spent' = Spent
    BY <2>1 DEF Spent
  <2>4. e # None
    BY ExecsAssumption DEF Execs, None
  <2> QED
    BY <2>1, <2>2, <2>3, <2>4 DEF Store!Next, Store!TimeOut
<1>4. CASE TimerErases
  <2>1. /\ firing # None /\ firing' = None
        /\ cache' = [cache EXCEPT ![keyOf[firing]] = None]
        /\ UNCHANGED <<pc, resp, execs>>
    BY <1>4 DEF TimerErases, Erased
  <2>2. keyOf[firing] \in Keys /\ cache[keyOf[firing]] = firing
    BY <1>4, <2>1, TimerErasesStep DEF IInv, TypeOK, LoopInv, FreshInv
  <2>3. Spent' = Spent
    BY <2>1 DEF Spent
  <2> QED
    BY <2>1, <2>2, <2>3 DEF Store!Next, Store!Expire
<1>5. ASSUME NEW c \in Conns, NEW n \in Sessions \cup {NoSession}, Execute(c, n)
      PROVE  UNCHANGED Store!vars
  BY <1>5, SpentExecute DEF Execute, Store!vars
<1>6. ASSUME NEW c \in Conns,
             \/ Reconnect(c) \/ PreProcess(c) \/ Reply(c)
             \/ \E i \in Ids, p \in known \cup {NoSession},
                   s \in Sessions \cup {NoSession} : Receive(c, i, p, s)
      PROVE  UNCHANGED Store!vars
  <2>1. /\ UNCHANGED <<execs, cache, firing>>
        /\ pc[c] \in {"idle", "pre", "reply"} /\ pc'[c] \in {"idle", "pre", "exec", "reply"}
        /\ \A d \in Conns \ {c} : UNCHANGED <<pc[d], resp[d]>>
    BY <1>6 DEF IInv, TypeOK, Reconnect, PreProcess, Reply, Receive
  <2>2. Spent' = Spent
    BY <2>1, SpentStays
  <2> QED
    BY <2>1, <2>2 DEF Store!vars
<1>7. CASE TimerMarks \/ UNCHANGED vars
  BY <1>7 DEF TimerMarks, vars, Spent, Store!vars
<1> QED
  BY <1>1, <1>2, <1>3, <1>4, <1>5, <1>6, <1>7 DEF Next

\* The cache, its timers and the hooks around it are a store that keeps a response
\* at most once and until its own time is over.
THEOREM ImplementsResponseStore == Spec => ImplementsStore
BY StoreInit, StoreStep, AlwaysInv, PTL DEF Spec, ImplementsStore, Store!Spec

-----------------------------------------------------------------------------
(* What the store promises                                                 *)

\* A response is cached under one key at most, and only once it is spent: whoever
\* kept it cannot keep it again.
OneKey ==
  /\ \A k \in Keys : cache[k] # None => cache[k] \in Spent
  /\ \A j, k \in Keys : (cache[j] = cache[k] /\ cache[k] # None) => j = k

\* A response that was replaced, or whose time is over, or that was not kept at all,
\* never answers a request again.
NeverAgain ==
  [][\A e \in Execs : (e \in Spent /\ \A k \in Keys : cache[k] # e)
       => \A k \in Keys : cache'[k] # e]_(Store!vars)

\* This follows from the abstract specification alone: what Keep adds is not spent,
\* and the other steps add nothing.
LEMMA StorePromises == Store!Spec => []OneKey /\ NeverAgain
<1> DEFINE Total == cache = [k \in Keys |-> cache[k]]
<1>1. Store!Init => Total /\ OneKey
  BY DEF Store!Init, OneKey
<1>2. ASSUME Total, OneKey, [Store!Next]_(Store!vars)
      PROVE  /\ Total' /\ OneKey'
             /\ \A e \in Execs : (e \in Spent /\ \A k \in Keys : cache[k] # e)
                  => \A k \in Keys : cache'[k] # e
  <2>0. \A e \in Execs : e # None
    BY ExecsAssumption DEF Execs, None
  <2>1. CASE UNCHANGED Store!vars
    BY <1>2, <2>1 DEF Store!vars, OneKey
  <2>2. ASSUME NEW r \in Execs, NEW k \in Keys, Store!Keep(r, k)
        PROVE  /\ Total' /\ OneKey'
               /\ \A e \in Execs : (e \in Spent /\ \A j \in Keys : cache[j] # e)
                    => \A j \in Keys : cache'[j] # e
    BY <1>2, <2>0, <2>2 DEF Store!Keep, OneKey
  <2>3. ASSUME NEW r \in Execs, Store!Discard(r)
        PROVE  /\ Total' /\ OneKey'
               /\ \A e \in Execs : (e \in Spent /\ \A j \in Keys : cache[j] # e)
                    => \A j \in Keys : cache'[j] # e
    BY <1>2, <2>3 DEF Store!Discard, OneKey
  <2>4. ASSUME NEW k \in Keys, Store!TimeOut(k) \/ Store!Expire(k)
        PROVE  /\ Total' /\ OneKey'
               /\ \A e \in Execs : (e \in Spent /\ \A j \in Keys : cache[j] # e)
                    => \A j \in Keys : cache'[j] # e
    BY <1>2, <2>0, <2>4 DEF Store!TimeOut, Store!Expire, OneKey
  <2> QED
    BY <1>2, <2>1, <2>2, <2>3, <2>4 DEF Store!Next
<1> QED
  BY <1>1, <1>2, PTL DEF Store!Spec, NeverAgain

\* So it holds of the cache with its timers and hooks, which implements the store:
\* an answer is never cached for two requests, and once it is gone it stays gone,
\* however the callbacks, the hooks and the retries interleave.
THEOREM ForgottenForGood == Spec => []OneKey /\ NeverAgain
BY ImplementsResponseStore, StorePromises, PTL DEF ImplementsStore

=============================================================================
