---------------------------- MODULE RequestCache ----------------------------
(***************************************************************************)
(* The cache of responses that makes a retried request harmless            *)
(* (server/RequestCache.cpp, server/CacheEntry.cpp and the preProcess and  *)
(* postProcess hooks of server/ServerMethods.cpp).                         *)
(*                                                                         *)
(* Handlers of different connections run the hooks concurrently; each call *)
(* of the cache takes its mutex, so a call is one step and what lies       *)
(* between two calls is not atomic.  Every entry owns a GLib timer that    *)
(* the main loop's thread fires; the entry dies in the callback of its own *)
(* timer, or when another entry replaces it.                               *)
(*                                                                         *)
(* A response is numbered by the execution that made it, and a cache entry *)
(* by the response it holds: an execution adds at most one entry.          *)
(***************************************************************************)
EXTENDS Naturals, FiniteSets

CONSTANTS
  Conns,      \* connections: the handlers of one never overlap
  Sessions,   \* session identifiers that may be generated
  Ids,        \* JSON-RPC request ids; a client that retries uses one again
  NoSession,
  MaxExecs    \* bound on the number of requests that are executed

ASSUME SessionAssumption == NoSession \notin Sessions

ASSUME IdsAssumption == Ids # {}

ASSUME ExecsAssumption == MaxExecs \in Nat

Execs == 1 .. MaxExecs
None  == 0
Keys  == Sessions \X Ids

VARIABLES
  chan,      \* the session that the transport stored for each connection
  pc,        \* where the handler of each connection stands
  id, sess,  \* the request it handles, sessionId injected
  resp,      \* the response it holds
  execs,     \* number of executions so far
  names,     \* the session that the result of each response names, if any
  keyOf,     \* the key under which postProcess looks for each response
  known,     \* the sessions that some client was told of
  cache,     \* key -> entry
  timer,     \* the GLib source of each entry
  firing,    \* the entry whose timer callback the main loop is running
  timedout,  \* that callback has set timedout
  answered,  \* history: the responses given for a key since it last expired
  promise,   \* history: the only answer that the request may get
  late       \* history: the handlers whose key expired when they had the answer

handlerVars == <<pc, id, sess, resp>>
execVars    == <<execs, names, keyOf>>
cacheVars   == <<cache, timer>>
loopVars    == <<firing, timedout>>
historyVars == <<answered, promise, late>>
vars == <<chan, handlerVars, execVars, known, cacheVars, loopVars, historyVars>>

\* A request that has no session, or whose response has none, has no key.
AnyKeys == (Sessions \cup {NoSession}) \X Ids
NoKey   == <<NoSession, CHOOSE i \in Ids : TRUE>>
Key(c)  == <<sess[c], id[c]>>

Busy   == {c \in Conns : pc[c] # "idle"}
Issued == {names[e] : e \in 1 .. execs}

TypeOK ==
  /\ chan \in [Conns -> Sessions \cup {NoSession}]
  /\ pc \in [Conns -> {"idle", "pre", "exec", "check", "add", "reply"}]
  /\ id \in [Conns -> Ids]
  /\ sess \in [Conns -> Sessions \cup {NoSession}]
  /\ resp \in [Conns -> Execs \cup {None}]
  /\ execs \in 0 .. MaxExecs
  /\ names \in [Execs -> Sessions \cup {NoSession}]
  /\ keyOf \in [Execs -> AnyKeys]
  /\ known \in SUBSET Sessions
  /\ cache \in [Keys -> Execs \cup {None}]
  /\ timer \in [Execs -> {"none", "armed", "fired"}]
  /\ firing \in Execs \cup {None}
  /\ timedout \in BOOLEAN
  /\ answered \in [Keys -> SUBSET Execs]
  /\ promise \in [Conns -> Execs \cup {None}]
  /\ late \in SUBSET Conns

Init ==
  /\ chan = [c \in Conns |-> NoSession]
  /\ pc = [c \in Conns |-> "idle"]
  /\ id = [c \in Conns |-> NoKey[2]]
  /\ sess = [c \in Conns |-> NoSession]
  /\ resp = [c \in Conns |-> None]
  /\ execs = 0
  /\ names = [e \in Execs |-> NoSession]
  /\ keyOf = [e \in Execs |-> NoKey]
  /\ known = {}
  /\ cache = [k \in Keys |-> None]
  /\ timer = [e \in Execs |-> "none"]
  /\ firing = None
  /\ timedout = FALSE
  /\ answered = [k \in Keys |-> {}]
  /\ promise = [c \in Conns |-> None]
  /\ late = {}

-----------------------------------------------------------------------------
(* The handler of a request                                                *)

\* The client drops its connection and opens another: no session is stored for
\* the new one.
Reconnect(c) ==
  /\ pc[c] = "idle"
  /\ chan' = [chan EXCEPT ![c] = NoSession]
  /\ UNCHANGED <<handlerVars, execVars, known, cacheVars, loopVars, historyVars>>

\* What the history promises a request with key k that connection c sends now:
\* the answer given before, if there is one, it has not expired, and no request
\* with this key is under way elsewhere.
Promised(c, k) ==
  IF /\ k \in Keys
     /\ \A d \in Busy \ {c} : Key(d) # k
     /\ Cardinality(answered[k]) = 1
  THEN CHOOSE r \in answered[k] : TRUE
  ELSE None

\* The thread of connection d may be writing connectionsReverse: it stores a new
\* session for d, or forgets the one that d had.
MayWrite(d) ==
  \/ pc[d] = "reply" /\ names[resp[d]] \notin {NoSession, chan[d]}
  \/ pc[d] = "idle" /\ chan[d] # NoSession

\* The session that a request of connection c with the sessionId p has: p, or the
\* session of the connection, which injectSessionId adds.  The transport looks it
\* up without its mutex, and may miss it while another thread writes.
Injected(c, p) ==
  IF p # NoSession THEN {p}
  ELSE {chan[c]} \cup {NoSession : d \in {e \in Conns \ {c} : MayWrite(e)}}

\* A request arrives with the id i and the sessionId p, or without sessionId; s
\* is its session.
Receive(c, i, p, s) ==
  /\ pc[c] = "idle"
  /\ s \in Injected(c, p)
  /\ execs + Cardinality(Busy) < MaxExecs
  /\ pc' = [pc EXCEPT ![c] = "pre"]
  /\ id' = [id EXCEPT ![c] = i]
  /\ sess' = [sess EXCEPT ![c] = s]
  /\ promise' = [promise EXCEPT ![c] = Promised(c, <<s, i>>)]
  /\ late' = late \ {c}
  /\ UNCHANGED <<chan, resp, execVars, known, cacheVars, loopVars, answered>>

\* getCachedResponse; a key without session is not looked for.
Cached(k) == IF k \in Keys THEN cache[k] ELSE None

\* Mutant: a response that came out of the cache goes through postProcess again.
PreProcess_Post(c) ==
  /\ pc[c] = "pre"
  /\ resp' = [resp EXCEPT ![c] = Cached(Key(c))]
  /\ pc' = [pc EXCEPT ![c] = IF Cached(Key(c)) = None THEN "exec" ELSE "check"]
  /\ UNCHANGED <<chan, id, sess, execVars, known, cacheVars, loopVars,
                 historyVars>>

\* preProcess: a cached response answers the request.
PreProcess(c) ==
  /\ pc[c] = "pre"
  /\ resp' = [resp EXCEPT ![c] = Cached(Key(c))]
  /\ pc' = [pc EXCEPT ![c] = IF Cached(Key(c)) = None THEN "exec" ELSE "reply"]
  /\ UNCHANGED <<chan, id, sess, execVars, known, cacheVars, loopVars,
                 historyVars>>

\* Mutant: only the parameters of the request are looked at.
CacheKey_Params(c, named) == Key(c)

\* Mutant: the session and the id change places.
CacheKey_Swapped(c, named) == IF named = NoSession THEN Key(c) ELSE <<id[c], named>>

\* postProcess takes the session from the result, if it names one, else from
\* the parameters of the request.
CacheKey(c, named) == IF named = NoSession THEN Key(c) ELSE <<named, id[c]>>

\* The method runs.  named is the session in its result: NoSession if it failed
\* or names none; a session generated for the request if that has none.
Execute(c, named) ==
  /\ pc[c] = "exec"
  /\ execs < MaxExecs
  /\ (named # NoSession /\ sess[c] # NoSession) => named = sess[c]
  /\ (named # NoSession /\ sess[c] = NoSession) => named \notin Issued
  /\ execs' = execs + 1
  /\ names' = [names EXCEPT ![execs'] = named]
  /\ keyOf' = [keyOf EXCEPT ![execs'] = CacheKey(c, named)]
  /\ resp' = [resp EXCEPT ![c] = execs']
  /\ pc' = [pc EXCEPT ![c] = "check"]
  /\ UNCHANGED <<chan, id, sess, known, cacheVars, loopVars, historyVars>>

\* postProcess, up to the decision to cache: not without a session, and not
\* when the key is cached.
CheckCache(c) ==
  LET k == keyOf[resp[c]] IN
  /\ pc[c] = "check"
  /\ pc' = [pc EXCEPT ![c] =
              IF k \in Keys /\ Cached(k) = None THEN "add" ELSE "reply"]
  /\ UNCHANGED <<chan, id, sess, resp, execVars, known, cacheVars, loopVars,
                 historyVars>>

\* Mutant: the source of a destroyed entry is left alone.
Destroyed_KeepSource(e, t) == t

\* ~CacheEntry: the source of an entry that has not timed out is destroyed.
Destroyed(e, t) ==
  IF e = None \/ (e = firing /\ timedout) THEN t ELSE [t EXCEPT ![e] = "none"]

\* addResponse: a new entry with its timer, in the place of the one before.
AddResponse(c) ==
  LET e == resp[c]
      k == keyOf[e] IN
  /\ pc[c] = "add"
  /\ cache' = [cache EXCEPT ![k] = e]
  /\ timer' = [Destroyed(cache[k], timer) EXCEPT ![e] = "armed"]
  /\ pc' = [pc EXCEPT ![c] = "reply"]
  /\ UNCHANGED <<chan, id, sess, resp, execVars, known, loopVars, historyVars>>

\* The session and the id for which a client that gets e on connection c may
\* retry.
AnswerKey(c, e) == IF names[e] = NoSession THEN Key(c) ELSE <<names[e], id[c]>>

\* The response leaves, and the transport stores the session that it names for
\* this connection and for no other.
Reply(c) ==
  LET e == resp[c]
      s == names[e]
      k == AnswerKey(c, e) IN
  /\ pc[c] = "reply"
  /\ pc' = [pc EXCEPT ![c] = "idle"]
  /\ chan' = IF s = NoSession THEN chan
             ELSE [d \in Conns |-> IF d = c THEN s
                                   ELSE IF chan[d] = s THEN NoSession
                                   ELSE chan[d]]
  /\ known' = known \cup ({s} \ {NoSession})
  /\ answered' = IF k \notin Keys \/ c \in late THEN answered
                 ELSE [answered EXCEPT ![k] = @ \cup {e}]
  /\ promise' = [promise EXCEPT ![c] = None]
  /\ resp' = [resp EXCEPT ![c] = None]
  /\ UNCHANGED <<id, sess, execVars, cacheVars, loopVars, late>>

-----------------------------------------------------------------------------
(* The timers, in the thread of the GLib main loop                         *)

\* The time between postProcess's two calls of the cache is far below the 20 s
\* of REQUEST_TIMEOUT: no entry times out while a handler that missed it is
\* still about to add its own.
AddIsPrompt(e) ==
  \A c \in Conns : pc[c] = "add" => keyOf[resp[c]] # keyOf[e]

TimerFires(e) ==
  /\ firing = None
  /\ timer[e] = "armed"
  /\ AddIsPrompt(e)
  /\ firing' = e
  /\ timedout' = FALSE
  /\ timer' = [timer EXCEPT ![e] = "fired"]
  /\ UNCHANGED <<chan, handlerVars, execVars, known, cache, historyVars>>

\* The callback sets timedout under the mutex of the entry, so that the
\* destructor leaves the source alone.
TimerMarks ==
  /\ firing # None
  /\ ~timedout
  /\ timedout' = TRUE
  /\ UNCHANGED <<chan, handlerVars, execVars, known, cacheVars, firing,
                 historyVars>>

\* The handlers under way with the key k, by their request or their response.
Using(k) ==
  {c \in Busy : Key(c) = k \/ (resp[c] # None /\ AnswerKey(c, resp[c]) = k)}

\* Mutant: an entry that is being asked for is kept.
Erased_Unused(k) ==
  IF \E c \in Busy : Key(c) = k THEN cache ELSE [cache EXCEPT ![k] = None]

\* The slot of signalTimeout: the entry under this key, if any, is erased.
Erased(k) == [cache EXCEPT ![k] = None]

TimerErases ==
  LET k == keyOf[firing] IN
  /\ firing # None
  /\ timedout
  /\ cache' = Erased(k)
  /\ timer' = [Destroyed(cache[k], timer) EXCEPT ![firing] = "none"]
  /\ firing' = None
  /\ timedout' = FALSE
  /\ answered' = [answered EXCEPT ![k] = {}]
  /\ promise' = [c \in Conns |-> IF c \in Using(k) THEN None ELSE promise[c]]
  /\ late' = late \cup {c \in Using(k) : pc[c] = "reply"}
  /\ UNCHANGED <<chan, handlerVars, execVars, known>>

-----------------------------------------------------------------------------
Next ==
  \/ \E c \in Conns :
       \/ Reconnect(c) \/ PreProcess(c) \/ CheckCache(c) \/ AddResponse(c)
       \/ Reply(c)
       \/ \E i \in Ids, p \in known \cup {NoSession}, s \in Sessions \cup {NoSession} :
            Receive(c, i, p, s)
       \/ \E s \in Sessions \cup {NoSession} : Execute(c, s)
  \/ \E e \in Execs : TimerFires(e)
  \/ TimerMarks
  \/ TimerErases

Spec == Init /\ [][Next]_vars

\* The threads of the handlers and the main loop go on, and the main loop
\* dispatches every source that is due.
Fairness ==
  /\ \A c \in Conns : WF_vars(CheckCache(c)) /\ WF_vars(AddResponse(c))
                                             /\ WF_vars(Reply(c))
  /\ \A e \in Execs : SF_vars(TimerFires(e))
  /\ WF_vars(TimerMarks)
  /\ WF_vars(TimerErases)

FairSpec == Spec /\ Fairness
-----------------------------------------------------------------------------
(* Properties                                                              *)

\* Every cached entry has a timer that will erase it, and every source that may
\* still fire belongs to the entry cached under its key: nothing is cached for
\* ever, and no callback finds its entry destroyed (the lambda of CacheEntry
\* captures this), when duplicates race through postProcess.
TimersMatchCache ==
  /\ \A k \in Keys : cache[k] # None =>
       keyOf[cache[k]] = k /\ timer[cache[k]] # "none"
  /\ \A e \in Execs : timer[e] # "none" => cache[keyOf[e]] = e

\* The erasure of a timeout slot destroys the entry that timed out and no entry
\* that took its place; the entry lives through its callback until then.
ErasesItself ==
  [][TimerErases => cache[keyOf[firing]] = firing]_vars

\* A retry gets the answer given before and the method does not run again, if
\* no request with its key is under way elsewhere and the answer has not timed
\* out: over the same connection, over a new one, and also when the first
\* request had no session and the retry is given the one that came of it.  A retry
\* whose session the transport missed has no key, and is promised nothing.
RetryAnswered ==
  \A c \in Conns : promise[c] # None =>
    /\ pc[c] \in {"pre", "reply"}
    /\ pc[c] = "reply" => resp[c] = promise[c]

\* The responses that postProcess is done with, whether it kept them or not.
Spent ==
  {e \in 1 .. execs :
     \A c \in Conns : pc[c] \in {"check", "add"} => resp[c] # e}

Store == INSTANCE ResponseStore
           WITH Responses <- Execs, store <- cache, spent <- Spent, dying <- firing

\* Whatever handlers and the main loop do in between, the calls of the cache are
\* those of a store that keeps a response once, under one key, and in which an
\* entry that is timed out is neither replaced nor outlives another one's timeout.
ImplementsStore == Store!Spec

\* Every entry goes, even if its key is asked for again and again.
EntryExpires ==
  \A e \in Execs : (\E k \in Keys : cache[k] = e) ~> (\A k \in Keys : cache[k] # e)

=============================================================================
