# TLA+ models of the Kurento Media Server

The Kurento Media Server (`src/server`) is a process that lets clients create
and use media objects over JSON-RPC on WebSockets.  The media objects, the
JSON-RPC dispatcher and the registry of sessions (`MediaSet`) live in other
repositories; what is here is the server around them: the transport, the
methods, the cache that makes retries harmless, the registrar client and the
life of the process.  This directory models that, checks it with TLC, and
proves the parts that matter most with TLAPS.  Paths below are relative to
`src/server` unless they start with `src/`.

## Inventory

| Component | State | Operations | What makes it correct |
|---|---|---|---|
| **WebSocketTransport** (`transport/websocket/WebSocketTransport.cpp`) | `connections`, `connectionsReverse`, `secureConnections`, the recursive mutex, `handlers`, `running`, the thread pool | `openHandler`, `processMessage`, `storeConnection`, `closeHandler`, `send`, `processSubscription`, `keepAliveSessions`, `start`, `stop` | the two maps are inverse; a dead connection is forgotten; an event goes to the listener of its connection; a registered session is kept alive; handlers end |
| **Response cache** (`RequestCache.cpp`, `CacheEntry.cpp`, `preProcess` and `postProcess` of `ServerMethods.cpp`) | session -> request id -> entry; each entry has a GLib timer and `timedout` | `getCachedResponse`, `addResponse`, the timer's callback, the destructor | a retry gets the first answer; an entry has exactly one live timer; a timeout erases its own entry; everything expires |
| **ServerMethods** (`ServerMethods.cpp`) | the JSON-RPC handler, the cache, `instanceId`; effects in `MediaSet` | `create`, `invoke`, `describe`, `subscribe`, `unsubscribe`, `ref`, `unref`, `release`, `closeSession`, `connect`, `ping`, `keepAlive`, `transaction` | operations of a transaction run themselves, in one session, up to the first failure, and refer only to what earlier ones of the same transaction answered |
| **WebSocketRegistrar** (`transport/websocket/WebSocketRegistrar.cpp`) | `finished`, `waitTime`, `client`, `secureClient`, `connection`, a thread | `start`, `stop`, `connectRegistrar`, `connectionOpen` | the pause grows within its bounds; `stop` returns |
| **Process life cycle** (`main.cpp`) | the main loop, `__terminated`, the threads of the transport | `main`, `signal_handler` | the process ends when told to; no thread uses what is deleted |
| **Event subscriptions** (`processSubscription`, `WebSocketEventHandler.cpp`) | `handlers`: weak pointers shared by subscriptions | subscribe, unsubscribe, `sendEvent` | a client gets each event once while it has a subscription and not afterwards; a shared handler lives as long as any of its subscriptions |
| **ResourceManager** (`ResourceManager.cpp`) | two cached system limits | `checkResources`, `killServerOnLowResources` | creation is refused above the limit, up to one object per thread of the pool; the check itself survives; an idle server above the limit is killed |
| **Configuration** (`loadConfig.cpp`) | a property tree | `loadConfig`, `loadFile`, `mergePropertyTrees`, `loadModulesConfig` | later files override earlier ones and nothing else is lost; only a conflict stops the server |
| **Logging**, **death handler**, **modules**, **version**, **transport factory** | - | I/O, formatting, tables | - |

How they interact.  websocketpp runs the handlers of the connections in a pool
of threads; the handlers of one connection never overlap.  `processMessage`
calls `ServerMethods::process`, which goes through the JSON-RPC handler: the
`preProcess` hook (cache look-up), the method (which calls `MediaSet`), the
`postProcess` hook (cache insertion).  Back in the transport,
`storeConnection` registers the session of the response for the connection and
keeps it alive in `MediaSet`.  Media objects emit events from threads of their
own into `send`.  The keep-alive thread copies the registered sessions and
keeps them alive one by one; `MediaSet` collects a session that was not used
for a whole interval.  The timers of the cache fire in the GLib main loop,
which is the main thread until a signal quits it; then `main` stops and joins
everything.

What is hard here: the interleavings of handlers of different connections that
fight for one session; look-ups without the lock; work on a copy of the keys;
the gap between the cache's look-up and its insertion; callbacks that capture
`this`; stop signals that arrive in the wrong place; transactions whose
operations interleave with everything else; handlers of events that live by
weak pointers; a check of resources that several threads pass together; a merge
whose result hangs on the order of files.  `PROJECT.json` lists each such
place as a hazard, with the properties that cover it or the reason why none
does.

## Modules

| Module | Models | Used by |
|---|---|---|
| `SessionRegistry` | abstract: who answers for which session | implemented by `WebSocketTransport`, base of `EventSubscriptions` |
| `WebSocketTransport` | connections, sessions, message handling, keep-alive, events | `WebSocketTransport_proofs`, `MCWebSocketTransport` |
| `ResponseStore` | abstract: how long a response is kept | implemented by `RequestCache` |
| `RequestCache` | the cache, its timers and the two hooks | `RequestCache_proofs`, `MCRequestCache` |
| `ServerMethods` | the methods, transactions, the cache around them | `ServerMethods_proofs`, `MCServerMethods` |
| `WebSocketRegistrar` | the registrar client | extended by `ServerLifecycle` |
| `ServerLifecycle` | `main`, signals, the transport's threads, with the registrar | `ServerLifecycle_proofs`, `MCServerLifecycle` |
| `EventSubscriptions` | `subscribe`, `unsubscribe`, shared handlers, events | `EventSubscriptions_proofs`, `MCEventSubscriptions` |
| `ResourceLimits` | `checkResources` in `create` and when the last object goes | `ResourceLimits_proofs`, `MCResourceLimits` |
| `ConfigLoading` | which files of the configuration are read, and when | `ConfigLoading_proofs`, extended by `ConfigMerge` |
| `ConfigMerge` | how a file is merged with those before | `MCConfigMerge` |

**SessionRegistry** is what the transport promises, whatever its maps, its mutex
and its threads: a session has at most one connection and a connection at most
one session, a session changes hands in one step, and a connection that departed
never comes back.  `WebSocketTransport` implements it
(`ImplementsRegistry`, with `registry <- connections` and the closed connections
as `departed`), and `EventSubscriptions` uses its actions in place of the maps.

**WebSocketTransport.**  The three maps are total functions with `NoConn`,
`NoSession` and `"none"` for missing keys.  `pc[c]` is where the message handler
of connection `c` stands: `read` (the look-up without the mutex), `process`,
`store`, `keepAlive` (inside `storeConnection`, mutex held), `reply`; `wedged`
is a connection whose handler let an exception escape into `run()`, after which
it is up to websocketpp whether the connection is read again.  The search of
`connectionsReverse` at line 552 races with writers; the model lets it miss the
key whenever another thread may be writing (`MayWrite`), and nothing worse.  Two
calls write that map: a `storeConnection` that stores something new
(`StoreWrites`), and the `closeHandler` of a connection that has a session
(`CloseWrites`); for another one, `at` throws at 634 before anything is erased.
A client names any session, one that was generated or one it made up: what
`MediaSet` does not know it creates.  `MediaSet` is
external: `inUse[s]` is its mark of a session, cleared by `Collect`.  Critical
sections without a call into another component are one action.

**ResponseStore** is what the cache promises without its timers, threads and hooks:
a response is kept at most once, under one key, until another one replaces it or
its own time is over, and one that is timed out is neither replaced nor goes
when another one times out.  `RequestCache` implements it (`ImplementsStore`):
`store` is the cache, `spent` are the responses that `postProcess` is done with
and `dying` is the entry whose callback runs.  A response that came out of the
cache is never put into it again.

**RequestCache.**  A response is named by the execution that made it.  `firing`
and `timedout` are the timer callback that the main loop is running.  The
`answered`, `promise` and `late` variables are history for `RetryAnswered` only.
Two requests with the same key that overlap are both executed, since
`postProcess` (347-352) looks for the response after the method ran;
`RetryAnswered` is about retries that do not overlap.  `late` are the
handlers whose key expired when they had their answer already: what they
answer then is not promised to a retry.  `Receive` takes the session that the
transport injects, which is none when the look-up without the mutex missed it
(`Injected`): such a retry has no key, nothing is promised to it, and the method
runs again; that is the finding of `channel_session`.  A handler that computes its answer after the
expiry is not late.  The model is of a server with its cache enabled (the
default; `disableRequestCache` leaves both hooks out).

**ServerMethods.**  `holders[o]` are the sessions that hold media object `o` in
`MediaSet`; `born` and `worked` are history.  `describe`, `subscribe` and `ref` do
the same to an object (the session holds it from the look-up on), answer with no
object, and are one method, `use`, which may do less than one of them would but
never more.  `invoke` also answers with what the object's own method returns (605),
and that can be any object that exists, whoever made it; what is not the
identifier of an object is `NoObject`, which no look-up finds.  A request, and an
operation of a transaction, names any session and any object, or (an operation)
the result of another one.  A `transaction` as an operation of a transaction is
left out: `transaction` would run itself again inside `RunOperation`.
The race of `postProcess` and the timers are `RequestCache`'s subject, so here
`postProcess` is atomic and an entry expires at any time.

**WebSocketRegistrar, ServerLifecycle.**  `WebSocketRegistrar` has the
connecting thread and the caller of `stop()`; `ServerLifecycle` extends it, makes
that caller the main thread, and adds signals, the pool and the keep-alive
thread.  An address that websocketpp cannot parse is one of the initial states;
with a null client pointer (stopped before the first client, or a `wss` address
that cannot be parsed) `stop()` either crashes or throws.  `stop()` closes the
connection before it stops the `io_service` (82-88), so a connection that opens
after that is never closed by this side: `StopReturnsUnlessLate` and `QuitEnds`
except exactly that case.

**EventSubscriptions.**  All the subscriptions of a session to one type of event
of one object share a handler.  `subs` are the shared pointers that `MediaSet`
keeps, one for each subscription; `handlers` (the transport) and `connected` (the
object) are weak.  A handler is `Alive` while a subscription, a local variable of
`processSubscription` or a call of `sendEvent` owns it.  `processSubscription` is
six steps under the mutex, since an event, an `unsubscribe` and a release in
`MediaSet` do not take it.  Each session is one client's, which opens its
connections one after the other, and the old one may be closed at any time after
the new one is there: that is the reconnection the code is written for, and
clients that fight for a session are `WebSocketTransport`'s subject.  `due`, `told`,
`answered` and `stolen` are history.

**ResourceLimits.**  Only the numbers matter: `objects` media objects and `sockets`
connections, with constants for what each uses.  The thread check, the file check
and the creation are three steps, in any number of handlers.  A process without a
descriptor to spare reads 0 threads (the stream of `/proc/self/stat` does not open)
and crashes in the file check (`opendir` returns a null pointer, which `readdir`
reads); `blind` counts the first.  The number of open files includes `.`, `..` and the
descriptor of the directory itself (`OwnEntries`).  The product of the maximum and
the percentage is exact, in the code it is a `float`.

**ConfigLoading, ConfigMerge.**  `ConfigLoading` is the control: `open` is the stack of
directory iterators, and which entry comes next is the file system's choice.
A file is read once, so what it contains (a tree or something that the parser
refuses) is chosen in `Init`.  What is done to the configuration when a file
comes is a constant operator (`WithFile`, `WithModule`, `ModuleKey`, `Writable`), so
that the control can be reasoned about without trees.  `ConfigMerge` defines
trees and these operators (`MergeFile`, `MergeModule`, `KeyOf`, `NoMixedNode`), and
`MCConfigMerge.cfg` assigns them.  A tree has a value and an ordered list of children
whose keys are sequences of names, because a section `[a.b]` of an `.ini` file is
one key of the file and a path for `get_child` and `add_child`.  `Merge` is
`mergePropertyTrees`.  Arrays are values; one at the root of a file, which no
configuration has, is left out, and so is a main file that sets something below
`modules`.

## Runs

| Run | Question | Instance | Result |
|---|---|---|---|
| `transport` | is the bookkeeping right under every interleaving? | a plain and a TLS connection, 2 sessions, 2 threads | holds |
| `transport_live` | do handlers end, are departed clients forgotten? | the same with 1 session, fair | holds |
| `cache` | are timers and entries matched, retries harmless? | 2 connections, 1 session, 1 id, 4 executions, fair | holds |
| `lifecycle` | does the process end cleanly, is the pause right? | 2 pool threads, the code's 100 ms and 10 s, fair | holds |
| `methods` | do transactions keep to themselves? | 2 connections, 2 sessions, 2 objects, 1 id, 2 requests, 5 shapes of transaction | holds |
| `events` | does a client get an event once, while it is subscribed? | 2 clients, one reconnects, 1 event, 2 requests to subscribe, 1 emission | holds |
| `limits` | how far are the limits exceeded, what can crash? | 3 handlers, 9 requests, limits of 9 threads and files | holds |
| `config` | which files are merged, and what is in effect then? | a main file, 2 locations, 4 module files, 5 contents | holds |
| `no_secure_leak` | has a forgotten session no entry in `secureConnections`? | as `transport` | **violated** |
| `channel_session` | does a request get the session of its connection? | as `transport` | **violated** |
| `signal_ends` | does a signal end the process? | as `lifecycle` | **violated** |
| `idle_kill` | is a server without objects above the limit killed? | as `limits`, fair | **violated** |

What the properties say is written above each of them.  The passing ones:
`MapsInverse`, `NoGhost`, `EventOnOwnServer`, `RegisteredSurvives`,
`OnlyTakenOver`, `ImplementsRegistry`, `HandlerEnds`, `DepartedForgotten`; `TimersMatchCache`,
`RetryAnswered`, `ErasesItself`, `ImplementsStore`, `EntryExpires`; `NoThreadLeft`, `WaitBounded`,
`WaitsEnd`, `WaitGrows`, `QuitEnds`, `StopReturnsUnlessLate`; `FreshAnswers`, `RefsOwn`,
`StopsAtFailure`, `OneSession`; `OncePerSession`, `SubscribedIsConnected`,
`SilentAfterUnsubscribe`, `AnsweredIsHeard`; `ThreadsBounded`, `CrashNeedsConnections`;
`AllLoaded`, `LastWins`, `RestKept`, `ModuleAlone`, `AbortsOnConflict`.

What the violations show:

- `storeConnection` (496-497) forgets a connection's old session in two of the
  three maps; `secureConnections` keeps it for good.  (`send` also inserts by
  `operator[]`, but only for sessions that `connections` holds.)
- `processMessage` (552) reads a map that other threads write.
- `signal_handler` (`main.cpp`, 84-89) spends its one chance on a loop that does
  not run yet.
- `killServerOnLowResources` (`ResourceManager.cpp`, 171-186) looks at the limit only
  inside `signalEmptyLocked`: a server that has no object and whose connections
  take the descriptors afterwards stays as it is, although the configuration
  file says that it is killed.

What some of the passing ones had to except, and so also show:

- `AnsweredIsHeard` excepts a session that a connection stored after its client had
  left it: a slow handler takes the session away from the client's new connection.
- `ThreadsBounded` counts the checks that could not read the number of threads.
- `LastWins` excepts sections of the main file that are `Hidden`: after
  `[a.b.c]`, a section `[a.b]` makes a second node of the same name, and
  `get_child` finds the first.  The shipped `kurento.conf.ini` has its sections in the
  other order.  The file of a module is merged twice, which unites them.
- `AbortsOnConflict` says when a configuration that could be parsed still ends the
  process: a value in one file and an object below it in a later one make a node
  that `write_json` (268) refuses, for the sake of a line in the log.

### Bounds

Every bound is a constant or a guard that names it.

- Two connections, one per listener, are what every takeover needs: one holder
  and one contender; both moves between plain and TLS occur.  Two sessions let a
  connection change its session while the other one takes the old.
- `MaxExecs = 4`: an answer that expires, two duplicates that race to replace
  it, and the retry whose answer must be the cached one of the two.  With three, a
  duplicate that answers after an expiry has no retry that could miss its answer.
  One session and one id are enough with fairness, since entries of different
  keys do not meet except through a session that a response opens, which one
  request without session shows; the proofs cover any number.
- `MaxRuns = 2` requests in `methods`, each with up to three operations: two
  transactions at once, or a transaction beside any method, in one session or in
  two, on their own objects or on each other's.  A request is taken only while
  its execution is within the bound, and `BoundReached` stutters after the last.
  The transactions are those of `MCTransactions`, which is closed under the
  symmetries.
- Two pool threads show a join that waits for some but not all.
- `events`: one client whose two connections may overlap and a second client;
  two requests to subscribe are one that makes a handler and one that shares it, or
  two that race with the destruction of the first's; one emission, at any
  point of them, because what handlers hear of one event does not depend on
  another.
- `limits`: the limits, 9 threads and 9 descriptors of 12, are below and above
  what three handlers can make together; connections may take every descriptor;
  nine requests are three for each handler.
- `config`: the contents are the shapes that a merge can go wrong on: sections
  with a dotted key, in both orders, a value where others have sections, an empty
  section.  The locations give two files with the same key, one file
  below the key of another, and one that stands alone; all orders of the entries
  occur.  The main file has no section `modules` of its own, so it shares no key
  with the file of a module.
- Sessions (`transport`), objects, connections and sessions (`methods`) and
  handlers (`limits`) are symmetric in these runs, which check safety only.

### Assumptions about time

The models have no clock.  Two relations between durations are stated as guards:

- `AddIsPrompt` in `RequestCache`: no entry times out (20 s) while a handler that
  missed it stands between the two consecutive calls of `postProcess`.
- `Collect` in `WebSocketTransport` waits for one whole keep-alive round since the
  last sweep: the thread waits a quarter of the collector's interval (399).

### Fairness

Weak fairness of a thread's steps is what the operating system gives a thread
that can run.  Steps that take the transport's mutex (`StoreConnection`,
`CloseHandler`, `KeepAliveSnapshot`) have strong fairness: others may take the
mutex again and again, but a waiter gets it eventually.  `TimerFires` has strong
fairness because the GLib loop dispatches one source at a time and every due
source in turn.  `ConnectFails` is weakly fair because websocketpp gives up a
handshake after its timeout; nothing makes a registrar accept, or close, a
connection, a client leave, or a signal come, so those steps have none.  In
`idle_kill` the handlers and the arrival of the signal are fair.

## Proofs

TLAPS proves the following for every value of the constants, from the named
assumptions of the modules: a no-value is not a value, the pool is not empty, the
bounds are numbers, the two pauses are ordered, the handlers are finitely many,
the idle server is within its limits (`RoomAssumption`), a client
opens its connections one after the other, and there is a topic
(`ClientsAssumption` of `EventSubscriptions`), and the unique id of a
transaction, which is a UUID, is no id that a client chooses (`IdsAssumption` of
`ServerMethods`), and directories have files and directories in them
(`FilesAssumption`).

- **`WebSocketTransport_proofs`**: `TypeCorrect`, `MapsAlwaysInverse`,
  `NeverGhost`, `EventsOnOwnServer`, `LosesOnlyByTakeover`,
  `RegisteredNotCollected`, `ImplementsSessionRegistry`, `MutexHeldByOneStore`.
  `MapsInverse` is inductive with the types, since
  only `StoreConnection` and `CloseHandler` write the maps (`WhoWritesMaps`).
  `NoGhost` needs that a closed connection's handler is idle, which
  the strand gives.  `EventOnOwnServer` is not inductive: the strengthening says
  that the entry of a registered session is that of its connection's listener,
  except while `storeConnection` is between the maps and the flag, and that the
  mutex keeps everybody else out of that window.  `RegisteredSurvives` rests on
  an invariant of the keep-alive round: a registered session that `MediaSet`
  knows is used already, or still on the list of the round, or about to be kept
  alive by the `storeConnection` that registered it.
  `ImplementsSessionRegistry`: `CloseHandler` is `Depart`, `StoreConnection` is
  `Take` or a stutter, and every other step stutters; that the erasures of
  `storeConnection` add up to one `Take` needs `MapsInverse`, and that it does not
  take a session for a departed connection needs `NoGhost`'s invariant.
  `MutexHeldByOneStore`: the mutex is locked between two steps exactly while one
  `storeConnection` stands at its call of `MediaSet`, so no handler leaves it
  locked and none waits for itself.
- **`RequestCache_proofs`**: `TypeCorrect`, `TimersAlwaysMatch`,
  `TimeoutErasesItself`, `RetriesAnswered`, `ImplementsResponseStore`,
  `ForgottenForGood`.  The inductive
  invariant adds to `TimersMatchCache` what the step between the two calls of
  `postProcess` relies on: a response on its way into the cache has no timer yet
  and belongs to one handler only, and while a callback runs nobody is about to
  replace its entry, which is where the timing assumption `AddIsPrompt` enters.
  `RetryAnswered` needs four more parts (`RetryInv`).  Clients know only sessions
  that were issued, and a session that is about to be told is known to nobody
  (`SessionsInv`); so the key under which `postProcess` caches a response is the
  one under which its client may retry (`KeysInv`).  What was answered for a key
  since it last expired is cached, or the cached response is one that some
  handler has yet to answer (`AnswersInv`).  A promised answer stays cached until
  the retry has read it, and nobody is computing another one for its key
  (`PromiseInv`); `PromiseHolds` is that this is true when the retry arrives.
  `ImplementsResponseStore`: `AddResponse` is `Keep`, `CheckCache` that does not go on to
  add is `Discard`, `TimerFires` is `TimeOut`, `TimerErases` is `Expire`, and
  every other step stutters.  What the abstract store promises is therefore true
  of the cache: `StorePromises` says of `ResponseStore` alone that a response is
  kept for one key and, once forgotten, for ever, and `ForgottenForGood` carries
  it over to the callbacks, hooks and retries.
- **`ServerLifecycle_proofs`**: `TypeCorrect`, `AllThreadsJoined`, `PauseBounded`,
  `PauseGrows`, `NoWaitInVain`, `ImplementsRegistrar`.  The strengthening says what has been joined at each step of
  `main`, and that a thread that is done stays done; the pause is bounded by the
  lemma `BackoffBounds` on the doubling.  `NoWaitInVain` is about the joins of
  `stop`: what each of them waits for was told to end before.  It needs `StopInv`:
  a connection is open only while the client's thread is in `run()` with a client,
  and once `stop` has passed its call of `close`, the `io_service` of an open
  connection is stopped, so that `run()` returns, or the connection opened too late.  `ImplementsRegistrar` is that the steps of
  `main` and the signals call `start` and `stop` of the registrar once and in
  the order that `WebSocketRegistrar`, specified on its own, expects.
- **`EventSubscriptions_proofs`**: `TypeCorrect`, `EventsOnce`,
  `SubscribersConnected`, `AnsweredHeard`, `UnsubscribedSilent`, `StoreNeverRefused`,
  `RunsOnRegistry`.  That a client gets
  an event once rests on a chain of facts, the parts of `SubscriptionsInv`: the
  local pointer is held exactly while the mutex is (`LockHeld`), the number of
  a subscription is used once (`NumbersFresh`), a pointer leads to a handler made
  for what it is used for, which its object knows (`HandlersMade`), and of one
  session and type of event at most one handler is alive (`OneAlive`), because
  a handler that died never comes back (`NoNewLife`).  So the handlers that an
  emission has still to call are of sessions that have not got the event
  (`SessionsOnce`).  `SubsAreDue` and `HeardLast` carry the other three.
  `RunsOnRegistry` says that what `WebSocketTransport` was proved to implement is what
  the model's connections do, and `StoreNeverRefused` that the guard which
  `SessionRegistry` puts on a store, and the code does not have, never holds a
  handler back.
- **`ServerMethods_proofs`**: `TypeCorrect`, `AlwaysFreshAnswers`, `AlwaysRefsOwn`,
  `AlwaysStopsAtFailure`, `AttachesToOneSession`, `ObjectsStayGone`.  The invariant `MethodsInv` adds to
  the properties: what each place of a handler says of its request and its
  responses (`Handling`); that no two handlers are in one execution (`OneRun`); that
  an entry of the cache under the id of an operation is of one that ran, so that
  the operation that is next finds nothing under its id (`CachedPast`, which gives
  `NotCached`), where `IdsAssumption` enters; that the results of a transaction
  have the values that their methods give (`Answered`), which gives `RefsOwn`;
  that what is held was made by an execution (`HeldWasMade`), so that `invoke`
  answers with nothing else; and that executions to come are counted (`RoomLeft`),
  so that numbers of executions are not used twice.
  `ObjectsStayGone`: only the outcome of an execution changes what is held
  (`WhoMakesObjects`), and it makes an object that did not exist before, so what
  the last session dropped is not brought back by a retry, a reference or a late
  request.
- **`ResourceLimits_proofs`**: `TypeCorrect`, `ThreadsAlwaysBounded`,
  `CrashOnlyWithConnections`.  The bounds are not inductive: a handler
  that passed the check makes its object later.  The invariants count the
  objects that exist together with those to come (`PassedThreads`,
  `PassedFiles`); a check adds one only when it found the sum of what exists
  within the limit, and at most as many are to come as there are handlers.
- **`ConfigLoading_proofs`**: `EveryFileLoaded` and `NothingElseLoaded`, for every tree of directories and
  whatever merging does.  The invariant says that there is a set of directories
  with those of the visited locations in which each entry is done with: still
  before one of the iterators, or a directory of the set, or a file that was
  merged or cannot be parsed (`Covers`).  When no iterator is left the set is
  closed under subdirectories, so it has every directory that the modules path
  leads to.  `NothingElseLoaded` is the converse: every iterator stands in a
  directory that the modules path leads to.  Together: the files that are merged
  are exactly the main file and those below a location that can be parsed.

Only model-checked: the liveness properties (out of the prover's reach; the
safety that they rest on is proved: `NoWaitInVain` for `QuitEnds` and
`StopReturnsUnlessLate`, `MutexHeldByOneStore` for `HandlerEnds` and
`DepartedForgotten`, `TimersAlwaysMatch` for `EntryExpires`), the
properties of `ConfigMerge` about what is in a tree (trees and their merge are
recursive, and what a recursive definition computes needs an induction that the
provers cannot do), and of course the violations.

## Not modelled, and why

- `MediaSet`, the JSON-RPC handler, websocketpp and GLib are outside the
  repository; what `src/server` relies on is in the actions marked external
  in `PROJECT.json`.  The locks of `MediaSet`, and so a dead-lock between them and
  the transport's mutex (`send` from an event thread while `storeConnection`
  calls `MediaSet` with the mutex held), cannot be judged from here.
- Torn reads of `client`, `connection` (registrar) and of the `std::map` at
  line 552: undefined behaviour beyond the outcomes named above.
- Failures of `MediaSet::keepAliveSession` other than `INVALID_SESSION`.
- A reference with a negative or huge index in a transaction, and a transaction
  inside another.
- The growth of `handlers`: entries whose handler is gone are never erased
  (`EventSubscriptions` keeps them as the code does), which no document denies.
- The size of all logs, a product of two options in `int`.
- What a media object, a connection and an idle server use: numbers of
  `ResourceLimits`.
- TLS and socket set-up, the register message, log formatting, the stack trace
  printer, module loading, the version report: I/O and text.

## Plan

All components with logic of their own are modelled: `WebSocketTransport`,
`RequestCache`, `WebSocketRegistrar` and `ServerLifecycle`; `ServerMethods`;
`EventSubscriptions` on top of `SessionRegistry`; `ResourceLimits`;
`ConfigLoading` and `ConfigMerge`.  Every safety property that does not hang on the
contents of trees is proved.  What could be added: that `ServerMethods`, whose cache
is atomic, uses its responses as `ResponseStore` allows; a step of its `Expire` would
stand for two of the abstract store (`TimeOut` and `Expire`), so that needs an
auxiliary step between them.
