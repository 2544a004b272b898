------------------------- MODULE WebSocketRegistrar -------------------------
(***************************************************************************)
(* The client that announces the media server to a registrar               *)
(* (server/transport/websocket/WebSocketRegistrar.cpp): a thread that      *)
(* connects, stays connected, and connects again after a growing pause,    *)
(* and stop(), called by another thread.                                   *)
(***************************************************************************)
EXTENDS Naturals

CONSTANTS
  DefaultWait, \* DEFAULT_WAIT_TIME, in milliseconds
  MaxWait      \* MAX_WAIT_TIME, in milliseconds

ASSUME WaitAssumption ==
  /\ DefaultWait \in Nat
  /\ MaxWait \in Nat
  /\ DefaultWait <= MaxWait

VARIABLES
  addressValid, \* websocketpp can parse the registrar's address
  tls,          \* the address starts with "wss"
  registrar,    \* where the thread stands
  stopper,      \* where the caller of stop() stands
  finished,
  hasClient,    \* the pointer that stop() uses, client or secureClient, is set
  connection,   \* the handle: never set, of an open or of a lost connection
  iosStopped,   \* the io_service of the present client was stopped
  waitTime,
  late          \* history: connection was opened after stop() tried to close it

addressVars == <<addressValid, tls>>
registrarVars == <<addressVars, registrar, stopper, finished, hasClient,
                   connection, iosStopped, waitTime, late>>

RegistrarTypeOK ==
  /\ addressValid \in BOOLEAN
  /\ tls \in BOOLEAN
  /\ registrar \in {"off", "check", "create", "run", "after", "lock", "wait",
                    "woken", "done"}
  /\ stopper \in {"none", "close", "notify", "join", "returned", "crashed"}
  /\ finished \in BOOLEAN
  /\ hasClient \in BOOLEAN
  /\ connection \in {"none", "open", "lost"}
  /\ iosStopped \in BOOLEAN
  /\ waitTime \in 0 .. MaxWait
  /\ late \in BOOLEAN

RegistrarInit ==
  /\ addressValid \in BOOLEAN
  /\ tls \in BOOLEAN
  /\ registrar = "off"
  /\ stopper = "none"
  /\ finished = FALSE
  /\ hasClient = FALSE
  /\ connection = "none"
  /\ iosStopped = FALSE
  /\ waitTime = 0
  /\ late = FALSE

-----------------------------------------------------------------------------
(* The thread                                                              *)

\* start()
RegistrarStart ==
  /\ registrar = "off"
  /\ waitTime' = DefaultWait
  /\ finished' = FALSE
  /\ registrar' = "check"
  /\ UNCHANGED <<addressVars, stopper, hasClient, connection, iosStopped, late>>

\* while (!finished)
CheckFinished ==
  /\ registrar = "check"
  /\ registrar' = IF finished THEN "done" ELSE "create"
  /\ UNCHANGED <<addressVars, stopper, finished, hasClient, connection,
                 iosStopped, waitTime, late>>

\* A new client with an io_service of its own.  get_connection gives no
\* connection for an address that it cannot parse, and secure stays FALSE: stop()
\* will use client, which is not set if the address is a "wss" one.
CreateClient ==
  /\ registrar = "create"
  /\ hasClient' = (hasClient \/ ~tls \/ addressValid)
  /\ iosStopped' = FALSE
  /\ registrar' = IF addressValid THEN "run" ELSE "after"
  /\ UNCHANGED <<addressVars, stopper, finished, connection, waitTime, late>>

\* connectionOpen, inside run(): the server registers.
ConnectionOpen ==
  /\ registrar = "run"
  /\ connection # "open"
  /\ ~iosStopped
  /\ waitTime' = DefaultWait
  /\ connection' = "open"
  /\ late' = (stopper \in {"notify", "join"})
  /\ UNCHANGED <<addressVars, registrar, stopper, finished, hasClient,
                 iosStopped>>

\* run() returns: the attempt failed, ...
ConnectFails ==
  /\ registrar = "run"
  /\ connection # "open"
  /\ registrar' = "after"
  /\ UNCHANGED <<addressVars, stopper, finished, hasClient, connection,
                 iosStopped, waitTime, late>>

\* ... the registrar closed the connection or the network lost it, ...
RegistrarCloses ==
  /\ registrar = "run"
  /\ connection = "open"
  /\ connection' = "lost"
  /\ registrar' = "after"
  /\ UNCHANGED <<addressVars, stopper, finished, hasClient, iosStopped,
                 waitTime, late>>

\* ... or stop() stopped the io_service.
RunStopped ==
  /\ registrar = "run"
  /\ iosStopped
  /\ connection' = "lost"
  /\ registrar' = "after"
  /\ UNCHANGED <<addressVars, stopper, finished, hasClient, iosStopped,
                 waitTime, late>>

\* if (finished) break, before the mutex is taken ...
CheckAfterRun ==
  /\ registrar = "after"
  /\ registrar' = IF finished THEN "done" ELSE "lock"
  /\ UNCHANGED <<addressVars, stopper, finished, hasClient, connection,
                 iosStopped, waitTime, late>>

\* ... and the wait, which does not look at finished again.
BeginWait ==
  /\ registrar = "lock"
  /\ registrar' = "wait"
  /\ UNCHANGED <<addressVars, stopper, finished, hasClient, connection,
                 iosStopped, waitTime, late>>

\* Mutant: the bound is compared after the doubling.
Backoff_Late(w) == IF w < MaxWait THEN w * 2 ELSE MaxWait

\* Mutant: the pause starts over at the bound.
Backoff_Wraps(w) == IF 2 * w < MaxWait THEN w * 2 ELSE DefaultWait

\* waitTime < MAX_WAIT_TIME / 2, on durations that the bound's half is one of.
Backoff(w) == IF 2 * w < MaxWait THEN w * 2 ELSE MaxWait

\* wait_for ends by itself, or stop() has notified it.
EndWait ==
  /\ registrar \in {"wait", "woken"}
  /\ waitTime' = Backoff(waitTime)
  /\ registrar' = "check"
  /\ UNCHANGED <<addressVars, stopper, finished, hasClient, connection,
                 iosStopped, late>>

-----------------------------------------------------------------------------
(* stop()                                                                  *)

StopFinished ==
  /\ stopper = "none"
  /\ registrar # "off"
  /\ finished' = TRUE
  /\ stopper' = "close"
  /\ UNCHANGED <<addressVars, registrar, hasClient, connection, iosStopped,
                 waitTime, late>>

\* Mutant: the io_service is never stopped.
Stoppable_Never == FALSE

\* close() of a handle that is empty or whose connection is gone throws, and
\* catch (...) skips the io_service's stop().
Stoppable == connection = "open"

\* With a null pointer the behaviour is undefined: the call crashes, or it gets
\* as far as the empty handle and throws.
StopClose ==
  /\ stopper = "close"
  /\ iosStopped' = (iosStopped \/ (hasClient /\ Stoppable))
  /\ \/ stopper' = "notify"
     \/ ~hasClient /\ stopper' = "crashed"
  /\ UNCHANGED <<addressVars, registrar, finished, hasClient, connection,
                 waitTime, late>>

StopNotify ==
  /\ stopper = "notify"
  /\ registrar' = IF registrar = "wait" THEN "woken" ELSE registrar
  /\ stopper' = "join"
  /\ UNCHANGED <<addressVars, finished, hasClient, connection, iosStopped,
                 waitTime, late>>

StopJoin ==
  /\ stopper = "join"
  /\ registrar = "done"
  /\ stopper' = "returned"
  /\ UNCHANGED <<addressVars, registrar, finished, hasClient, connection,
                 iosStopped, waitTime, late>>

-----------------------------------------------------------------------------
RegistrarThread ==
  \/ CheckFinished \/ CreateClient \/ RunStopped \/ CheckAfterRun
  \/ BeginWait \/ EndWait

Network == ConnectionOpen \/ ConnectFails \/ RegistrarCloses

Stop == StopClose \/ StopNotify \/ StopJoin

RegistrarNext == RegistrarStart \/ RegistrarThread \/ Network \/ StopFinished \/ Stop

RegistrarSpec == RegistrarInit /\ [][RegistrarNext]_registrarVars

\* The thread and the caller of stop() go on; websocketpp gives an attempt up
\* after its handshake timeout.  A registrar need never close a connection.
RegistrarFairness(v) ==
  /\ WF_v(RegistrarThread)
  /\ WF_v(ConnectFails)
  /\ WF_v(Stop)
-----------------------------------------------------------------------------
(* Properties                                                              *)

\* connectRegistrar never pauses longer than MAX_WAIT_TIME, nor shorter than
\* DEFAULT_WAIT_TIME, however often it doubles the pause.
WaitBounded == registrar # "off" => waitTime \in DefaultWait .. MaxWait

\* The pause only gets shorter by connectionOpen: a registrar that refuses
\* connections is never asked more often than before.
WaitGrows == [][waitTime' < waitTime => connection' = "open"]_registrarVars

\* A connection that was opened after stop() had tried to close it: nobody
\* closes it.
LateConnection == late /\ connection = "open"

\* stop() returns, at the latest one pause later when its notification was
\* missed, unless a connection opens too late to be closed.
StopReturnsUnlessLate == stopper = "join" ~> stopper = "returned" \/ LateConnection

=============================================================================
