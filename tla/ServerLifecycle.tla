--------------------------- MODULE ServerLifecycle ---------------------------
(***************************************************************************)
(* The life of the media server's process: main() and its signal handler   *)
(* (server/main.cpp), start(), stop() and the threads of the transport     *)
(* (server/transport/websocket/WebSocketTransport.cpp), and the registrar  *)
(* client that the transport owns (module WebSocketRegistrar).             *)
(***************************************************************************)
EXTENDS WebSocketRegistrar

CONSTANT Workers  \* the threads of the transport's pool

VARIABLES
  main,         \* where the main thread stands
  terminated,   \* signal_handler's static __terminated
  loop,         \* the GLib main loop: not run yet, running, quit
  running,      \* the transport's flag for the keep-alive thread
  keepAlive,    \* where the keep-alive thread stands
  worker,       \* where each thread of the pool stands
  serversStopped, \* server.stop() and secureServer.stop() stopped the io_service
  hasRegistrar  \* the configuration names a registrar

mainVars == <<main, terminated, loop>>
transportVars == <<running, keepAlive, worker, serversStopped>>
vars == <<mainVars, transportVars, hasRegistrar, registrarVars>>

Ended == {"exited", "failed", "killed", "crashed"}

TypeOK ==
  /\ RegistrarTypeOK
  /\ main \in {"boot", "config", "create", "startWorkers", "startThreads", "run",
               "loop", "stopFlag", "stopServers", "joinWorkers", "stopRegistrar",
               "joinRegistrar", "joinKeepAlive", "deleteMediaSet"} \cup Ended
  /\ terminated \in BOOLEAN
  /\ loop \in {"idle", "running", "quit"}
  /\ running \in BOOLEAN
  /\ keepAlive \in {"off", "check", "visit", "wait", "done"}
  /\ worker \in [Workers -> {"off", "idle", "busy", "done"}]
  /\ serversStopped \in BOOLEAN
  /\ hasRegistrar \in BOOLEAN

Init ==
  /\ RegistrarInit
  /\ main = "boot"
  /\ terminated = FALSE
  /\ loop = "idle"
  /\ running = FALSE
  /\ keepAlive = "off"
  /\ worker = [w \in Workers |-> "off"]
  /\ serversStopped = FALSE
  /\ hasRegistrar \in BOOLEAN

Alive == main \notin Ended

\* The main thread goes from one step to the next and changes nothing else of
\* its own.
Step(from, to) == main = from /\ main' = to

-----------------------------------------------------------------------------
(* Signals                                                                 *)

\* SIGINT or SIGTERM before sigaction kills the process.
SignalBeforeHandler ==
  /\ Step("boot", "killed")
  /\ UNCHANGED <<terminated, loop, transportVars, hasRegistrar, registrarVars>>

\* signal_handler: from the shell, the init script or killServerOnLowResources.
\* The first signal quits the main loop, which does nothing to a loop that does
\* not run; the next ones do nothing.
Quit == IF loop = "running" THEN "quit" ELSE loop

Signal ==
  /\ Alive
  /\ main # "boot"
  /\ loop' = IF terminated THEN loop ELSE Quit
  /\ terminated' = TRUE
  /\ UNCHANGED <<main, transportVars, hasRegistrar, registrarVars>>

-----------------------------------------------------------------------------
(* main() until the loop runs                                              *)

InstallHandlers ==
  /\ Step("boot", "config")
  /\ UNCHANGED <<terminated, loop, transportVars, hasRegistrar, registrarVars>>

\* loadConfig: exit(1) when the main file cannot be read or parsed; write_json's
\* exception, and those of the directories of modules, leave main.
LoadConfig ==
  /\ Step("config", "create") \/ Step("config", "failed") \/ Step("config", "crashed")
  /\ UNCHANGED <<terminated, loop, transportVars, hasRegistrar, registrarVars>>

\* createTransportFromConfig exits with 1 when the transport cannot be created.
CreateTransport ==
  /\ Step("create", "startWorkers") \/ Step("create", "failed")
  /\ UNCHANGED <<terminated, loop, transportVars, hasRegistrar, registrarVars>>

\* transport->start(): the pool, ...
StartWorkers ==
  /\ Step("startWorkers", "startThreads")
  /\ worker' = [w \in Workers |-> "idle"]
  /\ UNCHANGED <<terminated, loop, running, keepAlive, serversStopped,
                 hasRegistrar, registrarVars>>

\* ... then, under the mutex, the keep-alive thread and the registrar.
StartThreads ==
  /\ Step("startThreads", "run")
  /\ running' = TRUE
  /\ keepAlive' = "check"
  /\ IF hasRegistrar THEN RegistrarStart ELSE UNCHANGED registrarVars
  /\ UNCHANGED <<terminated, loop, worker, serversStopped, hasRegistrar>>

\* loop->run() sets the flag that quit() clears.
RunLoop ==
  /\ Step("run", "loop")
  /\ loop' = "running"
  /\ UNCHANGED <<terminated, transportVars, hasRegistrar, registrarVars>>

LoopReturns ==
  /\ loop = "quit"
  /\ Step("loop", "stopFlag")
  /\ UNCHANGED <<terminated, loop, transportVars, hasRegistrar, registrarVars>>

-----------------------------------------------------------------------------
(* transport->stop() and the end                                           *)

\* Mutant: the flag is left set.
StoppedFlag_Kept == running

StoppedFlag == FALSE

\* The flag and the notification, under the mutex: a keep-alive thread that is
\* visiting sessions misses the notification.
StopKeepAlive ==
  /\ Step("stopFlag", "stopServers")
  /\ running' = StoppedFlag
  /\ keepAlive' = IF keepAlive = "wait" THEN "check" ELSE keepAlive
  /\ UNCHANGED <<terminated, loop, worker, serversStopped, hasRegistrar,
                 registrarVars>>

StopServers ==
  /\ Step("stopServers", "joinWorkers")
  /\ serversStopped' = TRUE
  /\ UNCHANGED <<terminated, loop, running, keepAlive, worker, hasRegistrar,
                 registrarVars>>

\* Mutant: only one thread of the pool is joined.
WorkersJoined_One == \E w \in Workers : worker[w] = "done"

WorkersJoined == \A w \in Workers : worker[w] = "done"

JoinWorkers ==
  /\ WorkersJoined
  /\ Step("joinWorkers", IF hasRegistrar THEN "stopRegistrar" ELSE "joinKeepAlive")
  /\ UNCHANGED <<terminated, loop, transportVars, hasRegistrar, registrarVars>>

StopRegistrar ==
  /\ Step("stopRegistrar", "joinRegistrar")
  /\ StopFinished
  /\ UNCHANGED <<terminated, loop, transportVars, hasRegistrar>>

\* The steps of WebSocketRegistrar::stop() are those of the main thread.
RegistrarStopStep ==
  /\ main = "joinRegistrar"
  /\ Stop
  /\ main' = CASE stopper' = "returned" -> "joinKeepAlive"
               [] stopper' = "crashed" -> "crashed"
               [] OTHER -> main
  /\ UNCHANGED <<terminated, loop, transportVars, hasRegistrar>>

JoinKeepAlive ==
  /\ keepAlive = "done"
  /\ Step("joinKeepAlive", "deleteMediaSet")
  /\ UNCHANGED <<terminated, loop, transportVars, hasRegistrar, registrarVars>>

DeleteMediaSet ==
  /\ Step("deleteMediaSet", "exited")
  /\ UNCHANGED <<terminated, loop, transportVars, hasRegistrar, registrarVars>>

-----------------------------------------------------------------------------
(* The transport's threads                                                 *)

\* run(): a thread of the pool takes a handler and ends it; when the io_service
\* is stopped it takes no more and leaves.
TakeHandler(w) ==
  /\ Alive
  /\ worker[w] = "idle"
  /\ ~serversStopped
  /\ worker' = [worker EXCEPT ![w] = "busy"]
  /\ UNCHANGED <<mainVars, running, keepAlive, serversStopped, hasRegistrar,
                 registrarVars>>

EndHandler(w) ==
  /\ Alive
  /\ worker[w] = "busy"
  /\ worker' = [worker EXCEPT ![w] = "idle"]
  /\ UNCHANGED <<mainVars, running, keepAlive, serversStopped, hasRegistrar,
                 registrarVars>>

LeavePool(w) ==
  /\ Alive
  /\ worker[w] = "idle"
  /\ serversStopped
  /\ worker' = [worker EXCEPT ![w] = "done"]
  /\ UNCHANGED <<mainVars, running, keepAlive, serversStopped, hasRegistrar,
                 registrarVars>>

\* keepAliveSessions: while (isRunning()), visit the sessions without the mutex,
\* then wait for a notification or the timeout.
KeepAliveStep ==
  /\ Alive
  /\ \/ keepAlive = "check" /\ keepAlive' = IF running THEN "visit" ELSE "done"
     \/ keepAlive = "visit" /\ keepAlive' = "wait"
     \/ keepAlive = "wait" /\ keepAlive' = "check"
  /\ UNCHANGED <<mainVars, running, worker, serversStopped, hasRegistrar,
                 registrarVars>>

RegistrarStep ==
  /\ Alive
  /\ RegistrarThread
  /\ UNCHANGED <<mainVars, transportVars, hasRegistrar>>

NetworkStep ==
  /\ Alive
  /\ Network
  /\ UNCHANGED <<mainVars, transportVars, hasRegistrar>>

-----------------------------------------------------------------------------
MainThread ==
  \/ InstallHandlers \/ LoadConfig \/ CreateTransport \/ StartWorkers
  \/ StartThreads \/ RunLoop \/ LoopReturns \/ StopKeepAlive \/ StopServers
  \/ JoinWorkers \/ StopRegistrar \/ RegistrarStopStep \/ JoinKeepAlive
  \/ DeleteMediaSet

Next ==
  \/ SignalBeforeHandler \/ Signal \/ MainThread
  \/ \E w \in Workers : TakeHandler(w) \/ EndHandler(w) \/ LeavePool(w)
  \/ KeepAliveStep
  \/ RegistrarStep
  \/ NetworkStep
  \/ ~Alive /\ UNCHANGED vars

Spec == Init /\ [][Next]_vars

\* Every thread of the process goes on, and so do websocketpp's handshakes.
Fairness ==
  /\ WF_vars(MainThread)
  /\ \A w \in Workers : WF_vars(EndHandler(w)) /\ WF_vars(LeavePool(w))
  /\ WF_vars(KeepAliveStep)
  /\ WF_vars(RegistrarStep)
  /\ WF_vars(ConnectFails /\ UNCHANGED <<mainVars, transportVars, hasRegistrar>>)

FairSpec == Spec /\ Fairness
-----------------------------------------------------------------------------
(* Properties                                                              *)

\* When main() deletes the MediaSet no thread of the transport is left that
\* could still use it: stop() joined all of them.
NoThreadLeft ==
  main \in {"deleteMediaSet", "exited"} =>
    /\ \A w \in Workers : worker[w] = "done"
    /\ keepAlive = "done"
    /\ registrar \in {"off", "done"}

\* Nothing that main() waits for in stop() waits for something that nobody will
\* do: the pool's threads can leave, the keep-alive thread sees its flag, and the
\* registrar's thread, which was told to finish, is not kept in run() by a
\* connection, unless that opened too late to be closed.
WaitsEnd ==
  /\ main = "joinWorkers" => serversStopped
  /\ main = "joinKeepAlive" => ~running
  /\ (main = "joinRegistrar" /\ stopper = "join") =>
       /\ finished
       /\ connection = "open" => iosStopped \/ LateConnection

\* Once the main loop was quit the process ends, whatever the handlers, the
\* keep-alive thread and the registrar's thread were doing, unless a connection
\* to the registrar opened too late to be closed.
QuitEnds == loop = "quit" ~> main \in Ended \/ LateConnection

\* The test fixture sends SIGINT as soon as it gives up on connecting, and waits
\* for the process to end: "kill (pid, SIGINT)", "waitpid (pid, &status, 0)".
SignalEnds == terminated ~> main \in Ended \/ LateConnection

=============================================================================
