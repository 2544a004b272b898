----------------------- MODULE ServerLifecycle_proofs -----------------------
(***************************************************************************)
(* Proofs about ServerLifecycle and its registrar client, for any size of  *)
(* the thread pool and any times of the pause.                             *)
(***************************************************************************)
EXTENDS ServerLifecycle, TLAPS

\* Where the registrar client stands while the main thread stops the transport.
RegistrarInv ==
  /\ registrar = "off" => waitTime = 0
  /\ ~hasRegistrar => registrar = "off"
  /\ stopper = "returned" => registrar = "done"
  /\ (main \in {"joinKeepAlive", "deleteMediaSet", "exited"} /\ hasRegistrar)
       => stopper = "returned"

\* Which threads are joined at each step of the main thread.
JoinedInv ==
  /\ main \in {"stopRegistrar", "joinRegistrar", "joinKeepAlive", "deleteMediaSet",
               "exited"} => \A w \in Workers : worker[w] = "done"
  /\ main \in {"deleteMediaSet", "exited"} => keepAlive = "done"

IInv == TypeOK /\ WaitBounded /\ RegistrarInv /\ JoinedInv

\* Why the waits of stop() end: what they wait for was told to end before, and of
\* a connection to the registrar stop() knows that it is open only while run()
\* has a client that it can stop.
StopInv ==
  /\ main \in {"joinWorkers", "stopRegistrar", "joinRegistrar", "joinKeepAlive"}
       => serversStopped /\ ~running
  /\ main = "stopServers" => ~running
  /\ main = "joinRegistrar" => stopper # "none"
  /\ stopper # "none" => finished /\ registrar # "off"
  /\ connection = "open" => registrar = "run"
  /\ registrar = "run" => hasClient
  /\ (stopper \in {"notify", "join"} /\ connection = "open") => iosStopped \/ late

-----------------------------------------------------------------------------
\* Doubling never passes the bound and never shortens the pause.
LEMMA BackoffBounds ==
  ASSUME NEW w \in 0 .. MaxWait
  PROVE  Backoff(w) \in w .. MaxWait
  BY WaitAssumption DEF Backoff

\* The initial state satisfies the invariant.
LEMMA InitInv == Init => IInv
<1> SUFFICES ASSUME Init PROVE IInv
  OBVIOUS
<1>1. RegistrarTypeOK
  <2>1. waitTime \in 0 .. MaxWait
    BY WaitAssumption DEF Init, RegistrarInit
  <2>2. finished \in BOOLEAN /\ hasClient \in BOOLEAN /\ iosStopped \in BOOLEAN
        /\ late \in BOOLEAN /\ addressValid \in BOOLEAN /\ tls \in BOOLEAN
    BY DEF Init, RegistrarInit
  <2> QED
    BY <2>1, <2>2 DEF Init, RegistrarInit, RegistrarTypeOK
<1>2. worker \in [Workers -> {"off", "idle", "busy", "done"}]
  BY DEF Init
<1>3. TypeOK
  BY <1>1, <1>2 DEF Init, TypeOK
<1>4. WaitBounded /\ RegistrarInv /\ JoinedInv
  BY DEF Init, RegistrarInit, WaitBounded, RegistrarInv, JoinedInv
<1> QED
  BY <1>3, <1>4 DEF IInv

\* The steps of the registrar's thread and of the network.
LEMMA RegistrarStepInv ==
  ASSUME IInv, RegistrarStep \/ NetworkStep
  PROVE  IInv' /\ (waitTime' < waitTime => connection' = "open")
<1> USE WaitAssumption DEF IInv, TypeOK, RegistrarTypeOK, WaitBounded, RegistrarInv,
                           JoinedInv, mainVars, transportVars, addressVars
<1>1. UNCHANGED <<main, terminated, loop, running, keepAlive, worker,
                  serversStopped, hasRegistrar>>
  BY DEF RegistrarStep, NetworkStep
<1>2. CASE CheckFinished \/ CheckAfterRun \/ BeginWait
  <2>1. /\ registrar \in {"check", "after", "lock"}
        /\ registrar' \in {"done", "create", "lock", "wait"}
        /\ UNCHANGED <<addressVars, stopper, finished, hasClient, connection,
                       iosStopped, waitTime, late>>
    BY <1>2, Zenon DEF CheckFinished, CheckAfterRun, BeginWait
  <2> QED
    BY <1>1, <2>1
<1>5. CASE CreateClient
  <2>1. registrar = "create" /\ registrar' \in {"run", "after"}
    BY <1>5, Zenon DEF CreateClient
  <2>2. hasClient' \in BOOLEAN /\ iosStopped' \in BOOLEAN
    BY <1>5 DEF CreateClient
  <2>3. UNCHANGED <<addressVars, stopper, finished, connection, waitTime, late>>
    BY <1>5 DEF CreateClient
  <2> QED
    BY <1>1, <2>1, <2>2, <2>3
<1>6. CASE RunStopped
  BY <1>1, <1>6 DEF RunStopped
<1>3. CASE EndWait
  <2>1. /\ waitTime' \in waitTime .. MaxWait
        /\ waitTime \in DefaultWait .. MaxWait
        /\ registrar' = "check"
        /\ registrar \in {"wait", "woken"}
        /\ UNCHANGED <<addressVars, stopper, finished, hasClient, connection,
                       iosStopped, late>>
    BY <1>3, BackoffBounds DEF EndWait
  <2> QED
    BY <1>1, <2>1
<1>4. CASE ConnectionOpen \/ ConnectFails \/ RegistrarCloses
  BY <1>1, <1>4 DEF ConnectionOpen, ConnectFails, RegistrarCloses
<1> QED
  BY <1>2, <1>3, <1>4, <1>5, <1>6 DEF RegistrarStep, NetworkStep, RegistrarThread, Network

\* The steps of the main thread and the signals.
LEMMA MainStepInv ==
  ASSUME IInv, SignalBeforeHandler \/ Signal \/ MainThread
  PROVE  IInv' /\ ~(waitTime' < waitTime)
<1> USE WaitAssumption DEF IInv, TypeOK, RegistrarTypeOK, WaitBounded, RegistrarInv,
                           JoinedInv, mainVars, transportVars, registrarVars, addressVars, Step, Ended
<1>1. CASE SignalBeforeHandler
  BY <1>1 DEF SignalBeforeHandler
<1>10. CASE Signal
  <2>1. loop' \in {"idle", "running", "quit"} /\ terminated' \in BOOLEAN
    BY <1>10 DEF Signal, Quit
  <2> QED
    BY <1>10, <2>1 DEF Signal
<1>2. CASE InstallHandlers \/ LoadConfig \/ CreateTransport \/ RunLoop \/ LoopReturns
  BY <1>2 DEF InstallHandlers, LoadConfig, CreateTransport, RunLoop, LoopReturns
<1>3. CASE StartWorkers
  <2>1. worker' \in [Workers -> {"off", "idle", "busy", "done"}]
    BY <1>3 DEF StartWorkers
  <2> QED
    BY <1>3, <2>1 DEF StartWorkers
<1>4. CASE StartThreads
  <2>1. /\ main = "startThreads" /\ main' = "run"
        /\ running' \in BOOLEAN /\ keepAlive' = "check"
        /\ UNCHANGED <<terminated, loop, worker, serversStopped, hasRegistrar>>
    BY <1>4 DEF StartThreads
  <2>2. CASE hasRegistrar
    <3>1. RegistrarStart
      BY <1>4, <2>2, Zenon DEF StartThreads
    <3>2. /\ registrar = "off" /\ registrar' = "check"
          /\ finished' \in BOOLEAN
          /\ UNCHANGED <<addressVars, stopper, hasClient, connection, iosStopped, late>>
      BY <3>1 DEF RegistrarStart
    <3>3. waitTime = 0 /\ waitTime' = DefaultWait
      BY <3>1, <3>2 DEF RegistrarStart
    <3> QED
      BY <2>1, <2>2, <3>2, <3>3
  <2>3. CASE ~hasRegistrar
    <3>1. UNCHANGED registrarVars
      BY <1>4, <2>3, Zenon DEF StartThreads
    <3> QED
      BY <2>1, <3>1
  <2> QED
    BY <2>2, <2>3
<1>5. CASE StopKeepAlive
  <2>1. keepAlive' \in {"off", "check", "visit", "wait", "done"} /\ running' \in BOOLEAN
    BY <1>5 DEF StopKeepAlive, StoppedFlag
  <2> QED
    BY <1>5, <2>1 DEF StopKeepAlive
<1>11. CASE StopServers
  BY <1>11 DEF StopServers
<1>6. CASE JoinWorkers
  BY <1>6 DEF JoinWorkers, WorkersJoined
<1>7. CASE StopRegistrar
  BY <1>7 DEF StopRegistrar, StopFinished
<1>8. CASE RegistrarStopStep
  <2>1. CASE StopClose
    BY <1>8, <2>1 DEF RegistrarStopStep, StopClose
  <2>2. CASE StopNotify
    BY <1>8, <2>2 DEF RegistrarStopStep, StopNotify
  <2>3. CASE StopJoin
    BY <1>8, <2>3 DEF RegistrarStopStep, StopJoin
  <2> QED
    BY <1>8, <2>1, <2>2, <2>3 DEF RegistrarStopStep, Stop
<1>9. CASE JoinKeepAlive \/ DeleteMediaSet
  BY <1>9 DEF JoinKeepAlive, DeleteMediaSet
<1> QED
  BY <1>1, <1>2, <1>3, <1>4, <1>5, <1>6, <1>7, <1>8, <1>9, <1>10, <1>11 DEF MainThread

\* The steps of the transport's threads.
LEMMA TransportStepInv ==
  ASSUME IInv,
         \/ \E w \in Workers : TakeHandler(w) \/ EndHandler(w) \/ LeavePool(w)
         \/ KeepAliveStep
         \/ UNCHANGED vars
  PROVE  IInv' /\ ~(waitTime' < waitTime)
<1> USE WaitAssumption DEF IInv, TypeOK, RegistrarTypeOK, WaitBounded, RegistrarInv,
                           JoinedInv, mainVars, transportVars, registrarVars, addressVars
<1>1. ASSUME NEW w \in Workers, TakeHandler(w) \/ EndHandler(w) \/ LeavePool(w)
      PROVE  IInv' /\ ~(waitTime' < waitTime)
  BY <1>1 DEF TakeHandler, EndHandler, LeavePool
<1>2. CASE KeepAliveStep
  BY <1>2 DEF KeepAliveStep
<1>3. CASE UNCHANGED vars
  BY <1>3 DEF vars
<1> QED
  BY <1>1, <1>2, <1>3

\* The invariant holds in every reachable state.
LEMMA AlwaysInv == Spec => []IInv
<1>1. IInv /\ [Next]_vars => IInv'
  BY RegistrarStepInv, MainStepInv, TransportStepInv DEF Next
<1> QED
  BY <1>1, InitInv, PTL DEF Spec

\* The variables keep their types.
THEOREM TypeCorrect == Spec => []TypeOK
<1>1. IInv => TypeOK
  BY DEF IInv
<1> QED
  BY <1>1, AlwaysInv, PTL

\* No thread of the transport outlives stop(): when the MediaSet is deleted
\* nobody is left to use it.
THEOREM AllThreadsJoined == Spec => []NoThreadLeft
<1>1. IInv => NoThreadLeft
  BY DEF IInv, RegistrarInv, JoinedInv, NoThreadLeft
<1> QED
  BY <1>1, AlwaysInv, PTL

\* The registrar client's pause stays between its two bounds.
THEOREM PauseBounded == Spec => []WaitBounded
<1>1. IInv => WaitBounded
  BY DEF IInv
<1> QED
  BY <1>1, AlwaysInv, PTL

\* The pause gets shorter only when a connection opens.
THEOREM PauseGrows == Spec => WaitGrows
<1>1. IInv /\ [Next]_vars =>
        [waitTime' < waitTime => connection' = "open"]_registrarVars
  BY RegistrarStepInv, MainStepInv, TransportStepInv DEF Next
<1> QED
  BY <1>1, AlwaysInv, PTL DEF Spec, WaitGrows

-----------------------------------------------------------------------------
(* The waits of stop()                                                     *)

\* The steps of the registrar's thread and of the network.
LEMMA RegistrarStepStop ==
  ASSUME StopInv, RegistrarStep \/ NetworkStep
  PROVE  StopInv'
<1> USE DEF StopInv
<1>1. UNCHANGED <<main, running, serversStopped>>
  BY DEF RegistrarStep, NetworkStep, mainVars, transportVars
<1>2. CASE CheckFinished \/ CheckAfterRun \/ BeginWait \/ EndWait
  BY <1>1, <1>2 DEF CheckFinished, CheckAfterRun, BeginWait, EndWait
<1>3. CASE CreateClient
  BY <1>1, <1>3 DEF CreateClient
<1>4. CASE ConnectionOpen
  BY <1>1, <1>4 DEF ConnectionOpen
<1>5. CASE RunStopped \/ ConnectFails \/ RegistrarCloses
  BY <1>1, <1>5 DEF RunStopped, ConnectFails, RegistrarCloses
<1> QED
  BY <1>2, <1>3, <1>4, <1>5 DEF RegistrarStep, NetworkStep, RegistrarThread, Network

\* The steps of the main thread and the signals.
LEMMA MainStepStop ==
  ASSUME StopInv, SignalBeforeHandler \/ Signal \/ MainThread
  PROVE  StopInv'
<1> USE DEF StopInv, Step, transportVars, registrarVars
<1>1. CASE SignalBeforeHandler \/ Signal
  BY <1>1 DEF SignalBeforeHandler, Signal
<1>2. CASE InstallHandlers \/ LoadConfig \/ CreateTransport \/ RunLoop \/ LoopReturns
  BY <1>2 DEF InstallHandlers, LoadConfig, CreateTransport, RunLoop, LoopReturns
<1>3. CASE StartWorkers
  BY <1>3 DEF StartWorkers
<1>4. CASE StartThreads
  <2>1. main' = "run"
    BY <1>4 DEF StartThreads
  <2>2. CASE hasRegistrar
    <3>1. RegistrarStart
      BY <1>4, <2>2, Zenon DEF StartThreads
    <3> QED
      BY <2>1, <3>1 DEF RegistrarStart
  <2>3. CASE ~hasRegistrar
    <3>1. UNCHANGED registrarVars
      BY <1>4, <2>3, Zenon DEF StartThreads
    <3> QED
      BY <2>1, <3>1
  <2> QED
    BY <2>2, <2>3
<1>5. CASE StopKeepAlive \/ StopServers
  BY <1>5 DEF StopKeepAlive, StoppedFlag, StopServers
<1>6. CASE JoinWorkers
  BY <1>6 DEF JoinWorkers
<1>7. CASE StopRegistrar
  BY <1>7 DEF StopRegistrar, StopFinished
<1>8. CASE RegistrarStopStep
  <2>1. CASE StopClose
    BY <1>8, <2>1 DEF RegistrarStopStep, StopClose, Stoppable
  <2>2. CASE StopNotify
    BY <1>8, <2>2 DEF RegistrarStopStep, StopNotify
  <2>3. CASE StopJoin
    BY <1>8, <2>3 DEF RegistrarStopStep, StopJoin
  <2> QED
    BY <1>8, <2>1, <2>2, <2>3 DEF RegistrarStopStep, Stop
<1>9. CASE JoinKeepAlive \/ DeleteMediaSet
  BY <1>9 DEF JoinKeepAlive, DeleteMediaSet
<1> QED
  BY <1>1, <1>2, <1>3, <1>4, <1>5, <1>6, <1>7, <1>8, <1>9 DEF MainThread

\* The steps of the transport's threads touch nothing that the waits hang on.
LEMMA TransportStepStop ==
  ASSUME StopInv,
         \/ \E w \in Workers : TakeHandler(w) \/ EndHandler(w) \/ LeavePool(w)
         \/ KeepAliveStep
         \/ UNCHANGED vars
  PROVE  StopInv'
<1>1. UNCHANGED <<main, running, serversStopped, registrarVars>>
  BY DEF TakeHandler, EndHandler, LeavePool, KeepAliveStep, vars, mainVars,
     transportVars
<1> QED
  BY <1>1 DEF StopInv, registrarVars

\* stop() never waits in vain: the safety that its ending rests on.
THEOREM NoWaitInVain == Spec => []WaitsEnd
<1>1. Init => StopInv
  BY DEF Init, RegistrarInit, StopInv
<1>2. StopInv /\ [Next]_vars => StopInv'
  BY RegistrarStepStop, MainStepStop, TransportStepStop DEF Next
<1>3. StopInv => WaitsEnd
  BY DEF StopInv, WaitsEnd, LateConnection
<1> QED
  BY <1>1, <1>2, <1>3, PTL DEF Spec

-----------------------------------------------------------------------------
(* The registrar client within the process                                 *)

\* A step of the process is a step of the registrar client or leaves it alone.
LEMMA RegistrarSimulation ==
  ASSUME [Next]_vars
  PROVE  [RegistrarNext]_registrarVars
<1>1. CASE RegistrarStep \/ NetworkStep
  BY <1>1, Zenon DEF RegistrarStep, NetworkStep, RegistrarNext
<1>2. CASE StartThreads
  BY <1>2, Zenon DEF StartThreads, RegistrarNext
<1>3. CASE StopRegistrar \/ RegistrarStopStep
  BY <1>3, Zenon DEF StopRegistrar, RegistrarStopStep, RegistrarNext
<1>4. CASE \/ SignalBeforeHandler \/ Signal
           \/ InstallHandlers \/ LoadConfig \/ CreateTransport \/ StartWorkers
           \/ RunLoop \/ LoopReturns \/ StopKeepAlive \/ StopServers \/ JoinWorkers
           \/ JoinKeepAlive \/ DeleteMediaSet
  <2>1. UNCHANGED registrarVars
    BY <1>4 DEF SignalBeforeHandler, Signal, InstallHandlers, LoadConfig,
       CreateTransport, StartWorkers, RunLoop, LoopReturns, StopKeepAlive,
       StopServers, JoinWorkers, JoinKeepAlive, DeleteMediaSet, registrarVars
  <2> QED
    BY <2>1
<1>5. CASE \/ \E w \in Workers : TakeHandler(w) \/ EndHandler(w) \/ LeavePool(w)
           \/ KeepAliveStep
           \/ UNCHANGED vars
  <2>1. UNCHANGED registrarVars
    BY <1>5 DEF TakeHandler, EndHandler, LeavePool, KeepAliveStep, vars, registrarVars
  <2> QED
    BY <2>1
<1> QED
  BY <1>1, <1>2, <1>3, <1>4, <1>5 DEF Next, MainThread

\* The process with its main thread, pool and signals implements the registrar
\* client: start() comes once, and the calls of stop() in its order.
THEOREM ImplementsRegistrar == Spec => RegistrarSpec
<1>1. Init => RegistrarInit
  BY DEF Init
<1> QED
  BY <1>1, RegistrarSimulation, PTL DEF Spec, RegistrarSpec

=============================================================================
