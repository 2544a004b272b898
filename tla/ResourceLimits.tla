---------------------------- MODULE ResourceLimits ----------------------------
(***************************************************************************)
(* The limits on the threads and the file descriptors of the process       *)
(* (server/ResourceManager.cpp): create (server/ServerMethods.cpp) asks    *)
(* checkResources first and then makes the object, in any number of        *)
(* handlers at once, and killServerOnLowResources asks when the last       *)
(* object is gone.  Connections of clients take descriptors without asking.*)
(*                                                                         *)
(* What a media object and an idle server use is external.  A limit of 0   *)
(* is RLIM_INFINITY.  The product with the percentage is exact here; the   *)
(* code computes it in float.                                              *)
(***************************************************************************)
EXTENDS Naturals, FiniteSets

CONSTANTS
  Handlers,                      \* the threads of the pool
  MaxThreads, MaxFiles,          \* RLIMIT_NPROC and RLIMIT_NOFILE
  ExceptionLimit, KillLimit,     \* per cent
  BaseThreads, BaseFiles,        \* what the idle server uses
  ThreadsPer, FilesPer,          \* what a media object uses
  MaxRequests                    \* bound on the requests to create

ThreadLimit(percent) == (MaxThreads * percent) \div 100
FileLimit(percent)   == (MaxFiles * percent) \div 100

\* What getNumberOfOpenFiles counts besides the descriptors in use: the entries
\* "." and "..", and the descriptor of the directory that it reads.
OwnEntries == 3

ASSUME NumbersAssumption ==
  /\ IsFiniteSet(Handlers)
  /\ {MaxThreads, MaxFiles, BaseThreads, BaseFiles, ThreadsPer, FilesPer,
      ExceptionLimit, KillLimit, MaxRequests} \subseteq Nat

\* The idle server is within its limits, where there are any.
ASSUME RoomAssumption ==
  /\ MaxThreads # 0 => BaseThreads <= ThreadLimit(ExceptionLimit)
  /\ MaxFiles # 0 => BaseFiles + OwnEntries <= FileLimit(ExceptionLimit)

VARIABLES
  state,    \* of the process
  pc,       \* where the create of each handler stands
  objects,  \* number of media objects
  sockets,  \* number of descriptors taken by connections of clients
  requests, \* number of requests to create so far
  blind     \* history: thread checks made without a descriptor to spare

vars == <<state, pc, objects, sockets, requests, blind>>

TypeOK ==
  /\ state \in {"up", "terminating", "ended", "crashed"}
  /\ pc \in [Handlers -> {"idle", "threads", "files", "make"}]
  /\ objects \in Nat
  /\ sockets \in Nat
  /\ requests \in 0 .. MaxRequests
  /\ blind \in Nat

Init ==
  /\ state = "up"
  /\ pc = [h \in Handlers |-> "idle"]
  /\ objects = 0
  /\ sockets = 0
  /\ requests = 0
  /\ blind = 0

-----------------------------------------------------------------------------
(* What is in use, and what the process reads of it                        *)

Threads(n) == BaseThreads + ThreadsPer * n

ObjectFiles(n) == BaseFiles + FilesPer * n

Files(n) == ObjectFiles(n) + sockets

\* No descriptor is left.
Exhausted(n) == MaxFiles # 0 /\ Files(n) >= MaxFiles

\* /proc/self/stat, which cannot be opened without a descriptor: no number is
\* found in the empty string and the result is 0.
NumberOfThreads(n) == IF Exhausted(n) THEN 0 ELSE Threads(n)

OverThreads(n, percent) ==
  MaxThreads # 0 /\ NumberOfThreads(n) > ThreadLimit(percent)

\* Mutant: what is in use is compared with the system's own limit.
OverFiles_System(n, percent) ==
  MaxFiles # 0 /\ Files(n) + OwnEntries > MaxFiles

OverFiles(n, percent) ==
  MaxFiles # 0 /\ Files(n) + OwnEntries > FileLimit(percent)

-----------------------------------------------------------------------------
(* create                                                                  *)

Running == state \in {"up", "terminating"}

CreateRequest(h) ==
  /\ Running
  /\ pc[h] = "idle"
  /\ requests < MaxRequests
  /\ requests' = requests + 1
  /\ pc' = [pc EXCEPT ![h] = "threads"]
  /\ UNCHANGED <<state, objects, sockets, blind>>

\* Mutant: the number of threads is not compared.
AfterThreads_Unchecked(n) == "files"

\* Mutant: a refused request stays where it is, to be tried again.
AfterThreads_Retry(n) == IF OverThreads(n, ExceptionLimit) THEN "refused" ELSE "files"

\* checkThreads throws NOT_ENOUGH_RESOURCES, or lets the check go on.
AfterThreads(n) == IF OverThreads(n, ExceptionLimit) THEN "idle" ELSE "files"

CheckThreads(h) ==
  /\ Running
  /\ pc[h] = "threads"
  /\ pc' = [pc EXCEPT ![h] = AfterThreads(objects)]
  /\ blind' = IF Exhausted(objects) THEN blind + 1 ELSE blind
  /\ UNCHANGED <<state, objects, sockets, requests>>

\* checkOpenFiles.  Without a descriptor opendir returns a null pointer, which
\* readdir reads.
CheckFiles(h) ==
  /\ Running
  /\ pc[h] = "files"
  /\ IF Exhausted(objects)
     THEN state' = "crashed" /\ UNCHANGED pc
     ELSE /\ pc' = [pc EXCEPT ![h] =
                      IF OverFiles(objects, ExceptionLimit) THEN "idle" ELSE "make"]
          /\ UNCHANGED state
  /\ UNCHANGED <<objects, sockets, requests, blind>>

\* The factory makes the object, unless it finds no descriptors for it.
CreateObject(h) ==
  /\ Running
  /\ pc[h] = "make"
  /\ pc' = [pc EXCEPT ![h] = "idle"]
  /\ \/ /\ MaxFiles # 0 => Files(objects + 1) <= MaxFiles
        /\ objects' = objects + 1
     \/ UNCHANGED objects
  /\ UNCHANGED <<state, sockets, requests, blind>>

-----------------------------------------------------------------------------
(* The rest of the process                                                 *)

\* signalEmptyLocked: killServerOnLowResources checks the threads and then the
\* descriptors, with no object left.
Emptied ==
  IF OverThreads(0, KillLimit) \/ (~Exhausted(0) /\ OverFiles(0, KillLimit))
  THEN "terminating"
  ELSE IF Exhausted(0) THEN "crashed" ELSE state

\* An object is released; with the last one MediaSet emits signalEmptyLocked.
Release ==
  /\ Running
  /\ objects > 0
  /\ objects' = objects - 1
  /\ state' = IF objects' = 0 THEN Emptied ELSE state
  /\ UNCHANGED <<pc, sockets, requests, blind>>

\* A client connects, if a descriptor is left, or goes.
Connect ==
  /\ Running
  /\ MaxFiles # 0
  /\ ~Exhausted(objects)
  /\ sockets' = sockets + 1
  /\ UNCHANGED <<state, pc, objects, requests, blind>>

Disconnect ==
  /\ Running
  /\ sockets > 0
  /\ sockets' = sockets - 1
  /\ UNCHANGED <<state, pc, objects, requests, blind>>

\* SIGTERM ends the process some time later (see ServerLifecycle).
Terminate ==
  /\ state = "terminating"
  /\ state' = "ended"
  /\ UNCHANGED <<pc, objects, sockets, requests, blind>>

Over ==
  /\ ~Running
  /\ UNCHANGED vars

Create(h) == CheckThreads(h) \/ CheckFiles(h) \/ CreateObject(h)

Next ==
  \/ \E h \in Handlers : CreateRequest(h) \/ Create(h)
  \/ Release \/ Connect \/ Disconnect \/ Terminate \/ Over

Spec == Init /\ [][Next]_vars

\* The threads of the pool go on, and a signal is handled.
FairSpec == Spec /\ WF_vars(Terminate) /\ \A h \in Handlers : WF_vars(Create(h))

-----------------------------------------------------------------------------
(* Properties                                                              *)

\* Handlers that pass the check together exceed the limit together, but by no
\* more than one object for each thread of the pool, however they interleave
\* with releases; each check that could not read the number of threads because
\* no descriptor was left may add one more.
ThreadsBounded ==
  MaxThreads # 0 =>
    Threads(objects) <= ThreadLimit(ExceptionLimit)
                          + ThreadsPer * (Cardinality(Handlers) + blind)

\* Media objects alone never use the descriptors up and so never make the check
\* itself crash: a server that crashed there had at least as many connections
\* as the limit, exceeded by one object for each thread of the pool, leaves free.
CrashNeedsConnections ==
  state = "crashed" =>
    MaxFiles + OwnEntries <=
      sockets + FileLimit(ExceptionLimit) + FilesPer * Cardinality(Handlers)

\* "KMS process will be automatically killed when there are no sessions but this %
\* of resources are in use".
IdleServerKilled ==
  (objects = 0 /\ OverFiles(0, KillLimit)) ~>
    (state # "up" \/ objects > 0 \/ ~OverFiles(0, KillLimit))

=============================================================================
