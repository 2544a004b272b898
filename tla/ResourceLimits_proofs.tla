------------------------- MODULE ResourceLimits_proofs -------------------------
(***************************************************************************)
(* Proofs about ResourceLimits, for any limits and any size of the pool.   *)
(***************************************************************************)
EXTENDS ResourceLimits, FiniteSetTheorems, TLAPS

\* The constants, one by one.
LEMMA NumberTypes ==
  /\ MaxThreads \in Nat /\ MaxFiles \in Nat /\ BaseThreads \in Nat /\ BaseFiles \in Nat
  /\ ThreadsPer \in Nat /\ FilesPer \in Nat /\ ExceptionLimit \in Nat
  /\ KillLimit \in Nat /\ MaxRequests \in Nat
  /\ ThreadLimit(ExceptionLimit) \in Int
  /\ FileLimit(ExceptionLimit) \in Int
<1>1. /\ MaxThreads \in Nat /\ MaxFiles \in Nat /\ BaseThreads \in Nat /\ BaseFiles \in Nat
      /\ ThreadsPer \in Nat /\ FilesPer \in Nat /\ ExceptionLimit \in Nat
      /\ KillLimit \in Nat /\ MaxRequests \in Nat
  BY NumbersAssumption
<1>2. /\ MaxThreads * ExceptionLimit \in Nat
      /\ MaxFiles * ExceptionLimit \in Nat
  BY <1>1
<1>3. /\ ThreadLimit(ExceptionLimit) \in Int
      /\ FileLimit(ExceptionLimit) \in Int
  BY <1>2 DEF ThreadLimit, FileLimit
<1> QED
  BY <1>1, <1>3

-----------------------------------------------------------------------------
(* Types                                                                   *)

\* Every step keeps the types.
LEMMA TypeStep == TypeOK /\ [Next]_vars => TypeOK'
<1> SUFFICES ASSUME TypeOK, [Next]_vars PROVE TypeOK'
  OBVIOUS
<1> USE NumberTypes DEF TypeOK
<1>1. ASSUME NEW h \in Handlers, CreateRequest(h) PROVE TypeOK'
  BY <1>1 DEF CreateRequest
<1>2. ASSUME NEW h \in Handlers, CheckThreads(h) PROVE TypeOK'
  BY <1>2 DEF CheckThreads, AfterThreads
<1>3. ASSUME NEW h \in Handlers, CheckFiles(h) PROVE TypeOK'
  BY <1>3 DEF CheckFiles
<1>4. ASSUME NEW h \in Handlers, CreateObject(h) PROVE TypeOK'
  BY <1>4 DEF CreateObject
<1>5. CASE Release
  BY <1>5 DEF Release, Emptied, Running
<1>6. CASE Connect \/ Disconnect \/ Terminate
  BY <1>6 DEF Connect, Disconnect, Terminate
<1>7. CASE UNCHANGED vars
  BY <1>7 DEF vars
<1> QED
  BY <1>1, <1>2, <1>3, <1>4, <1>5, <1>6, <1>7 DEF Next, Create, Over

\* Init and Next give the type invariant.
THEOREM TypeCorrect == Spec => []TypeOK
<1>1. Init => TypeOK
  BY NumberTypes DEF Init, TypeOK
<1> QED
  BY <1>1, TypeStep, PTL DEF Spec

-----------------------------------------------------------------------------
(* Counting handlers                                                       *)

\* The handlers whose create passed the check of the threads, and those that
\* passed both checks.
PassedThreads == {h \in Handlers : pc[h] \in {"files", "make"}}
PassedFiles   == {h \in Handlers : pc[h] = "make"}

\* A set of handlers is no larger than the pool.
LEMMA AtMostThePool ==
  ASSUME NEW S, S \subseteq Handlers
  PROVE  /\ IsFiniteSet(S)
         /\ Cardinality(S) \in Nat
         /\ Cardinality(Handlers) \in Nat
         /\ Cardinality(S) <= Cardinality(Handlers)
  BY NumbersAssumption, FS_Subset, FS_CardinalityType

\* A step of one handler adds that handler at most.
LEMMA OneMore ==
  ASSUME NEW S, NEW T, S \subseteq Handlers, NEW h \in Handlers, T \subseteq S \cup {h}
  PROVE  Cardinality(T) <= Cardinality(S) + 1
<1>1. IsFiniteSet(S) /\ Cardinality(S) \in Nat
  BY AtMostThePool
<1>2. /\ IsFiniteSet(S \cup {h})
      /\ Cardinality(S \cup {h}) = Cardinality(S)
           \/ Cardinality(S \cup {h}) = Cardinality(S) + 1
  BY <1>1, FS_AddElement
<1>3. Cardinality(T) <= Cardinality(S \cup {h}) /\ Cardinality(T) \in Nat
  BY <1>2, FS_Subset, FS_CardinalityType
<1> QED
  BY <1>1, <1>2, <1>3

\* A handler that leaves a set makes it smaller by one.
LEMMA OneLess ==
  ASSUME NEW S, NEW T, S \subseteq Handlers, NEW h \in S, T = S \ {h}
  PROVE  Cardinality(T) = Cardinality(S) - 1
  BY AtMostThePool, FS_RemoveElement

\* A set of handlers that only loses members does not grow.
LEMMA NoMore ==
  ASSUME NEW S, NEW T, S \subseteq Handlers, T \subseteq S
  PROVE  Cardinality(T) <= Cardinality(S)
  BY AtMostThePool, FS_Subset

\* Multiples of a number are ordered as what they are multiples of.
LEMMA Multiples ==
  ASSUME NEW p \in Nat, NEW m \in Int, NEW n \in Int, m <= n
  PROVE  p * m <= p * n
<1> DEFINE d == n - m
<1>1. d \in Nat /\ n = m + d
  OBVIOUS
<1> HIDE DEF d
<1>2. p * d \in Nat
  BY <1>1
<1>3. p * (m + d) = p * m + p * d
  BY <1>1
<1> QED
  BY <1>1, <1>2, <1>3

-----------------------------------------------------------------------------
(* The bound                                                               *)

\* x objects, of which each uses p, stay within t.
Fits(p, base, x, t) == base + p * x <= t

\* They do but for n + b objects.
Within(p, base, x, t, n, b) == base + p * x <= t + p * (n + b)

\* The bound is kept by a step that adds no more to x than to the allowance.
LEMMA BoundKept ==
  ASSUME NEW p \in Nat, NEW base \in Int, NEW t \in Int, NEW n \in Int,
         NEW x \in Int, NEW b \in Int, NEW x1 \in Int, NEW b1 \in Int,
         Within(p, base, x, t, n, b),
         x1 - b1 <= x - b
  PROVE  Within(p, base, x1, t, n, b1)
<1>1. x1 <= x + b1 - b /\ x + b1 - b \in Int
  OBVIOUS
<1>2. p * x1 <= p * (x + b1 - b)
  BY <1>1, Multiples
<1>3. /\ p * (x + b1 - b) = p * x + p * b1 - p * b
      /\ p * (n + b) = p * n + p * b
      /\ p * (n + b1) = p * n + p * b1
  OBVIOUS
<1>4. /\ p * x1 \in Int /\ p * x \in Int /\ p * b \in Int /\ p * b1 \in Int
      /\ p * n \in Int
  OBVIOUS
<1>5. ASSUME NEW u1 \in Int, NEW u \in Int, NEW v \in Int, NEW v1 \in Int, NEW w \in Int,
             base + u <= t + (w + v), u1 <= u + v1 - v
      PROVE  base + u1 <= t + (w + v1)
  BY <1>5
<1>6. /\ base + p * x <= t + (p * n + p * b)
      /\ p * x1 <= p * x + p * b1 - p * b
  BY <1>2, <1>3 DEF Within
<1>7. base + p * x1 <= t + (p * n + p * b1)
  BY <1>4, <1>5, <1>6
<1> QED
  BY <1>3, <1>7 DEF Within

\* The bound holds after a check that found m objects within t, however many of
\* the n handlers had passed the check before.
LEMMA BoundMade ==
  ASSUME NEW p, NEW base, NEW t, NEW n, NEW m, NEW x, NEW b,
         p \in Nat, base \in Int, t \in Int, n \in Nat,
         m \in Nat, x \in Int, b \in Nat,
         Fits(p, base, m, t),
         x <= m + n
  PROVE  Within(p, base, x, t, n, b)
<1>0. base + p * m <= t
  BY DEF Fits
<1>1. p * x <= p * (m + (n + b))
  <2>1. x <= m + (n + b) /\ m + (n + b) \in Int
    OBVIOUS
  <2> QED
    BY <2>1, Multiples
<1>2. p * (m + (n + b)) = p * m + p * (n + b)
  OBVIOUS
<1>3. p * x \in Int /\ p * m \in Int /\ p * (n + b) \in Int
  OBVIOUS
<1>4. ASSUME NEW u \in Int, NEW v \in Int, NEW w \in Int, base + v <= t, u <= v + w
      PROVE  base + u <= t + w
  BY <1>4
<1>5. p * x <= p * m + p * (n + b)
  BY <1>1, <1>2
<1> QED
  BY <1>0, <1>3, <1>4, <1>5 DEF Within

\* The bound holds of fewer objects.
LEMMA BoundOfFewer ==
  ASSUME NEW p \in Nat, NEW base \in Int, NEW t \in Int, NEW n \in Int, NEW b \in Int,
         NEW m \in Int, NEW x \in Int, m <= x,
         Within(p, base, x, t, n, b)
  PROVE  Within(p, base, m, t, n, b)
  BY BoundKept

-----------------------------------------------------------------------------
(* Threads                                                                 *)

\* The objects that exist and those that are being made after a check of the
\* threads stay within the limit, but for one object for each thread of the pool
\* and each check that was made blind.
ThreadsWithin ==
  Within(ThreadsPer, BaseThreads, objects + Cardinality(PassedThreads),
         ThreadLimit(ExceptionLimit), Cardinality(Handlers), blind)

\* The strengthening of ThreadsBounded: where there is a limit, it counts the
\* objects to come as well.
ThreadsInv == MaxThreads # 0 => ThreadsWithin

\* A check passed, an object made or released: nothing is added to what exists
\* or is being made, unless the number of threads was read and within the limit
\* or the check was blind.
LEMMA ThreadsStep == TypeOK /\ ThreadsInv /\ [Next]_vars => ThreadsInv'
<1> SUFFICES ASSUME TypeOK, ThreadsInv, [Next]_vars, MaxThreads # 0
    PROVE ThreadsWithin'
  BY DEF ThreadsInv
<1>1. PassedThreads \subseteq Handlers /\ PassedThreads' \subseteq Handlers
  BY DEF PassedThreads
<1>2. /\ Cardinality(PassedThreads) \in Nat
      /\ Cardinality(PassedThreads') \in Nat
      /\ Cardinality(PassedThreads') <= Cardinality(Handlers)
      /\ Cardinality(Handlers) \in Nat
  BY <1>1, AtMostThePool
<1>3. /\ objects \in Nat /\ objects' \in Nat /\ blind \in Nat /\ blind' \in Nat
      /\ ThreadsPer \in Nat /\ BaseThreads \in Nat
      /\ ThreadLimit(ExceptionLimit) \in Int
  BY NumberTypes, TypeStep DEF TypeOK
<1>4. ASSUME (objects' + Cardinality(PassedThreads')) - blind'
               <= (objects + Cardinality(PassedThreads)) - blind
      PROVE  ThreadsWithin'
  <2>1. /\ objects + Cardinality(PassedThreads) \in Int
        /\ objects' + Cardinality(PassedThreads') \in Int
    BY <1>2, <1>3
  <2>2. Within(ThreadsPer, BaseThreads, objects + Cardinality(PassedThreads),
               ThreadLimit(ExceptionLimit), Cardinality(Handlers), blind)
    BY DEF ThreadsInv, ThreadsWithin
  <2>3. Within(ThreadsPer, BaseThreads, objects' + Cardinality(PassedThreads'),
               ThreadLimit(ExceptionLimit), Cardinality(Handlers), blind')
    BY <1>2, <1>3, <1>4, <2>1, <2>2, BoundKept
  <2> QED
    BY <2>3 DEF ThreadsWithin, ThreadLimit
<1>5. ASSUME NEW h \in Handlers, CheckThreads(h) PROVE ThreadsWithin'
  <2>1. PassedThreads' \subseteq PassedThreads \cup {h}
    BY <1>5 DEF CheckThreads, PassedThreads, TypeOK
  <2>2. Cardinality(PassedThreads') <= Cardinality(PassedThreads) + 1
    BY <1>1, <2>1, OneMore
  <2>3. objects' = objects
    BY <1>5 DEF CheckThreads
  <2>4. CASE Exhausted(objects)
    <3>1. blind' = blind + 1
      BY <1>5, <2>4 DEF CheckThreads
    <3> QED
      BY <1>2, <1>3, <1>4, <2>2, <2>3, <3>1
  <2>5. CASE ~Exhausted(objects) /\ OverThreads(objects, ExceptionLimit)
    <3>1. blind' = blind /\ PassedThreads' \subseteq PassedThreads
      BY <1>5, <2>5 DEF CheckThreads, AfterThreads, PassedThreads, TypeOK
    <3>2. Cardinality(PassedThreads') <= Cardinality(PassedThreads)
      BY <1>1, <3>1, NoMore
    <3> QED
      BY <1>2, <1>3, <1>4, <2>3, <3>1, <3>2
  <2>6. CASE ~Exhausted(objects) /\ ~OverThreads(objects, ExceptionLimit)
    <3>1. Fits(ThreadsPer, BaseThreads, objects, ThreadLimit(ExceptionLimit))
      <4>1. ~(BaseThreads + ThreadsPer * objects > ThreadLimit(ExceptionLimit))
        BY <2>6 DEF OverThreads, NumberOfThreads, Threads
      <4>2. ThreadsPer * objects \in Int
        BY <1>3
      <4>3. BaseThreads + ThreadsPer * objects <= ThreadLimit(ExceptionLimit)
        BY <1>3, <4>1, <4>2
      <4> QED
        BY <4>3 DEF Fits
    <3>2. /\ objects' + Cardinality(PassedThreads') \in Int
          /\ objects' + Cardinality(PassedThreads') <= objects + Cardinality(Handlers)
      BY <1>2, <1>3, <2>3
    <3>3. Within(ThreadsPer, BaseThreads, objects' + Cardinality(PassedThreads'),
                 ThreadLimit(ExceptionLimit), Cardinality(Handlers), blind')
      BY <1>2, <1>3, <3>1, <3>2, BoundMade
    <3> QED
      BY <3>3 DEF ThreadsWithin, ThreadLimit
  <2> QED
    BY <2>4, <2>5, <2>6
<1>6. ASSUME NEW h \in Handlers, CreateObject(h) PROVE ThreadsWithin'
  <2>1. /\ h \in PassedThreads
        /\ PassedThreads' = PassedThreads \ {h}
        /\ blind' = blind
        /\ objects' = objects \/ objects' = objects + 1
    BY <1>6 DEF CreateObject, PassedThreads, TypeOK
  <2>2. Cardinality(PassedThreads') = Cardinality(PassedThreads) - 1
    BY <1>1, <2>1, OneLess
  <2> QED
    BY <1>2, <1>3, <1>4, <2>1, <2>2
<1>7. ASSUME PassedThreads' \subseteq PassedThreads, objects' <= objects, blind' = blind
      PROVE  ThreadsWithin'
  <2>1. Cardinality(PassedThreads') <= Cardinality(PassedThreads)
    BY <1>1, <1>7, NoMore
  <2> QED
    BY <1>2, <1>3, <1>4, <1>7, <2>1
<1>8. ASSUME NEW h \in Handlers, CreateRequest(h) \/ CheckFiles(h) PROVE ThreadsWithin'
  <2>1. /\ PassedThreads' \subseteq PassedThreads
        /\ objects' = objects /\ blind' = blind
    BY <1>8 DEF CreateRequest, CheckFiles, PassedThreads, TypeOK
  <2> QED
    BY <1>3, <1>7, <2>1
<1>9. CASE Release \/ Connect \/ Disconnect \/ Terminate \/ UNCHANGED vars
  <2>1. /\ pc' = pc /\ blind' = blind
        /\ objects' = objects \/ objects' = objects - 1
    BY <1>9 DEF Release, Connect, Disconnect, Terminate, vars
  <2>2. PassedThreads' \subseteq PassedThreads /\ objects' <= objects
    BY <1>3, <2>1 DEF PassedThreads
  <2> QED
    BY <1>7, <2>1, <2>2
<1> QED
  BY <1>5, <1>6, <1>8, <1>9 DEF Next, Create, Over

\* The threads of media objects exceed the limit by no more than one object for
\* each thread of the pool and each blind check.
THEOREM ThreadsAlwaysBounded == Spec => []ThreadsBounded
<1>1. Init => ThreadsInv
  <2> SUFFICES ASSUME Init, MaxThreads # 0 PROVE ThreadsWithin
    BY DEF ThreadsInv
  <2>1. PassedThreads = {}
    BY DEF Init, PassedThreads
  <2>2. Cardinality(PassedThreads) = 0 /\ Cardinality(Handlers) \in Nat
    BY <2>1, FS_EmptySet, AtMostThePool
  <2>3. objects + Cardinality(PassedThreads) = 0 /\ blind = 0
    BY <2>2 DEF Init
  <2>4. Fits(ThreadsPer, BaseThreads, 0, ThreadLimit(ExceptionLimit))
    BY NumberTypes, RoomAssumption DEF Fits
  <2>5. Within(ThreadsPer, BaseThreads, 0, ThreadLimit(ExceptionLimit),
               Cardinality(Handlers), 0)
    BY <2>2, <2>4, NumberTypes, BoundMade
  <2> QED
    BY <2>3, <2>5 DEF ThreadsWithin
<1>2. TypeOK /\ ThreadsInv => ThreadsBounded
  <2> SUFFICES ASSUME TypeOK, ThreadsInv, MaxThreads # 0
      PROVE Within(ThreadsPer, BaseThreads, objects,
                   ThreadLimit(ExceptionLimit), Cardinality(Handlers), blind)
    BY DEF ThreadsBounded, Within, Threads
  <2>1. Cardinality(PassedThreads) \in Nat /\ Cardinality(Handlers) \in Nat
    BY AtMostThePool DEF PassedThreads
  <2>2. /\ objects \in Nat /\ blind \in Nat
        /\ objects <= objects + Cardinality(PassedThreads)
        /\ objects + Cardinality(PassedThreads) \in Int
    BY <2>1 DEF TypeOK
  <2> QED
    BY <2>1, <2>2, NumberTypes, BoundOfFewer DEF ThreadsInv, ThreadsWithin
<1> QED
  BY <1>1, <1>2, TypeCorrect, ThreadsStep, PTL DEF Spec

-----------------------------------------------------------------------------
(* Descriptors                                                             *)

\* The objects that exist and those that are being made after a check of the
\* descriptors stay within the limit, but for one object for each thread of the
\* pool: a check without a descriptor to spare lets nothing through.
FilesWithin ==
  Within(FilesPer, BaseFiles + OwnEntries, objects + Cardinality(PassedFiles),
         FileLimit(ExceptionLimit), Cardinality(Handlers), 0)

\* Where there is a limit; and what a crash says of the connections.
FilesInv ==
  /\ MaxFiles # 0 => FilesWithin
  /\ CrashNeedsConnections

\* A step that lets no more handlers through than it makes objects keeps the
\* bound; so does a check that found the descriptors within the limit.
LEMMA FilesStep == TypeOK /\ FilesInv /\ [Next]_vars /\ MaxFiles # 0 => FilesWithin'
<1> SUFFICES ASSUME TypeOK, FilesInv, [Next]_vars, MaxFiles # 0
    PROVE FilesWithin'
  OBVIOUS
<1>1. PassedFiles \subseteq Handlers /\ PassedFiles' \subseteq Handlers
  BY DEF PassedFiles
<1>2. /\ Cardinality(PassedFiles) \in Nat
      /\ Cardinality(PassedFiles') \in Nat
      /\ Cardinality(PassedFiles') <= Cardinality(Handlers)
      /\ Cardinality(Handlers) \in Nat
  BY <1>1, AtMostThePool
<1>3. /\ objects \in Nat /\ objects' \in Nat /\ sockets \in Nat
      /\ FilesPer \in Nat /\ BaseFiles \in Nat
      /\ BaseFiles + OwnEntries \in Int
      /\ FileLimit(ExceptionLimit) \in Int
  BY NumberTypes, TypeStep DEF TypeOK, OwnEntries
<1>4. ASSUME objects' + Cardinality(PassedFiles') <= objects + Cardinality(PassedFiles)
      PROVE  FilesWithin'
  <2>1. /\ objects + Cardinality(PassedFiles) \in Int
        /\ objects' + Cardinality(PassedFiles') \in Int
        /\ (objects' + Cardinality(PassedFiles')) - 0
             <= (objects + Cardinality(PassedFiles)) - 0
    BY <1>2, <1>3, <1>4
  <2>2. Within(FilesPer, BaseFiles + OwnEntries, objects + Cardinality(PassedFiles),
               FileLimit(ExceptionLimit), Cardinality(Handlers), 0)
    BY DEF FilesInv, FilesWithin
  <2>3. Within(FilesPer, BaseFiles + OwnEntries, objects' + Cardinality(PassedFiles'),
               FileLimit(ExceptionLimit), Cardinality(Handlers), 0)
    BY <1>2, <1>3, <2>1, <2>2, BoundKept
  <2> QED
    BY <2>3 DEF FilesWithin, FileLimit, OwnEntries
<1>5. ASSUME NEW h \in Handlers, CheckFiles(h) PROVE FilesWithin'
  <2>1. objects' = objects
    BY <1>5 DEF CheckFiles
  <2>2. CASE Exhausted(objects) \/ OverFiles(objects, ExceptionLimit)
    <3>1. PassedFiles' \subseteq PassedFiles
      BY <1>5, <2>2 DEF CheckFiles, PassedFiles, TypeOK
    <3>2. Cardinality(PassedFiles') <= Cardinality(PassedFiles)
      BY <1>1, <3>1, NoMore
    <3> QED
      BY <1>2, <1>3, <1>4, <2>1, <3>2
  <2>3. CASE ~OverFiles(objects, ExceptionLimit)
    <3>1. Fits(FilesPer, BaseFiles + OwnEntries, objects, FileLimit(ExceptionLimit))
      <4>1. ~((BaseFiles + FilesPer * objects) + sockets + OwnEntries
                > FileLimit(ExceptionLimit))
        BY <2>3 DEF OverFiles, Files, ObjectFiles
      <4>2. FilesPer * objects \in Int
        BY <1>3
      <4>3. (BaseFiles + OwnEntries) + FilesPer * objects <= FileLimit(ExceptionLimit)
        BY <1>3, <4>1, <4>2 DEF OwnEntries
      <4> QED
        BY <4>3 DEF Fits
    <3>2. /\ objects' + Cardinality(PassedFiles') \in Int
          /\ objects' + Cardinality(PassedFiles') <= objects + Cardinality(Handlers)
      BY <1>2, <1>3, <2>1
    <3>3. Within(FilesPer, BaseFiles + OwnEntries, objects' + Cardinality(PassedFiles'),
                 FileLimit(ExceptionLimit), Cardinality(Handlers), 0)
      BY <1>2, <1>3, <3>1, <3>2, BoundMade
    <3> QED
      BY <3>3 DEF FilesWithin, FileLimit, OwnEntries
  <2> QED
    BY <2>2, <2>3
<1>6. ASSUME NEW h \in Handlers, CreateObject(h) PROVE FilesWithin'
  <2>1. /\ h \in PassedFiles
        /\ PassedFiles' = PassedFiles \ {h}
        /\ objects' = objects \/ objects' = objects + 1
    BY <1>6 DEF CreateObject, PassedFiles, TypeOK
  <2>2. Cardinality(PassedFiles') = Cardinality(PassedFiles) - 1
    BY <1>1, <2>1, OneLess
  <2> QED
    BY <1>2, <1>3, <1>4, <2>1, <2>2
<1>7. ASSUME PassedFiles' \subseteq PassedFiles, objects' <= objects PROVE FilesWithin'
  <2>1. Cardinality(PassedFiles') <= Cardinality(PassedFiles)
    BY <1>1, <1>7, NoMore
  <2> QED
    BY <1>2, <1>3, <1>4, <1>7, <2>1
<1>8. ASSUME NEW h \in Handlers, CreateRequest(h) \/ CheckThreads(h) PROVE FilesWithin'
  <2>1. PassedFiles' \subseteq PassedFiles /\ objects' = objects
    BY <1>8 DEF CreateRequest, CheckThreads, AfterThreads, PassedFiles, TypeOK
  <2> QED
    BY <1>3, <1>7, <2>1
<1>9. CASE Release \/ Connect \/ Disconnect \/ Terminate \/ UNCHANGED vars
  <2>1. pc' = pc /\ (objects' = objects \/ objects' = objects - 1)
    BY <1>9 DEF Release, Connect, Disconnect, Terminate, vars
  <2>2. PassedFiles' \subseteq PassedFiles /\ objects' <= objects
    BY <1>3, <2>1 DEF PassedFiles
  <2> QED
    BY <1>7, <2>2
<1> QED
  BY <1>5, <1>6, <1>8, <1>9 DEF Next, Create, Over

\* What a crash needs when n objects exist: connections that take what the bound
\* on the objects leaves free.
LEMMA CrashBound ==
  ASSUME TypeOK, MaxFiles # 0 => FilesWithin, NEW n \in Nat, n <= objects, Exhausted(n)
  PROVE  MaxFiles + OwnEntries <=
           sockets + FileLimit(ExceptionLimit) + FilesPer * Cardinality(Handlers)
<1>1. Cardinality(PassedFiles) \in Nat /\ Cardinality(Handlers) \in Nat
  BY AtMostThePool DEF PassedFiles
<1>2. /\ n <= objects + Cardinality(PassedFiles)
      /\ objects + Cardinality(PassedFiles) \in Int
      /\ BaseFiles + OwnEntries \in Int
  BY <1>1, NumberTypes DEF TypeOK, OwnEntries
<1>3. FilesWithin
  BY DEF Exhausted
<1>4. Within(FilesPer, BaseFiles + OwnEntries, n,
             FileLimit(ExceptionLimit), Cardinality(Handlers), 0)
  BY <1>1, <1>2, <1>3, NumberTypes, BoundOfFewer DEF FilesWithin
<1>5. /\ (BaseFiles + OwnEntries) + FilesPer * n
           <= FileLimit(ExceptionLimit) + FilesPer * (Cardinality(Handlers) + 0)
      /\ (BaseFiles + FilesPer * n) + sockets >= MaxFiles
  BY <1>4 DEF Within, Exhausted, Files, ObjectFiles
<1>6. /\ FilesPer * (Cardinality(Handlers) + 0) = FilesPer * Cardinality(Handlers)
      /\ FilesPer * Cardinality(Handlers) \in Int
      /\ FilesPer * n \in Int
  BY <1>1, NumberTypes
<1> QED
  BY <1>5, <1>6, NumberTypes DEF TypeOK, OwnEntries

\* The process crashes in the check of the descriptors, with the bound on the
\* objects in force, and nothing moves afterwards.
LEMMA CrashStep ==
  TypeOK /\ FilesInv /\ [Next]_vars => CrashNeedsConnections'
<1> SUFFICES ASSUME TypeOK, FilesInv, [Next]_vars PROVE CrashNeedsConnections'
  OBVIOUS
<1>1. ASSUME state' = "crashed" => state = "crashed" /\ sockets' = sockets
      PROVE  CrashNeedsConnections'
  BY <1>1 DEF FilesInv, CrashNeedsConnections, FileLimit, OwnEntries
<1>2. ASSUME NEW n \in Nat, n <= objects, Exhausted(n), sockets' = sockets
      PROVE  CrashNeedsConnections'
  BY <1>2, CrashBound DEF FilesInv, CrashNeedsConnections, FileLimit, OwnEntries
<1>3. ASSUME NEW h \in Handlers, CheckFiles(h) PROVE CrashNeedsConnections'
  <2>1. CASE Exhausted(objects)
    BY <1>2, <1>3, <2>1 DEF CheckFiles, TypeOK
  <2>2. CASE ~Exhausted(objects)
    BY <1>1, <1>3, <2>2 DEF CheckFiles
  <2> QED
    BY <2>1, <2>2
<1>4. CASE Release
  <2>1. CASE Exhausted(0)
    BY <1>2, <1>4, <2>1 DEF Release, TypeOK
  <2>2. CASE ~Exhausted(0)
    BY <1>1, <1>4, <2>2 DEF Release, Emptied
  <2> QED
    BY <2>1, <2>2
<1>5. ASSUME NEW h \in Handlers,
             CreateRequest(h) \/ CheckThreads(h) \/ CreateObject(h)
      PROVE  CrashNeedsConnections'
  BY <1>1, <1>5 DEF CreateRequest, CheckThreads, CreateObject
<1>6. CASE Connect \/ Disconnect \/ Terminate \/ UNCHANGED vars
  BY <1>1, <1>6 DEF Connect, Disconnect, Terminate, Running, vars
<1> QED
  BY <1>3, <1>4, <1>5, <1>6 DEF Next, Create, Over

\* The check of the resources crashes only when connections of clients hold at
\* least the descriptors that the limit, and one object for each thread of the
\* pool, leave free.
THEOREM CrashOnlyWithConnections == Spec => []CrashNeedsConnections
<1>1. Init => FilesInv
  <2> SUFFICES ASSUME Init, MaxFiles # 0 PROVE FilesWithin
    BY DEF FilesInv, CrashNeedsConnections, Init
  <2>1. PassedFiles = {}
    BY DEF Init, PassedFiles
  <2>2. Cardinality(PassedFiles) = 0 /\ Cardinality(Handlers) \in Nat
    BY <2>1, FS_EmptySet, AtMostThePool
  <2>3. objects + Cardinality(PassedFiles) = 0
    BY <2>2 DEF Init
  <2>4. Fits(FilesPer, BaseFiles + OwnEntries, 0, FileLimit(ExceptionLimit))
    BY NumberTypes, RoomAssumption DEF Fits, OwnEntries
  <2>5. Within(FilesPer, BaseFiles + OwnEntries, 0, FileLimit(ExceptionLimit),
               Cardinality(Handlers), 0)
    <3>1. BaseFiles + OwnEntries \in Int
      BY NumberTypes DEF OwnEntries
    <3> QED
      BY <2>2, <2>4, <3>1, NumberTypes, BoundMade
  <2> QED
    BY <2>3, <2>5 DEF FilesWithin
<1>2. TypeOK /\ FilesInv /\ [Next]_vars => FilesInv'
  BY FilesStep, CrashStep DEF FilesInv
<1>3. FilesInv => CrashNeedsConnections
  BY DEF FilesInv
<1> QED
  BY <1>1, <1>2, <1>3, TypeCorrect, PTL DEF Spec

=============================================================================
