------------------------ MODULE ServerMethods_proofs ------------------------
(***************************************************************************)
(* Proofs about ServerMethods, for any connections, sessions, objects and  *)
(* transactions.                                                           *)
(***************************************************************************)
EXTENDS ServerMethods, FiniteSetTheorems, SequenceTheorems, TLAPS

-----------------------------------------------------------------------------
(* Outcomes of a method                                                    *)

\* What MediaSet holds was made by an execution.
HeldWasMade == \A o \in Objects : holders[o] # {} => born[o] # 0

\* What an outcome of a method in session s may be: nobody else's session holds
\* an object that it did not hold before, and an object that nobody held stays so
\* unless it was never made.
OutcomeIn(e, s) ==
  /\ e.holders \in [Objects -> SUBSET (issued \cup {s})]
  /\ e.ok \in BOOLEAN
  /\ e.value \in Objects \cup {NoObject}
  /\ e.session \in {s, NoSession}
  /\ \A x \in Objects : e.holders[x] \subseteq holders[x] \cup {s}
  /\ \A x \in Objects : e.holders[x] # {} => holders[x] # {} \/ born[x] = 0

\* What becomes of the holders when no object is made.
LEMMA OutcomeWithout ==
  ASSUME NEW s \in Sessions, NEW ok \in BOOLEAN, NEW t \in {s, NoSession}, NEW hs,
         NEW v \in Objects \cup {NoObject},
         hs \in [Objects -> SUBSET (issued \cup {s})],
         \A x \in Objects : hs[x] \subseteq holders[x] \cup {s},
         \A x \in Objects : hs[x] # {} => holders[x] # {}
  PROVE  OutcomeIn(Outcome(hs, ok, v, t), s)
  BY DEF OutcomeIn, Outcome

\* A failure that changes nothing is an outcome in any session.
LEMMA FailsIn ==
  ASSUME TypeOK, NEW s \in Sessions
  PROVE  OutcomeIn(Fails(holders), s)
<1>1. /\ holders \in [Objects -> SUBSET (issued \cup {s})]
      /\ \A x \in Objects : holders[x] \subseteq holders[x] \cup {s}
  BY DEF TypeOK
<1> QED
  BY <1>1, OutcomeWithout DEF Fails

\* Every method has such outcomes only.
LEMMA OutcomeShape ==
  ASSUME TypeOK, NEW m \in Simple, NEW o, NEW s \in Sessions, NEW e \in Outcomes(m, o, s)
  PROVE  OutcomeIn(e, s)
<1>0. holders \in [Objects -> SUBSET issued]
  BY DEF TypeOK
<1>1. OutcomeIn(Fails(holders), s)
  BY FailsIn
<1>2. CASE m = "create"
  <2>1. e \in Create(s)
    BY <1>2 DEF Outcomes
  <2>2. CASE e = Fails(holders)
    BY <1>1, <2>2
  <2>3. ASSUME NEW x \in Objects, born[x] = 0,
               e = Outcome([holders EXCEPT ![x] = {s}], TRUE, x, s)
        PROVE  OutcomeIn(e, s)
    BY <1>0, <2>3 DEF OutcomeIn, Outcome
  <2> QED
    BY <2>1, <2>2, <2>3 DEF Create
<1>3. CASE m \in {"use", "invoke"}
  <2>1. PICK vs \in SUBSET (Objects \cup {NoObject}) : e \in Looked(o, s, vs)
    BY <1>3 DEF Outcomes, Use, Invoke
  <2>2. CASE ~Exists(o)
    BY <1>1, <2>1, <2>2 DEF Looked
  <2>3. CASE Exists(o)
    <3> DEFINE hs == [holders EXCEPT ![o] = @ \cup {s}]
    <3>1. \/ e = Outcome(hs, FALSE, NoObject, NoSession)
          \/ \E v \in vs : e = Outcome(hs, TRUE, v, s)
      BY <2>1, <2>3 DEF Looked, Fails
    <3>2. /\ hs \in [Objects -> SUBSET (issued \cup {s})]
          /\ \A x \in Objects : hs[x] \subseteq holders[x] \cup {s}
          /\ \A x \in Objects : hs[x] # {} => holders[x] # {}
      <4>1. o \in Objects
        BY <2>3 DEF Exists
      <4>2. holders[o] \cup {s} \in SUBSET (issued \cup {s})
        BY <1>0, <4>1
      <4> QED
        BY <1>0, <2>3, <4>1, <4>2 DEF Exists
    <3> HIDE DEF hs
    <3>3. OutcomeIn(Outcome(hs, FALSE, NoObject, NoSession), s)
      BY <3>2, OutcomeWithout
    <3>4. \A v \in vs : OutcomeIn(Outcome(hs, TRUE, v, s), s)
      BY <2>1, <3>2, OutcomeWithout
    <3> QED
      BY <3>1, <3>3, <3>4
  <2> QED
    BY <2>2, <2>3
<1>4. CASE m = "unref"
  <2>1. e \in Unref(o, s)
    BY <1>4 DEF Outcomes
  <2>2. CASE ~Exists(o)
    BY <1>1, <2>1, <2>2 DEF Unref
  <2>3. CASE Exists(o)
    <3> DEFINE hs == [holders EXCEPT ![o] = @ \ {s}]
    <3>1. e = Outcome(hs, TRUE, NoObject, s)
      BY <2>1, <2>3 DEF Unref
    <3>2. /\ hs \in [Objects -> SUBSET (issued \cup {s})]
          /\ \A x \in Objects : hs[x] \subseteq holders[x] \cup {s}
          /\ \A x \in Objects : hs[x] # {} => holders[x] # {}
      BY <1>0, <2>3 DEF Exists
    <3> HIDE DEF hs
    <3> QED
      BY <3>1, <3>2, OutcomeWithout
  <2> QED
    BY <2>2, <2>3
<1>5. CASE m = "release"
  <2>1. e \in Release(o, s)
    BY <1>5 DEF Outcomes
  <2>2. CASE ~Exists(o)
    BY <1>1, <2>1, <2>2 DEF Release
  <2>3. CASE Exists(o)
    <3> DEFINE hs == [holders EXCEPT ![o] = {}]
    <3>1. e = Outcome(hs, TRUE, NoObject, s)
      BY <2>1, <2>3 DEF Release
    <3>2. /\ hs \in [Objects -> SUBSET (issued \cup {s})]
          /\ \A x \in Objects : hs[x] \subseteq holders[x] \cup {s}
          /\ \A x \in Objects : hs[x] # {} => holders[x] # {}
      BY <1>0, <2>3 DEF Exists
    <3> HIDE DEF hs
    <3> QED
      BY <3>1, <3>2, OutcomeWithout
  <2> QED
    BY <2>2, <2>3
<1>6. CASE m = "close"
  <2> DEFINE left == [x \in Objects |-> holders[x] \ {s}]
             released == [x \in Objects |-> IF s \in holders[x] THEN {} ELSE holders[x]]
  <2>1. \/ e = Outcome(left, TRUE, NoObject, NoSession)
        \/ e = Outcome(released, TRUE, NoObject, NoSession)
    BY <1>6 DEF Outcomes, Close
  <2>2. /\ left \in [Objects -> SUBSET (issued \cup {s})]
        /\ \A x \in Objects : left[x] \subseteq holders[x] \cup {s}
        /\ \A x \in Objects : left[x] # {} => holders[x] # {}
    BY <1>0
  <2>3. /\ released \in [Objects -> SUBSET (issued \cup {s})]
        /\ \A x \in Objects : released[x] \subseteq holders[x] \cup {s}
        /\ \A x \in Objects : released[x] # {} => holders[x] # {}
    BY <1>0
  <2> HIDE DEF left, released
  <2>4. OutcomeIn(Outcome(left, TRUE, NoObject, NoSession), s)
    BY <2>2, OutcomeWithout
  <2>5. OutcomeIn(Outcome(released, TRUE, NoObject, NoSession), s)
    BY <2>3, OutcomeWithout
  <2> QED
    BY <2>1, <2>4, <2>5
<1> QED
  BY <1>2, <1>3, <1>4, <1>5, <1>6 DEF Simple

\* The response made of an outcome.
LEMMA ResponseShape ==
  ASSUME NEW s \in Sessions, NEW e, OutcomeIn(e, s), NEW r \in Runs, NEW n \in Nat
  PROVE  /\ ResponseOf(e, r, n) \in Response
         /\ ResponseOf(e, r, n).session \in {s, NoSession}
         /\ ResponseOf(e, r, n).made = <<r, n>>
         /\ ResponseOf(e, r, n).value = e.value
         /\ ResponseOf(e, r, n).ok = e.ok
  BY DEF ResponseOf, Response, OutcomeIn

\* The value of a successful outcome: the new object of create, an object that
\* exists or none of invoke, and none of the other methods.
LEMMA OutcomeValue ==
  ASSUME TypeOK, NEW m \in Simple, NEW o, NEW s \in Sessions, NEW e \in Outcomes(m, o, s),
         e.ok
  PROVE  /\ m = "create" => /\ e.value \in Objects /\ born[e.value] = 0
                            /\ e.holders[e.value] # {}
         /\ m = "invoke" => \/ e.value = NoObject
                            \/ e.value \in Objects /\ holders[e.value] # {}
         /\ m \notin {"create", "invoke"} => e.value = NoObject
<1>1. ASSUME NEW hs, e = Fails(hs) PROVE FALSE
  BY <1>1 DEF Fails, Outcome
<1>2. CASE m = "create"
  <2>1. PICK x \in Objects :
          born[x] = 0 /\ e = Outcome([holders EXCEPT ![x] = {s}], TRUE, x, s)
    BY <1>1, <1>2 DEF Outcomes, Create
  <2> QED
    BY <1>2, <2>1 DEF Outcome, TypeOK
<1>3. CASE m = "invoke"
  <2>1. e \in Looked(o, s, {x \in Objects : Exists(x)} \cup {NoObject})
    BY <1>3 DEF Outcomes, Invoke
  <2>2. e.value \in {x \in Objects : Exists(x)} \cup {NoObject}
    BY <1>1, <2>1 DEF Looked, Outcome
  <2> QED
    BY <1>3, <2>2 DEF Exists
<1>4. CASE m \in {"use", "unref", "release", "close"}
  BY <1>1, <1>4 DEF Outcomes, Use, Looked, Unref, Release, Close, Outcome
<1> QED
  BY <1>2, <1>3, <1>4 DEF Simple

\* An object that was made keeps the execution that made it.
LEMMA BornStays ==
  ASSUME NEW e, NEW r, Becomes(e, r), NEW x \in Objects, born[x] # 0
  PROVE  born'[x] = born[x]
  BY DEF Becomes

\* An object that is held was made by an execution.
LEMMA HeldStep ==
  ASSUME HeldWasMade, NEW e, NEW r \in Runs, Becomes(e, r)
  PROVE  HeldWasMade'
  BY DEF HeldWasMade, Becomes, Runs

-----------------------------------------------------------------------------
(* The inductive invariant                                                 *)

\* What the place where a handler stands says of its variables.
Placed(c) ==
  /\ pc[c] # "idle" =>
       /\ req[c] \in Request
       /\ req[c].method = "transaction" => req[c].ops \in Transactions
  /\ pc[c] \in {"idle", "pre", "run"} => responses[c] = <<>> /\ worked[c] = <<>>
  /\ Len(worked[c]) = Len(responses[c])
  /\ run[c] <= runs
  /\ responses[c] # <<>> => run[c] \in Runs
  /\ pc[c] = "op" => /\ run[c] \in Runs
                     /\ sess[c] \in issued
                     /\ req[c].ops \in Transactions
  /\ pc[c] \in {"post", "reply"} => resp[c] \in Response
  /\ resp[c].session \in issued \cup {NoSession}

Handling == \A c \in Conns : Placed(c)

\* No two handlers are in the same execution.
OneRun == \A c, d \in Conns : (run[c] = run[d] /\ run[c] # 0) => c = d

\* What is cached under the id of an operation is of one that ran, in a
\* transaction that is over or before the operation that is next; and the
\* sessions that responses name were generated or named before.
EntryPast(e) ==
  /\ e.resp.session \in issued \cup {NoSession}
  /\ e.id \in Nat \X Nat =>
       /\ e.id[1] <= runs
       /\ \A c \in Conns : (pc[c] = "op" /\ run[c] = e.id[1]) =>
            e.id[2] <= Len(responses[c])

CachedPast == \A e \in cache : EntryPast(e)

\* The results of a transaction have the values that their methods give.
Answered ==
  \A c \in Conns : \A n \in 1 .. Len(responses[c]) :
    responses[c][n].ok =>
      StandsFor(req[c].ops[n].method, responses[c][n].value, run[c])

\* The handlers that have not yet executed what they received, for which there
\* is room among the executions.
Waiting == {c \in Conns : pc[c] \in {"pre", "run"}}
RoomLeft == runs + Cardinality(Waiting) <= MaxRuns

MethodsInv ==
  TypeOK /\ HeldWasMade /\ Handling /\ OneRun /\ CachedPast /\ Answered /\ RoomLeft
    /\ FreshAnswers /\ RefsOwn /\ StopsAtFailure

-----------------------------------------------------------------------------
(* Room for executions                                                     *)

\* Handlers are finitely many.
LEMMA SetsOfConns ==
  ASSUME NEW S, S \subseteq Conns
  PROVE  IsFiniteSet(S) /\ Cardinality(S) \in Nat
  BY ConnsAssumption, FS_Subset, FS_CardinalityType

\* A handler that gets a request finds room for it.
LEMMA ReceiveRoom ==
  ASSUME TypeOK, NEW c \in Conns, NEW r, Receive(c, r)
  PROVE  RoomLeft'
<1> DEFINE Busy == {d \in Conns : pc[d] # "idle"}
<1>1. /\ IsFiniteSet(Busy) /\ Cardinality(Busy) \in Nat
      /\ IsFiniteSet(Waiting') /\ Cardinality(Waiting') \in Nat
  BY SetsOfConns DEF Waiting
<1>2. Waiting' \subseteq Busy \cup {c}
  BY DEF Receive, Waiting, TypeOK
<1>3. Cardinality(Waiting') <= Cardinality(Busy \cup {c})
  BY <1>1, <1>2, FS_AddElement, FS_Subset
<1>4. Cardinality(Busy \cup {c}) \in {Cardinality(Busy), Cardinality(Busy) + 1}
  BY <1>1, FS_AddElement
<1>5. runs + Cardinality(Busy) < MaxRuns /\ runs' = runs /\ runs \in Nat
  BY DEF Receive, TypeOK
<1> HIDE DEF Busy
<1> QED
  BY <1>1, <1>3, <1>4, <1>5, RunsAssumption DEF RoomLeft

\* An execution uses the room of its handler up.
LEMMA RunRoom ==
  ASSUME TypeOK, RoomLeft, NEW c \in Conns, pc[c] = "run", runs' = runs + 1,
         NEW p, p \notin {"pre", "run"}, pc' = [pc EXCEPT ![c] = p]
  PROVE  RoomLeft' /\ runs' \in Runs
<1>1. c \in Waiting /\ Waiting' = Waiting \ {c}
  BY DEF Waiting, TypeOK
<1>2. IsFiniteSet(Waiting) /\ Cardinality(Waiting) \in Nat
  BY SetsOfConns DEF Waiting
<1>3. Cardinality(Waiting') = Cardinality(Waiting) - 1
  BY <1>1, <1>2, FS_RemoveElement
<1>4. Cardinality(Waiting) # 0
  BY <1>1, <1>2, FS_EmptySet
<1> QED
  BY <1>2, <1>3, <1>4, RunsAssumption DEF RoomLeft, Runs, TypeOK

\* Any other step needs no room.
LEMMA StillRoom ==
  ASSUME TypeOK, RoomLeft, runs' = runs, Waiting' \subseteq Waiting
  PROVE  RoomLeft'
<1>1. IsFiniteSet(Waiting) /\ Cardinality(Waiting) \in Nat /\ Cardinality(Waiting') \in Nat
  BY SetsOfConns DEF Waiting
<1>2. Cardinality(Waiting') <= Cardinality(Waiting)
  BY <1>1, FS_Subset
<1> QED
  BY <1>1, <1>2, RunsAssumption DEF RoomLeft, TypeOK

-----------------------------------------------------------------------------
(* The transactions under way                                              *)

\* StandsFor after a step, of what it says before the step.
WillStandFor(m, o, r) ==
  /\ m = "create" => o \in Objects /\ born'[o] = r
  /\ m = "invoke" => o = NoObject \/ born'[o] # 0
  /\ m \notin {"create", "invoke"} => o = NoObject

\* What stands for something goes on to when no made object is made again.
LEMMA StandsStays ==
  ASSUME NEW m, NEW o \in Objects \cup {NoObject}, NEW r, r # 0, StandsFor(m, o, r),
         \A x \in Objects : born[x] # 0 => born'[x] = born[x]
  PROVE  WillStandFor(m, o, r)
  BY DEF StandsFor, WillStandFor

\* What the responses of a transaction, and what its operations worked on, say
\* stays true in a step that changes neither, and makes no made object again.
LEMMA HistoryKept ==
  ASSUME MethodsInv,
         \A d \in Conns : \/ responses'[d] = <<>> /\ worked'[d] = <<>>
                          \/ /\ responses'[d] = responses[d] /\ worked'[d] = worked[d]
                             /\ run'[d] = run[d] /\ req'[d] = req[d],
         \A x \in Objects : born[x] # 0 => born'[x] = born[x]
  PROVE  Answered' /\ FreshAnswers' /\ RefsOwn' /\ StopsAtFailure'
<1>1. FreshAnswers' /\ StopsAtFailure'
  BY DEF MethodsInv, FreshAnswers, StopsAtFailure
<1>2. ASSUME NEW d \in Conns, responses[d] # <<>> PROVE run[d] # 0
  BY <1>2 DEF MethodsInv, Handling, Placed, Runs
<1>3. Answered'
  <2> SUFFICES ASSUME NEW d \in Conns, NEW n \in 1 .. Len(responses'[d]),
                      responses'[d][n].ok
               PROVE  StandsFor(req[d].ops[n].method, responses[d][n].value, run[d])'
    BY DEF Answered
  <2>1. /\ responses'[d] = responses[d] /\ run'[d] = run[d] /\ req'[d] = req[d]
        /\ responses[d] # <<>>
    OBVIOUS
  <2>2. responses[d][n].value \in Objects \cup {NoObject}
    <3>1. responses[d][n] \in Response
      BY <2>1 DEF MethodsInv, TypeOK
    <3> QED
      BY <3>1 DEF Response
  <2>3. StandsFor(req[d].ops[n].method, responses[d][n].value, run[d])
    BY <2>1 DEF MethodsInv, Answered
  <2>4. WillStandFor(req[d].ops[n].method, responses[d][n].value, run[d])
    BY <1>2, <2>1, <2>2, <2>3, StandsStays
  <2> QED
    BY <2>1, <2>4 DEF StandsFor, WillStandFor
<1>4. RefsOwn'
  <2> SUFFICES ASSUME NEW d \in Conns, NEW n \in 1 .. Len(worked'[d]),
                      req'[d].ops[n].ref # 0
               PROVE  /\ req'[d].ops[n].ref < n
                      /\ StandsFor(req[d].ops[req[d].ops[n].ref].method, worked[d][n],
                                   run[d])'
    BY DEF RefsOwn
  <2>1. /\ responses'[d] = responses[d] /\ worked'[d] = worked[d]
        /\ run'[d] = run[d] /\ req'[d] = req[d] /\ worked[d] # <<>>
    OBVIOUS
  <2>2. responses[d] # <<>>
    BY <2>1 DEF MethodsInv, Handling, Placed, TypeOK
  <2>3. /\ req[d].ops[n].ref < n
        /\ StandsFor(req[d].ops[req[d].ops[n].ref].method, worked[d][n], run[d])
    BY <2>1 DEF MethodsInv, RefsOwn
  <2>4. worked[d][n] \in Objects \cup {NoObject}
    BY <2>1 DEF MethodsInv, TypeOK
  <2>5. WillStandFor(req[d].ops[req[d].ops[n].ref].method, worked[d][n], run[d])
    BY <1>2, <2>1, <2>2, <2>3, <2>4, StandsStays
  <2> QED
    BY <2>1, <2>3, <2>5 DEF StandsFor, WillStandFor
<1> QED
  BY <1>1, <1>3, <1>4

\* What is known of a cached entry stays true: a transaction that starts has a
\* number that no entry has, and one under way only gets further.
LEMMA EntryKept ==
  ASSUME MethodsInv, NEW e \in cache, issued \subseteq issued',
         runs' \in Nat, runs <= runs',
         \A d \in Conns : pc'[d] = "op" =>
           \/ run'[d] > runs
           \/ /\ pc[d] = "op" /\ run'[d] = run[d]
              /\ \A k \in Nat : k <= Len(responses[d]) => k <= Len(responses'[d])
  PROVE  EntryPast(e)'
<1>1. EntryPast(e) /\ runs \in Nat
  BY DEF MethodsInv, TypeOK, CachedPast
<1>2. ASSUME e.id \in Nat \X Nat
      PROVE  /\ e.id[1] <= runs'
             /\ \A c \in Conns : (pc'[c] = "op" /\ run'[c] = e.id[1]) =>
                  e.id[2] <= Len(responses'[c])
  <2>1. /\ e.id[1] \in Nat /\ e.id[2] \in Nat /\ e.id[1] <= runs
        /\ \A c \in Conns : (pc[c] = "op" /\ run[c] = e.id[1]) =>
             e.id[2] <= Len(responses[c])
    BY <1>1, <1>2 DEF EntryPast
  <2> QED
    BY <1>1, <2>1
<1> QED
  BY <1>1, <1>2 DEF EntryPast

\* The cache keeps what is known of it when it only loses entries.
LEMMA CacheKept ==
  ASSUME MethodsInv, cache' \subseteq cache, issued \subseteq issued',
         runs' \in Nat, runs <= runs',
         \A d \in Conns : pc'[d] = "op" =>
           \/ run'[d] > runs
           \/ pc[d] = "op" /\ run'[d] = run[d] /\ responses'[d] = responses[d]
  PROVE  CachedPast'
  BY EntryKept DEF CachedPast

\* An execution that starts has a number of its own.
LEMMA OneRunKept ==
  ASSUME MethodsInv, NEW c \in Conns,
         \/ run' = run
         \/ run' = [run EXCEPT ![c] = 0]
         \/ run' = [run EXCEPT ![c] = runs + 1]
  PROVE  OneRun'
<1>1. \A d \in Conns : run[d] \in Nat /\ run[d] <= runs
  BY DEF MethodsInv, TypeOK, Handling, Placed
<1>2. run \in [Conns -> 0 .. MaxRuns] /\ runs \in Nat
  BY DEF MethodsInv, TypeOK
<1> QED
  BY <1>1, <1>2 DEF MethodsInv, OneRun

\* A step of one handler leaves the others where they are.
LEMMA OthersPlaced ==
  ASSUME MethodsInv, NEW c \in Conns, Placed(c)',
         \A d \in Conns \ {c} :
           /\ pc'[d] = pc[d] /\ req'[d] = req[d] /\ sess'[d] = sess[d]
           /\ run'[d] = run[d] /\ responses'[d] = responses[d]
           /\ worked'[d] = worked[d] /\ resp'[d] = resp[d],
         runs \in Nat, runs' \in Nat, runs <= runs', issued \subseteq issued'
  PROVE  Handling'
<1> SUFFICES ASSUME NEW d \in Conns, d # c PROVE Placed(d)'
  BY DEF Handling
<1>1. Placed(d)
  BY DEF MethodsInv, Handling
<1>2. run[d] \in Nat
  BY DEF MethodsInv, TypeOK
<1> QED
  BY <1>1, <1>2 DEF Placed, Runs

-----------------------------------------------------------------------------
(* The steps of a request                                                  *)

\* A request that arrives has the parameters of a request.
LEMMA ReceiveStep ==
  ASSUME MethodsInv, NEW c \in Conns, NEW r \in Requests, Receive(c, r)
  PROVE  MethodsInv'
<1> USE DEF MethodsInv
<1>1. r \in Request /\ (r.method = "transaction" => r.ops \in Transactions)
  BY DEF Requests, Request, Simple, TypeOK
<1>2. TypeOK'
  <2>1. /\ issued' \subseteq Sessions /\ issued \subseteq issued'
        /\ holders' = holders /\ holders \in [Objects -> SUBSET issued]
    BY <1>1 DEF Receive, TypeOK, Request
  <2>2. holders' \in [Objects -> SUBSET issued']
    BY <2>1
  <2> HIDE DEF Request
  <2>3. req' \in [Conns -> Request \cup {NoRequest}]
    BY <1>1 DEF Receive, TypeOK
  <2> QED
    BY <2>1, <2>2, <2>3 DEF Receive, TypeOK
<1>3. Handling'
  <2>1. Placed(c)'
    BY <1>1 DEF Receive, Handling, Placed, TypeOK
  <2> QED
    BY <2>1, OthersPlaced DEF Receive, TypeOK
<1>4. CachedPast'
  BY CacheKept DEF Receive, TypeOK
<1>5. Answered' /\ FreshAnswers' /\ RefsOwn' /\ StopsAtFailure'
  BY HistoryKept DEF Receive, Handling, Placed, TypeOK
<1>6. HeldWasMade' /\ OneRun'
  BY OneRunKept DEF Receive, HeldWasMade
<1> QED
  BY <1>2, <1>3, <1>4, <1>5, <1>6, ReceiveRoom

\* A cached response is one of a session that was generated.
LEMMA PreProcessStep ==
  ASSUME MethodsInv, NEW c \in Conns, PreProcess(c)
  PROVE  MethodsInv'
<1> USE DEF MethodsInv
<1>1. /\ req' = req /\ sess' = sess /\ run' = run /\ responses' = responses
      /\ worked' = worked /\ runs' = runs /\ cache' = cache /\ issued' = issued
      /\ holders' = holders /\ born' = born
  BY DEF PreProcess
<1>2. \/ \E e \in cache : /\ resp' = [resp EXCEPT ![c] = e.resp]
                          /\ pc' = [pc EXCEPT ![c] = "reply"]
      \/ pc' = [pc EXCEPT ![c] = "run"] /\ resp' = resp
  BY DEF PreProcess, Entries
<1>3. \A e \in cache : e.resp \in Response /\ e.resp.session \in issued \cup {NoSession}
  BY DEF CachedPast, EntryPast, TypeOK
<1>4. TypeOK'
  <2>1. pc' \in [Conns -> {"idle", "pre", "run", "op", "post", "reply"}]
    BY <1>2 DEF TypeOK
  <2>2. resp' \in [Conns -> Response \cup {NoResponse}]
    BY <1>2, <1>3 DEF TypeOK
  <2> QED
    BY <1>1, <2>1, <2>2 DEF TypeOK
<1>5. Handling'
  <2>1. Placed(c)'
    <3>1. Placed(c) /\ pc[c] = "pre"
      BY DEF Handling, PreProcess
    <3>2. CASE \E e \in cache : /\ resp' = [resp EXCEPT ![c] = e.resp]
                              /\ pc' = [pc EXCEPT ![c] = "reply"]
      BY <1>1, <1>3, <3>1, <3>2 DEF Placed, TypeOK
    <3>3. CASE pc' = [pc EXCEPT ![c] = "run"] /\ resp' = resp
      BY <1>1, <3>1, <3>3 DEF Placed, TypeOK
    <3> QED
      BY <1>2, <3>2, <3>3
  <2>2. \A d \in Conns \ {c} : pc'[d] = pc[d] /\ resp'[d] = resp[d]
    BY <1>2 DEF TypeOK
  <2> QED
    BY <1>1, <2>1, <2>2, OthersPlaced DEF TypeOK
<1>6. CachedPast'
  BY <1>1, <1>2, CacheKept DEF TypeOK
<1>7. Answered' /\ FreshAnswers' /\ RefsOwn' /\ StopsAtFailure'
  BY <1>1, HistoryKept
<1>8. Waiting' \subseteq Waiting
  BY <1>2 DEF PreProcess, Waiting, TypeOK
<1>9. HeldWasMade' /\ OneRun'
  BY <1>1, OneRunKept DEF HeldWasMade
<1> QED
  BY <1>1, <1>4, <1>5, <1>6, <1>7, <1>8, <1>9, StillRoom

\* An execution without its parameters changes nothing but the count.
LEMMA MissingParameterStep ==
  ASSUME MethodsInv, NEW c \in Conns, MissingParameter(c)
  PROVE  MethodsInv'
<1> USE DEF MethodsInv
<1>1. RoomLeft' /\ runs' \in Runs /\ runs' = runs + 1
  BY RunRoom DEF MissingParameter, NextRun
<1>2. /\ resp' = [resp EXCEPT ![c] = ResponseOf(Fails(holders), runs', 0)]
      /\ ResponseOf(Fails(holders), runs', 0) \in Response
      /\ ResponseOf(Fails(holders), runs', 0).session = NoSession
  BY <1>1 DEF MissingParameter, ResponseOf, Fails, Outcome, Response
<1>3. TypeOK'
  BY <1>1, <1>2 DEF MissingParameter, NextRun, TypeOK, Runs
<1>4. Handling'
  <2>1. Placed(c)'
    BY <1>1, <1>2 DEF MissingParameter, NextRun, Handling, Placed, TypeOK
  <2> QED
    BY <1>1, <2>1, OthersPlaced DEF MissingParameter, NextRun, TypeOK
<1>5. CachedPast'
  BY <1>1, CacheKept DEF MissingParameter, NextRun, TypeOK
<1>6. Answered' /\ FreshAnswers' /\ RefsOwn' /\ StopsAtFailure'
  BY HistoryKept DEF MissingParameter, NextRun, Handling, Placed, TypeOK
<1>7. HeldWasMade' /\ OneRun'
  BY <1>1, OneRunKept DEF MissingParameter, NextRun, HeldWasMade
<1> QED
  BY <1>1, <1>3, <1>4, <1>5, <1>6, <1>7

\* The reply forgets the transaction.
LEMMA ReplyStep ==
  ASSUME MethodsInv, NEW c \in Conns, Reply(c)
  PROVE  MethodsInv'
<1> USE DEF MethodsInv
<1>1. NoResponse.session = NoSession
  BY DEF NoResponse
<1>2. TypeOK'
  BY <1>1, RunsAssumption DEF Reply, TypeOK
<1>3. Handling'
  <2>1. Placed(c)'
    BY <1>1 DEF Reply, Handling, Placed, TypeOK
  <2> QED
    BY <2>1, OthersPlaced DEF Reply, TypeOK
<1>4. CachedPast'
  BY CacheKept DEF Reply, TypeOK
<1>5. Answered' /\ FreshAnswers' /\ RefsOwn' /\ StopsAtFailure'
  BY HistoryKept DEF Reply, TypeOK
<1>6. RoomLeft'
  BY StillRoom DEF Reply, Waiting, TypeOK
<1>7. HeldWasMade' /\ OneRun'
  BY OneRunKept DEF Reply, HeldWasMade
<1> QED
  BY <1>2, <1>3, <1>4, <1>5, <1>6, <1>7

\* The session under which a response is cached is one that exists.
LEMMA WithCachedShape ==
  ASSUME NEW s \in Sessions \cup {NoSession}, NEW i, NEW r \in Response,
         NEW e \in WithCached(s, i, r)
  PROVE  \/ e \in cache
         \/ e.session \in Sessions /\ e.id = i /\ e.resp = r
  BY NamesAssumption DEF WithCached, Response

\* What is cached of a request has an id that no operation has.
LEMMA PostProcessStep ==
  ASSUME MethodsInv, NEW c \in Conns, PostProcess(c)
  PROVE  MethodsInv'
<1> USE DEF MethodsInv
<1>1. /\ req[c] \in Request /\ resp[c] \in Response
      /\ resp[c].session \in issued \cup {NoSession}
      /\ pc[c] = "post" /\ Placed(c)
  BY DEF PostProcess, Handling, Placed
<1>2. req[c].session \in Sessions \cup {NoSession} /\ req[c].id \notin Nat \X Nat
  BY <1>1, IdsAssumption DEF Request
<1>3. \A e \in cache' : \/ e \in cache
                        \/ e.session \in Sessions /\ e.id = req[c].id /\ e.resp = resp[c]
  BY <1>1, <1>2, WithCachedShape DEF PostProcess
<1>4. TypeOK'
  <2>1. \A e \in cache' : e.session \in Sessions /\ e.resp \in Response
    BY <1>1, <1>3 DEF TypeOK
  <2> QED
    BY <2>1 DEF PostProcess, TypeOK
<1>5. Handling'
  <2>1. Placed(c)'
    BY <1>1 DEF PostProcess, Placed, TypeOK
  <2> QED
    BY <2>1, OthersPlaced DEF PostProcess, TypeOK
<1>6. CachedPast'
  <2> SUFFICES ASSUME NEW e \in cache' PROVE EntryPast(e)'
    BY DEF CachedPast
  <2>1. CASE e \in cache
    BY <2>1, EntryKept DEF PostProcess, TypeOK
  <2>2. CASE e.id = req[c].id /\ e.resp = resp[c]
    BY <1>1, <1>2, <2>2 DEF PostProcess, EntryPast
  <2> QED
    BY <1>3, <2>1, <2>2
<1>7. Answered' /\ FreshAnswers' /\ RefsOwn' /\ StopsAtFailure'
  BY HistoryKept DEF PostProcess
<1>8. RoomLeft'
  BY StillRoom DEF PostProcess, Waiting, TypeOK
<1>9. HeldWasMade' /\ OneRun'
  BY OneRunKept DEF PostProcess, HeldWasMade
<1> QED
  BY <1>4, <1>5, <1>6, <1>7, <1>8, <1>9

\* A method makes an object that no transaction has used.
LEMMA RunMethodStep ==
  ASSUME MethodsInv, NEW c \in Conns, RunMethod(c)
  PROVE  MethodsInv'
<1> USE DEF MethodsInv
<1>0. PICK s \in Sessions :
        /\ WorkingSession(c, s)
        /\ \E e \in Outcomes(req[c].method, req[c].arg, s) :
             /\ Becomes(e, runs')
             /\ resp' = [resp EXCEPT ![c] = ResponseOf(e, runs', 0)]
  BY DEF RunMethod
<1>1. PICK e \in Outcomes(req[c].method, req[c].arg, s) :
        /\ WorkingSession(c, s)
        /\ Becomes(e, runs')
        /\ resp' = [resp EXCEPT ![c] = ResponseOf(e, runs', 0)]
  BY <1>0
<1>2. OutcomeIn(e, s)
  BY OutcomeShape DEF RunMethod
<1>3. RoomLeft' /\ runs' \in Runs /\ runs' = runs + 1
  BY RunRoom DEF RunMethod, NextRun
<1>4. /\ ResponseOf(e, runs', 0) \in Response
      /\ ResponseOf(e, runs', 0).session \in {s, NoSession}
  BY <1>2, <1>3, ResponseShape
<1>5. /\ issued' = issued \cup {s}
      /\ sess' = [sess EXCEPT ![c] = s]
      /\ holders' = e.holders
      /\ born' = [o \in Objects |->
                    IF born[o] = 0 /\ e.holders[o] # {} THEN runs' ELSE born[o]]
  BY <1>1 DEF WorkingSession, Becomes
<1>6. \A x \in Objects : born[x] # 0 => born'[x] = born[x]
  BY <1>1, BornStays
<1>7. TypeOK'
  <2>1. holders' \in [Objects -> SUBSET issued']
    BY <1>2, <1>5 DEF OutcomeIn
  <2>2. born' \in [Objects -> 0 .. runs']
    BY <1>3, <1>5 DEF TypeOK, Runs
  <2>3. resp' \in [Conns -> Response \cup {NoResponse}]
    BY <1>1, <1>4 DEF TypeOK
  <2>4. run' \in [Conns -> 0 .. MaxRuns] /\ runs' \in 0 .. MaxRuns
    BY <1>3, RunsAssumption DEF RunMethod, NextRun, TypeOK, Runs
  <2> QED
    BY <1>5, <2>1, <2>2, <2>3, <2>4 DEF RunMethod, TypeOK
<1>8. Handling'
  <2>1. Placed(c) /\ pc[c] = "run"
    BY DEF RunMethod, Handling
  <2>2. /\ pc'[c] = "post" /\ req'[c] = req[c] /\ run'[c] = runs'
        /\ responses'[c] = responses[c] /\ worked'[c] = worked[c]
        /\ resp'[c] = ResponseOf(e, runs', 0)
    BY <1>1 DEF RunMethod, NextRun, TypeOK
  <2>3. Placed(c)'
    BY <1>3, <1>4, <1>5, <2>1, <2>2 DEF Placed, Runs
  <2> QED
    <3>1. \A d \in Conns \ {c} :
            /\ pc'[d] = pc[d] /\ req'[d] = req[d] /\ sess'[d] = sess[d]
            /\ run'[d] = run[d] /\ responses'[d] = responses[d]
            /\ worked'[d] = worked[d] /\ resp'[d] = resp[d]
      BY <1>1, <1>5 DEF RunMethod, NextRun, TypeOK
    <3>2. runs \in Nat /\ runs' \in Nat /\ runs <= runs' /\ issued \subseteq issued'
      BY <1>3, <1>5 DEF TypeOK
    <3> QED
      BY <2>3, <3>1, <3>2, OthersPlaced
<1>9. CachedPast'
  BY <1>3, <1>5, CacheKept DEF RunMethod, NextRun, TypeOK
<1>10. Answered' /\ FreshAnswers' /\ RefsOwn' /\ StopsAtFailure'
  BY <1>6, HistoryKept DEF RunMethod, NextRun, Handling, Placed, TypeOK
<1>11. HeldWasMade'
  BY <1>1, <1>3, HeldStep
<1>12. OneRun'
  BY <1>3, OneRunKept DEF RunMethod, NextRun
<1> QED
  BY <1>3, <1>7, <1>8, <1>9, <1>10, <1>11, <1>12

-----------------------------------------------------------------------------
(* The steps of a transaction                                              *)

\* A transaction starts without responses, with a number of its own.
LEMMA BeginTransactionStep ==
  ASSUME MethodsInv, NEW c \in Conns, BeginTransaction(c)
  PROVE  MethodsInv'
<1> USE DEF MethodsInv
<1>1. PICK s \in Sessions : /\ issued' = issued \cup {s}
                            /\ sess' = [sess EXCEPT ![c] = s]
  BY DEF BeginTransaction, WorkingSession
<1>2. RoomLeft' /\ runs' \in Runs /\ runs' = runs + 1
  BY RunRoom DEF BeginTransaction, NextRun
<1>3. TypeOK'
  <2>1. run' \in [Conns -> 0 .. MaxRuns] /\ runs' \in 0 .. MaxRuns
    BY <1>2, RunsAssumption DEF BeginTransaction, NextRun, TypeOK, Runs
  <2>2. holders' \in [Objects -> SUBSET issued'] /\ born' \in [Objects -> 0 .. runs']
    BY <1>1, <1>2 DEF BeginTransaction, TypeOK
  <2> QED
    BY <1>1, <2>1, <2>2 DEF BeginTransaction, TypeOK
<1>4. Handling'
  <2>1. Placed(c) /\ pc[c] = "run" /\ req[c].method = "transaction"
    BY DEF BeginTransaction, Handling
  <2>2. /\ pc'[c] = "op" /\ req'[c] = req[c] /\ run'[c] = runs' /\ sess'[c] = s
        /\ responses'[c] = responses[c] /\ worked'[c] = worked[c]
        /\ resp'[c] = resp[c]
    BY <1>1 DEF BeginTransaction, NextRun, TypeOK
  <2>3. Placed(c)'
    BY <1>1, <1>2, <2>1, <2>2 DEF Placed, Runs
  <2>4. \A d \in Conns \ {c} :
          /\ pc'[d] = pc[d] /\ req'[d] = req[d] /\ sess'[d] = sess[d]
          /\ run'[d] = run[d] /\ responses'[d] = responses[d]
          /\ worked'[d] = worked[d] /\ resp'[d] = resp[d]
    BY <1>1 DEF BeginTransaction, NextRun, TypeOK
  <2>5. runs \in Nat /\ runs' \in Nat /\ runs <= runs' /\ issued \subseteq issued'
    BY <1>1, <1>2 DEF TypeOK
  <2> QED
    BY <2>3, <2>4, <2>5, OthersPlaced
<1>5. CachedPast'
  BY <1>1, <1>2, CacheKept DEF BeginTransaction, NextRun, TypeOK
<1>6. Answered' /\ FreshAnswers' /\ RefsOwn' /\ StopsAtFailure'
  BY HistoryKept DEF BeginTransaction, NextRun, Handling, Placed, TypeOK
<1>7. HeldWasMade' /\ OneRun'
  BY <1>2, OneRunKept DEF BeginTransaction, NextRun, HeldWasMade
<1> QED
  BY <1>2, <1>3, <1>4, <1>5, <1>6, <1>7

\* Both ways in which a transaction ends give a response of its own.
LEMMA FinishStep ==
  ASSUME MethodsInv, NEW c \in Conns, AbortTransaction(c) \/ EndTransaction(c)
  PROVE  MethodsInv'
<1> USE DEF MethodsInv
<1>1. /\ pc[c] = "op" /\ Placed(c) /\ run[c] \in Runs
      /\ sess[c] \in issued /\ issued \subseteq Sessions
  BY DEF AbortTransaction, EndTransaction, Handling, Placed, TypeOK
<1>2. PICK r \in Response : /\ resp' = [resp EXCEPT ![c] = r]
                            /\ r.session \in issued \cup {NoSession}
  <2>1. CASE AbortTransaction(c)
    <3>1. /\ ResponseOf(Fails(holders), run[c], 0) \in Response
          /\ ResponseOf(Fails(holders), run[c], 0).session = NoSession
      BY <1>1 DEF ResponseOf, Fails, Outcome, Response
    <3> QED
      BY <2>1, <3>1 DEF AbortTransaction
  <2>2. CASE EndTransaction(c)
    <3> DEFINE r == [ok |-> TRUE, value |-> NoObject, session |-> sess[c],
                     made |-> <<run[c], 0>>]
    <3>1. r \in Response /\ r.session \in issued
      BY <1>1 DEF Response
    <3>2. resp' = [resp EXCEPT ![c] = r]
      BY <2>2 DEF EndTransaction
    <3> QED
      BY <3>1, <3>2
  <2> QED
    BY <2>1, <2>2
<1>3. /\ pc' = [pc EXCEPT ![c] = "post"]
      /\ UNCHANGED <<req, sess, run, responses, worked, runs, cache, issued,
                     holders, born>>
  BY DEF AbortTransaction, EndTransaction
<1>4. TypeOK'
  BY <1>2, <1>3 DEF TypeOK
<1>5. Handling'
  <2>1. Placed(c)'
    BY <1>1, <1>2, <1>3 DEF Placed, TypeOK
  <2> QED
    BY <1>2, <1>3, <2>1, OthersPlaced DEF TypeOK
<1>6. CachedPast'
  BY <1>3, CacheKept DEF TypeOK
<1>7. Answered' /\ FreshAnswers' /\ RefsOwn' /\ StopsAtFailure'
  BY <1>3, HistoryKept
<1>8. RoomLeft'
  BY <1>3, StillRoom DEF Waiting, TypeOK
<1>9. HeldWasMade' /\ OneRun'
  BY <1>3, OneRunKept DEF HeldWasMade
<1> QED
  BY <1>4, <1>5, <1>6, <1>7, <1>8, <1>9

\* The cache holds nothing under the id of the operation that is next: what it
\* holds of this transaction is of earlier positions.
LEMMA NotCached ==
  ASSUME MethodsInv, NEW c \in Conns, pc[c] = "op"
  PROVE  Entries(OperationSession(c), OperationId(c)) = {}
<1>1. run[c] \in Nat /\ Position(c) \in Nat /\ Position(c) > Len(responses[c])
  BY DEF MethodsInv, TypeOK, Position
<1>2. ASSUME NEW e \in cache, e.id = <<run[c], Position(c)>> PROVE FALSE
  <2>1. e.id \in Nat \X Nat /\ e.id[1] = run[c] /\ e.id[2] = Position(c)
    BY <1>1, <1>2
  <2>2. e.id[2] <= Len(responses[c])
    BY <2>1 DEF MethodsInv, CachedPast, EntryPast
  <2> QED
    BY <1>1, <2>1, <2>2 DEF MethodsInv, TypeOK
<1> QED
  BY <1>2 DEF Entries, OperationId

\* What an operation becomes is an outcome of its method, and its response is its
\* own.
LEMMA ProcessedShape ==
  ASSUME MethodsInv, NEW c \in Conns, pc[c] = "op", Going(c),
         NEW p \in Processed(c), Becomes(p[1], run[c])
  PROVE  /\ OutcomeIn(p[1], sess[c])
         /\ p[2] \in Response
         /\ p[2].session \in issued \cup {NoSession}
         /\ p[2].made = <<run[c], Position(c)>>
         /\ p[2].ok => WillStandFor(Operation(c).method, p[2].value, run[c])
<1> USE DEF MethodsInv
<1>1. /\ run[c] \in Runs /\ sess[c] \in issued /\ sess[c] \in Sessions
      /\ req[c].ops \in Seq(Operations)
      /\ Position(c) \in 1 .. Len(req[c].ops)
  BY TransactionsAssumption DEF Handling, Placed, TypeOK, Going, Position
<1>2. Operation(c).method \in Simple
  <2>1. Operation(c) \in Operations
    BY <1>1 DEF Operation
  <2> QED
    BY <2>1 DEF Operations
<1>3. PICK e \in Outcomes(Operation(c).method, Argument(c), sess[c]) :
        p = <<e, ResponseOf(e, run[c], Position(c))>>
  BY NotCached DEF Processed, OperationSession
<1>4. p[1] = e /\ p[2] = ResponseOf(e, run[c], Position(c))
  BY <1>3
<1>5. OutcomeIn(e, sess[c])
  BY <1>1, <1>2, OutcomeShape
<1>6. /\ p[2] \in Response
      /\ p[2].session \in {sess[c], NoSession}
      /\ p[2].made = <<run[c], Position(c)>>
      /\ p[2].value = e.value /\ p[2].ok = e.ok
  BY <1>1, <1>4, <1>5, ResponseShape
<1>7. ASSUME e.ok PROVE WillStandFor(Operation(c).method, e.value, run[c])
  <2>1. /\ Operation(c).method = "create" =>
             e.value \in Objects /\ born[e.value] = 0 /\ e.holders[e.value] # {}
        /\ Operation(c).method = "invoke" =>
             \/ e.value = NoObject
             \/ e.value \in Objects /\ holders[e.value] # {}
        /\ Operation(c).method \notin {"create", "invoke"} => e.value = NoObject
    BY <1>1, <1>2, <1>7, OutcomeValue
  <2>2. \A x \in Objects : holders[x] # {} => born'[x] # 0
    BY <1>4, BornStays DEF HeldWasMade
  <2>3. \A x \in Objects : (born[x] = 0 /\ e.holders[x] # {}) => born'[x] = run[c]
    BY <1>4 DEF Becomes
  <2> QED
    BY <2>1, <2>2, <2>3 DEF WillStandFor
<1> QED
  BY <1>1, <1>4, <1>5, <1>6, <1>7

\* An operation adds its own response, with a value that its method gives.
LEMMA RunOperationStep ==
  ASSUME MethodsInv, NEW c \in Conns, RunOperation(c)
  PROVE  MethodsInv'
<1> USE DEF MethodsInv
<1> DEFINE n == Len(responses[c]) + 1
<1>1. PICK p \in Processed(c) :
        /\ Becomes(p[1], run[c])
        /\ cache' = WithCached(OperationSession(c), OperationId(c), p[2])
        /\ responses' = [responses EXCEPT ![c] = Append(@, p[2])]
  BY DEF RunOperation
<1>2. /\ pc[c] = "op" /\ Going(c) /\ ~Malformed(c)
      /\ worked' = [worked EXCEPT ![c] = Append(@, Argument(c))]
      /\ UNCHANGED <<pc, req, sess, run, resp, runs, issued>>
  BY DEF RunOperation
<1>3. /\ OutcomeIn(p[1], sess[c])
      /\ p[2] \in Response
      /\ p[2].session \in issued \cup {NoSession}
      /\ p[2].made = <<run[c], n>>
      /\ p[2].ok => WillStandFor(Operation(c).method, p[2].value, run[c])
  BY <1>1, <1>2, ProcessedShape DEF Position
<1>4. /\ run[c] \in Runs /\ run[c] <= runs /\ sess[c] \in issued /\ sess[c] \in Sessions
      /\ Placed(c)
      /\ responses[c] \in Seq(Response) /\ worked[c] \in Seq(Objects \cup {NoObject})
      /\ Len(worked[c]) = Len(responses[c])
      /\ n \in Nat
  BY <1>2 DEF Handling, Placed, TypeOK
<1>5. \A x \in Objects : born[x] # 0 => born'[x] = born[x]
  BY <1>1, BornStays
<1>23. /\ Operation(c) = req[c].ops[n] /\ Operation(c) \in Operations
      /\ Operation(c).ref \in Nat /\ Operation(c).arg \in Objects \cup {NoObject}
  <2>1. req[c].ops \in Seq(Operations)
    BY <1>2, <1>4, TransactionsAssumption DEF Placed
  <2>2. Operation(c) = req[c].ops[n] /\ n \in 1 .. Len(req[c].ops)
    BY <1>2, <1>4, <2>1 DEF Operation, Position, Going
  <2>3. Operation(c) \in Operations
    BY <2>1, <2>2
  <2> QED
    BY <2>2, <2>3 DEF Operations
<1>6. Argument(c) \in Objects \cup {NoObject}
  <2>1. \A k \in 1 .. Len(responses[c]) : responses[c][k] \in Response
    BY <1>4
  <2>2. \A k \in 1 .. Len(responses[c]) : responses[c][k].value \in Objects \cup {NoObject}
    BY <2>1 DEF Response
  <2> QED
    BY <1>23, <2>2 DEF Argument
<1>7. \A e \in cache' :
        \/ e \in cache
        \/ e.session \in Sessions /\ e.id = <<run[c], n>> /\ e.resp = p[2]
  BY <1>1, <1>3, <1>4, WithCachedShape DEF OperationSession, OperationId, Position
<1>8. /\ responses'[c] = Append(responses[c], p[2])
      /\ worked'[c] = Append(worked[c], Argument(c))
      /\ \A d \in Conns \ {c} : responses'[d] = responses[d] /\ worked'[d] = worked[d]
  BY <1>1, <1>2 DEF TypeOK
<1>9. TypeOK'
  <2>1. holders' \in [Objects -> SUBSET issued']
    BY <1>1, <1>2, <1>3, <1>4 DEF OutcomeIn, Becomes
  <2>2. born' \in [Objects -> 0 .. runs']
    BY <1>1, <1>2, <1>4 DEF Becomes, TypeOK, Runs
  <2>3. responses' \in [Conns -> Seq(Response)]
    BY <1>1, <1>3, <1>4 DEF TypeOK
  <2>4. worked' \in [Conns -> Seq(Objects \cup {NoObject})]
    BY <1>2, <1>4, <1>6 DEF TypeOK
  <2>5. \A e \in cache' : e.session \in Sessions /\ e.resp \in Response
    BY <1>3, <1>7 DEF TypeOK
  <2> QED
    BY <1>2, <2>1, <2>2, <2>3, <2>4, <2>5 DEF TypeOK
<1>10. Handling'
  <2>1. Len(worked'[c]) = Len(responses'[c])
    BY <1>3, <1>4, <1>6, <1>8
  <2>2. Placed(c)'
    BY <1>2, <1>4, <2>1 DEF Placed
  <2> QED
    BY <1>2, <1>8, <2>2, OthersPlaced DEF TypeOK
<1>11. CachedPast'
  <2>0. Len(responses[c]) \in Nat /\ Len(responses'[c]) = n
    BY <1>3, <1>4, <1>8
  <2> SUFFICES ASSUME NEW e \in cache' PROVE EntryPast(e)'
    BY DEF CachedPast
  <2>1. CASE e \in cache
    <3>1. \A d \in Conns : \A k \in Nat :
            k <= Len(responses[d]) => k <= Len(responses'[d])
      BY <1>8, <2>0
    <3> HIDE DEF n
    <3> QED
      BY <1>2, <2>1, <3>1, EntryKept DEF TypeOK
  <2>2. CASE e.id = <<run[c], n>> /\ e.resp = p[2]
    <3>1. e.id[1] = run[c] /\ e.id[2] = n
      BY <2>2
    <3>2. \A d \in Conns : run'[d] = e.id[1] => d = c
      BY <1>2, <1>4, <3>1 DEF OneRun, Runs
    <3>3. n <= Len(responses'[c])
      BY <1>4, <2>0
    <3> HIDE DEF n
    <3> QED
      BY <1>2, <1>3, <1>4, <2>2, <3>1, <3>2, <3>3 DEF EntryPast
  <2> QED
    BY <1>7, <2>1, <2>2
<1>12. RoomLeft'
  BY <1>2, StillRoom DEF Waiting
<1>13. /\ Len(responses'[c]) = n
       /\ responses'[c][n] = p[2]
       /\ \A k \in 1 .. Len(responses[c]) : responses'[c][k] = responses[c][k]
  BY <1>3, <1>4, <1>8
<1>14. /\ Len(worked'[c]) = n
       /\ worked'[c][n] = Argument(c)
       /\ \A k \in 1 .. Len(worked[c]) : worked'[c][k] = worked[c][k]
  BY <1>4, <1>6, <1>8
<1>15. \A k \in 1 .. n : k = n \/ k \in 1 .. Len(responses[c])
  BY <1>4
<1>16. \A d \in Conns : \A k \in 1 .. Len(responses[d]) : responses[d][k].ok =>
         WillStandFor(req[d].ops[k].method, responses[d][k].value, run[d])
  <2> SUFFICES ASSUME NEW d \in Conns, NEW k \in 1 .. Len(responses[d]),
                      responses[d][k].ok
               PROVE  WillStandFor(req[d].ops[k].method, responses[d][k].value, run[d])
    OBVIOUS
  <2>1. responses[d] # <<>> /\ responses[d][k] \in Response
    BY DEF TypeOK
  <2>2. run[d] # 0 /\ responses[d][k].value \in Objects \cup {NoObject}
    BY <2>1 DEF Handling, Placed, Runs, Response
  <2>3. StandsFor(req[d].ops[k].method, responses[d][k].value, run[d])
    BY DEF Answered
  <2> QED
    BY <1>5, <2>2, <2>3, StandsStays
<1> HIDE DEF n
<1>17. Answered'
  <2> SUFFICES ASSUME NEW d \in Conns, NEW k \in 1 .. Len(responses'[d]),
                      responses'[d][k].ok
               PROVE  StandsFor(req[d].ops[k].method, responses[d][k].value, run[d])'
    BY DEF Answered
  <2>1. WillStandFor(req[d].ops[k].method, responses'[d][k].value, run[d])
    <3>1. CASE d = c
      BY <1>3, <1>23, <1>13, <1>15, <1>16, <3>1
    <3>2. CASE d # c
      BY <1>8, <1>16, <3>2
    <3> QED
      BY <3>1, <3>2
  <2> QED
    BY <1>2, <2>1 DEF StandsFor, WillStandFor
<1>18. FreshAnswers'
  <2> SUFFICES ASSUME NEW d \in Conns, NEW k \in 1 .. Len(responses'[d])
               PROVE  responses'[d][k].made = <<run'[d], k>>
    BY DEF FreshAnswers
  <2>1. CASE d = c
    BY <1>2, <1>3, <1>13, <1>15, <2>1 DEF FreshAnswers
  <2>2. CASE d # c
    BY <1>2, <1>8, <2>2 DEF FreshAnswers
  <2> QED
    BY <2>1, <2>2
<1>19. StopsAtFailure'
  <2>1. \A k \in 1 .. Len(responses[c]) : responses[c][k].ok
    BY <1>2 DEF Going
  <2> SUFFICES ASSUME NEW d \in Conns, NEW k \in 1 .. Len(responses'[d])
               PROVE  responses'[d][k].ok \/ k = Len(responses'[d])
    BY DEF StopsAtFailure
  <2>2. CASE d = c
    BY <1>13, <1>15, <2>1, <2>2
  <2>3. CASE d # c
    BY <1>8, <2>3 DEF StopsAtFailure
  <2> QED
    BY <2>2, <2>3
<1>20. RefsOwn'
  <2> SUFFICES ASSUME NEW d \in Conns, NEW m \in 1 .. Len(worked'[d]),
                      req'[d].ops[m].ref # 0
               PROVE  /\ req'[d].ops[m].ref < m
                      /\ StandsFor(req[d].ops[req[d].ops[m].ref].method, worked[d][m],
                                   run[d])'
    BY DEF RefsOwn
  <2> DEFINE k == req[d].ops[m].ref
  <2> SUFFICES k < m /\ WillStandFor(req[d].ops[k].method, worked'[d][m], run[d])
    BY <1>2 DEF StandsFor, WillStandFor
  <2>1. CASE d = c /\ m = n
    <3>1. k < n /\ k \in Nat
      BY <1>2, <1>23, <2>1 DEF Malformed, Position, n
    <3>2. k \in 1 .. Len(responses[c])
      BY <1>2, <1>4, <2>1, <3>1 DEF n
    <3>3. Argument(c) = responses[c][k].value
      BY <1>23, <2>1, <3>2 DEF Argument
    <3>4. responses[c][k].ok
      BY <1>2, <3>2 DEF Going
    <3> HIDE DEF k
    <3>5. WillStandFor(req[c].ops[k].method, responses[c][k].value, run[c])
      BY <1>16, <3>2, <3>4
    <3> QED
      BY <1>14, <2>1, <3>1, <3>3, <3>5
  <2>2. CASE m \in 1 .. Len(worked[d]) /\ worked'[d][m] = worked[d][m]
    <3>1. k < m /\ StandsFor(req[d].ops[k].method, worked[d][m], run[d])
      BY <1>2, <2>2 DEF RefsOwn
    <3>2. worked[d][m] \in Objects \cup {NoObject} /\ worked[d] # <<>>
      BY <2>2 DEF TypeOK
    <3>3. run[d] # 0
      BY <2>2, <3>2 DEF Handling, Placed, Runs, TypeOK
    <3> HIDE DEF k
    <3> QED
      BY <1>5, <2>2, <3>1, <3>2, <3>3, StandsStays
  <2>3. (d = c /\ m = n) \/ (m \in 1 .. Len(worked[d]) /\ worked'[d][m] = worked[d][m])
    BY <1>4, <1>8, <1>14, <1>15
  <2> QED
    BY <2>1, <2>2, <2>3
<1>21. HeldWasMade'
  BY <1>1, <1>4, HeldStep
<1>22. OneRun'
  BY <1>2, OneRunKept
<1> QED
  BY <1>9, <1>10, <1>11, <1>12, <1>17, <1>18, <1>19, <1>20, <1>21, <1>22

\* An entry that expires takes nothing with it.
LEMMA ExpireStep ==
  ASSUME MethodsInv, NEW e \in cache, Expire(e)
  PROVE  MethodsInv'
<1> USE DEF MethodsInv
<1>1. TypeOK' /\ Handling'
  BY DEF Expire, handlerVars, TypeOK, Handling, Placed
<1>2. CachedPast'
  BY CacheKept DEF Expire, handlerVars, TypeOK
<1>3. Answered' /\ FreshAnswers' /\ RefsOwn' /\ StopsAtFailure'
  BY HistoryKept DEF Expire, handlerVars
<1>4. RoomLeft'
  BY StillRoom DEF Expire, handlerVars, Waiting
<1>5. HeldWasMade' /\ OneRun'
  BY DEF Expire, handlerVars, HeldWasMade, OneRun
<1> QED
  BY <1>1, <1>2, <1>3, <1>4, <1>5

-----------------------------------------------------------------------------
(* Theorems                                                                *)

\* The invariant holds to begin with, and every step keeps it.
LEMMA MethodsInvInit == Init => MethodsInv
<1> SUFFICES ASSUME Init PROVE MethodsInv
  OBVIOUS
<1>1. TypeOK
  BY RunsAssumption DEF Init, TypeOK
<1>2. /\ HeldWasMade /\ Handling /\ OneRun /\ CachedPast /\ Answered
      /\ FreshAnswers /\ RefsOwn /\ StopsAtFailure
  BY DEF Init, HeldWasMade, Handling, Placed, OneRun, CachedPast, Answered,
         FreshAnswers, RefsOwn, StopsAtFailure, NoResponse
<1>3. Waiting = {}
  BY DEF Init, Waiting
<1>4. Cardinality(Waiting) = 0
  BY <1>3, FS_EmptySet
<1>5. RoomLeft
  BY <1>4, RunsAssumption DEF Init, RoomLeft
<1> QED
  BY <1>1, <1>2, <1>5 DEF MethodsInv

\* Every step keeps the invariant.
LEMMA MethodsInvStep == MethodsInv /\ [Next]_vars => MethodsInv'
<1> SUFFICES ASSUME MethodsInv, [Next]_vars PROVE MethodsInv'
  OBVIOUS
<1>1. ASSUME NEW c \in Conns, NEW r \in Requests, Receive(c, r) PROVE MethodsInv'
  BY <1>1, ReceiveStep
<1>2. ASSUME NEW c \in Conns, PreProcess(c) \/ MissingParameter(c) \/ Reply(c)
                                \/ PostProcess(c) \/ RunMethod(c)
      PROVE  MethodsInv'
  BY <1>2, PreProcessStep, MissingParameterStep, ReplyStep, PostProcessStep,
     RunMethodStep
<1>3. ASSUME NEW c \in Conns, BeginTransaction(c) \/ AbortTransaction(c)
                                \/ RunOperation(c) \/ EndTransaction(c)
      PROVE  MethodsInv'
  BY <1>3, BeginTransactionStep, FinishStep, RunOperationStep
<1>4. ASSUME NEW e \in cache, Expire(e) PROVE MethodsInv'
  BY <1>4, ExpireStep
<1>5. CASE UNCHANGED vars
  BY <1>5 DEF vars, handlerVars, MethodsInv, TypeOK, HeldWasMade, Handling, Placed,
     OneRun, CachedPast, EntryPast, Answered, StandsFor, RoomLeft, Waiting,
     FreshAnswers, RefsOwn, StopsAtFailure
<1> QED
  BY <1>1, <1>2, <1>3, <1>4, <1>5 DEF Next, BoundReached

\* The invariant of every behaviour.
LEMMA AlwaysMethodsInv == Spec => []MethodsInv
  BY MethodsInvInit, MethodsInvStep, PTL DEF Spec

\* Init and Next give the type invariant: in particular every session that holds
\* an object, or that a response names, was generated.
THEOREM TypeCorrect == Spec => []TypeOK
<1>1. MethodsInv => TypeOK
  BY DEF MethodsInv
<1> QED
  BY <1>1, AlwaysMethodsInv, PTL

\* An operation of a transaction is answered by running it and never from the
\* cache, whatever the session, the ids of its requests and what expires.
THEOREM AlwaysFreshAnswers == Spec => []FreshAnswers
<1>1. MethodsInv => FreshAnswers
  BY DEF MethodsInv
<1> QED
  BY <1>1, AlwaysMethodsInv, PTL

\* A newref always stands for what the operation that it names answered in this
\* transaction, and never points ahead: the object of a create was made here, that
\* of an invoke by some execution, and no other method answers with one.
THEOREM AlwaysRefsOwn == Spec => []RefsOwn
<1>1. MethodsInv => RefsOwn
  BY DEF MethodsInv
<1> QED
  BY <1>1, AlwaysMethodsInv, PTL

\* A transaction stops at the first operation that fails.
THEOREM AlwaysStopsAtFailure == Spec => []StopsAtFailure
<1>1. MethodsInv => StopsAtFailure
  BY DEF MethodsInv
<1> QED
  BY <1>1, AlwaysMethodsInv, PTL

\* A request attaches objects to the session that it works in and to no other.
THEOREM AttachesToOneSession == Spec => OneSession
<1>1. ASSUME MethodsInv, [Next]_vars
      PROVE  \A c \in Conns : (RunMethod(c) \/ RunOperation(c)) =>
               \A o \in Objects : holders'[o] \ holders[o] \subseteq {sess'[c]}
  <2> SUFFICES ASSUME NEW c \in Conns, RunMethod(c) \/ RunOperation(c), NEW o \in Objects
               PROVE  holders'[o] \ holders[o] \subseteq {sess'[c]}
    OBVIOUS
  <2> USE <1>1 DEF MethodsInv
  <2>1. CASE RunMethod(c)
    <3>1. PICK s \in Sessions :
            /\ WorkingSession(c, s)
            /\ \E e \in Outcomes(req[c].method, req[c].arg, s) : Becomes(e, runs')
      BY <2>1 DEF RunMethod
    <3>2. PICK e \in Outcomes(req[c].method, req[c].arg, s) : Becomes(e, runs')
      BY <3>1
    <3>3. OutcomeIn(e, s) /\ holders' = e.holders
      BY <2>1, <3>2, OutcomeShape DEF RunMethod, Becomes
    <3>4. sess'[c] = s
      BY <3>1 DEF WorkingSession, TypeOK
    <3> QED
      BY <3>3, <3>4 DEF OutcomeIn
  <2>2. CASE RunOperation(c)
    <3>1. PICK p \in Processed(c) : Becomes(p[1], run[c])
      BY <2>2 DEF RunOperation
    <3>2. OutcomeIn(p[1], sess[c]) /\ holders' = p[1].holders
      BY <2>2, <3>1, ProcessedShape DEF RunOperation, Becomes
    <3>3. sess'[c] = sess[c]
      BY <2>2 DEF RunOperation
    <3> QED
      BY <3>2, <3>3 DEF OutcomeIn
  <2> QED
    BY <2>1, <2>2
<1> QED
  BY <1>1, AlwaysMethodsInv, PTL DEF Spec, OneSession

-----------------------------------------------------------------------------
(* Objects that are gone                                                   *)

\* An object that was made and that no session holds any more is never held
\* again: no retry, no reference of a transaction and no late request brings it
\* back, and no other object gets its identifier.
StaysGone ==
  [][\A o \in Objects : (born[o] # 0 /\ holders[o] = {}) =>
       born'[o] = born[o] /\ holders'[o] = {}]_vars

\* The steps that change what is held: an outcome of one execution.
LEMMA WhoMakesObjects ==
  ASSUME MethodsInv, [Next]_vars
  PROVE  \/ UNCHANGED <<holders, born>>
         \/ \E s \in Sessions, r \in Runs : \E e : OutcomeIn(e, s) /\ Becomes(e, r)
<1> USE DEF MethodsInv
<1>1. ASSUME NEW c \in Conns, RunMethod(c)
      PROVE  \E s \in Sessions, r \in Runs : \E e : OutcomeIn(e, s) /\ Becomes(e, r)
  <2>1. PICK s \in Sessions :
          \E e \in Outcomes(req[c].method, req[c].arg, s) : Becomes(e, runs')
    BY <1>1 DEF RunMethod
  <2>2. PICK e \in Outcomes(req[c].method, req[c].arg, s) : Becomes(e, runs')
    BY <2>1
  <2>3. OutcomeIn(e, s)
    BY <1>1, OutcomeShape DEF RunMethod
  <2>4. runs' \in Runs
    BY <1>1, RunRoom DEF RunMethod, NextRun
  <2> QED
    BY <2>2, <2>3, <2>4
<1>2. ASSUME NEW c \in Conns, RunOperation(c)
      PROVE  \E s \in Sessions, r \in Runs : \E e : OutcomeIn(e, s) /\ Becomes(e, r)
  <2>1. PICK p \in Processed(c) : Becomes(p[1], run[c])
    BY <1>2 DEF RunOperation
  <2>2. OutcomeIn(p[1], sess[c])
    BY <1>2, <2>1, ProcessedShape DEF RunOperation
  <2>3. sess[c] \in Sessions /\ run[c] \in Runs
    BY <1>2 DEF RunOperation, Handling, Placed, TypeOK
  <2> QED
    BY <2>1, <2>2, <2>3
<1> QED
  BY <1>1, <1>2 DEF Next, BoundReached, vars, handlerVars, Receive, PreProcess,
     MissingParameter, PostProcess, Reply, BeginTransaction, AbortTransaction,
     EndTransaction, Expire

\* An object comes into being once: with the execution that made it, and when the
\* last session has dropped it, never again.
THEOREM ObjectsStayGone == Spec => []HeldWasMade /\ StaysGone
<1>1. MethodsInv => HeldWasMade
  BY DEF MethodsInv
<1>2. ASSUME MethodsInv, [Next]_vars
      PROVE  \A o \in Objects : (born[o] # 0 /\ holders[o] = {}) =>
                  born'[o] = born[o] /\ holders'[o] = {}
  <2>1. CASE UNCHANGED <<holders, born>>
    BY <2>1
  <2>2. ASSUME NEW s \in Sessions, NEW r \in Runs, NEW e,
               OutcomeIn(e, s), Becomes(e, r), NEW o \in Objects,
               born[o] # 0, holders[o] = {}
        PROVE  born'[o] = born[o] /\ holders'[o] = {}
    BY <2>2, BornStays DEF OutcomeIn, Becomes
  <2> QED
    BY <1>2, <2>1, <2>2, WhoMakesObjects
<1> QED
  BY <1>1, <1>2, AlwaysMethodsInv, PTL DEF Spec, StaysGone

=============================================================================
