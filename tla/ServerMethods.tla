---------------------------- MODULE ServerMethods ----------------------------
(***************************************************************************)
(* The JSON-RPC methods of the media server (server/ServerMethods.cpp):    *)
(* what create, invoke, describe, subscribe, ref, unref, release,          *)
(* closeSession and transaction do to the media objects, and how the cache *)
(* of responses sits around each of them, the operations of a transaction  *)
(* included.  A transaction as an operation of another is left out.        *)
(*                                                                         *)
(* Handlers of different connections interleave between the operations of  *)
(* a transaction.  A call of MediaSet, which locks itself, is one step.    *)
(* The timers of the cache and the race between postProcess's lookup and   *)
(* its insertion are the subject of RequestCache: an entry here expires at *)
(* any time, and postProcess is atomic.                                    *)
(***************************************************************************)
EXTENDS Naturals, Sequences, FiniteSets

CONSTANTS
  Conns,        \* connections whose handlers run requests
  Sessions,     \* session identifiers that may be generated or named
  Objects,      \* identifiers of media objects, each generated once
  Ids,          \* request ids that clients choose
  Transactions, \* the sequences of operations that clients send
  NoSession, NoObject,
  MaxRuns       \* bound on the requests that are executed

\* "use" stands for describe, subscribe and ref, whose results have no object.
Simple == {"create", "invoke", "use", "unref", "release", "close"}

\* An operation of a transaction: ref is the number in "newref:", counted from
\* 1, or 0 when its parameter is the object arg itself; goodId says whether its
\* id is its position; names is the sessionId among its own parameters.
Operations == [method : Simple, ref : Nat, arg : Objects \cup {NoObject},
               goodId : BOOLEAN, names : Sessions \cup {NoSession}]

ASSUME NamesAssumption == NoSession \notin Sessions /\ NoObject \notin Objects

ASSUME TransactionsAssumption == Transactions \in SUBSET Seq(Operations)

ASSUME RunsAssumption == MaxRuns \in Nat

ASSUME ConnsAssumption == IsFiniteSet(Conns)

\* The uniqueId of a transaction, in the ids of its operations, is a UUID: no
\* client chooses one of them.
ASSUME IdsAssumption == Ids \cap (Nat \X Nat) = {}

Runs == 1 .. MaxRuns

VARIABLES
  pc,        \* where the handler of each connection stands
  req,       \* the request it handles
  sess,      \* the session it works in
  run,       \* the number of this execution, which is a transaction's uniqueId
  responses, \* a transaction's responses so far
  worked,    \* history: the object each of its operations worked on
  resp,      \* the response to the request
  runs,      \* number of executions so far
  cache,     \* the cached responses
  issued,    \* the session identifiers generated or named so far
  holders,   \* MediaSet (external): the sessions that hold each object
  born       \* history: the execution that made each object, 0 for none

handlerVars == <<pc, req, sess, run, responses, worked, resp>>
vars == <<handlerVars, runs, cache, issued, holders, born>>

Response == [ok : BOOLEAN, value : Objects \cup {NoObject},
             session : Sessions \cup {NoSession}, made : Runs \X Nat]
NoResponse == [ok |-> FALSE, value |-> NoObject, session |-> NoSession,
               made |-> <<0, 0>>]

Request == [method : Simple \cup {"transaction"}, arg : Objects \cup {NoObject},
            ops : Transactions \cup {<<>>}, id : Ids,
            session : Sessions \cup {NoSession}]
NoRequest == [method |-> "none"]

TypeOK ==
  /\ pc \in [Conns -> {"idle", "pre", "run", "op", "post", "reply"}]
  /\ req \in [Conns -> Request \cup {NoRequest}]
  /\ sess \in [Conns -> Sessions \cup {NoSession}]
  /\ run \in [Conns -> 0 .. MaxRuns]
  /\ responses \in [Conns -> Seq(Response)]
  /\ worked \in [Conns -> Seq(Objects \cup {NoObject})]
  /\ resp \in [Conns -> Response \cup {NoResponse}]
  /\ runs \in 0 .. MaxRuns
  /\ \A e \in cache : e.session \in Sessions /\ e.resp \in Response
  /\ issued \subseteq Sessions
  /\ holders \in [Objects -> SUBSET issued]
  /\ born \in [Objects -> 0 .. runs]

Init ==
  /\ pc = [c \in Conns |-> "idle"]
  /\ req = [c \in Conns |-> NoRequest]
  /\ sess = [c \in Conns |-> NoSession]
  /\ run = [c \in Conns |-> 0]
  /\ responses = [c \in Conns |-> <<>>]
  /\ worked = [c \in Conns |-> <<>>]
  /\ resp = [c \in Conns |-> NoResponse]
  /\ runs = 0
  /\ cache = {}
  /\ issued = {}
  /\ holders = [o \in Objects |-> {}]
  /\ born = [o \in Objects |-> 0]

-----------------------------------------------------------------------------
(* What a method does to the objects                                       *)

Exists(o) == o \in Objects /\ holders[o] # {}

\* An outcome: who holds each object afterwards, and the response.
Outcome(hs, ok, v, s) == [holders |-> hs, ok |-> ok, value |-> v, session |-> s]
Fails(hs) == Outcome(hs, FALSE, NoObject, NoSession)

\* create: no factory of this type, too few resources, a constructor that
\* throws, or a new object that the session holds.
Create(s) ==
  {Fails(holders)} \cup
  {Outcome([holders EXCEPT ![o] = {s}], TRUE, o, s) :
     o \in {x \in Objects : born[x] = 0}}

\* From the lookup of its object on the session holds it, also when the rest of
\* the method fails; else the result has one of the values vs.
Looked(o, s, vs) ==
  IF ~Exists(o) THEN {Fails(holders)}
  ELSE LET hs == [holders EXCEPT ![o] = @ \cup {s}]
       IN {Fails(hs)} \cup {Outcome(hs, TRUE, v, s) : v \in vs}

\* describe, subscribe and ref.
Use(o, s) == Looked(o, s, {NoObject})

\* invoke answers with what the object's own method returns: any object that
\* exists, whoever made it, or what is no object.
Invoke(o, s) == Looked(o, s, {x \in Objects : Exists(x)} \cup {NoObject})

Unref(o, s) ==
  IF ~Exists(o) THEN {Fails(holders)}
  ELSE {Outcome([holders EXCEPT ![o] = @ \ {s}], TRUE, NoObject, s)}

\* release takes the object from every session.
Release(o, s) ==
  IF ~Exists(o) THEN {Fails(holders)}
  ELSE {Outcome([holders EXCEPT ![o] = {}], TRUE, NoObject, s)}

\* closeSession without and with release; the result names no session.
Close(s) ==
  {Outcome([o \in Objects |-> holders[o] \ {s}], TRUE, NoObject, NoSession),
   Outcome([o \in Objects |-> IF s \in holders[o] THEN {} ELSE holders[o]], TRUE,
           NoObject, NoSession)}

Outcomes(m, o, s) ==
  CASE m = "create"  -> Create(s)
    [] m = "invoke"  -> Invoke(o, s)
    [] m = "use"     -> Use(o, s)
    [] m = "unref"   -> Unref(o, s)
    [] m = "release" -> Release(o, s)
    [] m = "close"   -> Close(s)

\* The outcome e of execution r becomes real; what is held now and was never
\* made before is the object that it made.
Becomes(e, r) ==
  /\ holders' = e.holders
  /\ born' = [o \in Objects |->
                IF born[o] = 0 /\ e.holders[o] # {} THEN r ELSE born[o]]

ResponseOf(e, r, n) ==
  [ok |-> e.ok, value |-> e.value, session |-> e.session, made |-> <<r, n>>]

-----------------------------------------------------------------------------
(* The cache around a method                                               *)

Entries(s, i) == {e \in cache : e.session = s /\ e.id = i}

\* Mutant: a response without session is cached, too.
WithCached_NoSession(s, i, r) ==
  LET key == IF r.session # NoSession THEN r.session ELSE s IN
  IF Entries(key, i) # {} THEN cache
  ELSE cache \cup {[session |-> key, id |-> i, resp |-> r]}

\* postProcess: cached under the session of the result or, if it names none, of
\* the parameters; not without a session, and not twice.
WithCached(s, i, r) ==
  LET key == IF r.session # NoSession THEN r.session ELSE s IN
  IF key = NoSession \/ Entries(key, i) # {} THEN cache
  ELSE cache \cup {[session |-> key, id |-> i, resp |-> r]}

\* REQUEST_TIMEOUT after it was added, an entry goes.
Expire(e) ==
  /\ cache' = cache \ {e}
  /\ UNCHANGED <<handlerVars, runs, issued, holders, born>>

-----------------------------------------------------------------------------
(* A request                                                               *)

\* A request arrives; session is its sessionId, injected from the connection if
\* it had none, or NoSession.  What a client names is never generated later.
Receive(c, r) ==
  /\ pc[c] = "idle"
  /\ runs + Cardinality({d \in Conns : pc[d] # "idle"}) < MaxRuns
  /\ pc' = [pc EXCEPT ![c] = "pre"]
  /\ req' = [req EXCEPT ![c] = r]
  /\ issued' = issued \cup ({r.session} \ {NoSession})
  /\ UNCHANGED <<sess, run, responses, worked, resp, runs, cache, holders, born>>

\* preProcess: a cached response answers the request.
PreProcess(c) ==
  /\ pc[c] = "pre"
  /\ \/ \E e \in Entries(req[c].session, req[c].id) :
          /\ resp' = [resp EXCEPT ![c] = e.resp]
          /\ pc' = [pc EXCEPT ![c] = "reply"]
     \/ /\ Entries(req[c].session, req[c].id) = {}
        /\ pc' = [pc EXCEPT ![c] = "run"]
        /\ UNCHANGED resp
  /\ UNCHANGED <<req, sess, run, responses, worked, runs, cache, issued,
                 holders, born>>

\* getOrCreateSessionId: the session of the parameters or a new one.
WorkingSession(c, s) ==
  /\ IF req[c].session # NoSession THEN s = req[c].session ELSE s \notin issued
  /\ issued' = issued \cup {s}
  /\ sess' = [sess EXCEPT ![c] = s]

NextRun(c) ==
  /\ runs' = runs + 1
  /\ run' = [run EXCEPT ![c] = runs']

\* getValue throws when these methods are not given a sessionId.
NeedsSession == {"unref", "close"}

\* A method other than transaction.
RunMethod(c) ==
  LET m == req[c].method IN
  /\ pc[c] = "run"
  /\ m \in Simple
  /\ m \in NeedsSession => req[c].session # NoSession
  /\ NextRun(c)
  /\ \E s \in Sessions :
       /\ WorkingSession(c, s)
       /\ \E e \in Outcomes(m, req[c].arg, s) :
            /\ Becomes(e, runs')
            /\ resp' = [resp EXCEPT ![c] = ResponseOf(e, runs', 0)]
  /\ pc' = [pc EXCEPT ![c] = "post"]
  /\ UNCHANGED <<req, responses, worked, cache>>

\* A parameter is missing: the session, the object or the operations.
MissingParameter(c) ==
  /\ pc[c] = "run"
  /\ NextRun(c)
  /\ resp' = [resp EXCEPT ![c] = ResponseOf(Fails(holders), runs', 0)]
  /\ pc' = [pc EXCEPT ![c] = "post"]
  /\ UNCHANGED <<req, sess, responses, worked, cache, issued, holders, born>>

PostProcess(c) ==
  /\ pc[c] = "post"
  /\ cache' = WithCached(req[c].session, req[c].id, resp[c])
  /\ pc' = [pc EXCEPT ![c] = "reply"]
  /\ UNCHANGED <<req, sess, run, responses, worked, resp, runs, issued,
                 holders, born>>

\* process returns the response.
Reply(c) ==
  /\ pc[c] = "reply"
  /\ pc' = [pc EXCEPT ![c] = "idle"]
  /\ req' = [req EXCEPT ![c] = NoRequest]
  /\ sess' = [sess EXCEPT ![c] = NoSession]
  /\ run' = [run EXCEPT ![c] = 0]
  /\ responses' = [responses EXCEPT ![c] = <<>>]
  /\ worked' = [worked EXCEPT ![c] = <<>>]
  /\ resp' = [resp EXCEPT ![c] = NoResponse]
  /\ UNCHANGED <<runs, cache, issued, holders, born>>

-----------------------------------------------------------------------------
(* transaction                                                             *)

BeginTransaction(c) ==
  /\ pc[c] = "run"
  /\ req[c].method = "transaction"
  /\ NextRun(c)
  /\ \E s \in Sessions : WorkingSession(c, s)
  /\ pc' = [pc EXCEPT ![c] = "op"]
  /\ UNCHANGED <<req, responses, worked, resp, cache, holders, born>>

\* The operation that is next, and its position.
Position(c)  == Len(responses[c]) + 1
Operation(c) == req[c].ops[Position(c)]

\* Mutant: the loop goes on after a failed operation.
Going_Always(c) == Position(c) <= Len(req[c].ops)

\* if (!ret) break
Going(c) ==
  /\ Position(c) <= Len(req[c].ops)
  /\ \A n \in 1 .. Len(responses[c]) : responses[c][n].ok

\* Mutant: an operation keeps the sessionId it names.
OperationSession_Own(c) ==
  IF Operation(c).names # NoSession THEN Operation(c).names ELSE sess[c]

\* reqParams[SESSION_ID] = sessionId
OperationSession(c) == sess[c]

\* Mutant: the ids of the operations are their positions alone.
OperationId_Plain(c) == <<0, Position(c)>>

\* uniqueId + "_" + position
OperationId(c) == <<run[c], Position(c)>>

\* The id is not the position, or the result that a newref wants is not there;
\* the refs of an operation are only looked at when its id is good.
Malformed(c) ==
  \/ ~Operation(c).goodId
  \/ Operation(c).ref >= Position(c)

\* The object that the operation is given: its own, or the value of the result
\* that it refers to, which is null for a result without value.
Argument(c) ==
  LET k == Operation(c).ref IN
  CASE k = 0 -> Operation(c).arg
    [] k \in 1 .. Len(responses[c]) -> responses[c][k].value
    [] OTHER -> NoObject

\* The whole transaction fails; what its operations did stays.
AbortTransaction(c) ==
  /\ pc[c] = "op"
  /\ Going(c)
  /\ Malformed(c)
  /\ resp' = [resp EXCEPT ![c] = ResponseOf(Fails(holders), run[c], 0)]
  /\ pc' = [pc EXCEPT ![c] = "post"]
  /\ UNCHANGED <<req, sess, run, responses, worked, runs, cache, issued,
                 holders, born>>

\* handler.process of an operation: the cached response, if there is one, and
\* nothing happens; else an outcome of the method.
Processed(c) ==
  LET s == OperationSession(c)
      n == Position(c)
      hit == Entries(s, OperationId(c)) IN
  IF hit # {} THEN {<<Fails(holders), e.resp>> : e \in hit}
  ELSE {<<e, ResponseOf(e, run[c], n)>> :
          e \in Outcomes(Operation(c).method, Argument(c), s)}

RunOperation(c) ==
  /\ pc[c] = "op"
  /\ Going(c)
  /\ ~Malformed(c)
  /\ \E p \in Processed(c) :
       /\ Becomes(p[1], run[c])
       /\ cache' = WithCached(OperationSession(c), OperationId(c), p[2])
       /\ responses' = [responses EXCEPT ![c] = Append(@, p[2])]
  /\ worked' = [worked EXCEPT ![c] = Append(@, Argument(c))]
  /\ UNCHANGED <<pc, req, sess, run, resp, runs, issued>>

EndTransaction(c) ==
  /\ pc[c] = "op"
  /\ ~Going(c)
  /\ resp' = [resp EXCEPT ![c] =
       [ok |-> TRUE, value |-> NoObject, session |-> sess[c], made |-> <<run[c], 0>>]]
  /\ pc' = [pc EXCEPT ![c] = "post"]
  /\ UNCHANGED <<req, sess, run, responses, worked, runs, cache, issued,
                 holders, born>>

-----------------------------------------------------------------------------
\* The requests that a client may send: it may name any session and any object.
Requests ==
  LET Having(methods, args, ops) ==
        [method : methods, arg : args, ops : ops, id : Ids,
         session : Sessions \cup {NoSession}]
  IN Having({"create", "close"}, {NoObject}, {<<>>})
       \cup Having({"invoke", "use", "unref", "release"}, Objects, {<<>>})
       \cup Having({"transaction"}, {NoObject}, Transactions)

\* MaxRuns requests were executed and no more are taken.
BoundReached ==
  /\ runs = MaxRuns
  /\ \A c \in Conns : pc[c] = "idle"
  /\ UNCHANGED vars

Next ==
  \/ \E c \in Conns :
       \/ \E r \in Requests : Receive(c, r)
       \/ PreProcess(c) \/ RunMethod(c) \/ MissingParameter(c) \/ PostProcess(c)
       \/ Reply(c)
       \/ BeginTransaction(c) \/ AbortTransaction(c) \/ RunOperation(c)
       \/ EndTransaction(c)
  \/ \E e \in cache : Expire(e)
  \/ BoundReached

Spec == Init /\ [][Next]_vars

-----------------------------------------------------------------------------
(* Properties                                                              *)

\* An operation of a transaction is answered by running it: never by what the
\* cache holds of another request or of another transaction of the session whose
\* operations had the same positions.
FreshAnswers ==
  \A c \in Conns : \A n \in 1 .. Len(responses[c]) :
    responses[c][n].made = <<run[c], n>>

\* The object o may be the value of a result of method m in execution r: the one
\* that create made, what invoke found, which somebody made, or else none.
StandsFor(m, o, r) ==
  /\ m = "create" => o \in Objects /\ born[o] = r
  /\ m = "invoke" => o = NoObject \/ born[o] # 0
  /\ m \notin {"create", "invoke"} => o = NoObject

\* A newref stands for what the operation that it names answered in this very
\* transaction, and it never points ahead.  If that is create, it is the object
\* made here, and never one that an earlier request or transaction left behind
\* in the cache; only what invoke answers with may have been made elsewhere.
RefsOwn ==
  \A c \in Conns : \A n \in 1 .. Len(worked[c]) :
    LET k == req[c].ops[n].ref IN
    k # 0 => k < n /\ StandsFor(req[c].ops[k].method, worked[c][n], run[c])

\* No operation runs after one that failed: the response of a transaction is a
\* prefix of its operations in which at most the last one failed.
StopsAtFailure ==
  \A c \in Conns : \A n \in 1 .. Len(responses[c]) :
    responses[c][n].ok \/ n = Len(responses[c])

\* Whatever sessions its operations name, a transaction attaches objects to its
\* own session only, and so does every other method: nobody else's session is
\* made to keep an object alive.
OneSession ==
  [][\A c \in Conns : (RunMethod(c) \/ RunOperation(c)) =>
       \A o \in Objects : holders'[o] \ holders[o] \subseteq {sess'[c]}]_vars

=============================================================================
