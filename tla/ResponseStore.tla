---------------------------- MODULE ResponseStore ----------------------------
(***************************************************************************)
(* What the cache of responses promises, without its timers, its threads   *)
(* and the handlers that use it: a response is kept at most once, under    *)
(* one key, until it is replaced or its own time is over.  RequestCache    *)
(* implements this.                                                        *)
(***************************************************************************)
CONSTANTS Keys, Responses, None

VARIABLES
  store,  \* key -> the response that a request with this key gets
  spent,  \* the responses that were kept or that nobody wants to keep
  dying   \* the response whose time is over, which is about to go

vars == <<store, spent, dying>>

Init ==
  /\ store = [k \in Keys |-> None]
  /\ spent = {}
  /\ dying = None

\* A response is kept; one that is dying is not replaced.
Keep(r, k) ==
  /\ r \notin spent
  /\ store[k] = None \/ store[k] # dying
  /\ store' = [store EXCEPT ![k] = r]
  /\ spent' = spent \cup {r}
  /\ UNCHANGED dying

\* A response is not kept.
Discard(r) ==
  /\ r \notin spent
  /\ spent' = spent \cup {r}
  /\ UNCHANGED <<store, dying>>

\* The time of a response that is kept is over.
TimeOut(k) ==
  /\ dying = None
  /\ store[k] # None
  /\ dying' = store[k]
  /\ UNCHANGED <<store, spent>>

\* The response whose time is over goes, and no other.
Expire(k) ==
  /\ dying # None
  /\ store[k] = dying
  /\ store' = [store EXCEPT ![k] = None]
  /\ dying' = None
  /\ UNCHANGED spent

Next ==
  \/ \E r \in Responses : Discard(r) \/ \E k \in Keys : Keep(r, k)
  \/ \E k \in Keys : TimeOut(k) \/ Expire(k)

Spec == Init /\ [][Next]_vars

=============================================================================
