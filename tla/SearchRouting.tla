----------------------------- MODULE SearchRouting -----------------------------
(***************************************************************************)
(* Searches in progress: the endpoints of src/app/api/v1/web_search.py and *)
(* image_search.py around RoutingService._route (src/app/search/router.py),*)
(* with one breaker per backend and the shared response cache.             *)
(*                                                                         *)
(* A handler gives up control only where it awaits the cache or a backend, *)
(* so each action runs from one such await to the next: when a call fails, *)
(* its failure is recorded and the following candidates are tried in the   *)
(* same step, up to the first one that is admitted.                        *)
(***************************************************************************)
EXTENDS CircuitBreaker, RoutingPolicy, FiniteSets

CONSTANTS
    Https,      \* the requests of a behaviour (its bound)
    Workload    \* the searches they may ask for

ASSUME WorkloadAssumption == Workload \subseteq Searches /\ Workload # {}
ASSUME HttpsAssumption    == IsFiniteSet(Https)

VARIABLES
    breakers,   \* CircuitBreaker._states
    cache,      \* cached responses by key
    ask,        \* what each request asks for
    pc,         \* the await it is at
    at,         \* the place of its current candidate
    tried,      \* the backends it attempted
    got,        \* the response it has, if any
    out         \* how it was answered

vars == <<breakers, cache, ask, pc, at, tried, got, out>>

Current(t) == Order(ask[t])[at[t]]

(* The backend calls in progress at b.                                     *)
CallsOf(b) == {t \in Https : pc[t] = "calling" /\ Current(t) = b}

Finish(t, answer) ==
    /\ pc' = [pc EXCEPT ![t] = "done"]
    /\ out' = [out EXCEPT ![t] = answer]
-----------------------------------------------------------------------------
(* RoutingService._route.                                                  *)

(* Mutant: the first refusal ends the search.                              *)
AskFirst(t, r, from, B) ==
    LET order == Order(r)
        next  == {i \in Fitting(r) : i > from}
        first == CHOOSE i \in next : \A j \in next : i <= j
        b     == order[first] IN
    /\ tried' = [tried EXCEPT ![t] = IF next = {} THEN @ ELSE @ \cup {b}]
    /\ IF next = {} \/ Refuses(Recovered(B[b]))
         THEN /\ breakers' = B
              /\ Finish(t, "failed")
              /\ UNCHANGED at
         ELSE /\ breakers' = [B EXCEPT ![b] = Entered(Recovered(@))]
              /\ at' = [at EXCEPT ![t] = first]
              /\ pc' = [pc EXCEPT ![t] = "calling"]
              /\ UNCHANGED out

(* t goes on after the candidate at place `from' with the breakers B: the  *)
(* next capable candidate whose breaker admits it is called.  When there   *)
(* is none, the last exception is raised; without any attempt, the backend *)
(* or the capability is unsupported.                                       *)
AskNext(t, r, from, B) ==
    LET order == Order(r)
        next  == {i \in Fitting(r) : i > from}
        fit   == {i \in next : ~Refuses(Recovered(B[order[i]]))}
        first == CHOOSE i \in fit : \A j \in fit : i <= j
        asked == {order[i] : i \in {j \in next : fit = {} \/ j <= first}} IN
    /\ tried' = [tried EXCEPT ![t] = @ \cup asked]
    /\ IF fit = {}
         THEN /\ breakers' = [b \in Backends |-> IF b \in asked THEN Recovered(B[b]) ELSE B[b]]
              /\ Finish(t, IF tried[t] \cup asked = {} THEN "unsupported" ELSE "failed")
              /\ UNCHANGED at
         ELSE /\ breakers' = [b \in Backends |->
                    IF b = order[first] THEN Entered(Recovered(B[b]))
                    ELSE IF b \in asked THEN Recovered(B[b]) ELSE B[b]]
              /\ at' = [at EXCEPT ![t] = first]
              /\ pc' = [pc EXCEPT ![t] = "calling"]
              /\ UNCHANGED out

(* A request reaches its endpoint; what may be cached is looked up first.  *)
Arrive(t) ==
    /\ pc[t] = "idle"
    /\ \E r \in Workload :
         /\ ask' = [ask EXCEPT ![t] = r]
         /\ IF r.eligible
              THEN pc' = [pc EXCEPT ![t] = "lookup"] /\ UNCHANGED <<breakers, at, tried, out>>
              ELSE AskNext(t, r, 0, breakers)
    /\ UNCHANGED <<cache, got>>

Hit(t) ==
    /\ pc[t] = "lookup"
    /\ \E e \in cache :
         /\ e.key = CacheKey(ask[t])
         /\ got' = [got EXCEPT ![t] = {e.response}]
    /\ Finish(t, "ok")
    /\ UNCHANGED <<breakers, cache, ask, at, tried>>

(* No entry, a cache that cannot be read, or an entry that does not parse. *)
Miss(t) ==
    /\ pc[t] = "lookup"
    /\ AskNext(t, ask[t], 0, breakers)
    /\ UNCHANGED <<cache, ask, got>>

(* An adapter's response repeats what was asked for.                       *)
ResponseOf(t) ==
    [kind |-> ask[t].kind, query |-> ask[t].query, page |-> ask[t].page, by |-> Current(t)]

(* The backend answers; an empty result is not cached.                     *)
Respond(t) ==
    /\ pc[t] = "calling"
    /\ breakers' = [breakers EXCEPT ![Current(t)] = Succeeded(@)]
    /\ got' = [got EXCEPT ![t] = {ResponseOf(t)}]
    /\ \/ ask[t].eligible /\ pc' = [pc EXCEPT ![t] = "store"] /\ UNCHANGED out
       \/ Finish(t, "ok")
    /\ UNCHANGED <<cache, ask, at, tried>>

(* The adapter raises a BackendError: under auto the next candidate's turn.*)
Fail(t) ==
    LET B == [breakers EXCEPT ![Current(t)] = Failed(@)] IN
    /\ pc[t] = "calling"
    /\ IF ask[t].backend = AnyBackend
         THEN AskNext(t, ask[t], at[t], B)
         ELSE breakers' = B /\ Finish(t, "failed") /\ UNCHANGED <<at, tried>>
    /\ UNCHANGED <<cache, ask, got>>

(* Any other exception, an UnsupportedCapabilityError included, leaves     *)
(* _route.                                                                 *)
Raise(t) ==
    /\ pc[t] = "calling"
    /\ breakers' = [breakers EXCEPT ![Current(t)] = Failed(@)]
    /\ Finish(t, "error")
    /\ UNCHANGED <<cache, ask, at, tried, got>>

(* cache.set replaces the key's entry, or fails and is forgotten.          *)
Store(t) ==
    LET key == CacheKey(ask[t]) IN
    /\ pc[t] = "store"
    /\ \/ UNCHANGED cache
       \/ cache' = {e \in cache : e.key # key}
                     \cup {[key |-> key, response |-> x] : x \in got[t]}
    /\ Finish(t, "ok")
    /\ UNCHANGED <<breakers, ask, at, tried, got>>
-----------------------------------------------------------------------------
(* An entry's ttl passes, or Redis drops it.                               *)
Evict ==
    /\ \E e \in cache : cache' = cache \ {e}
    /\ UNCHANGED <<breakers, ask, pc, at, tried, got, out>>

(* recovery_timeout_seconds pass for an open breaker.                      *)
Rest(b) ==
    /\ Rested(breakers[b]) # breakers[b]
    /\ breakers' = [breakers EXCEPT ![b] = Rested(@)]
    /\ UNCHANGED <<cache, ask, pc, at, tried, got, out>>

(* GET /api/v1/backends asks state_of, which may move the breaker on.      *)
Inspect(b) ==
    /\ breakers' = [breakers EXCEPT ![b] = Recovered(@)]
    /\ UNCHANGED <<cache, ask, pc, at, tried, got, out>>

Init ==
    /\ breakers = [b \in Backends |-> Fresh]
    /\ cache = {}
    /\ ask \in [Https -> {CHOOSE r \in Workload : TRUE}]
    /\ pc = [t \in Https |-> "idle"]
    /\ at = [t \in Https |-> 0]
    /\ tried = [t \in Https |-> {}]
    /\ got = [t \in Https |-> {}]
    /\ out = [t \in Https |-> "pending"]

(* Calls and cache operations end: adapters time out, and Redis is assumed *)
(* to answer or to drop the connection (its client sets no timeout).       *)
Proceed(t) == Hit(t) \/ Miss(t) \/ Respond(t) \/ Fail(t) \/ Raise(t) \/ Store(t)

Next ==
    \/ \E t \in Https : Arrive(t) \/ Proceed(t)
    \/ \E b \in Backends : Rest(b) \/ Inspect(b)
    \/ Evict

(* Nobody has to ask for a search or for the list of backends.             *)
Spec == /\ Init /\ [][Next]_vars
        /\ \A t \in Https : WF_vars(Proceed(t))
        /\ \A b \in Backends : WF_vars(Rest(b))
-----------------------------------------------------------------------------
Answers == {"pending", "ok", "failed", "unsupported", "error"}

TypeOK ==
    /\ breakers \in [Backends -> Breakers]
    /\ cache \in SUBSET [key : Keys, response : Responses]
    /\ ask \in [Https -> Searches]
    /\ pc \in [Https -> {"idle", "lookup", "calling", "store", "done"}]
    /\ at \in [Https -> Nat]
    /\ tried \in [Https -> SUBSET Backends]
    /\ got \in [Https -> SUBSET Responses]
    /\ out \in [Https -> Answers]
    /\ \A t \in Https : pc[t] = "calling" => at[t] \in Fitting(ask[t])

(* The state and the failure count agree, also after late answers of calls *)
(* admitted in an earlier state: a closed breaker is always some failures  *)
(* short of the threshold, one that is not closed never is.                *)
ClosedBelowThreshold == \A b \in Backends :
    breakers[b].state = "closed" <=> breakers[b].failures < Threshold

(* No probe slot leaks: a half-open breaker holds at most HalfOpenMax      *)
(* slots, and each belongs to a call still in progress, however probes and *)
(* calls from before the breaker opened end.                               *)
SlotsBacked == \A b \in Backends :
    breakers[b].state = "half_open" =>
        /\ breakers[b].inFlight = 0 \/ breakers[b].inFlight <= HalfOpenMax
        /\ breakers[b].inFlight <= Cardinality(CallsOf(b))

(* The backends that can serve t, as far as its current candidate.         *)
UpToCurrent(t) == {Order(ask[t])[i] : i \in {j \in Fitting(ask[t]) : j <= at[t]}}

(* A search under auto gives up only when nobody is left: it fails after   *)
(* every backend that can serve it was attempted, and is unsupported when  *)
(* there is none.  What ends it earlier is an exception of its current     *)
(* candidate that _route does not catch (no BackendError); it has then     *)
(* attempted every candidate up to that one, and nobody after it.          *)
FailsLast == \A t \in Https : ask[t].backend = AnyBackend =>
    /\ out[t] = "failed" => tried[t] = CapableBackends(ask[t])
    /\ out[t] = "unsupported" => CapableBackends(ask[t]) = {}
    /\ out[t] = "error" => tried[t] = UpToCurrent(t)

(* A response, cached or not, is of the kind and the query asked for, and  *)
(* of the backend named, whatever other searches put into the cache.       *)
OwnAnswer == \A t \in Https, x \in Responses :
    x \in got[t] =>
        /\ x.kind = ask[t].kind /\ x.query = ask[t].query
        /\ ask[t].backend \in {AnyBackend, x.by}

(* No backend is locked out: again and again its breaker would admit a     *)
(* call.                                                                   *)
NeverLockedOut == \A b \in Backends : []<>(~Refuses(Recovered(breakers[b])))

(* "A backend that cannot paginate must not silently return page-0 results *)
(* when page > 0 is asked".                                                *)
PageAsAsked == \A t \in Https, x \in Responses :
    x \in got[t] => x.page = ask[t].page
==============================================================================
