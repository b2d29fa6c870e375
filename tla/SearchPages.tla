------------------------------ MODULE SearchPages ------------------------------
(***************************************************************************)
(* Searches as they are asked and answered: the page GET /search           *)
(* (src/app/ui/routes.py), which holds an auction first, and the API; the  *)
(* backends as adapters and mocks, whose replies decide how a call of      *)
(* SearchRouting ends; and what an asker is told when they fail            *)
(* (src/app/core/errors.py).                                               *)
(***************************************************************************)
EXTENDS SearchRouting, BackendAdapter

CONSTANTS
    Visitors,   \* the requests for a page; the others are of the API
    Replies     \* what a backend may reply

ASSUME VisitorsAssumption == Visitors \subseteq Https
ASSUME RepliesAssumption  == Replies \subseteq AllReplies

VARIABLES
    mocks,      \* the backends without credentials
    visit,      \* how far a page is
    raised      \* last_exc of each search

pages == <<vars, mocks, visit, raised>>

BackendErrors == {"BackendTimeoutError", "BackendUnavailableError", "BackendAuthError",
                  "BackendQuotaError", "BackendServerError", "BackendBadRequestError",
                  "BackendBadResponseError", "CircuitOpenError"}
Exceptions == [from : Backends, error : BackendErrors]

HttpStatus(error) ==
    CASE error = "BackendBadRequestError" -> 400
      [] error = "BackendTimeoutError"    -> 504
      [] error \in {"BackendUnavailableError", "CircuitOpenError"} -> 503
      [] OTHER -> 502

(* The candidates that refused t in this step, which went on from a place. *)
Skipped(t, from) == {i \in Fitting(ask'[t]) : i > from /\ (pc'[t] = "calling" => i < at'[t])}

(* Mutant: the first exception is told.                                    *)
TellsFirst(t, from, exc) == raised' = [raised EXCEPT ![t] =
    LET S == Skipped(t, from) IN
    IF S = {} \/ exc # {} THEN exc
    ELSE {[from |-> Order(ask'[t])[CHOOSE i \in S : \A j \in S : i <= j],
           error |-> "CircuitOpenError"]}]

(* last_exc after that step, which began with exc.                         *)
Tells(t, from, exc) == raised' = [raised EXCEPT ![t] =
    LET S == Skipped(t, from) IN
    IF S = {} THEN exc
    ELSE {[from |-> Order(ask'[t])[CHOOSE i \in S : \A j \in S : j <= i],
           error |-> "CircuitOpenError"]}]
-----------------------------------------------------------------------------
(* POST /api/v1/search/web or /images.                                     *)
Ask(t) ==
    /\ t \notin Visitors
    /\ Arrive(t)
    /\ IF pc'[t] = "lookup" THEN UNCHANGED raised ELSE Tells(t, 0, {})
    /\ UNCHANGED <<mocks, visit>>

(* GET /search with a query awaits an auction first.                       *)
Open(t) ==
    /\ t \in Visitors /\ visit[t] = "none"
    /\ visit' = [visit EXCEPT ![t] = "auction"]
    /\ UNCHANGED <<vars, mocks, raised>>

(* Mutant: an auction's exception is not caught.                           *)
AuctionMayFail(t) ==
    /\ visit[t] = "auction"
    /\ \/ /\ visit' = [visit EXCEPT ![t] = "search"]
          /\ Arrive(t) /\ ~ask'[t].eligible
          /\ Tells(t, 0, {})
       \/ visit' = [visit EXCEPT ![t] = "failed"] /\ UNCHANGED <<vars, raised>>
    /\ UNCHANGED mocks

(* The auction ends, with an ad, without one or with an exception that is  *)
(* only logged.  Then the request's model is built: what it does not admit *)
(* (a long query, a short language) is no ServiceError and nobody's but    *)
(* fallback_handler's.  Pages have no part in the cache.                   *)
AuctionEnds(t) ==
    /\ visit[t] = "auction"
    /\ \/ /\ visit' = [visit EXCEPT ![t] = "search"]
          /\ Arrive(t) /\ ~ask'[t].eligible
          /\ Tells(t, 0, {})
       \/ visit' = [visit EXCEPT ![t] = "refused"] /\ UNCHANGED <<vars, raised>>
    /\ UNCHANGED mocks

LookUp(t) ==
    /\ \/ Hit(t) /\ UNCHANGED raised
       \/ Miss(t) /\ Tells(t, 0, {})
    /\ UNCHANGED <<mocks, visit>>

(* Whether the call of t may come to this end; a mock has but one.         *)
May(t, end) ==
    IF Current(t) \in mocks THEN end = "answer" ELSE \E x \in Replies : SearchEnd(x) = end

(* The call of t ends.                                                     *)
Answered(t) ==
    /\ pc[t] = "calling" /\ May(t, "answer") /\ Respond(t)
    /\ UNCHANGED <<mocks, visit, raised>>

Failing(t) ==
    /\ pc[t] = "calling" /\ Current(t) \notin mocks
    /\ \E x \in Replies :
         /\ SearchEnd(x) = "backend error"
         /\ Fail(t)
         /\ Tells(t, at[t], {[from |-> Current(t), error |-> Post(x)]})
    /\ UNCHANGED <<mocks, visit>>

Raising(t) ==
    /\ pc[t] = "calling" /\ May(t, "other exception") /\ Raise(t)
    /\ UNCHANGED <<mocks, visit, raised>>

Stored(t) == Store(t) /\ UNCHANGED <<mocks, visit, raised>>

(* The others of SearchRouting.                                            *)
Around == Evict \/ \E b \in Backends : Inspect(b)

PagesInit ==
    /\ Init
    /\ mocks \in SUBSET Backends
    /\ visit = [t \in Https |-> "none"]
    /\ raised = [t \in Https |-> {}]

GoOn(t) ==
    AuctionEnds(t) \/ LookUp(t) \/ Answered(t) \/ Failing(t) \/ Raising(t) \/ Stored(t)

Rests(b) == Rest(b) /\ UNCHANGED <<mocks, visit, raised>>

PagesNext ==
    \/ \E t \in Https : Ask(t) \/ Open(t) \/ GoOn(t)
    \/ \E b \in Backends : Rests(b)
    \/ Around /\ UNCHANGED <<mocks, visit, raised>>

(* As in SearchRouting; and an auction ends, as every request to AdsStore. *)
PagesSpec == /\ PagesInit /\ [][PagesNext]_pages
             /\ \A t \in Https : WF_pages(GoOn(t))
             /\ \A b \in Backends : WF_pages(Rests(b))
-----------------------------------------------------------------------------
(* The status of an answer: a page shows an error as well as results.      *)
StatusOf(t) ==
    IF visit[t] = "refused" \/ out[t] = "error" THEN {500}
    ELSE IF out[t] = "ok" \/ t \in Visitors THEN {200}
    ELSE IF out[t] = "unsupported" THEN {400}
    ELSE IF out[t] = "pending" THEN {}
    ELSE {HttpStatus(e.error) : e \in raised[t]}

(* Every request is answered, and whatever becomes of its auction a page   *)
(* that is in order has its search: "without letting failures break        *)
(* search" (_maybe_run_auction).                                           *)
EveryVisitAnswered == <>[](\A t \in Https :
    visit[t] # "none" \/ pc[t] # "idle" => pc[t] = "done" \/ visit[t] = "refused")

(* Of all failures of a search its asker is told the last candidate's: its *)
(* breaker's refusal or what its own call came to, never that of a backend *)
(* that was tried before.  That the request was bad (400) is told only if  *)
(* that backend found it so, or none could have served it.                 *)
FailureTold == \A t \in Https :
    LET F == Fitting(ask[t])
        last == Order(ask[t])[CHOOSE i \in F : \A j \in F : j <= i] IN
    /\ out[t] = "failed" => \E error \in BackendErrors :
         /\ raised[t] = {[from |-> last, error |-> error]}
         /\ \/ error = "CircuitOpenError"
            \/ last = Current(t) /\ \E x \in Replies : error = Post(x)
    /\ 400 \in StatusOf(t) =>
         \/ F = {}
         \/ raised[t] = {[from |-> last, error |-> "BackendBadRequestError"]}

(* The mocks stand in for what is missing: a search that one of them is    *)
(* able to serve neither fails nor is unsupported, whatever rules and      *)
(* fallbacks are configured, whatever BackendErrors the backends before it *)
(* raise and whatever the breakers have seen.  Only an exception that is   *)
(* no BackendError keeps a mock from serving: it comes from a reply to an  *)
(* adapter, and no mock was tried before.                                  *)
MocksStandIn == \A t \in Https, b \in mocks :
    ask[t].backend \in {AnyBackend, b} /\ Capable(b, ask[t]) =>
        /\ out[t] \notin {"failed", "unsupported"}
        /\ out[t] = "error" =>
             /\ tried[t] \cap mocks = {}
             /\ \E x \in Replies : SearchEnd(x) = "other exception"
==============================================================================
