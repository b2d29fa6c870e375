---------------------------- MODULE RequestPipeline ----------------------------
(***************************************************************************)
(* The layers create_app (src/app/main.py) puts around the routes, and     *)
(* what becomes of a request in them: the first layer that has a reason to *)
(* refuse it answers it, so that the layers behind never hear of it; the   *)
(* answer is given its headers by the layers on its way out.  The counters *)
(* of RequestGates are the layer rate_limit and the handler of a login.    *)
(***************************************************************************)
EXTENDS RequestGates, Sequences

CONSTANTS
    Installed,      \* the layers this deployment's configuration asks for
    Requests        \* the requests there may be

(* rate_limit_per_minute = 0 would install no limiter; here it is Limit.   *)
Always == {"request_id", "security_headers", "rate_limit"}
Optional == {"csrf", "trusted_host", "cors", "session"}

ASSUME InstalledAssumption == Always \subseteq Installed /\ Installed \subseteq Always \cup Optional

(* Mutant: the layers of other origins and sessions are put inside.        *)
CorsInside ==
    <<"request_id", "security_headers", "cors", "session", "csrf", "rate_limit", "trusted_host">>

(* Mutant: the limiter is put around the check of the host.                *)
LimiterAroundHosts ==
    <<"request_id", "security_headers", "csrf", "trusted_host", "rate_limit", "cors", "session">>

(* The calls of add_middleware.  Each puts its layer around those already  *)
(* there, so the last one is the first to see a request.                   *)
Added ==
    <<"request_id", "security_headers", "csrf", "rate_limit", "trusted_host", "cors", "session">>

Layers == Always \cup Optional
Place == [l \in Layers |-> CHOOSE i \in DOMAIN Added : Added[i] = l]

(* The routes' place, inside of everything, and that of Starlette's        *)
(* ServerErrorMiddleware (fallback_handler), outside of everything.        *)
Routes == 0
Outermost == Len(Added) + 1

Clientele == [client : Clients, method : {"safe", "unsafe", "preflight"},
              host : {"known", "unknown"}, origin : {"allowed", "other"}]

ASSUME RequestsAssumption == Requests \subseteq Clientele

(* What a layer but the limiter answers itself; the others pass everything *)
(* on.                                                                     *)
Stops(l, r) ==
    \/ l = "cors" /\ r.method = "preflight"
    \/ l = "trusted_host" /\ r.host = "unknown"
    \/ l = "csrf" /\ r.method = "unsafe" /\ r.origin # "allowed"

Stopping(r) == {i \in DOMAIN Added : Added[i] \in Installed /\ Stops(Added[i], r)}

(* Where a request is answered that is within its limit: at the outermost  *)
(* layer that stops it.                                                    *)
Answerer(r) == Max(Stopping(r) \cup {Routes})

MeetsLimiter(r) == Answerer(r) < Place["rate_limit"]

(* The headers an answer has when it leaves: those of the layers around    *)
(* its maker, and the request's id that _too_many and _reject write        *)
(* themselves.                                                             *)
Headers == [place \in 0 .. Outermost |->
    {Added[i] : i \in {i \in DOMAIN Added : Added[i] \in Installed /\ i > place}}
      \cup (IF place \in {Place["rate_limit"], Place["csrf"]} THEN {"request_id"} ELSE {})]

Answer(place) == [place |-> place, headers |-> Headers[place]]

VARIABLES
    arrived,        \* the request that arrived in this step, if one did
    answer          \* the answer that was given in this step, if one was

pipe == <<vars, arrived, answer>>

(* The limiter's part: a request that is answered further out leaves it    *)
(* as it is.                                                               *)
Enters(r, through) ==
    /\ IF MeetsLimiter(r) THEN Limiter(r.client, through)
                          ELSE through /\ UNCHANGED <<windows, calls, recent>>
    /\ arrived' = {r}

(* Any request but a login that gets to its handler: a page, a search, a   *)
(* health probe, a refusal.  Only the routes fail in a way nothing handles.*)
Serve == \E r \in Requests, through \in BOOLEAN :
    /\ Enters(r, through)
    /\ \/ answer' = {Answer(IF through THEN Answerer(r) ELSE Place["rate_limit"])}
       \/ through /\ Answerer(r) = Routes /\ answer' = {Answer(Outermost)}
    /\ UNCHANGED <<entries, checking>>

(* Mutant: the limiter counts pages only.                                  *)
SignInUncounted(h) == \E r \in Requests :
    /\ r.method = "unsafe" /\ Answerer(r) = Routes
    /\ UNCHANGED <<windows, calls, recent>> /\ arrived' = {r}
    /\ Begins(h)
    /\ answer' = IF checking' = checking THEN {Answer(Routes)} ELSE {}

(* POST /auth/login, up to the user's row or the refusal of a locked       *)
(* account.                                                                *)
SignIn(h) == \E r \in Requests :
    /\ r.method = "unsafe" /\ Answerer(r) = Routes
    /\ Enters(r, TRUE)
    /\ Begins(h)
    /\ answer' = IF checking' = checking THEN {Answer(Routes)} ELSE {}

(* The login's answer; an error other than AdsError is nobody's but        *)
(* fallback_handler's.                                                     *)
Finish(h) ==
    /\ Verify(h)
    /\ arrived' = {}
    /\ \/ answer' = {Answer(Routes)}
       \/ entries' = entries /\ answer' = {Answer(Outermost)}

Clock == Tick /\ arrived' = {} /\ answer' = {}

PipeInit == Init /\ arrived = {} /\ answer = {}

PipeNext == Serve \/ Clock \/ \E h \in Logins : SignIn(h) \/ Finish(h)

PipeSpec == PipeInit /\ [][PipeNext]_pipe /\ WF_pipe(Clock)
-----------------------------------------------------------------------------
(* Types, of the counters and of what the layers answer.                   *)
PipeTypeOK ==
    /\ TypeOK
    /\ arrived \in {{}} \cup {{r} : r \in Requests}
    /\ \A a \in answer : a.place \in 0 .. Outermost /\ a.headers \subseteq Installed

(* Behind the layers the counters do what they promise without them: no    *)
(* order of layers, refusal or failed handler lets a request past one.     *)
GatesKept == Spec

(* What is answered outside of the limiter costs no client anything and    *)
(* takes no room in its table; everything else is counted, forged requests *)
(* too, or refused, which happens only to a client that was let through    *)
(* Limit times in the last window's time; and no request from elsewhere,   *)
(* for an unknown host or over the limit gets as far as the throttle.      *)
RefusedInOrder == [][\A r \in arrived' :
    LET preflight == "cors" \in Installed /\ r.method = "preflight"
        unknown   == "trusted_host" \in Installed /\ r.host = "unknown"
        forged    == "csrf" \in Installed /\ r.method = "unsafe" /\ r.origin # "allowed"
        refused   == \E a \in answer' : a.place = Place["rate_limit"] IN
    /\ preflight \/ unknown => UNCHANGED <<windows, calls>>
    /\ ~preflight /\ ~unknown /\ r.client = Watched =>
         IF refused THEN Cardinality(Admissions) >= Limit ELSE recent'[0] \in {1, recent[0] + 1}
    /\ preflight \/ unknown \/ forged \/ refused => UNCHANGED <<entries, checking>>]_pipe

(* Every answer but that to an unhandled error carries the request's id if *)
(* it has an error envelope (docs/api.md), lets pages of other origins     *)
(* read it if there are any, and keeps the visitor's session alive; the    *)
(* routes' answers are hardened.                                           *)
AnswersDressed == \A a \in answer : a.place # Outermost =>
    /\ a.place <= Place["rate_limit"] => "request_id" \in a.headers
    /\ a.place <= Place["rate_limit"] /\ "cors" \in Installed => "cors" \in a.headers
    /\ "session" \in Installed => "session" \in a.headers
    /\ a.place = Routes => "security_headers" \in a.headers
==============================================================================
