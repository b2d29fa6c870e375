--------------------------- MODULE ServiceLifecycle ---------------------------
(***************************************************************************)
(* One process after another of the service: create_app and lifespan       *)
(* (src/app/main.py), which open what the handlers use, build the registry *)
(* and upgrade the database, and close what they opened; in between        *)
(* GET /health (src/app/api/v1/health.py), which asks every backend at the *)
(* same time.  A start may fail at any of its steps, the process die at    *)
(* any time, and a close fail.                                             *)
(***************************************************************************)
EXTENDS SchemaMigration, BackendRegistry, BackendAdapter

CONSTANTS
    Configurations, \* what the service may be configured with
    Replies         \* what the backends may reply to a probe

Settings == [backends : [Names -> BackendConfigs],
             ads : BOOLEAN, secret : BOOLEAN, required : BOOLEAN]

ASSUME ConfigurationsAssumption == Configurations \subseteq Settings
ASSUME RepliesAssumption == Replies \subseteq AllReplies

VARIABLES
    config,         \* the configuration
    stage,          \* what the process is doing
    signing,        \* the key of the sessions: "none", "configured", "ephemeral"
    considered,     \* how many of Listed the registry has been built from
    registry,       \* the backends offered: their names and what they are
    open,           \* what is open: the HTTP client, the cache, the ads store
    probes,         \* the probes of a health request: what each came to
    health,         \* the answer of the last health request
    faulty          \* history: something failed or died in this process

life == <<vars, config, stage, signing, considered, registry, open, probes, health, faulty>>

process == <<stage, signing, considered, registry, open, faulty>>
requests == <<probes, health>>

Instance == [name : Names, by : {"mock", "real"}]

(* What a probe came to; a plugin's may raise, and a mock's never fails.   *)
Outcomes == [answered : {"yes"}, reply : Replies] \cup [answered : {"mock", "raised", "not yet"}]
-----------------------------------------------------------------------------
(* create_app: sessions need a key.  Without one the service does not      *)
(* start if that is asked for, and makes one up otherwise.                 *)
Start ==
    /\ stage = "stopped"
    /\ config.ads /\ ~config.secret => ~config.required
    /\ stage' = "building"
    /\ signing' = IF ~config.ads THEN "none"
                  ELSE IF config.secret THEN "configured" ELSE "ephemeral"
    /\ open' = {"http"}
    /\ considered' = 0 /\ registry' = <<>>
    /\ faulty' = FALSE
    /\ UNCHANGED <<vars, config, requests>>

(* Mutant: a backend that is left out is tried again.                      *)
BuildRetrying ==
    /\ stage = "building" /\ considered < Len(Listed)
    /\ LET name == Listed[considered + 1]
           b    == config.backends[name] IN
       \E instance \in (IF b.enabled THEN Instances(b) ELSE {"none"}) \ {"none", "ValueError"} :
         /\ considered' = considered + 1
         /\ registry' = Append(registry, [name |-> name, by |-> instance])
    /\ UNCHANGED <<vars, config, stage, faulty, signing, open, requests>>

(* One round of the loop of build_registry.                                *)
Build ==
    /\ stage = "building" /\ considered < Len(Listed)
    /\ LET name == Listed[considered + 1]
           b    == config.backends[name] IN
       \E instance \in (IF b.enabled THEN Instances(b) ELSE {"none"}) :
         IF instance = "ValueError"
           THEN /\ stage' = "stopped" /\ faulty' = TRUE
                /\ UNCHANGED <<considered, registry>>
           ELSE /\ considered' = considered + 1
                /\ registry' = IF instance = "none" THEN registry
                               ELSE Append(registry, [name |-> name, by |-> instance])
                /\ UNCHANGED <<stage, faulty>>
    /\ UNCHANGED <<vars, config, signing, open, requests>>

(* RedisCache.from_url falls back to the null cache, which holds nothing   *)
(* open.                                                                   *)
ConnectCache ==
    /\ stage = "building" /\ considered = Len(Listed)
    /\ open' \in {open, open \cup {"cache"}}
    /\ stage' = IF config.ads THEN "migrating" ELSE "serving"
    /\ UNCHANGED <<vars, config, signing, considered, registry, faulty, requests>>

(* AdsStore.open and init_schema, statement by statement.                  *)
Migrate ==
    /\ stage = "migrating"
    /\ \/ Open \/ ForeignKeysOff \/ Begin \/ CreateNew \/ Copy \/ Drop \/ Rename \/ CommitBids
       \/ ForeignKeysOn \/ Create \/ CreateClicks \/ Alter \/ Backfill \/ Commit
    /\ open' = open \cup {"ads"}
    /\ stage' = IF pc' = "up" THEN "serving" ELSE "migrating"
    /\ UNCHANGED <<config, signing, considered, registry, faulty, requests>>

MigrationFails ==
    /\ stage = "migrating" /\ Rollback
    /\ stage' = "stopped" /\ faulty' = TRUE
    /\ UNCHANGED <<config, signing, considered, registry, open, requests>>

(* The process dies.                                                       *)
Die ==
    /\ stage # "stopped"
    /\ IF pc = "stopped" THEN UNCHANGED vars ELSE Crash
    /\ stage' = "stopped" /\ faulty' = TRUE
    /\ probes' = {}
    /\ UNCHANGED <<config, signing, considered, registry, open, health>>
-----------------------------------------------------------------------------
(* GET /health starts all probes.                                          *)
AskHealth ==
    /\ stage = "serving" /\ probes = {}
    /\ probes' = {[i \in DOMAIN registry |-> [answered |-> "not yet"]]}
    /\ UNCHANGED <<vars, config, process, health>>

(* What a probe comes to: healthcheck catches what the adapter raises; a   *)
(* plugin's own may raise, which gather hands over as a result.            *)
ProbeOutcomes(b) ==
    CASE b.by = "mock" -> [answered : {"mock"}]
      [] b.by = "real" -> [answered : {"yes"}, reply : Replies]
           \cup (IF config.backends[b.name].type \in BuiltIn THEN {} ELSE [answered : {"raised"}])

Probe(i) ==
    /\ \E f \in probes :
         /\ i \in DOMAIN f /\ f[i].answered = "not yet"
         /\ \E o \in ProbeOutcomes(registry[i]) : probes' = {[f EXCEPT ![i] = o]}
    /\ UNCHANGED <<vars, config, process, health>>

StatusOf(o) ==
    CASE o.answered = "mock"   -> "ok"
      [] o.answered = "raised" -> "down"
      [] o.answered = "yes"    -> HealthCheck(o.reply)

(* Mutant: the service is down as soon as a backend is.                    *)
OverallHasty(S) == IF "down" \in S THEN "down" ELSE "ok"

Overall(S) == IF S # {} /\ S = {"down"} THEN "down" ELSE IF "down" \in S THEN "degraded" ELSE "ok"

(* All probes are in.                                                      *)
AnswerHealth ==
    /\ \E f \in probes :
         /\ \A i \in DOMAIN f : f[i].answered # "not yet"
         /\ health' = {[status |-> Overall({StatusOf(f[i]) : i \in DOMAIN f}), probes |-> f]}
    /\ probes' = {}
    /\ UNCHANGED <<vars, config, process>>
-----------------------------------------------------------------------------
(* The finally of lifespan, when the requests are done.                    *)
Stop ==
    /\ stage = "serving" /\ probes = {}
    /\ stage' = "closing http"
    /\ UNCHANGED <<vars, config, signing, considered, registry, open, faulty, requests>>

CloseHttp ==
    /\ stage = "closing http"
    /\ open' = open \ {"http"}
    /\ stage' = "closing cache"
    /\ UNCHANGED <<vars, config, signing, considered, registry, faulty, requests>>

(* Mutant: only a store next to a cache is closed.                         *)
CloseCacheLast ==
    /\ stage = "closing cache"
    /\ open' = open \ {"cache"}
    /\ stage' = IF config.ads /\ "cache" \in open THEN "closing ads" ELSE "stopped"
    /\ UNCHANGED <<vars, config, signing, considered, registry, faulty, requests>>

(* RedisCache.aclose lets no error out.                                    *)
CloseCache ==
    /\ stage = "closing cache"
    /\ open' = open \ {"cache"}
    /\ stage' = IF config.ads THEN "closing ads" ELSE "stopped"
    /\ UNCHANGED <<vars, config, signing, considered, registry, faulty, requests>>

CloseAds ==
    /\ stage = "closing ads"
    /\ Close
    /\ open' = open \ {"ads"}
    /\ stage' = "stopped"
    /\ UNCHANGED <<config, signing, considered, registry, faulty, requests>>

(* A close that fails ends the process with the rest still open.           *)
CloseFails ==
    /\ stage \in {"closing http", "closing ads"}
    /\ IF pc = "up" THEN Close ELSE UNCHANGED vars
    /\ stage' = "stopped" /\ faulty' = TRUE
    /\ UNCHANGED <<config, signing, considered, registry, open, requests>>
-----------------------------------------------------------------------------
LifeInit ==
    /\ Init
    /\ config \in Configurations
    /\ stage = "stopped"
    /\ signing = "none"
    /\ considered = 0 /\ registry = <<>>
    /\ open = {}
    /\ probes = {} /\ health = {}
    /\ faulty = FALSE

(* What goes on by itself once it has begun.                               *)
Continue ==
    \/ Build \/ ConnectCache \/ Migrate \/ MigrationFails
    \/ AnswerHealth \/ \E i \in DOMAIN Listed : Probe(i)
    \/ CloseHttp \/ CloseCache \/ CloseAds \/ CloseFails

LifeNext == Start \/ Continue \/ AskHealth \/ Stop \/ Die

(* The event loop runs what can run, and HTTP calls end: they have a       *)
(* timeout.  Nobody has to start or stop the service, or to ask it.        *)
LifeSpec == LifeInit /\ [][LifeNext]_life /\ WF_life(Continue)
-----------------------------------------------------------------------------
Starting == {"building", "migrating"}
Stopping == {"closing http", "closing cache", "closing ads"}

(* Types; and the stages at which the database is open.                    *)
LifeTypeOK ==
    /\ TypeOK
    /\ config \in Configurations
    /\ stage \in {"stopped", "serving"} \cup Starting \cup Stopping
    /\ signing \in {"none", "configured", "ephemeral"}
    /\ considered \in 0 .. Len(Listed)
    /\ registry \in Seq(Instance)
    /\ open \subseteq {"http", "cache", "ads"}
    /\ pc # "stopped" => config.ads /\ stage \in {"migrating", "serving"} \cup Stopping
    /\ stage \in {"serving"} \cup Stopping => (pc = "up" <=> config.ads)

(* The service serves as it is configured: it offers, in their order, every*)
(* enabled backend of a type it brings along, at worst as a mock, none that*)
(* is off or of no type anybody knows, and calls only those it has         *)
(* credentials for; if it sells ads the database is at its present schema, *)
(* and no made-up key signs sessions where that is forbidden.              *)
ServesAsConfigured == stage = "serving" =>
    LET BackendOf(i) == config.backends[Listed[i]]
        Enabled == {i \in DOMAIN Listed : BackendOf(i).enabled}
        PlaceOf(j) == CHOOSE i \in DOMAIN Listed : Listed[i] = registry[j].name IN
    /\ \A i \in Enabled : BackendOf(i).type \in BuiltIn =>
         \E j \in DOMAIN registry : registry[j].name = Listed[i]
    /\ \A j \in DOMAIN registry :
         /\ PlaceOf(j) \in Enabled /\ BackendOf(PlaceOf(j)).type # "unknown"
         /\ registry[j].by = "real" => HasCredentials(BackendOf(PlaceOf(j)))
         /\ \A k \in DOMAIN registry : j < k => PlaceOf(j) < PlaceOf(k)
    /\ config.ads => db.bids = "new" /\ db.clicks = "new" /\ disk = db
    /\ config.ads /\ config.required => signing = "configured"

(* "down" means that no backend can serve traffic, and "ok" that no backend*)
(* fails, whatever each probe met and in whatever order they came back.    *)
Answers(o) == o.answered = "mock" \/ (o.answered = "yes" /\ SearchEnd(o.reply) = "answer")
Fails(o) == o.answered = "raised" \/ (o.answered = "yes" /\ SearchEnd(o.reply) = "backend error")
HealthFits == \A a \in health :
    /\ a.status = "down" => \A i \in DOMAIN a.probes : ~Answers(a.probes[i])
    /\ a.status = "ok" => \A i \in DOMAIN a.probes : ~Fails(a.probes[i])

(* A service that is stopped in order has closed what it opened.           *)
ClosedInOrder == stage = "stopped" /\ ~faulty => open = {}

(* Every start ends, in a service or in nothing; every stop ends; and      *)
(* every health request is answered unless the process dies.               *)
StartsAndStopsEnd ==
    /\ []<>(stage \in {"stopped", "serving"})
    /\ []<>(probes = {})
==============================================================================
