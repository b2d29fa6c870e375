-------------------------- MODULE MCServiceLifecycle --------------------------
(* The upgrades of MCSchemaMigration in a service with two backends, which  *)
(* are mocks, adapters, plugins, of no known type or misconfigured.         *)
EXTENDS ServiceLifecycle, TLC

CONSTANTS b1, b2, c1, c2, c3, alpha, beta

MCBidOf == (c1 :> b1) @@ (c2 :> b2) @@ (c3 :> b1)
MCQuote == (c1 :> 2) @@ (c2 :> 1) @@ (c3 :> 0)

MCListed == <<beta, alpha>>

Backend(e, t, a, k, i) == [enabled |-> e, type |-> t, auth |-> a, key |-> k, token |-> i]
Mock    == Backend(TRUE, "search_router", "api_key", FALSE, FALSE)
Adapter == Backend(TRUE, "search_router", "api_key", TRUE, FALSE)
Token   == Backend(TRUE, "search_router", "iam", FALSE, TRUE)
Plugin  == Backend(TRUE, "plugin", "iam", FALSE, TRUE)
Unknown == Backend(TRUE, "unknown", "api_key", TRUE, FALSE)
Off     == Backend(FALSE, "search_router", "api_key", TRUE, FALSE)

Config(x, y, a, s, r) ==
    [backends |-> (alpha :> x) @@ (beta :> y), ads |-> a, secret |-> s, required |-> r]
MCConfigurations ==
    {Config(Adapter, Mock, TRUE, TRUE, TRUE), Config(Plugin, Adapter, FALSE, FALSE, FALSE),
     Config(Token, Unknown, FALSE, FALSE, FALSE), Config(Off, Plugin, TRUE, FALSE, FALSE),
     Config(Mock, Unknown, TRUE, FALSE, TRUE)}

Reply(s, d, z, b) == [ends |-> "reply", status |-> s, declared |-> d, size |-> z, body |-> b]
MCReplies ==
    {Reply(200, "nothing", "within", "results"), Reply(200, "within", "beyond", "misfits"),
     Reply(503, "nothing", "within", "text"), [ends |-> "timeout"]}
==============================================================================
