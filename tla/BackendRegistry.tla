---------------------------- MODULE BackendRegistry ----------------------------
(***************************************************************************)
(* build_registry (src/app/search/registry.py): which of the configured    *)
(* backends are offered, and by what.  A backend's settings are those of   *)
(* BackendConfig (src/app/core/config.py) with its *_env names resolved.   *)
(***************************************************************************)
EXTENDS Naturals, Sequences

CONSTANTS
    Names,          \* names of backends
    Listed,         \* the keys of search.backends, in their order
    PluginTypes     \* the types an entry point has a factory for

ASSUME ListedAssumption ==
    /\ Listed \in Seq(Names)
    /\ \A i, j \in DOMAIN Listed : Listed[i] = Listed[j] => i = j
ASSUME PluginTypesAssumption == "unknown" \notin PluginTypes

BuiltIn == {"search_router"}    \* _DEFAULT_FACTORIES, and _MOCK_FACTORIES

BackendConfigs == [enabled : BOOLEAN, type : {"search_router"} \cup PluginTypes \cup {"unknown"},
                   auth : {"api_key", "iam"}, key : BOOLEAN, token : BOOLEAN]

HasCredentials(b) == IF b.auth = "api_key" THEN b.key ELSE b.token

(* Mutant: a backend without credentials is dropped.                       *)
InstancesCredentialed(b) ==
    IF ~HasCredentials(b) THEN {"none"}
    ELSE IF b.type \in BuiltIn THEN {IF b.key THEN "real" ELSE "ValueError"}
    ELSE IF b.type \in PluginTypes THEN {"real", "none", "ValueError"}
    ELSE {"none"}

(* What _instantiate may end with: an instance, none (a ConfigurationError,*)
(* which disables the backend), or an exception nobody catches.  The       *)
(* adapter of Search Router wants an api key even if the credentials it is *)
(* configured with are a token's; a plugin's factory does what it likes.   *)
Instances(b) ==
    IF ~HasCredentials(b) THEN {IF b.type \in BuiltIn THEN "mock" ELSE "none"}
    ELSE IF b.type \in BuiltIn THEN {IF b.key THEN "real" ELSE "ValueError"}
    ELSE IF b.type \in PluginTypes THEN {"real", "none", "ValueError"}
    ELSE {"none"}
==============================================================================
