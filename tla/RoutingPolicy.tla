----------------------------- MODULE RoutingPolicy -----------------------------
(***************************************************************************)
(* Which backends a search may be sent to, and in which order (_candidates *)
(* and _rule_match of src/app/search/router.py), and under which key its   *)
(* response is cached (src/app/core/cache.py).                             *)
(***************************************************************************)
EXTENDS Integers, Sequences

CONSTANTS
    Names,          \* backend names that requests and the configuration use
    Backends,       \* the registered ones
    Registered,     \* these in the registry's order
    Caps,           \* Caps[b]: the capabilities of b that routing asks about
    FallbackOrder,  \* search.fallback_order
    Rules,          \* routing.rules
    AnyBackend,     \* backend="auto"
    Nothing,        \* no value: a rule without `use', a pruned field
    Kinds,          \* "web" and "images"
    Languages,      \* primary subtags
    Words           \* queries

Pages == 0..1       \* bound: the first page, and any other

Searches == [kind : Kinds, query : Words, page : Pages, language : Languages,
             backend : Names \cup {AnyBackend},
             eligible : BOOLEAN]    \* cache=true and time_range is not a day

Capabilities == [kinds : SUBSET Kinds, pagination : BOOLEAN, languages : BOOLEAN]

(* A rule without a condition on the kind or the language lists them all.  *)
RoutingRules == [kinds : SUBSET Kinds, languages : SUBSET Languages,
                 use : Names \cup {Nothing}, prefer : Names \cup {Nothing},
                 fallback : Names \cup {Nothing}]

ASSUME NamesAssumption    == Backends \subseteq Names /\ {AnyBackend, Nothing} \cap Names = {}
ASSUME RegistryAssumption ==
    /\ Registered \in Seq(Backends)
    /\ \A b \in Backends : \E i \in DOMAIN Registered : Registered[i] = b
    /\ Caps \in [Backends -> Capabilities]
ASSUME ConfigAssumption   == FallbackOrder \in Seq(Names) /\ Rules \in Seq(RoutingRules)

Matches(rule, r) == r.kind \in rule.kinds /\ r.language \in rule.languages

(* _rule_match: the first matching rule; `use' alone, else prefer and      *)
(* fallback.                                                               *)
RuleMatch(r) ==
    LET matching == {i \in DOMAIN Rules : Matches(Rules[i], r)}
        rule     == Rules[CHOOSE i \in matching : \A j \in matching : i <= j] IN
    IF matching = {} THEN <<>>
    ELSE IF rule.use # Nothing THEN <<rule.use>>
    ELSE <<rule.prefer, rule.fallback>>

(* Mutant: only what is configured is tried.                               *)
OrderConfigured(r) ==
    CASE r.backend = AnyBackend -> RuleMatch(r) \o FallbackOrder
      [] r.backend \in Backends -> <<r.backend>>
      [] r.backend \notin Backends \cup {AnyBackend} -> <<>>

(* What _candidates runs through: the named backend, or for auto the       *)
(* rule's choice, the fallbacks and then everybody.                        *)
Order(r) ==
    CASE r.backend = AnyBackend -> RuleMatch(r) \o FallbackOrder \o Registered
      [] r.backend \in Backends -> <<r.backend>>
      [] r.backend \notin Backends \cup {AnyBackend} -> <<>>

(* The places of its candidates: registered names, each where it comes     *)
(* first.                                                                  *)
Candidates(r) == {i \in DOMAIN Order(r) :
    Order(r)[i] \in Backends /\ \A j \in 1..(i - 1) : Order(r)[j] # Order(r)[i]}

(* _make_requires: "a backend that cannot paginate must not silently       *)
(* return page-0 results when page > 0 is asked".                          *)
Capable(b, r) == r.kind \in Caps[b].kinds /\ (r.page > 0 => Caps[b].pagination)

(* The places of the candidates that pass it.                              *)
Fitting(r) == {i \in Candidates(r) : Capable(Order(r)[i], r)}

CapableBackends(r) == {b \in Backends : Capable(b, r)}

(* Mutant: one cache for all backends.                                     *)
CacheKeySharing(r) ==
    [kind |-> r.kind, backend |-> AnyBackend, query |-> r.query, page |-> r.page,
     language |-> r.language]

(* make_cache_key of cache_payload_from_model: the fields that a named     *)
(* backend does not support are left out.                                  *)
CacheKey(r) ==
    LET named == r.backend \in Backends IN
    [kind |-> r.kind, backend |-> r.backend, query |-> r.query,
     page |-> IF named /\ ~Caps[r.backend].pagination THEN Nothing ELSE r.page,
     language |-> IF named /\ ~Caps[r.backend].languages THEN Nothing ELSE r.language]

Responses == [kind : Kinds, query : Words, page : Pages, by : Backends]
Keys      == [kind : Kinds, backend : Names \cup {AnyBackend}, query : Words,
              page : Pages \cup {Nothing}, language : Languages \cup {Nothing}]
==============================================================================
