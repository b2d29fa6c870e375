---------------------------- MODULE MCSearchRouting ----------------------------
(* Small instances of SearchRouting: backend alpha cannot paginate, beta can,*)
(* gone is configured and not registered; three or four searches.           *)
EXTENDS SearchRouting, TLC

CONSTANTS alpha, beta, gone, auto, nothing, q1, q2, en, h1, h2, h3, h4

MCRegistered == <<beta, alpha>>
MCFallbackOrder == <<gone, alpha>>
MCCaps == [n \in {alpha, beta} |->
    [kinds |-> {"web"} \cup (IF n = beta THEN {"images"} ELSE {}),
     pagination |-> n = beta, languages |-> n = beta]]
MCRules == <<[kinds |-> {"images"}, languages |-> {en}, use |-> beta,
              prefer |-> nothing, fallback |-> nothing]>>

Search(k, w, p, n, e) ==
    [kind |-> k, query |-> w, page |-> p, language |-> en, backend |-> n, eligible |-> e]

(* Searches that a breaker may refuse: under auto and for a named backend.  *)
MixedWorkload ==
    {Search("web", q1, 0, auto, FALSE), Search("web", q1, 0, alpha, FALSE),
     Search("images", q1, 0, auto, FALSE), Search("web", q1, 1, alpha, FALSE)}

(* The same, where all but the last may share the cache.                   *)
CachedWorkload ==
    {Search("web", q1, 0, auto, TRUE), Search("web", q1, 0, alpha, TRUE),
     Search("images", q1, 0, auto, TRUE), Search("web", q1, 1, alpha, FALSE)}

PagedWorkload == {Search("web", q1, p, alpha, TRUE) : p \in Pages}

Symmetric == Permutations(Https)
==============================================================================
