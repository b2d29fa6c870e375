----------------------------- MODULE MCSearchPages -----------------------------
(* The backends of MCSearchRouting; a page and two searches of the API.     *)
EXTENDS SearchPages, TLC

CONSTANTS alpha, beta, gone, auto, nothing, q1, en, h1, h2, h3

MCRegistered == <<beta, alpha>>
MCFallbackOrder == <<gone, alpha>>
MCCaps == [n \in {alpha, beta} |->
    [kinds |-> {"web"} \cup (IF n = beta THEN {"images"} ELSE {}),
     pagination |-> n = beta, languages |-> n = beta]]
(* A rule for images would match none of the searches below.               *)
MCRules == <<>>

Search(k, p, n, e) ==
    [kind |-> k, query |-> q1, page |-> p, language |-> en, backend |-> n, eligible |-> e]

(* Searches that a breaker may refuse: under auto and for a named backend.  *)
MixedWorkload ==
    {Search("web", 0, auto, FALSE), Search("web", 0, alpha, TRUE),
     Search("images", 0, alpha, FALSE)}

Reply(s, b) ==
    [ends |-> "reply", status |-> s, declared |-> "nothing", size |-> "within", body |-> b]
MCReplies ==
    {Reply(200, "results"), Reply(200, "misfits"), Reply(400, "text"), [ends |-> "timeout"]}
==============================================================================
