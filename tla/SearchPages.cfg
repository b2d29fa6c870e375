SPECIFICATION PagesSpec
CONSTANTS
    alpha = alpha  beta = beta  gone = gone  auto = auto  nothing = nothing
    q1 = q1  en = en
    h1 = h1  h2 = h2  h3 = h3
    Threshold = 1
    HalfOpenMax = 1
    Names = {alpha, beta, gone}
    Backends = {alpha, beta}
    Registered <- MCRegistered
    Caps <- MCCaps
    FallbackOrder <- MCFallbackOrder
    Rules <- MCRules
    AnyBackend = auto
    Nothing = nothing
    Kinds = {"web", "images"}
    Languages = {en}
    Words = {q1}
    Https = {h1, h2, h3}
    Visitors = {h1}
    Replies <- MCReplies
    Workload <- MixedWorkload
INVARIANT FailureTold MocksStandIn
PROPERTY EveryVisitAnswered NeverLockedOut
CHECK_DEADLOCK FALSE
