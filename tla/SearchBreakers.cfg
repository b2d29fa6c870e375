SPECIFICATION Spec
CONSTANTS
    alpha = alpha  beta = beta  gone = gone  auto = auto  nothing = nothing
    q1 = q1  q2 = q2  en = en
    h1 = h1  h2 = h2  h3 = h3  h4 = h4
    Threshold = 2
    HalfOpenMax = 1
    Names = {alpha, beta, gone}
    Backends = {alpha, beta}
    Registered <- MCRegistered
    Caps <- MCCaps
    FallbackOrder <- MCFallbackOrder
    Rules <- MCRules
    AnyBackend = auto
    Nothing = nothing
    Kinds = {"web", "images"}
    Languages = {en}
    Words = {q1, q2}
    Https = {h1, h2, h3, h4}
    Workload <- CachedWorkload
INVARIANT TypeOK ClosedBelowThreshold SlotsBacked FailsLast OwnAnswer
SYMMETRY Symmetric
CHECK_DEADLOCK FALSE
