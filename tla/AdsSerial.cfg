SPECIFICATION Spec
CONSTANTS
    u1 = u1  u2 = u2  u3 = u3
    exactSlot = exactSlot  phraseSlot = phraseSlot
    q = q  r1 = r1  r2 = r2  none = none
    h1 = h1  h2 = h2  h3 = h3  h4 = h4
    Users = {u1, u2, u3}
    Slots = {exactSlot, phraseSlot}
    PhraseSlots = {phraseSlot}
    Queries = {q}
    Hits <- MCHits
    RequestIds = {r1, r2}
    NoRequest = none
    Amounts = {1, 2, 3, 4}
    SignupBalance = 4
    Https = {h1, h2, h3}
    Workload <- SerialWorkload
    MaxOpen = 1
    MaxCrashes = 1
    InitialDb <- Books1
    LastId = 2
INVARIANT TypeOK PoolCurrent
PROPERTY KeepsTheBooks AnswersCommitted
CHECK_DEADLOCK FALSE
