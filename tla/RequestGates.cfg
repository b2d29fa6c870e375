SPECIFICATION PipeSpec
CONSTANTS
    c1 = c1  c2 = c2  c3 = c3  c4 = c4  k1 = k1  l1 = l1  l2 = l2
    Clients = {c1, c2, c3, c4}
    Limit = 1
    WindowTime = 2
    MaxTracked = 2
    SweepEvery = 3
    Accounts = {k1}
    MaxAttempts = 2
    LockoutTime = 2
    Logins = {l1, l2}
    Watched = c1
    Installed <- MCInstalled
    Requests <- MCRequests
INVARIANT PipeTypeOK TrackedBounded BurstBounded AttemptsBounded AnswersDressed
PROPERTY NeverLockedOut RefusedInOrder GatesKept
