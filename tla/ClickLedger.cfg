SPECIFICATION Spec
CONSTANTS
    Users = {u1, u2}
    Slots = {s}
    RequestIds = {r1, r2}
    NoRequest = none
    SignupBalance = 3
    Amounts = {1, 3}
    MaxBidId = 3
    InitialLedger <- EmptyBooks
INVARIANT TypeOK Balanced Solvent ChargedAsQuoted BilledOnce
CHECK_DEADLOCK FALSE
