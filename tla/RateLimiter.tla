------------------------------ MODULE RateLimiter ------------------------------
(***************************************************************************)
(* The fixed windows of src/app/core/rate_limit.py, one per client, and    *)
(* their sweep.  A window is what is counted in it and the time it has     *)
(* left until reset_at; it is over at 0 and stays in the table until a     *)
(* sweep or the client's next request.                                     *)
(***************************************************************************)
EXTENDS Naturals, FiniteSets

CONSTANTS
    Clients,        \* client keys
    Limit,          \* limit_per_minute (0 leaves the middleware out)
    WindowTime,     \* the ticks of the clock in 60 seconds
    MaxTracked,     \* _MAX_TRACKED
    SweepEvery      \* _SWEEP_EVERY

ASSUME ClientsAssumption == IsFiniteSet(Clients)
ASSUME LimitsAssumption  ==
    Limit \in Nat \ {0} /\ WindowTime \in Nat \ {0} /\ MaxTracked \in Nat /\ SweepEvery \in Nat \ {0}

WindowRecords == [count : 0..Limit, left : 0..WindowTime]

Live(W) == {c \in DOMAIN W : W[c].left > 0}
Kept(W, K) == [c \in K |-> W[c]]

(* Mutant: the sweep empties the table.                                    *)
SweptClean(W) == {Kept(W, {})}

(* Mutant: only expired windows are dropped.                               *)
SweptExpired(W) == {Kept(W, Live(W))}

(* Expired windows are dropped; while there are more than MaxTracked, so   *)
(* are those with the oldest reset_at (among equals, any).                 *)
Swept(W) ==
    {Kept(W, K) : K \in {K \in SUBSET Live(W) :
        /\ Cardinality(K) = IF Cardinality(Live(W)) > MaxTracked
                              THEN MaxTracked ELSE Cardinality(Live(W))
        /\ \A c \in Live(W) \ K, d \in K : W[c].left <= W[d].left}}

(* Mutant: the calls are compared one late.                                *)
SweepDueLate(W, n) == n > SweepEvery \/ Cardinality(DOMAIN W) >= MaxTracked

(* _maybe_sweep: whether this call, the n-th since the last sweep, sweeps. *)
SweepDue(W, n) == n >= SweepEvery \/ Cardinality(DOMAIN W) >= MaxTracked

(* The caller's window, opened or reopened when its time is over.          *)
WindowOf(W, c) ==
    IF c \in Live(W) THEN W[c] ELSE [count |-> 0, left |-> WindowTime]

Refused(W, c) == WindowOf(W, c).count >= Limit

(* The table after a request of c: also a refused one has a window.        *)
Counted(W, c) ==
    LET w == WindowOf(W, c) IN
    [k \in DOMAIN W \cup {c} |->
        IF k # c THEN W[k]
        ELSE IF Refused(W, c) THEN w ELSE [w EXCEPT !.count = @ + 1]]

(* One tick of the clock.                                                  *)
Aged(W) == [c \in DOMAIN W |-> [W[c] EXCEPT !.left = IF @ > 0 THEN @ - 1 ELSE 0]]
==============================================================================
