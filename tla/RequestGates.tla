----------------------------- MODULE RequestGates -----------------------------
(***************************************************************************)
(* The two counters a request has to pass: every request the rate limiter  *)
(* (RateLimitMiddleware.__call__), POST /auth/login then the throttle of   *)
(* its account (login_submit in src/app/ads/routes.py).                    *)
(*                                                                         *)
(* The limiter contains no await, so a request passes it in one step.  A   *)
(* login asks the throttle, awaits the user's row and then, in one step    *)
(* again, verifies the password and records the outcome: meanwhile other   *)
(* logins for the account may begin.                                       *)
(***************************************************************************)
EXTENDS RateLimiter, LoginThrottle, FiniteSetsExt

CONSTANTS
    Logins,         \* bound: the logins that can be in progress at a time
    Watched         \* the client whose admissions are remembered

ASSUME LoginsAssumption == IsFiniteSet(Logins) /\ Watched \in Clients

VARIABLES
    windows,        \* RateLimitMiddleware._windows
    calls,          \* _calls_since_sweep
    entries,        \* LoginThrottle._state
    checking,       \* the account each login is checking, if any
    recent          \* history: admissions of Watched in the last WindowTime
                    \* ticks, by age, since the cap last dropped its window

vars == <<windows, calls, entries, checking, recent>>

Checking(k) == {h \in Logins : checking[h] = {k}}

(* The cap on tracked clients took the window of Watched away.             *)
CapHit(W) == Watched \in Live(windows) \ DOMAIN W /\ Cardinality(Live(windows)) > MaxTracked

Remembered(W, c, through) == [age \in 0 .. WindowTime - 1 |->
    (IF CapHit(W) THEN 0 ELSE recent[age])
      + (IF age = 0 /\ through /\ c = Watched THEN 1 ELSE 0)]

(* A request of c meets the limiter, which sweeps first if it is time.     *)
Limiter(c, through) ==
    \E W \in (IF SweepDue(windows, calls + 1) THEN Swept(windows) ELSE {windows}) :
        /\ through = ~Refused(W, c)
        /\ windows' = Counted(W, c)
        /\ calls' = IF SweepDue(windows, calls + 1) THEN 0 ELSE calls + 1
        /\ recent' = Remembered(W, c, through)

(* A request that is refused by the limiter, or that is no login.          *)
Visit == \E c \in Clients, through \in BOOLEAN :
    Limiter(c, through) /\ UNCHANGED <<entries, checking>>

(* A login that finds its account locked is answered at once; otherwise    *)
(* the user's row is awaited.                                              *)
Begins(h) ==
    /\ checking[h] = {}
    /\ \E k \in Accounts :
         checking' = IF IsLocked(entries, k) THEN checking ELSE [checking EXCEPT ![h] = {k}]
    /\ UNCHANGED entries

Login(h) == Begins(h) /\ \E c \in Clients : Limiter(c, TRUE)

(* The row is there: a wrong password or an unknown user is counted, a     *)
(* right one forgets the failures, any other error does neither.           *)
Outcomes(E, k) == {WithFailure(E, k), WithoutEntry(E, k), E}

Verify(h) ==
    /\ \E k \in checking[h] : entries' \in Outcomes(entries, k)
    /\ checking' = [checking EXCEPT ![h] = {}]
    /\ UNCHANGED <<windows, calls, recent>>

Tick ==
    /\ windows' = Aged(windows)
    /\ entries' = Passed(entries)
    /\ recent' = [age \in 0 .. WindowTime - 1 |-> IF age = 0 THEN 0 ELSE recent[age - 1]]
    /\ UNCHANGED <<calls, checking>>

Init ==
    /\ windows = [c \in {} |-> 0]
    /\ calls = 0
    /\ entries = [k \in {} |-> 0]
    /\ checking = [h \in Logins |-> {}]
    /\ recent = [age \in 0 .. WindowTime - 1 |-> 0]

Next == Visit \/ Tick \/ \E h \in Logins : Login(h) \/ Verify(h)

(* The clock goes on; nobody has to send a request.                        *)
Spec == Init /\ [][Next]_vars /\ WF_vars(Tick)
-----------------------------------------------------------------------------
TypeOK ==
    /\ DOMAIN windows \subseteq Clients /\ windows \in [DOMAIN windows -> WindowRecords]
    /\ calls \in 0 .. SweepEvery - 1
    /\ DOMAIN entries \subseteq Accounts /\ entries \in [DOMAIN entries -> Failures]
    /\ checking \in [Logins -> {{}} \cup {{k} : k \in Accounts}]
    /\ recent \in [0 .. WindowTime - 1 -> Nat]

(* The table of windows stays bounded however many clients keep theirs     *)
(* live: the cap is enforced before the caller's own window is added, so   *)
(* one more than _MAX_TRACKED may be there ("to keep memory bounded").     *)
TrackedBounded == Cardinality(DOMAIN windows) <= MaxTracked + 1

(* The admissions of Watched that recent remembers, the i-th of each age.  *)
Admissions == UNION {{age} \X (1 .. recent[age]) : age \in 0 .. WindowTime - 1}

(* No client gets through more than twice the limit within any 60 seconds, *)
(* two adjacent windows, unless a cap that is exceeded dropped its live    *)
(* window meanwhile: no other sweep hands out a fresh budget.              *)
BurstBounded == Cardinality(Admissions) <= 2 * Limit

(* Logins in flight pass the lock together, yet within one lockout window  *)
(* an account is tried at most MaxAttempts times and once per further      *)
(* login in progress at a time.                                            *)
AttemptsBounded == MaxAttempts > 0 => \A k \in Accounts :
    Running(entries, k) =>
        entries[k].count + Cardinality(Checking(k)) <= MaxAttempts - 1 + Cardinality(Logins)

(* "Legitimate users are never locked out permanently": whatever is tried  *)
(* on it, every account is unlocked again and again.                       *)
NeverLockedOut == \A k \in Accounts : []<>~IsLocked(entries, k)
==============================================================================
