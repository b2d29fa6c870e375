----------------------------- MODULE LoginThrottle -----------------------------
(***************************************************************************)
(* The failed logins of an account (src/app/ads/throttle.py): how many     *)
(* there were in the present window and the time it has left.  Accounts    *)
(* are keys, the username stripped and in lower case.                      *)
(***************************************************************************)
EXTENDS Naturals

CONSTANTS
    Accounts,       \* throttle keys, of accounts that exist or do not
    MaxAttempts,    \* login_max_attempts (0 disables the throttle)
    LockoutTime     \* the ticks of the clock in login_lockout_seconds

ASSUME AttemptsAssumption == MaxAttempts \in Nat /\ LockoutTime \in Nat \ {0}

Failures == [count : Nat, left : 0..LockoutTime]

Running(E, k) == k \in DOMAIN E /\ E[k].left > 0

(* Mutant: the lock does not end with its window.                          *)
LockedForGood(E, k) == MaxAttempts # 0 /\ k \in DOMAIN E /\ E[k].count >= MaxAttempts

(* Mutant: one failure too many.                                           *)
LockedLate(E, k) == MaxAttempts # 0 /\ Running(E, k) /\ E[k].count > MaxAttempts

IsLocked(E, k) == MaxAttempts # 0 /\ Running(E, k) /\ E[k].count >= MaxAttempts

(* record_failure: the first failure opens the window, later ones do not   *)
(* move its end.                                                           *)
WithFailure(E, k) ==
    LET e == IF Running(E, k) THEN [E[k] EXCEPT !.count = @ + 1]
                              ELSE [count |-> 1, left |-> LockoutTime] IN
    IF MaxAttempts = 0 THEN E ELSE [j \in DOMAIN E \cup {k} |-> IF j = k THEN e ELSE E[j]]

(* reset, after a login.                                                   *)
WithoutEntry(E, k) == [j \in DOMAIN E \ {k} |-> E[j]]

Passed(E) == [k \in DOMAIN E |-> [E[k] EXCEPT !.left = IF @ > 0 THEN @ - 1 ELSE 0]]
==============================================================================
