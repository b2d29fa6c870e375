---------------------------- MODULE CircuitBreaker ----------------------------
(***************************************************************************)
(* The per-backend breaker of src/app/core/circuit_breaker.py: one record  *)
(* per backend and what each method does to it.  The lock is never         *)
(* contended (nothing awaits while it is held), so a method is one step.   *)
(*                                                                         *)
(* Of the clock the code only asks whether recovery_timeout_seconds have   *)
(* passed since opened_at: `rested' is the answer.                         *)
(***************************************************************************)
EXTENDS Integers

CONSTANTS
    Threshold,      \* failure_threshold
    HalfOpenMax     \* half_open_max_requests

ASSUME ThresholdAssumption == Threshold \in Nat \ {0}
ASSUME HalfOpenAssumption  == HalfOpenMax \in Int

Breakers == [state    : {"closed", "open", "half_open"},
             failures : Nat,
             inFlight : Nat,
             rested   : BOOLEAN]

(* _BreakerState, as register and _get create it.                          *)
Fresh == [state |-> "closed", failures |-> 0, inFlight |-> 0, rested |-> FALSE]

(* The clock passes opened_at + recovery_timeout_seconds.                  *)
Rested(b) == [b EXCEPT !.rested = (b.state = "open")]

(* _maybe_recover, which every look at the breaker starts with.            *)
Recovered(b) ==
    IF b.state = "open" /\ b.rested
      THEN [b EXCEPT !.state = "half_open", !.inFlight = 0, !.rested = FALSE]
      ELSE b

(* Mutant: one probe too many.                                             *)
RefusesLate(b) ==
    b.state = "open" \/ (b.state = "half_open" /\ b.inFlight > HalfOpenMax)

(* acquire, once recovered: CircuitOpenError, or admission.                *)
Refuses(b) ==
    b.state = "open" \/ (b.state = "half_open" /\ b.inFlight >= HalfOpenMax)

Entered(b) ==
    IF b.state = "half_open" THEN [b EXCEPT !.inFlight = @ + 1] ELSE b

(* Mutant: the failures of the past are not forgotten.                     *)
SucceededOnly(b) == [b EXCEPT !.state = "closed", !.inFlight = 0, !.rested = FALSE]

(* Mutant: a slot is handed back, also by a call that took none.           *)
SlotReturned(b) == [Fresh EXCEPT !.inFlight = b.inFlight - 1]

(* _record_success, from any state: a late success closes an open breaker. *)
Succeeded(b) == Fresh

(* Mutant: a failed probe is counted and nothing else.                     *)
FailedProbeCounted(b) ==
    IF b.state # "half_open" /\ b.failures + 1 >= Threshold
      THEN [b EXCEPT !.state = "open", !.failures = @ + 1, !.rested = FALSE]
      ELSE [b EXCEPT !.failures = @ + 1]

(* _record_failure: a failed probe reopens; a late failure of an open      *)
(* breaker restarts its rest.                                              *)
Failed(b) ==
    CASE b.state = "half_open" ->
           [state |-> "open", failures |-> b.failures + 1, inFlight |-> 0, rested |-> FALSE]
      [] b.state # "half_open" /\ b.failures + 1 >= Threshold ->
           [b EXCEPT !.state = "open", !.failures = @ + 1, !.rested = FALSE]
      [] b.state # "half_open" /\ b.failures + 1 < Threshold ->
           [b EXCEPT !.failures = @ + 1]
==============================================================================
