---------------------------- MODULE CircuitBreaker ----------------------------
(***************************************************************************)
(* One provider's circuit breaker (shared/circuit_breaker.py): the record  *)
(* it keeps and what its three methods do to that record.  Each method     *)
(* runs under the breaker's lock, so each is one indivisible operator.     *)
(*                                                                         *)
(* The clock enters the code only through the test                         *)
(*     time.time() - opened_at >= reset_timeout,                           *)
(* so the record keeps the difference, `elapsed', and caps it at           *)
(* ResetTimeout, past which the test no longer changes.  In the same way   *)
(* `failures' is only ever compared with the threshold and is capped there.*)
(***************************************************************************)
EXTENDS Naturals

CONSTANTS
    FailureThreshold,   \* failure_threshold: failures that trip the circuit
    ResetTimeout        \* reset_timeout, in clock ticks

ASSUME BreakerAssumption ==
    /\ FailureThreshold \in Nat \ {0}
    /\ ResetTimeout \in Nat \ {0}

CircuitStates == {"CLOSED", "OPEN", "HALF_OPEN"}

CircuitState == [state    : CircuitStates,
                 failures : 0..FailureThreshold,
                 elapsed  : 0..ResetTimeout]

\* A circuit is created closed, with opened_at = 0: the epoch is long past.
NewCircuit == [state |-> "CLOSED", failures |-> 0, elapsed |-> ResetTimeout]

\* Mutant: a success closes the circuit from any state.
RecordSuccess_ClosesOpen(c) == [c EXCEPT !.failures = 0, !.state = "CLOSED"]

RecordSuccess(c) ==
    [state    |-> IF c.state = "HALF_OPEN" THEN "CLOSED" ELSE c.state,
     failures |-> 0,
     elapsed  |-> c.elapsed]

\* Mutant: the count runs past its range.
OneMoreFailure_Uncapped(c) == c.failures + 1

OneMoreFailure(c) ==
    IF c.failures < FailureThreshold THEN c.failures + 1 ELSE c.failures

\* Mutant: off by one, the circuit opens only above the threshold.
Trips_Above(c) ==
    \/ c.state = "CLOSED" /\ OneMoreFailure(c) > FailureThreshold
    \/ c.state = "HALF_OPEN"

\* A failure opens the circuit, and restarts its clock, when it is the
\* threshold's in CLOSED or any in HALF_OPEN; in OPEN it is only counted.
Trips(c) ==
    \/ c.state = "CLOSED" /\ OneMoreFailure(c) >= FailureThreshold
    \/ c.state = "HALF_OPEN"

\* Mutant: a failed probe forgets to set opened_at again.
RecordFailure_KeepsClock(c) ==
    [state    |-> IF Trips(c) THEN "OPEN" ELSE c.state,
     failures |-> OneMoreFailure(c),
     elapsed  |-> IF c.state = "CLOSED" /\ Trips(c) THEN 0 ELSE c.elapsed]

RecordFailure(c) ==
    [state    |-> IF Trips(c) THEN "OPEN" ELSE c.state,
     failures |-> OneMoreFailure(c),
     elapsed  |-> IF Trips(c) THEN 0 ELSE c.elapsed]

\* What allow_request answers ...
Allows(c) == c.state = "OPEN" => c.elapsed >= ResetTimeout

\* Mutant: any request moves an open circuit to HALF_OPEN.
Asked_Early(c) == [c EXCEPT !.state = IF @ = "OPEN" THEN "HALF_OPEN" ELSE @]

\* Mutant: the request is let through but the circuit stays OPEN.
Asked_StaysOpen(c) == c

\* ... and the circuit it leaves behind: the first request after the timeout
\* moves the circuit to HALF_OPEN, and HALF_OPEN refuses nobody.
Asked(c) ==
    [c EXCEPT !.state = IF @ = "OPEN" /\ Allows(c) THEN "HALF_OPEN" ELSE @]

\* One tick of time.time().
Older(c) ==
    [c EXCEPT !.elapsed = IF @ < ResetTimeout THEN @ + 1 ELSE @]

===============================================================================
