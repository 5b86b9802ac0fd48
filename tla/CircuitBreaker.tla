--------------------------- MODULE CircuitBreaker ---------------------------
(***************************************************************************)
(* The circuit-breaker policy of src/service/routing/circuitBreaker.ts:    *)
(* the pure functions onSuccess, onFailure, shouldProbe and the filter of  *)
(* CircuitBreaker.currentExclusions, on the state of one node.             *)
(*                                                                         *)
(* Abstractions.                                                           *)
(*  - The code stores circuitOpenedAt and computes now - circuitOpenedAt;  *)
(*    the model stores the difference itself, sinceOpened, in time units   *)
(*    saturating at CoolDown (the code only asks whether it is below the   *)
(*    cool-down).  `circuitOpenedAt: now' is sinceOpened = 0 and null is   *)
(*    NotOpened; Elapse is the passage of one unit.                        *)
(*  - consecutiveFailures saturates at FailureThreshold + 1 (the code only *)
(*    compares it with the threshold).                                     *)
(*  - lastSuccessAt and lastFailureAt never influence a decision and are   *)
(*    left out.                                                            *)
(***************************************************************************)
EXTENDS Integers

CONSTANTS
    FailureThreshold,   \* config.failureThreshold, a positive integer
    CoolDown            \* config.coolDownSeconds, in time units

\* src/config/routing.ts parses both with z.number().int().positive().
ASSUME BreakerAssumption ==
    /\ FailureThreshold \in Nat \ {0}
    /\ CoolDown \in Nat \ {0}

Status == {"healthy", "degraded", "circuit_broken"}

Transition == {"none", "circuit_opened", "circuit_half_opened", "circuit_closed"}

NotOpened == -1

CircuitState ==
    [ status : Status,
      consecutiveFailures : 0 .. FailureThreshold + 1,
      sinceOpened : NotOpened .. CoolDown,
      halfOpenInFlight : BOOLEAN ]

initialCircuitState ==
    [ status |-> "healthy",
      consecutiveFailures |-> 0,
      sinceOpened |-> NotOpened,
      halfOpenInFlight |-> FALSE ]

IsHalfOpen(s) == s.status = "circuit_broken" /\ s.halfOpenInFlight

NextFailures(s) ==
    IF s.consecutiveFailures > FailureThreshold
    THEN s.consecutiveFailures
    ELSE s.consecutiveFailures + 1

----------------------------------------------------------------------------
\* Each function returns the new state and the transition to be logged.

\* Mutation: reports a closing although no probe was half-open.
onSuccessAlwaysCloses(s) ==
    [ state |-> initialCircuitState,
      transition |-> IF s.status = "healthy" THEN "none" ELSE "circuit_closed" ]

onSuccess(s) ==
    [ state |-> initialCircuitState,
      transition |-> IF IsHalfOpen(s) THEN "circuit_closed" ELSE "none" ]

\* The state object that onFailure builds.
Failed(s, status, sinceOpened) ==
    [ status |-> status,
      consecutiveFailures |-> NextFailures(s),
      sinceOpened |-> sinceOpened,
      halfOpenInFlight |-> FALSE ]

\* Mutation: the half-open flag survives the failed probe.
ReopenedStillHalfOpen(s) ==
    [Failed(s, s.status, 0) EXCEPT !.halfOpenInFlight = s.halfOpenInFlight]

\* A failed half-open probe restarts the cool-down.
Reopened(s) == Failed(s, s.status, 0)

\* Mutation: the circuit opens without an opening time.
OpenedWithoutTime(s) == Failed(s, "circuit_broken", s.sinceOpened)

Opened(s) == Failed(s, "circuit_broken", 0)

\* The fall-through: it also catches a circuit that is already broken and
\* has no half-open probe, which it turns into a degraded (routable) node.
Degraded(s) == Failed(s, "degraded", s.sinceOpened)

\* Mutation: the opening is not reported.
onFailureSilent(s) ==
    IF IsHalfOpen(s)
    THEN [state |-> Reopened(s), transition |-> "none"]
    ELSE IF NextFailures(s) >= FailureThreshold /\ s.status # "circuit_broken"
    THEN [state |-> Opened(s), transition |-> "none"]
    ELSE [state |-> Degraded(s), transition |-> "none"]

onFailure(s) ==
    IF IsHalfOpen(s)
    THEN [state |-> Reopened(s), transition |-> "none"]
    ELSE IF NextFailures(s) >= FailureThreshold /\ s.status # "circuit_broken"
    THEN [state |-> Opened(s), transition |-> "circuit_opened"]
    ELSE [state |-> Degraded(s), transition |-> "none"]

Cooled(s) == s.sinceOpened >= CoolDown

\* Mutation: the cool-down is not awaited.
shouldProbeAtOnce(s) ==
    [probe |-> TRUE, state |-> s, transition |-> "none"]

shouldProbe(s) ==
    IF s.status # "circuit_broken" \/ s.sinceOpened = NotOpened
    THEN [probe |-> TRUE, state |-> s, transition |-> "none"]
    ELSE IF ~Cooled(s) \/ s.halfOpenInFlight
    THEN [probe |-> FALSE, state |-> s, transition |-> "none"]
    ELSE [probe |-> TRUE,
          state |-> [s EXCEPT !.halfOpenInFlight = TRUE],
          transition |-> "circuit_half_opened"]

\* currentExclusions: the node is left out of the selection.
Excluded(s) ==
    /\ s.status = "circuit_broken"
    /\ s.sinceOpened # NotOpened
    /\ ~Cooled(s)

Elapse(s) ==
    IF s.sinceOpened = NotOpened \/ Cooled(s)
    THEN s
    ELSE [s EXCEPT !.sinceOpened = @ + 1]

\* What every reachable state satisfies: only a node without failures is
\* healthy; a broken circuit has an opening time and at least
\* FailureThreshold failures; a half-open probe exists only in a broken
\* circuit whose cool-down is over; and a degraded node carries an opening
\* time exactly when a failure report, not a success, ended its broken state.
Consistent(s) ==
    /\ s.status = "healthy" <=> s.consecutiveFailures = 0
    /\ s.status = "healthy" => s.sinceOpened = NotOpened
    /\ s.status = "circuit_broken" =>
          s.sinceOpened # NotOpened /\ s.consecutiveFailures >= FailureThreshold
    /\ s.halfOpenInFlight => s.status = "circuit_broken" /\ Cooled(s)
    /\ s.status = "degraded" =>
          (s.sinceOpened # NotOpened <=> s.consecutiveFailures > FailureThreshold)
=============================================================================
