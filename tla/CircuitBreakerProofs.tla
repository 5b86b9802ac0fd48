------------------------ MODULE CircuitBreakerProofs ------------------------
(***************************************************************************)
(* What the policy functions of CircuitBreaker preserve, for every         *)
(* FailureThreshold and CoolDown.                                          *)
(***************************************************************************)
EXTENDS CircuitBreaker, TLAPS

\* A circuit state that is well typed and whose fields agree.
Sound(s) == s \in CircuitState /\ Consistent(s)

\* The state of a node that was never seen is sound (initialCircuitState).
LEMMA InitialSound == Sound(initialCircuitState)
  BY BreakerAssumption
  DEF Sound, Consistent, Cooled, CircuitState, Status, initialCircuitState, NotOpened

\* The failure counter stays in its range and leaves zero.
LEMMA NextFailuresRange ==
  ASSUME NEW s \in CircuitState
  PROVE  NextFailures(s) \in 1 .. FailureThreshold + 1
  BY BreakerAssumption DEF CircuitState, NextFailures

\* onSuccess of any state is the initial state, which is sound.
LEMMA SuccessSound ==
  ASSUME NEW s
  PROVE  /\ Sound(onSuccess(s).state)
         /\ onSuccess(s).transition \in Transition
         /\ onSuccess(s).state.status = "healthy"
  BY InitialSound DEF onSuccess, Transition, initialCircuitState

\* onFailure preserves soundness, through all three of its branches.
LEMMA FailureSound ==
  ASSUME NEW s, Sound(s)
  PROVE  /\ Sound(onFailure(s).state)
         /\ onFailure(s).transition \in Transition
         /\ onFailure(s).state.status # "healthy"
<1> DEFINE f == NextFailures(s)
<1>0. s \in CircuitState
  BY DEF Sound
<1>1. f \in 1 .. FailureThreshold + 1
  BY <1>0, NextFailuresRange
<1>2. f = FailureThreshold + 1 \/ f = s.consecutiveFailures + 1
  BY <1>0, BreakerAssumption DEF NextFailures, CircuitState
<1>3. Reopened(s) = [ status |-> s.status, consecutiveFailures |-> f,
                      sinceOpened |-> 0, halfOpenInFlight |-> FALSE ]
  BY DEF Reopened, Failed
<1>4. Opened(s) = [ status |-> "circuit_broken", consecutiveFailures |-> f,
                    sinceOpened |-> 0, halfOpenInFlight |-> FALSE ]
  BY DEF Opened, Failed
<1>5. Degraded(s) = [ status |-> "degraded", consecutiveFailures |-> f,
                      sinceOpened |-> s.sinceOpened, halfOpenInFlight |-> FALSE ]
  BY DEF Degraded, Failed
<1> HIDE DEF f
<1>6. CASE IsHalfOpen(s)
  <2>1. onFailure(s) = [state |-> Reopened(s), transition |-> "none"]
    BY <1>6 DEF onFailure
  <2>2. s.status = "circuit_broken" /\ s.consecutiveFailures >= FailureThreshold
    BY <1>6 DEF Sound, Consistent, IsHalfOpen
  <2>3. f >= FailureThreshold
    BY <2>2, <1>0, <1>1, <1>2, BreakerAssumption DEF CircuitState
  <2> QED
    BY <2>1, <2>2, <2>3, <1>1, <1>3, BreakerAssumption
    DEF Sound, Consistent, Cooled, CircuitState, Status, Transition, NotOpened
<1>7. CASE ~IsHalfOpen(s) /\ f >= FailureThreshold /\ s.status # "circuit_broken"
  <2>1. onFailure(s) = [state |-> Opened(s), transition |-> "circuit_opened"]
    BY <1>7 DEF onFailure, f
  <2> QED
    BY <2>1, <1>7, <1>1, <1>4, BreakerAssumption
    DEF Sound, Consistent, Cooled, CircuitState, Status, Transition, NotOpened
<1>8. CASE ~IsHalfOpen(s) /\ ~(f >= FailureThreshold /\ s.status # "circuit_broken")
  <2>1. onFailure(s) = [state |-> Degraded(s), transition |-> "none"]
    BY <1>8 DEF onFailure, f
  <2>2. s.sinceOpened \in NotOpened .. CoolDown
    BY <1>0 DEF CircuitState
  <2>3. s.sinceOpened # NotOpened <=> f > FailureThreshold
    <3>1. CASE s.status = "circuit_broken"
      BY <3>1, <1>0, <1>1, <1>2, BreakerAssumption DEF Sound, Consistent, CircuitState
    <3>2. CASE s.status = "healthy"
      BY <3>2, <1>8, <1>0, <1>1, <1>2, BreakerAssumption DEF Sound, Consistent, CircuitState
    <3>3. CASE s.status = "degraded"
      BY <3>3, <1>8, <1>0, <1>1, <1>2, BreakerAssumption DEF Sound, Consistent, CircuitState
    <3> QED
      BY <3>1, <3>2, <3>3, <1>0 DEF CircuitState, Status
  <2> QED
    BY <2>1, <2>2, <2>3, <1>1, <1>5, BreakerAssumption
    DEF Sound, Consistent, Cooled, CircuitState, Status, Transition, NotOpened
<1> QED
  BY <1>6, <1>7, <1>8

\* shouldProbe preserves soundness: it marks a circuit half-open only when the
\* circuit is broken and its cool-down is over.
LEMMA ProbeSound ==
  ASSUME NEW s, Sound(s)
  PROVE  /\ Sound(shouldProbe(s).state)
         /\ shouldProbe(s).transition \in Transition
         /\ shouldProbe(s).probe \in BOOLEAN
<1>1. CASE shouldProbe(s).state = s
  BY <1>1 DEF shouldProbe, Transition
<1>2. CASE shouldProbe(s).state # s
  <2>1. /\ s.status = "circuit_broken"
        /\ Cooled(s)
        /\ shouldProbe(s) = [probe |-> TRUE,
                             state |-> [s EXCEPT !.halfOpenInFlight = TRUE],
                             transition |-> "circuit_half_opened"]
    BY <1>2 DEF shouldProbe
  <2> DEFINE h == [s EXCEPT !.halfOpenInFlight = TRUE]
  <2>2. /\ h \in CircuitState
        /\ h.status = s.status
        /\ h.consecutiveFailures = s.consecutiveFailures
        /\ h.sinceOpened = s.sinceOpened
    BY DEF Sound, CircuitState
  <2>3. Consistent(h)
    BY <2>1, <2>2 DEF Sound, Consistent, Cooled
  <2> QED
    BY <2>1, <2>2, <2>3 DEF Sound, Transition
<1> QED
  BY <1>1, <1>2

\* The passage of time preserves soundness.
LEMMA ElapseSound ==
  ASSUME NEW s, Sound(s)
  PROVE  Sound(Elapse(s))
<1>0. s \in CircuitState /\ s.sinceOpened \in NotOpened .. CoolDown
  BY DEF Sound, CircuitState
<1>1. CASE s.sinceOpened = NotOpened \/ Cooled(s)
  BY <1>1 DEF Elapse
<1>2. CASE ~(s.sinceOpened = NotOpened \/ Cooled(s))
  <2>1. Elapse(s) = [s EXCEPT !.sinceOpened = s.sinceOpened + 1]
    BY <1>2 DEF Elapse
  <2>2. /\ s.sinceOpened + 1 \in NotOpened .. CoolDown
        /\ s.sinceOpened + 1 # NotOpened
    BY <1>0, <1>2, BreakerAssumption DEF Cooled, NotOpened
  <2> QED
    BY <2>1, <2>2, <1>0, <1>2 DEF Sound, Consistent, Cooled, CircuitState
<1> QED
  BY <1>1, <1>2
=============================================================================
