-------------------------- MODULE NodeHealthProofs --------------------------
(***************************************************************************)
(* Safety of NodeHealth for every set of nodes, of manual ticks and of     *)
(* dispatcher attempts, every threshold and every cool-down.               *)
(*                                                                         *)
(* The invariant is CircuitInv (types, and every circuit sound); with a    *)
(* database that rejects no write, ProbeInv adds that a half-open circuit  *)
(* has its probe.                                                          *)
(***************************************************************************)
EXTENDS NodeHealth, CircuitBreakerProofs

CircuitInv == TypeOK /\ BreakerConsistent

\* The same invariant, in the form the steps use.
LEMMA CircuitInvSound ==
  TypeOK => (BreakerConsistent <=> \A n \in Node : Sound(circuit[n]))
  BY DEF TypeOK, BreakerConsistent, Sound

\* The records that the actions store in tick are well typed.
LEMMA TickTypes ==
  /\ Idle \in Tick
  /\ [Idle EXCEPT !.pc = "dead"] \in Tick
  /\ \A half \in BOOLEAN : Probing(half) \in Tick
  /\ \A stage \in {"half", "ok", "failed"}, s \in CircuitState, e \in Transition,
        half \in BOOLEAN : Persisting(stage, s, e, half) \in Tick
  /\ \A t \in Tick : /\ AfterPersist(t) \in Tick
                     /\ [t EXCEPT !.pc = "logging"] \in Tick
<1>1. Idle \in Tick
  BY DEF Idle, Tick, Transition
<1>2. [Idle EXCEPT !.pc = "dead"] \in Tick
  BY <1>1 DEF Tick
<1>3. \A half \in BOOLEAN : Probing(half) \in Tick
  BY DEF Probing, Idle, Tick, Transition
<1>4. \A stage \in {"half", "ok", "failed"}, s \in CircuitState, e \in Transition,
         half \in BOOLEAN : Persisting(stage, s, e, half) \in Tick
  BY DEF Persisting, Tick, CircuitState
<1>5. \A t \in Tick : [t EXCEPT !.pc = "logging"] \in Tick
  BY DEF Tick
<1>6. \A t \in Tick : AfterPersist(t) \in Tick
  BY <1>1, <1>3 DEF AfterPersist
<1> QED
  BY <1>1, <1>2, <1>3, <1>4, <1>5, <1>6

\* Replacing one node's circuit by a sound one keeps them all sound.
LEMMA CircuitUpdate ==
  ASSUME TypeOK, BreakerConsistent, NEW n \in Node, NEW s, Sound(s),
         circuit' = [circuit EXCEPT ![n] = s]
  PROVE  circuit' \in [Node -> CircuitState] /\ BreakerConsistent'
<1>1. s \in CircuitState /\ Consistent(s)
  BY DEF Sound
<1>2. circuit' \in [Node -> CircuitState]
  BY <1>1 DEF TypeOK
<1>3. \A m \in Node : circuit'[m] = IF m = n THEN s ELSE circuit[m]
  BY DEF TypeOK
<1>4. ASSUME NEW m \in Node PROVE Consistent(circuit'[m])
  BY <1>1, <1>3, <1>4 DEF BreakerConsistent
<1> QED
  BY <1>2, <1>4 DEF BreakerConsistent

\* Replacing one tick by a well-typed one keeps tick well typed.
LEMMA TickUpdate ==
  ASSUME TypeOK, NEW n \in Node, NEW k \in Slot, NEW t \in Tick, SetTick(n, k, t)
  PROVE  tick' \in [Node -> [Slot -> Tick]]
  BY DEF TypeOK, SetTick

\* The gateway starts with every circuit healthy and every tick idle.
LEMMA InitCircuitInv == Init => CircuitInv
<1> SUFFICES ASSUME Init PROVE CircuitInv
  OBVIOUS
<1>1. initialCircuitState \in CircuitState /\ Consistent(initialCircuitState)
  BY InitialSound DEF Sound
<1>2. TypeOK
  BY <1>1, TickTypes, HealthAssumption DEF Init, TypeOK, Transition
<1>3. BreakerConsistent
  BY <1>1 DEF Init, BreakerConsistent
<1> QED
  BY <1>2, <1>3 DEF CircuitInv

\* The catch block of tickNode, shared by ProbeFails and DbFails.
LEMMA CatchKeeps ==
  ASSUME CircuitInv, NEW n \in Node, NEW k \in Slot, TickCatches(n, k)
  PROVE  /\ circuit' \in [Node -> CircuitState]
         /\ tick' \in [Node -> [Slot -> Tick]]
         /\ BreakerConsistent'
<1> DEFINE r == onFailure(circuit[n])
<1>1. Sound(circuit[n])
  BY CircuitInvSound DEF CircuitInv
<1>2. Sound(r.state) /\ r.transition \in Transition
  BY <1>1, FailureSound
<1>3. tick[n][k].half \in BOOLEAN
  BY DEF CircuitInv, TypeOK, Tick
<1>4. Persisting("failed", r.state, r.transition, tick[n][k].half) \in Tick
  BY <1>2, <1>3, TickTypes DEF Sound
<1>5. circuit' = [circuit EXCEPT ![n] = r.state]
  BY DEF TickCatches
<1>6. SetTick(n, k, Persisting("failed", r.state, r.transition, tick[n][k].half))
  BY DEF TickCatches
<1> HIDE DEF r
<1> QED
  BY <1>2, <1>4, <1>5, <1>6, CircuitUpdate, TickUpdate DEF CircuitInv

\* CircuitBreaker.onFailure as the dispatchers call it.
LEMMA ReportKeeps ==
  ASSUME CircuitInv, NEW n \in Node, ReportFailure(n)
  PROVE  circuit' \in [Node -> CircuitState] /\ BreakerConsistent'
<1>1. Sound(onFailure(circuit[n]).state)
  BY CircuitInvSound, FailureSound DEF CircuitInv
<1> QED
  BY <1>1, CircuitUpdate DEF CircuitInv, ReportFailure

\* Every step, and every stutter, preserves the invariant.
LEMMA NextCircuitInv == CircuitInv /\ [Next]_vars => CircuitInv'
<1> SUFFICES ASSUME CircuitInv, [Next]_vars PROVE CircuitInv'
  OBVIOUS
<1> USE DEF CircuitInv
<1>1. ASSUME NEW n \in Node, NEW k \in Slot, TickStart(n, k) PROVE CircuitInv'
  <2> DEFINE d == shouldProbe(circuit[n])
  <2>1. Sound(d.state) /\ d.transition \in Transition
    BY CircuitInvSound, ProbeSound
  <2>2. circuit' = [circuit EXCEPT ![n] = d.state]
    BY <1>1 DEF TickStart
  <2>3. PICK t \in Tick : SetTick(n, k, t)
    BY <1>1, <2>1, TickTypes DEF TickStart, Sound
  <2> HIDE DEF d
  <2> QED
    BY <1>1, <2>1, <2>2, <2>3, CircuitUpdate, TickUpdate DEF TypeOK, TickStart
<1>2. ASSUME NEW n \in Node, NEW k \in Slot, ProbeSucceeds(n, k) PROVE CircuitInv'
  <2> DEFINE r == onSuccess(circuit[n])
  <2>1. Sound(r.state) /\ r.transition \in Transition
    BY SuccessSound
  <2>2. circuit' = [circuit EXCEPT ![n] = r.state]
    BY <1>2 DEF ProbeSucceeds
  <2>3. tick[n][k].half \in BOOLEAN
    BY DEF TypeOK, Tick
  <2>4. PICK t \in Tick : SetTick(n, k, t)
    BY <1>2, <2>1, <2>3, TickTypes DEF ProbeSucceeds, Sound
  <2> HIDE DEF r
  <2> QED
    BY <1>2, <2>1, <2>2, <2>4, CircuitUpdate, TickUpdate DEF TypeOK, ProbeSucceeds
<1>3. ASSUME NEW n \in Node, NEW k \in Slot, ProbeFails(n, k) PROVE CircuitInv'
  BY <1>3, CatchKeeps DEF TypeOK, ProbeFails
<1>4. ASSUME NEW n \in Node, NEW k \in Slot, Upsert(n, k) PROVE CircuitInv'
  <2>1. tick[n][k] \in Tick /\ tick[n][k].row \in Status \cup {"absent"}
    BY DEF TypeOK, Tick
  <2>2. PICK t \in Tick : SetTick(n, k, t)
    BY <1>4, <2>1, TickTypes DEF Upsert
  <2> QED
    BY <1>4, <2>1, <2>2, TickUpdate DEF TypeOK, BreakerConsistent, Upsert
<1>5. ASSUME NEW n \in Node, NEW k \in Slot, LogEvent(n, k) PROVE CircuitInv'
  <2>1. tick[n][k] \in Tick /\ tick[n][k].event \in Transition
    BY DEF TypeOK, Tick
  <2>2. PICK t \in Tick : SetTick(n, k, t)
    BY <1>5, <2>1, TickTypes DEF LogEvent
  <2> QED
    BY <1>5, <2>1, <2>2, TickUpdate DEF TypeOK, BreakerConsistent, LogEvent
<1>6. ASSUME NEW n \in Node, NEW k \in Slot, DbFails(n, k) PROVE CircuitInv'
  <2>1. faults' \in 0 .. MaxDbFaults
    BY <1>6, HealthAssumption DEF TypeOK, DbFails
  <2>2. CASE tick[n][k].stage = "ok"
    BY <1>6, <2>1, <2>2, CatchKeeps DEF TypeOK, DbFails
  <2>3. CASE tick[n][k].stage # "ok"
    <3>1. PICK t \in Tick : SetTick(n, k, t)
      BY <1>6, <2>3, TickTypes DEF DbFails
    <3> QED
      BY <1>6, <2>1, <2>3, <3>1, TickUpdate DEF TypeOK, BreakerConsistent, DbFails
  <2> QED
    BY <2>2, <2>3
<1>7. ASSUME NEW c \in Call, NEW n \in Node, CallStart(c, n) PROVE CircuitInv'
  BY <1>7 DEF TypeOK, BreakerConsistent, CallStart
<1>8. ASSUME NEW c \in Call, NEW n \in Node, CallWithoutQuote(c, n) PROVE CircuitInv'
  BY <1>8, ReportKeeps DEF TypeOK, CallWithoutQuote
<1>9. ASSUME NEW c \in Call, CallFails(c) PROVE CircuitInv'
  <2>1. call[c] \in Node
    BY <1>9 DEF TypeOK, CallFails
  <2> QED
    BY <1>9, <2>1, ReportKeeps DEF TypeOK, CallFails
<1>10. ASSUME NEW c \in Call, CallEnds(c) PROVE CircuitInv'
  BY <1>10 DEF TypeOK, BreakerConsistent, CallEnds
<1>11. ASSUME TimePasses PROVE CircuitInv'
  <2>1. \A n \in Node : Sound(Elapse(circuit[n]))
    BY CircuitInvSound, ElapseSound
  <2> QED
    BY <1>11, <2>1 DEF TypeOK, BreakerConsistent, Sound, TimePasses
<1>12. ASSUME NEW n \in Node, QuoteExpires(n) PROVE CircuitInv'
  BY <1>12 DEF TypeOK, BreakerConsistent, QuoteExpires
<1>13. ASSUME NEW n \in Node, NodeFlips(n) PROVE CircuitInv'
  BY <1>13 DEF TypeOK, BreakerConsistent, NodeFlips
<1>14. ASSUME Restart \/ \E n \in Node : RejectionEnds(n) PROVE CircuitInv'
  <2>1. initialCircuitState \in CircuitState /\ Consistent(initialCircuitState)
    BY InitialSound DEF Sound
  <2>2. Reboot
    BY <1>14 DEF Restart, RejectionEnds
  <2>3. faults' \in 0 .. MaxDbFaults
    BY <1>14, HealthAssumption DEF TypeOK, Restart, RejectionEnds
  <2> QED
    BY <2>1, <2>2, <2>3, TickTypes DEF TypeOK, BreakerConsistent, Reboot
<1>15. ASSUME UNCHANGED vars PROVE CircuitInv'
  BY <1>15 DEF TypeOK, BreakerConsistent, vars
<1> QED
  BY <1>1, <1>2, <1>3, <1>4, <1>5, <1>6, <1>7, <1>8, <1>9, <1>10, <1>11, <1>12,
     <1>13, <1>14, <1>15 DEF Next, TickStep

\* Type correctness of NodeHealth, for every value of the constants.
THEOREM TypeCorrect == Spec => []TypeOK
<1>1. CircuitInv => TypeOK
  BY DEF CircuitInv
<1> QED
  BY <1>1, InitCircuitInv, NextCircuitInv, PTL DEF Spec

\* No interleaving of refresh ticks, manual ticks, dispatcher reports, clock
\* and restarts makes the fields of a circuit disagree.
THEOREM BreakerAlwaysConsistent == Spec => []BreakerConsistent
<1>1. CircuitInv => BreakerConsistent
  BY DEF CircuitInv
<1> QED
  BY <1>1, InitCircuitInv, NextCircuitInv, PTL DEF Spec

----------------------------------------------------------------------------
\* A tick is inside persist exactly when it has a persist stage, and a tick
\* that is not running carries no half-open decision.
TickShape(t) ==
    /\ t.pc \in {"upserting", "logging"} <=> t.stage # "none"
    /\ t.pc \in {"idle", "dead"} => ~t.half

ShapesOK == \A n \in Node, k \in Slot : TickShape(tick[n][k])

\* The tick that let a half-open probe through, from shouldProbe to its end.
Deciding(t) == t.half /\ t.stage \in {"none", "half"}

ProbeInv == CircuitInv /\ ShapesOK /\ HalfOpenHasProbe

\* Every failure report clears the half-open flag.
LEMMA FailureClearsFlag ==
  ASSUME NEW s
  PROVE  onFailure(s).state.halfOpenInFlight = FALSE
  BY DEF onFailure, Reopened, Opened, Degraded, Failed

\* HalfOpenHasProbe survives a step of one tick of node n that either leaves
\* the flag as it was and keeps a deciding tick deciding, or clears the flag,
\* or makes that tick the deciding one.
LEMMA ProbeUpdate ==
  ASSUME ProbeInv, NEW n \in Node, NEW k \in Slot, NEW t \in Tick, SetTick(n, k, t),
         NEW s \in CircuitState, circuit' = [circuit EXCEPT ![n] = s],
         TickShape(t),
         \/ ~s.halfOpenInFlight
         \/ Deciding(t)
         \/ s.halfOpenInFlight = circuit[n].halfOpenInFlight /\ ~Deciding(tick[n][k])
  PROVE  ShapesOK' /\ HalfOpenHasProbe'
<1> USE DEF ProbeInv, CircuitInv, TypeOK
<1>1. \A m \in Node, j \in Slot :
         tick'[m][j] = IF m = n /\ j = k THEN t ELSE tick[m][j]
  BY DEF SetTick
<1>2. \A m \in Node : circuit'[m] = IF m = n THEN s ELSE circuit[m]
  OBVIOUS
<1>3. ShapesOK'
  BY <1>1 DEF ShapesOK
<1>4. ASSUME NEW m \in Node, circuit'[m].halfOpenInFlight
      PROVE  \E j \in Slot : Deciding(tick'[m][j])
  <2>1. CASE m # n
    <3>1. PICK j \in Slot : Deciding(tick[m][j])
      BY <1>2, <1>4, <2>1 DEF HalfOpenHasProbe, Deciding
    <3> QED
      BY <1>1, <2>1, <3>1
  <2>2. CASE m = n /\ Deciding(t)
    BY <1>1, <2>2
  <2>3. CASE m = n /\ ~Deciding(t)
    <3>1. s.halfOpenInFlight
      BY <1>2, <1>4, <2>3
    <3>2. circuit[n].halfOpenInFlight /\ ~Deciding(tick[n][k])
      BY <2>3, <3>1
    <3>3. PICK j \in Slot : Deciding(tick[n][j])
      BY <3>2 DEF HalfOpenHasProbe, Deciding
    <3> QED
      BY <1>1, <2>3, <3>2, <3>3
  <2> QED
    BY <2>1, <2>2, <2>3
<1> QED
  BY <1>3, <1>4 DEF HalfOpenHasProbe, Deciding

\* With a database that rejects nothing, every step keeps ProbeInv.
LEMMA NextProbeInv ==
  ASSUME MaxDbFaults = 0, ProbeInv, [Next]_vars
  PROVE  ProbeInv'
<1> USE DEF ProbeInv, CircuitInv, TypeOK
<1>0. CircuitInv'
  BY NextCircuitInv
<1>a. \A n \in Node : circuit'[n] \in CircuitState /\ circuit[n] \in CircuitState
  BY <1>0
<1>1. ASSUME NEW n \in Node, NEW k \in Slot, TickStart(n, k) PROVE ProbeInv'
  <2> DEFINE d == shouldProbe(circuit[n])
  <2>0. Sound(d.state) /\ d.transition \in Transition
    BY CircuitInvSound, ProbeSound
  <2>1. CASE d.transition = "circuit_half_opened"
    <3> DEFINE t == Persisting("half", d.state, d.transition, TRUE)
    <3>1. SetTick(n, k, t)
      BY <1>1, <2>1 DEF TickStart
    <3>2. t \in Tick
      BY <2>0, TickTypes DEF Sound
    <3>3. circuit' = [circuit EXCEPT ![n] = d.state] /\ d.state \in CircuitState
      BY <1>1, <2>0 DEF TickStart, Sound
    <3>4. TickShape(t) /\ Deciding(t)
      BY DEF Persisting, TickShape, Deciding
    <3> HIDE DEF d, t
    <3> QED
      BY <1>0, <3>1, <3>2, <3>3, <3>4, ProbeUpdate
  <2>2. CASE d.transition # "circuit_half_opened"
    <3>1. SetTick(n, k, Probing(FALSE)) /\ Probing(FALSE) \in Tick
      BY <1>1, <2>2, TickTypes DEF TickStart
    <3>2. d.state = circuit[n]
      BY <2>2 DEF shouldProbe
    <3>3. circuit' = [circuit EXCEPT ![n] = circuit[n]]
      BY <1>1, <3>2 DEF TickStart
    <3>4. ~Deciding(tick[n][k])
      BY <1>1 DEF TickStart, ShapesOK, TickShape, Deciding
    <3>5. TickShape(Probing(FALSE))
      BY DEF TickShape, Probing, Idle
    <3> QED
      BY <1>0, <1>a, <3>1, <3>3, <3>4, <3>5, ProbeUpdate
  <2> QED
    BY <2>1, <2>2
<1>2. ASSUME NEW n \in Node, NEW k \in Slot, ProbeSucceeds(n, k) PROVE ProbeInv'
  <2> DEFINE r == onSuccess(circuit[n])
             t == Persisting("ok", r.state, r.transition, tick[n][k].half)
  <2>1. SetTick(n, k, t) /\ circuit' = [circuit EXCEPT ![n] = r.state]
    BY <1>2 DEF ProbeSucceeds
  <2>2. r.state \in CircuitState /\ r.transition \in Transition
    BY SuccessSound DEF Sound
  <2>3. r.state.halfOpenInFlight = FALSE
    BY DEF onSuccess, initialCircuitState
  <2>4. t \in Tick
    BY <2>2, TickTypes DEF Tick
  <2>5. TickShape(t)
    BY DEF TickShape, Persisting
  <2> HIDE DEF r, t
  <2> QED
    BY <1>0, <2>1, <2>2, <2>3, <2>4, <2>5, ProbeUpdate
<1>3. ASSUME NEW n \in Node, NEW k \in Slot, ProbeFails(n, k) PROVE ProbeInv'
  <2> DEFINE r == onFailure(circuit[n])
             t == Persisting("failed", r.state, r.transition, tick[n][k].half)
  <2>1. SetTick(n, k, t) /\ circuit' = [circuit EXCEPT ![n] = r.state]
    BY <1>3 DEF ProbeFails, TickCatches
  <2>2. r.state \in CircuitState /\ r.transition \in Transition
    BY CircuitInvSound, FailureSound DEF Sound
  <2>3. r.state.halfOpenInFlight = FALSE
    BY FailureClearsFlag
  <2>4. t \in Tick
    BY <2>2, TickTypes DEF Tick
  <2>5. TickShape(t)
    BY DEF TickShape, Persisting
  <2> HIDE DEF r, t
  <2> QED
    BY <1>0, <2>1, <2>2, <2>3, <2>4, <2>5, ProbeUpdate
<1>4. ASSUME NEW n \in Node, NEW k \in Slot, Upsert(n, k) \/ LogEvent(n, k)
      PROVE  ProbeInv'
  <2> DEFINE o == tick[n][k]
  <2>1. o \in Tick /\ o.pc \in {"upserting", "logging"} /\ TickShape(o)
    BY <1>4 DEF Upsert, LogEvent, ShapesOK
  <2>2. circuit' = [circuit EXCEPT ![n] = circuit[n]]
    BY <1>4 DEF Upsert, LogEvent
  <2>3. SetTick(n, k, AfterPersist(o)) \/ SetTick(n, k, [o EXCEPT !.pc = "logging"])
    BY <1>4 DEF Upsert, LogEvent
  <2>4. CASE SetTick(n, k, AfterPersist(o))
    <3>1. AfterPersist(o) \in Tick /\ TickShape(AfterPersist(o))
      <4>1. TickShape(Idle) /\ TickShape(Probing(TRUE))
        BY DEF TickShape, Probing, Idle
      <4> QED
        BY <2>1, <4>1, TickTypes DEF AfterPersist
    <3>2. Deciding(AfterPersist(o)) \/ ~Deciding(o)
      <4>1. CASE o.stage = "half"
        BY <4>1 DEF AfterPersist, Deciding, Probing, Idle
      <4>2. CASE o.stage # "half"
        BY <2>1, <4>2 DEF TickShape, Deciding
      <4> QED
        BY <4>1, <4>2
    <3> HIDE DEF o
    <3> QED
      BY <1>0, <1>a, <2>2, <2>4, <3>1, <3>2, ProbeUpdate DEF o
  <2>5. CASE SetTick(n, k, [o EXCEPT !.pc = "logging"])
    <3> DEFINE t == [o EXCEPT !.pc = "logging"]
    <3>1. t \in Tick /\ t.pc = "logging" /\ t.stage = o.stage /\ t.half = o.half
      <4> HIDE DEF o
      <4>1. t \in Tick
        BY <2>1, TickTypes
      <4>2. t.pc = "logging" /\ t.stage = o.stage /\ t.half = o.half
        BY <2>1 DEF Tick
      <4> QED
        BY <4>1, <4>2
    <3>2. TickShape(t) /\ (Deciding(t) \/ ~Deciding(o))
      BY <2>1, <3>1 DEF TickShape, Deciding
    <3> HIDE DEF t
    <3> QED
      BY <1>0, <1>a, <2>2, <2>5, <3>1, <3>2, ProbeUpdate DEF o, t
  <2> QED
    BY <2>3, <2>4, <2>5
<1>5. ASSUME NEW n \in Node, NEW k \in Slot, DbFails(n, k) PROVE ProbeInv'
  BY <1>5 DEF DbFails
<1>6. ASSUME UNCHANGED <<circuit, tick>> PROVE ProbeInv'
  BY <1>0, <1>6 DEF ShapesOK, HalfOpenHasProbe
<1>7. ASSUME NEW n \in Node, ReportFailure(n), UNCHANGED tick PROVE ProbeInv'
  <2>1. \A m \in Node : circuit'[m].halfOpenInFlight => circuit[m].halfOpenInFlight
    BY <1>7, FailureClearsFlag DEF ReportFailure
  <2> QED
    BY <1>0, <1>7, <2>1 DEF ShapesOK, HalfOpenHasProbe
<1>8. ASSUME NEW c \in Call, CallFails(c) PROVE ProbeInv'
  <2>1. call[c] \in Node
    BY <1>8 DEF CallFails
  <2> QED
    BY <1>7, <1>8, <2>1 DEF CallFails
<1>9. ASSUME TimePasses PROVE ProbeInv'
  <2>1. \A m \in Node : circuit'[m].halfOpenInFlight = circuit[m].halfOpenInFlight
    BY <1>9, <1>a DEF TimePasses, Elapse, CircuitState
  <2> QED
    BY <1>0, <1>9, <2>1 DEF TimePasses, ShapesOK, HalfOpenHasProbe
<1>10. ASSUME Restart PROVE ProbeInv'
  BY <1>0, <1>10
  DEF Restart, Reboot, initialCircuitState, Idle, TickShape, ShapesOK, HalfOpenHasProbe
<1>11. ASSUME NEW n \in Node, RejectionEnds(n) PROVE ProbeInv'
  BY <1>11 DEF RejectionEnds
<1> QED
  BY <1>1, <1>2, <1>3, <1>4, <1>5, <1>6, <1>7, <1>8, <1>9, <1>10, <1>11
  DEF Next, TickStep, CallStart, CallWithoutQuote, CallEnds, QuoteExpires, NodeFlips, vars

\* No circuit is half open at the start.
LEMMA InitProbeInv == Init => ProbeInv
  BY InitCircuitInv
  DEF Init, ProbeInv, initialCircuitState, Idle, TickShape, ShapesOK, HalfOpenHasProbe

\* When the database rejects no write, a half-open circuit always has the
\* probe that will decide it: the flag that suspends all other probes is
\* never left behind.
THEOREM HalfOpenAlwaysHasProbe ==
  ASSUME MaxDbFaults = 0
  PROVE  Spec => []HalfOpenHasProbe
<1>1. ProbeInv /\ [Next]_vars => ProbeInv'
  BY NextProbeInv
<1>2. ProbeInv => HalfOpenHasProbe
  BY DEF ProbeInv
<1> QED
  BY <1>1, <1>2, InitProbeInv, PTL DEF Spec

----------------------------------------------------------------------------
(* The event log, when the ticks of a node do not overlap (Manual = {}). *)

\* How a node's tick t, its half-open flag and its newest event belong
\* together.  The flag is set while the tick that set it decides, or left
\* behind by a tick that died of a rejected write; that tick has logged the
\* half-opening before it probes; and a closing is decided only by it.
LogShape(t, flag, last) ==
    /\ TickShape(t)
    /\ flag => t.pc = "dead" \/ Deciding(t)
    /\ t.pc = "probing" /\ t.half => last = "circuit_half_opened"
    /\ t.stage = "half" => t.half /\ t.event = "circuit_half_opened"
    /\ t.event = "circuit_closed" => t.stage = "ok" /\ last = "circuit_half_opened"

LogInv ==
    /\ CircuitInv
    /\ \A n \in Node :
          LogShape(tick[n]["loop"], circuit[n].halfOpenInFlight, lastEvent[n])

\* A step of node n's tick changes no other node.
LEMMA LogUpdate ==
  ASSUME LogInv, CircuitInv', NEW n \in Node, NEW t, SetTick(n, "loop", t),
         NEW s, circuit' = [circuit EXCEPT ![n] = s],
         NEW e, lastEvent' = [lastEvent EXCEPT ![n] = e],
         LogShape(t, s.halfOpenInFlight, e)
  PROVE  LogInv'
<1>1. \A m \in Node :
         /\ tick'[m]["loop"] = IF m = n THEN t ELSE tick[m]["loop"]
         /\ circuit'[m] = IF m = n THEN s ELSE circuit[m]
         /\ lastEvent'[m] = IF m = n THEN e ELSE lastEvent[m]
  BY DEF LogInv, CircuitInv, TypeOK, SetTick, Slot
<1> QED
  BY <1>1 DEF LogInv

\* A failure report never closes a circuit.
LEMMA FailureNeverCloses ==
  ASSUME NEW s
  PROVE  onFailure(s).transition # "circuit_closed"
  BY DEF onFailure

\* The catch block of tickNode.
LEMMA LogCatch ==
  ASSUME LogInv, CircuitInv', NEW n \in Node, TickCatches(n, "loop"), UNCHANGED lastEvent
  PROVE  LogInv'
<1> DEFINE r == onFailure(circuit[n])
           t == Persisting("failed", r.state, r.transition, tick[n]["loop"].half)
<1>1. SetTick(n, "loop", t) /\ circuit' = [circuit EXCEPT ![n] = r.state]
  BY DEF TickCatches
<1>2. lastEvent' = [lastEvent EXCEPT ![n] = lastEvent[n]]
  BY DEF LogInv, CircuitInv, TypeOK
<1>3. r.state.halfOpenInFlight = FALSE /\ r.transition # "circuit_closed"
  BY FailureClearsFlag, FailureNeverCloses
<1>4. LogShape(t, r.state.halfOpenInFlight, lastEvent[n])
  BY <1>3 DEF LogShape, TickShape, Persisting
<1> HIDE DEF r, t
<1> QED
  BY <1>1, <1>2, <1>4, LogUpdate

\* Every step of the loop's ticks, of the dispatchers and of the environment.
LEMMA NextLogInv ==
  ASSUME Manual = {}, LogInv, [Next]_vars
  PROVE  LogInv'
<1>0. CircuitInv' /\ CircuitInv
  BY NextCircuitInv DEF LogInv
<1>a. \A n \in Node :
         /\ circuit = [circuit EXCEPT ![n] = circuit[n]]
         /\ lastEvent = [lastEvent EXCEPT ![n] = lastEvent[n]]
         /\ circuit[n] \in CircuitState /\ tick[n]["loop"] \in Tick
         /\ LogShape(tick[n]["loop"], circuit[n].halfOpenInFlight, lastEvent[n])
  BY DEF LogInv, CircuitInv, TypeOK, Slot
<1>1. ASSUME NEW n \in Node, TickStart(n, "loop") PROVE LogInv'
  <2> DEFINE d == shouldProbe(circuit[n])
  <2>0. circuit' = [circuit EXCEPT ![n] = d.state]
        /\ lastEvent' = [lastEvent EXCEPT ![n] = lastEvent[n]]
    BY <1>1, <1>a DEF TickStart
  <2>1. CASE d.transition = "circuit_half_opened"
    <3> DEFINE t == Persisting("half", d.state, d.transition, TRUE)
    <3>1. SetTick(n, "loop", t)
      BY <1>1, <2>1 DEF TickStart
    <3>2. LogShape(t, d.state.halfOpenInFlight, lastEvent[n])
      BY <2>1 DEF LogShape, TickShape, Deciding, Persisting
    <3> HIDE DEF d, t
    <3> QED
      BY <1>0, <2>0, <3>1, <3>2, LogUpdate
  <2>2. CASE d.transition # "circuit_half_opened"
    <3>1. SetTick(n, "loop", Probing(FALSE))
      BY <1>1, <2>2 DEF TickStart
    <3>2. d.state = circuit[n]
      BY <2>2 DEF shouldProbe
    <3>3. ~circuit[n].halfOpenInFlight
      BY <1>1, <1>a DEF TickStart, LogShape, TickShape, Deciding
    <3>4. LogShape(Probing(FALSE), d.state.halfOpenInFlight, lastEvent[n])
      BY <3>2, <3>3 DEF LogShape, TickShape, Probing, Idle
    <3> HIDE DEF d
    <3> QED
      BY <1>0, <2>0, <3>1, <3>4, LogUpdate
  <2> QED
    BY <2>1, <2>2
<1>2. ASSUME NEW n \in Node, ProbeSucceeds(n, "loop") PROVE LogInv'
  <2> DEFINE r == onSuccess(circuit[n])
             t == Persisting("ok", r.state, r.transition, tick[n]["loop"].half)
  <2>1. /\ SetTick(n, "loop", t) /\ circuit' = [circuit EXCEPT ![n] = r.state]
        /\ lastEvent' = [lastEvent EXCEPT ![n] = lastEvent[n]]
    BY <1>2, <1>a DEF ProbeSucceeds
  <2>2. r.transition = "circuit_closed" => circuit[n].halfOpenInFlight
    BY <1>a DEF onSuccess, IsHalfOpen
  <2>3. r.transition = "circuit_closed" => lastEvent[n] = "circuit_half_opened"
    BY <1>2, <1>a, <2>2 DEF ProbeSucceeds, LogShape, Deciding
  <2>4. ~r.state.halfOpenInFlight
    BY DEF onSuccess, initialCircuitState
  <2>5. LogShape(t, r.state.halfOpenInFlight, lastEvent[n])
    BY <2>3, <2>4 DEF LogShape, TickShape, Persisting
  <2> HIDE DEF r, t
  <2> QED
    BY <1>0, <2>1, <2>5, LogUpdate
<1>3. ASSUME NEW n \in Node, ProbeFails(n, "loop") PROVE LogInv'
  BY <1>0, <1>3, LogCatch DEF ProbeFails
<1>4. ASSUME NEW n \in Node, Upsert(n, "loop") \/ LogEvent(n, "loop") PROVE LogInv'
  <2> DEFINE o == tick[n]["loop"]
             e == lastEvent'[n]
  <2>1. /\ circuit' = [circuit EXCEPT ![n] = circuit[n]]
        /\ lastEvent' = [lastEvent EXCEPT ![n] = e]
        /\ e = IF o.pc = "logging" THEN o.event ELSE lastEvent[n]
    BY <1>4, <1>a DEF Upsert, LogEvent, CircuitInv, TypeOK, LogInv
  <2>2. o \in Tick /\ LogShape(o, circuit[n].halfOpenInFlight, lastEvent[n])
    BY <1>a
  <2>3. \/ /\ o.pc = "upserting" /\ o.event # "none"
           /\ SetTick(n, "loop", [o EXCEPT !.pc = "logging"])
        \/ /\ o.pc = "logging" \/ (o.pc = "upserting" /\ o.event = "none")
           /\ SetTick(n, "loop", AfterPersist(o))
    <3>1. CASE LogEvent(n, "loop")
      BY <3>1 DEF LogEvent
    <3>2. CASE Upsert(n, "loop") /\ o.event = "none"
      BY <3>2 DEF Upsert
    <3>3. CASE Upsert(n, "loop") /\ o.event # "none"
      BY <3>3 DEF Upsert
    <3> HIDE DEF o, e
    <3> QED
      BY <1>4, <3>1, <3>2, <3>3
  <2>4. CASE SetTick(n, "loop", [o EXCEPT !.pc = "logging"]) /\ o.pc = "upserting"
    <3> DEFINE t == [o EXCEPT !.pc = "logging"]
    <3>1. /\ t.pc = "logging" /\ t.stage = o.stage /\ t.half = o.half
          /\ t.event = o.event
      <4> HIDE DEF o
      <4> QED
        BY <2>2 DEF Tick
    <3>2. LogShape(t, circuit[n].halfOpenInFlight, e)
      BY <2>1, <2>2, <2>4, <3>1 DEF LogShape, TickShape, Deciding
    <3> HIDE DEF o, e
    <3> QED
      BY <1>0, <2>1, <2>4, <3>2, LogUpdate DEF t
  <2>5. CASE /\ SetTick(n, "loop", AfterPersist(o))
             /\ o.pc = "logging" \/ (o.pc = "upserting" /\ o.event = "none")
    <3> DEFINE t == AfterPersist(o)
    <3>1. ASSUME o.stage = "half" PROVE LogShape(t, circuit[n].halfOpenInFlight, e)
      <4>1. o.pc = "logging" /\ e = "circuit_half_opened"
        BY <2>1, <2>2, <2>5, <3>1 DEF LogShape
      <4>2. t = Probing(TRUE)
        BY <3>1 DEF AfterPersist
      <4> HIDE DEF o, e, t
      <4> QED
        BY <4>1, <4>2 DEF LogShape, TickShape, Deciding, Probing, Idle
    <3>2. ASSUME o.stage # "half" PROVE LogShape(t, circuit[n].halfOpenInFlight, e)
      <4>1. t = Idle
        BY <3>2 DEF AfterPersist
      <4>2. ~circuit[n].halfOpenInFlight
        BY <2>2, <2>5, <3>2 DEF LogShape, TickShape, Deciding
      <4> HIDE DEF o, e, t
      <4> QED
        BY <4>1, <4>2 DEF LogShape, TickShape, Deciding, Idle
    <3>3. LogShape(t, circuit[n].halfOpenInFlight, e)
      BY <3>1, <3>2
    <3> HIDE DEF o, e, t
    <3> QED
      BY <1>0, <2>1, <2>5, <3>3, LogUpdate DEF t
  <2> QED
    BY <2>3, <2>4, <2>5
<1>5. ASSUME NEW n \in Node, DbFails(n, "loop") PROVE LogInv'
  <2>1. CASE tick[n]["loop"].stage = "ok"
    BY <1>0, <1>5, <2>1, LogCatch DEF DbFails
  <2>2. CASE tick[n]["loop"].stage # "ok"
    <3> DEFINE t == [Idle EXCEPT !.pc = "dead"]
    <3>1. /\ SetTick(n, "loop", t) /\ circuit' = [circuit EXCEPT ![n] = circuit[n]]
          /\ lastEvent' = [lastEvent EXCEPT ![n] = lastEvent[n]]
      BY <1>5, <1>a, <2>2 DEF DbFails
    <3>2. LogShape(t, circuit[n].halfOpenInFlight, lastEvent[n])
      BY DEF LogShape, TickShape, Idle
    <3> HIDE DEF t
    <3> QED
      BY <1>0, <3>1, <3>2, LogUpdate
  <2> QED
    BY <2>1, <2>2
<1>6. ASSUME UNCHANGED <<tick, lastEvent>>,
             \A n \in Node : circuit'[n].halfOpenInFlight => circuit[n].halfOpenInFlight
      PROVE  LogInv'
  BY <1>0, <1>6 DEF LogInv, LogShape
<1>7. ASSUME NEW n \in Node, ReportFailure(n), UNCHANGED <<tick, lastEvent>> PROVE LogInv'
  <2>1. \A m \in Node : circuit'[m].halfOpenInFlight => circuit[m].halfOpenInFlight
    BY <1>0, <1>7, FailureClearsFlag DEF ReportFailure, CircuitInv, TypeOK
  <2> QED
    BY <1>6, <1>7, <2>1
<1>8. ASSUME NEW c \in Call, CallFails(c) PROVE LogInv'
  <2>1. call[c] \in Node
    BY <1>0, <1>8 DEF CallFails, CircuitInv, TypeOK
  <2> QED
    BY <1>7, <1>8, <2>1 DEF CallFails
<1>9. ASSUME TimePasses PROVE LogInv'
  <2>1. \A m \in Node : circuit'[m].halfOpenInFlight = circuit[m].halfOpenInFlight
    BY <1>9, <1>a DEF TimePasses, Elapse, CircuitState
  <2> QED
    BY <1>6, <1>9, <2>1 DEF TimePasses
<1>10. ASSUME Restart \/ \E n \in Node : RejectionEnds(n) PROVE LogInv'
  <2>1. \A n \in Node : tick'[n]["loop"] = Idle /\ circuit'[n] = initialCircuitState
    BY <1>10 DEF Restart, RejectionEnds, Reboot, Slot
  <2> QED
    BY <1>0, <2>1 DEF LogInv, LogShape, TickShape, Idle, initialCircuitState
<1>11. ASSUME UNCHANGED <<circuit, tick, lastEvent>> PROVE LogInv'
  BY <1>6, <1>11
<1> QED
  BY <1>1, <1>2, <1>3, <1>4, <1>5, <1>7, <1>8, <1>9, <1>10, <1>11
  DEF Next, TickStep, Slot, CallStart, CallWithoutQuote, CallEnds, QuoteExpires, NodeFlips,
      vars

\* Initially nothing was logged.
LEMMA InitLogInv == Init => LogInv
<1>1. Init => \A n \in Node : /\ tick[n]["loop"] = Idle
                             /\ circuit[n] = initialCircuitState
  BY DEF Init, Slot
<1> QED
  BY <1>1, InitCircuitInv DEF LogInv, LogShape, TickShape, Idle, initialCircuitState

\* When the ticks of a node do not overlap, no interleaving with dispatcher
\* reports, rejected writes and restarts makes the event log show a closing
\* that does not directly follow its half-opening.
THEOREM ClosingsFollowHalfOpenings ==
  ASSUME Manual = {}
  PROVE  Spec => ClosedFollowsHalfOpen
<1> DEFINE Follows ==
      \A n \in Node :
         lastEvent[n] # "circuit_closed" /\ lastEvent'[n] = "circuit_closed"
         => lastEvent[n] = "circuit_half_opened"
<1>1. LogInv /\ [Next]_vars => LogInv'
  BY NextLogInv
<1>2. LogInv /\ [Next]_vars => [Follows]_vars
  <2>1. SUFFICES ASSUME LogInv, Next, NEW n \in Node, lastEvent[n] # "circuit_closed",
                        lastEvent'[n] = "circuit_closed"
                 PROVE  lastEvent[n] = "circuit_half_opened"
    BY DEF vars
  <2>2. lastEvent' # lastEvent
    BY <2>1
  <2>3. PICK m \in Node : LogEvent(m, "loop")
    BY <2>1, <2>2 DEF Next, TickStep, Slot, TickStart, ProbeSucceeds, ProbeFails, Upsert,
          DbFails, CallStart, CallWithoutQuote, CallFails, CallEnds, TimePasses,
          QuoteExpires, NodeFlips, Restart, RejectionEnds, Reboot
  <2>4. lastEvent \in [Node -> Transition]
    BY <2>1 DEF LogInv, CircuitInv, TypeOK
  <2>5. m = n /\ tick[n]["loop"].event = "circuit_closed"
    BY <2>1, <2>3, <2>4 DEF LogEvent
  <2> QED
    BY <2>1, <2>5 DEF LogInv, LogShape
<1> QED
  BY <1>1, <1>2, InitLogInv, PTL DEF Spec, ClosedFollowsHalfOpen

----------------------------------------------------------------------------
(* A node that only its refresh loop probes and reports on: no dispatcher  *)
(* reports a failure (Call = {}) and no ticks overlap (Manual = {}).        *)

\* How a node's tick t and its circuit s belong together: the tick that set
\* the half-open flag still has it, any other probe was let through because
\* the circuit was not broken, and a tick that persists a success finds the
\* node healthy.
LoopShape(t, s) ==
    /\ TickShape(t)
    /\ Deciding(t) => s.halfOpenInFlight
    /\ t.stage = "half" => t.half
    /\ t.pc = "probing" /\ ~t.half => s.status # "circuit_broken"
    /\ t.stage = "ok" => s.status = "healthy"

\* The events that leave a circuit broken.
StaysBroken == {"circuit_opened", "circuit_half_opened"}

\* While every write succeeds, what a tick still has to write about a broken
\* circuit, and what the table and the log already say of it.
RecordShape(t, s, r, last) ==
    /\ t.pc # "dead"
    /\ t.stage = "half" => t.row = "circuit_broken" /\ t.event = "circuit_half_opened"
    /\ t.stage = "failed" /\ s.status = "circuit_broken" =>
          /\ t.row = "circuit_broken"
          /\ t.event = "circuit_opened" \/ (t.event = "none" /\ last \in StaysBroken)
    /\ t.pc = "logging" => r = t.row /\ t.event # "none"
    /\ t.pc \in {"idle", "probing"} /\ s.status = "circuit_broken" =>
          r = "circuit_broken" /\ last \in StaysBroken

LoopInv ==
    /\ CircuitInv
    /\ \A n \in Node :
          /\ LoopShape(tick[n]["loop"], circuit[n])
          /\ faults = 0 => RecordShape(tick[n]["loop"], circuit[n], row[n], lastEvent[n])

\* A step of node n's tick, its circuit, its row and its newest event.
LEMMA LoopUpdate ==
  ASSUME LoopInv, CircuitInv', faults' = 0 => faults = 0,
         NEW n \in Node, NEW t, SetTick(n, "loop", t),
         NEW s, circuit' = [circuit EXCEPT ![n] = s],
         NEW r, row' = [row EXCEPT ![n] = r],
         NEW e, lastEvent' = [lastEvent EXCEPT ![n] = e],
         LoopShape(t, s), faults' = 0 => RecordShape(t, s, r, e)
  PROVE  LoopInv'
<1>1. \A m \in Node :
         /\ tick'[m]["loop"] = IF m = n THEN t ELSE tick[m]["loop"]
         /\ circuit'[m] = IF m = n THEN s ELSE circuit[m]
         /\ row'[m] = IF m = n THEN r ELSE row[m]
         /\ lastEvent'[m] = IF m = n THEN e ELSE lastEvent[m]
  BY DEF LoopInv, CircuitInv, TypeOK, SetTick, Slot
<1>2. ASSUME NEW m \in Node
      PROVE  /\ LoopShape(tick'[m]["loop"], circuit'[m])
             /\ faults' = 0 => RecordShape(tick'[m]["loop"], circuit'[m], row'[m], lastEvent'[m])
  <2>1. CASE m = n
    BY <1>1, <2>1
  <2>2. CASE m # n
    BY <1>1, <2>2 DEF LoopInv
  <2> QED
    BY <2>1, <2>2
<1> QED
  BY <1>2 DEF LoopInv

\* What a failed probe leaves behind: a circuit that is half open stays broken
\* without an event, any other is broken only by an opening.
LEMMA FailureOutcome ==
  ASSUME NEW s
  PROVE  LET r == onFailure(s)
         IN  r.state.status = "circuit_broken" =>
                 r.transition = "circuit_opened" \/ (r.transition = "none" /\ IsHalfOpen(s))
  BY DEF onFailure, Reopened, Opened, Degraded, Failed

\* The catch block of tickNode, entered from a failed probe or from a failed
\* write of a success.
LEMMA LoopCatch ==
  ASSUME LoopInv, CircuitInv', faults' = 0 => faults = 0,
         NEW n \in Node, TickCatches(n, "loop"), UNCHANGED <<row, lastEvent>>,
         tick[n]["loop"].pc = "probing" \/ faults' # 0
  PROVE  LoopInv'
<1> DEFINE s == circuit[n]
           r == onFailure(s)
           o == tick[n]["loop"]
           t == Persisting("failed", r.state, r.transition, o.half)
<1>1. SetTick(n, "loop", t) /\ circuit' = [circuit EXCEPT ![n] = r.state]
  BY DEF TickCatches
<1>2. row' = [row EXCEPT ![n] = row[n]] /\ lastEvent' = [lastEvent EXCEPT ![n] = lastEvent[n]]
  BY DEF LoopInv, CircuitInv, TypeOK
<1>3. /\ t.pc = "upserting" /\ t.stage = "failed" /\ t.row = r.state.status
      /\ t.event = r.transition
  BY DEF Persisting
<1>4. LoopShape(t, r.state)
  BY <1>3 DEF LoopShape, TickShape, Deciding
<1>5. ASSUME faults' = 0 PROVE RecordShape(t, r.state, row[n], lastEvent[n])
  <2>1. IsHalfOpen(s) => lastEvent[n] \in StaysBroken
    BY <1>5 DEF LoopInv, RecordShape, IsHalfOpen
  <2> HIDE DEF r, t
  <2> QED
    BY <1>3, <2>1, FailureOutcome DEF RecordShape, r
<1> HIDE DEF r, t
<1> QED
  BY <1>1, <1>2, <1>4, <1>5, LoopUpdate

\* Every step of the refresh loop and of the environment keeps LoopInv.
LEMMA NextLoopInv ==
  ASSUME Manual = {}, Call = {}, LoopInv, [Next]_vars
  PROVE  LoopInv'
<1>0. CircuitInv' /\ CircuitInv
  BY NextCircuitInv DEF LoopInv
<1>a. \A n \in Node :
         /\ circuit = [circuit EXCEPT ![n] = circuit[n]]
         /\ row = [row EXCEPT ![n] = row[n]]
         /\ lastEvent = [lastEvent EXCEPT ![n] = lastEvent[n]]
         /\ circuit[n] \in CircuitState /\ tick[n]["loop"] \in Tick
         /\ Sound(circuit[n])
         /\ LoopShape(tick[n]["loop"], circuit[n])
         /\ faults = 0 => RecordShape(tick[n]["loop"], circuit[n], row[n], lastEvent[n])
  BY CircuitInvSound DEF LoopInv, CircuitInv, TypeOK, Slot
<1>1. ASSUME NEW n \in Node, TickStart(n, "loop") PROVE LoopInv'
  <2> DEFINE s == circuit[n]
             d == shouldProbe(s)
  <2>0. /\ circuit' = [circuit EXCEPT ![n] = d.state]
        /\ row' = [row EXCEPT ![n] = row[n]]
        /\ lastEvent' = [lastEvent EXCEPT ![n] = lastEvent[n]]
        /\ faults' = faults /\ d.probe /\ tick[n]["loop"].pc = "idle"
    BY <1>1, <1>a DEF TickStart
  <2>1. CASE d.transition = "circuit_half_opened"
    <3> DEFINE t == Persisting("half", d.state, d.transition, TRUE)
    <3>1. SetTick(n, "loop", t)
      BY <1>1, <2>1 DEF TickStart
    <3>2. d.state.status = "circuit_broken" /\ d.state.halfOpenInFlight
      <4>1. s.status = "circuit_broken" /\ d.state = [s EXCEPT !.halfOpenInFlight = TRUE]
        BY <2>1 DEF shouldProbe
      <4>2. s \in CircuitState
        BY <1>a
      <4> HIDE DEF d, s
      <4> QED
        BY <4>1, <4>2 DEF CircuitState
    <3>3. /\ t.pc = "upserting" /\ t.stage = "half" /\ t.row = d.state.status
          /\ t.event = d.transition /\ t.half
      BY DEF Persisting
    <3> HIDE DEF d, t, s
    <3>4. LoopShape(t, d.state)
      BY <3>2, <3>3 DEF LoopShape, TickShape, Deciding
    <3>5. RecordShape(t, d.state, row[n], lastEvent[n])
      BY <2>1, <3>2, <3>3 DEF RecordShape
    <3> QED
      BY <1>0, <2>0, <3>1, <3>4, <3>5, LoopUpdate
  <2>2. CASE d.transition # "circuit_half_opened"
    <3>1. SetTick(n, "loop", Probing(FALSE))
      BY <1>1, <2>2 DEF TickStart
    <3>2. d.state = s /\ s.status # "circuit_broken"
      <4>1. s.status # "circuit_broken" \/ s.sinceOpened = NotOpened
        BY <2>0, <2>2 DEF shouldProbe
      <4>2. s.status = "circuit_broken" => s.sinceOpened # NotOpened
        BY <1>a DEF Sound, Consistent
      <4> QED
        BY <2>2, <4>1, <4>2 DEF shouldProbe
    <3>3. LoopShape(Probing(FALSE), s) /\ RecordShape(Probing(FALSE), s, row[n], lastEvent[n])
      <4> HIDE DEF d, s
      <4> QED
        BY <3>2 DEF LoopShape, RecordShape, TickShape, Deciding, Probing, Idle
    <3> HIDE DEF d, s
    <3> QED
      BY <1>0, <2>0, <3>1, <3>2, <3>3, LoopUpdate
  <2> QED
    BY <2>1, <2>2
<1>2. ASSUME NEW n \in Node, ProbeSucceeds(n, "loop") PROVE LoopInv'
  <2> DEFINE r == onSuccess(circuit[n])
             t == Persisting("ok", r.state, r.transition, tick[n]["loop"].half)
  <2>1. /\ SetTick(n, "loop", t) /\ circuit' = [circuit EXCEPT ![n] = r.state]
        /\ row' = [row EXCEPT ![n] = row[n]]
        /\ lastEvent' = [lastEvent EXCEPT ![n] = lastEvent[n]]
        /\ faults' = faults
    BY <1>2, <1>a DEF ProbeSucceeds
  <2>2. r.state.status = "healthy"
    BY SuccessSound
  <2>3. t.pc = "upserting" /\ t.stage = "ok"
    BY DEF Persisting
  <2> HIDE DEF r, t
  <2>4. LoopShape(t, r.state) /\ RecordShape(t, r.state, row[n], lastEvent[n])
    BY <2>2, <2>3 DEF LoopShape, RecordShape, TickShape, Deciding
  <2> QED
    BY <1>0, <2>1, <2>4, LoopUpdate
<1>3. ASSUME NEW n \in Node, ProbeFails(n, "loop") PROVE LoopInv'
  BY <1>0, <1>3, LoopCatch DEF ProbeFails
<1>4. ASSUME NEW n \in Node, Upsert(n, "loop") \/ LogEvent(n, "loop") PROVE LoopInv'
  <2> DEFINE o == tick[n]["loop"]
             s == circuit[n]
             r == row'[n]
             e == lastEvent'[n]
  <2>1. /\ circuit' = [circuit EXCEPT ![n] = s]
        /\ row' = [row EXCEPT ![n] = r]
        /\ lastEvent' = [lastEvent EXCEPT ![n] = e]
        /\ faults' = faults
        /\ r = IF o.pc = "upserting" THEN o.row ELSE row[n]
        /\ e = IF o.pc = "logging" THEN o.event ELSE lastEvent[n]
    BY <1>4, <1>a DEF Upsert, LogEvent, CircuitInv, TypeOK, LoopInv
  <2>2. /\ o \in Tick /\ LoopShape(o, s)
        /\ faults = 0 => RecordShape(o, s, row[n], lastEvent[n])
    BY <1>a
  <2>3. \/ /\ o.pc = "upserting" /\ o.event # "none"
           /\ SetTick(n, "loop", [o EXCEPT !.pc = "logging"])
        \/ /\ o.pc = "logging" \/ (o.pc = "upserting" /\ o.event = "none")
           /\ SetTick(n, "loop", AfterPersist(o))
    <3>1. CASE LogEvent(n, "loop")
      BY <3>1 DEF LogEvent
    <3>2. CASE Upsert(n, "loop") /\ o.event = "none"
      BY <3>2 DEF Upsert
    <3>3. CASE Upsert(n, "loop") /\ o.event # "none"
      BY <3>3 DEF Upsert
    <3> HIDE DEF o, e, r, s
    <3> QED
      BY <1>4, <3>1, <3>2, <3>3
  <2>4. CASE /\ SetTick(n, "loop", [o EXCEPT !.pc = "logging"])
             /\ o.pc = "upserting" /\ o.event # "none"
    <3> DEFINE t == [o EXCEPT !.pc = "logging"]
    <3>1. /\ t.pc = "logging" /\ t.stage = o.stage /\ t.half = o.half
          /\ t.event = o.event /\ t.row = o.row
      <4> HIDE DEF o
      <4> QED
        BY <2>2 DEF Tick
    <3> HIDE DEF o, e, r, s, t
    <3>2. LoopShape(t, s)
      BY <2>2, <2>4, <3>1 DEF LoopShape, TickShape, Deciding
    <3>3. faults' = 0 => RecordShape(t, s, r, e)
      BY <2>1, <2>2, <2>4, <3>1 DEF RecordShape
    <3> QED
      BY <1>0, <2>1, <2>4, <3>2, <3>3, LoopUpdate DEF t
  <2>5. CASE /\ SetTick(n, "loop", AfterPersist(o))
             /\ o.pc = "logging" \/ (o.pc = "upserting" /\ o.event = "none")
    <3> DEFINE t == AfterPersist(o)
    <3>0. t = IF o.stage = "half" THEN Probing(TRUE) ELSE Idle
      BY DEF AfterPersist
    <3>1. LoopShape(t, s)
      <4> HIDE DEF o, s, t
      <4>1. CASE o.stage = "half"
        <5>1. s.halfOpenInFlight \/ ~o.half
          BY <2>2, <4>1 DEF LoopShape, Deciding
        <5>2. o.half
          BY <2>2, <4>1 DEF LoopShape
        <5> QED
          BY <3>0, <4>1, <5>1, <5>2 DEF LoopShape, TickShape, Deciding, Probing, Idle
      <4>2. CASE o.stage # "half"
        BY <3>0, <4>2 DEF LoopShape, TickShape, Deciding, Idle
      <4> QED
        BY <4>1, <4>2
    <3>2. ASSUME faults' = 0 PROVE RecordShape(t, s, r, e)
      <4>1. RecordShape(o, s, row[n], lastEvent[n]) /\ LoopShape(o, s)
        BY <2>1, <2>2, <3>2
      <4> HIDE DEF o, s, t, r, e
      <4>2. t.stage = "none" /\ t.pc \in {"idle", "probing"}
        BY <3>0 DEF Probing, Idle
      <4>3. ASSUME s.status = "circuit_broken" PROVE r = "circuit_broken" /\ e \in StaysBroken
        <5>1. o.stage # "ok" /\ o.stage \in {"half", "ok", "failed"}
          BY <2>2, <2>5, <4>1, <4>3 DEF LoopShape, TickShape, Tick
        <5> QED
          BY <2>1, <2>5, <4>1, <4>3, <5>1 DEF RecordShape, StaysBroken
      <4> QED
        BY <4>2, <4>3 DEF RecordShape
    <3> HIDE DEF o, e, r, s, t
    <3> QED
      BY <1>0, <2>1, <2>5, <3>1, <3>2, LoopUpdate DEF t
  <2> QED
    BY <2>3, <2>4, <2>5
<1>5. ASSUME NEW n \in Node, DbFails(n, "loop") PROVE LoopInv'
  <2>0. faults' # 0
    BY <1>0, <1>5, HealthAssumption DEF DbFails, CircuitInv, TypeOK
  <2>1. CASE tick[n]["loop"].stage = "ok"
    BY <1>0, <1>5, <2>0, <2>1, LoopCatch DEF DbFails
  <2>2. CASE tick[n]["loop"].stage # "ok"
    <3> DEFINE t == [Idle EXCEPT !.pc = "dead"]
    <3>1. /\ SetTick(n, "loop", t) /\ circuit' = [circuit EXCEPT ![n] = circuit[n]]
          /\ row' = [row EXCEPT ![n] = row[n]]
          /\ lastEvent' = [lastEvent EXCEPT ![n] = lastEvent[n]]
      BY <1>5, <1>a, <2>2 DEF DbFails
    <3>2. LoopShape(t, circuit[n])
      BY DEF LoopShape, TickShape, Deciding, Idle
    <3> HIDE DEF t
    <3> QED
      BY <1>0, <2>0, <3>1, <3>2, LoopUpdate
  <2> QED
    BY <2>1, <2>2
<1>6. ASSUME UNCHANGED <<tick, row, lastEvent, faults>>,
             \A n \in Node : /\ circuit'[n].halfOpenInFlight = circuit[n].halfOpenInFlight
                             /\ circuit'[n].status = circuit[n].status
      PROVE  LoopInv'
  BY <1>0, <1>6 DEF LoopInv, LoopShape, RecordShape
<1>7. ASSUME TimePasses PROVE LoopInv'
  <2>1. \A m \in Node : /\ circuit'[m].halfOpenInFlight = circuit[m].halfOpenInFlight
                        /\ circuit'[m].status = circuit[m].status
    BY <1>7, <1>a DEF TimePasses, Elapse, CircuitState
  <2> QED
    BY <1>6, <1>7, <2>1 DEF TimePasses
<1>8. ASSUME Restart \/ \E n \in Node : RejectionEnds(n) PROVE LoopInv'
  <2>1. \A n \in Node : tick'[n]["loop"] = Idle /\ circuit'[n] = initialCircuitState
    BY <1>8 DEF Restart, RejectionEnds, Reboot, Slot
  <2>2. /\ LoopShape(Idle, initialCircuitState)
        /\ \A r, e : RecordShape(Idle, initialCircuitState, r, e)
    BY DEF LoopShape, RecordShape, TickShape, Deciding, Idle, initialCircuitState
  <2> QED
    BY <1>0, <2>1, <2>2 DEF LoopInv
<1>9. ASSUME UNCHANGED <<circuit, tick, row, lastEvent, faults>> PROVE LoopInv'
  BY <1>6, <1>9
<1> QED
  BY <1>1, <1>2, <1>3, <1>4, <1>5, <1>7, <1>8, <1>9
  DEF Next, TickStep, Slot, QuoteExpires, NodeFlips, vars

\* At the start every circuit is healthy and no tick is under way.
LEMMA InitLoopInv == Init => LoopInv
<1>1. Init => \A n \in Node : tick[n]["loop"] = Idle /\ circuit[n] = initialCircuitState
  BY DEF Init, Slot
<1>2. /\ LoopShape(Idle, initialCircuitState)
      /\ \A r, e : RecordShape(Idle, initialCircuitState, r, e)
  BY DEF LoopShape, RecordShape, TickShape, Deciding, Idle, initialCircuitState
<1> QED
  BY <1>1, <1>2, InitCircuitInv DEF LoopInv

\* While the database takes every write, a broken circuit is on record
\* whenever its loop is at rest.
THEOREM BrokenAlwaysOnRecord ==
  ASSUME Manual = {}, Call = {}
  PROVE  Spec => []BrokenIsOnRecord
<1>1. LoopInv /\ [Next]_vars => LoopInv'
  BY NextLoopInv
<1>2. LoopInv => BrokenIsOnRecord
  <2> SUFFICES ASSUME LoopInv, NEW n \in Node, faults = 0,
                      circuit[n].status = "circuit_broken", ~InFlight(n)
               PROVE  /\ lastEvent[n] \in StaysBroken
                      /\ row[n] = "circuit_broken"
    BY DEF BrokenIsOnRecord, StaysBroken
  <2>1. RecordShape(tick[n]["loop"], circuit[n], row[n], lastEvent[n])
    BY DEF LoopInv
  <2>2. tick[n]["loop"].pc = "idle"
    BY <2>1 DEF RecordShape, InFlight, Slot, LoopInv, CircuitInv, TypeOK, Tick
  <2> QED
    BY <2>1, <2>2 DEF RecordShape
<1> QED
  BY <1>1, <1>2, InitLoopInv, PTL DEF Spec

\* A node that only its loop reports on is never routed to again before its
\* cool-down is over, a probe of it succeeded, or the process restarted: not
\* even when the writes of its ticks fail.
THEOREM CoolDownsHold ==
  ASSUME Manual = {}, Call = {}
  PROVE  Spec => CoolDownHolds
<1> DEFINE Held ==
      \A n \in Node : Excluded(circuit[n]) /\ boots' = boots =>
          \/ Excluded(circuit'[n])
          \/ Cooled(circuit'[n])
          \/ circuit'[n].status = "healthy"
<1>1. LoopInv /\ [Next]_vars => LoopInv'
  BY NextLoopInv
<1>2. LoopInv /\ [Next]_vars => [Held]_vars
  <2>1. SUFFICES ASSUME LoopInv, Next, NEW n \in Node, Excluded(circuit[n]), boots' = boots
                 PROVE  \/ Excluded(circuit'[n])
                        \/ Cooled(circuit'[n])
                        \/ circuit'[n].status = "healthy"
    BY DEF vars
  <2>2. /\ circuit \in [Node -> CircuitState] /\ boots \in Nat
        /\ LoopShape(tick[n]["loop"], circuit[n]) /\ Sound(circuit[n])
    BY <2>1, CircuitInvSound DEF LoopInv, CircuitInv, TypeOK
  <2>3. ~circuit[n].halfOpenInFlight /\ circuit[n].status = "circuit_broken"
    BY <2>1, <2>2 DEF Sound, Consistent, Excluded
  <2>4. ASSUME NEW m \in Node, TickStart(m, "loop") PROVE circuit'[n] = circuit[n]
    <3>1. CASE m = n
      BY <2>1, <2>4, <3>1 DEF TickStart, shouldProbe, Excluded
    <3>2. CASE m # n
      BY <2>2, <2>4, <3>2 DEF TickStart
    <3> QED
      BY <3>1, <3>2
  <2>5. ASSUME NEW m \in Node, ProbeSucceeds(m, "loop")
        PROVE  circuit'[n] = circuit[n] \/ circuit'[n].status = "healthy"
    <3>1. circuit'[n] = IF m = n THEN onSuccess(circuit[n]).state ELSE circuit[n]
      BY <2>2, <2>5 DEF ProbeSucceeds
    <3> QED
      BY <3>1, SuccessSound
  <2>6. ASSUME NEW m \in Node, ProbeFails(m, "loop") \/ DbFails(m, "loop")
        PROVE  circuit'[n] = circuit[n]
    <3>1. tick[n]["loop"].pc # "probing" /\ tick[n]["loop"].stage # "ok"
      <4>1. tick[n]["loop"].stage # "ok"
        BY <2>2, <2>3 DEF LoopShape
      <4>2. tick[n]["loop"].pc = "probing" => Deciding(tick[n]["loop"])
        BY <2>2, <2>3 DEF LoopShape, TickShape, Deciding
      <4> QED
        BY <2>2, <2>3, <4>1, <4>2 DEF LoopShape
    <3>2. CASE m = n
      BY <2>6, <3>1, <3>2 DEF ProbeFails, DbFails
    <3>3. CASE m # n
      BY <2>2, <2>6, <3>3 DEF ProbeFails, DbFails, TickCatches
    <3> QED
      BY <3>2, <3>3
  <2>7. ASSUME TimePasses
        PROVE  Excluded(circuit'[n]) \/ Cooled(circuit'[n])
    <3> DEFINE s == circuit[n]
    <3>1. circuit'[n] = [s EXCEPT !.sinceOpened = @ + 1]
      BY <2>1, <2>7 DEF TimePasses, Elapse, Excluded
    <3>2. s \in CircuitState /\ s.sinceOpened \in Nat /\ s.status = "circuit_broken"
      <4>1. s \in CircuitState /\ s.sinceOpened \in NotOpened .. CoolDown
        BY <2>2 DEF CircuitState
      <4> QED
        BY <2>1, <4>1, BreakerAssumption DEF Excluded, NotOpened
    <3>3. circuit'[n].status = "circuit_broken" /\ circuit'[n].sinceOpened = s.sinceOpened + 1
      <4> HIDE DEF s
      <4> QED
        BY <3>1, <3>2 DEF CircuitState
    <3> HIDE DEF s
    <3> QED
      BY <3>2, <3>3 DEF Excluded, NotOpened
  <2>8. ~Restart /\ ~\E m \in Node : RejectionEnds(m)
    BY <2>1, <2>2 DEF Restart, RejectionEnds, Reboot
  <2>9. CASE circuit' = circuit
    BY <2>1, <2>9
  <2> QED
    BY <2>1, <2>4, <2>5, <2>6, <2>7, <2>8, <2>9
    DEF Next, TickStep, Slot, Upsert, LogEvent, QuoteExpires, NodeFlips
<1> QED
  BY <1>1, <1>2, InitLoopInv, PTL DEF Spec, CoolDownHolds
=============================================================================
