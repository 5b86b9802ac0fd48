--------------------------- MODULE StreamingProofs ---------------------------
(***************************************************************************)
(* Safety of StreamingDispatch for every set of requests and nodes, every  *)
(* balance and every set of faults.                                        *)
(*                                                                         *)
(* The invariant joins the soundness of the circuits, which the policy     *)
(* lemmas of CircuitBreakerProofs carry through every report, with Path:   *)
(* where a request is suspended determines the state of its reservation    *)
(* and what the client may have been told.                                 *)
(***************************************************************************)
EXTENDS StreamingDispatch, CircuitBreakerProofs

Holding(r) == ledger[r] = IF r \in Postpaid THEN "none" ELSE "open"

Charged(r) == ledger[r] = IF r \in Postpaid THEN "none" ELSE "committed"

PathNew(r) ==
    pc[r] = "new" =>
        ledger[r] = "none" /\ ~started[r] /\ reply[r] = "pending" /\ ~recorded[r]

PathSearching(r) ==
    pc[r] \in {"select", "attempt", "refund"} =>
        /\ Holding(r) /\ ~started[r] /\ reply[r] = "pending" /\ ~recorded[r]
        /\ attempt[r] \in 1 .. MAX_RETRY_ATTEMPTS
        /\ pc[r] = "attempt" => node[r] \in Node

PathStreaming(r) ==
    pc[r] \in {"stream", "settle"} =>
        Holding(r) /\ started[r] /\ reply[r] = "pending" /\ ~recorded[r]

PathRecord(r) ==
    pc[r] = "record" =>
        Charged(r) /\ Billable(r) /\ started[r] /\ reply[r] = "pending" /\ ~recorded[r]

PathDone(r) ==
    pc[r] = "done" =>
        /\ reply[r] # "pending"
        /\ recorded[r] => Charged(r)
        /\ started[r] /\ r \in Reliable =>
              \/ Torn(r)
              \/ Billable(r) /\ Charged(r)
              \/ ~Billable(r) /\ ledger[r] = IF r \in Postpaid THEN "none" ELSE "refunded"

PathLost(r) == pc[r] = "lost" => reply[r] = "pending" /\ ~recorded[r]

Path(r) ==
    /\ PathNew(r) /\ PathSearching(r) /\ PathStreaming(r)
    /\ PathRecord(r) /\ PathDone(r) /\ PathLost(r)

CircuitsSound == \A n \in Node : Sound(circuit[n])

Inv == TypeOK /\ CircuitsSound /\ \A r \in Request : Path(r)

\* The wallet's operations keep its state well typed; the balance stays a
\* natural number because reserve checks it.
LEMMA WalletTypes ==
  ASSUME WalletTypeOK, NEW r \in Request, NEW c \in Nat,
         WalletReserve(r, c) \/ WalletCommit(r, c) \/ WalletRefund(r) \/ UNCHANGED walletVars
  PROVE  WalletTypeOK'
<1>1. CASE WalletReserve(r, c)
  BY <1>1 DEF WalletReserve, Covers, WalletTypeOK, LedgerState
<1>2. CASE UNCHANGED walletVars
  BY <1>2 DEF walletVars, WalletTypeOK
<1>3. CASE WalletCommit(r, c)
  BY <1>2, <1>3 DEF WalletCommit, WalletTypeOK, LedgerState
<1>4. CASE WalletRefund(r)
  BY <1>2, <1>4 DEF WalletRefund, WalletTypeOK, LedgerState
<1> QED
  BY <1>1, <1>2, <1>3, <1>4

\* The first state satisfies the invariant.
LEMMA InitInv == Init => Inv
<1> SUFFICES ASSUME Init PROVE Inv
  OBVIOUS
<1>1. initialCircuitState \in CircuitState /\ Sound(initialCircuitState)
  BY InitialSound DEF Sound
<1>2. WalletTypeOK
  BY WalletAssumption DEF WalletAssumption, Init, WalletInit, WalletTypeOK, LedgerState
<1>3. TypeOK
  BY <1>1, <1>2 DEF Init, TypeOK, PC, Reply, MAX_RETRY_ATTEMPTS
<1>4. CircuitsSound
  BY <1>1 DEF Init, CircuitsSound
<1>5. \A r \in Request : Path(r)
  BY DEF Init, WalletInit, Path, PathNew, PathSearching, PathStreaming, PathRecord, PathDone, PathLost
<1> QED
  BY <1>3, <1>4, <1>5 DEF Inv

\* A report to the circuit breaker replaces one circuit by a sound one.
LEMMA ReportKeeps ==
  ASSUME TypeOK, CircuitsSound, NEW n \in Node,
         circuit' = [circuit EXCEPT ![n] = onFailure(@).state]
  PROVE  circuit' \in [Node -> CircuitState] /\ CircuitsSound'
<1>1. Sound(onFailure(circuit[n]).state)
  BY FailureSound DEF CircuitsSound
<1>2. onFailure(circuit[n]).state \in CircuitState
  BY <1>1 DEF Sound
<1> DEFINE s == onFailure(circuit[n]).state
<1>3. circuit' = [circuit EXCEPT ![n] = s]
  BY DEF TypeOK
<1> HIDE DEF s
<1>4. \A m \in Node : circuit'[m] = IF m = n THEN s ELSE circuit[m]
  BY <1>3 DEF TypeOK
<1>5. circuit' \in [Node -> CircuitState]
  BY <1>2, <1>3 DEF TypeOK, s
<1>6. Sound(s)
  BY <1>1 DEF s
<1> QED
  BY <1>4, <1>5, <1>6 DEF CircuitsSound

\* The circuits stay well typed and sound in every step.
LEMMA NextCircuits ==
  Inv /\ [Next]_vars => circuit' \in [Node -> CircuitState] /\ CircuitsSound'
<1> DEFINE Goal == circuit' \in [Node -> CircuitState] /\ CircuitsSound'
<1> SUFFICES ASSUME Inv, [Next]_vars PROVE Goal
  OBVIOUS
<1> USE DEF Inv
<1>1. ASSUME UNCHANGED circuit PROVE Goal
  BY <1>1 DEF TypeOK, CircuitsSound
<1>2. ASSUME NEW r \in Request, RetryNextNode(r) PROVE Goal
  <2>1. node[r] \in Node
    BY <1>2 DEF RetryNextNode, Goto, Path, PathSearching
  <2>2. CASE UNCHANGED circuit
    BY <1>1, <2>2
  <2>3. CASE circuit' = [circuit EXCEPT ![node[r]] = onFailure(@).state]
    BY <2>1, <2>3, ReportKeeps
  <2> QED
    BY <1>2, <2>2, <2>3 DEF RetryNextNode
<1>3. CASE TimePasses
  <2>1. \A n \in Node : Sound(Elapse(circuit[n]))
    BY ElapseSound DEF CircuitsSound
  <2>2. circuit' = [n \in Node |-> Elapse(circuit[n])]
    BY <1>3 DEF TimePasses
  <2> QED
    BY <2>1, <2>2 DEF CircuitsSound, Sound
<1>4. CASE Crash
  <2>1. circuit' = [n \in Node |-> initialCircuitState]
    BY <1>4 DEF Crash
  <2> QED
    BY <2>1, InitialSound DEF CircuitsSound, Sound
<1>5. ASSUME NEW r \in Request, Step(r) PROVE Goal
  BY <1>1, <1>2, <1>5 DEF Step, SelectNode, SelectThrows, NodeFails, AttemptFails, NodeRefuses,
     RefundAndThrow, StreamStarts, StreamEnds, CountThrows, SettleCommit, CommitThrows, CostThrows,
     SettleRefund, Record
<1>6. ASSUME NEW r \in Request,
             \/ \E units \in 1 .. MaxUnits : Reserve(r, units)
             \/ ReserveThrows(r) \/ Delta(r) \/ ClientLeaves(r)
             \/ \E k \in 0 .. MaxReport : UsageChunk(r, k)
      PROVE  Goal
  BY <1>1, <1>6 DEF Reserve, ReserveThrows, Delta, ClientLeaves, UsageChunk
<1>7. CASE UNCHANGED vars
  BY <1>1, <1>7 DEF vars
<1> QED
  BY <1>3, <1>4, <1>5, <1>6, <1>7 DEF Next

\* Every step keeps the types.
LEMMA NextTypes == Inv /\ [Next]_vars => TypeOK'
<1> SUFFICES ASSUME Inv, [Next]_vars PROVE TypeOK'
  OBVIOUS
<1>0. circuit' \in [Node -> CircuitState]
  BY NextCircuits
<1> USE StreamingAssumption DEF Inv, TypeOK, PC, Reply, Goto, Finish
<1>1. ASSUME NEW r \in Request, NEW units \in 1 .. MaxUnits, Reserve(r, units) PROVE TypeOK'
  <2>1. WalletTypeOK'
    BY <1>1, WalletTypes DEF StreamingAssumption, Reserve
  <2> QED
    BY <1>0, <1>1, <2>1 DEF Reserve, MAX_RETRY_ATTEMPTS
<1>2. ASSUME NEW r \in Request, ReserveThrows(r) PROVE TypeOK'
  <2>1. WalletTypeOK'
    BY <1>2, WalletTypes DEF StreamingAssumption, ReserveThrows
  <2> QED
    BY <1>0, <1>2, <2>1 DEF ReserveThrows
<1>3. ASSUME NEW r \in Request, NEW n \in Node, SelectNode(r, n) PROVE TypeOK'
  BY <1>0, <1>3 DEF SelectNode, walletVars, WalletTypeOK
<1>4. ASSUME NEW r \in Request, SelectThrows(r) PROVE TypeOK'
  BY <1>0, <1>4 DEF SelectThrows, walletVars, WalletTypeOK
<1>5. ASSUME NEW r \in Request, NodeFails(r) PROVE TypeOK'
  BY <1>0, <1>5 DEF NodeFails, walletVars, WalletTypeOK, PathSearching, Path, RetryNextNode, MAX_RETRY_ATTEMPTS
<1>6. ASSUME NEW r \in Request, AttemptFails(r) PROVE TypeOK'
  BY <1>0, <1>6 DEF AttemptFails, walletVars, WalletTypeOK, PathSearching, Path, RetryNextNode, MAX_RETRY_ATTEMPTS
<1>7. ASSUME NEW r \in Request, NodeRefuses(r) PROVE TypeOK'
  BY <1>0, <1>7 DEF NodeRefuses, walletVars, WalletTypeOK
<1>8. ASSUME NEW r \in Request, RefundAndThrow(r) PROVE TypeOK'
  <2>1. WalletTypeOK'
    BY <1>8, WalletTypes DEF StreamingAssumption, RefundAndThrow
  <2> QED
    BY <1>0, <1>8, <2>1 DEF RefundAndThrow
<1>9. ASSUME NEW r \in Request, StreamStarts(r) PROVE TypeOK'
  BY <1>0, <1>9 DEF StreamStarts, walletVars, WalletTypeOK
<1>10. ASSUME NEW r \in Request, Delta(r) PROVE TypeOK'
  BY <1>0, <1>10 DEF Delta, walletVars, WalletTypeOK
<1>11. ASSUME NEW r \in Request, NEW k \in 0 .. MaxReport, UsageChunk(r, k) PROVE TypeOK'
  BY <1>0, <1>11 DEF UsageChunk, walletVars, WalletTypeOK
<1>12. ASSUME NEW r \in Request, StreamEnds(r) PROVE TypeOK'
  BY <1>0, <1>12 DEF StreamEnds, walletVars, WalletTypeOK
<1>13. ASSUME NEW r \in Request, NEW cost \in 0 .. MaxReport, SettleCommit(r, cost) PROVE TypeOK'
  <2>1. WalletTypeOK'
    BY <1>13, WalletTypes DEF StreamingAssumption, SettleCommit
  <2> QED
    BY <1>0, <1>13, <2>1 DEF SettleCommit
<1>14. ASSUME NEW r \in Request, CommitThrows(r) PROVE TypeOK'
  <2>1. \A cost \in Costs(r) : cost \in Nat
    BY DEF Costs, StreamingAssumption
  <2>2. WalletTypeOK'
    BY <1>14, <2>1, WalletTypes DEF CommitThrows
  <2> QED
    BY <1>0, <1>14, <2>2 DEF CommitThrows, Ending
<1>15. ASSUME NEW r \in Request, CostThrows(r) PROVE TypeOK'
  BY <1>0, <1>15 DEF CostThrows, walletVars, WalletTypeOK
<1>16. ASSUME NEW r \in Request, SettleRefund(r) PROVE TypeOK'
  <2>1. WalletTypeOK'
    BY <1>16, WalletTypes DEF StreamingAssumption, SettleRefund
  <2> QED
    BY <1>0, <1>16, <2>1 DEF SettleRefund
<1>17. ASSUME NEW r \in Request, Record(r) PROVE TypeOK'
  BY <1>0, <1>17 DEF Record, walletVars, WalletTypeOK, Ending
<1>18. ASSUME NEW r \in Request, ClientLeaves(r) PROVE TypeOK'
  BY <1>0, <1>18 DEF ClientLeaves, walletVars, WalletTypeOK
<1>19. CASE TimePasses
  BY <1>0, <1>19 DEF TimePasses, requestVars, walletVars, WalletTypeOK
<1>20. CASE Crash
  BY <1>0, <1>20 DEF Crash, walletVars, WalletTypeOK
<1>21. CASE UNCHANGED vars
  BY <1>0, <1>21 DEF vars, requestVars, walletVars, WalletTypeOK
<1>22. ASSUME NEW r \in Request, CountThrows(r) PROVE TypeOK'
  BY <1>0, <1>22 DEF CountThrows, walletVars, WalletTypeOK
<1> QED
  BY <1>1, <1>2, <1>3, <1>4, <1>5, <1>6, <1>7, <1>8, <1>9, <1>10, <1>11, <1>12, <1>13, <1>14, <1>15, <1>16, <1>17, <1>18, <1>19, <1>20, <1>21, <1>22 DEF Next, Step

\* Every step keeps the paths.
LEMMA NextPaths == Inv /\ [Next]_vars => \A q \in Request : Path(q)'
<1> SUFFICES ASSUME Inv, [Next]_vars, NEW q \in Request PROVE Path(q)'
  OBVIOUS
<1> USE DEF Inv, TypeOK, WalletTypeOK, Path, PathNew, PathSearching, PathStreaming, PathRecord,
        PathDone, PathLost, Holding, Charged, Billable, Torn, Delivered, Goto, Finish
<1>1. ASSUME NEW r \in Request, NEW units \in 1 .. MaxUnits, Reserve(r, units) PROVE Path(q)'
  BY <1>1 DEF Reserve, WalletReserve, walletVars, MAX_RETRY_ATTEMPTS
<1>2. ASSUME NEW r \in Request, ReserveThrows(r) PROVE Path(q)'
  BY <1>2 DEF ReserveThrows, WalletReserve, walletVars
<1>3. ASSUME NEW r \in Request, NEW n \in Node, SelectNode(r, n) PROVE Path(q)'
  BY <1>3 DEF SelectNode, walletVars
<1>4. ASSUME NEW r \in Request, SelectThrows(r) PROVE Path(q)'
  BY <1>4 DEF SelectThrows, walletVars
<1>5. ASSUME NEW r \in Request, NodeFails(r) PROVE Path(q)'
  BY <1>5 DEF NodeFails, RetryNextNode, walletVars, MAX_RETRY_ATTEMPTS
<1>6. ASSUME NEW r \in Request, AttemptFails(r) PROVE Path(q)'
  BY <1>6 DEF AttemptFails, RetryNextNode, walletVars, MAX_RETRY_ATTEMPTS
<1>7. ASSUME NEW r \in Request, NodeRefuses(r) PROVE Path(q)'
  BY <1>7 DEF NodeRefuses, walletVars
<1>8. ASSUME NEW r \in Request, RefundAndThrow(r) PROVE Path(q)'
  BY <1>8 DEF RefundAndThrow, WalletRefund, walletVars
<1>9. ASSUME NEW r \in Request, StreamStarts(r) PROVE Path(q)'
  BY <1>9 DEF StreamStarts, walletVars
<1>10. ASSUME NEW r \in Request, Delta(r) PROVE Path(q)'
  BY <1>10 DEF Delta, walletVars
<1>11. ASSUME NEW r \in Request, NEW k \in 0 .. MaxReport, UsageChunk(r, k) PROVE Path(q)'
  BY <1>11 DEF UsageChunk, walletVars
<1>12. ASSUME NEW r \in Request, StreamEnds(r) PROVE Path(q)'
  BY <1>12 DEF StreamEnds, walletVars
<1>13. ASSUME NEW r \in Request, NEW cost \in 0 .. MaxReport, SettleCommit(r, cost) PROVE Path(q)'
  BY <1>13 DEF SettleCommit, WalletCommit, walletVars
<1>14. ASSUME NEW r \in Request, CommitThrows(r) PROVE Path(q)'
  BY <1>14 DEF CommitThrows, WalletCommit, walletVars, Ending, Reply, Reliable
<1>15. ASSUME NEW r \in Request, CostThrows(r) PROVE Path(q)'
  BY <1>15 DEF CostThrows, walletVars, Reliable
<1>16. ASSUME NEW r \in Request, SettleRefund(r) PROVE Path(q)'
  BY <1>16 DEF SettleRefund, WalletRefund, walletVars, Reliable
<1>17. ASSUME NEW r \in Request, Record(r) PROVE Path(q)'
  BY <1>17 DEF Record, walletVars, Ending, Reply
<1>18. ASSUME NEW r \in Request, ClientLeaves(r) PROVE Path(q)'
  BY <1>18 DEF ClientLeaves, walletVars
<1>19. CASE TimePasses
  BY <1>19 DEF TimePasses, requestVars, walletVars
<1>20. CASE Crash
  BY <1>20 DEF Crash, Suspended, PC, walletVars
<1>21. CASE UNCHANGED vars
  BY <1>21 DEF vars, requestVars, walletVars
<1>22. ASSUME NEW r \in Request, CountThrows(r) PROVE Path(q)'
  BY <1>22 DEF CountThrows, walletVars
<1> QED
  BY <1>1, <1>2, <1>3, <1>4, <1>5, <1>6, <1>7, <1>8, <1>9, <1>10, <1>11, <1>12, <1>13, <1>14, <1>15, <1>16, <1>17, <1>18, <1>19, <1>20, <1>21, <1>22 DEF Next, Step

\* The invariant of every behaviour.
THEOREM InvAlways == Spec => []Inv
<1>1. Inv /\ [Next]_vars => Inv'
  BY NextCircuits, NextTypes, NextPaths DEF Inv
<1> QED
  BY InitInv, <1>1, PTL DEF Spec

\* The types, and with them the bound on the attempts and a balance that is
\* never negative.
THEOREM StreamingTypeCorrect == Spec => []TypeOK
<1>1. Inv => TypeOK
  BY DEF Inv
<1> QED
  BY <1>1, InvAlways, PTL

\* A usage record is backed by a charge under every fault.
THEOREM StreamRecordsAreCharged == Spec => []RecordedIsCharged
<1>1. Inv => RecordedIsCharged
  BY DEF Inv, TypeOK, PC, Path, PathNew, PathSearching, PathStreaming, PathRecord, PathDone,
         PathLost, Charged, RecordedIsCharged
<1> QED
  BY <1>1, InvAlways, PTL

\* While the wallet works for it, a stream that was opened is settled when its
\* end is sent, whatever happens to the others; the one exception is a stream
\* that delivered something and is torn off by an edited rate card or a token
\* audit that throws.
THEOREM StartedStreamsAreSettled == Spec => []StartedStreamSettles
<1>1. Inv => StartedStreamSettles
  BY DEF Inv, TypeOK, PC, Path, PathNew, PathSearching, PathStreaming, PathRecord, PathDone,
         PathLost, Charged, Reliable, StartedStreamSettles
<1> QED
  BY <1>1, InvAlways, PTL

\* While the wallet works for it, a stream is charged for exactly if it
\* delivered text or reported usage, wherever the client left it, with the same
\* exception.
THEOREM StreamsAreBilledIffDelivered == Spec => []BilledIffDelivered
<1>1. Inv => BilledIffDelivered
  BY DEF Inv, TypeOK, PC, Path, PathNew, PathSearching, PathStreaming, PathRecord, PathDone,
         PathLost, Charged, Billable, Delivered, Reliable, BilledIffDelivered
<1> QED
  BY <1>1, InvAlways, PTL

----------------------------------------------------------------------------
(* Refinement *)

\* The abstract variables.
AbsLedger == [r \in Reliable |-> ledger[r]]
AbsReply == [r \in Reliable |-> Told(r)]

\* A step that changes nothing of a reliable request is invisible.
LEMMA UnseenStutters ==
  ASSUME \A q \in Reliable : ledger'[q] = ledger[q] /\ Told(q)' = Told(q)
  PROVE  UNCHANGED S!vars
<1>1. AbsLedger' = AbsLedger /\ AbsReply' = AbsReply
  BY DEF AbsLedger, AbsReply, Reliable
<1> QED
  BY <1>1 DEF S!vars, AbsLedger, AbsReply

\* So is one of a request whose wallet may fail.
LEMMA UnreliableStutters ==
  ASSUME Inv, NEW r \in Request \ Reliable,
         \A q \in Request \ {r} : /\ ledger'[q] = ledger[q] /\ reply'[q] = reply[q]
                                  /\ started'[q] = started[q]
  PROVE  UNCHANGED S!vars
<1>1. \A q \in Reliable : q \in Request \ {r}
  BY DEF Reliable
<1> QED
  BY <1>1, UnseenStutters DEF Told

\* What the protocol sees of a step of one reliable request.
LEMMA ReliableChanges ==
  ASSUME NEW r \in Reliable,
         \A q \in Reliable \ {r} : ledger'[q] = ledger[q] /\ Told(q)' = Told(q)
  PROVE  /\ AbsLedger' = [AbsLedger EXCEPT ![r] = ledger'[r]]
         /\ AbsReply' = [AbsReply EXCEPT ![r] = Told(r)']
         /\ AbsLedger[r] = ledger[r] /\ AbsReply[r] = Told(r)
BY DEF AbsLedger, AbsReply, Reliable

\* The steps of a reliable request that the protocol knows.
LEMMA ProtocolStep ==
  ASSUME NEW r \in Reliable,
         \A q \in Reliable \ {r} : ledger'[q] = ledger[q] /\ Told(q)' = Told(q),
         Told(r) = "pending",
         \/ ledger[r] = "none" /\ ledger'[r] = "open" /\ Told(r)' = "pending"
         \/ ledger[r] = "open" /\ ledger'[r] = "committed" /\ Told(r)' = "pending"
         \/ ledger[r] = "open" /\ ledger'[r] = "refunded" /\ Told(r)' = "error"
         \/ ledger[r] \in {"none", "committed"} /\ ledger'[r] = ledger[r] /\ Told(r)' \in {"ok", "error"}
  PROVE  S!Next
<1>1. /\ AbsLedger' = [AbsLedger EXCEPT ![r] = ledger'[r]]
      /\ AbsReply' = [AbsReply EXCEPT ![r] = Told(r)']
      /\ AbsLedger[r] = ledger[r] /\ AbsReply[r] = Told(r)
  BY ReliableChanges
<1>2. /\ AbsLedger \in [Reliable -> {ledger[q] : q \in Reliable}]
      /\ AbsReply \in [Reliable -> {Told(q) : q \in Reliable}]
  BY DEF AbsLedger, AbsReply
<1>3. /\ ledger'[r] = ledger[r] => AbsLedger' = AbsLedger
      /\ Told(r)' = Told(r) => AbsReply' = AbsReply
  BY <1>1, <1>2
<1>4. CASE ledger[r] = "none" /\ ledger'[r] = "open" /\ Told(r)' = "pending"
  <2>1. S!Open(r)
    BY <1>1, <1>3, <1>4 DEF S!Open, S!Set, AbsLedger, AbsReply
  <2> QED BY <2>1 DEF S!Next
<1>5. CASE ledger[r] = "open" /\ ledger'[r] = "committed" /\ Told(r)' = "pending"
  <2>1. S!Commit(r)
    BY <1>1, <1>3, <1>5 DEF S!Commit, S!Set, AbsLedger, AbsReply
  <2> QED BY <2>1 DEF S!Next
<1>6. CASE ledger[r] = "open" /\ ledger'[r] = "refunded" /\ Told(r)' = "error"
  <2>1. S!Refund(r)
    BY <1>1, <1>3, <1>6 DEF S!Refund, S!Set, AbsLedger, AbsReply
  <2> QED BY <2>1 DEF S!Next
<1>7. CASE ledger[r] \in {"none", "committed"} /\ ledger'[r] = ledger[r] /\ Told(r)' \in {"ok", "error"}
  <2>1. PICK a \in {"ok", "error"} : Told(r)' = a
    BY <1>7
  <2>2. S!Answer(r, a)
    BY <1>1, <1>3, <1>7, <2>1 DEF S!Answer, S!Set, AbsLedger, AbsReply
  <2> QED BY <2>2 DEF S!Next
<1> QED
  BY <1>4, <1>5, <1>6, <1>7

\* One step of the dispatcher is a step of Settlement or a stutter.
LEMMA StepRefines == Inv /\ [Next]_vars => [S!Next]_(S!vars)
<1> SUFFICES ASSUME Inv, [Next]_vars PROVE [S!Next]_(S!vars)
  OBVIOUS
<1> USE DEF Goto, Finish
<1>u. ASSUME UNCHANGED <<ledger, started, reply>> PROVE [S!Next]_(S!vars)
  BY <1>u, UnseenStutters DEF Told
<1>q. ASSUME NEW r \in Request
      PROVE  /\ TypeOK /\ Path(r)
             /\ r \notin Reliable => r \in Request \ Reliable
             /\ r \in Reliable => "wallet" \notin Faults[r]
  BY DEF Inv, Reliable
<1>1. ASSUME NEW r \in Request, NEW units \in 1 .. MaxUnits, Reserve(r, units) PROVE [S!Next]_(S!vars)
  <2>0. \A q \in Request \ {r} : ledger'[q] = ledger[q] /\ reply'[q] = reply[q] /\ started'[q] = started[q]
    BY <1>1 DEF Reserve, WalletReserve, walletVars, Inv, TypeOK, WalletTypeOK
  <2>1. CASE r \in Reliable /\ r \notin Postpaid
    <3>1. ledger[r] = "none" /\ ledger'[r] = "open" /\ Told(r) = "pending" /\ Told(r)' = "pending"
      BY <1>1, <2>1, <1>q DEF Reserve, WalletReserve, TypeOK, WalletTypeOK, Path, PathNew, Told
    <3> QED
      BY <2>0, <2>1, <3>1, ProtocolStep DEF Told, Reliable
  <2>2. CASE r \in Postpaid
    BY <1>u, <1>1, <2>2 DEF Reserve, walletVars
  <2>3. CASE r \notin Reliable
    BY <1>q, <2>0, <2>3, UnreliableStutters
  <2> QED
    BY <2>1, <2>2, <2>3
<1>2. ASSUME NEW r \in Request, ReserveThrows(r) PROVE [S!Next]_(S!vars)
  <2>0. \A q \in Request \ {r} : ledger'[q] = ledger[q] /\ reply'[q] = reply[q] /\ started'[q] = started[q]
    BY <1>2 DEF ReserveThrows, WalletReserve, walletVars, Inv, TypeOK, WalletTypeOK
  <2>1. CASE r \in Reliable
    <3>1. /\ ledger[r] = "none" /\ ledger'[r] = ledger[r]
          /\ Told(r) = "pending" /\ Told(r)' = "error"
      BY <1>2, <2>1, <1>q DEF ReserveThrows, walletVars, TypeOK, WalletTypeOK, Path, PathNew, Told
    <3> QED
      BY <2>0, <2>1, <3>1, ProtocolStep DEF Told, Reliable
  <2> QED
    BY <1>q, <2>0, <2>1, UnreliableStutters
<1>3. ASSUME NEW r \in Request, NEW n \in Node, SelectNode(r, n) PROVE [S!Next]_(S!vars)
  BY <1>u, <1>3 DEF SelectNode, walletVars
<1>4. ASSUME NEW r \in Request, SelectThrows(r) PROVE [S!Next]_(S!vars)
  <2>0. \A q \in Request \ {r} : ledger'[q] = ledger[q] /\ reply'[q] = reply[q] /\ started'[q] = started[q]
    BY <1>4 DEF SelectThrows, walletVars, Inv, TypeOK
  <2>1. /\ ledger'[r] = ledger[r] /\ Told(r) = "pending"
        /\ \/ ledger[r] = "open" /\ Told(r)' = "pending"
           \/ ledger[r] = "none" /\ Told(r)' = "error"
    BY <1>4, <1>q DEF SelectThrows, walletVars, TypeOK, Path, PathSearching, Holding, Told
  <2>2. CASE r \in Reliable /\ ledger[r] = "none"
    BY <2>0, <2>1, <2>2, ProtocolStep DEF Told, Reliable
  <2>3. CASE ledger[r] = "open"
    BY <2>0, <2>1, <2>3, UnseenStutters DEF Told, Reliable
  <2>4. CASE r \notin Reliable
    BY <1>q, <2>0, <2>4, UnreliableStutters
  <2> QED
    BY <2>1, <2>2, <2>3, <2>4
<1>5. ASSUME NEW r \in Request, NodeFails(r) PROVE [S!Next]_(S!vars)
  BY <1>u, <1>5 DEF NodeFails, walletVars
<1>6. ASSUME NEW r \in Request, AttemptFails(r) PROVE [S!Next]_(S!vars)
  BY <1>u, <1>6 DEF AttemptFails, walletVars
<1>7. ASSUME NEW r \in Request, NodeRefuses(r) PROVE [S!Next]_(S!vars)
  BY <1>u, <1>7 DEF NodeRefuses, walletVars
<1>8. ASSUME NEW r \in Request, RefundAndThrow(r) PROVE [S!Next]_(S!vars)
  <2>0. \A q \in Request \ {r} : ledger'[q] = ledger[q] /\ reply'[q] = reply[q] /\ started'[q] = started[q]
    BY <1>8 DEF RefundAndThrow, WalletRefund, walletVars, Inv, TypeOK, WalletTypeOK
  <2>1. CASE r \in Reliable
    <3>1. /\ Told(r) = "pending" /\ Told(r)' = "error"
          /\ \/ ledger[r] = "open" /\ ledger'[r] = "refunded"
             \/ ledger[r] = "none" /\ ledger'[r] = ledger[r]
      BY <1>8, <2>1, <1>q DEF RefundAndThrow, WalletRefund, walletVars, TypeOK, WalletTypeOK, Path,
         PathSearching, Holding, Told
    <3> QED
      BY <2>0, <2>1, <3>1, ProtocolStep DEF Told, Reliable
  <2> QED
    BY <1>q, <2>0, <2>1, UnreliableStutters
<1>9. ASSUME NEW r \in Request, StreamStarts(r) PROVE [S!Next]_(S!vars)
  <2>1. \A q \in Reliable : ledger'[q] = ledger[q] /\ Told(q)' = Told(q)
    BY <1>9, <1>q DEF StreamStarts, walletVars, TypeOK, Path, PathSearching, Told, Reliable
  <2> QED
    BY <2>1, UnseenStutters
<1>10. ASSUME NEW r \in Request, Delta(r) PROVE [S!Next]_(S!vars)
  BY <1>u, <1>10 DEF Delta, walletVars
<1>11. ASSUME NEW r \in Request, NEW k \in 0 .. MaxReport, UsageChunk(r, k) PROVE [S!Next]_(S!vars)
  BY <1>u, <1>11 DEF UsageChunk, walletVars
<1>12. ASSUME NEW r \in Request, StreamEnds(r) PROVE [S!Next]_(S!vars)
  BY <1>u, <1>12 DEF StreamEnds, walletVars
<1>13. ASSUME NEW r \in Request, NEW cost \in 0 .. MaxReport, SettleCommit(r, cost) PROVE [S!Next]_(S!vars)
  <2>0. \A q \in Request \ {r} : ledger'[q] = ledger[q] /\ reply'[q] = reply[q] /\ started'[q] = started[q]
    BY <1>13 DEF SettleCommit, WalletCommit, walletVars, Inv, TypeOK, WalletTypeOK
  <2>1. CASE r \in Reliable /\ r \notin Postpaid
    <3>1. ledger[r] = "open" /\ ledger'[r] = "committed" /\ Told(r) = "pending" /\ Told(r)' = "pending"
      BY <1>13, <2>1, <1>q DEF SettleCommit, WalletCommit, TypeOK, WalletTypeOK, Path, PathStreaming,
         Holding, Told
    <3> QED
      BY <2>0, <2>1, <3>1, ProtocolStep DEF Told, Reliable
  <2>2. CASE r \in Postpaid
    BY <1>u, <1>13, <2>2 DEF SettleCommit, walletVars
  <2>3. CASE r \notin Reliable
    BY <1>q, <2>0, <2>3, UnreliableStutters
  <2> QED
    BY <2>1, <2>2, <2>3
<1>14. ASSUME NEW r \in Request, CommitThrows(r) PROVE [S!Next]_(S!vars)
  <2>0. \A q \in Request \ {r} : ledger'[q] = ledger[q] /\ reply'[q] = reply[q] /\ started'[q] = started[q]
    BY <1>14 DEF CommitThrows, WalletCommit, walletVars, Inv, TypeOK, WalletTypeOK
  <2>1. r \notin Reliable
    BY <1>14, <1>q DEF CommitThrows
  <2> QED
    BY <1>q, <2>0, <2>1, UnreliableStutters
<1>15. ASSUME NEW r \in Request, CostThrows(r) \/ CountThrows(r) PROVE [S!Next]_(S!vars)
  <2>1. reply[r] = "pending" /\ started[r]
    BY <1>15, <1>q DEF CostThrows, CountThrows, Path, PathStreaming
  <2>2. \A q \in Reliable : ledger'[q] = ledger[q] /\ Told(q)' = Told(q)
    BY <1>15, <1>q, <2>1 DEF CostThrows, CountThrows, walletVars, TypeOK, Told, Reliable
  <2> QED
    BY <2>2, UnseenStutters
<1>16. ASSUME NEW r \in Request, SettleRefund(r) PROVE [S!Next]_(S!vars)
  <2>0. \A q \in Request \ {r} : ledger'[q] = ledger[q] /\ reply'[q] = reply[q] /\ started'[q] = started[q]
    BY <1>16 DEF SettleRefund, WalletRefund, walletVars, Inv, TypeOK, WalletTypeOK
  <2>1. CASE r \in Reliable
    <3>1. /\ Told(r) = "pending" /\ Told(r)' = "error"
          /\ \/ ledger[r] = "open" /\ ledger'[r] = "refunded"
             \/ ledger[r] = "none" /\ ledger'[r] = ledger[r]
      BY <1>16, <2>1, <1>q DEF SettleRefund, WalletRefund, walletVars, TypeOK, WalletTypeOK, Path,
         PathStreaming, Holding, Told
    <3> QED
      BY <2>0, <2>1, <3>1, ProtocolStep DEF Told, Reliable
  <2> QED
    BY <1>q, <2>0, <2>1, UnreliableStutters
<1>17. ASSUME NEW r \in Request, Record(r) PROVE [S!Next]_(S!vars)
  <2>0. \A q \in Request \ {r} : ledger'[q] = ledger[q] /\ reply'[q] = reply[q] /\ started'[q] = started[q]
    BY <1>17 DEF Record, walletVars, Inv, TypeOK
  <2>1. CASE r \in Reliable
    <3>1. /\ Told(r) = "pending" /\ Told(r)' \in {"ok", "error"}
          /\ ledger[r] \in {"none", "committed"} /\ ledger'[r] = ledger[r]
      BY <1>17, <2>1, <1>q DEF Record, walletVars, TypeOK, Path, PathRecord, Charged, Ending, Told
    <3> QED
      BY <2>0, <2>1, <3>1, ProtocolStep DEF Told, Reliable
  <2> QED
    BY <1>q, <2>0, <2>1, UnreliableStutters
<1>18. ASSUME NEW r \in Request, ClientLeaves(r) PROVE [S!Next]_(S!vars)
  BY <1>u, <1>18 DEF ClientLeaves, walletVars
<1>19. CASE TimePasses
  BY <1>u, <1>19 DEF TimePasses, requestVars, walletVars
<1>20. CASE Crash
  BY <1>u, <1>20 DEF Crash, walletVars
<1>21. CASE UNCHANGED vars
  BY <1>u, <1>21 DEF vars, requestVars, walletVars
<1> QED
  BY <1>1, <1>2, <1>3, <1>4, <1>5, <1>6, <1>7, <1>8, <1>9, <1>10, <1>11, <1>12, <1>13, <1>14, <1>15, <1>16, <1>17, <1>18, <1>19, <1>20, <1>21 DEF Next, Step

\* But for reservations that leak out of the retry loop and for streams that
\* are torn off, the streaming dispatcher implements the settlement protocol
\* for every set of requests whose wallet works, under crashes, disconnects and
\* failing workers, payments, counts and records, whatever the other requests
\* go through.
THEOREM StreamingRefinesSettlement == Spec => ImplementsSettlement
<1>1. Init => S!Init
  BY DEF Init, WalletInit, S!Init, Reliable, Told
<1>2. Inv /\ [Next]_vars => [S!Next]_(S!vars)
  BY StepRefines
<1> QED
  BY <1>1, <1>2, InvAlways, PTL DEF Spec, ImplementsSettlement, S!Spec
=============================================================================
