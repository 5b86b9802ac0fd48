--------------------------- MODULE DispatchProofs ---------------------------
(***************************************************************************)
(* Safety of Dispatch for every set of requests, every balance and every   *)
(* set of faults, and its refinement of Settlement when the wallet works.  *)
(*                                                                         *)
(* The invariant is PathInv: where a dispatcher is suspended determines    *)
(* its local variables and the state of its reservation.                   *)
(***************************************************************************)
EXTENDS Dispatch, Sums

\* Between reserve and commit the reservation is open and in hand.
Holding(r) ==
    IF r \in Postpaid
    THEN handle[r] = "null" /\ ledger[r] = "none"
    ELSE handle[r] = "held" /\ ledger[r] = "open" /\ held[r] = estimate[r]

\* After commit it is charged with the actual cost.
Charged(r) ==
    IF r \in Postpaid
    THEN handle[r] = "null" /\ ledger[r] = "none"
    ELSE handle[r] = "held" /\ ledger[r] = "committed" /\ charged[r] = actual[r]

PathNew(r) ==
    pc[r] = "new" =>
        /\ ledger[r] = "none" /\ handle[r] = "unset" /\ ~committed[r]
        /\ reply[r] = "pending" /\ ~recorded[r]

PathHolding(r) ==
    pc[r] \in {"select", "pay", "call", "commit"} =>
        Holding(r) /\ ~committed[r] /\ reply[r] = "pending" /\ ~recorded[r]

PathRecord(r) ==
    pc[r] = "record" =>
        Charged(r) /\ committed[r] /\ reply[r] = "pending" /\ ~recorded[r]

\* A charge that no fault of the wallet made is one of the dispatcher's own
\* commit, after which only the late faults lead to an error.
LateCharge(r) ==
    "wallet" \notin Faults[r] /\ ledger[r] = "committed" =>
        committed[r] /\ Faults[r] \cap LateFaults(r) # {}

\* A failed request with an open reservation still holds its handle, unless
\* the wallet failed.
PathCatch(r) ==
    pc[r] = "catch" =>
        /\ reply[r] = "pending" /\ ledger[r] # "refunded"
        /\ recorded[r] => Charged(r)
        /\ "wallet" \notin Faults[r] /\ ledger[r] = "open" => handle[r] = "held" /\ ~committed[r]
        /\ LateCharge(r)

PathDone(r) ==
    pc[r] = "done" =>
        /\ reply[r] # "pending"
        /\ "wallet" \notin Faults[r] => ledger[r] # "open"
        /\ reply[r] = "error" => LateCharge(r)
        /\ recorded[r] \/ reply[r] = "ok" => Charged(r)

PathLost(r) == pc[r] = "lost" => reply[r] = "pending" /\ (recorded[r] => Charged(r))

Path(r) ==
    /\ PathNew(r) /\ PathHolding(r) /\ PathRecord(r)
    /\ PathCatch(r) /\ PathDone(r) /\ PathLost(r)

PathInv == TypeOK /\ \A r \in Request : Path(r)

\* Initially everything is well typed.
LEMMA InitTypes == Init => TypeOK
<1> SUFFICES ASSUME Init PROVE TypeOK
  OBVIOUS
<1>1. WalletTypeOK
  BY WalletAssumption DEF WalletAssumption, Init, WalletInit, WalletTypeOK, LedgerState
<1>2. endpoint \in [Request -> Endpoints]
  BY DispatchAssumption DEF DispatchAssumption, Init
<1> QED
  BY <1>1, <1>2 DEF Init, TypeOK, PC

\* The wallet's operations keep its state well typed; the balance stays a
\* natural number because reserve checks it.
LEMMA WalletTypes ==
  ASSUME WalletTypeOK, NEW r \in Request, NEW c \in Nat,
         WalletReserve(r, c) \/ WalletCommit(r, c) \/ WalletRefund(r) \/ UNCHANGED walletVars
  PROVE  WalletTypeOK'
<1>1. CASE WalletReserve(r, c)
  BY <1>1 DEF WalletReserve, Covers, WalletTypeOK, LedgerState
<1>2. CASE UNCHANGED walletVars
  BY <1>2 DEF walletVars, WalletTypeOK
<1>3. CASE WalletCommit(r, c)
  BY <1>2, <1>3 DEF WalletCommit, WalletTypeOK, LedgerState
<1>4. CASE WalletRefund(r)
  BY <1>2, <1>4 DEF WalletRefund, WalletTypeOK, LedgerState
<1> QED
  BY <1>1, <1>2, <1>3, <1>4

\* Every step keeps the types.
LEMMA NextTypes == TypeOK /\ [Next]_vars => TypeOK'
<1> SUFFICES ASSUME TypeOK, [Next]_vars PROVE TypeOK'
  OBVIOUS
<1> USE DEF TypeOK, PC, Goto, Caught, Finish
<1>1. ASSUME NEW r \in Request, Reject(r) PROVE TypeOK'
  BY <1>1 DEF Reject, walletVars, WalletTypeOK
<1>2. ASSUME NEW r \in Request, NEW units \in 1 .. MaxUnits, Reserve(r, units) PROVE TypeOK'
  <2>1. WalletTypeOK'
    BY <1>2, WalletTypes DEF Reserve
  <2> QED
    BY <1>2, <2>1 DEF Reserve
<1>3. ASSUME NEW r \in Request, NEW units \in 1 .. MaxUnits, ReserveThrows(r, units) PROVE TypeOK'
  <2>1. WalletTypeOK'
    BY <1>3, WalletTypes DEF ReserveThrows
  <2> QED
    BY <1>3, <2>1 DEF ReserveThrows
<1>4. ASSUME NEW r \in Request, SelectNode(r) PROVE TypeOK'
  BY <1>4 DEF SelectNode, walletVars, WalletTypeOK
<1>5. ASSUME NEW r \in Request, CreatePayment(r) PROVE TypeOK'
  BY <1>5 DEF CreatePayment, walletVars, WalletTypeOK
<1>6. ASSUME NEW r \in Request, UpstreamFails(r) PROVE TypeOK'
  BY <1>6 DEF UpstreamFails, walletVars, WalletTypeOK
<1>7. ASSUME NEW r \in Request, NEW k \in 0 .. MaxReport, CallWorker(r, k) PROVE TypeOK'
  BY <1>7 DEF CallWorker, ActualCosts, walletVars, WalletTypeOK
<1>8. ASSUME NEW r \in Request, Commit(r) PROVE TypeOK'
  <2>1. WalletTypeOK'
    BY <1>8, WalletTypes DEF Commit
  <2> QED
    BY <1>8, <2>1 DEF Commit
<1>9. ASSUME NEW r \in Request, CommitThrows(r) PROVE TypeOK'
  <2>1. WalletTypeOK'
    BY <1>9, WalletTypes DEF CommitThrows
  <2> QED
    BY <1>9, <2>1 DEF CommitThrows
<1>10. ASSUME NEW r \in Request, Record(r) PROVE TypeOK'
  BY <1>10 DEF Record, walletVars, WalletTypeOK
<1>11. ASSUME NEW r \in Request, RecordThrows(r) PROVE TypeOK'
  BY <1>11 DEF RecordThrows, walletVars, WalletTypeOK
<1>12. ASSUME NEW r \in Request, Catch(r) PROVE TypeOK'
  <2>1. WalletTypeOK'
    BY <1>12, WalletTypes DEF Catch
  <2> QED
    BY <1>12, <2>1 DEF Catch
<1>13. ASSUME NEW r \in Request, RefundThrows(r) PROVE TypeOK'
  BY <1>13 DEF RefundThrows, walletVars, WalletTypeOK
<1>14. CASE Crash
  BY <1>14 DEF Crash, walletVars, WalletTypeOK
<1>15. CASE UNCHANGED vars
  BY <1>15 DEF vars, dispatchVars, walletVars, WalletTypeOK
<1>16. ASSUME NEW r \in Request, AuditThrows(r) \/ DriftThrows(r) PROVE TypeOK'
  BY <1>16 DEF AuditThrows, DriftThrows, walletVars, WalletTypeOK
<1> QED
  BY <1>1, <1>2, <1>3, <1>4, <1>5, <1>6, <1>7, <1>8, <1>9, <1>10, <1>11, <1>12, <1>13, <1>14, <1>15, <1>16 DEF Next, Step

\* Every step keeps the paths.
LEMMA NextPaths == PathInv /\ [Next]_vars => \A q \in Request : Path(q)'
<1> SUFFICES ASSUME PathInv, [Next]_vars, NEW q \in Request PROVE Path(q)'
  OBVIOUS
<1> USE DEF PathInv, TypeOK, WalletTypeOK, Path, PathNew, PathHolding, PathRecord, PathCatch,
        PathDone, PathLost, Holding, Charged, LateCharge, LateFaults, Goto, Caught, Finish
<1>1. ASSUME NEW r \in Request, Reject(r) PROVE Path(q)'
  BY <1>1 DEF Reject, walletVars
<1>2. ASSUME NEW r \in Request, NEW units \in 1 .. MaxUnits, Reserve(r, units) PROVE Path(q)'
  BY <1>2 DEF Reserve, WalletReserve, walletVars
<1>3. ASSUME NEW r \in Request, NEW units \in 1 .. MaxUnits, ReserveThrows(r, units) PROVE Path(q)'
  BY <1>3 DEF ReserveThrows, WalletReserve, walletVars
<1>4. ASSUME NEW r \in Request, SelectNode(r) PROVE Path(q)'
  BY <1>4 DEF SelectNode, walletVars
<1>5. ASSUME NEW r \in Request, CreatePayment(r) PROVE Path(q)'
  BY <1>5 DEF CreatePayment, walletVars
<1>6. ASSUME NEW r \in Request, UpstreamFails(r) PROVE Path(q)'
  BY <1>6 DEF UpstreamFails, walletVars
<1>7. ASSUME NEW r \in Request, NEW k \in 0 .. MaxReport, CallWorker(r, k) PROVE Path(q)'
  BY <1>7 DEF CallWorker, ActualCosts, walletVars
<1>8. ASSUME NEW r \in Request, Commit(r) PROVE Path(q)'
  BY <1>8 DEF Commit, WalletCommit, walletVars
<1>9. ASSUME NEW r \in Request, CommitThrows(r) PROVE Path(q)'
  BY <1>9 DEF CommitThrows, WalletCommit, walletVars
<1>10. ASSUME NEW r \in Request, Record(r) PROVE Path(q)'
  BY <1>10 DEF Record, walletVars
<1>11. ASSUME NEW r \in Request, RecordThrows(r) PROVE Path(q)'
  BY <1>11 DEF RecordThrows, walletVars
<1>12. ASSUME NEW r \in Request, Catch(r) PROVE Path(q)'
  BY <1>12 DEF Catch, WalletRefund, walletVars
<1>13. ASSUME NEW r \in Request, RefundThrows(r) PROVE Path(q)'
  BY <1>13 DEF RefundThrows, walletVars
<1>14. CASE Crash
  BY <1>14 DEF Crash, Suspended, PC, walletVars
<1>15. CASE UNCHANGED vars
  BY <1>15 DEF vars, dispatchVars, walletVars
<1>16. ASSUME NEW r \in Request, AuditThrows(r) \/ DriftThrows(r) PROVE Path(q)'
  BY <1>16 DEF AuditThrows, DriftThrows, walletVars
<1> QED
  BY <1>1, <1>2, <1>3, <1>4, <1>5, <1>6, <1>7, <1>8, <1>9, <1>10, <1>11, <1>12, <1>13, <1>14, <1>15, <1>16 DEF Next, Step

\* What the checks on a worker's answer bound while the rate card stays: the
\* actual units of images and speech, and with them the charge.
Bounded(r) ==
    /\ ledger[r] = "none" => charged[r] = 0
    /\ Capped(r) =>
          /\ pc[r] = "commit" => actual[r] <= estimate[r]
          /\ charged[r] <= held[r]

\* Every step keeps the bound.
LEMMA NextBounded ==
  PathInv /\ (\A r \in Request : Bounded(r)) /\ [Next]_vars => \A q \in Request : Bounded(q)'
<1> SUFFICES ASSUME PathInv, \A r \in Request : Bounded(r), [Next]_vars, NEW q \in Request
             PROVE  Bounded(q)'
  OBVIOUS
<1> USE DEF PathInv, TypeOK, WalletTypeOK, Bounded, Capped, Goto, Caught, Finish
<1>0. \A r \in Request :
        /\ pc[r] = "new" => ledger[r] = "none"
        /\ pc[r] = "commit" => \/ r \in Postpaid /\ handle[r] = "null"
                               \/ r \notin Postpaid /\ held[r] = estimate[r]
  BY DEF Path, PathNew, PathHolding, Holding
<1>1. ASSUME NEW r \in Request, Reject(r) PROVE Bounded(q)'
  BY <1>0, <1>1 DEF Reject, walletVars
<1>2. ASSUME NEW r \in Request, NEW units \in 1 .. MaxUnits, Reserve(r, units) PROVE Bounded(q)'
  BY <1>0, <1>2 DEF Reserve, WalletReserve, walletVars
<1>3. ASSUME NEW r \in Request, NEW units \in 1 .. MaxUnits, ReserveThrows(r, units) PROVE Bounded(q)'
  BY <1>0, <1>3 DEF ReserveThrows, WalletReserve, walletVars
<1>4. ASSUME NEW r \in Request, SelectNode(r) PROVE Bounded(q)'
  BY <1>0, <1>4 DEF SelectNode, walletVars
<1>5. ASSUME NEW r \in Request, CreatePayment(r) PROVE Bounded(q)'
  BY <1>0, <1>5 DEF CreatePayment, walletVars
<1>6. ASSUME NEW r \in Request, UpstreamFails(r) PROVE Bounded(q)'
  BY <1>0, <1>6 DEF UpstreamFails, walletVars
<1>7. ASSUME NEW r \in Request, NEW k \in 0 .. MaxReport, CallWorker(r, k) PROVE Bounded(q)'
  BY <1>0, <1>7 DEF CallWorker, Acceptable, ActualCosts, walletVars
<1>8. ASSUME NEW r \in Request, Commit(r) PROVE Bounded(q)'
  BY <1>0, <1>8 DEF Commit, WalletCommit, walletVars
<1>9. ASSUME NEW r \in Request, CommitThrows(r) PROVE Bounded(q)'
  BY <1>0, <1>9 DEF CommitThrows, WalletCommit, walletVars
<1>10. ASSUME NEW r \in Request, Record(r) PROVE Bounded(q)'
  BY <1>0, <1>10 DEF Record, walletVars
<1>11. ASSUME NEW r \in Request, RecordThrows(r) PROVE Bounded(q)'
  BY <1>0, <1>11 DEF RecordThrows, walletVars
<1>12. ASSUME NEW r \in Request, Catch(r) PROVE Bounded(q)'
  BY <1>0, <1>12 DEF Catch, WalletRefund, walletVars
<1>13. ASSUME NEW r \in Request, RefundThrows(r) PROVE Bounded(q)'
  BY <1>0, <1>13 DEF RefundThrows, walletVars
<1>14. CASE Crash
  BY <1>0, <1>14 DEF Crash, Suspended, PC, walletVars
<1>15. CASE UNCHANGED vars
  BY <1>0, <1>15 DEF vars, dispatchVars, walletVars
<1>16. ASSUME NEW r \in Request, AuditThrows(r) \/ DriftThrows(r) PROVE Bounded(q)'
  BY <1>0, <1>16 DEF AuditThrows, DriftThrows, walletVars
<1> QED
  BY <1>1, <1>2, <1>3, <1>4, <1>5, <1>6, <1>7, <1>8, <1>9, <1>10, <1>11, <1>12, <1>13, <1>14, <1>15, <1>16 DEF Next, Step

\* The invariant of every behaviour.
THEOREM PathsAlways == Spec => [](PathInv /\ \A r \in Request : Bounded(r))
<1> DEFINE Inv == PathInv /\ \A r \in Request : Bounded(r)
<1>1. Init => Inv
  <2> SUFFICES ASSUME Init, NEW r \in Request PROVE Path(r) /\ Bounded(r)
    BY InitTypes DEF PathInv
  <2>1. Path(r)
    BY DEF Init, WalletInit, Path, PathNew, PathHolding, PathRecord, PathCatch, PathDone, PathLost
  <2>2. Bounded(r)
    BY DEF Init, WalletInit, Bounded
  <2> QED
    BY <2>1, <2>2
<1>2. Inv /\ [Next]_vars => Inv'
  BY NextTypes, NextPaths, NextBounded DEF PathInv
<1> QED
  BY <1>1, <1>2, PTL DEF Spec

\* The types, and with them: the balance of a caller is never negative,
\* however its concurrent requests interleave and fail.
THEOREM DispatchTypeCorrect == Spec => []TypeOK
<1>1. PathInv => TypeOK
  BY DEF PathInv
<1> QED
  BY <1>1, PathsAlways, PTL

\* Where the wallet does not throw, nobody is answered while the request's
\* money is set aside, whatever else fails.
THEOREM NeverAnsweredWhileOpen == Spec => []SettledWhenAnswered
<1>1. PathInv => SettledWhenAnswered
  BY DEF PathInv, TypeOK, WalletTypeOK, PC, Path, PathNew, PathHolding, PathRecord, PathCatch,
         PathDone, PathLost, Reliable, SettledWhenAnswered
<1> QED
  BY <1>1, PathsAlways, PTL

\* Where the wallet does not throw, an error costs nothing that it did not
\* come after: the client pays only if the commit succeeded and the record, or
\* in chat the token audit, failed after it.
THEOREM ErrorsAreFree == Spec => []ErrorIsRefunded
<1>1. PathInv => ErrorIsRefunded
  BY DEF PathInv, TypeOK, WalletTypeOK, LedgerState, PC, Path, PathNew, PathHolding, PathRecord,
         PathCatch, PathDone, PathLost, LateCharge, Reliable, ErrorIsRefunded
<1> QED
  BY <1>1, PathsAlways, PTL

\* Under every fault, a usage record is backed by a commit of its amount, and
\* the wallet took it all or, for the endpoints without a cap, the reservation.
THEOREM RecordsAreCharged == Spec => []RecordedIsCharged
<1>1. PathInv /\ (\A r \in Request : Bounded(r)) => RecordedIsCharged
  <2> SUFFICES ASSUME PathInv, \A r \in Request : Bounded(r),
                      NEW r \in Request, recorded[r], r \notin Postpaid
               PROVE  /\ ledger[r] = "committed" /\ charged[r] = actual[r]
                      /\ \/ Paid(r) = actual[r]
                         \/ Paid(r) = held[r] /\ held[r] < actual[r] /\ ~Capped(r)
    BY DEF RecordedIsCharged
  <2>1. ledger[r] = "committed" /\ charged[r] = actual[r]
    BY DEF PathInv, TypeOK, WalletTypeOK, PC, Path, PathNew, PathHolding, PathRecord, PathCatch,
           PathDone, PathLost, Charged
  <2>2. Paid(r) = IF actual[r] < held[r] THEN actual[r] ELSE held[r]
    BY <2>1 DEF Paid
  <2>3. Capped(r) => charged[r] <= held[r]
    BY DEF Bounded
  <2> QED
    BY <2>1, <2>2, <2>3 DEF PathInv, TypeOK, WalletTypeOK
<1> QED
  BY <1>1, PathsAlways, PTL

\* Under every fault, a prepaid caller's answer is charged with what it costs.
THEOREM AnswersAreCharged == Spec => []ChargedIfAnswered
<1>1. PathInv => ChargedIfAnswered
  BY DEF PathInv, TypeOK, PC, Path, PathNew, PathHolding, PathRecord, PathCatch, PathDone,
         PathLost, Charged, ChargedIfAnswered
<1> QED
  BY <1>1, PathsAlways, PTL

\* While the rate card stays, images and speech never cost more than was
\* reserved, under every other fault.
THEOREM ChargeIsBounded == Spec => []ChargeWithinEstimate
<1>1. (\A r \in Request : Bounded(r)) => ChargeWithinEstimate
  BY DEF Bounded, ChargeWithinEstimate
<1> QED
  BY <1>1, PathsAlways, PTL

----------------------------------------------------------------------------
(* Conservation of the caller's money *)

\* What the requests took, as the function that BalanceConserved sums.
Payments == [r \in Request |-> Paid(r)]

\* Each operation of the wallet moves between the balance and one request's
\* payment.  reserve is called for a request that has no reservation yet.
LEMMA WalletConserves ==
  ASSUME WalletTypeOK, NEW r \in Request, NEW c \in Nat,
         \/ WalletReserve(r, c) /\ ledger[r] = "none"
         \/ WalletCommit(r, c)
         \/ WalletRefund(r)
  PROVE  balance' + Payments'[r] = balance + Payments[r]
<1> USE DEF WalletTypeOK, LedgerState, Payments, Paid
<1>1. CASE WalletReserve(r, c) /\ ledger[r] = "none"
  BY <1>1 DEF WalletReserve
<1>2. CASE WalletCommit(r, c)
  BY <1>2 DEF WalletCommit, walletVars
<1>3. CASE WalletRefund(r)
  BY <1>3 DEF WalletRefund, walletVars
<1> QED
  BY <1>1, <1>2, <1>3

\* An operation of the wallet leaves the payments of the other requests alone.
LEMMA WalletTouchesOne ==
  ASSUME WalletTypeOK, NEW r \in Request, NEW c \in Nat,
         WalletReserve(r, c) \/ WalletCommit(r, c) \/ WalletRefund(r)
  PROVE  \A q \in Request \ {r} : Payments'[q] = Payments[q]
<1> SUFFICES ASSUME NEW q \in Request \ {r} PROVE Payments'[q] = Payments[q]
  OBVIOUS
<1>1. ledger'[q] = ledger[q] /\ held'[q] = held[q] /\ charged'[q] = charged[q]
  BY DEF WalletTypeOK, WalletReserve, WalletCommit, WalletRefund, walletVars
<1> QED
  BY <1>1 DEF Payments, Paid

\* What a request took is a natural number.
LEMMA PaymentsType == WalletTypeOK => Payments \in [Request -> Nat]
  BY DEF WalletTypeOK, LedgerState, Payments, Paid

\* With the sum over all requests: no operation makes or loses a cent.
LEMMA WalletKeepsTotal ==
  ASSUME WalletTypeOK, NEW r \in Request, NEW c \in Nat,
         \/ WalletReserve(r, c) /\ ledger[r] = "none"
         \/ WalletCommit(r, c)
         \/ WalletRefund(r)
         \/ UNCHANGED walletVars
  PROVE  BalanceConserved => BalanceConserved'
<1>1. CASE UNCHANGED walletVars
  BY <1>1 DEF walletVars, BalanceConserved, Paid
<1>2. CASE ~ UNCHANGED walletVars
  <2>1. WalletTypeOK'
    BY WalletTypes
  <2>2. Payments \in [Request -> Nat] /\ Payments' \in [Request -> Nat]
    <3>1. (WalletTypeOK => Payments \in [Request -> Nat])'
      BY PaymentsType, PTL
    <3> QED
      BY <2>1, <3>1, PaymentsType
  <2>3. \A q \in Request \ {r} : Payments'[q] = Payments[q]
    BY <1>2, WalletTouchesOne
  <2>4. balance' + Payments'[r] = balance + Payments[r]
    BY <1>2, WalletConserves
  <2> DEFINE p == Payments
             q == Payments'
             a == SumFunctionOnSet(p, Request)
             b == SumFunctionOnSet(q, Request)
  <2>5. b = a + (q[r] - p[r]) /\ a \in Int
    <3>1. /\ IsFiniteSet(Request)
          /\ \A x \in Request : p[x] \in Int /\ q[x] \in Int
          /\ \A x \in Request \ {r} : q[x] = p[x]
      BY <2>2, <2>3, DispatchAssumption DEF DispatchAssumption
    <3> HIDE DEF p, q
    <3> QED
      BY <3>1, SumFollowsTerm, SumTakesOut
  <2>6. /\ BalanceConserved <=> balance >= 0 /\ balance + a = Seed
        /\ BalanceConserved' <=> balance' >= 0 /\ balance' + b = Seed
    BY DEF BalanceConserved, SumFunction, Payments
  <2>7. p[r] \in Nat /\ q[r] \in Nat /\ balance \in Nat /\ balance' \in Nat
    BY <2>1, <2>2 DEF WalletTypeOK
  <2>8. balance' + q[r] = balance + p[r]
    BY <2>4
  <2> HIDE DEF p, q, a, b
  <2> QED
    BY <2>5, <2>6, <2>7, <2>8
<1> QED
  BY <1>1, <1>2

\* Every step does at most one operation of the wallet.
LEMMA NextConserves == PathInv /\ BalanceConserved /\ [Next]_vars => BalanceConserved'
<1> SUFFICES ASSUME PathInv, BalanceConserved, [Next]_vars PROVE BalanceConserved'
  OBVIOUS
<1>1. WalletTypeOK /\ \A r \in Request : actual[r] \in Nat /\ (pc[r] = "new" => ledger[r] = "none")
  BY DEF PathInv, TypeOK, Path, PathNew
<1>2. ASSUME UNCHANGED walletVars PROVE BalanceConserved'
  BY <1>2 DEF walletVars, BalanceConserved, Paid
<1>3. ASSUME NEW r \in Request, NEW units \in 1 .. MaxUnits,
             Reserve(r, units) \/ ReserveThrows(r, units)
      PROVE  BalanceConserved'
  <2>1. units \in Nat /\ ledger[r] = "none"
    BY <1>1, <1>3 DEF Reserve, ReserveThrows, Goto, Caught
  <2>2. WalletReserve(r, units) \/ UNCHANGED walletVars
    BY <1>3 DEF Reserve, ReserveThrows
  <2> QED
    BY <1>1, <2>1, <2>2, WalletKeepsTotal
<1>4. ASSUME NEW r \in Request, Commit(r) \/ CommitThrows(r) PROVE BalanceConserved'
  <2>1. WalletCommit(r, actual[r]) \/ UNCHANGED walletVars
    BY <1>4 DEF Commit, CommitThrows
  <2> QED
    BY <1>1, <2>1, WalletKeepsTotal
<1>5. ASSUME NEW r \in Request, Catch(r) PROVE BalanceConserved'
  <2>1. WalletRefund(r) \/ UNCHANGED walletVars
    BY <1>5 DEF Catch
  <2> QED
    BY <1>1, <2>1, WalletKeepsTotal
<1>6. ASSUME NEW r \in Request,
             \/ Reject(r) \/ SelectNode(r) \/ CreatePayment(r) \/ UpstreamFails(r)
             \/ \E n \in 0 .. MaxReport : CallWorker(r, n)
             \/ Record(r) \/ RecordThrows(r) \/ AuditThrows(r) \/ DriftThrows(r)
             \/ RefundThrows(r)
      PROVE  BalanceConserved'
  BY <1>2, <1>6 DEF Reject, SelectNode, CreatePayment, UpstreamFails, CallWorker, Record,
                    RecordThrows, AuditThrows, DriftThrows, RefundThrows
<1>7. CASE Crash \/ UNCHANGED vars
  BY <1>2, <1>7 DEF Crash, vars
<1> QED
  BY <1>3, <1>4, <1>5, <1>6, <1>7 DEF Next, Step

\* The balance is never overdrawn, and what the requests took and it add up to
\* the initial balance, for every number of concurrent requests and every fault.
THEOREM BalanceAlwaysConserved == Spec => []BalanceConserved
<1>1. Init => BalanceConserved
  <2> SUFFICES ASSUME Init PROVE BalanceConserved
    OBVIOUS
  <2> DEFINE p == Payments
             zero == [r \in Request |-> 0]
  <2>1. p = zero /\ balance = Seed
    BY DEF Init, WalletInit, Payments, Paid
  <2>2. SumFunctionOnSet(zero, Request) = 0
    BY DispatchAssumption, SumOfZeros DEF DispatchAssumption
  <2>3. BalanceConserved <=> balance >= 0 /\ balance + SumFunctionOnSet(p, Request) = Seed
    BY DEF BalanceConserved, SumFunction, Payments
  <2> QED
    BY <2>1, <2>2, <2>3, WalletAssumption DEF WalletAssumption
<1>2. PathInv /\ BalanceConserved /\ [Next]_vars => BalanceConserved'
  BY NextConserves
<1>3. Spec => []PathInv
  BY PathsAlways, PTL
<1> QED
  BY <1>1, <1>2, <1>3, PTL DEF Spec

----------------------------------------------------------------------------
(* Refinement *)

\* The abstract variables.
AbsLedger == [r \in Reliable |-> ledger[r]]
AbsReply == [r \in Reliable |-> reply[r]]

\* A step of a request whose wallet throws is invisible in Settlement.
LEMMA UnreliableStutters ==
  ASSUME PathInv, NEW r \in Request \ Reliable,
         \E c \in Nat : WalletReserve(r, c) \/ WalletCommit(r, c) \/ WalletRefund(r)
                                             \/ UNCHANGED walletVars,
         reply' = reply \/ \E a \in {"ok", "error"} : reply' = [reply EXCEPT ![r] = a]
  PROVE  UNCHANGED S!vars
<1>1. \A q \in Reliable : ledger'[q] = ledger[q]
  BY DEF PathInv, TypeOK, WalletTypeOK, WalletReserve, WalletCommit, WalletRefund, walletVars,
         Reliable
<1>2. \A q \in Reliable : reply'[q] = reply[q]
  BY DEF PathInv, TypeOK, Reliable
<1>3. AbsLedger' = AbsLedger /\ AbsReply' = AbsReply
  BY <1>1, <1>2 DEF AbsLedger, AbsReply, Reliable
<1> QED
  BY <1>3 DEF S!vars, AbsLedger, AbsReply

\* The abstract variables when one request's concrete variables change.
LEMMA ReliableChanges ==
  ASSUME PathInv, NEW r \in Reliable, NEW v
  PROVE  /\ ledger' = [ledger EXCEPT ![r] = v] => AbsLedger' = [AbsLedger EXCEPT ![r] = v]
         /\ reply' = [reply EXCEPT ![r] = v] => AbsReply' = [AbsReply EXCEPT ![r] = v]
BY DEF PathInv, TypeOK, WalletTypeOK, AbsLedger, AbsReply, Reliable

\* One step of the dispatchers is a step of Settlement or a stutter.
LEMMA StepRefines == PathInv /\ [Next]_vars => [S!Next]_(S!vars)
<1> SUFFICES ASSUME PathInv, [Next]_vars PROVE [S!Next]_(S!vars)
  OBVIOUS
<1> USE DEF Goto, Caught, Finish
<1>u. ASSUME UNCHANGED <<ledger, reply>> PROVE [S!Next]_(S!vars)
  BY <1>u DEF S!vars
<1>1. ASSUME NEW r \in Request, Reject(r) PROVE [S!Next]_(S!vars)
  <2>1. CASE r \in Reliable
    <3>1. AbsReply' = [AbsReply EXCEPT ![r] = "error"] /\ AbsLedger' = AbsLedger
      BY <1>1, <2>1, ReliableChanges DEF Reject, walletVars, AbsLedger
    <3>2. AbsReply[r] = "pending" /\ AbsLedger[r] = "none"
      BY <1>1, <2>1 DEF Reject, PathInv, Path, PathNew, AbsReply, AbsLedger
    <3> QED
      BY <2>1, <3>1, <3>2 DEF S!Next, S!Answer, S!Set, AbsReply, AbsLedger
  <2> QED
    BY <1>1, <2>1, UnreliableStutters DEF Reject
<1>2. ASSUME NEW r \in Request, NEW units \in 1 .. MaxUnits, Reserve(r, units) PROVE [S!Next]_(S!vars)
  <2>1. CASE r \in Reliable /\ r \notin Postpaid
    <3>1. AbsLedger' = [AbsLedger EXCEPT ![r] = "open"] /\ AbsReply' = AbsReply
      BY <1>2, <2>1, ReliableChanges DEF Reserve, WalletReserve, AbsReply
    <3>2. AbsReply[r] = "pending" /\ AbsLedger[r] = "none"
      BY <1>2, <2>1 DEF Reserve, PathInv, Path, PathNew, AbsReply, AbsLedger
    <3> QED
      BY <2>1, <3>1, <3>2 DEF S!Next, S!Open, S!Set, AbsReply, AbsLedger
  <2>2. CASE r \in Postpaid
    BY <1>u, <1>2, <2>2 DEF Reserve, walletVars
  <2>3. CASE r \notin Reliable
    BY <1>2, <2>3, UnreliableStutters DEF Reserve
  <2> QED
    BY <2>1, <2>2, <2>3
<1>3. ASSUME NEW r \in Request, NEW units \in 1 .. MaxUnits, ReserveThrows(r, units) PROVE [S!Next]_(S!vars)
  <2>1. CASE UNCHANGED walletVars
    BY <1>u, <1>3, <2>1 DEF ReserveThrows, walletVars
  <2> QED
    BY <1>3, <2>1, UnreliableStutters DEF ReserveThrows, Reliable
<1>4. ASSUME NEW r \in Request, SelectNode(r) PROVE [S!Next]_(S!vars)
  BY <1>u, <1>4 DEF SelectNode, walletVars
<1>5. ASSUME NEW r \in Request, CreatePayment(r) PROVE [S!Next]_(S!vars)
  BY <1>u, <1>5 DEF CreatePayment, walletVars
<1>6. ASSUME NEW r \in Request, UpstreamFails(r) PROVE [S!Next]_(S!vars)
  BY <1>u, <1>6 DEF UpstreamFails, walletVars
<1>7. ASSUME NEW r \in Request, NEW k \in 0 .. MaxReport, CallWorker(r, k) PROVE [S!Next]_(S!vars)
  BY <1>u, <1>7 DEF CallWorker, walletVars
<1>8. ASSUME NEW r \in Request, Commit(r) PROVE [S!Next]_(S!vars)
  <2>1. CASE r \in Reliable /\ handle[r] # "null"
    <3>1. ledger[r] = "open" /\ reply[r] = "pending"
      BY <1>8, <2>1 DEF Commit, PathInv, Path, PathHolding, Holding
    <3>2. AbsLedger' = [AbsLedger EXCEPT ![r] = "committed"] /\ AbsReply' = AbsReply
      BY <1>8, <2>1, <3>1, ReliableChanges DEF Commit, WalletCommit, AbsReply
    <3> QED
      BY <2>1, <3>1, <3>2 DEF S!Next, S!Commit, S!Set, AbsReply, AbsLedger
  <2>2. CASE handle[r] = "null"
    BY <1>u, <1>8, <2>2 DEF Commit, walletVars
  <2>3. CASE r \notin Reliable
    <3>1. actual[r] \in Nat
      BY DEF PathInv, TypeOK
    <3> QED
      BY <1>8, <2>3, <3>1, UnreliableStutters DEF Commit
  <2> QED
    BY <2>1, <2>2, <2>3
<1>9. ASSUME NEW r \in Request, CommitThrows(r) PROVE [S!Next]_(S!vars)
  <2>1. actual[r] \in Nat
    BY DEF PathInv, TypeOK
  <2> QED
    BY <1>9, <2>1, UnreliableStutters DEF CommitThrows, Reliable
<1>10. ASSUME NEW r \in Request, Record(r) PROVE [S!Next]_(S!vars)
  <2>1. CASE r \in Reliable
    <3>1. AbsReply' = [AbsReply EXCEPT ![r] = "ok"] /\ AbsLedger' = AbsLedger
      BY <1>10, <2>1, ReliableChanges DEF Record, walletVars, AbsLedger
    <3>2. AbsReply[r] = "pending" /\ AbsLedger[r] \in {"none", "committed"}
      BY <1>10, <2>1 DEF Record, PathInv, Path, PathRecord, Charged, AbsReply, AbsLedger
    <3> QED
      BY <2>1, <3>1, <3>2 DEF S!Next, S!Answer, S!Set, AbsReply, AbsLedger
  <2> QED
    BY <1>10, <2>1, UnreliableStutters DEF Record
<1>11. ASSUME NEW r \in Request, RecordThrows(r) PROVE [S!Next]_(S!vars)
  BY <1>u, <1>11 DEF RecordThrows, walletVars
<1>12. ASSUME NEW r \in Request, Catch(r) PROVE [S!Next]_(S!vars)
  <2>1. CASE r \in Reliable
    <3>1. reply[r] = "pending" /\ ledger[r] # "refunded"
          /\ (ledger[r] = "open" => handle[r] = "held" /\ ~committed[r])
      BY <1>12, <2>1 DEF Catch, PathInv, Path, PathCatch, Reliable
    <3>2. AbsReply' = [AbsReply EXCEPT ![r] = "error"] /\ AbsReply[r] = "pending"
      BY <1>12, <2>1, <3>1, ReliableChanges DEF Catch, AbsReply
    <3>3. CASE ledger[r] = "open"
      <4>1. AbsLedger' = [AbsLedger EXCEPT ![r] = "refunded"] /\ AbsLedger[r] = "open"
        BY <1>12, <2>1, <3>1, <3>3, ReliableChanges DEF Catch, WalletRefund, AbsLedger
      <4> QED
        BY <2>1, <3>2, <4>1 DEF S!Next, S!Refund, S!Set, AbsReply, AbsLedger
    <3>4. CASE ledger[r] # "open"
      <4>1. AbsLedger' = AbsLedger /\ AbsLedger[r] # "open"
        BY <1>12, <2>1, <3>1, <3>4 DEF Catch, WalletRefund, walletVars, AbsLedger
      <4> QED
        BY <2>1, <3>2, <4>1 DEF S!Next, S!Answer, S!Set, AbsReply, AbsLedger
    <3> QED
      BY <3>3, <3>4
  <2> QED
    BY <1>12, <2>1, UnreliableStutters DEF Catch
<1>13. ASSUME NEW r \in Request, RefundThrows(r) PROVE [S!Next]_(S!vars)
  BY <1>13, UnreliableStutters DEF RefundThrows, Reliable
<1>14. CASE Crash
  BY <1>u, <1>14 DEF Crash, walletVars
<1>15. CASE UNCHANGED vars
  BY <1>u, <1>15 DEF vars, dispatchVars, walletVars
<1>16. ASSUME NEW r \in Request, AuditThrows(r) \/ DriftThrows(r) PROVE [S!Next]_(S!vars)
  BY <1>u, <1>16 DEF AuditThrows, DriftThrows, walletVars
<1> QED
  BY <1>1, <1>2, <1>3, <1>4, <1>5, <1>6, <1>7, <1>8, <1>9, <1>10, <1>11, <1>12, <1>13, <1>14, <1>15, <1>16 DEF Next, Step

\* The dispatchers implement the settlement protocol for every set of
\* requests whose wallet calls work, under crashes, failed usage records and
\* whatever the wallet does to the other requests.
THEOREM DispatchRefinesSettlement == Spec => ImplementsSettlement
<1>1. Init => S!Init
  BY DEF Init, WalletInit, S!Init, Reliable
<1>2. PathInv /\ [Next]_vars => [S!Next]_(S!vars)
  BY StepRefines
<1> QED
  BY <1>1, <1>2, PathsAlways, PTL DEF Spec, ImplementsSettlement, S!Spec
=============================================================================
