------------------------------ MODULE Dispatch ------------------------------
(***************************************************************************)
(* The non-streaming dispatchers: dispatchChatCompletion,                  *)
(* dispatchEmbeddings, dispatchImages, dispatchSpeech and                  *)
(* dispatchTranscriptions of src/dispatch/, which share one pipeline:      *)
(*                                                                         *)
(*   reserve - select node - create payment - call worker - check answer - *)
(*   commit - insert usage record - return, with one catch block that      *)
(*   refunds unless the commit has happened.                               *)
(*                                                                         *)
(* Chat also counts the tokens of the answer before the record and reports *)
(* their drift after it.                                                   *)
(*                                                                         *)
(* pc[r] is the await at which request r's dispatcher is suspended; the    *)
(* dispatchers of several requests of one caller interleave there and      *)
(* share the caller's balance.  Amounts are counted in units of the rate   *)
(* card's price.                                                           *)
(*                                                                         *)
(* Bounds: MaxUnits reserved per request, MaxReport reported by a node.    *)
(***************************************************************************)
EXTENDS Wallet, FiniteSets, Functions

CONSTANTS
    Postpaid,   \* the requests whose wallet's reserve returns null
    Endpoint,   \* the endpoints in use
    MaxUnits,
    MaxReport,
    Faults      \* per request, what may go wrong beyond the worker and the daemons

Endpoints == {"chat", "embeddings", "images", "speech", "transcriptions"}

\* "wallet": an operation of the wallet throws, before or after its effect.
\* "db": insertUsageRecord throws.  "audit": the token audit of chat throws,
\* as its tokenizer does for text with a special token and its metrics may for
\* a drift that is not finite.  "crash": the process dies.  "ratecard": the
\* operator edits the rate card while the request is in flight.
ASSUME DispatchAssumption ==
    /\ IsFiniteSet(Request)
    /\ Postpaid \subseteq Request
    /\ Endpoint \subseteq Endpoints
    /\ MaxUnits \in Nat
    /\ MaxReport \in Nat
    /\ Faults \in [Request -> SUBSET {"wallet", "db", "audit", "crash", "ratecard"}]

VARIABLES
    pc,         \* where the dispatcher of a request is suspended
    endpoint,   \* which dispatcher it is
    estimate,   \* the units reserved
    actual,     \* the units computed from the answer
    handle,     \* the local `handle': "unset", "null" or "held"
    committed,  \* the local `committed'
    recorded,   \* its usage record was inserted
    reply       \* what the client got

dispatchVars == <<pc, endpoint, estimate, actual, handle, committed, recorded, reply>>

vars == <<walletVars, dispatchVars>>

PC == {"new", "select", "pay", "call", "commit", "record", "catch", "done", "lost"}

Suspended == PC \ {"new", "done", "lost"}

TypeOK ==
    /\ WalletTypeOK
    /\ pc \in [Request -> PC]
    /\ endpoint \in [Request -> Endpoints]
    /\ estimate \in [Request -> Nat]
    /\ actual \in [Request -> Nat]
    /\ handle \in [Request -> {"unset", "null", "held"}]
    /\ committed \in [Request -> BOOLEAN]
    /\ recorded \in [Request -> BOOLEAN]
    /\ reply \in [Request -> {"pending", "ok", "error"}]

Init ==
    /\ WalletInit
    /\ pc = [r \in Request |-> "new"]
    /\ endpoint \in [Request -> Endpoint]
    /\ estimate = [r \in Request |-> 0]
    /\ actual = [r \in Request |-> 0]
    /\ handle = [r \in Request |-> "unset"]
    /\ committed = [r \in Request |-> FALSE]
    /\ recorded = [r \in Request |-> FALSE]
    /\ reply = [r \in Request |-> "pending"]

Goto(r, from, to) == pc[r] = from /\ pc' = [pc EXCEPT ![r] = to]

\* Caught(r, from): the await (or the check after it) at `from' throws.
Caught(r, from) == Goto(r, from, "catch")

\* The dispatcher ends and the client is answered.
Finish(r, from, answer) ==
    /\ Goto(r, from, "done")
    /\ reply' = [reply EXCEPT ![r] = answer]

----------------------------------------------------------------------------
(* The pipeline *)

\* An unknown model, a free-tier caller of a paid endpoint, an unknown tier or
\* a prompt the audit cannot count: thrown before anything is reserved.
Reject(r) ==
    /\ Finish(r, "new", "error")
    /\ UNCHANGED <<walletVars, endpoint, estimate, actual, handle, committed, recorded>>

\* wallet.reserve returned a handle, or null for a postpaid caller.
Reserve(r, units) ==
    /\ Goto(r, "new", "select")
    /\ estimate' = [estimate EXCEPT ![r] = units]
    /\ IF r \in Postpaid
       THEN handle' = [handle EXCEPT ![r] = "null"] /\ UNCHANGED walletVars
       ELSE handle' = [handle EXCEPT ![r] = "held"] /\ WalletReserve(r, units)
    /\ UNCHANGED <<endpoint, actual, committed, recorded, reply>>

\* wallet.reserve threw: the balance does not cover the estimate, or the
\* wallet failed, perhaps after it set the money aside.
ReserveThrows(r, units) ==
    /\ Caught(r, "new")
    /\ estimate' = [estimate EXCEPT ![r] = units]
    /\ \/ ~Covers(units) /\ UNCHANGED walletVars
       \/ "wallet" \in Faults[r] /\ (WalletReserve(r, units) \/ UNCHANGED walletVars)
    /\ UNCHANGED <<endpoint, actual, handle, committed, recorded, reply>>

\* A node was selected and its quote was in the cache.
SelectNode(r) ==
    /\ Goto(r, "select", "pay")
    /\ UNCHANGED <<walletVars, endpoint, estimate, actual, handle, committed, recorded, reply>>

CreatePayment(r) ==
    /\ Goto(r, "pay", "call")
    /\ UNCHANGED <<walletVars, endpoint, estimate, actual, handle, committed,
                   recorded, reply>>

\* No node, no quote, no payment, no answer, a status of 400 or more, an
\* answer without usage.
UpstreamFails(r) ==
    /\ pc[r] \in {"select", "pay", "call"}
    /\ Caught(r, pc[r])
    /\ UNCHANGED <<walletVars, endpoint, estimate, actual, handle, committed, recorded, reply>>

\* Mutation: a node may return more images than were asked for.
AcceptableUncapped(r, n) == endpoint[r] = "images" => n > 0

\* The checks on a 2xx answer that reports n units.
Acceptable(r, n) == endpoint[r] = "images" => n > 0 /\ n <= estimate[r]

\* compute...ActualCost: speech is billed by the characters of the request.
\* An edited rate card may change the amount; if it lost the model the
\* computation throws, which UpstreamFails covers.
ActualCosts(r, n) ==
    IF "ratecard" \in Faults[r]
    THEN 0 .. MaxReport
    ELSE {IF endpoint[r] = "speech" THEN estimate[r] ELSE n}

CallWorker(r, n) ==
    /\ Goto(r, "call", IF Acceptable(r, n) THEN "commit" ELSE "catch")
    /\ IF Acceptable(r, n)
       THEN \E cost \in ActualCosts(r, n) : actual' = [actual EXCEPT ![r] = cost]
       ELSE UNCHANGED actual
    /\ UNCHANGED <<walletVars, endpoint, estimate, handle, committed, recorded, reply>>

\* Mutation: the estimate is committed.
CommitEstimate(r) ==
    /\ Goto(r, "commit", "record")
    /\ IF handle[r] = "null" THEN UNCHANGED walletVars ELSE WalletCommit(r, estimate[r])
    /\ committed' = [committed EXCEPT ![r] = TRUE]
    /\ UNCHANGED <<endpoint, estimate, actual, handle, recorded, reply>>

\* commit is skipped for a null handle.
Commit(r) ==
    /\ Goto(r, "commit", "record")
    /\ IF handle[r] = "null" THEN UNCHANGED walletVars ELSE WalletCommit(r, actual[r])
    /\ committed' = [committed EXCEPT ![r] = TRUE]
    /\ UNCHANGED <<endpoint, estimate, actual, handle, recorded, reply>>

\* Mutation: the commit's error is swallowed.
CommitSwallows(r) ==
    /\ "wallet" \in Faults[r] /\ handle[r] # "null"
    /\ Goto(r, "commit", "record")
    /\ UNCHANGED <<walletVars, endpoint, estimate, actual, handle, committed, recorded, reply>>

\* wallet.commit threw, perhaps after it charged the caller.
CommitThrows(r) ==
    /\ "wallet" \in Faults[r] /\ handle[r] # "null"
    /\ Caught(r, "commit")
    /\ WalletCommit(r, actual[r]) \/ UNCHANGED walletVars
    /\ UNCHANGED <<endpoint, estimate, actual, handle, committed, recorded, reply>>

\* Chat, after the commit: the tokens of the answer cannot be counted.
AuditThrows(r) ==
    /\ endpoint[r] = "chat" /\ "audit" \in Faults[r]
    /\ Caught(r, "record")
    /\ UNCHANGED <<walletVars, endpoint, estimate, actual, handle, committed, recorded, reply>>

\* insertUsageRecord, then the response is returned.
Record(r) ==
    /\ Finish(r, "record", "ok")
    /\ recorded' = [recorded EXCEPT ![r] = TRUE]
    /\ UNCHANGED <<walletVars, endpoint, estimate, actual, handle, committed>>

RecordThrows(r) ==
    /\ "db" \in Faults[r]
    /\ Caught(r, "record")
    /\ UNCHANGED <<walletVars, endpoint, estimate, actual, handle, committed, recorded, reply>>

\* Chat, after insertUsageRecord: the drift cannot be reported.
DriftThrows(r) ==
    /\ endpoint[r] = "chat" /\ "audit" \in Faults[r]
    /\ Caught(r, "record")
    /\ recorded' = [recorded EXCEPT ![r] = TRUE]
    /\ UNCHANGED <<walletVars, endpoint, estimate, actual, handle, committed, reply>>

\* Mutation: the reservation of a failed request is left open.
CatchWithoutRefund(r) ==
    /\ Finish(r, "catch", "error")
    /\ UNCHANGED <<walletVars, endpoint, estimate, actual, handle, committed, recorded>>

\* Mutation: the refund comes after the client's answer, or never.
CatchAnswersFirst(r) ==
    /\ pc[r] = "catch"
    /\ reply' = [reply EXCEPT ![r] = "error"]
    /\ IF reply[r] = "error"
       THEN Goto(r, "catch", "done") /\ WalletRefund(r)
       ELSE UNCHANGED <<pc, walletVars>>
    /\ UNCHANGED <<endpoint, estimate, actual, handle, committed, recorded>>

\* The catch block: refund unless nothing is held or it was committed.
Catch(r) ==
    /\ Finish(r, "catch", "error")
    /\ IF handle[r] = "held" /\ ~committed[r] THEN WalletRefund(r) ELSE UNCHANGED walletVars
    /\ UNCHANGED <<endpoint, estimate, actual, handle, committed, recorded>>

\* wallet.refund threw, before its effect: the error is swallowed.
RefundThrows(r) ==
    /\ "wallet" \in Faults[r] /\ handle[r] = "held" /\ ~committed[r]
    /\ Finish(r, "catch", "error")
    /\ UNCHANGED <<walletVars, endpoint, estimate, actual, handle, committed, recorded>>

\* The process dies: its dispatchers are gone, the wallet is not.
Crash ==
    /\ \E r \in Request : "crash" \in Faults[r]
    /\ \E r \in Request : pc[r] \in Suspended
    /\ pc' = [r \in Request |-> IF pc[r] \in Suspended THEN "lost" ELSE pc[r]]
    /\ UNCHANGED <<walletVars, endpoint, estimate, actual, handle, committed, recorded, reply>>

\* The steps of a dispatcher that is under way.
Step(r) ==
    \/ SelectNode(r) \/ CreatePayment(r) \/ UpstreamFails(r)
    \/ \E n \in 0 .. MaxReport : CallWorker(r, n)
    \/ Commit(r) \/ CommitThrows(r)
    \/ AuditThrows(r) \/ Record(r) \/ RecordThrows(r) \/ DriftThrows(r)
    \/ Catch(r) \/ RefundThrows(r)

Next ==
    \/ \E r \in Request :
          \/ Reject(r)
          \/ \E units \in 1 .. MaxUnits : Reserve(r, units) \/ ReserveThrows(r, units)
          \/ Step(r)
    \/ Crash

\* Every await of a dispatcher settles: the calls to daemons and workers have
\* timeouts, the wallet and the database answer or throw.
Fairness == \A r \in Request : WF_vars(Step(r))

Spec == Init /\ [][Next]_vars /\ Fairness

----------------------------------------------------------------------------
(* Properties *)

\* The requests whose wallet calls do not throw.
Reliable == {r \in Request : "wallet" \notin Faults[r]}

\* The dispatchers implement the settlement protocol for every request whose
\* wallet calls work, also when the process may die at any await, the usage
\* record may fail and the wallet calls of other requests throw.
S == INSTANCE Settlement WITH Request <- Reliable,
        ledger <- [r \in Reliable |-> ledger[r]],
        reply <- [r \in Reliable |-> reply[r]]

ImplementsSettlement == S!Spec

\* Nobody is answered while the request's money is still set aside: every
\* path of every dispatcher to an answer passes through commit or refund,
\* whatever the requests around it go through.
SettledWhenAnswered == \A r \in Reliable : reply[r] # "pending" => ledger[r] # "open"

\* What may still throw once the commit has happened.
LateFaults(r) == {"db"} \cup (IF endpoint[r] = "chat" THEN {"audit"} ELSE {})

\* A client that is told of an error has got its money back, unless the error
\* came after the commit: from insertUsageRecord or, in chat alone, from the
\* token audit on either side of it.  Those charge the client for an answer it
\* never gets; nothing that fails before the commit does.
ErrorIsRefunded ==
    \A r \in Reliable :
        reply[r] = "error" =>
            \/ ledger[r] \in {"none", "refunded"}
            \/ committed[r] /\ Faults[r] \cap LateFaults(r) # {}

\* A prepaid client that gets an answer is charged what the answer costs, under
\* every fault.  Of postpaid callers it is false: commit is skipped for a null
\* handle, and the wallet never hears of the amount.
ChargedIfAnswered ==
    \A r \in Request \ Postpaid :
        reply[r] = "ok" => ledger[r] = "committed" /\ charged[r] = actual[r]

\* The endpoints whose charge the worker's report cannot raise above the
\* reservation, while the rate card stays.
Capped(r) == endpoint[r] \in {"images", "speech"} /\ "ratecard" \notin Faults[r]

\* Images and speech never cost more than was reserved for them, while the
\* rate card stays: the checks on the worker's answer bound the charge
\* whatever the worker reports.
ChargeWithinEstimate == \A r \in Request : Capped(r) => charged[r] <= held[r]

\* No cent of the caller is lost or made by concurrent reservations, failed
\* and repeated wallet calls and crashes, nor is more spent than there is: the
\* balance and what its requests took always add up to what it was.
BalanceConserved ==
    /\ balance >= 0
    /\ balance + SumFunction([r \in Request |-> Paid(r)]) = Seed

\* A usage record is backed by a commit of the amount it shows, whichever step
\* failed or was cut off by a crash.  The wallet took that amount, or, where a
\* worker reported more than was reserved, all that was reserved: then the
\* record shows more than the caller paid, which images and speech rule out.
RecordedIsCharged ==
    \A r \in Request : recorded[r] /\ r \notin Postpaid =>
        /\ ledger[r] = "committed" /\ charged[r] = actual[r]
        /\ \/ Paid(r) = actual[r]
           \/ Paid(r) = held[r] /\ held[r] < actual[r] /\ ~Capped(r)

\* Every reservation is settled in the end unless the process dies under it:
\* no error path, wherever it starts, strands the money of the caller.
EveryReservationSettles ==
    \A r \in Reliable :
        ledger[r] = "open" ~> ledger[r] \in {"committed", "refunded"} \/ pc[r] = "lost"

\* The token audit only observes: where nothing else fails, a request that was
\* charged is answered.  (Fails: in chat the audit's calls between the commit
\* and the return are in the dispatcher's one try, without a catch of their
\* own.)
AuditOnlyObserves ==
    \A r \in Request : committed[r] /\ Faults[r] \subseteq {"audit"} => reply[r] # "error"
=============================================================================
