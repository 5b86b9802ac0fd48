-------------------------- MODULE StreamingDispatch --------------------------
(***************************************************************************)
(* dispatchStreamingChatCompletion of                                      *)
(* src/dispatch/streamingChatCompletion.ts with runWithRetry               *)
(* (src/service/routing/retry.ts), selectNode (router.ts) and              *)
(* settleReservation, called by the handler of                             *)
(* src/runtime/http/chat/streaming.ts.                                     *)
(*                                                                         *)
(* pc[r] is the await at which request r is suspended.  The requests share *)
(* the circuit breakers, through which one request's failed attempts       *)
(* decide where the others may go, and one caller's balance.  The refresh  *)
(* loop, which also moves the circuits, is in NodeHealth.                  *)
(*                                                                         *)
(* Abstractions: a stream is reduced to whether text was delivered and to  *)
(* the last usage chunk; amounts are units of the rate card's price.       *)
(* Bounds: MaxUnits reserved per request, MaxReport per usage chunk.       *)
(***************************************************************************)
EXTENDS Wallet, CircuitBreaker

CONSTANTS
    Node,
    Postpaid,   \* the requests whose wallet's reserve returns null
    MaxUnits,
    MaxReport,
    Faults      \* per request, what may go wrong beyond the workers

\* "wallet": an operation of the wallet throws.  "db": insertUsageRecord
\* throws.  "audit": a count of the token audit throws, as its tokenizer does
\* for text with a special token.  "crash": the process dies.  "ratecard": the
\* operator takes the model off the rate card.  "registry": the registry fails
\* or offers no node.  "payer": no payment can be created.  "quote": a node has
\* no fresh quote.  "client": the client disconnects.
ASSUME StreamingAssumption ==
    /\ Postpaid \subseteq Request
    /\ MaxUnits \in Nat
    /\ MaxReport \in Nat
    /\ Faults \in [Request -> SUBSET {"wallet", "db", "audit", "crash", "ratecard",
                                      "registry", "payer", "quote", "client"}]

VARIABLES
    circuit,    \* CircuitBreaker.states
    pc,         \* where the dispatcher of a request is suspended
    attempt,    \* runWithRetry's loop counter
    node,       \* the node of the current attempt, or NoNode
    aborted,    \* signal.aborted
    started,    \* onStreamStart was called
    token,      \* firstTokenDelivered
    usage,      \* capturedUsage, or NoUsage
    recorded,   \* its usage record was inserted
    reply       \* how the response ended

requestVars == <<pc, attempt, node, aborted, started, token, usage, recorded, reply>>

vars == <<walletVars, circuit, requestVars>>

NoNode == "no node"
NoUsage == -1
MAX_RETRY_ATTEMPTS == 3

PC == {"new", "select", "attempt", "refund", "stream", "settle", "record", "done", "lost"}

Suspended == PC \ {"new", "done", "lost"}

\* "ok": the stream and [DONE].  "error": an error envelope, or an error
\* chunk and [DONE].  "cut": the response just ends.
Reply == {"pending", "ok", "error", "cut"}

TypeOK ==
    /\ WalletTypeOK
    /\ circuit \in [Node -> CircuitState]
    /\ pc \in [Request -> PC]
    /\ attempt \in [Request -> 0 .. MAX_RETRY_ATTEMPTS]
    /\ node \in [Request -> Node \cup {NoNode}]
    /\ aborted \in [Request -> BOOLEAN]
    /\ started \in [Request -> BOOLEAN]
    /\ token \in [Request -> BOOLEAN]
    /\ usage \in [Request -> Nat \cup {NoUsage}]
    /\ recorded \in [Request -> BOOLEAN]
    /\ reply \in [Request -> Reply]

Init ==
    /\ WalletInit
    /\ circuit = [n \in Node |-> initialCircuitState]
    /\ pc = [r \in Request |-> "new"]
    /\ attempt = [r \in Request |-> 0]
    /\ node = [r \in Request |-> NoNode]
    /\ aborted = [r \in Request |-> FALSE]
    /\ started = [r \in Request |-> FALSE]
    /\ token = [r \in Request |-> FALSE]
    /\ usage = [r \in Request |-> NoUsage]
    /\ recorded = [r \in Request |-> FALSE]
    /\ reply = [r \in Request |-> "pending"]

Goto(r, from, to) == pc[r] = from /\ pc' = [pc EXCEPT ![r] = to]

\* The dispatcher ends, and with it the response.
Finish(r, from, answer) ==
    /\ Goto(r, from, "done")
    /\ reply' = [reply EXCEPT ![r] = answer]

----------------------------------------------------------------------------
(* Before the stream *)

\* wallet.reserve, then the first iteration of runWithRetry.
Reserve(r, units) ==
    /\ Goto(r, "new", "select")
    /\ IF r \in Postpaid THEN UNCHANGED walletVars ELSE WalletReserve(r, units)
    /\ attempt' = [attempt EXCEPT ![r] = 1]
    /\ UNCHANGED <<circuit, node, aborted, started, token, usage, recorded,
                   reply>>

\* An unknown model, a prompt that cannot be counted, or wallet.reserve threw,
\* perhaps after its effect.
ReserveThrows(r) ==
    /\ Finish(r, "new", "error")
    /\ \/ UNCHANGED walletVars
       \/ "wallet" \in Faults[r] /\ \E units \in 1 .. MaxUnits : WalletReserve(r, units)
    /\ UNCHANGED <<circuit, attempt, node, aborted, started, token, usage,
                   recorded>>

\* selectNode: a candidate of the registry that is not excluded.
SelectNode(r, n) ==
    /\ Goto(r, "select", "attempt")
    /\ ~Excluded(circuit[n])
    /\ node' = [node EXCEPT ![r] = n]
    /\ UNCHANGED <<walletVars, circuit, attempt, aborted, started, token, usage,
                   recorded, reply>>

\* selectNode throws, NoHealthyNodesError or the registry's error.  Nothing
\* between it and the handler catches it: there is no refund.
SelectThrows(r) ==
    /\ "registry" \in Faults[r] \/ \A n \in Node : Excluded(circuit[n])
    /\ Finish(r, "select", "error")
    /\ UNCHANGED <<walletVars, circuit, attempt, node, aborted, started, token,
                   usage, recorded>>

\* Mutation: the attempts are not counted.
RetryForever(r) ==
    /\ Goto(r, "attempt", "select")
    /\ circuit' = [circuit EXCEPT ![node[r]] = onFailure(@).state]
    /\ UNCHANGED attempt

\* runWithRetry after a failed attempt with disposition retry_next_node: the
\* circuit breaker is told, unless it was the last attempt.
RetryNextNode(r) ==
    IF attempt[r] = MAX_RETRY_ATTEMPTS
    THEN Goto(r, "attempt", "refund") /\ UNCHANGED <<attempt, circuit>>
    ELSE /\ Goto(r, "attempt", "select")
         /\ attempt' = [attempt EXCEPT ![r] = @ + 1]
         /\ circuit' = [circuit EXCEPT ![node[r]] = onFailure(@).state]

\* The node answers 5xx or not at all.
NodeFails(r) ==
    /\ RetryNextNode(r)
    /\ UNCHANGED <<walletVars, node, aborted, started, token, usage, recorded, reply>>

\* The attempt fails for a reason of the gateway's own: no fresh quote, no
\* payment, or a fetch that was aborted because the client left.
AttemptFails(r) ==
    /\ Faults[r] \cap {"quote", "payer"} # {} \/ aborted[r]
    /\ RetryNextNode(r)
    /\ UNCHANGED <<walletVars, node, aborted, started, token, usage, recorded, reply>>

\* A 4xx answer: no_retry, also when the abort cut its body short.
NodeRefuses(r) ==
    /\ Goto(r, "attempt", "refund")
    /\ UNCHANGED <<walletVars, circuit, attempt, node, aborted, started, token,
                   usage, recorded, reply>>

\* The last attempt failed: refund, then throw to the handler.
RefundAndThrow(r) ==
    /\ Finish(r, "refund", "error")
    /\ \/ IF r \in Postpaid THEN UNCHANGED walletVars ELSE WalletRefund(r)
       \/ "wallet" \in Faults[r] /\ UNCHANGED walletVars
    /\ UNCHANGED <<circuit, attempt, node, aborted, started, token, usage,
                   recorded>>

\* The attempt succeeded: the response is committed to a 200 stream.
StreamStarts(r) ==
    /\ Goto(r, "attempt", "stream")
    /\ ~aborted[r]
    /\ started' = [started EXCEPT ![r] = TRUE]
    /\ UNCHANGED <<walletVars, circuit, attempt, node, aborted, token, usage,
                   recorded, reply>>

----------------------------------------------------------------------------
(* The stream *)

\* A chunk whose delta has text is forwarded.
Delta(r) ==
    /\ pc[r] = "stream" /\ ~aborted[r]
    /\ token' = [token EXCEPT ![r] = TRUE]
    /\ UNCHANGED <<walletVars, circuit, pc, attempt, node, aborted, started, usage,
                   recorded, reply>>

\* A usage chunk; a later one replaces it.
UsageChunk(r, n) ==
    /\ pc[r] = "stream" /\ ~aborted[r]
    /\ usage' = [usage EXCEPT ![r] = n]
    /\ UNCHANGED <<walletVars, circuit, pc, attempt, node, aborted, started, token,
                   recorded, reply>>

\* [DONE], the end or an error of the upstream, its timeout, or the abort.
StreamEnds(r) ==
    /\ Goto(r, "stream", "settle")
    /\ UNCHANGED <<walletVars, circuit, attempt, node, aborted, started, token,
                   usage, recorded, reply>>

\* The stream has ended, but its text cannot be counted, or, for the estimate
\* of a stream without usage, the prompt: thrown outside every try, before
\* anything is settled.
CountThrows(r) ==
    /\ "audit" \in Faults[r] /\ token[r]
    /\ Finish(r, "stream", "cut")
    /\ UNCHANGED <<walletVars, circuit, attempt, node, aborted, started, token,
                   usage, recorded>>

----------------------------------------------------------------------------
(* settleReservation *)

\* Mutation: only a usage chunk is billed.
BillableByUsage(r) == usage[r] # NoUsage

\* The three cases: a usage chunk is billed as reported; text without usage
\* is billed by an estimate; nothing at all is refunded.
Billable(r) == usage[r] # NoUsage \/ token[r]

Costs(r) == IF usage[r] # NoUsage THEN {usage[r]} ELSE 0 .. MaxReport

\* What the client gets after the settlement, however it went: a clean end
\* only after a usage chunk.
Ending(r) == IF usage[r] # NoUsage THEN "ok" ELSE "error"

SettleCommit(r, cost) ==
    /\ Goto(r, "settle", "record")
    /\ Billable(r) /\ cost \in Costs(r)
    /\ IF r \in Postpaid THEN UNCHANGED walletVars ELSE WalletCommit(r, cost)
    /\ UNCHANGED <<circuit, attempt, node, aborted, started, token, usage,
                   recorded, reply>>

\* Mutation: a failed commit does not keep the record from being written.
CommitThrowsOn(r) ==
    /\ "wallet" \in Faults[r] /\ Billable(r) /\ r \notin Postpaid
    /\ Goto(r, "settle", "record")
    /\ UNCHANGED <<walletVars, circuit, attempt, node, aborted, started, token,
                   usage, recorded, reply>>

\* wallet.commit throws, perhaps after it charged the caller: swallowed, and
\* the usage record is skipped.
CommitThrows(r) ==
    /\ "wallet" \in Faults[r] /\ Billable(r) /\ r \notin Postpaid
    /\ Finish(r, "settle", Ending(r))
    /\ UNCHANGED walletVars \/ \E cost \in Costs(r) : WalletCommit(r, cost)
    /\ UNCHANGED <<circuit, attempt, node, aborted, started, token,
                   usage, recorded>>

\* The cost cannot be computed: that is outside settleReservation's try.
CostThrows(r) ==
    /\ "ratecard" \in Faults[r] /\ Billable(r)
    /\ Finish(r, "settle", "cut")
    /\ UNCHANGED <<walletVars, circuit, attempt, node, aborted, started, token,
                   usage, recorded>>

\* Mutation: the reservation of an empty stream is left open.
SettleEmpty(r) ==
    /\ ~Billable(r)
    /\ Finish(r, "settle", "error")
    /\ UNCHANGED <<walletVars, circuit, attempt, node, aborted, started, token,
                   usage, recorded>>

SettleRefund(r) ==
    /\ ~Billable(r)
    /\ Finish(r, "settle", "error")
    /\ \/ IF r \in Postpaid THEN UNCHANGED walletVars ELSE WalletRefund(r)
       \/ "wallet" \in Faults[r] /\ UNCHANGED walletVars
    /\ UNCHANGED <<circuit, attempt, node, aborted, started, token, usage,
                   recorded>>

\* insertUsageRecord, after a usage chunk preceded by a count of the prompt;
\* their errors are swallowed, and one of the drift report after them.
Record(r) ==
    /\ Finish(r, "record", Ending(r))
    /\ \/ recorded' = [recorded EXCEPT ![r] = TRUE]
       \/ "db" \in Faults[r] /\ UNCHANGED recorded
       \/ "audit" \in Faults[r] /\ usage[r] # NoUsage /\ UNCHANGED recorded
    /\ UNCHANGED <<walletVars, circuit, attempt, node, aborted, started, token,
                   usage>>

----------------------------------------------------------------------------
(* Environment *)

ClientLeaves(r) ==
    /\ "client" \in Faults[r]
    /\ pc[r] \in Suspended
    /\ aborted' = [aborted EXCEPT ![r] = TRUE]
    /\ UNCHANGED <<walletVars, circuit, pc, attempt, node, started, token, usage,
                   recorded, reply>>

TimePasses ==
    /\ circuit' = [n \in Node |-> Elapse(circuit[n])]
    /\ UNCHANGED <<walletVars, requestVars>>

\* The process dies and starts again: dispatchers and circuits are gone.
Crash ==
    /\ \E r \in Request : "crash" \in Faults[r]
    /\ \E r \in Request : pc[r] \in Suspended
    /\ pc' = [r \in Request |-> IF pc[r] \in Suspended THEN "lost" ELSE pc[r]]
    /\ circuit' = [n \in Node |-> initialCircuitState]
    /\ UNCHANGED <<walletVars, attempt, node, aborted, started, token, usage,
                   recorded, reply>>

\* The steps that a suspended dispatcher takes when its await settles.
Step(r) ==
    \/ \E n \in Node : SelectNode(r, n)
    \/ SelectThrows(r)
    \/ NodeFails(r) \/ AttemptFails(r) \/ NodeRefuses(r) \/ RefundAndThrow(r)
    \/ StreamStarts(r) \/ StreamEnds(r) \/ CountThrows(r)
    \/ \E cost \in 0 .. MaxReport : SettleCommit(r, cost)
    \/ CommitThrows(r) \/ CostThrows(r) \/ SettleRefund(r)
    \/ Record(r)

Next ==
    \/ \E r \in Request :
          \/ \E units \in 1 .. MaxUnits : Reserve(r, units)
          \/ ReserveThrows(r)
          \/ Step(r)
          \/ Delta(r)
          \/ \E n \in 0 .. MaxReport : UsageChunk(r, n)
          \/ ClientLeaves(r)
    \/ TimePasses
    \/ Crash

\* Every await settles: the upstream stream has a timeout of its own, so that
\* it ends although a worker may send chunks forever.
Fairness == \A r \in Request : WF_vars(Step(r))

Spec == Init /\ [][Next]_vars /\ Fairness

----------------------------------------------------------------------------
(* Properties *)

\* The requests whose wallet calls do not throw.
Reliable == {r \in Request : "wallet" \notin Faults[r]}

\* What the settlement protocol sees of the answer.  Two clients have in its
\* terms not been answered: one that is told of an error out of the retry
\* loop, past the refund, and one whose stream just ends because an error
\* between the stream and its settlement was caught by nobody.
Told(r) ==
    IF reply[r] = "cut" \/ (~started[r] /\ ledger[r] = "open") THEN "pending" ELSE reply[r]

\* But for those two leaks, the dispatcher implements the settlement protocol
\* for every request whose wallet works: with or without a stream, retries,
\* disconnects, failing records and the death of the process, money is set
\* aside once, settled once, and settled before the answer.
S == INSTANCE Settlement WITH Request <- Reliable,
        ledger <- [r \in Reliable |-> ledger[r]],
        reply <- [r \in Reliable |-> Told(r)]

ImplementsSettlement == S!Spec

Delivered(r) == token[r] \/ usage[r] # NoUsage

\* A stream that delivered something and was torn off before its settlement,
\* which takes an edited rate card or a token audit that throws.
Torn(r) ==
    reply[r] = "cut" /\ Delivered(r) /\ Faults[r] \cap {"ratecard", "audit"} # {}

\* Once the stream was opened, its reservation is settled before the client
\* sees the end of the stream, whatever ended it and whatever the requests
\* around it go through, unless it was torn off.
StartedStreamSettles ==
    \A r \in Reliable : started[r] /\ reply[r] # "pending" => ledger[r] # "open" \/ Torn(r)

\* A stream is charged for exactly if something billable was delivered: never
\* an empty stream, and always one that delivered text or reported usage, also
\* when the client disconnects in the middle of it, unless it was torn off.
BilledIffDelivered ==
    \A r \in Reliable \ Postpaid : started[r] /\ reply[r] # "pending" =>
        (ledger[r] = "committed" <=> Delivered(r)) \/ Torn(r)

\* A usage record is backed by a charge, whichever step of the settlement
\* failed or was cut off.
RecordedIsCharged ==
    \A r \in Request : recorded[r] /\ r \notin Postpaid => ledger[r] = "committed"

\* Every request that got a reservation is answered unless the process dies
\* under it: the retries end, the stream ends, and no settlement path forgets
\* the response, under every fault.
EveryRequestEnds ==
    \A r \in Request : pc[r] = "select" ~> reply[r] # "pending" \/ pc[r] = "lost"

\* Nobody is answered while the request's money is still set aside.  (Fails:
\* selectNode's error in the middle of the retries bypasses the refund.)
SettledWhenAnswered == \A r \in Request : reply[r] # "pending" => ledger[r] # "open"
=============================================================================
