------------------------------ MODULE Payments ------------------------------
(***************************************************************************)
(* The payments service: createPaymentForRequest                           *)
(* (src/service/payments/createPayment.ts) on the session cache            *)
(* (sessions.ts), whose sessions live in the payer daemon.                 *)
(*                                                                         *)
(* A request is suspended at startSession or at createPayment; requests,   *)
(* close(node), closeAll() and the expiry of quotes interleave there.      *)
(*                                                                         *)
(* A quote is the node that issued it, its age (a counter: quotes expire   *)
(* in the order of their issue) and the expirationBlock of its ticket      *)
(* parameters.  Node and quote are of one capability; all nodes have the   *)
(* same recipient, as the nodes of one operator do.                        *)
(* Bounds: MaxQuotes issued, MaxBlock expiration blocks.                   *)
(***************************************************************************)
EXTENDS NodePool, Naturals, Sequences, SequencesExt

CONSTANTS
    Request,
    MaxQuotes,
    MaxBlock,
    NoQuote,
    NoEntry

Quote == [node : Node, age : 1 .. MaxQuotes, block : 0 .. MaxBlock]

NoSession == 0

ASSUME PaymentsAssumption ==
    /\ MaxQuotes \in Nat /\ MaxBlock \in Nat
    /\ NoQuote \notin Quote
    /\ NoEntry \notin [workId : Nat, quote : Quote]

VARIABLES
    quotes,     \* quoteCache, per node
    issued,     \* quotes issued so far
    expired,    \* the quotes up to this age have expired
    entries,    \* the cache's Map, per key
    sessions,   \* the daemon's sessions; a workId is an index
    stage,      \* where the payment of a request stands
    quote,      \* the quote it is for
    workId,     \* the session it pays with
    closing,    \* the entries a close() or closeAll() still has to close
    sweeping    \* "close", "closeAll" or "none"

paymentVars == <<quotes, issued, expired, entries, sessions, stage, quote, workId,
                 closing, sweeping>>

\* Mutation: the expiration block is not part of the key.
keyWithoutBlock(q) == [node |-> q.node, block |-> 0]

\* keyToString: node, recipient and expirationBlock, no more.
keyToString(q) == [node |-> q.node, block |-> q.block]

Key == [node : Node, block : 0 .. MaxBlock]

Stage == {"idle", "arrived", "starting", "paying", "paid", "failed"}

PaymentTypeOK ==
    /\ quotes \in [Node -> Quote \cup {NoQuote}]
    /\ issued \in 0 .. MaxQuotes
    /\ expired \in 0 .. issued
    /\ entries \in [Key -> [workId : 1 .. Len(sessions), quote : Quote] \cup {NoEntry}]
    /\ sessions \in Seq([quote : Quote, open : BOOLEAN])
    /\ stage \in [Request -> Stage]
    /\ quote \in [Request -> Quote \cup {NoQuote}]
    /\ workId \in [Request -> 0 .. Len(sessions)]
    /\ closing \in Seq([workId : 1 .. Len(sessions), quote : Quote])
    /\ sweeping \in {"none", "close", "closeAll"}

PaymentInit ==
    /\ quotes = [n \in Node |-> NoQuote]
    /\ issued = 0
    /\ expired = 0
    /\ entries = [k \in Key |-> NoEntry]
    /\ sessions = <<>>
    /\ stage = [r \in Request |-> "idle"]
    /\ quote = [r \in Request |-> NoQuote]
    /\ workId = [r \in Request |-> NoSession]
    /\ closing = <<>>
    /\ sweeping = "none"

Expired(q) == q.age <= expired

Payable(n) == quotes[n] # NoQuote /\ ~Expired(quotes[n])

----------------------------------------------------------------------------
(* Quotes *)

\* A tick stores a new quote of node n; its block is the current one or the
\* next.
IssueQuote(n, block) ==
    /\ issued < MaxQuotes
    /\ issued' = issued + 1
    /\ quotes' = [quotes EXCEPT ![n] = [node |-> n, age |-> issued + 1, block |-> block]]
    /\ UNCHANGED <<expired, entries, sessions, stage, quote, workId, closing, sweeping>>

\* A tick whose answer has no quote of the capability: replaceNode forgets the
\* one there was.
DropQuote(n) ==
    /\ quotes' = [quotes EXCEPT ![n] = NoQuote]
    /\ UNCHANGED <<issued, expired, entries, sessions, stage, quote, workId, closing, sweeping>>

\* Time passes the expiry of the oldest quote.
QuoteExpires ==
    /\ expired < issued
    /\ expired' = expired + 1
    /\ UNCHANGED <<quotes, issued, entries, sessions, stage, quote, workId, closing, sweeping>>

----------------------------------------------------------------------------
(* createPaymentForRequest *)

Advance(r, to) == stage' = [stage EXCEPT ![r] = to]

\* A request is accepted; it is authenticated, reserved for and routed.
Arrive(r) ==
    /\ stage[r] = "idle"
    /\ Advance(r, "arrived")
    /\ UNCHANGED <<quotes, issued, expired, entries, sessions, quote, workId, closing, sweeping>>

\* It ends before it is to pay.
SelectFails(r) ==
    /\ stage[r] = "arrived"
    /\ Advance(r, "failed")
    /\ UNCHANGED <<quotes, issued, expired, entries, sessions, quote, workId, closing, sweeping>>

\* The daemon is unhealthy, or there is no quote or an expired one: refused
\* before any call.
Refuse(r, n, isHealthy) ==
    /\ stage[r] = "arrived"
    /\ ~(isHealthy /\ Payable(n))
    /\ Advance(r, "failed")
    /\ UNCHANGED <<quotes, issued, expired, entries, sessions, quote, workId, closing, sweeping>>

\* getOrStart finds an unexpired entry.
Hit(k) == entries[k] # NoEntry /\ ~Expired(entries[k].quote)

\* The checks and getOrStart up to its await, which are one step: an expired
\* entry is dropped, its session stays open in the daemon.
Pay(r, n, isHealthy) ==
    LET k == keyToString(quotes[n]) IN
    /\ stage[r] = "arrived"
    /\ isHealthy /\ Payable(n)
    /\ quote' = [quote EXCEPT ![r] = quotes[n]]
    /\ IF Hit(k)
       THEN /\ Advance(r, "paying")
            /\ workId' = [workId EXCEPT ![r] = entries[k].workId]
            /\ UNCHANGED entries
       ELSE /\ Advance(r, "starting")
            /\ entries' = [entries EXCEPT ![k] = NoEntry]
            /\ UNCHANGED workId
    /\ UNCHANGED <<quotes, issued, expired, sessions, closing, sweeping>>

\* The daemon opened a session: the entry is stored over whatever is there.
SessionStarted(r) ==
    /\ stage[r] = "starting"
    /\ sessions' = Append(sessions, [quote |-> quote[r], open |-> TRUE])
    /\ entries' = [entries EXCEPT ![keyToString(quote[r])] =
                      [workId |-> Len(sessions) + 1, quote |-> quote[r]]]
    /\ workId' = [workId EXCEPT ![r] = Len(sessions) + 1]
    /\ Advance(r, "paying")
    /\ UNCHANGED <<quotes, issued, expired, quote, closing, sweeping>>

SessionFails(r) ==
    /\ stage[r] = "starting"
    /\ Advance(r, "failed")
    /\ UNCHANGED <<quotes, issued, expired, entries, sessions, quote, workId, closing, sweeping>>

\* startSession fails although the daemon opened the session: the deadline
\* passed or the answer was lost.
SessionLost(r) ==
    /\ stage[r] = "starting"
    /\ sessions' = Append(sessions, [quote |-> quote[r], open |-> TRUE])
    /\ Advance(r, "failed")
    /\ UNCHANGED <<quotes, issued, expired, entries, quote, workId, closing, sweeping>>

\* The daemon pays from an open session only.
PaymentCreated(r) ==
    /\ stage[r] = "paying" /\ sessions[workId[r]].open
    /\ Advance(r, "paid")
    /\ UNCHANGED <<quotes, issued, expired, entries, sessions, quote, workId, closing, sweeping>>

\* Mutation: without a deadline, a call the daemon leaves alone never ends.
PaymentFailsNoDeadline(r) ==
    /\ stage[r] = "paying" /\ sessions[workId[r]].open
    /\ Advance(r, "failed")
    /\ UNCHANGED <<quotes, issued, expired, entries, sessions, quote, workId, closing, sweeping>>

PaymentFails(r) ==
    /\ stage[r] = "paying"
    /\ Advance(r, "failed")
    /\ UNCHANGED <<quotes, issued, expired, entries, sessions, quote, workId, closing, sweeping>>

\* The request is answered; the next one may come.
Answered(r) ==
    /\ stage[r] \in {"paid", "failed"}
    /\ Advance(r, "idle")
    /\ quote' = [quote EXCEPT ![r] = NoQuote]
    /\ workId' = [workId EXCEPT ![r] = NoSession]
    /\ UNCHANGED <<quotes, issued, expired, entries, sessions, closing, sweeping>>

----------------------------------------------------------------------------
(* close and closeAll *)

EntriesOf(keys) == SetToSeq({entries[k] : k \in {k \in keys : entries[k] # NoEntry}})

\* close(node) collects the node's entries; closeAll() takes them all out.
CloseNode(n) ==
    /\ sweeping = "none"
    /\ sweeping' = "close"
    /\ closing' = EntriesOf({k \in Key : k.node = n})
    /\ UNCHANGED <<quotes, issued, expired, entries, sessions, stage, quote, workId>>

CloseAll ==
    /\ sweeping = "none"
    /\ sweeping' = "closeAll"
    /\ closing' = EntriesOf(Key)
    /\ entries' = [k \in Key |-> NoEntry]
    /\ UNCHANGED <<quotes, issued, expired, sessions, stage, quote, workId>>

\* Mutation: the session is closed first and the entry deleted afterwards.
Uncache(e) == UNCHANGED entries

\* close() deletes the entry under the key of the one it collected, which may
\* be a newer one by now.
Delete(e) ==
    IF sweeping = "close"
    THEN entries' = [entries EXCEPT ![keyToString(e.quote)] = NoEntry]
    ELSE UNCHANGED entries

\* One closeSession, sent in the step that deletes the entry; its error is
\* swallowed.
CloseSession ==
    /\ closing # <<>>
    /\ Delete(Head(closing))
    /\ \/ sessions' = [sessions EXCEPT ![Head(closing).workId] = [quote |-> @.quote, open |-> FALSE]]
       \/ UNCHANGED sessions
    /\ closing' = Tail(closing)
    /\ UNCHANGED <<quotes, issued, expired, stage, quote, workId, sweeping>>

Swept ==
    /\ sweeping # "none" /\ closing = <<>>
    /\ sweeping' = "none"
    /\ UNCHANGED <<quotes, issued, expired, entries, sessions, stage, quote, workId, closing>>

PaymentStep(r) == SessionStarted(r) \/ SessionFails(r) \/ PaymentCreated(r) \/ PaymentFails(r)

----------------------------------------------------------------------------
(* Properties *)

\* The cache never offers a session that was closed: close() and closeAll()
\* take an entry out before its session goes, also when requests start new
\* sessions under the same key in the meantime.
CacheIsOpen == \A k \in Key : entries[k] # NoEntry => sessions[entries[k].workId].open

\* A request pays the node it was routed to, for tickets of the expiration
\* block its quote asked for: the session it pays from was opened for both,
\* also when it was opened by another request or under an older quote.
PaidToItsNode ==
    \A r \in Request : stage[r] \in {"paying", "paid"} =>
        LET paid == sessions[workId[r]].quote
        IN  paid.node = quote[r].node /\ paid.block = quote[r].block
=============================================================================
