# TLA+ models and proofs for the Livepeer OpenAI gateway core

The repository is a payment-aware engine behind an OpenAI-compatible HTTP
surface. A request is priced, its cost is reserved in the operator's wallet, a
worker node is selected, a probabilistic-micropayment ticket is created, the
worker is called, and the reservation is committed or refunded. A background
loop keeps the nodes' quotes fresh and decides, with a circuit breaker, which
nodes may be selected. Two gRPC daemons on the same host know the nodes and hold
the payment sessions.

This directory holds TLA+ modules translated from that code, the TLC
configurations that check them on small instances, and proofs that TLAPS checks
for every value of the constants. `PROJECT.json` lists the runs, which source
lines each definition models, the hazards, the disagreements found and the main
theorems.

    tlc -config NodeHealth_traffic.cfg MCNodeHealth.tla     # a run
    tlapm NodeHealthProofs.tla                              # the proofs of a module

## 1. Inventory

Paths are relative to the repository root. "Hard" names what a unit test hardly
reaches; the last column says where the component stands in this project.

| Component | State | Operations | Hard | Correct means | Here |
|---|---|---|---|---|---|
| Circuit breaker, `src/service/routing/circuitBreaker.ts` | one `CircuitState` per node: status, failures, opening time, half-open flag | `onSuccess`, `onFailure`, `shouldProbe`, `currentExclusions` | callers interleave at awaits, so a result may arrive for a state it was not started in | the fields agree; a cool-down is not cut short; a half-open circuit has a probe; a node that answers recovers | `CircuitBreaker`, `NodeHealth` |
| Quote refresher, `quoteRefresher.ts`, `quoteCache.ts`, `src/repo/nodeHealth.ts` | one timer chain per node, the quote cache, the `node_health` row and event log | `start`, `stop`, `tickNode`, `persist`, `scheduleNode` | two writes without a transaction; a rejected write; ticks of one node in parallel; `stop` and `start` around a tick; restart | the log and the row tell what happened; the chain does not die | `NodeHealth`, `RefreshLoop` |
| Router and retry, `router.ts`, `retry.ts` | none of their own | `selectNode`, `runWithRetry`, `classifyNodeError` | what happens between attempts; which failures count against a node | retries end, and every path out of them answers | `StreamingDispatch` |
| Non-streaming dispatchers, `src/dispatch/{chatCompletion,embeddings,images,speech,transcriptions}.ts` | locals `handle`, `committed` | one pipeline from `reserve` to the answer, one catch block | an exception at any await; a crash; concurrent requests of one caller | every reservation is settled once, errors before the commit are free, records are backed by charges | `Dispatch` |
| Streaming dispatcher, `streamingChatCompletion.ts`, `src/runtime/http/chat/streaming.ts` | locals, the open HTTP response, the abort signal | reserve, retries, stream, `settleReservation` | a stream may end at any chunk; errors after the response was opened; a disconnect at any time | billed exactly if something was delivered, always settled | `StreamingDispatch` |
| Wallet, `src/interfaces/wallet.ts`, `inMemoryWallet.ts`, `examples/wallets/` | balance, reservations | `reserve`, `commit`, `refund` | concurrent reservations; repeated or failing calls | nothing is lost or made; a commit or refund happens once | `Wallet`, `Settlement`; not the free-quota example |
| Payment sessions, `src/service/payments/` | cache of sessions per node, recipient and block; the daemon's sessions | `getOrStart`, `close`, `closeAll`, `createPaymentForRequest` | two misses at once; a close while a session is being started; lost answers; a stale quote | a request pays the node it was routed to; the cache offers no closed session | `Payments` |
| Timer scheduler and health loops, `scheduler.ts`, `src/providers/{payerDaemon,serviceRegistry}/grpc.ts` | timers, health flag, failure count | `schedule`, `cancel`, probes, RPCs | `stop` and `start` around a probe; overlapping loops; a daemon that never answers | the flag follows the answers; calls end | `Scheduler`, `HealthLoop` |
| Migrations, `src/repo/migrate.ts` | tables, the tracker | `runMigrations` | runners that interleave and die between a look-up, a body and a tracker row | nobody serves before every file has run | `Migrate` |
| Process lifecycle, `examples/minimal-shell/start.ts` | phase of `main` and `shutdown` | boot, serve, shutdown | a signal while probes, ticks and payments are under way | nothing is closed under a request; shutdown ends | `Gateway` |
| Pricing, `src/service/pricing/` | the rate card | look-ups, estimates, actual costs | rounding, zero, glob precedence | the right rate; the estimate covers the actual cost; exact charges | `Pricing` |
| Rate limiter, `src/service/rateLimit/`, `src/runtime/http/middleware/rateLimit.ts` | Redis: two sorted sets and a counter with an expiry, per caller; locals of `check` | `check`, `acquireSlot`, `release`, the three scripts | racing checks, commands rejected after their effect, expiry under a request, a connection that closes during an await | never above the limit, every slot is given back | `RateLimit` |
| HTTP endpoints and errors, `src/runtime/http/`, `src/service/*/errors.ts` | none | catch blocks, `toHttpError` | a class hierarchy tested in order, on top of each route's own tests | the caller is blamed exactly for its own errors | `HttpErrors`; not the bodies |
| Node clients, `src/providers/nodeClient/`, `payerDaemon/convert.ts` | none | conversion of quotes, events of a stream | odd hex lengths, zero, reads that cut an event | what the worker said arrives | `NodeWire`; not the transport |
| Generated gRPC code, `src/providers/*/gen/` | none | `encode`, `decode`, `fromJSON`, `toJSON`, `fromPartial` of 59 messages | unknown, missing and repeated fields, 64-bit limits | messages survive, also between versions | `Protobuf`, `PaymentsWire`, `RegistryWire` |
| Metrics, `capVec.ts`, `prometheus.ts`, `sampler.ts` | series per metric | `inc`, `observe`, `sample` | the cap at its limit | at most so many series, one alarm | `Reporting`: the cap; not the list of metrics nor the sampler |
| Usage records, `src/repo/usage*.ts` | the `usage_records` table | insert, roll-up | window borders | adjoining windows add up | `Reporting`; inserts in the dispatchers |
| Token audit, `src/service/tokenAudit/` | none | `countPromptTokens`, `countCompletionText`, `emitDrift` | it throws in the middle of a dispatcher, after money has moved | it observes and changes nothing | its throws in `Dispatch` and `StreamingDispatch`; not the counts |
| Admin and dashboard, configuration, lint rules | none | views, parsers | | | not modelled, section 8 |

How they interact. An HTTP handler calls one dispatcher. A dispatcher calls the
wallet, the registry (through `selectNode`), the quote cache, the payments
service, the node client and the usage-record table, each behind an `await`. The
streaming dispatcher alone goes through `runWithRetry`, which reports failures
to the `CircuitBreaker` object; nobody but the refresh loop reports successes.
The refresh loop shares that object, fills the quote cache and writes the
health tables. The payments service refuses while the health loop's flag is
down. All of it runs in one Node.js process: code between two awaits is atomic
and everything else interleaves there, so an action of the models is the code
from one await to the next.

## 2. Modules

| Module | Models | State and actions |
|---|---|---|
| `CircuitBreaker` | the policy functions of `circuitBreaker.ts` on one node's state | operators only; the clock is `sinceOpened`, the saturated difference the code computes |
| `NodeHealth` | `tickNode` and `persist`, the class `CircuitBreaker`, dispatchers' attempts, clock, quotes, workers, restart | `tick[n][k]` is a `tickNode` call suspended at an await: `TickStart`, `ProbeSucceeds`, `ProbeFails`, `Upsert`, `LogEvent`, `DbFails`, `RejectionEnds`; `call[c]` is an attempt on a node |
| `Wallet` | the prepaid wallet, and the reservations of the in-memory one | `balance`, `ledger`, `held`, `charged`; operators that are the wallet's part of a dispatcher's step |
| `Settlement` | the lifecycle that `src/interfaces/wallet.ts` promises, as an abstract specification | `Open`, `Commit`, `Refund`, `Answer` |
| `Dispatch` | the five non-streaming dispatchers | `pc[r]` is the await of request `r`; one action per step, plus the throws |
| `StreamingDispatch` | the streaming dispatcher with `runWithRetry`, `selectNode` and `settleReservation` | as `Dispatch`, plus the shared circuits, deltas, usage chunks and disconnects |
| `RateLimit` | the limiter's `check` and `release`, its Redis keys, the middleware | `zset`, `counter`, `ttl` are Redis; `pc[r]` is the command that `check` or `release` of request `r` waits for: `CheckWindows`, `Incr`, `Expire`, `Undo`, `ResponseCloses`, `Release`, and how each of them fails |
| `Scheduler` | `schedule`, `cancel` and the firing of a loop's timers | a record: kept handle, armed timers no handle reaches, callbacks under way |
| `HealthLoop` | the probe loop of the payer-daemon client (the registry client's is the same) | `startHealthLoop`, `stopHealthLoop`, `HealthFires`, `HealthSucceeds`, `HealthFails`, and the daemon that comes and goes |
| `RefreshLoop` | `start`, `stop`, the enumeration of nodes and each node's chain of ticks | `tasks[n]` are the timers of node `n`; `Enumerated`, `TickStarts`, `TickReturns`, `TickFails`, `TickRejects` |
| `Payments` | `createPaymentForRequest`, the session cache, the daemon's sessions, quotes that are replaced and expire | `stage[r]` is the await of request `r`; `Pay` up to the first await, `SessionStarted`, `SessionLost`, `PaymentCreated`, ...; `CloseNode`, `CloseAll` and one `CloseSession` per entry |
| `Migrate` | `runMigrations`, by several runners that may die | `runner[p]` is the statement runner `p` is at |
| `Gateway` | `main` and `shutdown`: the composition of the five modules above | `phase`; each action is a step of one component, enabled by the phase, plus `Signal`, `AppClosed`, `Exit` and `RejectionEnds` |
| `Protobuf`, `PaymentsWire`, `RegistryWire` | the five generated functions over any schema; every message as a schema, every method as a pair of them | operators only. Of the values that `encode` refuses only a `bigint` beyond 64 bits is modelled; 32-bit values are sampled in range |
| `Pricing`, `HttpErrors`, `NodeWire`, `Reporting` | the pure algorithms named in section 1, each with a reference definition of what it must compute | operators only |
| `MCNodeHealth`, `MCDispatch`, `MCStreaming`, `MCRateLimit`, `MCGateway` | the instances for TLC | symmetry sets, policies |
| `Algorithms` | samples of the inputs of the pure algorithms | a behaviour draws one sample; `Draw...` per algorithm |
| `MCAlgorithms` | the same and the generated messages, for TLC | `DrawMessage` |
| `Sums` | lemmas about sums and least numbers, induction and recursion up to a bound | no state |
| `...Proofs` | | theorems and proofs |

`NodeHealth` and `StreamingDispatch` extend `CircuitBreaker`; `Dispatch` and
`StreamingDispatch` extend `Wallet` and instantiate `Settlement`;
`HealthLoop` and `RefreshLoop` extend `Scheduler`; `RefreshLoop` and `Payments`
share `NodePool`, the set of nodes; `Gateway` extends `Migrate`, `HealthLoop`,
`RefreshLoop` and `Payments`. Operators marked "Mutation" are not part of a
model: each is the definition below it with a plausible bug, used to make sure
that a property notices it.

What is abstracted:

- Amounts are small numbers of the rate card's unit. `ActualCosts` and `Costs`
  let the reported amount differ from the estimate in both directions; how an
  amount is computed is the subject of `Pricing`.
- `Dispatch` treats the whole search for a node as one await with two outcomes;
  the circuits do not matter to it because these dispatchers never report to
  them. `StreamingDispatch` selects among the nodes that are not excluded; the
  weighted random choice becomes any choice.
- The token audit is where its calls may throw. In chat that is between the commit
  and the record and after the record (`AuditThrows`, `DriftThrows`); for a stream
  after its end and before the settlement (`CountThrows`), and before the record
  inside the `try` (a disjunct of `Record`). The prompt was counted before the
  reservation, so a later count of it throws only if the tokenizer does not
  always do the same; the models allow that at lines 313 and 369 too, the latter
  as part of `CountThrows`, with which it shares its outcome.
- A stream is reduced to "text was delivered" and the last usage chunk.
- In `NodeHealth` one capability per node is modelled, and "unexpired quote
  cached" is a flag. `lastSuccessAt` and `lastFailureAt` influence nothing and
  are left out.
- The refresh loop also changes the circuits during a stream. `StreamingDispatch`
  leaves that to `NodeHealth`, and no property of it depends on circuits except
  through which nodes may be selected.
- `RateLimit` has one caller, since callers share no key, and no headers. A
  sorted set is how many members it has of each age; `now` is read when the
  script is sent, so one action is a fair picture of it. A request recurs: the
  same `r` is a later request once it is idle again. `passed`, `faulted` are
  history.
- A crash loses every dispatcher and all circuits, not the wallet: an operator's
  wallet is a service of its own. (The wallets of `examples/` keep their state
  in memory.)
- A quote in `Payments` is its node, its age and the expiration block of its
  ticket parameters. Quotes expire in the order of their issue. All nodes have
  one recipient, so that only the node and the block tell keys apart. What a
  tick does to circuits and rows is `NodeHealth`'s subject; in `RefreshLoop` it
  returns, fails or rejects.
- `realScheduler` drops the promise of a callback (`scheduler.ts:14`), so a tick
  that rejects is an unhandled rejection. Node's default ends the process:
  `RejectionEnds`, after which `NodeHealth` starts it again and `Gateway` does
  not. A host may install a handler or run Node with another mode, and then
  only the node's loop ends: the `dead` tick of `DbFails`, and `TickRejects`. Both
  outcomes are in the models.
- In `Gateway` everything before a payment (authentication, reservation,
  routing) is `Arrive` and `SelectFails`; what comes after it is `Answered`.
- A wire message is the sequence of its (tag, value) pairs; a 64-bit value is
  checked against the limits of a JavaScript number, scaled down. The bytes of a
  varint or a string are the library's.
- The scale factors of `Pricing` (a million tokens, a hundred cents, a bitrate)
  are constants; the run gives them small values and the proofs none.

## 3. Runs

| Run | Instance | Shows |
|---|---|---|
| `health_recovery` | 1 node, loop tick, 2 rejected writes, 1 restart besides theirs | `CoolDownHolds`, `ClosedFollowsHalfOpen`; while no write is rejected also `BrokenIsOnRecord` and `Recovers`: a node that answers for good becomes healthy for good |
| `health_traffic` | 1 node, loop and manual tick, 2 attempts, 1 restart | `BreakerConsistent`, `HalfOpenHasProbe` |
| `dispatch` | 2 prepaid requests on one balance, chat, images and speech; the token audit may throw for both, for one of them also wallet, record and rate card may fail and the process may die at any await | errors before the commit are free, answers are charged their exact cost within the estimate, `BalanceConserved` without an overdraft, `RecordedIsCharged`, the refinement of `Settlement`, every reservation settles |
| `streaming` | 2 requests, 2 nodes, a balance for one of them; crash, disconnect, database, wallet, token-audit, registry and rate-card faults | `StartedStreamSettles`, `BilledIffDelivered`, `RecordedIsCharged`, the refinement of `Settlement`, `EveryRequestEnds` |
| `ratelimit_slots` | 2 requests, 1 slot, 2 checks in 2 ticks and 3 in 3, any 2 of 8 kinds of fault | `CapHolds`, `SlotsAccounted`, `WindowHolds`, `SlotsReturn` |
| `gateway` | 2 requests, 1 node, 2 quotes, 2 blocks, 2 files, the gateway and a script that migrate, 4 events from outside | `ReadyMeansMigrated`, `HealthyIsEarned`, `LoopsLive`, `PaidToItsNode`, `CacheIsOpen`, `PayerOutlivesRequests`, `PayerRecovers`, `ShutdownEnds` |
| `algorithms` | one drawn input per behaviour, 116 000 of them | the properties of `Algorithms` and `MCAlgorithms`: messages survive, the rate is the card's, the estimate covers the cost, charges are tight, errors blame the right side, quotes and streams arrive, series stay capped, roll-ups add up |
| `health_v_cooldown` | 1 attempt | violated: section 6, no. 1 |
| `health_v_starved` | 1 attempt | violated: section 6, no. 2 |
| `streaming_v_leak` | 1 request, 1 node | violated: section 6, no. 3 |
| `ratelimit_v_orphan` | 1 client that leaves during `check` | violated: section 6, no. 4 |
| `dispatch_v_audit` | 1 chat whose token audit may throw | violated: section 6, no. 5 |

`TypeOK` of `NodeHealth`, `Dispatch` and `StreamingDispatch` and
`SettledWhenAnswered` of `Dispatch` are theorems for every instance, so no run repeats them. `TypeOK` of
`Gateway` is the conjunction of its components' types.
No run has a postpaid request; the theorems of `DispatchProofs` and `StreamingProofs`
include them.

**Bounds.** `FailureThreshold = 2` is the smallest value that separates
degraded from broken, and failures saturate one above it; the proofs cover
every other value. `CoolDown = 2` (1 for streams) gives states before, within
and after the cool-down. Circuits of different nodes do not influence each
other in `NodeHealth`, so one node is enough there; two attempts suffice for a
report that arrives after another one opened the circuit. `MaxDbFaults` and
`MaxRestarts` bound two environment actions; two faults let one write of each of
two `persist` calls be rejected. In the dispatchers two requests compete for
one balance; `Seed = 3` with estimates of 1 or 2 covers "both fit", "one fits"
and an exact fit; `MaxReport = 3` exceeds every estimate. For streams `Seed = 1`
lets the second reservation fail, and one unit suffices because no checked
property compares amounts. In the limiter one slot and two requests make every
second check overshoot; `Ttl = 2` gives an expiry that is renewed, runs down and
lapses; the day's limit of 3 in 3 ticks binds although the minute's allows 4.
Each kind of fault happens once, two in all, so every pair is tried.
`MAX_RETRY_ATTEMPTS` is the code's constant 3.

In `Gateway`, `MaxEvents = 4` is the budget of everything that comes from
outside: two requests on one key, a quote and a `close` between their steps; or
`stop`, `start` and `stop` around a probe and a request; or a quote of another
block, its expiry and two requests. `MaxQuotes = 2` and `MaxBlock = 1` let a
quote be replaced by one of the same or of another block. One node suffices
because keys of different nodes share nothing but the map, and the proofs cover
any number. `MaxDeaths = 1` with two runners and two files covers a death at
every statement while the other runner is anywhere.

In `Algorithms` globs and names have up to three characters over the wildcards,
two letters and a newline; `MILLION = 4`, `CENT = 3`, `BYTES_PER_SEC = 3` and
`MAX_SECONDS = 4` are coprime enough that every remainder occurs for counts up to
5 and rates up to 3; a message is drawn full, empty and with one field, at any
depth, missing or unusual, because the generated code treats fields one by one.

**Deadlock** is not checked for `dispatch` and `streaming` (a finite set of
requests ends), `gateway` (the process exits) and `algorithms` (a behaviour is
one draw). `NodeHealth` and `RateLimit` never stop, and their runs do check it.

**Symmetry** is used only in the run without liveness, `health_traffic`, on
sets of nodes, attempts and manual ticks.

## 4. Fairness

- `NodeHealth`: weak fairness of the node's scheduled `TickStart`, of every step
  of a tick under way, and of the clock. `scheduleNode` re-arms the timer after
  every tick; the HTTP calls of a tick have timeouts (`AbortSignal.timeout` in
  the node client); a database call answers or rejects. A tick whose write was
  rejected outside the `try` ends the process or becomes `dead`, which is not
  scheduled again. Nothing is assumed of dispatchers, workers, manual ticks or
  restarts.
- `Dispatch`, `StreamingDispatch`: weak fairness of the steps of a suspended
  dispatcher, because each awaited call has a deadline or answers. The upstream
  stream is under a timeout of its own, so `StreamEnds` happens although a
  worker could send chunks for ever. No request has to arrive, no client has to
  leave, and time need not pass.
- `RateLimit`: weak fairness of time and of the steps of a request under way: a
  Redis command answers or rejects and a dispatch ends. No request has to come.
- `Gateway`: weak fairness of the health loop's steps, of some step of the
  refresh loops, of some step of the requests under way and of the shutdown's.
  Timers fire; every RPC carries a deadline (`callDeadline` in
  `payerDaemon/grpc.ts`), which is why `SessionFails` and `PaymentFails` are
  always possible. Nothing is assumed of the migrations, the daemon, quotes,
  sweeps, the operator or the signal.

`Recovers` is checked without attempts and claims nothing after a rejected
write, since with either it is false: section 6, no. 2 and no. 10.
`PayerRecovers` asks that the daemon stays up, the loop stays on and the process
lives.

## 5. Proofs

| Theorem | Assumes beyond the named ASSUMEs | Argument |
|---|---|---|
| `NodeHealthProofs!TypeCorrect`, `BreakerAlwaysConsistent` | nothing | `CircuitInv`: types and, per node, `Consistent`, whose parts need each other (a re-opened circuit has enough failures because it was broken, a half-open one has cooled because it has an opening time). The policy lemmas of `CircuitBreakerProofs` say that each function maps sound states to sound states; the steps only cite them |
| `HalfOpenAlwaysHasProbe` | `MaxDbFaults = 0` | `ProbeInv` adds the shape of every tick record and that the tick which set the flag is the one that will decide it; one case per action |
| `ClosingsFollowHalfOpenings` | `Manual = {}`: the ticks of a node do not overlap | `LogInv`: while the flag is set, the tick that set it decides or died of a rejected write; that tick logged the half-opening before it probes, and only it logs a closing. Covers attempts, restarts and any number of rejected writes, of which the run has a few and no attempts |
| `BrokenAlwaysOnRecord`, `CoolDownsHold` | `Manual = {}`, `Call = {}`: only the loop's ticks report on a node. With attempts both fail (section 6, no. 1) | `LoopInv`: the tick that set the flag still has it, every other probe began on a circuit that was not broken, and what a tick still has to write agrees with what row and log already say (`LoopShape`, `RecordShape`). Covers restarts, and for the cool-down any number of rejected writes |
| `DispatchTypeCorrect`, `RecordsAreCharged` | nothing: every fault. A record's amount is what the wallet took, but for the endpoints without a cap, where it is at least that (the wallet takes no more than it reserved) | `PathInv`: the await a dispatcher is suspended at determines its locals, its reservation and its answer |
| `NeverAnsweredWhileOpen`, `DispatchRefinesSettlement` | the request's wallet calls do not throw | `PathInv`; each step maps to a step of `Settlement` or a stutter. Crashes, failing records, token audits that throw, rate-card edits and the faults of other requests are included |
| `AnswersAreCharged` | nothing: every fault. The formula is about prepaid requests (section 6, no. 6) | `PathInv`: an answer is on its way only after the commit |
| `BalanceAlwaysConserved` | nothing: any finite number of requests, every fault | what a step takes from the balance it adds to what is held or charged of the same request; that a sum changes by what one term changes is `Sums!SumFollowsTerm` |
| `ErrorsAreFree` | the request's wallet calls do not throw | `PathInv`. The formula names what may throw after the commit: the usage record and, in chat, the token audit (section 6, no. 5 and no. 13) |
| `ChargeIsBounded` | the rate card stays | `Bounded`: the checks on the worker's answer |
| `StreamingTypeCorrect`, `StreamRecordsAreCharged` | nothing: every fault | `Inv`: sound circuits (the same policy lemmas) and, per request, `Path` |
| `StartedStreamsAreSettled`, `StreamsAreBilledIffDelivered` | the request's wallet calls do not throw | `Inv`. The formulas exclude a stream that delivered something and was then torn off (`Torn`) by an edited rate card or a token audit that throws (section 6, no. 7 and no. 18) |
| `StreamingRefinesSettlement` | the request's wallet calls do not throw. Two leaks are answers that `Told` hides: an error out of the retry loop (section 6, no. 3) and a stream that is torn off (no. 7 and no. 18). In the protocol's terms those clients still wait, and their reservations are never settled | `Inv`, which says at which step a reservation is open and who has been told; each step maps to a step of `Settlement` or a stutter. Retries, disconnects, crashes, failing records, rate-card edits and token audits that throw are included |
| `RateLimitTypeCorrect` | nothing: every fault | the commands keep the key well formed: an absent key counts nothing and `DECR` is bounded |
| `CapAlwaysHolds`, `SlotsAlwaysAccounted` | nothing: every fault; the formulas say which one they exclude | `SlotInv`: the counter covers the owners of slots, and those whom `INCR` let through fit the policy, before they are admitted. `CapHolds` alone is not inductive, because the decision is made at `INCR` and the admission comes two awaits later. Every step keeps, takes, returns or loses a slot (`SlotSteps`), and each of the four preserves the counts (`CountsStep`) |
| `WindowsAlwaysHold` | nothing; the named assumption says that a minute is no longer than a day | `WindowsCover`: at every age each sorted set has at least the attempts that got past both windows, and what a script may still count of it is within the limit. The sums over ages shift with the clock and grow by one in an attempt |
| `GatewayMigrates` | nothing | `MigratePart`: each step of the gateway is a step of `MigrateSpec` or leaves its variables alone |
| `GatewayReadyMeansMigrated` | nothing: any number of runners, files and deaths | `MigrateInv`: a runner past a file has seen it tracked, what is tracked was executed, and executed files are a prefix. Proved over `MigrateSpec` and carried over by `MigratePart` |
| `GatewayHealthyIsEarned` | nothing | `HealthInv`, over the health loop's own steps (`HealthPart`) |
| `GatewayLoopsLive` | nothing; the formula excludes a rejected write | `RefreshInv`: who takes the last timer of a node arms the next one. Needs that an enumeration implies a running refresher, which is why `stop` and `start` around an enumeration are harmless |
| `GatewayPayerOutlivesRequests` | nothing | `PayerInv`: once the server is closed, requests are idle and stay so, because they begin only while it serves |
| `GatewayPaidToItsNode` | nothing: any number of nodes, requests, quotes, sessions | `SessionInv`: a cached entry names a session opened with the entry's own quote, whose key is the one it is cached under; `PaidToItsNode` alone says nothing of the cache a later request will hit |
| `GatewayCacheIsOpen` | nothing | `CacheInv` on top of `SessionInv`: what `closeAll` still has to close is not cached any more (`Unswept`), and what `close` has to close can be cached under no key but the one it deletes in the same step, because an entry's key is that of its session's quote |
| `AlgorithmsProofs!...ReservationCovers`, `ChatChargeIsTight`, `UnitChargesAreTight` | nothing: every rate, count and scale | division with remainder, monotonicity of rounding up. The run tries them on rates up to 3 |
| `GlobsMatchWhatTheySay`, `RatesAreTheCards` | nothing: every glob, input, card and name | the match is a recursive function of the rests of glob and input. The table of the rests that can be cut into pieces satisfies its equation (`TableExists`); any other table that does agrees with it at the place with the least left to read where it might not (`TableMeansCuts`) |
| `WindowsAlwaysAddUp` | windows in order; any records, caller and grouping | a field of all buckets together is one term per record of the window (`SumByClass`, for the counts `SumCounts`), and the records of adjoining windows are disjoint |
| `SeriesAlwaysCapped` | label values without a blank, as many in every call | labels without blanks can be told apart in the joined key (`JoinTellsApart`); then the vec's keys are distinct series and each call keeps the cap (`CallKeepsCap`) |
| `StreamsAreUncut`, `CutsDoNotMatter` | nothing: any bytes, chunks and number of reads | `StreamIsOneFeed`: reading chunk by chunk and draining the queue in between yields what the parser makes of all bytes in one. What it has taken, its finished events followed by its rest, is at any time the bytes it was fed (`FeedTakes`), and the rest holds no end of an event |
| `TicketsSurvive`, `PriceCoversEveryModel` | what the schemas in `nodeClient.ts` enforce: hexadecimal digits, a recipient of whole bytes, prices that are not negative, one at least | two digits weigh what their byte does, so digits and bytes have one value (`BytesOfHex`, `BytesOfNumber`); the digits written for a number read back as it and start with none that is zero (`HexOfReads`). The running maximum of the prices is one of them and covers those before it (`DearestIsDearest`) |
| `EstimatesAlwaysCover`, `ChargesAlwaysTight`, `RateIsAlwaysTheCards`, `RollupsAlwaysAddUp`, `CardinalityAlwaysBounded`, `StreamIsAlwaysUncut`, `QuotesAlwaysSurvive` | nothing | what the run draws has the types the theorems above ask for |

They hold for every set of nodes (finite, in the payments), requests, attempts
and manual ticks, every threshold, cool-down, balance, policy and bound. The
named assumptions on constants are evaluated by TLC in every run.

The provers have no induction over data, so an induction is written as an
argument about the smallest counterexample: a set of naturals that is not empty
has a least member (`Sums!LeastNumber`), and strict inclusion of finite sets is
well-founded (for `SumFunctionOnSet`). `Sums!UpTo` packs the first into a rule
that takes a set for a predicate, and `Sums!StepByStep` gives the recursion that
goes with it, for the loops over digits, bytes and chunks. That also shows that
a recursive function exists, which its `CHOOSE` does not promise. Proving the
lookups showed that some `CASE` expressions had overlapping guards, of which TLC
takes the first and TLA+ any; they are `IF`s now, in the order of the code.

`GatewayProofs` goes component by component. A lemma per component says that a
step of the gateway is a step of that component or leaves it alone; the
invariants are then proved over the component's steps only.

Model-checked only:

- liveness (`Recovers`, `EveryReservationSettles`, `EveryRequestEnds`,
  `SlotsReturn`, `PayerRecovers`, `ShutdownEnds`): out of the prover's reach;
- `MessagesSurvive`: the generated code recurses over nested schemas, modelled
  with RECURSIVE operators, which the prover cannot take;
- `ErrorsBlameTheRightSide`: a finite table, of which the run tries every entry.

## 6. Where code and documentation disagree

Each of the first five has a run whose counterexample is the scenario.

1. **A late failure report ends the cool-down.** `onFailure` on a circuit that
   is broken and not half-open falls through to `degraded`
   (`circuitBreaker.ts:104`). An attempt started before the circuit opened thus
   re-admits the node. `docs/design-docs/node-lifecycle.md:184`: no probes fire
   and the router skips the node. Run `health_v_cooldown`.
2. **A node without quote can be starved of probes.** It is selectable, every
   attempt on it fails at once and is reported, and the reports alternate the
   circuit between broken and degraded so that the refresh tick may always meet
   a cool-down. `node-lifecycle.md:185`: after the cool-down one probe is
   scheduled. Run `health_v_starved`.
3. **A reservation can leak in the retry loop.** `selectNode` throws through
   `runWithRetry`, past the refund (`streamingChatCompletion.ts:118`). Run
   `streaming_v_leak`.
4. **An orphaned slot does not expire under a caller that retries.**
   `acquireSlot` renews the key's expiry on every attempt, also on one it then
   refuses (`concurrency.ts:27`), while `src/service/rateLimit/index.ts:133` says
   "TTL safety net catches orphaned slots". One missed release is enough: the
   middleware attaches the close listener after the `await` of `check`
   (`rateLimit.ts:28`). With one slot the caller is refused as long as it tries at
   least every 300 s; attempts refused by the day window renew nothing, so
   `free-default` (200 a day) gets out when that is used up. Run
   `ratelimit_v_orphan`.
5. **The token audit of a chat can cost the caller the answer it paid for.** Its
   counts are between `committed = true` and the usage record, its drift report
   after the record, both in the dispatcher's one `try`
   (`chatCompletion.ts:147-152`, `168-176`). The tokenizer calls `encode` without an
   allowed set, which throws for text with a special token, and nothing wraps
   it: the caller is charged and told of an error, without a record if it was a
   count. `docs/design-docs/token-audit.md:9`: "v1 is observation-only". Run
   `dispatch_v_audit`.

The following were met while modelling; the models contain the behaviour, and
the properties named hold only without it.

6. A postpaid wallet is never told the amount: every dispatcher calls `commit`
   only for a non-null handle; `docs/adapters.md:103` says the engine calls
   `commit` with the actuals after a `null`, and `examples/wallets/postpaid.ts`
   relies on it, while `src/interfaces/wallet.ts:9` calls a null handle a no-op.
   `ChargedIfAnswered` is about prepaid requests.
7. The token audit of a stream can tear it off before its settlement:
   `countCompletionText` runs after the stream and outside every `try`
   (`streamingChatCompletion.ts:241`), so that there is no error chunk, no
   `[DONE]`, and the reservation stays open. The comment at
   `streamingChatCompletion.ts:78-80` says that the dispatcher swallows internal
   errors once the response is open and emits error chunks instead.
   `CountThrows` of `StreamingDispatch`; `StartedStreamSettles`,
   `BilledIffDelivered` and the refinement exclude the torn stream.
8. An `AuthError` thrown by a resolver is answered as an internal error:
   `authPreHandler` catches nothing, so Fastify answers 500 whatever is thrown
   (`middleware/auth.ts:21`); `docs/adapters.md:260-261` calls only another
   exception an internal failure, and `docs/architecture.md:69` has "AuthError on
   thrown subclasses" beside the 401. `ErrorsBlameTheRightSide` states the 500.
9. A dispatcher's report consumes the half-open flag, and the probe's own
   failure then does not re-open the circuit (`circuitBreaker.ts:75` against
   `node-lifecycle.md:187`): `ProbeFails` and `CallFails` of `NodeHealth` race for it.
10. The half-open status is persisted outside `tickNode`'s `try`
    (`quoteRefresher.ts:99`), and nobody handles the rejection of a scheduled tick:
    a rejected write ends the process or, where the host survives that, leaves
    the flag set and no probe is ever sent. `HalfOpenHasProbe` and `Recovers`
    need `MaxDbFaults = 0`.
11. A circuit that a dispatcher's report opens is neither stored nor logged
    (`retry.ts:100` against `node-lifecycle.md:183`): `BrokenIsOnRecord` needs
    `Call = {}`.
12. Circuits are not read back after a restart (`circuitBreaker.ts:153` against
    `node-lifecycle.md:195`): `Restart` sets every circuit to its initial state.
13. A usage record that cannot be inserted turns a charged request into an error
    (`chatCompletion.ts:154` against its comment at line 54): `ErrorIsRefunded`
    names it, with no. 5, as what may throw after the commit.
14. A request whose worker was paid and then failed leaves no usage record
    (`chatCompletion.ts:180` against `docs/architecture.md:96`).
15. A failed payment, a missing quote and a client's disconnect count against
    the node (`retry.ts:100` against `docs/architecture.md:89`): `AttemptFails`.
16. A retry can go to the node that just failed: `retry.ts:99` relies on the
    breaker, which excludes a node only from the threshold on, and `selectNode`
    is not given `previousNodeIds` (`docs/design-docs/retry-policy.md:34`).
    `StreamingDispatch` selects any node that is not excluded.
17. A request that outlives the counter's key (300 s without another attempt) is
    forgotten by the cap, and its release then takes another request's slot:
    `CapHolds` excludes it. A rejected `EXPIRE`, or a crash before it, leaves a
    key that never expires until the next attempt: `SlotsReturn` excludes it.
18. A model taken off the rate card during a stream makes the cost computation
    throw outside the `try` (`streamingChatCompletion.ts:296`): the response ends
    without `[DONE]` and the reservation stays open, `CostThrows`.
19. `stop()` keeps a health probe or tick that is under way. After `start()` its
    callback re-arms itself beside the new chain, and the handle of one of them
    is lost: the loop then runs twice as often (`scheduler.ts`, `quoteRefresher.ts:169`,
    `payerDaemon/grpc.ts:49`). The models allow it; `HealthyIsEarned` and
    `LoopsLive` hold nevertheless.
20. An enumeration of nodes that fails leaves `running` true, so that the second
    `start()` which the comment at `quoteRefresher.ts:165` expects does nothing. A
    rejected write in `tickNode`'s catch block or before its `try` ends the process,
    or the node's loop without a word. `LoopsLive` excludes both.
21. Two requests that miss the cache together start two sessions; the first
    entry is overwritten and its session stays open in the daemon. An expired
    entry is dropped without `closeSession`, and `start.ts` never calls
    `closeAll()` (`docs/design-docs/payer-integration.md:101`). `PaidToItsNode` and
    `CacheIsOpen` hold; "every session is closed" would not.
22. `0000_engine_init.sql` is not idempotent: a runner that dies between the body
    and the tracker row, or two runners at once, leave a database that every later
    start refuses. `ReadyMeansMigrated` is safety; the model has the runner that
    fails and is run again for ever.
23. Costs of embeddings and speech divide to micro-cents before they round up
    (`computeInputOnlyCostCents`, `computePerCharCents`), so the smallest requests
    are free, against the rounding that `docs/design-docs/pricing-model.md`
    describes. `ChargeIsTight` states the tight bound for chat and the weaker one
    for these.
24. `glob.ts:7` says that "Qwen3.*" matches "Qwen3-32B"; the dot is escaped, so it
    does not.
25. Errors that become a 500 although another class is meant: an upload to
    transcriptions that the multipart library cannot read (`audio/transcriptions.ts:137`
    sends its error, which `toHttpError` does not know, to the last rule), a worker's malformed
    2xx body, `ServiceRegistryUnavailableError`, and the streaming route's missing
    quote, where the other routes answer 503. A body that another route cannot
    read is refused by Fastify before the route. The embeddings route takes the
    `type` of a `FreeTierUnsupportedError` from `err.name`, the others from a
    literal. `HttpErrors` contains all of them; `BlamesTheCaller` says that the
    unreadable upload and no. 8 are the only things of the caller's doing that do
    not get a 4xx, and that they get a 500 (`TakenForInternal`).
26. `HexBytesStringSchema` accepts an odd number of digits and `hexToBytes` drops
    the last one; `TicketSurvives` claims hexadecimal fields of even length only.
27. `capVec.ts` joins label values with a blank, so values that contain blanks
    can share a key, and the second is exported without being counted.
    `CardinalityBounded` is about values without blanks.
28. `timestamp.ts` requires nanoseconds that are not negative, and dates before
    1970 are converted to negative ones.
29. The comments of `payerDaemon/metered.ts:8-11` (a gauge at the loop's cadence,
    which bypasses the decorator), `nodeClient/metered.ts:12-15` (a failed fetch
    counted as 4xx, the code says 5xx), `runtime/http/audio/speech.ts:61` (abort only if the request
    is not complete; it always is by then), `sampler.ts:72` and
    `prometheus.ts:297` (metric names) describe other code. The combined signal
    that `callDeadline` computes is not used.
30. A chat, embedding or transcription whose worker reports more than was reserved
    is recorded with its full cost, of which the prepaid wallet takes what was
    reserved (`examples/wallets/prepaid-usd.ts:54-58`). `RecordedIsCharged` says
    exactly that, and that images and speech cannot get there.

## 7. Plan

Done: everything in the table of section 2. What a next step would add, in this
order:

1. The free-quota wallet, whose `reserve` consumes a monthly allowance.
2. The sampler's guard against overlapping samples.

Runs stay few: small components share one, and a question that a theorem has
settled for every instance gives its run up.

## 8. Not modelled

- The tokenizers: the token audit's counts enter the streaming settlement and
  `Pricing` as arbitrary numbers. That its calls may throw is modelled where the
  dispatchers make them.
- Admin service and dashboard: read-only views. `forceRefresh`, the only
  operation that changes anything, is the manual tick of `NodeHealth`.
- Configuration, Zod schemas and types: parsing without state.
- HTTP transport, Fastify, Redis, PostgreSQL, the two daemons and the workers:
  external; modelled by what the code sees of them, including every failure it
  handles.
- Metric names, the metering decorators and the sampler's arithmetic:
  bookkeeping without influence on anything else.
- Lint rules, scripts and tests: development tools.
