----------------------------- MODULE NodeHealth -----------------------------
(***************************************************************************)
(* The health of the worker nodes as the gateway sees it: the refresh loop *)
(* of src/service/routing/quoteRefresher.ts, the CircuitBreaker class it   *)
(* shares with the dispatchers, the quote cache it fills, the node_health  *)
(* row and the node_health_event log it writes, and the dispatchers, which *)
(* select nodes and report failures.                                       *)
(*                                                                         *)
(* Processes, interleaved at the code's awaits:                            *)
(*  - tick[n][k]: a tickNode call for node n.  k = "loop" is the call made *)
(*    by the node's scheduled timer; k in Manual is a direct call of the   *)
(*    exported tickNode ("admin refresh now").                             *)
(*  - call[c]: a dispatcher's attempt on a node, from selectNode to the    *)
(*    answer.  Only the streaming dispatcher reports failures, through     *)
(*    runWithRetry; nobody reports successes.                              *)
(*  - the clock, the worker nodes (up or down), the expiry of quotes, a    *)
(*    database that may reject a write, and a restart of the process.      *)
(*                                                                         *)
(* One capability per node is modelled: quote[n] says whether              *)
(* quoteCache.get(n, capability) returns a quote.                          *)
(*                                                                         *)
(* Bounds: MaxDbFaults rejected writes, MaxRestarts restarts besides those *)
(* that a rejected write brings about.                                     *)
(***************************************************************************)
EXTENDS CircuitBreaker

CONSTANTS
    Node,               \* the nodes of serviceRegistry.listKnown()
    Manual,             \* concurrent direct calls of tickNode, per node
    Call,               \* concurrent dispatcher attempts
    CallsFailAnyTime,   \* TRUE: an attempt on a node that is up may fail
    MaxDbFaults,
    MaxRestarts

ASSUME HealthAssumption ==
    /\ "loop" \notin Manual
    /\ CallsFailAnyTime \in BOOLEAN
    /\ MaxDbFaults \in Nat
    /\ MaxRestarts \in Nat

Slot == {"loop"} \cup Manual

VARIABLES
    circuit,    \* CircuitBreaker.states, one CircuitState per node
    tick,       \* the tickNode calls in progress
    call,       \* the attempts in progress: the node, or NoNode
    quote,      \* an unexpired quote is cached
    up,         \* the worker answers /health and /quotes
    row,        \* node_health.status, "absent" before the first upsert
    lastEvent,  \* the newest node_health_event kind, "none" at first
    faults,     \* database writes rejected so far
    boots       \* restarts so far

vars == <<circuit, tick, call, quote, up, row, lastEvent, faults, boots>>

NoNode == "no node"

\* probing: between the await of getHealth and the end of getQuotes.
\* upserting, logging: inside persist, before its first and second write.
\* dead: the scheduled callback rejected in a process that survived it, so it
\* was never rescheduled.
\* half: this call's shouldProbe decision was circuit_half_opened.
Tick ==
    [ pc : {"idle", "probing", "upserting", "logging", "dead"},
      stage : {"none", "half", "ok", "failed"},
      row : Status \cup {"absent"},
      event : Transition,
      half : BOOLEAN ]

Idle == [pc |-> "idle", stage |-> "none", row |-> "absent", event |-> "none", half |-> FALSE]

Probing(half) == [Idle EXCEPT !.pc = "probing", !.half = half]

\* persist is called with the state and the transition of that moment.
Persisting(stage, state, transition, half) ==
    [pc |-> "upserting", stage |-> stage, row |-> state.status,
     event |-> transition, half |-> half]

TypeOK ==
    /\ circuit \in [Node -> CircuitState]
    /\ tick \in [Node -> [Slot -> Tick]]
    /\ call \in [Call -> Node \cup {NoNode}]
    /\ quote \in [Node -> BOOLEAN]
    /\ up \in [Node -> BOOLEAN]
    /\ row \in [Node -> Status \cup {"absent"}]
    /\ lastEvent \in [Node -> Transition]
    /\ faults \in 0 .. MaxDbFaults
    /\ boots \in Nat

Init ==
    /\ circuit = [n \in Node |-> initialCircuitState]
    /\ tick = [n \in Node |-> [k \in Slot |-> Idle]]
    /\ call = [c \in Call |-> NoNode]
    /\ quote = [n \in Node |-> FALSE]
    /\ up \in [Node -> BOOLEAN]
    /\ row = [n \in Node |-> "absent"]
    /\ lastEvent = [n \in Node |-> "none"]
    /\ faults = 0
    /\ boots = 0

----------------------------------------------------------------------------
(* tickNode *)

SetTick(n, k, t) == tick' = [tick EXCEPT ![n][k] = t]

\* A call whose shouldProbe says no returns at once and changes nothing.
TickStart(n, k) ==
    LET d == shouldProbe(circuit[n])
    IN  /\ tick[n][k].pc = "idle"
        /\ d.probe
        /\ circuit' = [circuit EXCEPT ![n] = d.state]
        /\ SetTick(n, k, IF d.transition = "circuit_half_opened"
                         THEN Persisting("half", d.state, d.transition, TRUE)
                         ELSE Probing(FALSE))
        /\ UNCHANGED <<call, quote, up, row, lastEvent, faults, boots>>

\* getHealth and getQuotes answered: onSuccess, replaceNode, persist.
ProbeSucceeds(n, k) ==
    LET r == onSuccess(circuit[n])
    IN  /\ tick[n][k].pc = "probing"
        /\ up[n]
        /\ circuit' = [circuit EXCEPT ![n] = r.state]
        /\ quote' = [quote EXCEPT ![n] = TRUE]
        /\ SetTick(n, k, Persisting("ok", r.state, r.transition, tick[n][k].half))
        /\ UNCHANGED <<call, up, row, lastEvent, faults, boots>>

\* The catch block: onFailure, then persist again.
TickCatches(n, k) ==
    LET r == onFailure(circuit[n])
    IN  /\ circuit' = [circuit EXCEPT ![n] = r.state]
        /\ SetTick(n, k, Persisting("failed", r.state, r.transition, tick[n][k].half))

ProbeFails(n, k) ==
    /\ tick[n][k].pc = "probing"
    /\ ~up[n]
    /\ TickCatches(n, k)
    /\ UNCHANGED <<call, quote, up, row, lastEvent, faults, boots>>

\* What tickNode does once persist has resolved.
AfterPersist(t) == IF t.stage = "half" THEN Probing(TRUE) ELSE Idle

\* upsertNodeHealth, the first write of persist.
Upsert(n, k) ==
    LET t == tick[n][k]
    IN  /\ t.pc = "upserting"
        /\ row' = [row EXCEPT ![n] = t.row]
        /\ SetTick(n, k, IF t.event = "none" THEN AfterPersist(t)
                                             ELSE [t EXCEPT !.pc = "logging"])
        /\ UNCHANGED <<circuit, call, quote, up, lastEvent, faults, boots>>

\* insertNodeHealthEvent, the second write of persist.
LogEvent(n, k) ==
    LET t == tick[n][k]
    IN  /\ t.pc = "logging"
        /\ lastEvent' = [lastEvent EXCEPT ![n] = t.event]
        /\ SetTick(n, k, AfterPersist(t))
        /\ UNCHANGED <<circuit, call, quote, up, row, faults, boots>>

\* A write of persist rejects.  Inside the try it counts as a failure of the
\* node; the half-open persist and the one in the catch block are outside, so
\* tickNode itself rejects.  A direct call hands that to its caller.  Nobody
\* handles it for a scheduled one (realScheduler drops the promise): in a host
\* that survives unhandled rejections the call is never scheduled again, in
\* any other the process ends (RejectionEnds).
DbFails(n, k) ==
    /\ tick[n][k].pc \in {"upserting", "logging"}
    /\ faults < MaxDbFaults
    /\ faults' = faults + 1
    /\ IF tick[n][k].stage = "ok"
       THEN TickCatches(n, k)
       ELSE /\ SetTick(n, k, IF k = "loop" THEN [Idle EXCEPT !.pc = "dead"] ELSE Idle)
            /\ UNCHANGED circuit
    /\ UNCHANGED <<call, quote, up, row, lastEvent, boots>>

TickStep(n, k) ==
    \/ ProbeSucceeds(n, k)
    \/ ProbeFails(n, k)
    \/ Upsert(n, k)
    \/ LogEvent(n, k)

----------------------------------------------------------------------------
(* Dispatchers *)

\* CircuitBreaker.onFailure, called by runWithRetry.  Its transition is
\* dropped: nothing is persisted.
ReportFailure(n) == circuit' = [circuit EXCEPT ![n] = onFailure(circuit[n]).state]

\* selectNode.  The registry may leave a node out of its answer, which also
\* covers the exclusion of nodes by a `now' that was read before the RPC.
Selectable(n) == ~Excluded(circuit[n])

CallStart(c, n) ==
    /\ call[c] = NoNode
    /\ Selectable(n)
    /\ quote[n]
    /\ call' = [call EXCEPT ![c] = n]
    /\ UNCHANGED <<circuit, tick, quote, up, row, lastEvent, faults, boots>>

\* "node quote not yet refreshed": the attempt fails at once and the node is
\* blamed for it.
CallWithoutQuote(c, n) ==
    /\ call[c] = NoNode
    /\ Selectable(n)
    /\ ~quote[n]
    /\ ReportFailure(n)
    /\ UNCHANGED <<tick, call, quote, up, row, lastEvent, faults, boots>>

CallFails(c) ==
    /\ call[c] # NoNode
    /\ CallsFailAnyTime \/ ~up[call[c]]
    /\ ReportFailure(call[c])
    /\ call' = [call EXCEPT ![c] = NoNode]
    /\ UNCHANGED <<tick, quote, up, row, lastEvent, faults, boots>>

\* A success, a 4xx, a last attempt or a non-streaming call: not reported.
CallEnds(c) ==
    /\ call[c] # NoNode
    /\ call' = [call EXCEPT ![c] = NoNode]
    /\ UNCHANGED <<circuit, tick, quote, up, row, lastEvent, faults, boots>>

----------------------------------------------------------------------------
(* Environment *)

TimePasses ==
    /\ circuit' = [n \in Node |-> Elapse(circuit[n])]
    /\ UNCHANGED <<tick, call, quote, up, row, lastEvent, faults, boots>>

QuoteExpires(n) ==
    /\ quote[n]
    /\ quote' = [quote EXCEPT ![n] = FALSE]
    /\ UNCHANGED <<circuit, tick, call, up, row, lastEvent, faults, boots>>

NodeFlips(n) ==
    /\ up' = [up EXCEPT ![n] = ~@]
    /\ UNCHANGED <<circuit, tick, call, quote, row, lastEvent, faults, boots>>

\* Everything but the database is lost; start() schedules every node again.
Reboot ==
    /\ boots' = boots + 1
    /\ circuit' = [n \in Node |-> initialCircuitState]
    /\ tick' = [n \in Node |-> [k \in Slot |-> Idle]]
    /\ call' = [c \in Call |-> NoNode]
    /\ quote' = [n \in Node |-> FALSE]
    /\ UNCHANGED <<up, row, lastEvent>>

Restart ==
    /\ boots < MaxRestarts
    /\ Reboot
    /\ UNCHANGED faults

\* The same rejected writes of a scheduled call as in DbFails, where Node's
\* default holds: the unhandled rejection ends the process, which is started
\* again.
RejectionEnds(n) ==
    /\ tick[n]["loop"].pc \in {"upserting", "logging"}
    /\ tick[n]["loop"].stage # "ok"
    /\ faults < MaxDbFaults
    /\ faults' = faults + 1
    /\ Reboot

Next ==
    \/ \E n \in Node, k \in Slot :
          TickStart(n, k) \/ TickStep(n, k) \/ DbFails(n, k)
    \/ \E n \in Node : RejectionEnds(n)
    \/ \E c \in Call, n \in Node : CallStart(c, n) \/ CallWithoutQuote(c, n)
    \/ \E c \in Call : CallFails(c) \/ CallEnds(c)
    \/ TimePasses
    \/ \E n \in Node : QuoteExpires(n) \/ NodeFlips(n)
    \/ Restart

\* The scheduler fires a node's timer again and again, every HTTP call and
\* every write ends (they have timeouts), and time passes.  Nothing is
\* assumed of manual calls' start, of dispatchers and of the environment.
Fairness ==
    /\ WF_vars(TimePasses)
    /\ \A n \in Node :
          /\ WF_vars(TickStart(n, "loop"))
          /\ \A k \in Slot : WF_vars(TickStep(n, k))

Spec == Init /\ [][Next]_vars /\ Fairness

----------------------------------------------------------------------------
(* Properties *)

\* The fields of every circuit agree with each other (Consistent, in
\* CircuitBreaker) in every state that any interleaving of ticks, dispatcher
\* reports and restarts can reach.
BreakerConsistent == \A n \in Node : Consistent(circuit[n])

InFlight(n) == \E k \in Slot : tick[n][k].pc \in {"probing", "upserting", "logging"}

\* A half-open circuit has a probe under way that will decide it: the flag
\* that holds every later probe back is never left behind by a tick.
HalfOpenHasProbe ==
    \A n \in Node : circuit[n].halfOpenInFlight =>
        \E k \in Slot : tick[n][k].half /\ tick[n][k].stage \in {"none", "half"}

\* An excluded node stays excluded until its cool-down has elapsed, a probe
\* succeeded or the process restarted: currentExclusions is not undone early.
CoolDownHolds ==
    [][\A n \in Node : Excluded(circuit[n]) /\ boots' = boots =>
          \/ Excluded(circuit'[n])
          \/ Cooled(circuit'[n])
          \/ circuit'[n].status = "healthy"]_vars

\* The event log never shows a circuit closing that it did not show half-open:
\* circuit_closed always directly follows circuit_half_opened.
ClosedFollowsHalfOpen ==
    [][\A n \in Node :
          lastEvent[n] # "circuit_closed" /\ lastEvent'[n] = "circuit_closed"
          => lastEvent[n] = "circuit_half_opened"]_vars

\* While the database takes every write and no tick is in progress, a broken
\* circuit is on record: the newest event says it opened or is half open, and
\* the row says circuit_broken.
BrokenIsOnRecord ==
    \A n \in Node : faults = 0 /\ circuit[n].status = "circuit_broken" /\ ~InFlight(n) =>
        /\ lastEvent[n] \in {"circuit_opened", "circuit_half_opened"}
        /\ row[n] = "circuit_broken"

\* A node that answers for good is in the end healthy for good: whatever
\* happened to it before, the refresh loop lets it recover, while the database
\* takes every write.
Recovers ==
    \A n \in Node : <>[](up[n] /\ faults = 0) => <>[](circuit[n].status = "healthy")

\* After the cool-down a probe is scheduled: a node that answers for good is
\* probed again and again, or healthy, whatever the dispatchers report.
ProbedAfterCoolDown ==
    \A n \in Node : <>[](up[n]) => []<>(InFlight(n) \/ circuit[n].status = "healthy")
=============================================================================
