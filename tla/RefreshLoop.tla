---------------------------- MODULE RefreshLoop ----------------------------
(***************************************************************************)
(* The loops of the quote refresher                                        *)
(* (src/service/routing/quoteRefresher.ts): start() enumerates the nodes   *)
(* and arms one timer per node; a tick that returns arms the next one.     *)
(* What a tick does to the circuit and to node_health is in NodeHealth;    *)
(* here it ends in one of three ways and leaves quotes or does not.        *)
(*                                                                         *)
(* start() has an await of its own, so stop() and another start() may fall *)
(* in between: `starting' counts the calls suspended there.                *)
(***************************************************************************)
EXTENDS NodePool, Scheduler

VARIABLES
    refreshing,     \* the local `running'
    starting,       \* calls of start() that await listKnown
    tasks,          \* per node, the timers of its loop
    enumerated,     \* some start() got its list since the last stop()
    rejected        \* per node, a tick of the present list rejected

refreshVars == <<refreshing, starting, tasks, enumerated, rejected>>

RefreshTypeOK ==
    /\ refreshing \in BOOLEAN
    /\ starting \in Nat
    /\ tasks \in [Node -> Timers]
    /\ enumerated \in BOOLEAN
    /\ rejected \in [Node -> BOOLEAN]

RefreshInit ==
    /\ refreshing = FALSE
    /\ starting = 0
    /\ tasks = [n \in Node |-> noTimers]
    /\ enumerated = FALSE
    /\ rejected = [n \in Node |-> FALSE]

\* start(): a second call returns at once.
startRefresher ==
    IF refreshing
    THEN UNCHANGED refreshVars
    ELSE /\ refreshing' = TRUE
         /\ starting' = starting + 1
         /\ UNCHANGED <<tasks, enumerated, rejected>>

\* listKnown answers; every node is scheduled, also when stop() came first.
Enumerated ==
    /\ starting > 0
    /\ starting' = starting - 1
    /\ tasks' = [n \in Node |-> Schedule(tasks[n])]
    /\ enumerated' = (enumerated \/ refreshing)
    /\ rejected' = [n \in Node |-> FALSE]
    /\ UNCHANGED refreshing

\* listKnown fails: swallowed, and the refresher stays on without a loop.
EnumerationFails ==
    /\ starting > 0
    /\ starting' = starting - 1
    /\ UNCHANGED <<refreshing, tasks, enumerated, rejected>>

stopRefresher ==
    /\ refreshing' = FALSE
    /\ tasks' = [n \in Node |-> Cancel(tasks[n])]
    /\ enumerated' = FALSE
    /\ UNCHANGED <<starting, rejected>>

\* The callback of a node's timer; when the refresher is off it returns.
TickStarts(n) ==
    \E u \in {FireKept(tasks[n]), FireStray(tasks[n])} :
        /\ Fires(tasks[n], u)
        /\ tasks' = [tasks EXCEPT ![n] = IF refreshing THEN u ELSE Returned(u)]
        /\ UNCHANGED <<refreshing, starting, enumerated, rejected>>

\* The timers of a loop after its tick has returned.
Continues(t) == IF refreshing THEN Schedule(Returned(t)) ELSE Returned(t)

\* tickNode returned, with or without new quotes.
TickReturns(n) ==
    /\ tasks[n].firing > 0
    /\ tasks' = [tasks EXCEPT ![n] = Continues(@)]
    /\ UNCHANGED <<refreshing, starting, enumerated, rejected>>

\* Mutation: a probe that fails ends the loop.
TickFailsForGood(n) ==
    /\ tasks[n].firing > 0
    /\ tasks' = [tasks EXCEPT ![n] = Returned(@)]
    /\ UNCHANGED <<refreshing, starting, enumerated, rejected>>

\* The probe failed and the failure was persisted: tickNode returned.
TickFails(n) == TickReturns(n)

\* A write to node_health was rejected outside the try block: the callback
\* rejects, and nobody handles that.  In a host that survives it (node
\* --unhandled-rejections=warn) the node's loop ends here; Node's default, the
\* end of the process, is Gateway's RejectionEnds.
TickRejects(n) ==
    /\ tasks[n].firing > 0
    /\ tasks' = [tasks EXCEPT ![n] = Returned(@)]
    /\ rejected' = [rejected EXCEPT ![n] = TRUE]
    /\ UNCHANGED <<refreshing, starting, enumerated>>

\* A node's loop stops only when the refresher is stopped or a database error
\* ends it: neither a failed probe nor a stop() and start() around a tick
\* that is under way leaves a node of the list without a tick to come.
LoopsLive ==
    refreshing /\ enumerated => \A n \in Node : Chains(tasks[n]) > 0 \/ rejected[n]
=============================================================================
