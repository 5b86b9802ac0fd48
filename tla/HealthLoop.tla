----------------------------- MODULE HealthLoop -----------------------------
(***************************************************************************)
(* The health loop of the payer-daemon client                              *)
(* (src/providers/payerDaemon/grpc.ts): a probe of the daemon that arms    *)
(* the timer of the next probe when its answer is in.  The service-        *)
(* registry client has the same loop, line for line.                       *)
(***************************************************************************)
EXTENDS Scheduler

CONSTANT HealthFailureThreshold     \* config.healthFailureThreshold

ASSUME HealthLoopAssumption == HealthFailureThreshold \in Nat \ {0}

VARIABLES
    healthRunning,
    healthTask,             \* the timers of the loop
    healthy,
    consecutiveFailures,
    answering               \* the daemon answers its callers

healthVars == <<healthRunning, healthTask, healthy, consecutiveFailures, answering>>

HealthTypeOK ==
    /\ healthRunning \in BOOLEAN
    /\ healthTask \in Timers
    /\ healthy \in BOOLEAN
    /\ consecutiveFailures \in Nat
    /\ answering \in BOOLEAN

HealthInit ==
    /\ healthRunning = FALSE
    /\ healthTask = noTimers
    /\ healthy = TRUE
    /\ consecutiveFailures = 0
    /\ answering = TRUE

startHealthLoop ==
    IF healthRunning
    THEN UNCHANGED healthVars
    ELSE /\ healthRunning' = TRUE
         /\ healthTask' = Schedule(healthTask)
         /\ UNCHANGED <<healthy, consecutiveFailures, answering>>

stopHealthLoop ==
    /\ healthRunning' = FALSE
    /\ healthTask' = Cancel(healthTask)
    /\ UNCHANGED <<healthy, consecutiveFailures, answering>>

\* The callback starts; when the loop was stopped it returns at once.
HealthFires ==
    \E u \in {FireKept(healthTask), FireStray(healthTask)} :
        /\ Fires(healthTask, u)
        /\ healthTask' = IF healthRunning THEN u ELSE Returned(u)
        /\ UNCHANGED <<healthRunning, healthy, consecutiveFailures, answering>>

\* The end of the callback.
Rearm(running) ==
    healthTask' = IF running THEN Schedule(Returned(healthTask)) ELSE Returned(healthTask)

\* Mutation: the failures are not forgotten.
HealthSucceedsKeepsCount ==
    /\ healthTask.firing > 0 /\ answering
    /\ healthy' = TRUE
    /\ Rearm(healthRunning)
    /\ UNCHANGED <<healthRunning, consecutiveFailures, answering>>

HealthSucceeds ==
    /\ healthTask.firing > 0 /\ answering
    /\ consecutiveFailures' = 0
    /\ healthy' = TRUE
    /\ Rearm(healthRunning)
    /\ UNCHANGED <<healthRunning, answering>>

\* Mutation: a probe that fails arms no other.
HealthFailsForGood ==
    /\ healthTask.firing > 0 /\ ~answering
    /\ consecutiveFailures' = IF consecutiveFailures < HealthFailureThreshold
                              THEN consecutiveFailures + 1 ELSE consecutiveFailures
    /\ healthy' = (healthy /\ consecutiveFailures' < HealthFailureThreshold)
    /\ healthTask' = Returned(healthTask)
    /\ UNCHANGED <<healthRunning, answering>>

\* The probe is refused or exceeds its deadline.  The count is capped at the
\* threshold, above which nothing depends on it.
HealthFails ==
    /\ healthTask.firing > 0 /\ ~answering
    /\ consecutiveFailures' = IF consecutiveFailures < HealthFailureThreshold
                              THEN consecutiveFailures + 1 ELSE consecutiveFailures
    /\ healthy' = (healthy /\ consecutiveFailures' < HealthFailureThreshold)
    /\ Rearm(healthRunning)
    /\ UNCHANGED <<healthRunning, answering>>

\* The daemon goes down or comes back.
DaemonToggles ==
    /\ answering' = ~answering
    /\ UNCHANGED <<healthRunning, healthTask, healthy, consecutiveFailures>>

HealthStep == HealthFires \/ HealthSucceeds \/ HealthFails

\* The gateway refuses payments exactly while the probes that failed since
\* the last good one have reached the threshold, in whatever order the probes
\* of overlapping loops come back.
HealthyIsEarned == healthy <=> consecutiveFailures < HealthFailureThreshold
=============================================================================
