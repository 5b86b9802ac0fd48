------------------------------ MODULE Gateway ------------------------------
(***************************************************************************)
(* The gateway process of examples/minimal-shell/start.ts: it boots (the   *)
(* migrations, the health loop, the list of nodes, the quote refresher,    *)
(* the HTTP server), serves requests that pay nodes, and shuts down on a   *)
(* signal.  The composition of Migrate, HealthLoop, RefreshLoop and        *)
(* Payments: the health loop decides whether requests may pay, the ticks   *)
(* of the refresher bring the quotes they pay for, and the shutdown takes  *)
(* one after the other away.                                               *)
(*                                                                         *)
(* Beyond what start.ts itself calls, the operator may turn the loops off  *)
(* and on and close sessions, which are operations of the same objects.    *)
(* Bound: MaxEvents, the budget of everything that comes from outside:     *)
(* requests, quotes and their expiry, deaths, outages, database errors and *)
(* what the operator does.  Runners other than the gateway migrate while   *)
(* the gateway does.                                                       *)
(***************************************************************************)
EXTENDS Migrate, HealthLoop, RefreshLoop, Payments

CONSTANT MaxEvents

ASSUME GatewayAssumption == MaxEvents \in Nat /\ "gateway" \in Runner

VARIABLES
    phase,          \* how far main() or shutdown() has come
    payerClosed,    \* the channel to the payer daemon is closed
    events

vars == <<migrateVars, healthVars, refreshVars, paymentVars, phase, payerClosed, events>>

Phase ==
    {"migrate", "enumerate", "refresh", "serving", "draining", "closing", "exited", "crashed"}

TypeOK ==
    /\ MigrateTypeOK /\ HealthTypeOK /\ RefreshTypeOK /\ PaymentTypeOK
    /\ phase \in Phase
    /\ payerClosed \in BOOLEAN
    /\ events \in 0 .. MaxEvents

Init ==
    /\ MigrateInit /\ HealthInit /\ RefreshInit /\ PaymentInit
    /\ phase = "migrate"
    /\ payerClosed = FALSE
    /\ events = 0

Ordinary == UNCHANGED events
Event == events < MaxEvents /\ events' = events + 1

Enter(from, to) == phase = from /\ phase' = to
Stay == UNCHANGED <<phase, payerClosed>>

\* The process is up: its timers and awaits are served.
Up == phase \notin {"migrate", "exited", "crashed"}

----------------------------------------------------------------------------
(* Boot *)

MigrateWhileBooting ==
    /\ phase = "migrate" /\ Stay
    /\ \E p \in Runner : \/ MigrateStep(p) /\ Ordinary
                         \/ RunnerDies(p) /\ Event
    /\ UNCHANGED <<healthVars, refreshVars, paymentVars>>

\* runMigrations returned; everything up to the await of listKnown.  Other
\* runners change nothing of what follows and are taken to be done.
StartDaemons ==
    /\ \A p \in Runner : runner[p] = "ready"
    /\ Enter("migrate", "enumerate")
    /\ startHealthLoop
    /\ Ordinary
    /\ UNCHANGED <<migrateVars, refreshVars, paymentVars, payerClosed>>

\* listKnown answered or failed (the pool starts empty): refresher.start().
StartRefresher ==
    /\ Enter("enumerate", "refresh")
    /\ startRefresher
    /\ Ordinary
    /\ UNCHANGED <<migrateVars, healthVars, paymentVars, payerClosed>>

\* refresher.start() returned; services, routes and listen.
Listen ==
    /\ starting = 0
    /\ Enter("refresh", "serving")
    /\ Ordinary
    /\ UNCHANGED <<migrateVars, healthVars, refreshVars, paymentVars, payerClosed>>

----------------------------------------------------------------------------
(* Serving *)

Background ==
    /\ Up /\ Stay
    /\ UNCHANGED migrateVars

HealthRuns ==
    /\ Background /\ Ordinary
    /\ HealthStep
    /\ UNCHANGED <<refreshVars, paymentVars>>

RefreshRuns(n) ==
    /\ Background /\ Ordinary
    /\ TickStarts(n) \/ TickReturns(n) \/ TickFails(n)
    /\ UNCHANGED <<healthVars, paymentVars>>

\* A tick under way replaces the quotes of its node; what it still has to
\* persist may fail afterwards.
QuotesArrive(n) ==
    /\ Background /\ Event
    /\ tasks[n].firing > 0
    /\ DropQuote(n) \/ \E b \in 0 .. MaxBlock : IssueQuote(n, b)
    /\ UNCHANGED <<healthVars, refreshVars>>

Enumerates ==
    /\ Background /\ Ordinary
    /\ Enumerated \/ EnumerationFails
    /\ UNCHANGED <<healthVars, paymentVars>>

RequestArrives(r) ==
    /\ phase = "serving" /\ Background /\ Event
    /\ Arrive(r)
    /\ UNCHANGED <<healthVars, refreshVars>>

\* The payment of a request, up to the answer of its client.
RequestRuns(r) ==
    /\ Background /\ Ordinary
    /\ \/ \E n \in Node : Refuse(r, n, healthy) \/ Pay(r, n, healthy)
       \/ SelectFails(r) \/ PaymentStep(r) \/ Answered(r)
    /\ UNCHANGED <<healthVars, refreshVars>>

TimePasses ==
    /\ Background /\ Event
    /\ QuoteExpires
    /\ UNCHANGED <<healthVars, refreshVars>>

CloseSteps ==
    /\ Background /\ Ordinary
    /\ CloseSession \/ Swept
    /\ UNCHANGED <<healthVars, refreshVars>>

----------------------------------------------------------------------------
(* Events *)

\* The daemon goes down or comes back, a database write of a tick is
\* rejected, an answer of startSession is lost, or the operator turns a loop
\* off or on or closes sessions.
Happens ==
    /\ Background /\ Event
    /\ \/ (DaemonToggles \/ (phase = "serving" /\ (stopHealthLoop \/ startHealthLoop)))
             /\ UNCHANGED <<refreshVars, paymentVars>>
       \/ ((\E n \in Node : TickRejects(n)) \/ (phase = "serving" /\ (stopRefresher \/ startRefresher)))
             /\ UNCHANGED <<healthVars, paymentVars>>
       \/ ((\E r \in Request : SessionLost(r)) \/ (\E n \in Node : CloseNode(n)) \/ CloseAll)
             /\ UNCHANGED <<healthVars, refreshVars>>

\* A database write of a tick is rejected outside its try block, as in
\* TickRejects.  The scheduler drops the promise and start.ts handles no
\* unhandledRejection, so by Node's default the process ends, whatever it does.
RejectionEnds(n) ==
    /\ Up /\ Event
    /\ tasks[n].firing > 0
    /\ phase' = "crashed"
    /\ UNCHANGED <<migrateVars, healthVars, refreshVars, paymentVars, payerClosed>>

----------------------------------------------------------------------------
(* Shutdown *)

\* SIGTERM or SIGINT: everything up to the await of app.close().
Signal ==
    /\ Enter("serving", "draining")
    /\ stopRefresher
    /\ stopHealthLoop
    /\ Ordinary
    /\ UNCHANGED <<migrateVars, paymentVars, payerClosed>>

\* Mutation: the daemon's channel is closed without waiting for the server.
AppClosedEarly ==
    /\ Enter("draining", "closing")
    /\ payerClosed' = TRUE
    /\ Ordinary
    /\ UNCHANGED <<migrateVars, healthVars, refreshVars, paymentVars>>

\* app.close() returns when no request is under way; payerDaemon.close().
AppClosed ==
    /\ Enter("draining", "closing")
    /\ \A r \in Request : stage[r] = "idle"
    /\ payerClosed' = TRUE
    /\ Ordinary
    /\ UNCHANGED <<migrateVars, healthVars, refreshVars, paymentVars>>

\* redis.close(), database.end(), process.exit(0).
Exit ==
    /\ Enter("closing", "exited")
    /\ Ordinary
    /\ UNCHANGED <<migrateVars, healthVars, refreshVars, paymentVars, payerClosed>>

Shutdown == AppClosed \/ Exit

Next ==
    \/ MigrateWhileBooting \/ StartDaemons \/ StartRefresher \/ Listen
    \/ HealthRuns \/ Enumerates \/ TimePasses \/ CloseSteps
    \/ \E n \in Node : RefreshRuns(n) \/ QuotesArrive(n) \/ RejectionEnds(n)
    \/ \E r \in Request : RequestArrives(r) \/ RequestRuns(r)
    \/ Happens
    \/ Signal \/ Shutdown

\* Timers fire, ticks and calls end (each has a deadline), and shutdown()
\* goes on when what it awaits has settled.
Fairness ==
    /\ WF_vars(HealthRuns)
    /\ WF_vars(\E n \in Node : RefreshRuns(n))
    /\ WF_vars(\E r \in Request : RequestRuns(r))
    /\ WF_vars(Shutdown)

Spec == Init /\ [][Next]_vars /\ Fairness

----------------------------------------------------------------------------
(* Properties *)

\* No request loses the payer daemon under its feet: the shutdown closes the
\* channel only after the last request that may still pay is answered.
PayerOutlivesRequests == payerClosed => \A r \in Request : stage[r] = "idle"

\* A signal ends the process, whatever was under way: when its turn comes, or
\* earlier when a rejected tick ends it.
ShutdownEnds == phase = "draining" ~> phase \in {"exited", "crashed"}

\* A payer daemon that is back and stays back is trusted again, as long as
\* the process lives.
PayerRecovers ==
    healthRunning /\ ~healthy ~> healthy \/ ~healthRunning \/ ~answering \/ phase = "crashed"
=============================================================================
