---------------------------- MODULE GatewayProofs ---------------------------
(***************************************************************************)
(* Proofs about Gateway.  The gateway is a composition: each of its steps  *)
(* is, for each component, a step of that component or none at all.  The   *)
(* lemmas named ...Part say so, and an invariant of a component is then    *)
(* proved over the component's own steps.                                  *)
(***************************************************************************)
EXTENDS Gateway, FiniteSetTheorems, TLAPS

HealthMoves == startHealthLoop \/ stopHealthLoop \/ DaemonToggles \/ HealthStep

RefreshMoves ==
    \/ startRefresher \/ stopRefresher \/ Enumerated \/ EnumerationFails
    \/ \E n \in Node : TickStarts(n) \/ TickReturns(n) \/ TickFails(n) \/ TickRejects(n)

PaymentMoves ==
    \/ QuoteExpires \/ CloseSession \/ Swept \/ CloseAll
    \/ \E n \in Node : DropQuote(n) \/ CloseNode(n) \/ \E b \in 0 .. MaxBlock : IssueQuote(n, b)
    \/ \E r \in Request : \/ Arrive(r) \/ SelectFails(r) \/ PaymentStep(r) \/ Answered(r) \/ SessionLost(r)
                          \/ \E n \in Node : Refuse(r, n, healthy) \/ Pay(r, n, healthy)

(* Each step of the gateway is one of its migration runners or leaves the  *)
(* database's migrations alone.                                            *)
LEMMA MigratePart == [Next]_vars => [MigrateNext]_migrateVars
  BY DEF Next, vars, MigrateWhileBooting, MigrateNext, StartDaemons, StartRefresher, Listen,
         Background, HealthRuns, RefreshRuns, QuotesArrive, Enumerates, RequestArrives,
         RequestRuns, TimePasses, CloseSteps, Happens, RejectionEnds, Signal, Shutdown, AppClosed, Exit

(* ... one of the health loop, or it leaves the loop alone.                *)
LEMMA HealthPart == [Next]_vars => HealthMoves \/ UNCHANGED healthVars
  BY DEF Next, vars, HealthMoves, MigrateWhileBooting, StartDaemons, StartRefresher, Listen,
         Background, HealthRuns, RefreshRuns, QuotesArrive, Enumerates, RequestArrives,
         RequestRuns, TimePasses, CloseSteps, Happens, RejectionEnds, Signal, Shutdown, AppClosed, Exit

(* ... one of the quote refresher, or it leaves the refresher alone.       *)
LEMMA RefreshPart == [Next]_vars => RefreshMoves \/ UNCHANGED refreshVars
  BY DEF Next, vars, RefreshMoves, MigrateWhileBooting, StartDaemons, StartRefresher, Listen,
         Background, HealthRuns, RefreshRuns, QuotesArrive, Enumerates, RequestArrives,
         RequestRuns, TimePasses, CloseSteps, Happens, RejectionEnds, Signal, Shutdown, AppClosed, Exit

(* ... one of the payments service, or it leaves the service alone.        *)
LEMMA PaymentPart == [Next]_vars => PaymentMoves \/ UNCHANGED paymentVars
  BY DEF Next, vars, PaymentMoves, MigrateWhileBooting, StartDaemons, StartRefresher, Listen,
         Background, HealthRuns, RefreshRuns, QuotesArrive, Enumerates, RequestArrives,
         RequestRuns, TimePasses, CloseSteps, Happens, RejectionEnds, Signal, Shutdown, AppClosed, Exit

----------------------------------------------------------------------------
(* The composition runs the migrations as Migrate says.                    *)
THEOREM GatewayMigrates == Spec => MigrateSpec
<1>1. Init => MigrateInit
  BY DEF Init
<1>. QED
  BY <1>1, MigratePart, PTL DEF Spec, MigrateSpec

----------------------------------------------------------------------------
(* The health flag *)

HealthInv == healthy \in BOOLEAN /\ consecutiveFailures \in Nat /\ HealthyIsEarned

(* A probe that fails clears the flag only at the threshold, and one that  *)
(* succeeds resets the count with it, in whatever order answers arrive.    *)
LEMMA HealthInvInductive == HealthInv /\ HealthMoves => HealthInv'
<1>. SUFFICES ASSUME HealthInv, HealthMoves PROVE HealthInv'
  OBVIOUS
<1>. USE HealthLoopAssumption DEF HealthInv, HealthyIsEarned
<1>1. CASE startHealthLoop
  BY <1>1 DEF startHealthLoop, healthVars
<1>2. CASE stopHealthLoop
  BY <1>2 DEF stopHealthLoop
<1>3. CASE DaemonToggles
  BY <1>3 DEF DaemonToggles
<1>4. CASE HealthFires
  BY <1>4 DEF HealthFires
<1>5. CASE HealthSucceeds
  BY <1>5 DEF HealthSucceeds
<1>6. CASE HealthFails
  <2>1. consecutiveFailures' = IF consecutiveFailures < HealthFailureThreshold
                               THEN consecutiveFailures + 1 ELSE consecutiveFailures
    BY <1>6 DEF HealthFails
  <2>2. /\ consecutiveFailures' \in Nat
        /\ consecutiveFailures' < HealthFailureThreshold => consecutiveFailures < HealthFailureThreshold
    BY <2>1
  <2>3. healthy' = (healthy /\ consecutiveFailures' < HealthFailureThreshold)
    BY <1>6 DEF HealthFails
  <2>. QED
    BY <2>2, <2>3, Zenon
<1>. QED
  BY <1>1, <1>2, <1>3, <1>4, <1>5, <1>6 DEF HealthMoves, HealthStep

(* The gateway refuses payments exactly while the probes that failed since *)
(* the last good one have reached the threshold (HealthLoop.scheduleHealth *)
(* in payerDaemon/grpc.ts), for every threshold and interleaving.          *)
THEOREM GatewayHealthyIsEarned == Spec => []HealthyIsEarned
<1>1. Init => HealthInv
  BY HealthLoopAssumption DEF Init, HealthInit, HealthInv, HealthyIsEarned
<1>2. HealthInv /\ [Next]_vars => HealthInv'
  BY HealthPart, HealthInvInductive DEF HealthInv, HealthyIsEarned, healthVars
<1>3. HealthInv => HealthyIsEarned
  BY DEF HealthInv
<1>. QED
  BY <1>1, <1>2, <1>3, PTL DEF Spec

----------------------------------------------------------------------------
(* The refresher's loops *)

RefreshInv == RefreshTypeOK /\ (enumerated => refreshing) /\ LoopsLive

(* An armed timer is a tick to come, whatever was armed before it.         *)
LEMMA ScheduleTypes ==
  ASSUME NEW t \in Timers
  PROVE  /\ Schedule(t) \in Timers /\ Chains(Schedule(t)) > 0
         /\ Cancel(t) \in Timers
         /\ t.firing > 0 => Returned(t) \in Timers
<1>1. Schedule(t) \in Timers /\ Chains(Schedule(t)) > 0
  BY DEF Timers, Schedule, Chains
<1>2. Cancel(t) \in Timers
  BY DEF Timers, Cancel
<1>3. t.firing > 0 => Returned(t) \in Timers
  BY DEF Timers, Returned
<1>. QED
  BY <1>1, <1>2, <1>3

(* A timer that fired is a tick under way: its loop goes on meanwhile.     *)
LEMMA FiresTypes ==
  ASSUME NEW t \in Timers, NEW u, Fires(t, u)
  PROVE  /\ u \in Timers /\ u.firing > 0 /\ Chains(u) > 0
         /\ Returned(u) \in Timers
<1>1. u \in Timers /\ u.firing > 0
  <2>1. CASE t.kept /\ u = FireKept(t)
    BY <2>1 DEF Timers, FireKept
  <2>2. CASE t.strays > 0 /\ u = FireStray(t)
    BY <2>2 DEF Timers, FireStray
  <2>. QED
    BY <2>1, <2>2 DEF Fires
<1>2. Chains(u) > 0
  <2>1. u.strays \in Nat /\ u.firing \in Nat
    BY <1>1 DEF Timers
  <2>2. Chains(u) = u.strays + u.firing \/ Chains(u) = 1 + u.strays + u.firing
    BY <1>1 DEF Timers, Chains
  <2>. QED
    BY <1>1, <2>1, <2>2
<1>. QED
  BY <1>1, <1>2, ScheduleTypes

(* Whoever takes a node's last timer arms the next one, is a tick under    *)
(* way, or was stopped or rejected.                                        *)
LEMMA RefreshInvInductive == RefreshInv /\ RefreshMoves => RefreshInv'
<1>. SUFFICES ASSUME RefreshInv, RefreshMoves PROVE RefreshInv'
  OBVIOUS
<1>. USE DEF RefreshInv, RefreshTypeOK, LoopsLive
<1>1. CASE startRefresher
  <2>1. CASE refreshing
    BY <1>1, <2>1, Zenon DEF startRefresher, refreshVars
  <2>2. CASE ~refreshing
    <3>1. /\ refreshing' = TRUE /\ starting' = starting + 1
          /\ tasks' = tasks /\ enumerated' = enumerated /\ rejected' = rejected
      BY <1>1, <2>2 DEF startRefresher
    <3>2. starting' \in Nat
      BY <3>1
    <3>. QED
      BY <2>2, <3>1, <3>2, Zenon
  <2>. QED
    BY <2>1, <2>2
<1>2. CASE stopRefresher
  BY <1>2, ScheduleTypes DEF stopRefresher
<1>3. CASE Enumerated
  <2>1. \A n \in Node : tasks'[n] \in Timers /\ Chains(tasks'[n]) > 0
    BY <1>3, ScheduleTypes DEF Enumerated
  <2>2. tasks' \in [Node -> Timers]
    BY <1>3, <2>1 DEF Enumerated
  <2>3. starting' \in Nat /\ rejected' \in [Node -> BOOLEAN] /\ refreshing' = refreshing
    BY <1>3 DEF Enumerated
  <2>4. enumerated' = (enumerated \/ refreshing)
    BY <1>3 DEF Enumerated
  <2>. QED
    BY <2>1, <2>2, <2>3, <2>4, Zenon
<1>4. CASE EnumerationFails
  BY <1>4 DEF EnumerationFails
<1>5. ASSUME NEW n \in Node, TickStarts(n) PROVE RefreshInv'
  <2>1. PICK u : /\ Fires(tasks[n], u)
                 /\ tasks' = [tasks EXCEPT ![n] = IF refreshing THEN u ELSE Returned(u)]
                 /\ UNCHANGED <<refreshing, starting, enumerated, rejected>>
    BY <1>5 DEF TickStarts
  <2>2. u \in Timers /\ Chains(u) > 0 /\ Returned(u) \in Timers
    BY <2>1, FiresTypes
  <2>. QED
    BY <2>1, <2>2
<1>6. ASSUME NEW n \in Node, TickReturns(n) PROVE RefreshInv'
  <2>1. Returned(tasks[n]) \in Timers
    BY <1>6, ScheduleTypes DEF TickReturns
  <2>2. Continues(tasks[n]) \in Timers /\ (refreshing => Chains(Continues(tasks[n])) > 0)
    BY <2>1, ScheduleTypes DEF Continues
  <2>. QED
    BY <1>6, <2>2 DEF TickReturns
<1>7. ASSUME NEW n \in Node, TickRejects(n) PROVE RefreshInv'
  <2>1. Returned(tasks[n]) \in Timers
    BY <1>7, ScheduleTypes DEF TickRejects
  <2>. QED
    BY <1>7, <2>1 DEF TickRejects
<1>. QED
  BY <1>1, <1>2, <1>3, <1>4, <1>5, <1>6, <1>7 DEF RefreshMoves, TickFails

(* A node's loop ends only with the refresher or with a rejected write,    *)
(* whatever start(), stop() and ticks under way do to each other.          *)
THEOREM GatewayLoopsLive == Spec => []LoopsLive
<1>1. RefreshInit => RefreshInv
  <2>1. noTimers \in Timers
    BY DEF noTimers, Timers
  <2>2. RefreshInit => RefreshTypeOK
    <3>1. 0 \in Nat
      OBVIOUS
    <3>. QED
      BY <2>1, <3>1, Zenon DEF RefreshInit, RefreshTypeOK
  <2>3. RefreshInit => (enumerated => refreshing) /\ LoopsLive
    BY Zenon DEF RefreshInit, LoopsLive
  <2>. QED
    BY <2>2, <2>3 DEF RefreshInv
<1>2. RefreshInv /\ [Next]_vars => RefreshInv'
  <2>. SUFFICES ASSUME RefreshInv, UNCHANGED refreshVars PROVE RefreshInv'
    BY RefreshPart, RefreshInvInductive
  <2>. QED
    BY DEF RefreshInv, RefreshTypeOK, LoopsLive, refreshVars
<1>3. RefreshInv => LoopsLive
  BY DEF RefreshInv
<1>. QED
  BY <1>1, <1>2, <1>3, PTL DEF Spec, Init

----------------------------------------------------------------------------
(* The shutdown *)

AllIdle == \A r \in Request : stage[r] = "idle"

PayerInv ==
    /\ stage \in [Request -> Stage]
    /\ payerClosed => phase \in {"closing", "exited", "crashed"} /\ AllIdle
    /\ phase \in {"closing", "exited"} => AllIdle

(* A request advances only when it has begun, and begins only while the    *)
(* gateway serves.                                                         *)
LEMMA StagePart ==
  ASSUME [Next]_vars
  PROVE  \/ stage' = stage
         \/ \E r \in Request, s \in Stage :
              /\ stage' = [stage EXCEPT ![r] = s]
              /\ stage[r] # "idle" \/ phase = "serving"
              /\ phase' = phase /\ payerClosed' = payerClosed
<1>1. ASSUME NEW r \in Request, RequestArrives(r) \/ RequestRuns(r) \/ SessionLost(r)
      PROVE  \E s \in Stage : /\ stage' = [stage EXCEPT ![r] = s]
                              /\ stage[r] # "idle" \/ phase = "serving"
  BY <1>1 DEF RequestArrives, RequestRuns, Arrive, Refuse, Pay, SelectFails, PaymentStep, Answered,
              SessionStarted, SessionFails, PaymentCreated, PaymentFails, SessionLost, Advance, Stage
<1>2. ASSUME NEW r \in Request, RequestArrives(r) \/ RequestRuns(r)
      PROVE  phase' = phase /\ payerClosed' = payerClosed
  BY <1>2 DEF RequestArrives, RequestRuns, Background, Stay
<1>3. CASE Happens
  <2>1. phase' = phase /\ payerClosed' = payerClosed
    BY <1>3 DEF Happens, Background, Stay
  <2>2. stage' = stage \/ \E r \in Request : SessionLost(r)
    BY <1>3 DEF Happens, paymentVars, CloseNode, CloseAll
  <2>. QED
    BY <1>1, <2>1, <2>2
<1>4. CASE ~Happens /\ ~(\E r \in Request : RequestArrives(r) \/ RequestRuns(r))
  BY <1>4 DEF Next, vars, paymentVars, MigrateWhileBooting, StartDaemons, StartRefresher, Listen,
         HealthRuns, RefreshRuns, QuotesArrive, Enumerates, TimePasses, CloseSteps, RejectionEnds, Signal,
         Shutdown, AppClosed, Exit, DropQuote, IssueQuote, QuoteExpires, CloseSession, Swept
<1>. QED
  BY <1>1, <1>2, <1>3, <1>4

(* Requests stay idle once the server is closed.                           *)
LEMMA PayerInvInductive == PayerInv /\ [Next]_vars => PayerInv'
<1>. SUFFICES ASSUME PayerInv, [Next]_vars PROVE PayerInv'
  OBVIOUS
<1>1. CASE phase' = phase /\ payerClosed' = payerClosed
  BY <1>1, StagePart DEF PayerInv, AllIdle
<1>2. CASE stage' = stage
  <2>1. CASE AppClosed
    BY <1>2, <2>1 DEF PayerInv, AppClosed, AllIdle, Enter
  <2>2. CASE ~AppClosed
    <3>1. payerClosed' = payerClosed /\ (phase' # phase => phase' \notin {"closing", "exited"} \/ phase = "closing")
      BY <2>2 DEF Next, vars, MigrateWhileBooting, StartDaemons, StartRefresher, Listen, HealthRuns,
             RefreshRuns, QuotesArrive, Enumerates, TimePasses, CloseSteps, RequestArrives, RequestRuns,
             Happens, RejectionEnds, Signal, Shutdown, Exit, Background, Stay, Enter
    <3>2. phase' # phase => phase \notin {"closing", "exited", "crashed"} \/ phase' \in {"exited", "crashed"}
      BY <2>2 DEF Next, vars, MigrateWhileBooting, StartDaemons, StartRefresher, Listen, HealthRuns,
             RefreshRuns, QuotesArrive, Enumerates, TimePasses, CloseSteps, RequestArrives, RequestRuns,
             Happens, RejectionEnds, Signal, Shutdown, Exit, Background, Stay, Enter
    <3>. QED
      BY <1>2, <3>1, <3>2 DEF PayerInv, AllIdle
  <2>. QED
    BY <2>1, <2>2
<1>. QED
  BY <1>1, <1>2, StagePart

(* The shutdown of start.ts closes the payer daemon's channel only after   *)
(* the last request that may still pay is answered.                        *)
THEOREM GatewayPayerOutlivesRequests == Spec => []PayerOutlivesRequests
<1>1. Init => PayerInv
  BY DEF Init, PaymentInit, PayerInv, AllIdle, Stage
<1>2. PayerInv => PayerOutlivesRequests
  BY DEF PayerInv, PayerOutlivesRequests, AllIdle
<1>. QED
  BY <1>1, <1>2, PayerInvInductive, PTL DEF Spec

----------------------------------------------------------------------------
(* The migrations *)

MigrateInv ==
    /\ MigrateTypeOK
    /\ ReadyMeansMigrated
    /\ \A p \in Runner :
         /\ \A i \in 1 .. Len(Files) : i < file[p] => Files[i] \in executed
         /\ runner[p] = "insert" => Files[file[p]] \in executed
         /\ runner[p] = "ready" => file[p] = Len(Files) + 1

(* A runner past a file has seen it tracked, and what is tracked has run.  *)
LEMMA MigrateInvInductive == MigrateInv /\ [MigrateNext]_migrateVars => MigrateInv'
<1>. SUFFICES ASSUME MigrateInv, [MigrateNext]_migrateVars PROVE MigrateInv'
  OBVIOUS
<1>0. /\ Len(Files) \in Nat
      /\ \A i, j \in 1 .. Len(Files) : Files[i] = Files[j] => i = j
      /\ \A i \in 1 .. Len(Files) : Files[i] \in File
      /\ MaxDeaths \in Nat
  BY MigrateAssumption DEF File
<1>. USE <1>0 DEF MigrateInv, MigrateTypeOK, ReadyMeansMigrated, RunnerState
<1>1. ASSUME NEW p \in Runner, CreateTracker(p) PROVE MigrateInv'
  BY <1>1 DEF CreateTracker, AtStatement
<1>2. ASSUME NEW p \in Runner, SelectApplied(p) PROVE MigrateInv'
  <2>1. CASE /\ file[p] > Len(Files)
             /\ AtStatement(p, "select", "ready")
             /\ UNCHANGED <<tracker, executed, file, deaths>>
    <3>1. file[p] = Len(Files) + 1
      BY <2>1
    <3>2. executed = File
      BY <3>1 DEF File
    <3>. QED
      BY <2>1, <3>1, <3>2 DEF AtStatement
  <2>2. CASE /\ file[p] <= Len(Files) /\ Files[file[p]] \in tracker
             /\ AtStatement(p, "select", "select")
             /\ file' = [file EXCEPT ![p] = @ + 1]
             /\ UNCHANGED <<tracker, executed, deaths>>
    BY <2>2 DEF AtStatement
  <2>3. CASE /\ file[p] <= Len(Files) /\ Files[file[p]] \notin tracker
             /\ AtStatement(p, "select", "body")
             /\ UNCHANGED <<tracker, executed, file, deaths>>
    BY <2>3 DEF AtStatement
  <2>. QED
    BY <1>2, <2>1, <2>2, <2>3 DEF SelectApplied
<1>3. ASSUME NEW p \in Runner, ExecuteBody(p) PROVE MigrateInv'
  <2>1. CASE /\ AtStatement(p, "body", "failed")
             /\ UNCHANGED <<tracker, executed, file, deaths>>
    BY <2>1 DEF AtStatement
  <2>2. CASE /\ AtStatement(p, "body", "insert")
             /\ executed' = executed \cup {Files[file[p]]}
             /\ UNCHANGED <<tracker, file, deaths>>
    <3>1. file[p] \in 1 .. Len(Files)
      BY <2>2 DEF AtStatement
    <3>2. \A i, j \in 1 .. Len(Files) : i < j /\ Files[j] \in executed' => Files[i] \in executed'
      BY <2>2, <3>1
    <3>3. \A q \in Runner : runner[q] = "ready" => executed' = File
      BY <2>2, <3>1
    <3>. QED
      BY <2>2, <3>1, <3>2, <3>3 DEF AtStatement
  <2>. QED
    BY <1>3, <2>1, <2>2 DEF ExecuteBody
<1>4. ASSUME NEW p \in Runner, InsertTracker(p) PROVE MigrateInv'
  BY <1>4 DEF InsertTracker, AtStatement
<1>5. ASSUME NEW p \in Runner, RunnerDies(p) PROVE MigrateInv'
  BY <1>5 DEF RunnerDies
<1>6. ASSUME NEW p \in Runner, RunAgain(p) PROVE MigrateInv'
  BY <1>6 DEF RunAgain, AtStatement
<1>7. CASE UNCHANGED migrateVars
  BY <1>7 DEF migrateVars
<1>. QED
  BY <1>1, <1>2, <1>3, <1>4, <1>5, <1>6, <1>7 DEF MigrateNext, MigrateStep

(* A runner that goes on to serve has every table, and what the tracker    *)
(* lists has run, wherever runners of repo/migrate.ts interleave and die.  *)
THEOREM MigrateReadyMeansMigrated == MigrateSpec => []ReadyMeansMigrated
<1>1. MigrateInit => MigrateInv
  BY MigrateAssumption DEF MigrateInit, MigrateInv, MigrateTypeOK, ReadyMeansMigrated, RunnerState, File
<1>2. MigrateInv => ReadyMeansMigrated
  BY DEF MigrateInv
<1>. QED
  BY <1>1, <1>2, MigrateInvInductive, PTL DEF MigrateSpec

(* The same of the whole gateway, whose loops, requests and shutdown do not*)
(* touch the tables of the migrations.                                     *)
THEOREM GatewayReadyMeansMigrated == Spec => []ReadyMeansMigrated
  BY GatewayMigrates, MigrateReadyMeansMigrated, PTL

----------------------------------------------------------------------------
(* The payment sessions: whose session a request pays from, and that the  *)
(* cache offers no closed one.                                             *)

Entry   == [workId : Nat, quote : Quote]
Session == [quote : Quote, open : BOOLEAN]

\* The daemon has a session under this number, opened with this quote.
OpenedFor(id, q) == id \in 1 .. Len(sessions) /\ sessions[id].quote = q

TypesInv ==
    /\ quotes \in [Node -> Quote \cup {NoQuote}]
    /\ issued \in Nat
    /\ entries \in [Key -> Entry \cup {NoEntry}]
    /\ sessions \in Seq(Session)
    /\ stage \in [Request -> Stage]
    /\ quote \in [Request -> Quote \cup {NoQuote}]
    /\ workId \in [Request -> Nat]
    /\ closing \in Seq(Entry)
    /\ sweeping \in {"none", "close", "closeAll"}

\* A cached entry names a session opened with the entry's quote, under the
\* quote's key; so does an entry that is to be closed.
Recorded ==
    /\ \A k \in Key : entries[k] # NoEntry =>
          /\ OpenedFor(entries[k].workId, entries[k].quote)
          /\ keyToString(entries[k].quote) = k
    /\ \A i \in 1 .. Len(closing) : OpenedFor(closing[i].workId, closing[i].quote)

\* A request that pays has a session of its quote's key.
Keyed ==
    /\ \A r \in Request : stage[r] \in {"starting", "paying", "paid"} => quote[r] \in Quote
    /\ \A r \in Request : stage[r] \in {"paying", "paid"} =>
          /\ workId[r] \in 1 .. Len(sessions)
          /\ keyToString(sessions[workId[r]].quote) = keyToString(quote[r])

SessionInv == TypesInv /\ Recorded /\ Keyed

\* Unless close() will delete it first, no cached entry names a session that
\* is to be closed.
Unswept ==
    sweeping # "close" =>
        \A k \in Key, i \in 1 .. Len(closing) :
            entries[k] # NoEntry => entries[k].workId # closing[i].workId

CacheInv == CacheIsOpen /\ Unswept

----------------------------------------------------------------------------
(* A quote has a key.                                                      *)
LEMMA KeyOf == ASSUME NEW q \in Quote PROVE keyToString(q) \in Key
  BY DEF Quote, Key, keyToString

(* The keys of finitely many nodes are finitely many.                      *)
LEMMA KeyFinite == IsFiniteSet(Key)
<1>. DEFINE B == 0 .. MaxBlock
            f == [p \in Node \X B |-> [node |-> p[1], block |-> p[2]]]
<1>1. IsFiniteSet(B)
  <2>1. 0 \in Int /\ MaxBlock \in Int
    BY PaymentsAssumption DEF PaymentsAssumption
  <2>. QED
    BY <2>1, FS_Interval
<1>2. IsFiniteSet(Node \X B)
  BY <1>1, NodeAssumption, FS_Product DEF NodeAssumption
<1>3. f \in Surjection(Node \X B, Key)
  <2>1. f \in [Node \X B -> Key]
    BY DEF Key
  <2>2. ASSUME NEW k \in Key PROVE \E p \in Node \X B : f[p] = k
    <3>1. <<k.node, k.block>> \in Node \X B /\ f[<<k.node, k.block>>] = k
      BY DEF Key
    <3>. QED
      BY <3>1
  <2>. QED
    BY <2>1, <2>2 DEF Surjection
<1>. QED
  BY <1>2, <1>3, FS_Surjection

(* A finite set, put in a sequence.                                        *)
LEMMA SetToSeqIsSeq ==
  ASSUME NEW S, IsFiniteSet(S)
  PROVE  SetToSeq(S) \in Seq(S)
<1>1. Cardinality(S) \in Nat /\ ExistsBijection(1 .. Cardinality(S), S)
  BY FS_CardinalityType
<1>2. \E g \in [1 .. Cardinality(S) -> S] : IsInjective(g)
  BY <1>1 DEF ExistsBijection, Bijection, Injection
<1>3. SetToSeq(S) \in [1 .. Cardinality(S) -> S]
  BY <1>2 DEF SetToSeq
<1>. QED
  BY <1>1, <1>3

(* close() and closeAll() collect cached entries and nothing else.         *)
LEMMA EntriesOfIsSeq ==
  ASSUME NEW keys \in SUBSET Key
  PROVE  EntriesOf(keys) \in Seq({entries[k] : k \in {k \in keys : entries[k] # NoEntry}})
<1>. DEFINE K == {k \in keys : entries[k] # NoEntry}
            S == {entries[k] : k \in K}
            f == [k \in K |-> entries[k]]
<1>1. IsFiniteSet(K)
  BY KeyFinite, FS_Subset
<1>2. f \in Surjection(K, S)
  BY DEF Surjection
<1>3. IsFiniteSet(S)
  BY <1>1, <1>2, FS_Surjection
<1>. HIDE DEF S
<1>4. SetToSeq(S) \in Seq(S)
  BY <1>3, SetToSeqIsSeq
<1>. QED
  BY <1>4 DEF EntriesOf, S

(* What close() and closeAll() collect is cached: it has a type and a      *)
(* session.                                                                *)
LEMMA Collected ==
  ASSUME SessionInv, NEW keys \in SUBSET Key
  PROVE  /\ EntriesOf(keys) \in Seq(Entry)
         /\ \A i \in 1 .. Len(EntriesOf(keys)) : \E k \in keys :
              entries[k] # NoEntry /\ EntriesOf(keys)[i] = entries[k]
<1>. DEFINE S == {entries[k] : k \in {k \in keys : entries[k] # NoEntry}}
            c == EntriesOf(keys)
<1>1. c \in Seq(S)
  BY EntriesOfIsSeq
<1>2. S \subseteq Entry
  BY DEF SessionInv, TypesInv
<1>3. \A i \in 1 .. Len(c) : c[i] \in S
  <2>. HIDE DEF S, c
  <2>. QED
    BY <1>1
<1>4. c \in Seq(Entry)
  <2>. HIDE DEF S, c
  <2>. QED
    BY <1>1, <1>2
<1>. QED
  BY <1>3, <1>4

(* Ending a session's life changes whether it is open and nothing else.    *)
LEMMA ClosedSession ==
  ASSUME sessions \in Seq(Session), NEW id \in Nat,
         sessions' = [sessions EXCEPT ![id] = [quote |-> @.quote, open |-> FALSE]]
  PROVE  /\ sessions' \in Seq(Session) /\ Len(sessions') = Len(sessions)
         /\ \A i \in 1 .. Len(sessions) : sessions'[i].quote = sessions[i].quote
         /\ \A i \in 1 .. Len(sessions) : i # id => sessions'[i] = sessions[i]
<1>1. \A i \in 1 .. Len(sessions) : sessions[i] \in Session
  OBVIOUS
<1>2. \A i \in 1 .. Len(sessions) : i # id => sessions'[i] = sessions[i]
  OBVIOUS
<1>3. ASSUME NEW i \in 1 .. Len(sessions)
      PROVE  sessions'[i] \in Session /\ sessions'[i].quote = sessions[i].quote
  <2>1. CASE i # id
    BY <1>1, <1>2, <2>1
  <2>2. CASE i = id
    <3>1. i \in DOMAIN sessions
      OBVIOUS
    <3>2. sessions'[i] = [quote |-> sessions[i].quote, open |-> FALSE]
      BY <2>2, <3>1, Zenon
    <3>3. sessions[i].quote \in Quote
      BY <1>1 DEF Session
    <3>4. [quote |-> sessions[i].quote, open |-> FALSE] \in Session
      BY <3>3, Zenon DEF Session
    <3>5. [quote |-> sessions[i].quote, open |-> FALSE].quote = sessions[i].quote
      OBVIOUS
    <3>. QED
      BY <3>2, <3>4, <3>5, Zenon
  <2>. QED
    BY <2>1, <2>2
<1>4. DOMAIN sessions' = 1 .. Len(sessions) /\ Len(sessions) \in Nat
  OBVIOUS
<1>5. sessions' \in [1 .. Len(sessions) -> Session]
  BY <1>3, <1>4
<1>6. sessions' \in Seq(Session) /\ Len(sessions') = Len(sessions)
  BY <1>4, <1>5
<1>. QED
  BY <1>2, <1>3, <1>6

(* A session more: those there are keep their numbers.                     *)
LEMMA NewSession ==
  ASSUME sessions \in Seq(Session), NEW q \in Quote,
         sessions' = Append(sessions, [quote |-> q, open |-> TRUE])
  PROVE  /\ sessions' \in Seq(Session)
         /\ Len(sessions') = Len(sessions) + 1
         /\ sessions'[Len(sessions) + 1] = [quote |-> q, open |-> TRUE]
         /\ \A i \in 1 .. Len(sessions) : sessions'[i] = sessions[i]
<1>1. [quote |-> q, open |-> TRUE] \in Session
  BY DEF Session
<1>. QED
  BY <1>1
(* A session once opened belongs to its quote: whatever comes, a cached     *)
(* entry and a request that pays keep one of the quote's key.               *)
LEMMA SessionInvInductive == SessionInv /\ PaymentMoves => SessionInv'
<1>. SUFFICES ASSUME SessionInv, PaymentMoves PROVE SessionInv'
  OBVIOUS
<1>. USE DEF SessionInv, TypesInv, Recorded, Keyed, OpenedFor
<1>1. CASE QuoteExpires
  BY <1>1 DEF QuoteExpires
<1>2. CASE Swept
  BY <1>2 DEF Swept
<1>3. ASSUME NEW n \in Node, DropQuote(n) PROVE SessionInv'
  BY <1>3 DEF DropQuote
<1>4. ASSUME NEW n \in Node, NEW b \in 0 .. MaxBlock, IssueQuote(n, b) PROVE SessionInv'
  <2>1. [node |-> n, age |-> issued + 1, block |-> b] \in Quote
    BY <1>4, PaymentsAssumption DEF IssueQuote, Quote, PaymentsAssumption
  <2>2. quotes' \in [Node -> Quote \cup {NoQuote}]
    BY <1>4, <2>1 DEF IssueQuote
  <2>. QED
    BY <1>4, <2>2 DEF IssueQuote
<1>5. ASSUME NEW r \in Request,
             \/ Arrive(r) \/ SelectFails(r) \/ SessionFails(r) \/ PaymentFails(r)
             \/ \E n \in Node : Refuse(r, n, healthy)
      PROVE  SessionInv'
  BY <1>5 DEF Arrive, SelectFails, SessionFails, PaymentFails, Refuse, Advance, Stage
<1>6. ASSUME NEW r \in Request, PaymentCreated(r) PROVE SessionInv'
  BY <1>6 DEF PaymentCreated, Advance, Stage
<1>7. ASSUME NEW r \in Request, Answered(r) PROVE SessionInv'
  BY <1>7 DEF Answered, Advance, Stage, NoSession
<1>8. ASSUME NEW r \in Request, NEW n \in Node, Pay(r, n, healthy) PROVE SessionInv'
  <2>. DEFINE k == keyToString(quotes[n])
  <2>1. quotes[n] \in Quote /\ k \in Key
    BY <1>8, KeyOf DEF Pay, Payable
  <2>2. CASE Hit(k)
    <3>1. TypesInv'
      BY <1>8, <2>1, <2>2 DEF Pay, Hit, Entry, Advance, Stage
    <3>2. Recorded'
      BY <1>8, <2>2 DEF Pay
    <3>3. Keyed'
      BY <1>8, <2>1, <2>2 DEF Pay, Hit, Advance
    <3>. QED
      BY <3>1, <3>2, <3>3
  <2>3. CASE ~Hit(k)
    <3>1. TypesInv'
      BY <1>8, <2>1, <2>3 DEF Pay, Advance, Stage
    <3>2. Recorded'
      BY <1>8, <2>1, <2>3 DEF Pay
    <3>3. Keyed'
      BY <1>8, <2>1, <2>3 DEF Pay, Advance, Stage
    <3>. QED
      BY <3>1, <3>2, <3>3
  <2>. QED
    BY <2>2, <2>3
<1>9. ASSUME NEW r \in Request, SessionStarted(r) PROVE SessionInv'
  <2>. DEFINE k == keyToString(quote[r])
              e == [workId |-> Len(sessions) + 1, quote |-> quote[r]]
  <2>1. quote[r] \in Quote /\ k \in Key /\ e \in Entry
    BY <1>9, KeyOf DEF SessionStarted, Entry
  <2>2. /\ sessions' \in Seq(Session) /\ Len(sessions') = Len(sessions) + 1
        /\ sessions'[Len(sessions) + 1].quote = quote[r]
        /\ \A i \in 1 .. Len(sessions) : sessions'[i].quote = sessions[i].quote
    <3>1. sessions' = Append(sessions, [quote |-> quote[r], open |-> TRUE])
      BY <1>9 DEF SessionStarted
    <3>2. /\ sessions' \in Seq(Session) /\ Len(sessions') = Len(sessions) + 1
          /\ sessions'[Len(sessions) + 1] = [quote |-> quote[r], open |-> TRUE]
          /\ \A i \in 1 .. Len(sessions) : sessions'[i] = sessions[i]
      BY <2>1, <3>1, NewSession
    <3>3. sessions'[Len(sessions) + 1].quote = quote[r]
      <4>1. [quote |-> quote[r], open |-> TRUE].quote = quote[r]
        OBVIOUS
      <4>. QED
        BY <3>2, <4>1, Zenon
    <3>. QED
      BY <3>2, <3>3
  <2>3. entries' = [entries EXCEPT ![k] = e]
    BY <1>9 DEF SessionStarted
  <2>4. TypesInv'
    BY <1>9, <2>1, <2>2, <2>3 DEF SessionStarted, Advance, Stage
  <2>5. Recorded'
    <3>1. e.workId = Len(sessions) + 1 /\ e.quote = quote[r]
      OBVIOUS
    <3>2. ASSUME NEW j \in Key, entries'[j] # NoEntry
          PROVE  /\ OpenedFor(entries[j].workId, entries[j].quote)'
                 /\ keyToString(entries'[j].quote) = j
      <4>. HIDE DEF e
      <4>1. CASE j = k
        BY <2>1, <2>2, <2>3, <3>1, <4>1
      <4>2. CASE j # k
        <5>1. entries'[j] = entries[j] /\ entries[j] # NoEntry
          BY <2>3, <3>2, <4>2
        <5>2. OpenedFor(entries[j].workId, entries[j].quote) /\ keyToString(entries[j].quote) = j
          BY <5>1
        <5>. QED
          BY <2>2, <5>1, <5>2
      <4>. QED
        BY <4>1, <4>2
    <3>3. \A i \in 1 .. Len(closing) : OpenedFor(closing[i].workId, closing[i].quote)'
      BY <1>9, <2>2 DEF SessionStarted
    <3>. QED
      BY <1>9, <3>2, <3>3 DEF SessionStarted
  <2>6. Keyed'
    BY <1>9, <2>1, <2>2 DEF SessionStarted, Advance, Stage
  <2>. QED
    BY <2>4, <2>5, <2>6
<1>10. ASSUME NEW r \in Request, SessionLost(r) PROVE SessionInv'
  <2>1. quote[r] \in Quote
    BY <1>10 DEF SessionLost
  <2>2. /\ sessions' \in Seq(Session) /\ Len(sessions') = Len(sessions) + 1
        /\ \A i \in 1 .. Len(sessions) : sessions'[i].quote = sessions[i].quote
    BY <1>10, <2>1, NewSession DEF SessionLost
  <2>3. TypesInv'
    BY <1>10, <2>2 DEF SessionLost, Advance, Stage
  <2>4. Recorded'
    BY <1>10, <2>2 DEF SessionLost
  <2>5. Keyed'
    BY <1>10, <2>2 DEF SessionLost, Advance
  <2>. QED
    BY <2>3, <2>4, <2>5
<1>11. ASSUME NEW n \in Node, CloseNode(n) PROVE SessionInv'
  <2>. DEFINE keys == {k \in Key : k.node = n}
  <2>1. /\ closing' \in Seq(Entry)
        /\ \A i \in 1 .. Len(closing') : \E k \in Key : entries[k] # NoEntry /\ closing'[i] = entries[k]
    <3>1. closing' = EntriesOf(keys) /\ keys \in SUBSET Key
      BY <1>11 DEF CloseNode
    <3>. HIDE DEF keys
    <3>. QED
      BY <3>1, Collected
  <2>2. TypesInv'
    BY <1>11, <2>1 DEF CloseNode
  <2>3. Recorded'
    <3>1. UNCHANGED sessions
      BY <1>11 DEF CloseNode
    <3>2. ASSUME NEW i \in 1 .. Len(closing')
          PROVE  OpenedFor(closing[i].workId, closing[i].quote)'
      <4>1. PICK k \in Key : entries[k] # NoEntry /\ closing'[i] = entries[k]
        BY <2>1
      <4>2. OpenedFor(entries[k].workId, entries[k].quote)
        BY <4>1
      <4>. QED
        BY <3>1, <4>1, <4>2
    <3>3. \A k \in Key : entries'[k] # NoEntry =>
            /\ OpenedFor(entries[k].workId, entries[k].quote)'
            /\ keyToString(entries'[k].quote) = k
      BY <1>11 DEF CloseNode
    <3>. QED
      BY <3>2, <3>3
  <2>4. Keyed'
    BY <1>11 DEF CloseNode
  <2>. QED
    BY <2>2, <2>3, <2>4
<1>12. CASE CloseAll
  <2>1. /\ closing' \in Seq(Entry)
        /\ \A i \in 1 .. Len(closing') : \E k \in Key : entries[k] # NoEntry /\ closing'[i] = entries[k]
    BY <1>12, Collected DEF CloseAll
  <2>2. TypesInv'
    BY <1>12, <2>1 DEF CloseAll
  <2>3. Recorded'
    <3>1. UNCHANGED sessions
      BY <1>12 DEF CloseAll
    <3>2. ASSUME NEW i \in 1 .. Len(closing')
          PROVE  OpenedFor(closing[i].workId, closing[i].quote)'
      <4>1. PICK k \in Key : entries[k] # NoEntry /\ closing'[i] = entries[k]
        BY <2>1
      <4>2. OpenedFor(entries[k].workId, entries[k].quote)
        BY <4>1
      <4>. QED
        BY <3>1, <4>1, <4>2
    <3>3. \A k \in Key : entries'[k] = NoEntry
      BY <1>12 DEF CloseAll
    <3>. QED
      BY <3>2, <3>3
  <2>4. Keyed'
    BY <1>12 DEF CloseAll
  <2>. QED
    BY <2>2, <2>3, <2>4
<1>13. CASE CloseSession
  <2>1. closing # <<>> /\ closing' = Tail(closing) /\ Head(closing) \in Entry
    BY <1>13 DEF CloseSession
  <2>2. Head(closing).workId \in Nat
    BY <2>1 DEF Entry
  <2>3. /\ sessions' \in Seq(Session) /\ Len(sessions') = Len(sessions)
        /\ \A i \in 1 .. Len(sessions) : sessions'[i].quote = sessions[i].quote
    <3>1. CASE UNCHANGED sessions
      BY <3>1
    <3>2. CASE sessions' = [sessions EXCEPT ![Head(closing).workId] = [quote |-> @.quote, open |-> FALSE]]
      BY <2>2, <3>2, ClosedSession
    <3>. QED
      BY <1>13, <3>1, <3>2 DEF CloseSession
  <2>4. /\ closing' \in Seq(Entry) /\ Len(closing') = Len(closing) - 1
        /\ \A i \in 1 .. Len(closing') : i + 1 \in 1 .. Len(closing) /\ closing'[i] = closing[i + 1]
    BY <2>1
  <2>5. entries' \in [Key -> Entry \cup {NoEntry}] /\ \A k \in Key : entries'[k] \in {entries[k], NoEntry}
    BY <1>13 DEF CloseSession, Delete
  <2>6. TypesInv'
    BY <1>13, <2>3, <2>4, <2>5 DEF CloseSession
  <2>7. Recorded'
    <3>1. ASSUME NEW k \in Key, entries'[k] # NoEntry
          PROVE  /\ OpenedFor(entries[k].workId, entries[k].quote)'
                 /\ keyToString(entries'[k].quote) = k
      <4>1. entries'[k] = entries[k] /\ entries[k] # NoEntry
        BY <2>5, <3>1
      <4>2. OpenedFor(entries[k].workId, entries[k].quote) /\ keyToString(entries[k].quote) = k
        BY <4>1
      <4>. QED
        BY <2>3, <4>1, <4>2
    <3>2. ASSUME NEW i \in 1 .. Len(closing')
          PROVE  OpenedFor(closing[i].workId, closing[i].quote)'
      <4>1. OpenedFor(closing[i + 1].workId, closing[i + 1].quote) /\ closing'[i] = closing[i + 1]
        BY <2>4
      <4>. QED
        BY <2>3, <4>1
    <3>. QED
      BY <3>1, <3>2
  <2>8. Keyed'
    BY <1>13, <2>3 DEF CloseSession
  <2>. QED
    BY <2>6, <2>7, <2>8
<1>. QED
  BY <1>1, <1>2, <1>3, <1>4, <1>5, <1>6, <1>7, <1>8, <1>9, <1>10, <1>11, <1>12, <1>13
     DEF PaymentMoves, PaymentStep
(* Nothing is cached, and nobody pays, at first.                           *)
LEMMA SessionInvInit == Init => SessionInv
<1>1. PaymentInit => TypesInv
  BY DEF PaymentInit, TypesInv, Stage, NoSession
<1>2. PaymentInit => Recorded /\ Keyed
  BY DEF PaymentInit, Recorded, Keyed
<1>. QED
  BY <1>1, <1>2 DEF Init, SessionInv

(* A request pays the node it was routed to, for tickets of its quote's    *)
(* block (getOrStart of payments/sessions.ts), whatever sessions others    *)
(* start, lose and close and however quotes expire meanwhile.              *)
THEOREM GatewayPaidToItsNode == Spec => []PaidToItsNode
<1>1. SessionInv /\ UNCHANGED paymentVars => SessionInv'
  BY DEF SessionInv, TypesInv, Recorded, Keyed, OpenedFor, paymentVars
<1>2. SessionInv => PaidToItsNode
  <2>. SUFFICES ASSUME SessionInv, NEW r \in Request, stage[r] \in {"paying", "paid"}
                PROVE  /\ sessions[workId[r]].quote.node = quote[r].node
                       /\ sessions[workId[r]].quote.block = quote[r].block
    BY DEF PaidToItsNode
  <2>1. keyToString(sessions[workId[r]].quote) = keyToString(quote[r])
    BY DEF SessionInv, Keyed
  <2>2. \A p, q : keyToString(p) = keyToString(q) => p.node = q.node /\ p.block = q.block
    BY DEF keyToString
  <2>. QED
    BY <2>1, <2>2
<1>. QED
  BY <1>1, <1>2, SessionInvInit, PaymentPart, SessionInvInductive, PTL DEF Spec

----------------------------------------------------------------------------
(* What a sweep closes is out of the cache, or is deleted from it in the   *)
(* step that closes it.                                                    *)
LEMMA CacheInvInductive == SessionInv /\ CacheInv /\ PaymentMoves => CacheInv'
<1>. SUFFICES ASSUME SessionInv, CacheInv, PaymentMoves PROVE CacheInv'
  OBVIOUS
<1>. USE DEF SessionInv, TypesInv, CacheInv, CacheIsOpen, Unswept
<1>1. CASE UNCHANGED <<entries, sessions, closing, sweeping>>
  BY <1>1
<1>2. ASSUME NEW r \in Request, NEW n \in Node, Pay(r, n, healthy) PROVE CacheInv'
  <2>1. \A k \in Key : entries'[k] # NoEntry => entries'[k] = entries[k]
    BY <1>2 DEF Pay
  <2>2. UNCHANGED <<sessions, closing, sweeping>>
    BY <1>2 DEF Pay
  <2>3. CacheIsOpen'
    <3>1. ASSUME NEW k \in Key, entries'[k] # NoEntry PROVE sessions'[entries'[k].workId].open
      <4>1. entries'[k] = entries[k] /\ sessions[entries[k].workId].open
        BY <2>1, <3>1
      <4>. QED
        BY <2>2, <4>1, Zenon
    <3>. QED
      BY <3>1
  <2>4. Unswept'
    BY <2>1, <2>2
  <2>. QED
    BY <2>3, <2>4
<1>3. ASSUME NEW r \in Request, SessionStarted(r) PROVE CacheInv'
  <2>. DEFINE k == keyToString(quote[r])
              e == [workId |-> Len(sessions) + 1, quote |-> quote[r]]
  <2>1. quote[r] \in Quote /\ k \in Key /\ e.workId = Len(sessions) + 1
    BY <1>3, KeyOf DEF SessionStarted, Keyed
  <2>2. /\ Len(sessions') = Len(sessions) + 1
        /\ sessions'[Len(sessions) + 1] = [quote |-> quote[r], open |-> TRUE]
        /\ \A i \in 1 .. Len(sessions) : sessions'[i] = sessions[i]
    BY <1>3, <2>1, NewSession DEF SessionStarted
  <2>3. sessions'[Len(sessions) + 1].open
    <3>1. [quote |-> quote[r], open |-> TRUE].open
      OBVIOUS
    <3>. QED
      BY <2>2, <3>1, Zenon
  <2>4. entries' = [entries EXCEPT ![k] = e] /\ UNCHANGED <<closing, sweeping>>
    BY <1>3 DEF SessionStarted
  <2>. HIDE DEF e
  <2>5. CacheIsOpen'
    <3>1. ASSUME NEW j \in Key, entries'[j] # NoEntry PROVE sessions'[entries'[j].workId].open
      <4>1. CASE j = k
        <5>1. entries'[j].workId = Len(sessions) + 1
          BY <2>1, <2>4, <4>1
        <5>. QED
          BY <2>3, <5>1, Zenon
      <4>2. CASE j # k
        <5>1. entries'[j] = entries[j]
          BY <2>4, <4>2
        <5>2. sessions'[entries[j].workId] = sessions[entries[j].workId]
          BY <2>2, <3>1, <5>1 DEF Recorded, OpenedFor
        <5>3. sessions[entries[j].workId].open
          BY <3>1, <5>1
        <5>. QED
          BY <5>1, <5>2, <5>3, Zenon
      <4>. QED
        BY <4>1, <4>2
    <3>. QED
      BY <3>1
  <2>6. Unswept'
    <3>1. ASSUME sweeping # "close", NEW j \in Key, NEW i \in 1 .. Len(closing), entries'[j] # NoEntry
          PROVE  entries'[j].workId # closing[i].workId
      <4>1. closing[i].workId \in 1 .. Len(sessions)
        BY DEF Recorded, OpenedFor
      <4>2. CASE j = k
        BY <2>1, <2>4, <4>1, <4>2
      <4>3. CASE j # k
        BY <2>4, <3>1, <4>3
      <4>. QED
        BY <4>2, <4>3
    <3>. QED
      BY <2>4, <3>1
  <2>. QED
    BY <2>5, <2>6
<1>4. ASSUME NEW r \in Request, SessionLost(r) PROVE CacheInv'
  <2>1. \A i \in 1 .. Len(sessions) : sessions'[i] = sessions[i]
    BY <1>4, NewSession DEF SessionLost, Keyed
  <2>2. \A k \in Key : entries[k] # NoEntry => sessions'[entries[k].workId] = sessions[entries[k].workId]
    BY <2>1 DEF Recorded, OpenedFor
  <2>. QED
    BY <1>4, <2>2 DEF SessionLost
<1>5. ASSUME NEW n \in Node, CloseNode(n) PROVE CacheInv'
  BY <1>5 DEF CloseNode
<1>6. CASE CloseAll
  BY <1>6 DEF CloseAll
<1>7. CASE Swept
  BY <1>7 DEF Swept
<1>8. CASE CloseSession
  <2>. DEFINE e == Head(closing)
  <2>1. /\ closing # <<>> /\ closing' = Tail(closing) /\ sweeping' = sweeping
        /\ e = closing[1] /\ 1 \in 1 .. Len(closing) /\ e \in Entry
    BY <1>8 DEF CloseSession
  <2>2. e.workId \in Nat /\ e.quote \in Quote /\ OpenedFor(e.workId, e.quote)
    BY <2>1 DEF Entry, Recorded
  <2>. HIDE DEF e
  <2>3. \A k \in Key : entries'[k] # NoEntry => entries'[k] = entries[k] /\ entries[k].workId # e.workId
    <3>1. CASE sweeping = "close"
      <4>1. entries' = [entries EXCEPT ![keyToString(e.quote)] = NoEntry]
        BY <1>8, <3>1 DEF CloseSession, Delete, e
      <4>2. ASSUME NEW k \in Key, entries[k] # NoEntry, entries[k].workId = e.workId
            PROVE  k = keyToString(e.quote)
        BY <2>2, <4>2 DEF Recorded, OpenedFor
      <4>. QED
        BY <4>1, <4>2
    <3>2. CASE sweeping # "close"
      <4>1. entries' = entries
        BY <1>8, <3>2 DEF CloseSession, Delete
      <4>. QED
        BY <2>1, <3>2, <4>1
    <3>. QED
      BY <3>1, <3>2
  <2>4. \A i \in 1 .. Len(sessions) : i # e.workId => sessions'[i] = sessions[i]
    BY <1>8, <2>2 DEF CloseSession, e
  <2>5. CacheIsOpen'
    <3>1. ASSUME NEW k \in Key, entries'[k] # NoEntry PROVE sessions'[entries'[k].workId].open
      <4>1. entries'[k] = entries[k] /\ sessions'[entries[k].workId] = sessions[entries[k].workId]
        BY <2>3, <2>4, <3>1 DEF Recorded, OpenedFor
      <4>2. sessions[entries[k].workId].open
        BY <3>1, <4>1
      <4>. QED
        BY <4>1, <4>2, Zenon
    <3>. QED
      BY <3>1
  <2>6. Unswept'
    <3>1. \A i \in 1 .. Len(closing') : i + 1 \in 1 .. Len(closing) /\ closing'[i] = closing[i + 1]
      BY <2>1
    <3>. QED
      BY <2>1, <2>3, <3>1
  <2>. QED
    BY <2>5, <2>6
<1>. QED
  BY <1>1, <1>2, <1>3, <1>4, <1>5, <1>6, <1>7, <1>8
     DEF PaymentMoves, PaymentStep, QuoteExpires, DropQuote, IssueQuote, Arrive, SelectFails,
         SessionFails, PaymentCreated, PaymentFails, Answered, Refuse

(* The cache never offers a closed session: close() and closeAll() of      *)
(* payments/sessions.ts take it out first, also from under newer entries.  *)
THEOREM GatewayCacheIsOpen == Spec => []CacheIsOpen
<1>1. Init => CacheInv
  BY DEF Init, PaymentInit, CacheInv, CacheIsOpen, Unswept
<1>2. SessionInv /\ CacheInv /\ UNCHANGED paymentVars => SessionInv' /\ CacheInv'
  BY DEF SessionInv, TypesInv, Recorded, Keyed, OpenedFor, CacheInv, CacheIsOpen, Unswept, paymentVars
<1>3. CacheInv => CacheIsOpen
  BY DEF CacheInv
<1>. QED
  BY <1>1, <1>2, <1>3, SessionInvInit, PaymentPart, SessionInvInductive, CacheInvInductive, PTL DEF Spec
=============================================================================
