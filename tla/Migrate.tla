------------------------------ MODULE Migrate ------------------------------
(***************************************************************************)
(* runMigrations of src/repo/migrate.ts, run by every gateway process at   *)
(* boot and by src/scripts/migrate.ts.  For each file: look it up in the   *)
(* tracker, execute its body, insert it into the tracker; three statements *)
(* of their own, so that runners interleave and die between them.          *)
(*                                                                         *)
(* The database executes one body as one implicit transaction, and refuses *)
(* a body it has executed before: the bodies create types and tables.      *)
(* Bound: MaxDeaths of runners, each of which starts again.                *)
(***************************************************************************)
EXTENDS Naturals, Sequences

CONSTANTS
    Runner,
    Files,      \* the .sql files, sorted
    MaxDeaths

ASSUME MigrateAssumption ==
    /\ Files \in Seq(STRING)
    /\ \A i, j \in 1 .. Len(Files) : Files[i] = Files[j] => i = j
    /\ MaxDeaths \in Nat

VARIABLES
    tracker,    \* public.bridge_schema_migrations
    executed,   \* the files whose body the database has executed
    runner,     \* the statement a runner is at
    file,       \* the index of the file it is at
    deaths

migrateVars == <<tracker, executed, runner, file, deaths>>

File == {Files[i] : i \in 1 .. Len(Files)}

RunnerState == {"ddl", "select", "body", "insert", "ready", "failed"}

MigrateTypeOK ==
    /\ tracker \subseteq File
    /\ executed \subseteq File
    /\ runner \in [Runner -> RunnerState]
    /\ file \in [Runner -> 1 .. Len(Files) + 1]
    /\ \A p \in Runner : runner[p] \in {"body", "insert"} => file[p] <= Len(Files)
    /\ deaths \in 0 .. MaxDeaths

MigrateInit ==
    /\ tracker = {}
    /\ executed = {}
    /\ runner = [p \in Runner |-> "ddl"]
    /\ file = [p \in Runner |-> 1]
    /\ deaths = 0

AtStatement(p, from, to) == runner[p] = from /\ runner' = [runner EXCEPT ![p] = to]

\* CREATE TABLE IF NOT EXISTS of the tracker.
CreateTracker(p) ==
    /\ AtStatement(p, "ddl", "select")
    /\ UNCHANGED <<tracker, executed, file, deaths>>

SelectApplied(p) ==
    \/ /\ file[p] > Len(Files)
       /\ AtStatement(p, "select", "ready")
       /\ UNCHANGED <<tracker, executed, file, deaths>>
    \/ /\ file[p] <= Len(Files) /\ Files[file[p]] \in tracker
       /\ AtStatement(p, "select", "select")
       /\ file' = [file EXCEPT ![p] = @ + 1]
       /\ UNCHANGED <<tracker, executed, deaths>>
    \/ /\ file[p] <= Len(Files) /\ Files[file[p]] \notin tracker
       /\ AtStatement(p, "select", "body")
       /\ UNCHANGED <<tracker, executed, file, deaths>>

\* Mutation: the file is tracked before its body has run.
ExecuteBodyTracked(p) ==
    /\ AtStatement(p, "body", "insert")
    /\ tracker' = tracker \cup {Files[file[p]]}
    /\ UNCHANGED <<executed, file, deaths>>

ExecuteBody(p) ==
    \/ /\ AtStatement(p, "body", "failed")
       /\ Files[file[p]] \in executed
       /\ UNCHANGED <<tracker, executed, file, deaths>>
    \/ /\ AtStatement(p, "body", "insert")
       /\ Files[file[p]] \notin executed
       /\ executed' = executed \cup {Files[file[p]]}
       /\ UNCHANGED <<tracker, file, deaths>>

InsertTracker(p) ==
    /\ AtStatement(p, "insert", "select")
    /\ tracker' = tracker \cup {Files[file[p]]}
    /\ file' = [file EXCEPT ![p] = @ + 1]
    /\ UNCHANGED <<executed, deaths>>

\* The process dies and is started again.
RunnerDies(p) ==
    /\ deaths < MaxDeaths
    /\ runner[p] \notin {"ready", "failed"}
    /\ runner' = [runner EXCEPT ![p] = "ddl"]
    /\ file' = [file EXCEPT ![p] = 1]
    /\ deaths' = deaths + 1
    /\ UNCHANGED <<tracker, executed>>

\* A process that failed is run again.
RunAgain(p) ==
    /\ AtStatement(p, "failed", "ddl")
    /\ file' = [file EXCEPT ![p] = 1]
    /\ UNCHANGED <<tracker, executed, deaths>>

MigrateStep(p) == CreateTracker(p) \/ SelectApplied(p) \/ ExecuteBody(p) \/ InsertTracker(p) \/ RunAgain(p)

MigrateNext == \E p \in Runner : MigrateStep(p) \/ RunnerDies(p)

MigrateSpec == MigrateInit /\ [][MigrateNext]_migrateVars

----------------------------------------------------------------------------
(* Properties *)

\* A process that goes on to serve has every table it will use, in whatever
\* order runners interleave and wherever they die: what the tracker lists has
\* run, and the files ran in their order.
ReadyMeansMigrated ==
    /\ tracker \subseteq executed
    /\ \A p \in Runner : runner[p] = "ready" => executed = File
    /\ \A i, j \in 1 .. Len(Files) : i < j /\ Files[j] \in executed => Files[i] \in executed
=============================================================================
