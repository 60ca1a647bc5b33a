----------------------------- MODULE Migrations -----------------------------
(***************************************************************************)
(* migrate.Apply: the numbered scripts that make up the database schema,   *)
(* run at the start of every process that opens the database.  The daemon  *)
(* and a -import-private-check, -list-checks or -export-private-checks may *)
(* do so at once, and each can be killed anywhere.                         *)
(***************************************************************************)
EXTENDS Naturals, FiniteSets

CONSTANTS
  Processes,
  Count,        \* number of migrations, in filename order
  Repeatable,   \* those whose script would run a second time without an error
  MaxCrashes    \* bound: processes killed

ASSUME MigrationsAssumption ==
  Count \in Nat \ {0} /\ Repeatable \subseteq 1..Count /\ MaxCrashes \in Nat
ASSUME ProcessesAssumption == "no process" \notin Processes

VARIABLES
  runs,         \* migration -> how often its script has taken effect
  recorded,     \* versions in schema_migrations
  writeLock,    \* holder of the database's write lock
  pc,           \* processes: where Apply is
  at,           \* processes: the migration Apply is at
  crashes

vars == <<runs, recorded, writeLock, pc, at, crashes>>

Versions == 1..Count
NoProcess == "no process"

TypeOK ==
  /\ runs \in [Versions -> Nat]
  /\ recorded \in SUBSET Versions
  /\ writeLock \in Processes \cup {NoProcess}
  /\ pc \in [Processes -> {"off", "check", "begin", "script", "record", "commit",
                           "open", "failed"}]
  /\ at \in [Processes -> 1..(Count + 1)]
  /\ crashes \in 0..MaxCrashes

-----------------------------------------------------------------------------
\* The process opens the database.
Start(p) ==
  /\ pc[p] \in {"off", "failed"}
  /\ pc' = [pc EXCEPT ![p] = "check"]
  /\ at' = [at EXCEPT ![p] = 1]
  /\ UNCHANGED <<runs, recorded, writeLock, crashes>>

\* A break where there is a continue.
CheckStops(p) ==
  /\ pc[p] = "check"
  /\ IF at[p] > Count \/ at[p] \in recorded
     THEN pc' = [pc EXCEPT ![p] = "open"]
     ELSE pc' = [pc EXCEPT ![p] = "begin"]
  /\ UNCHANGED <<runs, recorded, writeLock, at, crashes>>

\* SELECT COUNT(*), outside of any transaction.
Check(p) ==
  /\ pc[p] = "check"
  /\ \/ /\ at[p] > Count
        /\ pc' = [pc EXCEPT ![p] = "open"]
        /\ UNCHANGED at
     \/ /\ at[p] \in recorded
        /\ at' = [at EXCEPT ![p] = @ + 1]
        /\ UNCHANGED pc
     \/ /\ at[p] \in Versions \ recorded
        /\ pc' = [pc EXCEPT ![p] = "begin"]
        /\ UNCHANGED at
  /\ UNCHANGED <<runs, recorded, writeLock, crashes>>

\* BEGIN IMMEDIATE takes the write lock.
Begin(p) ==
  /\ pc[p] = "begin"
  /\ writeLock = NoProcess
  /\ writeLock' = p
  /\ pc' = [pc EXCEPT ![p] = "script"]
  /\ UNCHANGED <<runs, recorded, at, crashes>>

\* Going on with the next migration after an error.
BeginFailsContinues(p) ==
  /\ pc[p] = "begin"
  /\ writeLock # NoProcess
  /\ pc' = [pc EXCEPT ![p] = "check"]
  /\ at' = [at EXCEPT ![p] = @ + 1]
  /\ UNCHANGED <<runs, recorded, writeLock, crashes>>

\* Another process holds the lock for longer than busy_timeout.
BeginFails(p) ==
  /\ pc[p] = "begin"
  /\ writeLock # NoProcess
  /\ pc' = [pc EXCEPT ![p] = "failed"]
  /\ UNCHANGED <<runs, recorded, writeLock, at, crashes>>

Rollback(p) ==
  /\ writeLock' = NoProcess
  /\ pc' = [pc EXCEPT ![p] = "failed"]
  /\ UNCHANGED <<runs, recorded, at, crashes>>

\* db.Exec instead of tx.Exec: the script is durable by itself.
RunScriptOutsideTx(p) ==
  /\ pc[p] = "script"
  /\ runs' = [runs EXCEPT ![at[p]] = @ + 1]
  /\ pc' = [pc EXCEPT ![p] = "record"]
  /\ UNCHANGED <<recorded, writeLock, at, crashes>>

\* The script takes effect when the transaction commits.
RunScript(p) ==
  /\ pc[p] = "script"
  /\ runs[at[p]] = 0 \/ at[p] \in Repeatable
  /\ pc' = [pc EXCEPT ![p] = "record"]
  /\ UNCHANGED <<runs, recorded, writeLock, at, crashes>>

\* A table or a column is there already.
RunScriptFails(p) ==
  /\ pc[p] = "script"
  /\ runs[at[p]] > 0 /\ at[p] \notin Repeatable
  /\ Rollback(p)

\* version is the primary key of schema_migrations.
Record(p) ==
  /\ pc[p] = "record"
  /\ at[p] \notin recorded
  /\ pc' = [pc EXCEPT ![p] = "commit"]
  /\ UNCHANGED <<runs, recorded, writeLock, at, crashes>>

RecordFails(p) ==
  /\ pc[p] = "record"
  /\ at[p] \in recorded
  /\ Rollback(p)

Commit(p) ==
  /\ pc[p] = "commit"
  /\ runs' = [runs EXCEPT ![at[p]] = @ + 1]
  /\ recorded' = recorded \cup {at[p]}
  /\ writeLock' = NoProcess
  /\ pc' = [pc EXCEPT ![p] = "check"]
  /\ at' = [at EXCEPT ![p] = @ + 1]
  /\ UNCHANGED crashes

\* The process has done what it opened the database for.
Exit(p) ==
  /\ pc[p] = "open"
  /\ pc' = [pc EXCEPT ![p] = "off"]
  /\ UNCHANGED <<runs, recorded, writeLock, at, crashes>>

\* A killed process loses its locks and its open transaction.
Crash(p) ==
  /\ pc[p] \notin {"off", "failed", "open"}
  /\ crashes < MaxCrashes
  /\ crashes' = crashes + 1
  /\ pc' = [pc EXCEPT ![p] = "off"]
  /\ writeLock' = IF writeLock = p THEN NoProcess ELSE writeLock
  /\ UNCHANGED <<runs, recorded, at>>

-----------------------------------------------------------------------------
Init ==
  /\ runs = [v \in Versions |-> 0]
  /\ recorded = {}
  /\ writeLock = NoProcess
  /\ pc = [p \in Processes |-> "off"]
  /\ at = [p \in Processes |-> 1]
  /\ crashes = 0

Apply(p) ==
  \/ Check(p)
  \/ Begin(p) \/ BeginFails(p)
  \/ RunScript(p) \/ RunScriptFails(p)
  \/ Record(p) \/ RecordFails(p)
  \/ Commit(p)

Next == \E p \in Processes : Start(p) \/ Apply(p) \/ Exit(p) \/ Crash(p)

Spec == Init /\ [][Next]_vars

\* A process that failed or was killed is started again, and Apply runs on.
FairSpec == Spec /\ \A p \in Processes : WF_vars(Start(p)) /\ WF_vars(Apply(p))

-----------------------------------------------------------------------------
\* "Each file runs in its own transaction alongside the row that records it":
\* a migration is recorded exactly when its script has taken effect, and has
\* done so once, though the check for it is made outside the transaction.
RecordedMeansRunOnce ==
  \A v \in Versions : runs[v] = IF v \in recorded THEN 1 ELSE 0

\* Migrations take effect in filename order: no later one without an earlier,
\* whichever of the racing processes ran them.
InFilenameOrder == \A v \in recorded : 1..v \subseteq recorded

\* The schema is completed in the end, whatever was interrupted on the way.
SchemaCompletes == <>[](recorded = Versions)
=============================================================================
