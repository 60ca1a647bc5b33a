--------------------------- MODULE StartupProofs ---------------------------
(***************************************************************************)
(* Theorems about Startup, for every number of processes, migrations,      *)
(* monitors, keys, kills and faults, and whichever scripts are repeatable. *)
(***************************************************************************)
EXTENDS Startup, TLAPS

USE MigrationsAssumption

-----------------------------------------------------------------------------
(* The schema.                                                             *)

\* The write lock is held from the begin to the end of a transaction.
LockHeldInTransaction ==
  \A p \in Processes : writeLock = p <=> pc[p] \in {"script", "record", "commit"}

Applying(p) == pc[p] \in {"check", "begin", "script", "record", "commit"}

\* Apply is at a migration whenever it works on one, and has passed only
\* migrations that are recorded.
WorksOnAMigration ==
  \A p \in Processes : Applying(p) /\ pc[p] # "check" => at[p] \in Versions
EarlierRecorded ==
  \A p \in Processes : Applying(p) => \A v \in Versions : v < at[p] => v \in recorded

\* What the primary key guaranteed at the INSERT still holds at the commit.
CommitIsNew == \A p \in Processes : pc[p] = "commit" => at[p] \notin recorded

OpenIsComplete == \A p \in Processes : pc[p] = "open" => recorded = Versions

SchemaInv ==
  /\ TypeOK
  /\ LockHeldInTransaction
  /\ WorksOnAMigration
  /\ EarlierRecorded
  /\ CommitIsNew
  /\ OpenIsComplete
  /\ RecordedMeansRunOnce
  /\ InFilenameOrder

PcStates == {"off", "check", "begin", "script", "record", "commit", "open", "failed"}

\* Moving one process on keeps the types.
LEMMA MoveTypes ==
  ASSUME TypeOK, NEW p \in Processes, NEW x \in PcStates, pc' = [pc EXCEPT ![p] = x],
         NEW n \in 1..(Count + 1), at' = [at EXCEPT ![p] = n]
  PROVE  /\ pc' \in [Processes -> PcStates] /\ at' \in [Processes -> 1..(Count + 1)]
         /\ pc'[p] = x /\ at'[p] = n
         /\ \A q \in Processes \ {p} : pc'[q] = pc[q] /\ at'[q] = at[q]
  BY DEF TypeOK, PcStates

\* What every step has to show, when it moves process p to x and n.
LEMMA SchemaMove ==
  ASSUME SchemaInv,
         NEW p \in Processes, NEW x \in PcStates, pc' = [pc EXCEPT ![p] = x],
         NEW n \in 1..(Count + 1), at' = [at EXCEPT ![p] = n],
         UNCHANGED <<runs, recorded>>, crashes' \in 0..MaxCrashes,
         writeLock' \in Processes \cup {NoProcess},
         writeLock' = p <=> x \in {"script", "record", "commit"},
         \A q \in Processes \ {p} : writeLock' = q <=> writeLock = q,
         x \in {"begin", "script", "record", "commit"} => n \in Versions,
         x \in {"check", "begin", "script", "record", "commit"} =>
           \A v \in Versions : v < n => v \in recorded,
         x = "commit" => n \notin recorded,
         x = "open" => recorded = Versions
  PROVE  SchemaInv'
<1>1. /\ pc' \in [Processes -> PcStates] /\ at' \in [Processes -> 1..(Count + 1)]
      /\ pc'[p] = x /\ at'[p] = n
      /\ \A q \in Processes \ {p} : pc'[q] = pc[q] /\ at'[q] = at[q]
  BY MoveTypes DEF SchemaInv
<1>2. TypeOK'
  BY <1>1 DEF SchemaInv, TypeOK, PcStates
<1>3. LockHeldInTransaction'
  BY <1>1 DEF SchemaInv, LockHeldInTransaction
<1>4. WorksOnAMigration'
  BY <1>1 DEF SchemaInv, WorksOnAMigration, Applying, Versions
<1>5. EarlierRecorded'
  BY <1>1 DEF SchemaInv, EarlierRecorded, Applying, Versions
<1>6. CommitIsNew'
  BY <1>1 DEF SchemaInv, CommitIsNew
<1>7. OpenIsComplete'
  BY <1>1 DEF SchemaInv, OpenIsComplete, Versions
<1>8. RecordedMeansRunOnce' /\ InFilenameOrder'
  BY DEF SchemaInv, RecordedMeansRunOnce, InFilenameOrder, Versions
<1> QED BY <1>2, <1>3, <1>4, <1>5, <1>6, <1>7, <1>8 DEF SchemaInv

\* A step that moves no index.
LEMMA SamePlace ==
  ASSUME TypeOK, NEW p \in Processes
  PROVE  at = [at EXCEPT ![p] = at[p]] /\ pc = [pc EXCEPT ![p] = pc[p]]
         /\ at[p] \in 1..(Count + 1)
  BY DEF TypeOK

\* Every step of Apply but the commit, the start and the end of a process.
LEMMA ProcessStep ==
  ASSUME SchemaInv, NEW p \in Processes
  PROVE  Start(p) \/ Apply(p) \/ Exit(p) \/ Crash(p) => SchemaInv' \/ Commit(p)
<1>1. /\ pc[p] \in PcStates /\ at[p] \in 1..(Count + 1)
      /\ writeLock \in Processes \cup {NoProcess} /\ crashes \in 0..MaxCrashes
      /\ at = [at EXCEPT ![p] = at[p]] /\ pc = [pc EXCEPT ![p] = pc[p]]
  BY SamePlace DEF SchemaInv, TypeOK, PcStates
<1>2. /\ writeLock = p <=> pc[p] \in {"script", "record", "commit"}
      /\ p # NoProcess
  BY ProcessesAssumption DEF SchemaInv, LockHeldInTransaction, NoProcess
<1>3. /\ Applying(p) /\ pc[p] # "check" => at[p] \in Versions
      /\ Applying(p) => \A v \in Versions : v < at[p] => v \in recorded
  BY DEF SchemaInv, WorksOnAMigration, EarlierRecorded
<1>4. CASE Start(p)
  <2>1. /\ pc' = [pc EXCEPT ![p] = "check"] /\ at' = [at EXCEPT ![p] = 1]
        /\ UNCHANGED <<runs, recorded, writeLock, crashes>>
        /\ pc[p] \notin {"script", "record", "commit"}
    BY <1>4 DEF Start
  <2>2. 1 \in 1..(Count + 1) /\ "check" \in PcStates /\ \A v \in Versions : ~(v < 1)
    BY DEF PcStates, Versions
  <2> QED BY <1>1, <1>2, <2>1, <2>2, SchemaMove
<1>5. CASE Check(p)
  <2>1. /\ UNCHANGED <<runs, recorded, writeLock, crashes>>
        /\ pc[p] = "check" /\ Applying(p)
    BY <1>5 DEF Check, Applying
  <2>5. /\ writeLock' # p /\ writeLock' \in Processes \cup {NoProcess}
        /\ \A q \in Processes \ {p} : writeLock' = q <=> writeLock = q
        /\ crashes' \in 0..MaxCrashes
    BY <1>1, <1>2, <2>1
  <2>2. CASE at[p] > Count /\ pc' = [pc EXCEPT ![p] = "open"] /\ UNCHANGED at
    <3>1. \A v \in Versions : v < at[p]
      BY <1>1, <2>2 DEF Versions
    <3>2. recorded = Versions
      BY <1>3, <2>1, <3>1 DEF SchemaInv, TypeOK
    <3>3. /\ at' = [at EXCEPT ![p] = at[p]] /\ pc' = [pc EXCEPT ![p] = "open"]
          /\ at[p] \in 1..(Count + 1) /\ "open" \in PcStates
          /\ UNCHANGED <<runs, recorded>>
      BY <1>1, <2>1, <2>2 DEF PcStates
    <3> QED BY <2>5, <3>2, <3>3, SchemaMove
  <2>3. CASE at[p] \in recorded /\ at' = [at EXCEPT ![p] = @ + 1] /\ UNCHANGED pc
    <3>1. /\ at[p] + 1 \in 1..(Count + 1)
          /\ \A v \in Versions : v < at[p] + 1 => v \in recorded
      BY <1>1, <1>3, <2>1, <2>3 DEF SchemaInv, TypeOK, Versions
    <3> QED BY <1>1, <1>2, <2>1, <2>3, <3>1, SchemaMove
  <2>4. CASE at[p] \in Versions \ recorded /\ pc' = [pc EXCEPT ![p] = "begin"] /\ UNCHANGED at
    <3>1. /\ at' = [at EXCEPT ![p] = at[p]] /\ pc' = [pc EXCEPT ![p] = "begin"]
          /\ at[p] \in 1..(Count + 1) /\ at[p] \in Versions /\ "begin" \in PcStates
          /\ UNCHANGED <<runs, recorded>>
          /\ \A v \in Versions : v < at[p] => v \in recorded
      BY <1>1, <1>3, <2>1, <2>4 DEF PcStates
    <3> QED BY <2>5, <3>1, SchemaMove
  <2> QED BY <1>5, <2>2, <2>3, <2>4 DEF Check
<1>6. CASE Begin(p) \/ RunScript(p) \/ Record(p)
  <2>1. PICK x \in {"script", "record", "commit"} :
          /\ pc' = [pc EXCEPT ![p] = x]
          /\ x = "commit" => at[p] \notin recorded
    BY <1>6 DEF Begin, RunScript, Record
  <2>2. /\ UNCHANGED <<runs, recorded, at, crashes>>
        /\ pc[p] \in {"begin", "script", "record"} /\ Applying(p)
    BY <1>6 DEF Begin, RunScript, Record, Applying
  <2>3. writeLock' = p /\ writeLock \in {NoProcess, p}
    BY <1>2, <1>6 DEF Begin, RunScript, Record
  <2>4. x \in PcStates /\ NoProcess \notin Processes
    BY ProcessesAssumption DEF PcStates, NoProcess
  <2>5. /\ writeLock' \in Processes \cup {NoProcess} /\ crashes' \in 0..MaxCrashes
        /\ writeLock' = p <=> x \in {"script", "record", "commit"}
        /\ \A q \in Processes \ {p} : writeLock' = q <=> writeLock = q
    BY <1>1, <2>2, <2>3, <2>4
  <2>6. at[p] \in Versions /\ \A v \in Versions : v < at[p] => v \in recorded
    BY <1>3, <2>2
  <2>7. at' = [at EXCEPT ![p] = at[p]] /\ x # "open"
    BY <1>1, <2>2
  <2> QED BY <1>1, <2>1, <2>2, <2>4, <2>5, <2>6, <2>7, SchemaMove
<1>7. CASE BeginFails(p) \/ Exit(p) \/ RunScriptFails(p) \/ RecordFails(p) \/ Crash(p)
  <2>1. PICK x \in {"off", "failed"} : pc' = [pc EXCEPT ![p] = x]
    BY <1>7 DEF BeginFails, Exit, RunScriptFails, RecordFails, Rollback, Crash
  <2>2. UNCHANGED <<runs, recorded, at>> /\ crashes' \in 0..MaxCrashes
    BY <1>1, <1>7 DEF BeginFails, Exit, RunScriptFails, RecordFails, Rollback, Crash
  <2>3. writeLock' = IF writeLock = p THEN NoProcess ELSE writeLock
    BY <1>2, <1>7 DEF BeginFails, Exit, RunScriptFails, RecordFails, Rollback, Crash
  <2>4. x \in PcStates /\ NoProcess \notin Processes
    BY ProcessesAssumption DEF PcStates, NoProcess
  <2> QED BY <1>1, <1>2, <2>1, <2>2, <2>3, <2>4, SchemaMove
<1> QED BY <1>4, <1>5, <1>6, <1>7 DEF Apply

\* A commit records the next migration, which no one else can be committing.
LEMMA CommitStep ==
  ASSUME SchemaInv, NEW p \in Processes, Commit(p)
  PROVE  SchemaInv'
<1>1. /\ at[p] \in Versions /\ at[p] \notin recorded /\ writeLock = p
      /\ \A v \in Versions : v < at[p] => v \in recorded
  BY DEF Commit, SchemaInv, WorksOnAMigration, EarlierRecorded, CommitIsNew, Applying,
     LockHeldInTransaction
<1>2. /\ runs' = [runs EXCEPT ![at[p]] = @ + 1]
      /\ recorded' = recorded \cup {at[p]}
      /\ writeLock' = NoProcess /\ UNCHANGED crashes
  BY DEF Commit
<1>3. at[p] + 1 \in 1..(Count + 1) /\ "check" \in PcStates
  BY <1>1 DEF Versions, PcStates
<1>4. /\ pc' \in [Processes -> PcStates] /\ at' \in [Processes -> 1..(Count + 1)]
      /\ pc'[p] = "check" /\ at'[p] = at[p] + 1
      /\ \A q \in Processes \ {p} : pc'[q] = pc[q] /\ at'[q] = at[q]
  BY <1>3, MoveTypes DEF Commit, SchemaInv
<1>5. \A q \in Processes \ {p} : pc[q] \notin {"script", "record", "commit"}
  BY <1>1 DEF SchemaInv, LockHeldInTransaction
<1>6. runs' \in [Versions -> Nat] /\ recorded' \in SUBSET Versions
  BY <1>1, <1>2 DEF SchemaInv, TypeOK
<1>7. TypeOK'
  BY <1>2, <1>4, <1>6 DEF SchemaInv, TypeOK, PcStates
<1>8. LockHeldInTransaction'
  BY <1>2, <1>4, <1>5, ProcessesAssumption DEF LockHeldInTransaction, NoProcess
<1>9. CommitIsNew'
  BY <1>4, <1>5 DEF CommitIsNew
<1>10. WorksOnAMigration'
  BY <1>4 DEF SchemaInv, WorksOnAMigration, Applying, Versions
<1>11. EarlierRecorded'
  <2>1. \A v \in Versions : v < at[p] + 1 => v \in recorded'
    BY <1>1, <1>2 DEF Versions
  <2> QED BY <1>2, <1>4, <2>1 DEF SchemaInv, EarlierRecorded, Applying, Versions
<1>12. OpenIsComplete'
  BY <1>1, <1>2, <1>4 DEF SchemaInv, OpenIsComplete, Versions
<1>13. RecordedMeansRunOnce'
  <2>1. runs[at[p]] = 0
    BY <1>1 DEF SchemaInv, RecordedMeansRunOnce
  <2>2. runs'[at[p]] = 1 /\ \A v \in Versions \ {at[p]} : runs'[v] = runs[v]
    BY <1>1, <1>2, <2>1 DEF SchemaInv, TypeOK
  <2> QED BY <1>2, <2>2 DEF SchemaInv, RecordedMeansRunOnce, Versions
<1>14. InFilenameOrder'
  <2>1. 1..at[p] \subseteq recorded'
    BY <1>1, <1>2 DEF Versions
  <2> QED BY <1>2, <2>1 DEF SchemaInv, InFilenameOrder
<1> QED BY <1>7, <1>8, <1>9, <1>10, <1>11, <1>12, <1>13, <1>14 DEF SchemaInv

\* Whoever moves, the schema's invariant stays.
LEMMA SchemaStep == SchemaInv /\ [Next]_vars => SchemaInv'
<1> SUFFICES ASSUME SchemaInv, [Next]_vars PROVE SchemaInv'
  OBVIOUS
<1>1. CASE UNCHANGED vars
  BY <1>1 DEF vars, Versions, SchemaInv, TypeOK, LockHeldInTransaction, WorksOnAMigration,
     EarlierRecorded, CommitIsNew, OpenIsComplete, RecordedMeansRunOnce,
     InFilenameOrder, Applying
<1>2. ASSUME NEW p \in Processes, Start(p) \/ Apply(p) \/ Exit(p) \/ Crash(p)
      PROVE  SchemaInv'
  BY <1>2, ProcessStep, CommitStep
<1> QED BY <1>1, <1>2 DEF Next

\* An empty database.
LEMMA SchemaInit == Init => SchemaInv
<1> SUFFICES ASSUME Init PROVE SchemaInv
  OBVIOUS
<1>1. TypeOK
  <2>1. [p \in Processes |-> 1] \in [Processes -> 1..(Count + 1)]
    OBVIOUS
  <2>2. [v \in Versions |-> 0] \in [Versions -> Nat] /\ 0 \in 0..MaxCrashes
    OBVIOUS
  <2> QED BY <2>1, <2>2 DEF Init, TypeOK
<1>2. LockHeldInTransaction /\ WorksOnAMigration /\ EarlierRecorded
  BY ProcessesAssumption DEF Init, LockHeldInTransaction, WorksOnAMigration, EarlierRecorded, Applying, NoProcess
<1>3. CommitIsNew /\ OpenIsComplete
  BY DEF Init, CommitIsNew, OpenIsComplete
<1>4. RecordedMeansRunOnce /\ InFilenameOrder
  BY DEF Init, RecordedMeansRunOnce, InFilenameOrder
<1> QED BY <1>1, <1>2, <1>3, <1>4 DEF SchemaInv

\* To the schema, whatever the agent does is the end of a process or nothing.
LEMMA StartupStepsMigrate == [StartupNext]_allVars => [Next]_vars
<1>1. Launch \/ Surroundings \/ UNCHANGED allVars => UNCHANGED vars
  BY DEF Launch, Surroundings, allVars
<1>2. WriteIdentity \/ Work => Exit(Agent) \/ UNCHANGED vars
  BY DEF WriteIdentity, Work, Ends
<1>3. \A p \in Processes : Migrate(p) \/ Killed(p) =>
        Start(p) \/ Apply(p) \/ Exit(p) \/ Crash(p)
  BY DEF Migrate, Killed
<1> QED BY <1>1, <1>2, <1>3, AgentAssumption DEF StartupNext, Next

\* The schema's invariant holds with the agent at work beside it.
LEMMA SchemaInvariance == StartupSpec => []SchemaInv
<1>1. StartupInit => SchemaInv
  BY SchemaInit DEF StartupInit
<1>2. SchemaInv /\ [StartupNext]_allVars => SchemaInv'
  BY SchemaStep, StartupStepsMigrate
<1> QED BY <1>1, <1>2, PTL DEF StartupSpec

\* However many processes race and are killed, a migration is recorded exactly
\* when its script has taken effect, and that only once.
THEOREM MigrationsRunOnce == StartupSpec => []RecordedMeansRunOnce
<1>1. SchemaInv => RecordedMeansRunOnce
  BY DEF SchemaInv
<1> QED BY <1>1, SchemaInvariance, PTL

\* Migrations take effect in filename order.
THEOREM MigrationsInOrder == StartupSpec => []InFilenameOrder
<1>1. SchemaInv => InFilenameOrder
  BY DEF SchemaInv
<1> QED BY <1>1, SchemaInvariance, PTL

\* While Run is in any of its states, its process has passed Apply.
RunsOnOpen == run # "off" => pc[Agent] = "open"

\* A process leaves "open" only at its end, and the agent's only with Run's.
LEMMA RunsOnOpenStep ==
  ASSUME SchemaInv, RunsOnOpen, [StartupNext]_allVars
  PROVE  RunsOnOpen'
<1>1. ASSUME NEW p \in Processes, Migrate(p) \/ Killed(p) PROVE RunsOnOpen'
  <2>1. UNCHANGED run /\ (run # "off" => p # Agent)
    BY <1>1 DEF Migrate, Killed, Crash, identityVars, RunsOnOpen
  <2>2. \A q \in Processes \ {p} : pc'[q] = pc[q]
    BY <1>1 DEF Migrate, Killed, Start, Apply, Check, Begin, BeginFails, RunScript,
       RunScriptFails, Record, RecordFails, Rollback, Commit, Exit, Crash, SchemaInv, TypeOK
  <2> QED BY <2>1, <2>2, AgentAssumption DEF RunsOnOpen
<1>2. CASE Launch
  BY <1>2 DEF Launch, RunsOnOpen, vars
<1>3. CASE WriteIdentity \/ Work
  <2>1. run # "off"
    BY <1>3 DEF WriteIdentity, Work, E!SetIdentity, E!SetIdentityFails, E!AgentStep,
       E!ReadIdentity, E!EnrollSucceeds, E!EnrollResponseLost, E!EnrollRefused,
       E!InitialSync, E!StopAgent, E!Crash
  <2>2. run' = "off" \/ UNCHANGED pc
    BY <1>3 DEF WriteIdentity, Work, Ends, vars
  <2> QED BY <2>1, <2>2 DEF RunsOnOpen
<1>4. CASE Surroundings \/ UNCHANGED allVars
  BY <1>4 DEF Surroundings, allVars, identityVars, vars, RunsOnOpen, E!Operators,
     E!ResetEnrolment, E!ClearIdentity, E!memoryVars
<1> QED BY <1>1, <1>2, <1>3, <1>4 DEF StartupNext

\* Apply has returned to a process, and Run is under way, only on a complete
\* schema.
THEOREM NoUseOfAnIncompleteSchema == StartupSpec => []SchemaBeforeUse
<1>1. StartupInit => RunsOnOpen
  BY DEF StartupInit, E!Init, RunsOnOpen
<1>2. SchemaInv /\ RunsOnOpen /\ [StartupNext]_allVars => RunsOnOpen'
  BY RunsOnOpenStep
<1>3. SchemaInv /\ RunsOnOpen => SchemaBeforeUse
  BY AgentAssumption DEF SchemaInv, OpenIsComplete, RunsOnOpen, SchemaBeforeUse
<1> QED BY <1>1, <1>2, <1>3, SchemaInvariance, PTL DEF StartupSpec

-----------------------------------------------------------------------------
(* The identity.                                                           *)

\* Keys were issued before anyone holds them; what Run is about to persist is
\* a pair as the server answered it.
KeysWereIssued == dbKey <= issued /\ key <= issued
AnswerIsAPair == run = "persist" => id # 0 /\ key # 0 /\ owner[key] = id

\* A new monitor is asked for only while none is persisted.
NewOnlyWithoutId == run = "enroll" /\ reclaimId = 0 => dbId = 0

\* A monitor that is neither persisted nor about to be was lost for a reason.
MintsPaidFor ==
  minted <= faults + wiped + (IF dbId # 0 \/ run = "persist" THEN 1 ELSE 0)

IdentityInv ==
  /\ E!TypeOK
  /\ KeysWereIssued
  /\ IdentityIsAPair
  /\ AnswerIsAPair
  /\ RunsAsPersisted
  /\ NewOnlyWithoutId
  /\ MintsPaidFor

\* The server's answer: a new key for the monitor asked for, or for a new one.
LEMMA IssueFacts ==
  ASSUME IdentityInv, run = "enroll", E!Issue(reclaimId)
  PROVE  /\ issued' = issued + 1 /\ issued + 1 \in 1..MaxKeys
         /\ E!Enrolled(reclaimId) \in 1..MaxMonitors
         /\ minted' \in 0..MaxMonitors
         /\ keyOf' \in [1..MaxMonitors -> 0..MaxKeys]
         /\ owner' \in [1..MaxKeys -> 0..MaxMonitors]
         /\ owner'[issued + 1] = E!Enrolled(reclaimId)
         /\ \A k \in 1..issued : owner'[k] = owner[k]
         /\ \/ minted' = minted
            \/ minted' = minted + 1 /\ dbId = 0
<1>1. /\ minted \in 0..MaxMonitors /\ issued \in 0..MaxKeys
      /\ reclaimId \in 0..MaxMonitors
      /\ keyOf \in [1..MaxMonitors -> 0..MaxKeys]
      /\ owner \in [1..MaxKeys -> 0..MaxMonitors]
      /\ MaxMonitors \in Nat /\ MaxKeys \in Nat
  BY StartupBounds DEF IdentityInv, E!TypeOK, E!Ids, E!Keys
<1>2. /\ issued < MaxKeys /\ issued' = issued + 1
      /\ minted' = IF reclaimId = 0 THEN minted + 1 ELSE minted
      /\ keyOf' = [keyOf EXCEPT ![E!Enrolled(reclaimId)] = issued + 1]
      /\ owner' = [owner EXCEPT ![issued + 1] = E!Enrolled(reclaimId)]
  BY DEF E!Issue
<1>3. issued + 1 \in 1..MaxKeys
  BY <1>1, <1>2
<1>4. E!Enrolled(reclaimId) \in 1..MaxMonitors /\ minted' \in 0..MaxMonitors
  BY <1>1, <1>2 DEF E!Issue, E!Accepts, E!Enrolled
<1>5. /\ keyOf' \in [1..MaxMonitors -> 0..MaxKeys]
      /\ owner' \in [1..MaxKeys -> 0..MaxMonitors]
  BY <1>1, <1>2, <1>3, <1>4
<1>6. /\ owner'[issued + 1] = E!Enrolled(reclaimId)
      /\ \A k \in 1..issued : owner'[k] = owner[k]
  BY <1>1, <1>2, <1>3
<1>7. \/ minted' = minted
      \/ minted' = minted + 1 /\ dbId = 0
  BY <1>2 DEF IdentityInv, NewOnlyWithoutId
<1> QED BY <1>2, <1>3, <1>4, <1>5, <1>6, <1>7

\* Enrolling, with the answer received or lost.
LEMMA EnrolStep ==
  ASSUME IdentityInv, E!EnrollSucceeds \/ E!EnrollResponseLost
  PROVE  IdentityInv'
<1>1. run = "enroll" /\ E!Issue(reclaimId) /\ UNCHANGED <<dbId, dbKey, configId, reclaimId, wiped>>
  BY DEF E!EnrollSucceeds, E!EnrollResponseLost, E!dbVars, E!memoryVars, E!historyVars
<1>2. /\ issued' = issued + 1 /\ issued + 1 \in 1..MaxKeys
      /\ E!Enrolled(reclaimId) \in 1..MaxMonitors
      /\ minted' \in 0..MaxMonitors
      /\ keyOf' \in [1..MaxMonitors -> 0..MaxKeys]
      /\ owner' \in [1..MaxKeys -> 0..MaxMonitors]
      /\ owner'[issued + 1] = E!Enrolled(reclaimId)
      /\ \A k \in 1..issued : owner'[k] = owner[k]
      /\ \/ minted' = minted
         \/ minted' = minted + 1 /\ dbId = 0
  BY <1>1, IssueFacts
<1>3. /\ dbId \in 0..MaxMonitors /\ dbKey \in 0..MaxKeys /\ key \in 0..MaxKeys
      /\ issued \in 0..MaxKeys /\ minted \in 0..MaxMonitors
      /\ faults \in 0..MaxFaults /\ wiped \in 0..1
      /\ id \in 0..MaxMonitors /\ configId \in 0..MaxMonitors
      /\ reclaimId \in 0..MaxMonitors
  BY DEF IdentityInv, E!TypeOK
<1>4. \/ /\ run' = "persist" /\ id' = E!Enrolled(reclaimId) /\ key' = issued + 1
         /\ UNCHANGED faults
      \/ UNCHANGED <<run, id, key>> /\ faults' = faults + 1 /\ faults < MaxFaults
  BY DEF E!EnrollSucceeds, E!EnrollResponseLost, E!memoryVars, E!historyVars
<1>5. /\ id' \in 0..MaxMonitors /\ key' \in 0..MaxKeys
      /\ run' \in {"off", "start", "enroll", "persist", "sync", "running"}
  <2>1. E!Enrolled(reclaimId) \in 0..MaxMonitors /\ issued + 1 \in 0..MaxKeys
    BY <1>2, StartupBounds
  <2> QED BY <1>1, <1>3, <1>4, <2>1
<1>13. faults' \in 0..MaxFaults
  <2>1. faults < MaxFaults => faults + 1 \in 0..MaxFaults
    BY <1>3, StartupBounds
  <2> QED BY <1>3, <1>4, <2>1
<1>6. E!TypeOK'
  <2>1. issued' \in 0..MaxKeys
    BY <1>2, StartupBounds
  <2> QED BY <1>1, <1>2, <1>3, <1>5, <1>13, <2>1 DEF E!TypeOK, E!Ids, E!Keys
<1>7. KeysWereIssued'
  BY <1>1, <1>2, <1>3, <1>4 DEF IdentityInv, KeysWereIssued
<1>8. IdentityIsAPair'
  BY <1>1, <1>2, <1>3 DEF IdentityInv, KeysWereIssued, IdentityIsAPair, E!IdentityIsAPair
<1>9. AnswerIsAPair'
  BY <1>1, <1>2, <1>3, <1>4 DEF AnswerIsAPair
<1>10. RunsAsPersisted'
  BY <1>1, <1>4 DEF RunsAsPersisted, E!RunsAsPersisted
<1>11. NewOnlyWithoutId'
  BY <1>1, <1>4 DEF IdentityInv, NewOnlyWithoutId
<1>12. MintsPaidFor'
  <2> DEFINE paid == IF dbId # 0 THEN 1 ELSE 0
  <2>1. minted <= faults + wiped + paid
    BY <1>1 DEF IdentityInv, MintsPaidFor
  <2>2. minted' <= faults + wiped + 1
    BY <1>2, <1>3, <2>1
  <2>3. minted' <= faults + 1 + wiped + paid
    BY <1>2, <1>3, <2>1
  <2>4. UNCHANGED <<dbId, wiped>>
    BY <1>1
  <2>5. CASE run' = "persist" /\ UNCHANGED faults
    BY <2>2, <2>4, <2>5 DEF MintsPaidFor
  <2>6. CASE UNCHANGED run /\ faults' = faults + 1
    <3>1. minted' <= faults' + wiped' + (IF dbId' # 0 THEN 1 ELSE 0)
      BY <2>3, <2>4, <2>6
    <3>2. run' # "persist"
      BY <1>1, <2>6
    <3> QED BY <3>1, <3>2 DEF MintsPaidFor
  <2> QED BY <1>4, <2>5, <2>6
<1> QED BY <1>6, <1>7, <1>8, <1>9, <1>10, <1>11, <1>12 DEF IdentityInv

\* Faults only add to what pays for the monitors.
LEMMA MintsStayPaidFor ==
  ASSUME NEW m \in Nat, NEW before \in Nat, NEW after \in Nat, NEW w \in Nat,
         NEW paid \in Nat, m <= before + w + paid, before <= after
  PROVE  m <= after + w + paid
OBVIOUS

\* Starting, reading the identity, and every end of Run.
LEMMA RunStep ==
  ASSUME IdentityInv,
         \/ \E config \in 0..MaxMonitors : E!StartAgent(config)
         \/ E!ReadIdentity \/ E!EnrollRefused \/ E!InitialSync \/ E!StopAgent
         \/ E!SetIdentityFails \/ E!Crash
  PROVE  IdentityInv'
<1> USE DEF E!StartAgent, E!ReadIdentity, E!EnrollRefused, E!InitialSync, E!StopAgent,
        E!SetIdentityFails, E!Crash, E!serverVars, E!dbVars, E!memoryVars, E!historyVars
<1>1. UNCHANGED <<minted, keyOf, issued, owner, dbId, dbKey, wiped>>
  OBVIOUS
<1>2. /\ dbId \in 0..MaxMonitors /\ dbKey \in 0..MaxKeys
      /\ issued \in 0..MaxKeys /\ minted \in 0..MaxMonitors
      /\ faults \in 0..MaxFaults /\ wiped \in 0..1
      /\ 0 \in 0..MaxMonitors /\ 0 \in 0..MaxKeys
  BY StartupBounds DEF IdentityInv, E!TypeOK
<1>3. /\ configId' \in 0..MaxMonitors /\ reclaimId' \in 0..MaxMonitors
      /\ id' \in 0..MaxMonitors
  BY <1>2 DEF IdentityInv, E!TypeOK
<1>4. key' = 0 \/ key' = dbKey \/ key' = key
  OBVIOUS
<1>5. /\ run' \in {"off", "start", "enroll", "persist", "sync", "running"} \ {"persist"}
      /\ run = "persist" => run' = "off" /\ faults' = faults + 1
  OBVIOUS
<1>6. faults' \in 0..MaxFaults /\ faults <= faults'
  <2>1. faults' = faults \/ (faults < MaxFaults /\ faults' = faults + 1)
    OBVIOUS
  <2>2. faults < MaxFaults => faults + 1 \in 0..MaxFaults
    BY <1>2, StartupBounds
  <2> QED BY <1>2, <2>1, <2>2
<1>7. E!TypeOK'
  BY <1>1, <1>2, <1>3, <1>4, <1>5, <1>6 DEF IdentityInv, E!TypeOK, E!Ids, E!Keys
<1>8. KeysWereIssued'
  BY <1>1, <1>2, <1>4 DEF IdentityInv, KeysWereIssued
<1>9. IdentityIsAPair' /\ AnswerIsAPair'
  BY <1>1, <1>5 DEF IdentityInv, IdentityIsAPair, E!IdentityIsAPair, AnswerIsAPair
<1>10. RunsAsPersisted'
  BY <1>1 DEF IdentityInv, RunsAsPersisted, E!RunsAsPersisted
<1>11. NewOnlyWithoutId'
  BY <1>1 DEF IdentityInv, NewOnlyWithoutId
<1>12. MintsPaidFor'
  <2>1. minted <= faults + wiped + (IF dbId # 0 \/ run = "persist" THEN 1 ELSE 0)
    BY DEF IdentityInv, MintsPaidFor
  <2>2. CASE run = "persist"
    BY <1>1, <1>2, <1>5, <2>1, <2>2 DEF MintsPaidFor
  <2>3. CASE run # "persist"
    <3> DEFINE paid == IF dbId # 0 THEN 1 ELSE 0
    <3>1. minted \in Nat /\ faults \in Nat /\ faults' \in Nat /\ wiped \in Nat /\ paid \in Nat
      BY <1>2, <1>6, StartupBounds
    <3>2. minted <= faults + wiped + paid
      BY <2>1, <2>3
    <3> HIDE DEF paid
    <3>3. faults <= faults'
      BY <1>6
    <3>4. minted <= faults' + wiped + paid
      BY <3>1, <3>2, <3>3, MintsStayPaidFor, Zenon
    <3> USE DEF paid
    <3>5. run' # "persist"
      BY <1>5
    <3> QED BY <1>1, <3>4, <3>5 DEF MintsPaidFor
  <2> QED BY <2>2, <2>3
<1> QED BY <1>7, <1>8, <1>9, <1>10, <1>11, <1>12 DEF IdentityInv

\* What is persisted is the server's latest answer.
LEMMA PersistStep ==
  ASSUME IdentityInv, E!SetIdentity
  PROVE  IdentityInv'
<1>1. /\ UNCHANGED <<minted, keyOf, issued, owner, configId, reclaimId, id, key, wiped, faults>>
      /\ dbId' = id /\ dbKey' = key /\ run' = "sync" /\ run = "persist"
  BY DEF E!SetIdentity, E!serverVars, E!historyVars
<1>2. E!TypeOK'
  BY <1>1 DEF IdentityInv, E!TypeOK, E!Ids, E!Keys
<1>3. id # 0 /\ key # 0 /\ owner[key] = id
  BY <1>1 DEF IdentityInv, AnswerIsAPair
<1>4. KeysWereIssued' /\ IdentityIsAPair' /\ AnswerIsAPair' /\ RunsAsPersisted' /\ NewOnlyWithoutId'
  BY <1>1, <1>3 DEF IdentityInv, KeysWereIssued, IdentityIsAPair, E!IdentityIsAPair,
     AnswerIsAPair, RunsAsPersisted, E!RunsAsPersisted, NewOnlyWithoutId
<1>5. MintsPaidFor'
  BY <1>1, <1>3 DEF IdentityInv, MintsPaidFor
<1> QED BY <1>2, <1>4, <1>5 DEF IdentityInv

\* What happens to the identity on the server and in a stopped agent.
LEMMA OperatorStep ==
  ASSUME IdentityInv, E!Operators
  PROVE  IdentityInv'
<1>1. ASSUME NEW i \in E!Ids, E!ResetEnrolment(i) PROVE IdentityInv'
  <2>1. /\ UNCHANGED <<minted, issued, owner, dbId, dbKey, configId, run, reclaimId, id,
                       key, wiped, faults>>
        /\ keyOf' = [keyOf EXCEPT ![i] = 0]
    BY <1>1 DEF E!ResetEnrolment, E!dbVars, E!memoryVars, E!historyVars
  <2>2. E!TypeOK'
    <3>1. keyOf' \in [E!Ids -> 0..MaxKeys]
      BY <2>1, StartupBounds DEF IdentityInv, E!TypeOK
    <3> QED BY <2>1, <3>1 DEF IdentityInv, E!TypeOK
  <2> QED
    BY <2>1, <2>2 DEF IdentityInv, KeysWereIssued, IdentityIsAPair, E!IdentityIsAPair,
       AnswerIsAPair, RunsAsPersisted, E!RunsAsPersisted, NewOnlyWithoutId, MintsPaidFor
<1>2. ASSUME NEW wholeRow \in BOOLEAN, E!ClearIdentity(wholeRow) PROVE IdentityInv'
  <2>1. /\ UNCHANGED <<minted, keyOf, issued, owner, configId, run, reclaimId, id, key, faults>>
        /\ run = "off" /\ wiped = 0 /\ wiped' = 1 /\ dbKey' = 0
        /\ dbId' = 0 \/ dbId' = dbId
    BY <1>2 DEF E!ClearIdentity, E!serverVars, E!memoryVars
  <2>2. E!TypeOK'
    BY <2>1, StartupBounds DEF IdentityInv, E!TypeOK
  <2>3. KeysWereIssued'
    BY <2>1 DEF IdentityInv, KeysWereIssued, E!TypeOK
  <2>4. IdentityIsAPair' /\ AnswerIsAPair' /\ RunsAsPersisted' /\ NewOnlyWithoutId'
    BY <2>1 DEF IdentityIsAPair, E!IdentityIsAPair, AnswerIsAPair, RunsAsPersisted,
       E!RunsAsPersisted, NewOnlyWithoutId
  <2>5. MintsPaidFor'
    BY <2>1 DEF IdentityInv, MintsPaidFor, E!TypeOK
  <2> QED BY <2>2, <2>3, <2>4, <2>5 DEF IdentityInv
<1> QED BY <1>1, <1>2 DEF E!Operators

\* The identity's invariant holds with the migrations going on beside it.
LEMMA IdentityInvariance == StartupSpec => []IdentityInv
<1>1. StartupInit => IdentityInv
  <2> SUFFICES ASSUME E!Init PROVE IdentityInv
    BY DEF StartupInit
  <2>1. E!TypeOK
    BY StartupBounds DEF E!Init, E!TypeOK
  <2>2. KeysWereIssued /\ MintsPaidFor
    BY DEF E!Init, KeysWereIssued, MintsPaidFor
  <2>3. IdentityIsAPair /\ AnswerIsAPair /\ RunsAsPersisted /\ NewOnlyWithoutId
    BY DEF E!Init, IdentityIsAPair, E!IdentityIsAPair, AnswerIsAPair, RunsAsPersisted,
       E!RunsAsPersisted, NewOnlyWithoutId
  <2> QED BY <2>1, <2>2, <2>3 DEF IdentityInv
<1>2. IdentityInv /\ [StartupNext]_allVars => IdentityInv'
  <2> SUFFICES ASSUME IdentityInv, [StartupNext]_allVars PROVE IdentityInv'
    OBVIOUS
  <2>1. CASE UNCHANGED identityVars
    BY <2>1 DEF identityVars, IdentityInv, E!TypeOK, KeysWereIssued, IdentityIsAPair,
       E!IdentityIsAPair, AnswerIsAPair, RunsAsPersisted, E!RunsAsPersisted,
       NewOnlyWithoutId, MintsPaidFor
  <2>2. CASE Launch
    BY <2>2, RunStep DEF Launch
  <2>3. CASE WriteIdentity
    BY <2>3, RunStep, PersistStep DEF WriteIdentity
  <2>4. CASE Work
    BY <2>4, RunStep, EnrolStep DEF Work, E!AgentStep
  <2>5. CASE Surroundings
    BY <2>5, OperatorStep DEF Surroundings
  <2> QED
    BY <2>1, <2>2, <2>3, <2>4, <2>5 DEF StartupNext, Migrate, Killed, allVars
<1> QED BY <1>1, <1>2, PTL DEF StartupSpec

\* The persisted key is one the server issued for the persisted id.
THEOREM IdentityStaysAPair == StartupSpec => []IdentityIsAPair
<1>1. IdentityInv => IdentityIsAPair
  BY DEF IdentityInv
<1> QED BY <1>1, IdentityInvariance, PTL

\* The agent syncs and runs as the identity it has persisted.
THEOREM RunsAsWhatItPersisted == StartupSpec => []RunsAsPersisted
<1>1. IdentityInv => RunsAsPersisted
  BY DEF IdentityInv
<1> QED BY <1>1, IdentityInvariance, PTL

\* Every monitor beyond the first is paid for by a fault or a cleared identity.
THEOREM NoMonitorWithoutAReason == StartupSpec => []MintedForAReason
<1>1. IdentityInv => MintedForAReason
  BY DEF IdentityInv, MintsPaidFor, E!TypeOK, MintedForAReason, E!MintedForAReason
<1> QED BY <1>1, IdentityInvariance, PTL

\* Every variable of Startup always has its type.
THEOREM StartupTypes == StartupSpec => []TypeIsOK
<1>1. SchemaInv /\ IdentityInv => TypeIsOK
  BY DEF SchemaInv, IdentityInv, TypeIsOK
<1> QED BY <1>1, SchemaInvariance, IdentityInvariance, PTL

-----------------------------------------------------------------------------
(* The whole start is a run of each of its components.                     *)

\* Processes of any kind, with the agent at work among them, only ever migrate
\* as Migrations says.
THEOREM StartupMigrates == StartupSpec => Spec
<1>1. StartupInit => Init
  BY DEF StartupInit
<1> QED BY <1>1, StartupStepsMigrate, PTL DEF StartupSpec, Spec

\* To the identity, whatever the migrations do is nothing.
LEMMA StartupStepsEnrol == [StartupNext]_allVars => [E!Next]_(E!vars)
<1>1. ASSUME UNCHANGED identityVars PROVE UNCHANGED E!vars
  BY <1>1 DEF identityVars, E!vars, E!serverVars, E!dbVars, E!memoryVars, E!historyVars
<1>2. \A p \in Processes : Migrate(p) \/ Killed(p) => UNCHANGED identityVars
  BY DEF Migrate, Killed
<1>3. Launch \/ WriteIdentity \/ Work \/ Surroundings => E!Next
  BY DEF Launch, WriteIdentity, Work, Surroundings, E!Next
<1>4. UNCHANGED allVars => UNCHANGED identityVars
  BY DEF allVars
<1> QED BY <1>1, <1>2, <1>3, <1>4 DEF StartupNext

\* Beside other processes that migrate, hold the write lock and are killed, the
\* agent enrols as Enrolment says.
THEOREM StartupEnrols == StartupSpec => E!Spec
<1>1. StartupInit => E!Init
  BY DEF StartupInit
<1> QED BY <1>1, StartupStepsEnrol, PTL DEF StartupSpec, E!Spec

-----------------------------------------------------------------------------
\* What one step may do to the schema.
OneMigrationOn ==
  recorded' = recorded
    \/ \E v \in Versions : recorded = 1..(v - 1) /\ recorded' = 1..v

\* Only a commit records a migration, and it is the next one.
LEMMA RecordedStep ==
  ASSUME SchemaInv, [Next]_vars
  PROVE  OneMigrationOn
<1>1. ASSUME NEW p \in Processes, Commit(p) PROVE OneMigrationOn
  <2>1. /\ at[p] \in Versions /\ at[p] \notin recorded
        /\ \A v \in Versions : v < at[p] => v \in recorded
        /\ recorded' = recorded \cup {at[p]}
    BY <1>1 DEF Commit, SchemaInv, WorksOnAMigration, EarlierRecorded, CommitIsNew, Applying
  <2>2. recorded \subseteq Versions /\ \A v \in recorded : 1..v \subseteq recorded
    BY DEF SchemaInv, TypeOK, InFilenameOrder
  <2>3. \A v \in recorded : v < at[p]
    BY <2>1, <2>2 DEF Versions
  <2>4. recorded = 1..(at[p] - 1)
    <3> DEFINE n == at[p]
    <3>1. n \in 1..Count /\ Count \in Nat /\ recorded \subseteq 1..Count
      BY <2>1, <2>2 DEF Versions
    <3>2. \A v \in recorded : v < n
      BY <2>3
    <3>3. \A v \in 1..Count : v < n => v \in recorded
      BY <2>1 DEF Versions
    <3> HIDE DEF n
    <3>4. recorded \subseteq 1..(n - 1)
      BY <3>1, <3>2
    <3>5. 1..(n - 1) \subseteq recorded
      BY <3>1, <3>3
    <3>6. recorded = 1..(n - 1)
      BY <3>4, <3>5
    <3> QED BY <3>6 DEF n
  <2>5. recorded' = 1..at[p]
    BY <2>1, <2>4 DEF Versions
  <2> QED BY <2>1, <2>4, <2>5 DEF OneMigrationOn
<1>2. ASSUME NEW p \in Processes, Start(p) \/ Apply(p) \/ Exit(p) \/ Crash(p)
      PROVE  Commit(p) \/ recorded' = recorded
  BY <1>2 DEF Start, Apply, Check, Begin, BeginFails, RunScript, RunScriptFails, Record,
     RecordFails, Rollback, Exit, Crash
<1>3. CASE UNCHANGED vars
  BY <1>3 DEF vars, OneMigrationOn
<1> QED BY <1>1, <1>2, <1>3 DEF Next, OneMigrationOn

\* No kill, race or failure takes a migration back, repeats one or leaves one
\* out: the schema is always the first so many, and goes on by one.
THEOREM SchemaGoesForward == StartupSpec => [][OneMigrationOn]_allVars
<1>1. SchemaInv /\ [StartupNext]_allVars => OneMigrationOn
  BY RecordedStep, StartupStepsMigrate
<1> QED BY <1>1, SchemaInvariance, PTL DEF StartupSpec
=============================================================================
