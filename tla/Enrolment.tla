----------------------------- MODULE Enrolment -----------------------------
(***************************************************************************)
(* The start of the agent: Run up to the initial sync and enrollWithRetry  *)
(* (agent.go), Enroll (client.go), GetIdentity and SetIdentity (store.go). *)
(*                                                                         *)
(* The server is modelled from what the agent's code and comments say of   *)
(* it: enrolling without an id mints a monitor, enrolling with an id       *)
(* reclaims one whose enrolment was reset, anything else is a 4xx.  The    *)
(* id 0 stands for none, the key 0 for none.                               *)
(***************************************************************************)
EXTENDS Naturals, FiniteSets

CONSTANTS
  MaxMonitors,  \* bound: monitors the server mints
  MaxKeys,      \* bound: keys the server issues
  MaxFaults     \* bound: lost responses, failed SetIdentity calls and crashes

VARIABLES
  minted,       \* server: how many monitors exist
  keyOf,        \* server: monitor -> its valid key, 0 when enrolment was reset
  issued,       \* server: how many keys were issued
  dbId, dbKey,  \* the row of identity
  configId,     \* Config.MonitorID
  pc,           \* where Run is
  reclaimId,    \* the id sent with the request
  id, key,      \* what Run holds in memory
  \* history, never read by the code
  owner,        \* key -> monitor it was issued for
  wiped,        \* how often the operator cleared the identity
  faults

serverVars == <<minted, keyOf, issued, owner>>
dbVars == <<dbId, dbKey>>
memoryVars == <<configId, pc, reclaimId, id, key>>
historyVars == <<wiped, faults>>
vars == <<serverVars, dbVars, memoryVars, historyVars>>

Ids == 1..MaxMonitors
Keys == 1..MaxKeys

TypeOK ==
  /\ minted \in 0..MaxMonitors
  /\ keyOf \in [Ids -> 0..MaxKeys]
  /\ issued \in 0..MaxKeys
  /\ dbId \in 0..MaxMonitors /\ dbKey \in 0..MaxKeys
  /\ configId \in 0..MaxMonitors
  /\ pc \in {"off", "start", "enroll", "persist", "sync", "running"}
  /\ reclaimId \in 0..MaxMonitors
  /\ id \in 0..MaxMonitors /\ key \in 0..MaxKeys
  /\ owner \in [Keys -> 0..MaxMonitors]
  /\ wiped \in 0..1
  /\ faults \in 0..MaxFaults

-----------------------------------------------------------------------------
(* The server and the people around it.                                    *)

\* The monitor a request with this id is about, if the server accepts it.
Accepts(i) == IF i = 0 THEN minted < MaxMonitors ELSE i <= minted /\ keyOf[i] = 0
Enrolled(i) == IF i = 0 THEN minted + 1 ELSE i

Issue(i) ==
  /\ Accepts(i)
  /\ issued < MaxKeys
  /\ issued' = issued + 1
  /\ minted' = IF i = 0 THEN minted + 1 ELSE minted
  /\ keyOf' = [keyOf EXCEPT ![Enrolled(i)] = issued + 1]
  /\ owner' = [owner EXCEPT ![issued + 1] = Enrolled(i)]

\* The owner resets a monitor's enrolment.
ResetEnrolment(i) ==
  /\ keyOf[i] # 0
  /\ keyOf' = [keyOf EXCEPT ![i] = 0]
  /\ UNCHANGED <<minted, issued, owner, dbVars, memoryVars, historyVars>>

\* The operator clears the key, or loses the whole row, of a stopped agent.
ClearIdentity(wholeRow) ==
  /\ pc = "off"
  /\ dbKey # 0
  /\ wiped = 0
  /\ wiped' = wiped + 1
  /\ dbKey' = 0
  /\ dbId' = IF wholeRow THEN 0 ELSE dbId
  /\ UNCHANGED <<serverVars, memoryVars, faults>>

-----------------------------------------------------------------------------
(* The agent.                                                              *)

\* The operator starts the agent, with an id to re-adopt or none.
StartAgent(config) ==
  /\ pc = "off"
  /\ pc' = "start"
  /\ configId' = config
  /\ reclaimId' = 0 /\ id' = 0 /\ key' = 0
  /\ UNCHANGED <<serverVars, dbVars, historyVars>>

\* Enrolling whether or not a key is persisted.
ReadIdentityAlwaysEnrolls ==
  /\ pc = "start"
  /\ id' = dbId /\ key' = dbKey
  /\ pc' = "enroll"
  /\ reclaimId' = configId
  /\ UNCHANGED <<serverVars, dbVars, configId, historyVars>>

\* GetIdentity: a persisted key is used as it is; without one the agent
\* enrolls, reclaiming the configured id before the persisted one.
ReadIdentity ==
  /\ pc = "start"
  /\ id' = dbId /\ key' = dbKey
  /\ IF dbKey = 0
     THEN /\ pc' = "enroll"
          /\ reclaimId' = IF configId # 0 THEN configId ELSE dbId
     ELSE pc' = "sync" /\ UNCHANGED reclaimId
  /\ UNCHANGED <<serverVars, dbVars, configId, historyVars>>

EnrollSucceeds ==
  /\ pc = "enroll"
  /\ Issue(reclaimId)
  /\ id' = Enrolled(reclaimId)
  /\ key' = issued + 1
  /\ pc' = "persist"
  /\ UNCHANGED <<dbVars, configId, reclaimId, historyVars>>

\* The server enrols the monitor but the agent sees an error, and retries.
EnrollResponseLost ==
  /\ pc = "enroll"
  /\ faults < MaxFaults
  /\ faults' = faults + 1
  /\ Issue(reclaimId)
  /\ UNCHANGED <<dbVars, memoryVars, wiped>>

\* 4xx: Run returns an error and the process exits.
EnrollRefused ==
  /\ pc = "enroll"
  /\ reclaimId # 0
  /\ ~Accepts(reclaimId)
  /\ pc' = "off"
  /\ UNCHANGED <<serverVars, dbVars, configId, reclaimId, id, key, historyVars>>

\* A conflict clause that sets the key only.
SetIdentityKeepingId ==
  /\ pc = "persist"
  /\ dbId' = IF dbId = 0 THEN id ELSE dbId
  /\ dbKey' = key
  /\ pc' = "sync"
  /\ UNCHANGED <<serverVars, configId, reclaimId, id, key, historyVars>>

SetIdentity ==
  /\ pc = "persist"
  /\ dbId' = id
  /\ dbKey' = key
  /\ pc' = "sync"
  /\ UNCHANGED <<serverVars, configId, reclaimId, id, key, historyVars>>

\* Logged, and the agent goes on with what it holds in memory.
SetIdentityFailsGoesOn ==
  /\ pc = "persist"
  /\ faults < MaxFaults
  /\ faults' = faults + 1
  /\ pc' = "sync"
  /\ UNCHANGED <<serverVars, dbVars, configId, reclaimId, id, key, wiped>>

\* The key is lost with the process.
SetIdentityFails ==
  /\ pc = "persist"
  /\ faults < MaxFaults
  /\ faults' = faults + 1
  /\ pc' = "off"
  /\ UNCHANGED <<serverVars, dbVars, configId, reclaimId, id, key, wiped>>

\* The first successful sync; with an invalid key it is retried for ever.
InitialSync ==
  /\ pc = "sync"
  /\ id # 0 /\ keyOf[id] = key
  /\ pc' = "running"
  /\ UNCHANGED <<serverVars, dbVars, configId, reclaimId, id, key, historyVars>>

\* A signal: Run returns nil from any of its waits.
StopAgent ==
  /\ pc \in {"enroll", "sync", "running"}
  /\ pc' = "off"
  /\ UNCHANGED <<serverVars, dbVars, configId, reclaimId, id, key, historyVars>>

Crash ==
  /\ pc # "off"
  /\ faults < MaxFaults
  /\ faults' = faults + 1
  /\ pc' = "off"
  /\ UNCHANGED <<serverVars, dbVars, configId, reclaimId, id, key, wiped>>

-----------------------------------------------------------------------------
Init ==
  /\ minted = 0
  /\ keyOf = [i \in Ids |-> 0]
  /\ issued = 0
  /\ owner = [k \in Keys |-> 0]
  /\ dbId = 0 /\ dbKey = 0
  /\ configId = 0
  /\ pc = "off"
  /\ reclaimId = 0 /\ id = 0 /\ key = 0
  /\ wiped = 0
  /\ faults = 0

AgentStep ==
  \/ ReadIdentity
  \/ EnrollSucceeds \/ EnrollResponseLost \/ EnrollRefused
  \/ InitialSync
  \/ StopAgent \/ Crash

Operators ==
  \/ \E i \in Ids : ResetEnrolment(i)
  \/ \E wholeRow \in BOOLEAN : ClearIdentity(wholeRow)

Next ==
  \/ Operators
  \/ \E config \in 0..MaxMonitors : StartAgent(config)
  \/ AgentStep
  \/ SetIdentity \/ SetIdentityFails

Spec == Init /\ [][Next]_vars

-----------------------------------------------------------------------------
\* "neither is useful without the other": the persisted key is one the server
\* issued for the persisted id, through clears, reclaims and crashes.
IdentityIsAPair == dbKey # 0 => owner[dbKey] = dbId

\* What the agent works with survives it: the key it syncs and runs with is the
\* persisted one, so that a restart is the same monitor.
RunsAsPersisted == pc \in {"sync", "running"} => id = dbId /\ key = dbKey /\ key # 0

\* A monitor is minted more than once for one agent only for a reason: every
\* further one is paid for by a fault or by a cleared identity.
MintedForAReason == minted <= 1 + faults + wiped
=============================================================================
