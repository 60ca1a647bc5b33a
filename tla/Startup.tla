------------------------------ MODULE Startup ------------------------------
(***************************************************************************)
(* main: processes over one database file.  Each of them first applies the *)
(* migrations (Migrations); the daemon, Agent, then reads its identity and *)
(* enrols (Enrolment), while one-shot commands such as                     *)
(* -import-private-check come and go.  The two components meet in the      *)
(* database: its schema, its write lock, and the processes that are killed *)
(* in the middle of either.                                                *)
(***************************************************************************)
EXTENDS Migrations

CONSTANTS
  Agent,        \* the daemon; the other Processes are one-shot commands
  MaxMonitors,  \* bound: monitors the server mints
  MaxKeys,      \* bound: keys the server issues
  MaxFaults     \* bound: faults after the migrations

ASSUME AgentAssumption == Agent \in Processes
ASSUME StartupBounds == MaxMonitors \in Nat /\ MaxKeys \in Nat /\ MaxFaults \in Nat

VARIABLES
  minted, keyOf, issued,      \* the server, see Enrolment
  dbId, dbKey,                \* the row of identity
  configId, run, reclaimId,   \* monitor.Run; run is "off" while main migrates
  id, key, owner, wiped, faults

E == INSTANCE Enrolment WITH pc <- run

identityVars ==
  <<minted, keyOf, issued, dbId, dbKey, configId, run, reclaimId, id, key, owner,
    wiped, faults>>
allVars == <<vars, identityVars>>

TypeIsOK == TypeOK /\ E!TypeOK

-----------------------------------------------------------------------------
\* A process starts, runs Apply, or ends; the daemon does so outside of Run.
Migrate(p) ==
  /\ p = Agent => run = "off"
  /\ Start(p) \/ Apply(p) \/ Exit(p)
  /\ UNCHANGED identityVars

Killed(p) ==
  /\ Crash(p)
  /\ UNCHANGED identityVars

\* Apply has succeeded: main goes on to monitor.Run.
Launch ==
  /\ pc[Agent] = "open"
  /\ \E config \in 0..MaxMonitors : E!StartAgent(config)
  /\ UNCHANGED vars

\* When monitor.Run returns, or is killed, the process ends.
Ends == IF run' = "off" THEN Exit(Agent) ELSE UNCHANGED vars

\* SetIdentity writes: it waits while another process holds the write lock,
\* and fails when that lasts for longer than busy_timeout.
WriteIdentity ==
  /\ \/ writeLock = NoProcess /\ E!SetIdentity
     \/ E!SetIdentityFails
  /\ Ends

Work ==
  /\ E!AgentStep
  /\ Ends

\* The owner on the server and the operator of a stopped agent.
Surroundings ==
  /\ E!Operators
  /\ UNCHANGED vars

-----------------------------------------------------------------------------
StartupInit == Init /\ E!Init

StartupNext ==
  \/ \E p \in Processes : Migrate(p) \/ Killed(p)
  \/ Launch
  \/ WriteIdentity
  \/ Work
  \/ Surroundings

StartupSpec == StartupInit /\ [][StartupNext]_allVars

\* A process that failed or was killed is started again, and Apply runs on.
StartupFairSpec ==
  /\ StartupSpec
  /\ \A p \in Processes : WF_allVars(Migrate(p))

-----------------------------------------------------------------------------
\* No process works on an incomplete schema: Apply has returned to a process,
\* and monitor.Run is in any of its states, only with every migration in
\* effect, whatever other process is in the middle of Apply or was killed there.
SchemaBeforeUse ==
  (\E p \in Processes : pc[p] = "open") \/ run # "off" => recorded = Versions

\* "neither is useful without the other": the persisted key is one the server
\* issued for the persisted id, through clears, reclaims and crashes.
IdentityIsAPair == E!IdentityIsAPair

\* What the agent works with survives it: the identity it syncs and runs with
\* is the persisted one, so that a restart is the same monitor.
RunsAsPersisted == E!RunsAsPersisted

\* A monitor is minted more than once for one agent only for a reason: every
\* further one is paid for by a fault or by a cleared identity.
MintedForAReason == E!MintedForAReason
=============================================================================
