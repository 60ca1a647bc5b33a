------------------------------- MODULE Runner -------------------------------
(***************************************************************************)
(* The Runner (runner.go): reconcile keeps one goroutine per enabled check, *)
(* each goroutine runs scheduleLoop and execute, all of them share the     *)
(* semaphore, lastStatus and the ConnectivityGate (gate.go).               *)
(*                                                                         *)
(* The checks table changes under the Runner as syncs commit, the internet *)
(* comes and goes, and the agent is stopped at any time.  Slots of         *)
(* scheduleLoop are not timed here: a waiting goroutine may fire whenever. *)
(***************************************************************************)
EXTENDS Naturals, FiniteSets, FiniteSetsExt

CONSTANTS
  Guids,          \* checks the server may assign to this monitor
  Definitions,    \* definitions a check may be given
  Inverted,       \* those of them whose outcome InvertPassed turns round
  Tasks,          \* bound: scheduleLoop goroutines alive at once
  MaxConcurrent,  \* capacity of sem
  MaxChanges,     \* bound: changes of the checks table
  MaxOutages      \* bound: times the internet goes away

ASSUME InvertedAssumption == Inverted \subseteq Definitions
ASSUME DefinitionsAssumption == {"none", "disabled"} \cap Definitions = {}
ASSUME TasksAssumption == IsFiniteSet(Tasks)
ASSUME ConcurrencyAssumption == MaxConcurrent \in Nat \ {0}
ASSUME RunnerBounds == MaxChanges \in Nat /\ MaxOutages \in Nat

VARIABLES
  rows,         \* checks: guid -> local id and definition, or that it is disabled
  rec,          \* where Run is: its ticker, reconcile's two loops, returned
  snapshot,     \* what ListEnabledChecks returned to the latest reconcile
  pending,      \* the part of snapshot reconcile has not visited
  scheduled,    \* local id -> goroutine to cancel and the check it was given
  task,         \* the goroutines
  sem,          \* permits taken
  lastStatus,   \* local id -> last known Success, "none" without an entry
  online,       \* gate.online
  recheck,      \* gate.Run: asleep, or the answer of its probe
  ctxDone,      \* whether the agent's context is cancelled
  uplink,       \* whether the internet is reachable
  \* history, never read by the code
  falseAlarm,   \* a failure was buffered though the internet was down throughout
  changes, outages

planVars == <<rec, snapshot, pending, scheduled>>
gateVars == <<online, recheck>>
worldVars == <<rows, changes, uplink, outages>>
vars == <<planVars, task, sem, lastStatus, gateVars, ctxDone, worldVars, falseAlarm>>

-----------------------------------------------------------------------------
Ids == 1..MaxChanges
NoGuid == "no guid"
NoCheck == [id |-> 0, guid |-> NoGuid, def |-> "none"]
Check == [id : Ids, guid : Guids, def : Definitions]
NoEntry == [cancel |-> "none", check |-> NoCheck]
Entry == [cancel : Tasks, check : Check]
Status == {"none", "up", "down"}
AsStatus(success) == IF success THEN "up" ELSE "down"

\* pc follows execute; raw is what checker.Run returned, reachable what the
\* probe answered; dark: the internet has been down ever since the run began.
Task == [pc : {"idle", "wait", "start", "acquire", "run", "probe", "verdict",
               "buffer", "transition"},
         check : Check \cup {NoCheck}, cancelled : BOOLEAN,
         raw : {"none", "pass", "fail", "transport"},
         reachable : BOOLEAN, dark : BOOLEAN]
Idle == [pc |-> "idle", check |-> NoCheck, cancelled |-> FALSE, raw |-> "none",
         reachable |-> FALSE, dark |-> FALSE]

TypeOK ==
  /\ rows \in [Guids -> [id : 0..MaxChanges, def : Definitions \cup {"disabled", "none"}]]
  /\ rec \in {"ticker", "start", "drop", "returned"}
  /\ snapshot \in SUBSET Check
  /\ pending \in SUBSET Check
  /\ scheduled \in [Ids -> Entry \cup {NoEntry}]
  /\ task \in [Tasks -> Task]
  /\ sem \in 0..MaxConcurrent
  /\ lastStatus \in [Ids -> Status]
  /\ online \in BOOLEAN
  /\ recheck \in {"asleep", "reached", "unreached"}
  /\ ctxDone \in BOOLEAN
  /\ uplink \in BOOLEAN
  /\ falseAlarm \in BOOLEAN
  /\ changes \in 0..MaxChanges
  /\ outages \in 0..MaxOutages

-----------------------------------------------------------------------------
(* What the Runner does not control.                                       *)

NoRow == [id |-> 0, def |-> "none"]
Disabled == "disabled"
Enabled == {g \in Guids : rows[g].def \in Definitions}
NextId == 1 + Max({rows[h].id : h \in Guids} \cup {0})

\* A sync adds check g to the table, gives it a new definition or disables it.
SaveCheck(g, def) ==
  /\ changes < MaxChanges
  /\ changes' = changes + 1
  /\ rows[g].def # def
  /\ rows' = [rows EXCEPT ![g] =
                [id |-> IF rows[g] = NoRow THEN NextId ELSE rows[g].id, def |-> def]]
  /\ UNCHANGED <<planVars, task, sem, lastStatus, gateVars, ctxDone, uplink,
                 outages, falseAlarm>>

\* A sync removes check g; the id may be used again.
RemoveCheck(g) ==
  /\ changes < MaxChanges
  /\ changes' = changes + 1
  /\ rows[g] # NoRow
  /\ rows' = [rows EXCEPT ![g] = NoRow]
  /\ UNCHANGED <<planVars, task, sem, lastStatus, gateVars, ctxDone, uplink,
                 outages, falseAlarm>>

UplinkLost ==
  /\ uplink
  /\ outages < MaxOutages
  /\ outages' = outages + 1
  /\ uplink' = FALSE
  /\ UNCHANGED <<planVars, task, sem, lastStatus, gateVars, ctxDone, rows, changes,
                 falseAlarm>>

UplinkBack ==
  /\ ~uplink
  /\ uplink' = TRUE
  /\ task' = [s \in Tasks |-> [task[s] EXCEPT !.dark = FALSE]]
  /\ UNCHANGED <<planVars, sem, lastStatus, gateVars, ctxDone, rows, changes,
                 outages, falseAlarm>>

Cancel ==
  /\ ~ctxDone
  /\ ctxDone' = TRUE
  /\ UNCHANGED <<planVars, task, sem, lastStatus, gateVars, worldVars, falseAlarm>>

-----------------------------------------------------------------------------
(* Run and reconcile.                                                      *)

\* ListEnabledChecks.  When it fails reconcile returns and nothing changes.
\* A tick that is ready together with ctx.Done() may still be taken.
ListEnabledChecks ==
  /\ rec = "ticker"
  /\ rec' = "start"
  /\ snapshot' = {[id |-> rows[g].id, guid |-> g, def |-> rows[g].def] :
                    g \in Enabled}
  /\ pending' = snapshot'
  /\ UNCHANGED <<scheduled, task, sem, lastStatus, gateVars, ctxDone, worldVars,
                 falseAlarm>>

\* Comparing only the scheduling facts.
SameSchedule(a, b) == a.id = b.id

SameDefinition(a, b) == a = b

\* Free: ended, and no longer in the map.
Free(s) == task[s].pc = "idle" /\ \A id \in Ids : scheduled[id].cancel # s

Go(s, c, runImmediately) ==
  [Idle EXCEPT !.pc = IF runImmediately THEN "start" ELSE "wait", !.check = c]

Visit(c) ==
  /\ rec = "start"
  /\ c \in pending
  /\ pending' = pending \ {c}
  /\ UNCHANGED <<rec, snapshot, sem, lastStatus, gateVars, ctxDone, worldVars, falseAlarm>>

\* Already running exactly this definition.
KeepCheck(c) ==
  /\ Visit(c)
  /\ scheduled[c.id] # NoEntry
  /\ SameDefinition(scheduled[c.id].check, c)
  /\ UNCHANGED <<scheduled, task>>

\* Without the call of sc.cancel.
RestartUncancelled(c, s) ==
  /\ Visit(c)
  /\ scheduled[c.id] # NoEntry
  /\ ~SameDefinition(scheduled[c.id].check, c)
  /\ Free(s)
  /\ task' = [task EXCEPT ![s] = Go(s, c, FALSE)]
  /\ scheduled' = [scheduled EXCEPT ![c.id] = [cancel |-> s, check |-> c]]

\* Running something stale: cancel it and start over at its next slot.
RestartCheck(c, s) ==
  /\ Visit(c)
  /\ scheduled[c.id] # NoEntry
  /\ ~SameDefinition(scheduled[c.id].check, c)
  /\ Free(s)
  /\ task' = [task EXCEPT ![scheduled[c.id].cancel].cancelled = TRUE, ![s] = Go(s, c, FALSE)]
  /\ scheduled' = [scheduled EXCEPT ![c.id] = [cancel |-> s, check |-> c]]

StartCheck(c, s) ==
  /\ Visit(c)
  /\ scheduled[c.id] = NoEntry
  /\ Free(s)
  /\ task' = [task EXCEPT ![s] = Go(s, c, TRUE)]
  /\ scheduled' = [scheduled EXCEPT ![c.id] = [cancel |-> s, check |-> c]]

VisitedAll ==
  /\ rec = "start"
  /\ pending = {}
  /\ rec' = "drop"
  /\ UNCHANGED <<snapshot, pending, scheduled, task, sem, lastStatus, gateVars,
                 ctxDone, worldVars, falseAlarm>>

Unseen == {id \in Ids : scheduled[id] # NoEntry /\ \A c \in snapshot : c.id # id}

\* Removed or disabled: cancel, delete the entry, forgetStatus.
DropCheck(id) ==
  /\ rec = "drop"
  /\ id \in Unseen
  /\ task' = [task EXCEPT ![scheduled[id].cancel].cancelled = TRUE]
  /\ scheduled' = [scheduled EXCEPT ![id] = NoEntry]
  /\ lastStatus' = [lastStatus EXCEPT ![id] = "none"]
  /\ UNCHANGED <<rec, snapshot, pending, sem, gateVars, ctxDone, worldVars, falseAlarm>>

EndReconcile ==
  /\ rec = "drop"
  /\ Unseen = {}
  /\ rec' = "ticker"
  /\ UNCHANGED <<snapshot, pending, scheduled, task, sem, lastStatus, gateVars,
                 ctxDone, worldVars, falseAlarm>>

\* <-ctx.Done(), with the deferred cancel of every goroutine.
RunReturns ==
  /\ rec = "ticker"
  /\ ctxDone
  /\ rec' = "returned"
  /\ scheduled' = [id \in Ids |-> NoEntry]
  /\ task' = [s \in Tasks |->
       IF \E id \in Ids : scheduled[id].cancel = s
       THEN [task[s] EXCEPT !.cancelled = TRUE] ELSE task[s]]
  /\ UNCHANGED <<snapshot, pending, sem, lastStatus, gateVars, ctxDone, worldVars,
                 falseAlarm>>

-----------------------------------------------------------------------------
(* A check's goroutine: scheduleLoop and execute.                          *)

Cancelled(s) == task[s].cancelled \/ ctxDone

Reset(s, pc) ==
  [Idle EXCEPT !.pc = pc, !.check = task[s].check, !.cancelled = task[s].cancelled]

\* A slot of the check's grid has come.
Tick(s) ==
  /\ task[s].pc = "wait"
  /\ task' = [task EXCEPT ![s].pc = "start"]
  /\ UNCHANGED <<planVars, sem, lastStatus, gateVars, ctxDone, worldVars, falseAlarm>>

\* A loop that only waits for its timer, with no case for ctx.Done().
LoopEndsNever(s) == FALSE /\ UNCHANGED vars

\* The loop ends at a wait after its context is cancelled, unless the timer is
\* ready too and wins.
LoopEnds(s) ==
  /\ task[s].pc = "wait"
  /\ Cancelled(s)
  /\ task' = [task EXCEPT ![s] = Idle]
  /\ UNCHANGED <<planVars, sem, lastStatus, gateVars, ctxDone, worldVars, falseAlarm>>

\* The gate is asked before waiting for a permit, not after.
CheckGate(s) ==
  /\ task[s].pc = "start"
  /\ task' = [task EXCEPT ![s].pc = IF online THEN "acquire" ELSE "wait"]
  /\ UNCHANGED <<planVars, sem, lastStatus, gateVars, ctxDone, worldVars, falseAlarm>>

AcquirePermit(s) ==
  /\ task[s].pc = "acquire"
  /\ sem < MaxConcurrent
  /\ sem' = sem + 1
  /\ task' = [task EXCEPT ![s].pc = "run", ![s].dark = ~uplink]
  /\ UNCHANGED <<planVars, lastStatus, gateVars, ctxDone, worldVars, falseAlarm>>

GiveUp(s) ==
  /\ task[s].pc = "acquire"
  /\ Cancelled(s)
  /\ task' = [task EXCEPT ![s] = Reset(s, "wait")]
  /\ UNCHANGED <<planVars, sem, lastStatus, gateVars, ctxDone, worldVars, falseAlarm>>

\* InvertPassed.
Success(c, raw) == (raw = "pass") # (c.def \in Inverted)

\* The transport test made on the outcome InvertPassed has already turned round.
CheckerRunInverted(s, raw) ==
  /\ task[s].pc = "run"
  /\ task' = [task EXCEPT ![s].raw = raw,
                          ![s].pc = IF raw = "transport" /\ ~Success(task[s].check, raw)
                                    THEN "probe" ELSE "buffer"]
  /\ UNCHANGED <<planVars, sem, lastStatus, gateVars, ctxDone, worldVars, falseAlarm>>

\* checker.Run returns: a pass, a failure of the target's own, or no response
\* at all (also what a cancelled context produces).  Only the last is doubted.
CheckerRun(s, raw) ==
  /\ task[s].pc = "run"
  /\ task' = [task EXCEPT ![s].raw = raw,
                          ![s].pc = IF raw = "transport" THEN "probe" ELSE "buffer"]
  /\ UNCHANGED <<planVars, sem, lastStatus, gateVars, ctxDone, worldVars, falseAlarm>>

\* Verify probes under the check's own context ...
Probe(s) ==
  /\ task[s].pc = "probe"
  /\ task' = [task EXCEPT ![s].pc = "verdict", ![s].reachable = uplink /\ ~Cancelled(s)]
  /\ UNCHANGED <<planVars, sem, lastStatus, gateVars, ctxDone, worldVars, falseAlarm>>

\* An early return that skips the deferred receive.
VerdictLeaksPermit(s) ==
  /\ task[s].pc = "verdict"
  /\ online' = task[s].reachable
  /\ task' = [task EXCEPT ![s] = IF task[s].reachable
                                 THEN [@ EXCEPT !.pc = "buffer"] ELSE Reset(s, "wait")]
  /\ UNCHANGED <<planVars, sem, lastStatus, recheck, ctxDone, worldVars, falseAlarm>>

\* ... and then takes the lock and moves the gate.  Unreachable: the failure is
\* discarded and execute returns, giving its permit back.
Verdict(s) ==
  /\ task[s].pc = "verdict"
  /\ online' = task[s].reachable
  /\ IF task[s].reachable
     THEN task' = [task EXCEPT ![s].pc = "buffer"] /\ UNCHANGED sem
     ELSE task' = [task EXCEPT ![s] = Reset(s, "wait")] /\ sem' = sem - 1
  /\ UNCHANGED <<planVars, lastStatus, recheck, ctxDone, worldVars, falseAlarm>>

\* The result goes to the buffer, under the check's guid.
BufferResult(s) ==
  /\ task[s].pc = "buffer"
  /\ rows[task[s].check.guid] # NoRow
  /\ task' = [task EXCEPT ![s].pc = "transition"]
  /\ falseAlarm' = (falseAlarm \/ (task[s].raw = "transport" /\ task[s].dark))
  /\ UNCHANGED <<planVars, sem, lastStatus, gateVars, ctxDone, worldVars>>

\* The check is no longer in the table, or the database refuses.
BufferFails(s) ==
  /\ task[s].pc = "buffer"
  /\ task' = [task EXCEPT ![s] = Reset(s, "wait")]
  /\ sem' = sem - 1
  /\ UNCHANGED <<planVars, lastStatus, gateVars, ctxDone, worldVars, falseAlarm>>

\* checkStatusTransition, triggerFlush when it says so (Delivery), and execute
\* returns.
CheckStatusTransition(s) ==
  LET c == task[s].check
  IN  /\ task[s].pc = "transition"
      /\ lastStatus' = [lastStatus EXCEPT ![c.id] = AsStatus(Success(c, task[s].raw))]
      /\ task' = [task EXCEPT ![s] = Reset(s, "wait")]
      /\ sem' = sem - 1
      /\ UNCHANGED <<planVars, gateVars, ctxDone, worldVars, falseAlarm>>

-----------------------------------------------------------------------------
(* ConnectivityGate.Run: while offline, Verify at every tick.  Ticks taken  *)
(* after the context is done only repeat that the gate is offline.         *)

RecheckProbe ==
  /\ recheck = "asleep"
  /\ ~online
  /\ recheck' = IF uplink /\ ~ctxDone THEN "reached" ELSE "unreached"
  /\ UNCHANGED <<planVars, task, sem, lastStatus, online, ctxDone, worldVars, falseAlarm>>

\* Without the branch that brings the gate back.
RecheckVerdictOneWay ==
  /\ recheck # "asleep"
  /\ online' = (online /\ recheck = "reached")
  /\ recheck' = "asleep"
  /\ UNCHANGED <<planVars, task, sem, lastStatus, ctxDone, worldVars, falseAlarm>>

RecheckVerdict ==
  /\ recheck # "asleep"
  /\ online' = (recheck = "reached")
  /\ recheck' = "asleep"
  /\ UNCHANGED <<planVars, task, sem, lastStatus, ctxDone, worldVars, falseAlarm>>

-----------------------------------------------------------------------------
Init ==
  /\ rows = [g \in Guids |-> NoRow]
  /\ rec = "ticker"
  /\ snapshot = {}
  /\ pending = {}
  /\ scheduled = [id \in Ids |-> NoEntry]
  /\ task = [s \in Tasks |-> Idle]
  /\ sem = 0
  /\ lastStatus = [id \in Ids |-> "none"]
  /\ online = TRUE
  /\ recheck = "asleep"
  /\ ctxDone = FALSE
  /\ uplink = TRUE
  /\ falseAlarm = FALSE
  /\ changes = 0
  /\ outages = 0

World ==
  \/ \E g \in Guids : RemoveCheck(g) \/ \E def \in Definitions \cup {Disabled} : SaveCheck(g, def)
  \/ UplinkLost \/ UplinkBack \/ Cancel

Reconcile ==
  \/ ListEnabledChecks
  \/ \E c \in pending :
       KeepCheck(c) \/ \E s \in Tasks : RestartCheck(c, s) \/ StartCheck(c, s)
  \/ VisitedAll
  \/ \E id \in Ids : DropCheck(id)
  \/ EndReconcile

Execute(s) ==
  \/ CheckGate(s)
  \/ AcquirePermit(s) \/ GiveUp(s)
  \/ \E raw \in {"pass", "fail", "transport"} : CheckerRun(s, raw)
  \/ Probe(s) \/ Verdict(s)
  \/ BufferResult(s) \/ BufferFails(s)
  \/ CheckStatusTransition(s)

Goroutine(s) == Tick(s) \/ LoopEnds(s) \/ Execute(s)

Gate == RecheckProbe \/ RecheckVerdict

Next ==
  \/ World
  \/ Reconcile \/ RunReturns
  \/ \E s \in Tasks : Goroutine(s)
  \/ Gate

Spec == Init /\ [][Next]_vars

\* Goroutines keep running, a check run and a probe end, timers fire; a select
\* with several ready cases picks each of them sometime, and goroutines blocked
\* on the semaphore are served in turn.
Fairness ==
  /\ WF_vars(Reconcile)
  /\ SF_vars(RunReturns)
  /\ WF_vars(Gate)
  /\ \A s \in Tasks :
       /\ WF_vars(Goroutine(s))
       /\ SF_vars(LoopEnds(s))
       /\ SF_vars(AcquirePermit(s))

FairSpec == Spec /\ Fairness

-----------------------------------------------------------------------------
\* Permits are neither leaked nor given back twice: those taken are exactly
\* those of the executions between the semaphore and execute's return.
Holding == {s \in Tasks : task[s].pc \in {"run", "probe", "verdict", "buffer", "transition"}}
PermitsMatchHolders == sem = Cardinality(Holding)

\* Between two reconciles the goroutines whose own context is not cancelled
\* run exactly the definitions listed last, one each: none is left running
\* something stale, none twice, none is missing.
Live == {s \in Tasks : task[s].pc # "idle" /\ ~task[s].cancelled}
OneGoroutinePerCheck ==
  rec = "ticker" /\ ~ctxDone =>
    /\ {task[s].check : s \in Live} = snapshot
    /\ \A s, t \in Live : task[s].check = task[t].check => s = t

\* No false alarm: when the internet has been down since before a check ran, the
\* missing response is not recorded, whatever goes on in between, and whether
\* or not the check is inverted.
NoFalseAlarm == ~falseAlarm

\* The Runner follows the table: once the table stays as it is, every check in
\* it runs under its current definition and nothing else runs, for good.
FollowsTable ==
  <>[](\/ ctxDone
       \/ {task[s].check : s \in Live} =
            {[id |-> rows[g].id, guid |-> g, def |-> rows[g].def] :
               g \in Enabled})

\* No check starves: one that stays in the table is executed again and again
\* while the internet is there, also after an outage has closed the gate.
ChecksKeepRunning ==
  \A g \in Guids :
    []<>(\/ ctxDone
         \/ ~uplink
         \/ g \notin Enabled
         \/ \E s \in Tasks : task[s].check.guid = g /\ task[s].pc = "run")

\* Cancelling the agent's context ends every goroutine the Runner started.
AllGoroutinesEnd ==
  <>[](~ctxDone \/ \A s \in Tasks : task[s].pc = "idle")

-----------------------------------------------------------------------------
\* ConnectivityGate's "flips offline only when Verify [...] finds every probe
\* target unreachable": with the internet there all the time and the agent not
\* being stopped, it stays online.
OfflineOnlyIfUnreachable == ~online => outages > 0 \/ ctxDone

\* forgetStatus's "a removed check's entry doesn't linger in lastStatus": when
\* a check is dropped and nothing runs for it any more, its entry is gone.
NoLingeringStatus ==
  \A id \in Ids :
    lastStatus[id] # "none" =>
      scheduled[id] # NoEntry \/ ctxDone \/ \E s \in Tasks : task[s].check.id = id
=============================================================================
