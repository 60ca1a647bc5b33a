---------------------------- MODULE RunnerProofs ----------------------------
(***************************************************************************)
(* Theorems about Runner, for any checks, definitions, goroutines, permits, *)
(* changes of the table and outages.                                       *)
(***************************************************************************)
EXTENDS Runner, LargestId, FiniteSetTheorems

\* The table's ids are those of its rows, each given once, and bounded by the
\* number of changes made so far.
RowsKeyed ==
  /\ \A g \in Guids : rows[g].id <= changes
  /\ \A g \in Guids : rows[g].id = 0 <=> rows[g].def = "none"
  /\ \A g, h \in Guids : rows[g].id = rows[h].id /\ rows[g].id # 0 => g = h

\* A goroutine that has not ended was started for a check.
TasksHaveChecks == \A s \in Tasks : task[s].pc # "idle" => task[s].check \in Check

\* What a reconcile works on.
SnapshotKeyed ==
  /\ \A c, d \in snapshot : c.id = d.id => c = d
  /\ pending \subseteq snapshot
  /\ rec # "start" => pending = {}

\* The map and the goroutines agree: an entry is the handle of a goroutine that
\* runs the entry's check, and a goroutine nobody cancelled has its entry.
EntriesAreHandles ==
  /\ \A id \in Ids : scheduled[id] # NoEntry =>
       /\ scheduled[id].check.id = id
       /\ task[scheduled[id].cancel].pc # "idle"
       /\ ~task[scheduled[id].cancel].cancelled
       /\ task[scheduled[id].cancel].check = scheduled[id].check
  /\ \A s \in Live :
       /\ scheduled[task[s].check.id] # NoEntry
       /\ scheduled[task[s].check.id].cancel = s

\* What reconcile has achieved so far: every check it visited has its entry, and
\* between two reconciles there is no other entry.
EntriesFollowSnapshot ==
  /\ \A c \in snapshot \ pending : scheduled[c.id] # NoEntry /\ scheduled[c.id].check = c
  /\ rec = "ticker" => \A id \in Ids : scheduled[id] # NoEntry => \E c \in snapshot : c.id = id

\* After the cancellation Run lets its entries go while goroutines still run.
PlanInv ==
  /\ SnapshotKeyed
  /\ ~ctxDone => EntriesAreHandles /\ EntriesFollowSnapshot

\* A response that never came is believed only by a run during which the
\* internet was reached at some moment.
DarkIsDoubted ==
  \A s \in Tasks :
    /\ task[s].dark => ~uplink
    /\ task[s].pc = "verdict" /\ task[s].reachable => ~task[s].dark
    /\ task[s].pc = "buffer" /\ task[s].raw = "transport" => ~task[s].dark

IInv ==
  /\ TypeOK
  /\ RowsKeyed
  /\ TasksHaveChecks
  /\ PermitsMatchHolders
  /\ PlanInv
  /\ DarkIsDoubted
  /\ NoFalseAlarm

USE InvertedAssumption, ConcurrencyAssumption, RunnerBounds

-----------------------------------------------------------------------------
(* The table.                                                              *)

LEMMA FreshRowId ==
  ASSUME TypeOK, RowsKeyed, changes < MaxChanges
  PROVE  NextId \in 1..(changes + 1) /\ \A g \in Guids : rows[g].id < NextId
<1> DEFINE id == [g \in Guids |-> rows[g].id]
<1>1. id \in [Guids -> Nat] /\ changes \in Nat
  BY DEF TypeOK
<1>2. \A g \in Guids : id[g] <= changes
  BY DEF RowsKeyed
<1>3. {id[g] : g \in Guids} = {rows[g].id : g \in Guids}
  OBVIOUS
<1>4. \A g \in Guids : id[g] = rows[g].id
  OBVIOUS
<1> HIDE DEF id
<1> QED BY <1>1, <1>2, <1>3, <1>4, NextIdIsFresh DEF NextId

LEMMA TableStep ==
  ASSUME TypeOK, RowsKeyed, World
  PROVE  /\ rows' \in [Guids -> [id : 0..MaxChanges, def : Definitions \cup {"disabled", "none"}]]
         /\ changes' \in 0..MaxChanges
         /\ RowsKeyed'
<1> USE DEF TypeOK
<1>1. ASSUME NEW g \in Guids, NEW def \in Definitions \cup {Disabled}, SaveCheck(g, def)
      PROVE  /\ rows' \in [Guids -> [id : 0..MaxChanges, def : Definitions \cup {"disabled", "none"}]]
             /\ changes' \in 0..MaxChanges
             /\ RowsKeyed'
  <2> DEFINE i == IF rows[g] = NoRow THEN NextId ELSE rows[g].id
  <2>1. NextId \in 1..(changes + 1) /\ \A h \in Guids : rows[h].id < NextId
    BY <1>1, FreshRowId DEF SaveCheck
  <2>2. rows' = [rows EXCEPT ![g] = [id |-> i, def |-> def]] /\ changes' = changes + 1
    BY <1>1 DEF SaveCheck
  <2>3. changes + 1 \in 0..MaxChanges
    BY <1>1 DEF SaveCheck
  <2>4. rows[g].id = 0 => rows[g] = NoRow
    BY DEF RowsKeyed, NoRow
  <2>5. i \in 0..(changes + 1) /\ i # 0
    <3>1. rows[g].id \in Nat /\ rows[g].id <= changes /\ changes \in Nat
      BY DEF RowsKeyed
    <3> QED BY <2>1, <2>4, <3>1 DEF NoRow
  <2>6. \A h \in Guids : h # g => rows[h].id # i \/ rows[h].id = 0
    <3>1. CASE rows[g] = NoRow
      BY <2>1, <3>1
    <3>2. CASE rows[g] # NoRow
      BY <2>4, <3>2 DEF RowsKeyed
    <3> QED BY <3>1, <3>2
  <2>7. def # "none" /\ def \in Definitions \cup {"disabled", "none"}
    BY DefinitionsAssumption DEF Disabled
  <2> HIDE DEF i
  <2>8. \A h \in Guids : rows'[h] = IF h = g THEN [id |-> i, def |-> def] ELSE rows[h]
    BY <2>2
  <2>9. \A h \in Guids : rows'[h].id = IF h = g THEN i ELSE rows[h].id
    BY <2>8
  <2>10. \A h \in Guids : rows[h].id \in Nat /\ rows[h].id <= changes /\ changes \in Nat
    BY DEF RowsKeyed
  <2>11. \A h \in Guids : rows'[h].id <= changes'
    BY <2>2, <2>5, <2>9, <2>10
  <2>12. \A h \in Guids : rows'[h].id = 0 <=> rows'[h].def = "none"
    BY <2>5, <2>7, <2>8 DEF RowsKeyed
  <2>13. \A h, k \in Guids : rows'[h].id = rows'[k].id /\ rows'[h].id # 0 => h = k
    BY <2>6, <2>9 DEF RowsKeyed
  <2>14. [id |-> i, def |-> def] \in [id : 0..MaxChanges, def : Definitions \cup {"disabled", "none"}]
    <3>1. i \in 0..MaxChanges
      BY <2>3, <2>5
    <3> QED BY <2>7, <3>1
  <2> QED BY <2>2, <2>3, <2>11, <2>12, <2>13, <2>14 DEF RowsKeyed
<1>2. ASSUME NEW g \in Guids, RemoveCheck(g)
      PROVE  /\ rows' \in [Guids -> [id : 0..MaxChanges, def : Definitions \cup {"disabled", "none"}]]
             /\ changes' \in 0..MaxChanges
             /\ RowsKeyed'
  <2>1. /\ rows' = [rows EXCEPT ![g] = [id |-> 0, def |-> "none"]]
        /\ changes' = changes + 1
        /\ changes + 1 \in 0..MaxChanges
    BY <1>2 DEF RemoveCheck, NoRow
  <2>2. \A h \in Guids : rows'[h] = IF h = g THEN [id |-> 0, def |-> "none"] ELSE rows[h]
    BY <2>1
  <2>3. \A h \in Guids : rows'[h].id = IF h = g THEN 0 ELSE rows[h].id
    BY <2>2
  <2>4. \A h \in Guids : rows[h].id \in Nat /\ rows[h].id <= changes /\ changes \in Nat
    BY DEF RowsKeyed
  <2>5. \A h \in Guids : rows'[h].id <= changes'
    BY <2>1, <2>3, <2>4
  <2>6. \A h \in Guids : rows'[h].id = 0 <=> rows'[h].def = "none"
    BY <2>2 DEF RowsKeyed
  <2>7. \A h, k \in Guids : rows'[h].id = rows'[k].id /\ rows'[h].id # 0 => h = k
    BY <2>3 DEF RowsKeyed
  <2>8. [id |-> 0, def |-> "none"] \in [id : 0..MaxChanges, def : Definitions \cup {"disabled", "none"}]
    OBVIOUS
  <2> QED BY <2>1, <2>5, <2>6, <2>7, <2>8 DEF RowsKeyed
<1>3. CASE UNCHANGED <<rows, changes>>
  BY <1>3 DEF RowsKeyed
<1> QED
  BY <1>1, <1>2, <1>3 DEF World, UplinkLost, UplinkBack, Cancel, worldVars

-----------------------------------------------------------------------------
(* The goroutines, one step at a time: what each step leaves alone.        *)

StartsAs(x, c) == x.check = c /\ ~x.cancelled /\ x.pc \in {"wait", "start"} /\ ~x.dark

LEMMA TaskShapes ==
  /\ Idle \in Task
  /\ Idle.pc = "idle" /\ ~Idle.dark
  /\ \A c \in Check, b \in BOOLEAN : Go("none", c, b) \in Task /\ StartsAs(Go("none", c, b), c)
  /\ \A s, c, b : Go(s, c, b) = Go("none", c, b)
  /\ \A s \in Tasks : task[s] \in Task =>
       /\ Reset(s, "wait") \in Task
       /\ Reset(s, "wait").pc = "wait"
       /\ Reset(s, "wait").check = task[s].check
       /\ Reset(s, "wait").cancelled = task[s].cancelled
       /\ ~Reset(s, "wait").dark
<1>1. Idle \in Task /\ Idle.pc = "idle" /\ ~Idle.dark
  BY DEF Idle, Task, NoCheck
<1>2. \A c \in Check, b \in BOOLEAN :
        Go("none", c, b) \in Task /\ StartsAs(Go("none", c, b), c)
  BY DEF Idle, Task, Go, StartsAs
<1>3. \A s, c, b : Go(s, c, b) = Go("none", c, b)
  BY DEF Go
<1>4. ASSUME NEW s \in Tasks, task[s] \in Task
      PROVE  /\ Reset(s, "wait") \in Task
             /\ Reset(s, "wait").pc = "wait"
             /\ Reset(s, "wait").check = task[s].check
             /\ Reset(s, "wait").cancelled = task[s].cancelled
             /\ ~Reset(s, "wait").dark
  BY <1>4 DEF Idle, Task, Reset
<1> QED BY <1>1, <1>2, <1>3, <1>4

\* What a step of execute, or a timer, can change: only the goroutine's own
\* program counter and its notes on the run.
OnlyOwnRun(s) ==
  /\ task' \in [Tasks -> Task]
  /\ \A t \in Tasks : t # s => task'[t] = task[t]
  /\ task'[s].pc # "idle" /\ task[s].pc # "idle"
  /\ task'[s].check = task[s].check
  /\ task'[s].cancelled = task[s].cancelled
  /\ UNCHANGED <<planVars, recheck, ctxDone, worldVars>>

HoldingPCs == {"run", "probe", "verdict", "buffer", "transition"}

\* The permits and the pc move together.
PermitMoves(s) ==
  \/ sem' = sem /\ (task[s].pc \in HoldingPCs <=> task'[s].pc \in HoldingPCs)
  \/ sem' = sem + 1 /\ sem < MaxConcurrent /\ task[s].pc \notin HoldingPCs /\ task'[s].pc \in HoldingPCs
  \/ sem' = sem - 1 /\ task[s].pc \in HoldingPCs /\ task'[s].pc \notin HoldingPCs

\* What is noted of the run is true of the internet.
NotesAreTrue(s) ==
  /\ task'[s].dark => ~uplink
  /\ task'[s].pc = "verdict" /\ task'[s].reachable => ~task'[s].dark
  /\ task'[s].pc = "buffer" /\ task'[s].raw = "transport" => ~task'[s].dark

LEMMA GoroutineStep ==
  ASSUME TypeOK, DarkIsDoubted, NoFalseAlarm, NEW s \in Tasks, Tick(s) \/ Execute(s)
  PROVE  /\ OnlyOwnRun(s)
         /\ PermitMoves(s)
         /\ NotesAreTrue(s)
         /\ NoFalseAlarm'
         /\ online' \in BOOLEAN /\ falseAlarm' \in BOOLEAN
         /\ lastStatus' \in [Ids -> Status]
<1> USE DEF OnlyOwnRun, PermitMoves, NotesAreTrue, NoFalseAlarm, HoldingPCs
<1>0. /\ task \in [Tasks -> Task] /\ task[s] \in Task
      /\ online \in BOOLEAN /\ falseAlarm \in BOOLEAN /\ uplink \in BOOLEAN
      /\ ctxDone \in BOOLEAN /\ lastStatus \in [Ids -> Status]
  BY DEF TypeOK
<1>r. Reset(s, "wait") \in Task /\ Reset(s, "wait").pc = "wait"
      /\ Reset(s, "wait").check = task[s].check
      /\ Reset(s, "wait").cancelled = task[s].cancelled /\ ~Reset(s, "wait").dark
  BY <1>0, TaskShapes
<1>d. /\ task[s].dark => ~uplink
      /\ task[s].pc = "verdict" /\ task[s].reachable => ~task[s].dark
      /\ task[s].pc = "buffer" /\ task[s].raw = "transport" => ~task[s].dark
  BY DEF DarkIsDoubted
<1>1. CASE Tick(s)
  BY <1>0, <1>d, <1>1 DEF Tick, Task, gateVars
<1>2. CASE CheckGate(s)
  BY <1>0, <1>d, <1>2 DEF CheckGate, Task, gateVars
<1>3. CASE AcquirePermit(s)
  BY <1>0, <1>d, <1>3 DEF AcquirePermit, Task, worldVars, gateVars
<1>4. CASE GiveUp(s)
  BY <1>0, <1>r, <1>4 DEF GiveUp, gateVars
<1>5. ASSUME NEW raw \in {"pass", "fail", "transport"}, CheckerRun(s, raw)
      PROVE  /\ OnlyOwnRun(s) /\ PermitMoves(s) /\ NotesAreTrue(s)
             /\ UNCHANGED <<online, falseAlarm, lastStatus>>
  BY <1>0, <1>d, <1>5 DEF CheckerRun, Task, gateVars
<1>6. CASE Probe(s)
  BY <1>0, <1>d, <1>6 DEF Probe, Task, Cancelled, gateVars
<1>7. CASE Verdict(s)
  <2>1. CASE task[s].reachable
    BY <1>0, <1>d, <1>7, <2>1 DEF Verdict, Task
  <2>2. CASE ~task[s].reachable
    BY <1>0, <1>r, <1>7, <2>2 DEF Verdict, Task
  <2> QED BY <2>1, <2>2
<1>8. CASE BufferResult(s)
  BY <1>0, <1>d, <1>8 DEF BufferResult, Task, gateVars
<1>9. CASE BufferFails(s)
  BY <1>0, <1>r, <1>9 DEF BufferFails, gateVars
<1>10. CASE CheckStatusTransition(s)
  <2>1. AsStatus(Success(task[s].check, task[s].raw)) \in Status
    BY DEF AsStatus, Status
  <2> QED BY <1>0, <1>r, <1>10, <2>1 DEF CheckStatusTransition, gateVars
<1> QED
  BY <1>0, <1>1, <1>2, <1>3, <1>4, <1>5, <1>6, <1>7, <1>8, <1>9, <1>10 DEF Execute

\* What reconcile does to the goroutines: it starts one that had ended, or
\* cancels; where a goroutine is in its run, it leaves alone.
LEMMA ReconcileFrame ==
  ASSUME Reconcile \/ RunReturns
  PROVE  UNCHANGED <<sem, gateVars, ctxDone, worldVars, falseAlarm>>
BY DEF Reconcile, RunReturns, ListEnabledChecks, KeepCheck, RestartCheck, StartCheck,
       Visit, VisitedAll, DropCheck, EndReconcile

LEMMA CancelledTask ==
  \A x \in Task : /\ [x EXCEPT !.cancelled = TRUE] \in Task
                  /\ [x EXCEPT !.dark = FALSE] \in Task
BY DEF Task

\* A check started or restarted in goroutine s.
LEMMA StartedTask ==
  ASSUME TypeOK, pending \subseteq snapshot,
         NEW c \in pending, NEW s \in Tasks, RestartCheck(c, s) \/ StartCheck(c, s)
  PROVE  /\ c \in Check /\ c \in snapshot /\ Free(s)
         /\ pending' = pending \ {c} /\ rec = "start"
         /\ UNCHANGED <<rec, snapshot, lastStatus>>
         /\ task' \in [Tasks -> Task]
         /\ StartsAs(task'[s], c)
         /\ \A t \in Tasks : t # s =>
              task'[t] = IF scheduled[c.id] # NoEntry /\ t = scheduled[c.id].cancel
                         THEN [task[t] EXCEPT !.cancelled = TRUE] ELSE task[t]
         /\ scheduled' = [scheduled EXCEPT ![c.id] = [cancel |-> s, check |-> c]]
         /\ scheduled' \in [Ids -> Entry \cup {NoEntry}]
<1> USE DEF TypeOK
<1>1. c \in Check /\ c.id \in Ids /\ c \in snapshot
  BY DEF Check
<1>2. \A b \in BOOLEAN : Go(s, c, b) \in Task /\ StartsAs(Go(s, c, b), c)
  BY <1>1, TaskShapes
<1>3. [cancel |-> s, check |-> c] \in Entry
  BY <1>1 DEF Entry
<1>4. CASE StartCheck(c, s)
  BY <1>1, <1>2, <1>3, <1>4 DEF StartCheck, Visit
<1>5. CASE RestartCheck(c, s)
  <2>1. scheduled[c.id] \in Entry
    BY <1>1, <1>5 DEF RestartCheck
  <2>2. scheduled[c.id].cancel \in Tasks /\ scheduled[c.id].cancel # s
    BY <1>1, <1>5, <2>1 DEF RestartCheck, Free, Entry
  <2>3. [task[scheduled[c.id].cancel] EXCEPT !.cancelled = TRUE] \in Task
    BY <2>2, CancelledTask
  <2>4. task' = [[task EXCEPT ![scheduled[c.id].cancel] =
                   [task[scheduled[c.id].cancel] EXCEPT !.cancelled = TRUE]]
                 EXCEPT ![s] = Go(s, c, FALSE)]
    BY <1>5, <2>2 DEF RestartCheck
  <2>5. Go(s, c, FALSE) \in Task /\ StartsAs(Go(s, c, FALSE), c)
    BY <1>2
  <2>6. task' \in [Tasks -> Task]
    BY <2>2, <2>3, <2>4, <2>5
  <2>7. task'[s] = Go(s, c, FALSE)
    BY <2>4
  <2>8. \A t \in Tasks : t # s =>
          task'[t] = IF t = scheduled[c.id].cancel
                     THEN [task[t] EXCEPT !.cancelled = TRUE] ELSE task[t]
    BY <2>2, <2>4
  <2> QED BY <1>1, <1>3, <1>5, <2>5, <2>6, <2>7, <2>8 DEF RestartCheck, Visit
<1> QED BY <1>4, <1>5

\* An entry dropped because its check was removed or disabled.
LEMMA DroppedTask ==
  ASSUME TypeOK, NEW id \in Ids, DropCheck(id)
  PROVE  /\ task' \in [Tasks -> Task]
         /\ scheduled[id].cancel \in Tasks
         /\ \A t \in Tasks :
              task'[t] = IF t = scheduled[id].cancel
                         THEN [task[t] EXCEPT !.cancelled = TRUE] ELSE task[t]
         /\ scheduled' = [scheduled EXCEPT ![id] = NoEntry]
         /\ lastStatus' \in [Ids -> Status]
         /\ UNCHANGED <<rec, snapshot, pending>>
<1> USE DEF TypeOK
<1>1. scheduled[id] \in Entry
  BY DEF DropCheck, Unseen
<1>2. scheduled[id].cancel \in Tasks
  BY <1>1 DEF Entry
<1>3. task' = [task EXCEPT ![scheduled[id].cancel] =
                [task[scheduled[id].cancel] EXCEPT !.cancelled = TRUE]]
  BY <1>2 DEF DropCheck
<1>4. task' \in [Tasks -> Task]
  BY <1>2, <1>3, CancelledTask
<1> QED BY <1>2, <1>3, <1>4 DEF DropCheck, Status

-----------------------------------------------------------------------------
(* Permits.                                                                *)

LEMMA HoldersAreFinite == IsFiniteSet(Holding) /\ Cardinality(Holding) \in Nat
BY TasksAssumption, FS_Subset, FS_CardinalityType DEF Holding

LEMMA OnlyHoldersRelease ==
  ASSUME PermitsMatchHolders, NEW s \in Holding
  PROVE  sem \in Nat \ {0}
<1>1. IsFiniteSet(Holding) /\ Cardinality(Holding) \in Nat
  BY HoldersAreFinite
<1>2. Cardinality(Holding) # 0
  BY <1>1, FS_EmptySet
<1> QED BY <1>1, <1>2 DEF PermitsMatchHolders

LEMMA PermitStep ==
  ASSUME TypeOK, PermitsMatchHolders, NEW s \in Tasks, OnlyOwnRun(s), PermitMoves(s)
  PROVE  PermitsMatchHolders' /\ sem' \in 0..MaxConcurrent
<1>0. sem \in 0..MaxConcurrent
  BY DEF TypeOK
<1>1. IsFiniteSet(Holding) /\ Cardinality(Holding) \in Nat /\ sem = Cardinality(Holding)
  BY HoldersAreFinite DEF PermitsMatchHolders
<1>2. /\ Holding = {t \in Tasks : task[t].pc \in HoldingPCs}
      /\ Holding' = {t \in Tasks : task'[t].pc \in HoldingPCs}
      /\ \A t \in Tasks : t # s => task'[t] = task[t]
  BY DEF Holding, HoldingPCs, OnlyOwnRun
<1>3. CASE sem' = sem /\ (task[s].pc \in HoldingPCs <=> task'[s].pc \in HoldingPCs)
  <2>1. Holding' = Holding
    BY <1>2, <1>3
  <2> QED BY <1>0, <1>1, <1>3, <2>1 DEF PermitsMatchHolders
<1>4. CASE sem' = sem + 1 /\ sem < MaxConcurrent
           /\ task[s].pc \notin HoldingPCs /\ task'[s].pc \in HoldingPCs
  <2>1. Holding' = Holding \cup {s} /\ s \notin Holding
    BY <1>2, <1>4
  <2>2. Cardinality(Holding') = Cardinality(Holding) + 1
    BY <1>1, <2>1, FS_AddElement
  <2>3. sem' = sem + 1 /\ sem < MaxConcurrent
    BY <1>4
  <2>4. sem' \in 0..MaxConcurrent
    BY <1>0, <2>3
  <2> QED BY <1>1, <2>2, <2>3, <2>4 DEF PermitsMatchHolders
<1>5. CASE sem' = sem - 1 /\ task[s].pc \in HoldingPCs /\ task'[s].pc \notin HoldingPCs
  <2>1. Holding' = Holding \ {s} /\ s \in Holding
    BY <1>2, <1>5
  <2>2. Cardinality(Holding') = Cardinality(Holding) - 1
    BY <1>1, <2>1, FS_RemoveElement
  <2>3. sem \in Nat \ {0} /\ sem' = sem - 1
    BY <1>5, <2>1, OnlyHoldersRelease
  <2>4. sem' \in 0..MaxConcurrent
    BY <1>0, <2>3
  <2> QED BY <1>1, <2>2, <2>3, <2>4 DEF PermitsMatchHolders
<1> QED BY <1>3, <1>4, <1>5 DEF PermitMoves

\* A step that starts, cancels or ends goroutines moves no permit.
LEMMA PermitsKept ==
  ASSUME PermitsMatchHolders, sem' = sem,
         \A t \in Tasks : task[t].pc \in HoldingPCs <=> task'[t].pc \in HoldingPCs
  PROVE  PermitsMatchHolders'
<1>1. Holding' = Holding
  BY DEF Holding, HoldingPCs
<1> QED BY <1>1 DEF PermitsMatchHolders

-----------------------------------------------------------------------------
(* Types.                                                                  *)

LEMMA TypeStep ==
  ASSUME TypeOK, RowsKeyed, pending \subseteq snapshot, PermitsMatchHolders,
         DarkIsDoubted, NoFalseAlarm, [Next]_vars
  PROVE  TypeOK'
<1> USE DEF TypeOK
<1>1. CASE World
  <2>1. /\ rows' \in [Guids -> [id : 0..MaxChanges, def : Definitions \cup {"disabled", "none"}]]
        /\ changes' \in 0..MaxChanges
    BY <1>1, TableStep
  <2>2. UNCHANGED <<planVars, sem, lastStatus, gateVars, falseAlarm>>
    BY <1>1 DEF World, SaveCheck, RemoveCheck, UplinkLost, UplinkBack, Cancel
  <2>3. task' \in [Tasks -> Task]
    <3>1. UplinkBack => task' = [s \in Tasks |-> [task[s] EXCEPT !.dark = FALSE]]
      BY DEF UplinkBack
    <3>2. \A s \in Tasks : [task[s] EXCEPT !.dark = FALSE] \in Task
      BY CancelledTask
    <3> QED BY <1>1, <3>1, <3>2 DEF World, SaveCheck, RemoveCheck, UplinkLost, UplinkBack, Cancel
  <2>4. ctxDone' \in BOOLEAN /\ uplink' \in BOOLEAN
    BY <1>1 DEF World, SaveCheck, RemoveCheck, UplinkLost, UplinkBack, Cancel, worldVars
  <2>5. outages' \in 0..MaxOutages
    BY <1>1 DEF World, SaveCheck, RemoveCheck, UplinkLost, UplinkBack, Cancel, worldVars
  <2> QED BY <2>1, <2>2, <2>3, <2>4, <2>5 DEF planVars, gateVars
<1>2. CASE Reconcile
  <2>0. UNCHANGED <<sem, gateVars, ctxDone, worldVars, falseAlarm>>
    BY <1>2, ReconcileFrame
  <2> USE DEF gateVars, worldVars
  <2>1. CASE ListEnabledChecks
    <3>1. snapshot' \in SUBSET Check
      <4>1. ASSUME NEW g \in Enabled
            PROVE  [id |-> rows[g].id, guid |-> g, def |-> rows[g].def] \in Check
        <5>1. g \in Guids /\ rows[g].def \in Definitions /\ rows[g].def # "none"
          BY DefinitionsAssumption DEF Enabled
        <5>2. rows[g].id \in 0..MaxChanges /\ rows[g].id # 0
          BY <5>1 DEF RowsKeyed
        <5>3. rows[g].id \in Ids
          BY <5>2 DEF Ids
        <5> QED BY <5>1, <5>3 DEF Check
      <4> QED BY <2>1, <4>1 DEF ListEnabledChecks
    <3> QED BY <2>0, <2>1, <3>1 DEF ListEnabledChecks
  <2>2. ASSUME NEW c \in pending, KeepCheck(c) PROVE TypeOK'
    BY <2>0, <2>2 DEF KeepCheck, Visit
  <2>3. ASSUME NEW c \in pending, NEW s \in Tasks, RestartCheck(c, s) \/ StartCheck(c, s)
        PROVE  TypeOK'
    BY <2>0, <2>3, StartedTask
  <2>4. CASE VisitedAll \/ EndReconcile
    BY <2>0, <2>4 DEF VisitedAll, EndReconcile
  <2>5. ASSUME NEW id \in Ids, DropCheck(id) PROVE TypeOK'
    BY <2>0, <2>5, DroppedTask
  <2> QED BY <1>2, <2>1, <2>2, <2>3, <2>4, <2>5 DEF Reconcile
<1>3. CASE RunReturns
  <2>1. \A s \in Tasks : task[s] \in Task /\ [task[s] EXCEPT !.cancelled = TRUE] \in Task
    BY CancelledTask
  <2>2. task' \in [Tasks -> Task]
    BY <1>3, <2>1 DEF RunReturns
  <2>3. scheduled' \in [Ids -> Entry \cup {NoEntry}] /\ rec' = "returned"
    BY <1>3 DEF RunReturns
  <2> QED BY <1>3, <2>2, <2>3, ReconcileFrame DEF RunReturns, gateVars, worldVars
<1>4. ASSUME NEW s \in Tasks, Tick(s) \/ Execute(s) PROVE TypeOK'
  <2>1. OnlyOwnRun(s) /\ PermitMoves(s) /\ online' \in BOOLEAN /\ falseAlarm' \in BOOLEAN
        /\ lastStatus' \in [Ids -> Status]
    BY <1>4, GoroutineStep
  <2>2. sem' \in 0..MaxConcurrent
    BY <2>1, PermitStep
  <2> QED BY <2>1, <2>2 DEF OnlyOwnRun, planVars, worldVars
<1>5. ASSUME NEW s \in Tasks, LoopEnds(s) PROVE TypeOK'
  BY <1>5, TaskShapes DEF LoopEnds, planVars, gateVars, worldVars
<1>6. CASE Gate
  BY <1>6 DEF Gate, RecheckProbe, RecheckVerdict, planVars, worldVars
<1>7. CASE UNCHANGED vars
  BY <1>7 DEF vars, planVars, gateVars, worldVars
<1> QED
  BY <1>1, <1>2, <1>3, <1>4, <1>5, <1>6, <1>7 DEF Next, Goroutine

-----------------------------------------------------------------------------
(* Each step keeps the conjuncts about runs: permits, notes, false alarms. *)

RunInv == TasksHaveChecks /\ PermitsMatchHolders /\ DarkIsDoubted /\ NoFalseAlarm

\* A step that only cancels goroutines, or clears dark.
LEMMA SameRuns ==
  ASSUME RunInv, UNCHANGED <<sem, falseAlarm>>, uplink' => uplink \/ \A s \in Tasks : ~task'[s].dark,
         \A s \in Tasks : /\ task'[s].pc = task[s].pc
                          /\ task'[s].check = task[s].check
                          /\ task'[s].raw = task[s].raw
                          /\ task'[s].reachable = task[s].reachable
                          /\ task'[s].dark => task[s].dark
  PROVE  RunInv'
<1>1. PermitsMatchHolders'
  BY PermitsKept DEF RunInv
<1> QED BY <1>1 DEF RunInv, TasksHaveChecks, DarkIsDoubted, NoFalseAlarm

SameRun(x, y) ==
  y.pc = x.pc /\ y.check = x.check /\ y.raw = x.raw /\ y.reachable = x.reachable

LEMMA CancelledKeepsRun ==
  ASSUME NEW x \in Task, NEW y, y = x \/ y = [x EXCEPT !.cancelled = TRUE]
  PROVE  SameRun(x, y) /\ y.dark = x.dark
BY DEF Task, SameRun

LEMMA BrightKeepsRun ==
  ASSUME NEW x \in Task, NEW y, y = [x EXCEPT !.dark = FALSE]
  PROVE  SameRun(x, y) /\ ~y.dark /\ y.cancelled = x.cancelled
BY DEF Task, SameRun

LEMMA RunStep ==
  ASSUME TypeOK, RunInv, pending \subseteq snapshot, [Next]_vars
  PROVE  RunInv'
<1>0. task \in [Tasks -> Task]
  BY DEF TypeOK
<1>1. CASE World
  <2>1. UNCHANGED <<sem, falseAlarm>>
    BY <1>1 DEF World, SaveCheck, RemoveCheck, UplinkLost, UplinkBack, Cancel
  <2>2. CASE UplinkBack
    <3>1. \A s \in Tasks : task'[s] = [task[s] EXCEPT !.dark = FALSE]
      BY <2>2 DEF UplinkBack
    <3>2. \A s \in Tasks : SameRun(task[s], task'[s]) /\ ~task'[s].dark
      BY <1>0, <3>1, BrightKeepsRun
    <3> QED BY <2>1, <3>2, SameRuns DEF SameRun
  <2>3. CASE ~UplinkBack
    <3>1. task' = task /\ (uplink' => uplink)
      BY <1>1, <2>3 DEF World, SaveCheck, RemoveCheck, UplinkLost, Cancel, worldVars
    <3> QED BY <2>1, <3>1, SameRuns
  <2> QED BY <2>2, <2>3
<1>2. CASE Reconcile \/ RunReturns
  <2>0. UNCHANGED <<sem, falseAlarm, uplink>>
    BY <1>2, ReconcileFrame DEF worldVars
  <2>1. CASE UNCHANGED task
    BY <2>0, <2>1, SameRuns
  <2>2. ASSUME NEW c \in pending, NEW s \in Tasks, RestartCheck(c, s) \/ StartCheck(c, s)
        PROVE  RunInv'
    <3>1. /\ c \in Check /\ StartsAs(task'[s], c) /\ Free(s)
          /\ \A t \in Tasks : t # s =>
               task'[t] = task[t] \/ task'[t] = [task[t] EXCEPT !.cancelled = TRUE]
      BY <2>2, StartedTask
    <3>2. \A t \in Tasks : t # s => /\ task'[t].pc = task[t].pc
                                    /\ task'[t].check = task[t].check
                                    /\ task'[t].raw = task[t].raw
                                    /\ task'[t].reachable = task[t].reachable
                                    /\ task'[t].dark = task[t].dark
      BY <1>0, <3>1, CancelledKeepsRun DEF SameRun
    <3>3. task[s].pc = "idle" /\ task'[s].pc \in {"wait", "start"}
          /\ ~task'[s].dark /\ task'[s].check = c
      BY <3>1 DEF Free, StartsAs
    <3>4. PermitsMatchHolders'
      BY <2>0, <3>2, <3>3, PermitsKept DEF RunInv, HoldingPCs
    <3>5. TasksHaveChecks'
      BY <3>1, <3>2, <3>3 DEF RunInv, TasksHaveChecks
    <3>6. DarkIsDoubted' /\ NoFalseAlarm'
      BY <2>0, <3>2, <3>3 DEF RunInv, DarkIsDoubted, NoFalseAlarm
    <3> QED BY <3>4, <3>5, <3>6 DEF RunInv
  <2>3. ASSUME NEW id \in Ids, DropCheck(id) PROVE RunInv'
    <3>1. \A t \in Tasks : task'[t] = task[t] \/ task'[t] = [task[t] EXCEPT !.cancelled = TRUE]
      BY <2>3, DroppedTask
    <3>2. \A s \in Tasks : SameRun(task[s], task'[s]) /\ task'[s].dark = task[s].dark
      BY <1>0, <3>1, CancelledKeepsRun
    <3> QED BY <2>0, <3>2, SameRuns DEF SameRun
  <2>4. CASE RunReturns
    <3>1. \A t \in Tasks : task'[t] = task[t] \/ task'[t] = [task[t] EXCEPT !.cancelled = TRUE]
      BY <2>4 DEF RunReturns
    <3>2. \A s \in Tasks : SameRun(task[s], task'[s]) /\ task'[s].dark = task[s].dark
      BY <1>0, <3>1, CancelledKeepsRun
    <3> QED BY <2>0, <3>2, SameRuns DEF SameRun
  <2> QED
    BY <1>2, <2>1, <2>2, <2>3, <2>4
       DEF Reconcile, ListEnabledChecks, KeepCheck, VisitedAll, EndReconcile
<1>3. ASSUME NEW s \in Tasks, Tick(s) \/ Execute(s) PROVE RunInv'
  <2>1. OnlyOwnRun(s) /\ PermitMoves(s) /\ NotesAreTrue(s) /\ NoFalseAlarm'
    BY <1>3, GoroutineStep DEF RunInv
  <2>2. PermitsMatchHolders'
    BY <2>1, PermitStep DEF RunInv
  <2>3. TasksHaveChecks'
    BY <2>1 DEF RunInv, TasksHaveChecks, OnlyOwnRun
  <2>4. DarkIsDoubted'
    BY <2>1 DEF RunInv, DarkIsDoubted, OnlyOwnRun, NotesAreTrue, worldVars
  <2> QED BY <2>1, <2>2, <2>3, <2>4 DEF RunInv
<1>4. ASSUME NEW s \in Tasks, LoopEnds(s) PROVE RunInv'
  <2>1. /\ task[s].pc = "wait" /\ task'[s].pc = "idle" /\ ~task'[s].dark
        /\ \A t \in Tasks : t # s => task'[t] = task[t]
        /\ UNCHANGED <<sem, falseAlarm, uplink>>
    BY <1>0, <1>4, TaskShapes DEF LoopEnds, worldVars
  <2>2. PermitsMatchHolders'
    BY <2>1, PermitsKept DEF RunInv, HoldingPCs
  <2> QED BY <2>1, <2>2 DEF RunInv, TasksHaveChecks, DarkIsDoubted, NoFalseAlarm
<1>5. CASE Gate \/ UNCHANGED vars
  BY <1>5, SameRuns DEF Gate, RecheckProbe, RecheckVerdict, vars, worldVars
<1> QED
  BY <1>1, <1>2, <1>3, <1>4, <1>5 DEF Next, Goroutine

-----------------------------------------------------------------------------
(* Each step keeps the conjuncts about the plan.                           *)

\* A step of a goroutine that is not the end of it, or of the world.
LEMMA SameHandles ==
  ASSUME EntriesAreHandles, TypeOK, UNCHANGED <<scheduled>>,
         \A s \in Tasks : /\ task'[s].pc # "idle" <=> task[s].pc # "idle"
                          /\ task'[s].check = task[s].check
                          /\ task'[s].cancelled = task[s].cancelled
  PROVE  EntriesAreHandles'
<1>1. \A id \in Ids : scheduled[id] # NoEntry => scheduled[id].cancel \in Tasks
  BY DEF TypeOK, Entry
<1>2. Live' = Live
  BY DEF Live
<1> QED BY <1>1, <1>2 DEF EntriesAreHandles, Live

LEMMA SamePlan ==
  ASSUME PlanInv, TypeOK, UNCHANGED planVars, ctxDone => ctxDone',
         \A s \in Tasks : /\ task'[s].pc # "idle" <=> task[s].pc # "idle"
                          /\ task'[s].check = task[s].check
                          /\ task'[s].cancelled = task[s].cancelled
  PROVE  PlanInv'
<1>1. SnapshotKeyed'
  BY DEF PlanInv, SnapshotKeyed, planVars
<1>2. ASSUME ~ctxDone' PROVE EntriesAreHandles' /\ EntriesFollowSnapshot'
  <2>1. EntriesAreHandles'
    BY <1>2, SameHandles DEF PlanInv, planVars
  <2>2. EntriesFollowSnapshot'
    BY <1>2 DEF PlanInv, planVars, EntriesFollowSnapshot
  <2> QED BY <2>1, <2>2
<1> QED BY <1>1, <1>2 DEF PlanInv

LEMMA ListStep ==
  ASSUME TypeOK, RowsKeyed, PlanInv, ListEnabledChecks
  PROVE  PlanInv'
<1>1. /\ snapshot' = {[id |-> rows[g].id, guid |-> g, def |-> rows[g].def] : g \in Enabled}
      /\ pending' = snapshot' /\ rec' = "start"
      /\ UNCHANGED <<scheduled, task, ctxDone>>
  BY DEF ListEnabledChecks
<1>2. \A c, d \in snapshot' : c.id = d.id => c = d
  <2> TAKE c, d \in snapshot'
  <2>1. PICK g \in Enabled : c = [id |-> rows[g].id, guid |-> g, def |-> rows[g].def]
    BY <1>1
  <2>2. PICK h \in Enabled : d = [id |-> rows[h].id, guid |-> h, def |-> rows[h].def]
    BY <1>1
  <2>3. rows[g].id # 0 /\ g \in Guids /\ h \in Guids
    BY DefinitionsAssumption DEF RowsKeyed, Enabled
  <2>4. ASSUME c.id = d.id PROVE g = h
    BY <2>1, <2>2, <2>3, <2>4 DEF RowsKeyed
  <2> QED BY <2>1, <2>2, <2>4
<1>3. SnapshotKeyed'
  BY <1>1, <1>2 DEF SnapshotKeyed
<1>4. ~ctxDone' => EntriesAreHandles'
  BY <1>1, SameHandles DEF PlanInv
<1>5. EntriesFollowSnapshot'
  BY <1>1 DEF EntriesFollowSnapshot
<1> QED BY <1>3, <1>4, <1>5 DEF PlanInv

LEMMA StartStep ==
  ASSUME TypeOK, PlanInv, TasksHaveChecks, NEW c \in pending, NEW s \in Tasks,
         RestartCheck(c, s) \/ StartCheck(c, s)
  PROVE  PlanInv'
<1>1. /\ c \in Check /\ c \in snapshot /\ Free(s) /\ rec = "start"
      /\ pending' = pending \ {c} /\ UNCHANGED <<rec, snapshot>>
      /\ StartsAs(task'[s], c)
      /\ \A t \in Tasks : t # s =>
           task'[t] = IF scheduled[c.id] # NoEntry /\ t = scheduled[c.id].cancel
                      THEN [task[t] EXCEPT !.cancelled = TRUE] ELSE task[t]
      /\ scheduled' = [scheduled EXCEPT ![c.id] = [cancel |-> s, check |-> c]]
      /\ UNCHANGED ctxDone
  BY StartedTask, ReconcileFrame DEF PlanInv, SnapshotKeyed, Reconcile
<1>2. SnapshotKeyed'
  BY <1>1 DEF PlanInv, SnapshotKeyed
<1>3. SUFFICES ASSUME ~ctxDone PROVE EntriesAreHandles' /\ EntriesFollowSnapshot'
  BY <1>1, <1>2 DEF PlanInv
<1>4. EntriesAreHandles /\ EntriesFollowSnapshot /\ SnapshotKeyed
  BY <1>3 DEF PlanInv
<1>5. /\ scheduled \in [Ids -> Entry \cup {NoEntry}]
      /\ task \in [Tasks -> Task]
      /\ c.id \in Ids /\ [cancel |-> s, check |-> c] # NoEntry
  <2>1. c # NoCheck
    BY <1>1 DEF Check, NoCheck, Ids
  <2>2. [cancel |-> s, check |-> c].check = c /\ NoEntry.check = NoCheck
    BY DEF NoEntry
  <2>3. [cancel |-> s, check |-> c] # NoEntry
    BY <2>1, <2>2
  <2> QED BY <1>1, <2>3 DEF TypeOK, Check
<1>6. \A id \in Ids : scheduled'[id] = IF id = c.id THEN [cancel |-> s, check |-> c] ELSE scheduled[id]
  BY <1>1, <1>5
\* The other entries' goroutines are neither s nor the one cancelled.
<1>7. ASSUME NEW id \in Ids, id # c.id, scheduled[id] # NoEntry
      PROVE  task'[scheduled[id].cancel] = task[scheduled[id].cancel]
             /\ scheduled[id].cancel # s
  <2>1. scheduled[id].cancel \in Tasks
    BY <1>5, <1>7 DEF Entry
  <2>2. scheduled[id].cancel # s
    BY <1>1 DEF Free
  <2>3. task[scheduled[id].cancel].check.id = id
    BY <1>4, <1>7 DEF EntriesAreHandles
  <2>4. scheduled[c.id] # NoEntry => task[scheduled[c.id].cancel].check.id = c.id
    BY <1>4, <1>5 DEF EntriesAreHandles
  <2>5. ~(scheduled[c.id] # NoEntry /\ scheduled[id].cancel = scheduled[c.id].cancel)
    BY <1>7, <2>3, <2>4
  <2> QED BY <1>1, <2>1, <2>2, <2>5
<1>8. EntriesAreHandles'
  <2>1. ASSUME NEW id \in Ids, scheduled'[id] # NoEntry
        PROVE  /\ scheduled'[id].check.id = id
               /\ task'[scheduled'[id].cancel].pc # "idle"
               /\ ~task'[scheduled'[id].cancel].cancelled
               /\ task'[scheduled'[id].cancel].check = scheduled'[id].check
    <3>1. CASE id = c.id
      BY <1>1, <1>6, <3>1 DEF StartsAs
    <3>2. CASE id # c.id
      BY <1>4, <1>6, <1>7, <2>1, <3>2 DEF EntriesAreHandles
    <3> QED BY <3>1, <3>2
  <2>2. ASSUME NEW t \in Live'
        PROVE  /\ scheduled'[task'[t].check.id] # NoEntry
               /\ scheduled'[task'[t].check.id].cancel = t
    <3>0. t \in Tasks /\ task'[t].pc # "idle" /\ ~task'[t].cancelled
      BY <2>2 DEF Live
    <3>1. CASE t = s
      BY <1>1, <1>5, <1>6, <3>1 DEF StartsAs
    <3>2. CASE t # s
      <4>1. ASSUME scheduled[c.id] # NoEntry, t = scheduled[c.id].cancel PROVE FALSE
        <5>1. task'[t] = [task[t] EXCEPT !.cancelled = TRUE]
          BY <1>1, <3>0, <3>2, <4>1
        <5>2. task'[t].cancelled
          BY <1>5, <3>0, <5>1 DEF Task
        <5> QED BY <3>0, <5>2
      <4>2. task'[t] = task[t] /\ t \in Live
        BY <1>1, <3>0, <3>2, <4>1 DEF Live
      <4>3. scheduled[task[t].check.id] # NoEntry /\ scheduled[task[t].check.id].cancel = t
        BY <1>4, <4>2 DEF EntriesAreHandles
      <4>4. task[t].check.id # c.id
        BY <4>1, <4>3
      <4>5. task[t].check.id \in Ids
        BY <3>0, <4>2 DEF TasksHaveChecks, Check
      <4> QED BY <1>6, <4>2, <4>3, <4>4, <4>5
    <3> QED BY <3>1, <3>2
  <2> QED BY <2>1, <2>2 DEF EntriesAreHandles
<1>9. EntriesFollowSnapshot'
  <2>1. ASSUME NEW d \in snapshot, d \notin pending \ {c}
        PROVE  scheduled'[d.id] # NoEntry /\ scheduled'[d.id].check = d
    <3>1. CASE d = c
      BY <1>5, <1>6, <3>1
    <3>2. CASE d # c
      <4>1. d.id # c.id /\ d.id \in Ids
        BY <1>1, <1>4, <3>2 DEF SnapshotKeyed, TypeOK, Check
      <4> QED BY <1>4, <1>6, <2>1, <3>2, <4>1 DEF EntriesFollowSnapshot
    <3> QED BY <3>1, <3>2
  <2> QED BY <1>1, <2>1 DEF EntriesFollowSnapshot
<1> QED BY <1>8, <1>9

LEMMA DropStep ==
  ASSUME TypeOK, PlanInv, TasksHaveChecks, NEW id \in Ids, DropCheck(id)
  PROVE  PlanInv'
<1>1. /\ scheduled[id].cancel \in Tasks
      /\ \A t \in Tasks :
           task'[t] = IF t = scheduled[id].cancel
                      THEN [task[t] EXCEPT !.cancelled = TRUE] ELSE task[t]
      /\ scheduled' = [scheduled EXCEPT ![id] = NoEntry]
      /\ UNCHANGED <<rec, snapshot, pending>>
  BY DroppedTask
<1>2. rec = "drop" /\ id \in Unseen /\ UNCHANGED ctxDone
  BY DEF DropCheck
<1>3. SnapshotKeyed'
  BY <1>1 DEF PlanInv, SnapshotKeyed
<1>4. SUFFICES ASSUME ~ctxDone PROVE EntriesAreHandles' /\ EntriesFollowSnapshot'
  BY <1>2, <1>3 DEF PlanInv
<1>5. EntriesAreHandles /\ EntriesFollowSnapshot
  BY <1>4 DEF PlanInv
<1>6. /\ scheduled \in [Ids -> Entry \cup {NoEntry}]
      /\ task \in [Tasks -> Task]
  BY DEF TypeOK
<1>7. \A k \in Ids : scheduled'[k] = IF k = id THEN NoEntry ELSE scheduled[k]
  BY <1>1, <1>6
<1>8. ASSUME NEW k \in Ids, scheduled'[k] # NoEntry
      PROVE  k # id /\ task'[scheduled[k].cancel] = task[scheduled[k].cancel]
  <2>1. k # id /\ scheduled[k] # NoEntry /\ scheduled[id] # NoEntry
    BY <1>2, <1>7, <1>8 DEF Unseen
  <2>2. scheduled[k].cancel \in Tasks
    BY <1>6, <2>1 DEF Entry
  <2>3. scheduled[k].cancel # scheduled[id].cancel
    BY <1>5, <2>1 DEF EntriesAreHandles
  <2> QED BY <1>1, <2>1, <2>2, <2>3
<1>9. EntriesAreHandles'
  <2>1. ASSUME NEW t \in Live'
        PROVE  /\ scheduled'[task'[t].check.id] # NoEntry
               /\ scheduled'[task'[t].check.id].cancel = t
    <3>0. t \in Tasks /\ task'[t].pc # "idle" /\ ~task'[t].cancelled
      BY <2>1 DEF Live
    <3>1. t # scheduled[id].cancel
      <4>1. ASSUME t = scheduled[id].cancel PROVE FALSE
        <5>1. task'[t] = [task[t] EXCEPT !.cancelled = TRUE]
          BY <1>1, <3>0, <4>1
        <5>2. task'[t].cancelled
          BY <1>6, <3>0, <5>1 DEF Task
        <5> QED BY <3>0, <5>2
      <4> QED BY <4>1
    <3>2. task'[t] = task[t] /\ t \in Live
      BY <1>1, <3>0, <3>1 DEF Live
    <3>3. scheduled[task[t].check.id] # NoEntry /\ scheduled[task[t].check.id].cancel = t
      BY <1>5, <3>2 DEF EntriesAreHandles
    <3>4. task[t].check.id # id /\ task[t].check.id \in Ids
      BY <3>0, <3>1, <3>2, <3>3 DEF TasksHaveChecks, Check
    <3> QED BY <1>7, <3>2, <3>3, <3>4
  <2> QED BY <1>5, <1>7, <1>8, <2>1 DEF EntriesAreHandles
<1>10. EntriesFollowSnapshot'
  <2>1. \A c \in snapshot : c.id # id /\ c.id \in Ids
    BY <1>2 DEF Unseen, TypeOK, Check
  <2> QED BY <1>1, <1>2, <1>5, <1>7, <2>1 DEF EntriesFollowSnapshot
<1> QED BY <1>9, <1>10

LEMMA PlanStep ==
  ASSUME TypeOK, RowsKeyed, RunInv, PlanInv, [Next]_vars
  PROVE  PlanInv'
<1>0. task \in [Tasks -> Task] /\ TasksHaveChecks /\ pending \subseteq snapshot
  BY DEF TypeOK, RunInv, PlanInv, SnapshotKeyed
<1>1. CASE World
  <2>1. UNCHANGED planVars /\ (ctxDone => ctxDone')
    BY <1>1 DEF World, SaveCheck, RemoveCheck, UplinkLost, UplinkBack, Cancel
  <2>2. CASE UplinkBack
    <3>1. \A s \in Tasks : task'[s] = [task[s] EXCEPT !.dark = FALSE]
      BY <2>2 DEF UplinkBack
    <3>2. \A s \in Tasks : SameRun(task[s], task'[s]) /\ task'[s].cancelled = task[s].cancelled
      BY <1>0, <3>1, BrightKeepsRun
    <3> QED BY <2>1, <3>2, SamePlan DEF SameRun
  <2>3. CASE ~UplinkBack
    <3>1. task' = task
      BY <1>1, <2>3 DEF World, SaveCheck, RemoveCheck, UplinkLost, Cancel
    <3> QED BY <2>1, <3>1, SamePlan
  <2> QED BY <2>2, <2>3
<1>2. CASE ListEnabledChecks
  BY <1>2, ListStep
<1>3. ASSUME NEW c \in pending, KeepCheck(c) PROVE PlanInv'
  <2>1. /\ rec = "start" /\ UNCHANGED <<rec, snapshot, scheduled, task, ctxDone>>
        /\ pending' = pending \ {c} /\ scheduled[c.id] # NoEntry
        /\ scheduled[c.id].check = c
    BY <1>3 DEF KeepCheck, Visit, SameDefinition
  <2>2. SnapshotKeyed'
    BY <2>1 DEF PlanInv, SnapshotKeyed
  <2>3. ~ctxDone => EntriesAreHandles'
    BY <2>1, SameHandles DEF PlanInv
  <2>4. ~ctxDone => EntriesFollowSnapshot'
    BY <2>1 DEF PlanInv, EntriesFollowSnapshot
  <2> QED BY <2>1, <2>2, <2>3, <2>4 DEF PlanInv
<1>4. ASSUME NEW c \in pending, NEW s \in Tasks, RestartCheck(c, s) \/ StartCheck(c, s)
      PROVE  PlanInv'
  BY <1>0, <1>4, StartStep
<1>5. CASE VisitedAll \/ EndReconcile
  <2>1. /\ UNCHANGED <<snapshot, pending, scheduled, task, ctxDone>>
        /\ pending = {} /\ rec' \in {"drop", "ticker"}
        /\ rec' = "ticker" => Unseen = {}
    BY <1>5 DEF VisitedAll, EndReconcile, PlanInv, SnapshotKeyed
  <2>2. SnapshotKeyed'
    BY <2>1 DEF PlanInv, SnapshotKeyed
  <2>3. ~ctxDone => EntriesAreHandles'
    BY <2>1, SameHandles DEF PlanInv
  <2>4. ~ctxDone => EntriesFollowSnapshot'
    BY <2>1 DEF PlanInv, EntriesFollowSnapshot, Unseen
  <2> QED BY <2>1, <2>2, <2>3, <2>4 DEF PlanInv
<1>6. ASSUME NEW id \in Ids, DropCheck(id) PROVE PlanInv'
  BY <1>0, <1>6, DropStep
<1>7. CASE RunReturns
  BY <1>7 DEF RunReturns, PlanInv, SnapshotKeyed
<1>8. ASSUME NEW s \in Tasks, Tick(s) \/ Execute(s) PROVE PlanInv'
  <2>1. OnlyOwnRun(s)
    BY <1>8, GoroutineStep DEF RunInv
  <2> QED BY <2>1, SamePlan DEF OnlyOwnRun
<1>9. ASSUME NEW s \in Tasks, LoopEnds(s) PROVE PlanInv'
  <2>1. /\ task[s].cancelled \/ ctxDone
        /\ task'[s].pc = "idle"
        /\ \A t \in Tasks : t # s => task'[t] = task[t]
        /\ UNCHANGED <<planVars, ctxDone>>
    BY <1>0, <1>9, TaskShapes DEF LoopEnds, Cancelled
  <2>2. SnapshotKeyed'
    BY <2>1 DEF PlanInv, SnapshotKeyed, planVars
  <2>3. ASSUME ~ctxDone PROVE EntriesAreHandles' /\ EntriesFollowSnapshot'
    <3>1. \A id \in Ids : scheduled[id] # NoEntry =>
            scheduled[id].cancel \in Tasks /\ scheduled[id].cancel # s
      BY <2>1, <2>3 DEF PlanInv, EntriesAreHandles, TypeOK, Entry
    <3>2. \A t \in Live' : t \in Live /\ t # s
      BY <2>1 DEF Live
    <3>3. EntriesAreHandles'
      BY <2>1, <2>3, <3>1, <3>2 DEF PlanInv, EntriesAreHandles, planVars, Live
    <3> QED BY <2>1, <2>3, <3>3 DEF PlanInv, EntriesFollowSnapshot, planVars
  <2> QED BY <2>1, <2>2, <2>3 DEF PlanInv
<1>10. CASE Gate \/ UNCHANGED vars
  BY <1>10, SamePlan DEF Gate, RecheckProbe, RecheckVerdict, vars
<1> QED
  BY <1>1, <1>2, <1>3, <1>4, <1>5, <1>6, <1>7, <1>8, <1>9, <1>10
     DEF Next, Reconcile, Goroutine

-----------------------------------------------------------------------------
LEMMA InductiveStep == IInv /\ [Next]_vars => IInv'
<1> SUFFICES ASSUME IInv, [Next]_vars PROVE IInv'
  OBVIOUS
<1>0. TypeOK /\ RowsKeyed /\ RunInv /\ PlanInv /\ pending \subseteq snapshot
  BY DEF IInv, RunInv, PlanInv, SnapshotKeyed
<1>1. TypeOK'
  BY <1>0, TypeStep DEF RunInv
<1>2. RowsKeyed'
  <2>1. CASE World
    BY <1>0, <2>1, TableStep
  <2>2. CASE UNCHANGED worldVars
    BY <1>0, <2>2 DEF RowsKeyed, worldVars
  <2>3. World \/ UNCHANGED worldVars
    <3>1. ASSUME NEW s \in Tasks, Tick(s) \/ Execute(s) PROVE UNCHANGED worldVars
      BY <1>0, <3>1, GoroutineStep DEF RunInv, OnlyOwnRun
    <3>2. ASSUME NEW s \in Tasks, LoopEnds(s) PROVE UNCHANGED worldVars
      BY <3>2 DEF LoopEnds
    <3> QED
      BY <3>1, <3>2, ReconcileFrame
         DEF Next, Goroutine, Gate, RecheckProbe, RecheckVerdict, vars, worldVars
  <2> QED BY <2>1, <2>2, <2>3
<1>3. RunInv'
  BY <1>0, RunStep
<1>4. PlanInv'
  BY <1>0, PlanStep
<1> QED BY <1>1, <1>2, <1>3, <1>4 DEF IInv, RunInv

LEMMA InitialState == Init => IInv
<1> SUFFICES ASSUME Init PROVE IInv
  OBVIOUS
<1>1. TypeOK
  <2>1. task \in [Tasks -> Task] /\ scheduled \in [Ids -> Entry \cup {NoEntry}]
    BY TaskShapes DEF Init
  <2>2. rows \in [Guids -> [id : 0..MaxChanges, def : Definitions \cup {"disabled", "none"}]]
    BY DEF Init, NoRow
  <2>3. sem \in 0..MaxConcurrent /\ changes \in 0..MaxChanges /\ outages \in 0..MaxOutages
    <3>1. sem = 0 /\ changes = 0 /\ outages = 0
      BY DEF Init
    <3> QED BY <3>1
  <2>4. lastStatus \in [Ids -> Status]
    BY DEF Init, Status
  <2> QED BY <2>1, <2>2, <2>3, <2>4 DEF Init, TypeOK
<1>2. RowsKeyed
  BY DEF Init, RowsKeyed, NoRow
<1>3. Holding = {}
  BY TaskShapes DEF Init, Holding
<1>4. PermitsMatchHolders
  BY <1>3, FS_EmptySet DEF Init, PermitsMatchHolders
<1>5. TasksHaveChecks /\ DarkIsDoubted /\ NoFalseAlarm
  BY TaskShapes DEF Init, TasksHaveChecks, DarkIsDoubted, NoFalseAlarm
<1>6. Live = {}
  BY TaskShapes DEF Init, Live
<1>7. PlanInv
  BY <1>6 DEF Init, PlanInv, SnapshotKeyed, EntriesAreHandles, EntriesFollowSnapshot
<1> QED BY <1>1, <1>2, <1>4, <1>5, <1>7 DEF IInv

THEOREM Invariance == Spec => []IInv
BY InitialState, InductiveStep, PTL DEF Spec

\* Every variable always has the type its declaration announces.
THEOREM RunnerTypes == Spec => []TypeOK
<1>1. IInv => TypeOK
  BY DEF IInv
<1> QED BY <1>1, Invariance, PTL

\* However executions end, and whatever is cancelled meanwhile, the semaphore
\* of execute never leaks a permit and never takes one back twice.
THEOREM PermitsAreKept == Spec => []PermitsMatchHolders
<1>1. IInv => PermitsMatchHolders
  BY DEF IInv
<1> QED BY <1>1, Invariance, PTL

\* After each reconcile exactly the listed definitions are being run, each by
\* one goroutine, for any number of checks and goroutines.
THEOREM EachCheckRunsOnce == Spec => []OneGoroutinePerCheck
<1>1. IInv => OneGoroutinePerCheck
  <2> SUFFICES ASSUME IInv, rec = "ticker", ~ctxDone
               PROVE  /\ {task[s].check : s \in Live} = snapshot
                      /\ \A s, t \in Live : task[s].check = task[t].check => s = t
    BY DEF OneGoroutinePerCheck
  <2>1. EntriesAreHandles /\ EntriesFollowSnapshot /\ pending = {} /\ TasksHaveChecks
    BY DEF IInv, PlanInv, SnapshotKeyed
  <2>2. \A s \in Live : task[s].check.id \in Ids
    BY <2>1 DEF TasksHaveChecks, Live, Check
  <2>3. ASSUME NEW s \in Live PROVE task[s].check \in snapshot
    <3>1. /\ scheduled[task[s].check.id] # NoEntry
          /\ scheduled[task[s].check.id].cancel = s
      BY <2>1 DEF EntriesAreHandles
    <3>2. PICK c \in snapshot : c.id = task[s].check.id
      BY <2>1, <2>2, <3>1 DEF EntriesFollowSnapshot
    <3>3. scheduled[c.id].check = c
      BY <2>1 DEF EntriesFollowSnapshot
    <3>4. task[s].check = scheduled[task[s].check.id].check
      BY <2>1, <2>2, <3>1 DEF EntriesAreHandles
    <3> QED BY <3>2, <3>3, <3>4
  <2>4. ASSUME NEW c \in snapshot PROVE \E s \in Live : task[s].check = c
    <3>1. scheduled[c.id] # NoEntry /\ scheduled[c.id].check = c /\ c.id \in Ids
      BY <2>1 DEF EntriesFollowSnapshot, IInv, TypeOK, Check
    <3>2. scheduled[c.id].cancel \in Tasks
      BY <3>1 DEF IInv, TypeOK, Entry
    <3>3. scheduled[c.id].cancel \in Live /\ task[scheduled[c.id].cancel].check = c
      BY <2>1, <3>1, <3>2 DEF EntriesAreHandles, Live
    <3> QED BY <3>3
  <2>5. \A s, t \in Live : task[s].check = task[t].check => s = t
    BY <2>1 DEF EntriesAreHandles
  <2> QED BY <2>3, <2>4, <2>5
<1> QED BY <1>1, Invariance, PTL

\* No interleaving of outages, probes, cancellations and syncs makes the
\* monitor record a response it could not have received.
THEOREM NoOutageIsBlamedOnATarget == Spec => []NoFalseAlarm
<1>1. IInv => NoFalseAlarm
  BY DEF IInv
<1> QED BY <1>1, Invariance, PTL
=============================================================================
