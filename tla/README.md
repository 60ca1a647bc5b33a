# tenpm-uptime-monitor in TLA+

This directory holds TLA+ models of the monitor agent in `src/`, the TLC
configurations that check them on small instances, and theorems that TLAPS
checks for every instance. Paths below are relative to `src/`.

## The system

The agent is one Go process per monitor node. It enrols with a central server,
mirrors the checks assigned to it into a local SQLite database, runs them on a
fixed time grid, buffers every result in the same database and uploads the
buffer in batches. `monitor.Run` starts five goroutines (gate, syncer, runner,
reporter, status loop); the runner starts one more per enabled check. Other
processes (`-import-private-check`, `-list-checks`, `-export-private-checks`)
open the same database while the daemon runs.

| Component | Source | State | Operations |
|---|---|---|---|
| Results pipeline | `monitor/store.go`, `reporter.go`, `client.go` | `results_buffer`, the one-slot `flushCh`, the Reporter's batch | BufferResult, triggerFlush, reportOnce, finalDrain, ListUnsent, PostResults, MarkSent, PurgeSentOlderThan |
| Check mirror, Syncer | `monitor/sync.go`, `store.go` | `checks`, `sync_state.last_synced_at` | syncOnce, FetchChecks, ApplyChecksDelta, ImportPrivateCheck |
| Runner | `monitor/runner.go` | `scheduled`, per-check goroutines, `sem`, `lastStatus` | reconcile, scheduleLoop, execute, checkStatusTransition, forgetStatus |
| ConnectivityGate | `monitor/gate.go` | `online`, `offlineSince`, the last outage | Verify, probe, Run, LastOutage |
| Scheduling | `monitor/schedule.go` | none; `next` in scheduleLoop | effectiveIntervalSeconds, checkPhaseSeconds, nextSlotAfter |
| Migrations | `internal/migrate/migrate.go` | `schema_migrations`, the write lock | Open, Apply |
| Enrolment, identity | `monitor/agent.go`, `client.go`, `store.go` | the row of `identity`, id and key in memory | Run up to the first sync, enrollWithRetry, Enroll, SetIdentity |
| Status loop | `monitor/agent.go` | none | runStatusLoop |
| Checkers | `monitor/runner.go`, `tcp_checker.go`, `tls_checker.go`, `registry.go` | none | Run of HTTPChecker, TCPChecker, TLSChecker, SchemeChecker |
| Egress policy | `monitor/egress.go`, `model/restricted.go` | none | CheckURL, RestrictedURL, RestrictedAddr, PinnedDialContext |
| Model helpers | `model/model.go` | none | MatchContent, StatusCodeAcceptable, ResponseTimeExceeded, CertExpiryExceeded, InvertPassed, TruncateContent |
| Check files | `monitor/testcheck.go`, `cmd/monitor/main.go` | a file on the operator's disk | `-test-check`, `-import-private-check`, `-export-private-checks` |
| Command line | `cmd/monitor/main.go` | none | flags, start-up, signals |

How they meet:

- *results*: execute writes `results_buffer`, the Reporter drains it, a sync may
  remove or add the rows of `checks` it is joined with; `flushCh` goes from
  execute to the Reporter.
- *definitions*: a sync or an import writes `checks`, reconcile and an export read
  it. The server is never given the content of a private check: it goes from a
  file into the table, and an export is its only copy.
- *executions*: execute hands a check to the SchemeChecker, which asks the policy
  and chooses a checker; the checker's result decides whether the gate is asked.
- *gate*: execute asks `Online` and calls `Verify` for a missing response; the
  gate's own `Run` verifies again while offline. Both may be in Verify at once.
- *database*: all processes apply the migrations first, one write lock orders
  their transactions.
- *server*: every exchange can be lost either way, before or after the server
  has acted on it.

What is hard, and what must hold all the same (`PROJECT.json` lists each hazard
at its line): lost and late HTTP exchanges and kills between an ingest and
`MarkSent`; a SELECT followed by a separate INSERT while a sync runs; responses
that are stale when they are applied; cancellation of goroutines that are in the
middle of a check; permits on every early return; the gate's probe made outside
of its lock; slots and intervals at their boundaries; two processes that migrate
the same database; a key whose only copy is in memory; an import that stops
half-way while a sync's transaction is open; names that resolve to several
addresses and redirects that lead inside.

## The modules

| Module | Models | State and actions |
|---|---|---|
| `AtLeastOnce` | what the pipeline promises | results are produced, received, acknowledged |
| `Delivery` | the results pipeline | one writer per `execute` in progress (`ResolveCheck`, `InsertResult`, `TriggerFlush`), the Reporter's program counter `rpc` (select, list, post, mark, purge, stopped), the buffer's rows, the server's copies, `Cancel`, `Restart`, `Kill` |
| `Mirror` | Syncer, ApplyChecksDelta, ImportPrivateCheck | the server's catalogue and clock, the table and the watermark, a sync as fetch, begin, one step per check, commit |
| `Egress` | egress.go, restricted.go | no state: URLs, addresses by range and form, what a name resolves to, and to what when it is looked up again, dials |
| `Verdict` | the checkers, the rules of model.go, what execute makes of a result | no state: an execution is a function of the policy, the check and a `Target`, which is all the network does to it (hops with their addresses, status and redirect, latency, content, certificate) |
| `CheckFiles` | the check commands | EXTENDS `Mirror` and `Verdict`: the file on disk, an import's progress check by check, exports, tests, beside the daemon's syncs |
| `Runner` | Run, reconcile, scheduleLoop, execute | the table as syncs change it, reconcile's two loops step by step, one record per goroutine, permits, statuses, the gate as execute and `gate.Run` move it |
| `Gate` | Verify, probe, gate.Run | callers of Verify, a goroutine and a channel slot per dialled target, the clock reading, the update under the lock |
| `Schedule` | schedule.go, the timing of scheduleLoop | a clock in ticks, the next slot of every monitor of one check |
| `Migrations` | migrate.Apply | Apply of several processes, step by step, with the write lock |
| `Enrolment` | Run up to the initial sync | the server's monitors and keys, the row of identity, the process's memory |
| `Startup` | main | composes `Migrations` (EXTENDS) and `Enrolment` (INSTANCE, its `pc` is `run`): daemon and one-shot commands over one database |
| `DeliveryProofs` | - | theorems about `Delivery` |
| `StartupProofs` | - | theorems about `Startup`, and so about `Migrations` and `Enrolment` |
| `RunnerProofs` | - | theorems about `Runner` |
| `GateProofs` | - | theorems about `Gate` |
| `MirrorProofs` | - | theorems about `Mirror` |
| `CheckFilesProofs` | - | theorems about `CheckFiles`, on lemmas about `Verdict` and `Egress` |
| `ScheduleProofs` | - | theorems about `Schedule`, on lemmas about division |
| `LargestId` | - | lemmas about the largest of a set of ids |
| `MC...` | - | what a configuration needs beside constants: symmetry, small sets |

Each action is one step between two points at which another goroutine, process
or the network can act: a SQL statement (or a whole transaction, since
`_txlock=immediate` lets no other writer in), a channel operation, an HTTP
exchange, a critical section. `PROJECT.json` maps each definition to its lines.
Definitions whose name extends that of a neighbour (`MarkSentButOldest` next to
`MarkSent`) are plausible mistakes: a property is only kept when exchanging the
definition for such a mistake makes TLC find it violated.

Data is abstracted to what the properties tell apart. A check is a guid with a
local id and a definition (a model value, or the server time it was saved at); a
result is the id of its row; what a checker measures is, in `Runner`, a pass, a
failure of the target or no response at all - `Verdict` says which it is; a dial
is answered or refused; a migration's script would fail or not when it is run a
second time. In `Verdict` content is its length and where the one string of
interest ends in it, an address is the range it is in, which is what it reaches,
and the form it is written in: plain, mapped, or with a zone. In `CheckFiles` a member of `Files` names a definition, and
`DefinitionOf` gives its fields; an exported definition is one of `Files` again.

Two things that need a word:

- `checks.id` is `INTEGER PRIMARY KEY` without `AUTOINCREMENT`, so a removed
  check's id can be given to another one. `NextId` (largest id plus one) says so,
  in three modules, because `results_buffer`, `scheduled` and `lastStatus` are
  keyed by it.
- The server's part (`Ingest`, `ChangeCheck`, `Issue`, ...) is not in the
  repository. It is modelled from what the client expects of it and marked
  external in the map: the results endpoint ingests a request whole, a sync
  response is a consistent view with the server's time, an enrolment without id
  mints a monitor and one with an id reclaims it if its enrolment was reset.

## The runs

Every run finishes in a few minutes; bounds are the constants named `Max...`.

| Run | Shows | Instance and why it is enough |
|---|---|---|
| `DeliveryPipeline` | `NoResultLost`, `DuplicatesNeedFaults`, `InOrderPerCheck`, `NoLostWakeup`, that `Delivery` implements `AtLeastOnce`, and the liveness properties `SendableIsSent`, `Heartbeat`, `ShutdownEnds` | one check, two writers, batches of one, two rows, two faults: a full batch followed by another, a late request that races its retry, a kill between ingest and MarkSent, a signal during a cycle. The safety part is proved for all values |
| `DeliveryMisattribution` | violated: a result buffered while its check is removed goes out under another check's guid | two checks over one local id |
| `MirrorSync` | `MirrorMatchesWatermark`, `LocallyDefinedMeansImported`, `ImportsStay`, `TestPredictsDaemon`, `DetailStaysHere`, `AnswersAreRecorded`, `DialsStayOutside`, `ImportedContentSurvives`, `IdsAreStable`, `MirrorConverges` | module `MCCheckFiles`. Two checks, two server changes, one failing sync: a delta that fails half-way, a change while a response is under way, imports and exports before, during and after it. A file of four entries that imports one check three times, and one without a guid; seven definitions of https, tcp and tls checks, with inverted results, rules of every kind and values only a file edited by hand has; 24 behaviours of the network: names that resolve to good and bad addresses, or to bad ones when they are looked up again, redirects inside and to zones, chains too long, slow, cut off, empty and late content, certificates about to expire. The invariants are proved for all values |
| `RunnerExecution` | `PermitsMatchHolders`, `OneGoroutinePerCheck`, `NoFalseAlarm`, `FollowsTable`, `ChecksKeepRunning`, `AllGoroutinesEnd` | one check with two definitions of which one is inverted, two goroutines, one permit, two changes of the table, one outage: the old goroutine still executing while the new one waits for its permit, and an outage that begins and ends anywhere in an execution. With one check the permit is contended by the old and the new goroutine of that check only; a second check takes the liveness part beyond a few minutes. The safety part, permits among it, is proved for all values |
| `RunnerGateFlip` | violated: a cancelled probe closes the gate though the internet is there | one check, no outage |
| `RunnerStatusLeak` | violated: a removed check's status comes back and stays | one check |
| `GateProbes` | `OneGoodTargetKeepsOnline`, `StragglersEnd`, `NoticesRecovery` | a check's Verify and the gate's own, two targets, either of which may be down at the start, one loss: probes that return early, mixed and overlapping verdicts, cancelled probes. No property here depends on the clock, which stands still. The invariant is proved for all values |
| `GateOutage` | violated: an outage of negative length | a check's Verify and the gate's own, one target, three readings of the clock |
| `ScheduleGrid` | `RotationIsKept`, `NextSlotIsEarliest`, `OncePerSlot`, `SkipsOverrunSlots` | intervals of 1 to 3 s with 0 to 3 monitors and a negative interval as an import lets it pass, every hash, two ticks a second, 8 s, one restart: counts that do not divide the interval, times off the grid, executions longer than a step, the loop without a grid |
| `Startup` | `RecordedMeansRunOnce`, `InFilenameOrder`, `SchemaBeforeUse`, `IdentityIsAPair`, `RunsAsPersisted`, `MintedForAReason`, `SchemaCompletes` | the daemon and one other process, two migrations of which one can be repeated, one kill during them, one fault after, two monitors, three keys. The safety part is proved for all values |
| `ExportRestores` | violated: an exported check that is imported again passes where the original fails | module `MCCheckFiles`, one server change |
| `EgressZones` | violated: under the strict policy an address with a zone is dialled that is refused without it | as `ExportRestores` |

Deadlock is checked in `DeliveryPipeline`, `MirrorSync`, `GateProbes` and
`Startup`. The Runner's model ends when the agent is cancelled and everything has
returned, the schedule's when its clock runs out, so their runs switch it off.

### Fairness

No liveness property holds of a system that may stop at any point; each
`FairSpec` assumes no more than this:

- goroutines and the process that runs them keep going (weak fairness of each
  step that waits for nothing);
- a `select` with several ready cases takes each of them sometime (strong
  fairness of `WakeOnDone`, `RunReturns`, `LoopEnds`): Go picks uniformly at
  random;
- a goroutine blocked on the semaphore channel is served in turn (strong fairness
  of `AcquirePermit`): Go queues blocked senders first in, first out;
- neither the database nor the network fails for ever (strong fairness of
  `ListRows` and `PostResults` in `Delivery`; in `Mirror` and `CheckFiles` the
  failures are bounded);
- `gate.Run`'s ticker fires while the gate is offline (strong fairness of
  `BeginVerify` for the ticker: between two ticks a check's own Verify may have
  opened the gate and closed it again);
- in `Startup`, a process that failed to migrate or was killed is started again.

No kill, signal, server change or import is ever assumed to happen.

## What the code does that its documentation does not say

Six runs expect a violation. Each states what a comment or a test says of the
code, `PROJECT.json` quotes it under `findings`, and TLC's trace shows the
disagreement.

1. `DeliveryMisattribution` (`monitor/store.go:413`). BufferResult's SELECT and
   INSERT are separate; with the local id reused in between, the row joins to
   another check.
2. `RunnerGateFlip` (`monitor/runner.go:485`). Verify runs under the check's own
   context, and every dial of a cancelled context fails.
3. `RunnerStatusLeak` (`monitor/runner.go:519`). An execution that outlives its
   check's removal or disabling stores its status after forgetStatus.
4. `GateOutage` (`monitor/gate.go:122`). Verify reads the clock before it takes
   the lock.
5. `ExportRestores` (`monitor/testcheck.go:175`). CheckExport has no
   `cert_expiry_warn_days`, so a restored check has lost its threshold.
6. `EgressZones` (`model/restricted.go:141`, `146`). `IsUnspecified` and
   `Prefix.Contains` are false of an IPv6 address with a zone, and `Unmap` keeps the
   zone, so unspecified and reserved addresses written that way pass for public;
   a test expects the plain forms to be refused. `DialsStayOutside`, which passes,
   is what remains true: every address dialled was checked, and only these two
   ranges get through, only with a zone.

Met while modelling, with no run of their own so far:

- A row whose check was removed before it was uploaded is neither listed
  (`monitor/store.go:441-446`) nor purged, since the purge deletes sent rows only
  (`monitor/store.go:501`): unless a check takes over its id, it stays and
  CountUnsent counts it.
- A reclaim whose response is lost is answered 4xx when it is retried, since the
  id is enrolled by then, and Run gives up (`monitor/agent.go:188-191`; the
  comment above says the configuration must be wrong).
- A response made before a check became private, applied after its definition
  was imported, overwrites the import (`monitor/store.go:157`); the next response
  carries no definition. `ImportedContentSurvives` says exactly what may replace
  an import.
- A check restarted in the second of its slot fires again in that slot
  (`monitor/schedule.go:59`): `OncePerSlot` excepts restarts.
- A new check that gets a removed one's id between two reconciles inherits its
  last status, so its first result may not be announced
  (`monitor/runner.go:383`); two overlapping executions may record their results
  in one order and their statuses in the other (`monitor/runner.go:509-519`).
- When the deadline of the whole `-test-check` runs out, an inverted check passes
  its test because nothing answers (`monitor/testcheck.go:80-81`);
  `TestPredictsDaemon` excepts it. A test never asks the gate either, so a failure
  it reports may be one the daemon would drop: the property compares with an
  execution whose probe, if it comes to one, finds the internet.
- A response whose redirect the policy refuses, or that is one too many, counts
  as no response at all (`monitor/runner.go:524-534`), and so does a TCP server
  that accepts and stays silent, although traffic flowed: with the gate's targets
  unreachable such a failure is dropped. `AnswersAreRecorded` is about responses
  with content.
- `-test-check` prints the first 1024 characters as "what the match ran against";
  an HTTP match runs on the whole body (`monitor/runner.go:203`).
- The sync writes `result_detail_max_chars` as the server sends it; only an import
  floors a negative one (`monitor/store.go:362`).
- An import floors a zero interval, not a negative one (`monitor/store.go:352`). The
  comment at `monitor/store.go:316-317` says a zero would make time.NewTicker panic;
  scheduleLoop uses timers and floors its step to a second
  (`monitor/runner.go:434-437`).
- `model/model.go:556` says that `ran_at` uses TimestampLayout, `store.go:420`
  uses RFC 3339.

## What is proved

`DeliveryProofs` proves, for every number of checks, writers, rows, ids, faults
and every batch size:

- `TypeCorrect`: the type invariant;
- `ResultsAreNotLost`, `DuplicatesAreBounded`, `ResultsArriveInOrder`,
  `WakeupsAreNotLost`: the four safety invariants of `DeliveryPipeline`;
- `Refinement`: `Spec => Abstract!Spec`, Delivery implements AtLeastOnce.

Assumed are only `BatchSizeAssumption` and `BoundsAssumption`: the constants are
numbers, and a batch has room for a row.

None of the safety properties is inductive by itself: that a row marked sent was
received depends on what is in the Reporter's hands when it calls MarkSent. The
inductive invariant `IInv` adds

- `RowsAllocated`: exactly the rows up to `seq` exist, so a new row is newer than
  all others (AUTOINCREMENT);
- `BatchUnsent`: a batch exists only between listing and the end of its cycle and
  its rows are still unsent, so one Reporter never marks what another purges;
- `TravellersExist`: whatever was received or is under way is a row;
- `MarkedWasReceived`: in front of MarkSent the batch has been received;
- `CopiesPaidFor`: the copies of a row, ingested or under way, are paid for by
  faults, but for the one that is or will be recorded as sent - the sum that
  makes `DuplicatesNeedFaults` inductive;
- `CarriesOlder` of the batch, of the late request and of what the server has:
  each of them carries, with a row, all older rows of the same `check_id` that
  the server does not have. It is preserved by listing because `Oldest` is closed
  downwards among sendable rows and rows of one `check_id` are sendable together.

There is one lemma per conjunct and action group; `Invariance` puts them
together. For `Refinement` each action is shown to be a step of `AtLeastOnce` or
a stutter: InsertResult produces, PostResults and LateRequestArrives receive,
MarkSent acknowledges, and a purge, a listing or a restart changes nothing the
abstract specification sees. LateRequestArrives is the interesting case: it may carry
rows that were acknowledged meanwhile, which the abstract specification no longer
lets the server receive; they were received before, so the step receives the rest.

`StartupProofs` proves the safety properties of the run `Startup` for every set of
processes, number of migrations, set of repeatable ones, and number of kills,
monitors, keys and faults: `MigrationsRunOnce`, `MigrationsInOrder`,
`NoUseOfAnIncompleteSchema`, `IdentityStaysAPair`, `RunsAsWhatItPersisted`,
`NoMonitorWithoutAReason` and the types. Assumed are that `Agent` is one of the
processes, that the bounds are numbers (`MigrationsAssumption`, `StartupBounds`),
that there is a migration, and that `NoProcess` is none of the processes
(`ProcessesAssumption`).

The two components meet in the daemon: `StartupStepsMigrate` shows that a step of
the composition is a step of `Migrations` or leaves the schema alone, so the
migrations are proved about on their own. `SchemaInv` adds to the properties

- `LockHeldInTransaction`: the write lock is held exactly by the process between
  begin and commit or rollback - what `_txlock=immediate` gives, and why a
  migration recorded by nobody else when the script starts is still so at commit;
- `WorksOnAMigration`, `EarlierRecorded`: the migration a process is at, and that
  all before it are recorded, also while another process overtakes it;
- `CommitIsNew`: in front of the commit the version is not recorded yet, as the
  primary key required of the INSERT in the same transaction;
- `OpenIsComplete`: Apply has returned only with everything recorded;

and `RunsOnOpen` ties monitor.Run to that last one. From the same invariant follows
the action property `SchemaGoesForward`: what is recorded is always the first so many
migrations, and a step adds the next one or none. The composition is a run of each of
its components: `StartupMigrates` is `StartupSpec => Spec` of `Migrations` and
`StartupEnrols` is `StartupSpec => Spec` of `Enrolment`, which the processes migrating
beside the daemon leave alone. For the identity,
`IdentityInv` adds

- `KeysWereIssued`: no key is held that the server has still to issue, so that
  issuing one changes the owner of none in use;
- `AnswerIsAPair`: what SetIdentity is about to write is an id and a key of one
  answer;
- `NewOnlyWithoutId`: a request without id is made only while none is persisted;
- `MintsPaidFor`: a minted monitor is persisted, about to be, or paid for by a fault
  or a cleared identity - the sum that makes `MintedForAReason` inductive.

`RunnerProofs` proves the safety part of `RunnerExecution` for every set of checks,
definitions (inverted or not) and goroutines, any number of permits, changes of
the table and outages: `PermitsAreKept`, `EachCheckRunsOnce`,
`NoOutageIsBlamedOnATarget` and the types. Assumed are that inverted definitions
are definitions, that "none" and "disabled" are not, that the goroutines are
finitely many and that there is a permit. `IInv` adds

- `RowsKeyed`: each id of the table is given once and is at most the number of
  changes, so that what a reconcile lists has distinct ids;
- `EntriesAreHandles`: every entry of `scheduled` is the handle of a goroutine
  that has not ended and runs the entry's check, and every goroutine nobody
  cancelled has its entry. This is the invariant behind the map of cancel
  functions; it is needed because an id is reused when its check is gone, and it
  is claimed only until the agent is cancelled, when Run drops its map;
- `EntriesFollowSnapshot`: what reconcile's two loops have done so far;
- `DarkIsDoubted`: a goroutine whose execution has seen no internet so far is not
  in front of BufferResult with a missing response.

`GateProofs` proves `OneTargetIsEnough` and the types for every set of callers, every
finite set of targets that is not empty (`TargetsAssumption`) and any number of
losses and readings of the clock. `IInv` adds

- `Accounted`: while a probe runs, the failures it has counted, the results in its
  channel and the dial goroutines that still have to send add up to the number of
  targets; an early return only takes results away;
- `GoodIsHeard`: the success of a target that has answered all the time is being
  dialled, about to be sent or in the channel. When the last result makes the count
  of failures complete there is no room left for it (`GivesUpOnAll`), so a probe
  that fails has lost all targets.

`Accounted` also gives `RoomForStragglers`, which is why `StragglersEnd` holds: a dial
goroutine with a result to send finds room in the channel, received from or not.

`MirrorProofs` proves the invariants of `Mirror` for every set of checks and files
and any number of server changes and failures: `MirrorKeepsItsWatermark`,
`FlagTellsImports` and the types, and of its steps
`ImportsSurvive` and `IdsStay`. Assumed are that the bounds are
numbers and that a file is not a time (`FilesAreNotTimes`). `IInv` adds

- `ResponseIsACut`: the response in hand is the catalogue of one instant not
  before the watermark and lists what changed in between, so applying it after
  the catalogue has moved on is harmless;
- `TransactionAdvances`: the open transaction agrees with the new catalogue on
  the checks it has applied and with the old one on the others, and the table
  itself with the old one;
- `IdsBounded` (so that there is a next id), `Flagged` of the table and of the
  transaction.

What a commit does to a row is what the whole transaction did to it, many steps
before. So the two action properties need `TransactionKeepsRows` (`RowsInvariance`)
beside `IInv`: the open transaction has left alone what it has not come to, has given
no mirrored check another id, and has not touched imported content that the response
sends only metadata of - measured against the table, which stands still meanwhile
because a writer waits. Two more theorems say how a sync moves: `MirrorGoesForward`
(neither the watermark nor a check's version goes back, since nothing in the last
committed catalogue is later than its watermark) and `CaughtUpMirrors`, the safe half
of `MirrorConverges`: at a watermark equal to the server's clock the mirror agrees with
the server.

`CheckFilesProofs` proves of `CheckFiles`, whose steps interleave with these:

- `CommandsImplementMirror`: `FilesSpec => Spec` of Mirror, so all of the above
  holds beside imports and exports;
- `ImportsAreKept`: `ImportsStay` for every file and every place at which the
  import stops. It needs Mirror's `TransactionKeepsRows`: the transaction that is
  open when it is committed has not lost an import - which is true because a writer
  waits for it - and is what the mutant without the lock breaks;
- `TestsPredictTheDaemon`, `DetailIsKeptHere`, `AnsweredFailuresAreRecorded`,
  `StrictDialsStayOutside`: for every definition in `Files` and every target. They rest
  on lemmas on the operators of `Verdict` and `Egress` themselves: two checks with the
  same rules run alike (`SameRulesSameRun`), nothing passes without an answer
  (`NoAnswerNoSuccess`), what RestrictedAddr lets through is
  public but for zones (`UnrestrictedIsOutside`), and a strict execution dials what
  was checked and nothing else, whatever another lookup of the name would answer
  (`StrictExecutionsStayOutside`).

Assumed are that definitions, targets and files have their types, that the guids
are finitely many, and `ExportedAssumption`: `Files` holds with a definition what
its row is exported as.

`ScheduleProofs` proves all properties of `ScheduleGrid` for every finite set of
assignments, every resolution of the clock, any hash and any number of monitors and
restarts: `RotationIsKeptForever`, `SearchFindsEarliest`, `SlotsFireOnce`,
`OverrunSlotsAreSkipped` and the types, with a consequence that no run needs to check:
`SlotsNeverCoincide` (no two monitors of a check wait for the same second). Assumed are that an assignment is an interval that is not
zero and a count (`AssignmentsAssumption`; a negative interval is what an import lets
pass), that a second has a tick (`TicksAssumption`), and that the bounds are numbers.
`IInv` adds to the properties

- `OnGrid`: the slot of a monitor that waits or executes is congruent to its rank's
  share of the grid, modulo the effective interval; `RotationIsKept` speaks of those
  that wait, and an executing one becomes one of them;
- `FiredBeforeNext`: before a restart, what fired last is before what is waited for,
  which makes `OncePerSlot` inductive, with `SlotsHaveCome`: an execution begins at
  its slot or later;
- `JoinedAreAssigned`: only monitors of the assignment ever leave the start.

The rest is arithmetic, of numbers first (`Quotient`, `ShiftByWhole`, `SameRemainder`,
`OnPhase`: `%` and `\div` under adding whole multiples), then of the code's operators:
`Mod64Is` (mod64 is the mathematical remainder whatever the sign), `EarliestSlot` (what
nextSlotAfter computes from one remainder is the first slot not before the time), and
`PlacesAreDistinct` (different ranks have different shares).

Only model-checked: all liveness (`SendableIsSent`, `Heartbeat`, `ShutdownEnds`,
`MirrorConverges`, `FollowsTable`, `ChecksKeepRunning`, `AllGoroutinesEnd`,
`StragglersEnd`, `NoticesRecovery`, `SchemaCompletes`). Liveness under fairness and
ENABLED are out of the prover's reach, as are facts about recursive definitions for all
inputs. Every invariant and every step property of a passing run is proved.

## Not modelled

- The status loop only reads and posts; a lost post is replaced by the next.
- In `Verdict`: request headers and bodies, which no rule looks at, and a checker
  that an embedding program registers with RegisterChecker. `monitor/proxy.go`
  replaces the dial by one to a fixed proxy, whose resolution is not the monitor's.
- In `Egress`: the membership of a plain address in a range, which is Go's `netip`
  and a table. Every range is given every form, also those that only IPv4 or only
  IPv6 has. The comment at `model/restricted.go:121-123`, that the predicates do not
  see through mapped addresses, holds of some of them only in recent Go; either
  way addresses are unmapped first.
- Timestamp and header encodings, which only format. `-list-checks` only reads.
- Payloads, payload limits, jitter, retention times, logging; what each migration
  does to the tables; the int64 range of the clock.
- In `Enrolment`: platform tokens that may choose a new id, and a 200 answer
  without an API key (`monitor/client.go:111`), which the client accepts.
- In `Delivery`: of several requests that the client has given up on and that
  may still arrive, one is followed.

## Plan

The order in which the project was built, most important first:

1. `Delivery`, `AtLeastOnce`, `DeliveryProofs`: the pipeline and its theorems.
2. `Mirror`: where the checks come from.
3. `Runner`, `Gate`, `Schedule`: where the results come from.
4. `Migrations`, `Enrolment`, `Startup`, `StartupProofs`: how a process comes up.
5. `Egress`, `Verdict`, `CheckFiles`: what an execution decides, and definitions the
   server is never given.
6. `RunnerProofs`, `MirrorProofs`, `CheckFilesProofs`, `GateProofs`, `ScheduleProofs`.

What would come next: a composition of `Runner` and `Delivery` over one table, for what
passes between checkStatusTransition and the wake-up; a 200 answer without an API key in `Enrolment`.
