------------------------------ MODULE Delivery ------------------------------
(***************************************************************************)
(* From a finished check execution to the central server: BufferResult     *)
(* (store.go), the Reporter (reporter.go), PostResults (client.go) and the *)
(* wake-up channel between Runner and Reporter (runner.go, agent.go).      *)
(*                                                                         *)
(* Many execute() goroutines (Writers) append rows to results_buffer while *)
(* the Syncer adds and removes rows of checks, and one Reporter drains the *)
(* buffer in batches.  Requests and responses get lost, database calls     *)
(* fail, the process is stopped or killed and started again.               *)
(***************************************************************************)
EXTENDS Naturals, FiniteSets, Sequences, SequencesExt

CONSTANTS
  Guids,        \* checks the server may assign to this monitor
  Writers,      \* goroutines that may be inside execute() at once
  BatchSize,    \* reportBatchSize
  MaxRows,      \* bound: rows ever inserted into results_buffer
  MaxId,        \* bound: largest checks.id
  MaxDelta,     \* bound: checks in one sync response
  MaxFaults     \* bound: kills, lost responses and failed MarkSent calls

ASSUME BatchSizeAssumption == BatchSize \in Nat \ {0}
ASSUME BoundsAssumption ==
  MaxRows \in Nat /\ MaxId \in Nat /\ MaxDelta \in Nat /\ MaxFaults \in Nat

VARIABLES
  ids,          \* checks: guid -> checks.id, 0 when guid is not mirrored
  seq,          \* sqlite_sequence of results_buffer (AUTOINCREMENT)
  status,       \* results_buffer: row id -> absent, sent = 0, sent = 1, deleted
  checkId,      \* results_buffer.check_id
  writer,       \* Writers: progress through BufferResult and triggerFlush
  flushCh,      \* whether the one-slot wake-up channel holds a signal
  rpc,          \* where the Reporter is
  first,        \* reportOnce's variable first
  batch,        \* rows of the current batch with the guid each is uploaded as
  final,        \* whether reportOnce was called by finalDrain
  ctxDone,      \* whether the agent's context is cancelled
  late,         \* a request the agent gave up on and the server may still ingest
  \* history of what happened, never read by the code
  producer,     \* row id -> guid of the check whose execution produced it
  received,     \* <<row id, guid>> pairs the server has ingested
  copies,       \* row id -> how many times the server has ingested it
  signalled,    \* rows that were signalled and no cycle has begun since
  faults

bufferVars == <<seq, status, checkId, producer>>
reporterVars == <<rpc, first, batch, final>>
serverVars == <<late, received, copies>>
vars == <<ids, bufferVars, writer, flushCh, reporterVars, ctxDone,
          serverVars, signalled, faults>>

-----------------------------------------------------------------------------
RowIds == 1..MaxRows
NoGuid == "no guid"
IdleWriter == [pc |-> "idle", guid |-> NoGuid, id |-> 0, row |-> 0]
Resolved == [pc : {"resolved"}, guid : Guids, id : 1..MaxId, row : {0}]
Inserted == [pc : {"inserted"}, guid : {NoGuid}, id : {0}, row : RowIds]
WriterState == {IdleWriter} \cup Resolved \cup Inserted

RowsOf(pairs) == {p[1] : p \in pairs}

TypeOK ==
  /\ ids \in [Guids -> 0..MaxId]
  /\ seq \in 0..MaxRows
  /\ status \in [RowIds -> {"absent", "unsent", "sent", "deleted"}]
  /\ checkId \in [RowIds -> 0..MaxId]
  /\ writer \in [Writers -> WriterState]
  /\ flushCh \in BOOLEAN
  /\ rpc \in {"select", "list", "post", "mark", "purge", "stopped"}
  /\ first \in BOOLEAN
  /\ batch \in SUBSET (RowIds \X Guids)
  /\ final \in BOOLEAN
  /\ ctxDone \in BOOLEAN
  /\ producer \in [RowIds -> Guids \cup {NoGuid}]
  /\ late \in SUBSET (RowIds \X Guids)
  /\ received \in SUBSET (RowIds \X Guids)
  /\ copies \in [RowIds -> Nat]
  /\ signalled \in SUBSET RowIds
  /\ faults \in 0..MaxFaults

-----------------------------------------------------------------------------
(* The checks table.  checks.id is INTEGER PRIMARY KEY without             *)
(* AUTOINCREMENT: a new row gets the largest id in use plus one.           *)

NextId(t) == 1 + Max({t[h] : h \in Guids} \cup {0})

Delete(t, g) == [t EXCEPT ![g] = 0]

Upsert(t, g) == IF t[g] = 0 THEN [t EXCEPT ![g] = NextId(t)] ELSE t

\* A sync response: each check at most once, as an update or a tombstone.
DeltaItem == [guid : Guids, deleted : BOOLEAN]
Deltas == {d \in BoundedSeq(DeltaItem, MaxDelta) :
             \A i, j \in DOMAIN d : d[i].guid = d[j].guid => i = j}

ApplyItem(t, c) == IF c.deleted THEN Delete(t, c.guid) ELSE Upsert(t, c.guid)

\* The whole response is applied in one transaction.
ApplyChecksDelta(delta) ==
  /\ ids' = FoldLeft(ApplyItem, ids, delta)
  /\ ids' \in [Guids -> 0..MaxId]
  /\ UNCHANGED <<bufferVars, writer, flushCh, reporterVars, ctxDone,
                 serverVars, signalled, faults>>

-----------------------------------------------------------------------------
(* execute(): BufferResult is a SELECT followed by a separate INSERT, and  *)
(* the wake-up comes after both.                                           *)

\* The guid resolves to a local id.  When it does not, execute returns and
\* nothing changes.
ResolveCheck(w, g) ==
  /\ writer[w].pc = "idle"
  /\ ids[g] # 0
  /\ writer' = [writer EXCEPT ![w] =
                  [pc |-> "resolved", guid |-> g, id |-> ids[g], row |-> 0]]
  /\ UNCHANGED <<ids, bufferVars, flushCh, reporterVars, ctxDone,
                 serverVars, signalled, faults>>

\* The INSERT stores the id found by the SELECT, whatever happened since;
\* transition is what checkStatusTransition then answers.
InsertResult(w, transition) ==
  /\ writer[w].pc = "resolved"
  /\ seq < MaxRows
  /\ seq' = seq + 1
  /\ status' = [status EXCEPT ![seq + 1] = "unsent"]
  /\ checkId' = [checkId EXCEPT ![seq + 1] = writer[w].id]
  /\ producer' = [producer EXCEPT ![seq + 1] = writer[w].guid]
  /\ writer' = [writer EXCEPT ![w] =
                  IF transition
                  THEN [pc |-> "inserted", guid |-> NoGuid, id |-> 0, row |-> seq + 1]
                  ELSE IdleWriter]
  /\ UNCHANGED <<ids, flushCh, reporterVars, ctxDone, serverVars,
                 signalled, faults>>

\* The database refuses the INSERT: the result is logged and dropped.
InsertFails(w) ==
  /\ writer[w].pc = "resolved"
  /\ writer' = [writer EXCEPT ![w] = IdleWriter]
  /\ UNCHANGED <<ids, bufferVars, flushCh, reporterVars, ctxDone,
                 serverVars, signalled, faults>>

\* An unbuffered channel would take a signal only while the Reporter waits.
SendUnbuffered == flushCh' = (flushCh \/ rpc = "select")

\* Non-blocking send into a channel of capacity one: afterwards it is full.
SendFlush == flushCh' = TRUE

TriggerFlush(w) ==
  /\ writer[w].pc = "inserted"
  /\ SendFlush
  /\ signalled' = signalled \cup {writer[w].row}
  /\ writer' = [writer EXCEPT ![w] = IdleWriter]
  /\ UNCHANGED <<ids, bufferVars, reporterVars, ctxDone, serverVars, faults>>

-----------------------------------------------------------------------------
(* The Reporter's goroutine.                                               *)

\* reportOnce begins a cycle; what was signalled before is covered by it.
BeginReport(isFinal) ==
  /\ rpc' = "list"
  /\ first' = TRUE
  /\ final' = isFinal
  /\ signalled' = {}
  /\ UNCHANGED <<ids, bufferVars, writer, batch, ctxDone, serverVars, faults>>

WakeOnTimer == rpc = "select" /\ UNCHANGED flushCh /\ BeginReport(FALSE)

WakeOnFlush == rpc = "select" /\ flushCh /\ flushCh' = FALSE /\ BeginReport(FALSE)

\* The final drain without the return after it.
WakeOnDoneNoReturn == rpc = "select" /\ ctxDone /\ UNCHANGED flushCh /\ BeginReport(FALSE)

\* <-ctx.Done(): one final drain under a context of its own.
WakeOnDone == rpc = "select" /\ ctxDone /\ UNCHANGED flushCh /\ BeginReport(TRUE)

\* reportOnce returns: Run purges next, finalDrain ends the goroutine.
ReturnFromReport ==
  /\ rpc' = IF final THEN "stopped" ELSE "purge"
  /\ first' = TRUE
  /\ batch' = {}

Joined(r) == {g \in Guids : ids[g] = checkId[r]}
Unsent == {r \in RowIds : status[r] = "unsent"}
Sendable == {r \in Unsent : Joined(r) # {}}

\* ORDER BY id DESC.
Newest(S, n) == {r \in S : Cardinality({q \in S : q >= r}) <= n}

Oldest(S, n) == {r \in S : Cardinality({q \in S : q <= r}) <= n}

\* A strict bound on the newest row id.
ListUnsentBelowNewest ==
  {p \in Oldest(Sendable \ {seq}, BatchSize) \X Guids : p[2] \in Joined(p[1])}

\* Up to BatchSize unsent rows, oldest first, joined to checks for the guid.
ListUnsent ==
  {p \in Oldest(Sendable, BatchSize) \X Guids : p[2] \in Joined(p[1])}

\* Returning on any empty listing: nothing to say, no call.
ListRowsNoHeartbeat ==
  /\ rpc = "list"
  /\ IF ListUnsent = {}
     THEN ReturnFromReport
     ELSE rpc' = "post" /\ first' = FALSE /\ batch' = ListUnsent
  /\ UNCHANGED <<ids, bufferVars, writer, flushCh, final, ctxDone,
                 serverVars, signalled, faults>>

ListRows ==
  /\ rpc = "list"
  /\ IF ListUnsent = {} /\ ~first
     THEN ReturnFromReport
     ELSE rpc' = "post" /\ first' = FALSE /\ batch' = ListUnsent
  /\ UNCHANGED <<ids, bufferVars, writer, flushCh, final, ctxDone,
                 serverVars, signalled, faults>>

\* The server ingests a whole request.
Ingest(b) ==
  /\ received' = received \cup b
  /\ copies' = [r \in RowIds |-> IF r \in RowsOf(b) THEN copies[r] + 1 ELSE copies[r]]

\* Any completed exchange taken for a confirmation, ingested or not.
PostResultsAnyStatus ==
  /\ rpc = "post"
  /\ Ingest(batch) \/ UNCHANGED <<received, copies>>
  /\ rpc' = "mark"
  /\ UNCHANGED <<ids, bufferVars, writer, flushCh, first, batch, final,
                 ctxDone, late, signalled, faults>>

\* The server ingests the batch and its 200 response is read.
PostResults ==
  /\ rpc = "post"
  /\ Ingest(batch)
  /\ rpc' = "mark"
  /\ UNCHANGED <<ids, bufferVars, writer, flushCh, first, batch, final,
                 ctxDone, late, signalled, faults>>

\* No readable 200 response comes back in time; the request itself may still
\* arrive.  One such request is followed; a new one displaces the last.
PostTimesOut ==
  /\ rpc = "post"
  /\ faults < MaxFaults
  /\ late' = batch
  /\ ReturnFromReport
  /\ faults' = faults + 1
  /\ UNCHANGED <<ids, bufferVars, writer, flushCh, final, ctxDone,
                 received, copies, signalled>>

LateRequestArrives ==
  /\ late # {}
  /\ Ingest(late)
  /\ late' = {}
  /\ UNCHANGED <<ids, bufferVars, writer, flushCh, reporterVars, ctxDone,
                 signalled, faults>>

\* ListUnsent returns an error, or the request never reaches the server.
ReportFails ==
  /\ rpc \in {"list", "post"}
  /\ ReturnFromReport
  /\ UNCHANGED <<ids, bufferVars, writer, flushCh, final,
                 ctxDone, serverVars, signalled, faults>>

\* An off-by-one that leaves the oldest row of the batch unmarked.
MarkSentButOldest ==
  /\ rpc = "mark"
  /\ status' = [r \in RowIds |->
       IF r \in RowsOf(batch) \ Oldest(RowsOf(batch), 1) THEN "sent" ELSE status[r]]
  /\ ReturnFromReport
  /\ UNCHANGED <<ids, seq, checkId, producer, writer, flushCh, final, ctxDone,
                 serverVars, signalled, faults>>

\* A batch that was not full ends the cycle.
MarkSent ==
  /\ rpc = "mark"
  /\ status' = [r \in RowIds |-> IF r \in RowsOf(batch) THEN "sent" ELSE status[r]]
  /\ IF Cardinality(batch) < BatchSize
     THEN ReturnFromReport
     ELSE rpc' = "list" /\ batch' = {} /\ UNCHANGED first
  /\ UNCHANGED <<ids, seq, checkId, producer, writer, flushCh, final, ctxDone,
                 serverVars, signalled, faults>>

MarkSentFails ==
  /\ rpc = "mark"
  /\ faults < MaxFaults
  /\ ReturnFromReport
  /\ faults' = faults + 1
  /\ UNCHANGED <<ids, bufferVars, writer, flushCh, final,
                 ctxDone, serverVars, signalled>>

\* Without sent = 1 in the WHERE clause.
PurgeOlderThan(old) ==
  /\ rpc = "purge"
  /\ status' = [r \in RowIds |-> IF r \in old /\ status[r] # "absent"
                                 THEN "deleted" ELSE status[r]]
  /\ rpc' = "select"
  /\ UNCHANGED <<ids, seq, checkId, producer, writer, flushCh, first, batch,
                 final, ctxDone, serverVars, signalled, faults>>

\* Some uploaded rows are older than sentRetentionAge; none when it fails.
PurgeSentOlderThan(old) ==
  /\ rpc = "purge"
  /\ status' = [r \in RowIds |-> IF r \in old /\ status[r] = "sent"
                                 THEN "deleted" ELSE status[r]]
  /\ rpc' = "select"
  /\ UNCHANGED <<ids, seq, checkId, producer, writer, flushCh, first, batch,
                 final, ctxDone, serverVars, signalled, faults>>

-----------------------------------------------------------------------------
(* The process.                                                            *)

\* SIGINT or SIGTERM cancels the agent's context.
Cancel ==
  /\ ~ctxDone
  /\ ctxDone' = TRUE
  /\ UNCHANGED <<ids, bufferVars, writer, flushCh, reporterVars,
                 serverVars, signalled, faults>>

\* A new process: everything in memory starts over, the database stays.
StartProcess ==
  /\ writer' = [w \in Writers |-> IdleWriter]
  /\ flushCh' = FALSE
  /\ rpc' = "select"
  /\ first' = TRUE
  /\ batch' = {}
  /\ final' = FALSE
  /\ ctxDone' = FALSE
  /\ signalled' = {}
  /\ UNCHANGED <<ids, bufferVars, received, copies>>

Restart == rpc = "stopped" /\ StartProcess /\ UNCHANGED <<late, faults>>

\* SIGKILL, a panic or a power cut, possibly with a request under way.
Kill ==
  /\ rpc # "stopped"
  /\ faults < MaxFaults
  /\ faults' = faults + 1
  /\ StartProcess
  /\ late' = late \/ (rpc = "post" /\ late' = batch)

-----------------------------------------------------------------------------
Init ==
  /\ ids = [g \in Guids |-> 0]
  /\ seq = 0
  /\ status = [r \in RowIds |-> "absent"]
  /\ checkId = [r \in RowIds |-> 0]
  /\ producer = [r \in RowIds |-> NoGuid]
  /\ writer = [w \in Writers |-> IdleWriter]
  /\ flushCh = FALSE
  /\ rpc = "select"
  /\ first = TRUE
  /\ batch = {}
  /\ final = FALSE
  /\ ctxDone = FALSE
  /\ late = {}
  /\ received = {}
  /\ copies = [r \in RowIds |-> 0]
  /\ signalled = {}
  /\ faults = 0

Execute(w) ==
  \/ \E g \in Guids : ResolveCheck(w, g)
  \/ \E transition \in BOOLEAN : InsertResult(w, transition)
  \/ InsertFails(w)
  \/ TriggerFlush(w)

Report ==
  \/ WakeOnTimer \/ WakeOnFlush \/ WakeOnDone
  \/ ListRows \/ PostResults \/ PostTimesOut \/ ReportFails
  \/ MarkSent \/ MarkSentFails
  \/ \E old \in SUBSET RowIds : PurgeSentOlderThan(old)

Process == Cancel \/ Restart \/ Kill

Next ==
  \/ \E delta \in Deltas : ApplyChecksDelta(delta)
  \/ \E w \in Writers : Execute(w)
  \/ Report
  \/ LateRequestArrives
  \/ Process

Spec == Init /\ [][Next]_vars

\* The goroutine keeps running; neither the database nor the network fails
\* for ever; a select with several ready cases picks each of them sometime.
Fairness ==
  /\ WF_vars(WakeOnTimer)
  /\ SF_vars(WakeOnDone)
  /\ SF_vars(ListRows)
  /\ SF_vars(PostResults)
  /\ WF_vars(MarkSent)
  /\ WF_vars(\E old \in SUBSET RowIds : PurgeSentOlderThan(old))

FairSpec == Spec /\ Fairness

-----------------------------------------------------------------------------
\* A row leaves the retry set (sent = 1, or purged) only after the server has
\* ingested it: no kill, lost response, failed UPDATE or purge loses a result.
NoResultLost ==
  \A r \in RowIds : status[r] \in {"sent", "deleted"} => r \in RowsOf(received)

\* The server ingests a row a second time only for a reason: every copy beyond
\* the first is paid for by a kill, a lost response or a failed MarkSent.
DuplicatesNeedFaults == \A r \in RowIds : copies[r] <= 1 + faults

\* Results of one local check arrive in the order they were recorded: when a
\* row is at the server, so is every older row with the same check_id.
InOrderPerCheck ==
  \A p \in received : \A r \in RowIds :
    r < p[1] /\ checkId[r] = checkId[p[1]] => r \in RowsOf(received)

\* triggerFlush's "a pending signal already queued is enough": while a row's
\* signal is not covered by a report cycle begun since, the channel is full.
NoLostWakeup == signalled # {} => flushCh

\* What ListUnsent documents: the result of a check removed from the mirror is
\* excluded from upload, so what is uploaded carries its own check's guid.
UploadedUnderOwnGuid == \A p \in received : p[2] = producer[p[1]]

\* Every row that can be joined to a check is eventually uploaded and marked,
\* unless its check is removed or the Reporter is shut down first.
SendableIsSent == \A r \in RowIds : []<>(r \notin Sendable \/ rpc = "stopped")

\* The report cycle is a heartbeat: the server is called again and again, also
\* when there is nothing to upload.
Heartbeat == []<>(rpc \in {"post", "stopped"})

\* Cancelling the context ends the Reporter, whatever else is ready.
ShutdownEnds == []<>(rpc = "stopped" \/ ~ctxDone)

\* The abstract specification this module implements.
Abstract == INSTANCE AtLeastOnce WITH
  Rows <- RowIds,
  produced <- {r \in RowIds : status[r] # "absent"},
  received <- RowsOf(received),
  acked <- {r \in RowIds : status[r] \in {"sent", "deleted"}}

\* The pipeline implements at-least-once delivery.
ImplementsAtLeastOnce == Abstract!Spec
=============================================================================
