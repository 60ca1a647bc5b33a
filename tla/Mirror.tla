------------------------------- MODULE Mirror -------------------------------
(***************************************************************************)
(* The local mirror of the server's checks: syncOnce (sync.go), the         *)
(* transaction of ApplyChecksDelta and the statement of ImportPrivateCheck  *)
(* (store.go), with the server's catalogue of checks as the client sees it. *)
(*                                                                         *)
(* Metadata and content of a check are told apart by where they come from: *)
(* the server time at which they were saved, or the file they were         *)
(* imported from.                                                          *)
(***************************************************************************)
EXTENDS Naturals, FiniteSets, FiniteSetsExt

CONSTANTS
  Guids,        \* checks that may be assigned to this monitor
  Files,        \* definitions the operator may import
  MaxClock,     \* bound: changes made on the server
  MaxFailures   \* bound: syncs that fail or are killed

ASSUME BoundsAssumption == MaxClock \in Nat /\ MaxFailures \in Nat
ASSUME FilesAreNotTimes == Files \cap Nat = {}

VARIABLES
  catalog,      \* server: guid -> the check as the sync endpoint sends it
  clock,        \* server time
  checks,       \* checks: guid -> row
  watermark,    \* sync_state.last_synced_at, 0 for the epoch
  pc,           \* where syncOnce is
  snap,         \* the catalogue when the current response was made
  serverTime,   \* the server time in the current response
  todo,         \* checks of the response not yet applied
  tx,           \* the checks table as the open transaction sees it
  \* history, never read by the code
  synced,       \* the catalogue the last committed sync was a response from
  failures

serverVars == <<catalog, clock>>
dbVars == <<checks, watermark>>
syncVars == <<pc, snap, serverTime, todo, tx>>
vars == <<serverVars, dbVars, syncVars, synced, failures>>

-----------------------------------------------------------------------------
\* A check on the server.  A private one is sent without its definition.
Kinds == {"ordinary", "private", "deleted"}
ServerCheck == [kind : Kinds, at : 0..MaxClock]
Unassigned == [kind |-> "deleted", at |-> 0]

\* A row of checks.  meta: name, interval_sec, enabled and the other columns
\* that always follow the server; content: url and the columns guarded with it.
\* Time 0 stands for empty content.
Row == [id : Nat \ {0}, meta : 0..MaxClock \cup Files, content : 0..MaxClock \cup Files,
        locally_defined : BOOLEAN]
NoRow == [id |-> 0, meta |-> 0, content |-> 0, locally_defined |-> FALSE]
Table == [Guids -> Row \cup {NoRow}]

TypeOK ==
  /\ catalog \in [Guids -> ServerCheck]
  /\ clock \in 0..MaxClock
  /\ checks \in Table
  /\ watermark \in 0..MaxClock
  /\ pc \in {"idle", "fetched", "applying"}
  /\ snap \in [Guids -> ServerCheck]
  /\ serverTime \in 0..MaxClock
  /\ todo \in SUBSET Guids
  /\ tx \in Table
  /\ synced \in [Guids -> ServerCheck]
  /\ failures \in 0..MaxFailures

-----------------------------------------------------------------------------
(* The server, as far as the sync endpoint shows it.                       *)

\* The owner saves, hides or withdraws a check; updated_at moves on.
ChangeCheck(g, kind) ==
  /\ clock < MaxClock
  /\ clock' = clock + 1
  /\ catalog' = [catalog EXCEPT ![g] = [kind |-> kind, at |-> clock + 1]]
  /\ UNCHANGED <<dbVars, syncVars, synced, failures>>

-----------------------------------------------------------------------------
(* Statements on the checks table t.                                       *)

\* INTEGER PRIMARY KEY without AUTOINCREMENT.
NextId(t) == 1 + Max({t[h].id : h \in Guids} \cup {0})

Delete(t, g) == [t EXCEPT ![g] = NoRow]

\* INSERT OR REPLACE, which gives the row a new id.
UpsertReplacing(t, g, c) ==
  [t EXCEPT ![g] =
     [id |-> NextId(Delete(t, g)), meta |-> c.at,
      content |-> IF c.kind = "ordinary" THEN c.at ELSE t[g].content,
      locally_defined |-> c.kind # "ordinary" /\ t[g].locally_defined]]

\* Without the CASE WHEN excluded.url != '' guards.
UpsertUnguarded(t, g, c) ==
  [t EXCEPT ![g] =
     [id |-> IF t[g] = NoRow THEN NextId(t) ELSE t[g].id, meta |-> c.at,
      content |-> IF c.kind = "ordinary" THEN c.at ELSE 0, locally_defined |-> FALSE]]

\* With locally_defined kept when the server's content overwrites the row's.
UpsertKeepingFlag(t, g, c) ==
  [t EXCEPT ![g] =
     [id |-> IF t[g] = NoRow THEN NextId(t) ELSE t[g].id, meta |-> c.at,
      content |-> IF c.kind = "ordinary" THEN c.at ELSE t[g].content,
      locally_defined |-> t[g].locally_defined]]

\* Content and locally_defined change only when the server sent a definition.
\* A new row starts with the content sent, which may be none.
Upsert(t, g, c) ==
  LET id == IF t[g] = NoRow THEN NextId(t) ELSE t[g].id
      sent == c.kind = "ordinary"
  IN  [t EXCEPT ![g] =
         [id |-> id, meta |-> c.at,
          content |-> IF sent THEN c.at ELSE t[g].content,
          locally_defined |-> ~sent /\ t[g].locally_defined]]

Apply(t, g, c) == IF c.kind = "deleted" THEN Delete(t, g) ELSE Upsert(t, g, c)

\* A row seen for the first time is seeded whole; an existing one keeps its
\* metadata.
Import(t, g, f) ==
  LET new == t[g] = NoRow
  IN  [t EXCEPT ![g] =
         [id |-> IF new THEN NextId(t) ELSE t[g].id, meta |-> IF new THEN f ELSE t[g].meta,
          content |-> f, locally_defined |-> TRUE]]

-----------------------------------------------------------------------------
(* syncOnce.                                                               *)

\* GetLastSyncedAt and a successful FetchChecks: everything changed after the
\* watermark, and the server's own time.
FetchChecks ==
  /\ pc = "idle"
  /\ pc' = "fetched"
  /\ snap' = catalog
  /\ serverTime' = clock
  /\ todo' = {g \in Guids : catalog[g].at > watermark}
  /\ UNCHANGED <<serverVars, dbVars, tx, synced, failures>>

\* _txlock=immediate: from here no other connection writes.
BeginTransaction ==
  /\ pc = "fetched"
  /\ pc' = "applying"
  /\ tx' = checks
  /\ UNCHANGED <<serverVars, dbVars, snap, serverTime, todo, synced, failures>>

ApplyCheck(g) ==
  /\ pc = "applying"
  /\ g \in todo
  /\ tx' = Apply(tx, g, snap[g])
  /\ todo' = todo \ {g}
  /\ UNCHANGED <<serverVars, dbVars, pc, snap, serverTime, synced, failures>>

EndSync ==
  /\ pc' = "idle"
  /\ snap' = [g \in Guids |-> Unassigned]
  /\ serverTime' = 0
  /\ todo' = {}
  /\ tx' = [g \in Guids |-> NoRow]

\* The watermark taken from a clock read after the response was made.
CommitOwnClock ==
  /\ pc = "applying"
  /\ todo = {}
  /\ checks' = tx
  /\ watermark' = clock
  /\ synced' = snap
  /\ EndSync
  /\ UNCHANGED <<serverVars, failures>>

\* Advance the watermark to the response's server time and commit.
Commit ==
  /\ pc = "applying"
  /\ todo = {}
  /\ checks' = tx
  /\ watermark' = serverTime
  /\ synced' = snap
  /\ EndSync
  /\ UNCHANGED <<serverVars, failures>>

\* What autocommitted statements would leave behind.
SyncFailsHalfApplied ==
  /\ pc # "idle"
  /\ failures < MaxFailures
  /\ failures' = failures + 1
  /\ EndSync
  /\ checks' = IF pc = "applying" THEN tx ELSE checks
  /\ UNCHANGED <<serverVars, watermark, synced>>

\* The request or a statement fails and the transaction is rolled back, or the
\* process is killed and the next one recovers the database.
SyncFails ==
  /\ pc # "idle"
  /\ failures < MaxFailures
  /\ failures' = failures + 1
  /\ EndSync
  /\ UNCHANGED <<serverVars, dbVars, synced>>

\* monitor -import-private-check, a process of its own.
ImportPrivateCheck(g, f) ==
  /\ pc # "applying"
  /\ checks' = Import(checks, g, f)
  /\ UNCHANGED <<serverVars, watermark, syncVars, synced, failures>>

-----------------------------------------------------------------------------
Init ==
  /\ catalog = [g \in Guids |-> Unassigned]
  /\ clock = 0
  /\ checks = [g \in Guids |-> NoRow]
  /\ watermark = 0
  /\ pc = "idle"
  /\ snap = [g \in Guids |-> Unassigned]
  /\ serverTime = 0
  /\ todo = {}
  /\ tx = [g \in Guids |-> NoRow]
  /\ synced = [g \in Guids |-> Unassigned]
  /\ failures = 0

Server == \E g \in Guids, kind \in Kinds : ChangeCheck(g, kind)

Sync ==
  \/ FetchChecks
  \/ BeginTransaction
  \/ \E g \in Guids : ApplyCheck(g)
  \/ Commit

Next ==
  \/ Server
  \/ Sync
  \/ SyncFails
  \/ \E g \in Guids, f \in Files : ImportPrivateCheck(g, f)

Spec == Init /\ [][Next]_vars

\* The Syncer polls for ever and each step of a sync completes or fails.
FairSpec == Spec /\ WF_vars(Sync)

-----------------------------------------------------------------------------
\* A row agrees with what the server sends of its check: it exists exactly when
\* the check does, with the server's metadata, and with the server's content
\* unless content was imported over it.  Only an import makes a row for a check
\* the server does not send.
Agrees(c, row) ==
  IF c.kind = "deleted"
  THEN row = NoRow \/ (row.locally_defined /\ row.meta \in Files)
  ELSE /\ row # NoRow
       /\ row.meta = c.at
       /\ c.kind = "ordinary" => row.content = c.at \/ row.locally_defined

\* "a crash mid-sync can't leave the local mirror and the watermark
\* disagreeing": the mirror is the catalogue of one instant, and everything
\* changed on the server since then is after the watermark, so the next delta
\* carries it.
MirrorMatchesWatermark ==
  \A g \in Guids :
    /\ Agrees(synced[g], checks[g])
    /\ catalog[g].at <= watermark => catalog[g] = synced[g]

\* locally_defined marks exactly the rows whose content came from a file, the
\* rows -export-private-checks prints.
LocallyDefinedMeansImported ==
  \A g \in Guids : checks[g].locally_defined <=> checks[g].content \in Files

\* What was imported is replaced only by another import, by a definition the
\* server sent, or by the check's removal; metadata alone never erases it.
ImportedContentSurvives ==
  [][\A g \in Guids :
       checks[g].locally_defined /\ checks'[g].content # checks[g].content =>
         \/ checks'[g].locally_defined
         \/ pc = "applying" /\ snap[g].kind # "private"]_vars

\* While a check stays mirrored its local id does not change.
IdsAreStable ==
  [][\A g \in Guids :
       checks[g] # NoRow /\ checks'[g] # NoRow => checks'[g].id = checks[g].id]_vars

\* Once the server stops changing, the mirror catches up with it and stays so.
MirrorConverges == <>[](\A g \in Guids : Agrees(catalog[g], checks[g]))
=============================================================================
