---------------------------- MODULE MirrorProofs ----------------------------
(***************************************************************************)
(* Theorems about Mirror, for any checks, files, server changes and        *)
(* failures.                                                               *)
(***************************************************************************)
EXTENDS Mirror, LargestId

\* Ids are bounded, so there is a largest one to count on from.
IdsBounded(t) == \E n \in Nat : \A g \in Guids : t[g].id <= n

Flagged(t) == \A g \in Guids : t[g].locally_defined <=> t[g].content \in Files

\* Nothing is dated later than the response, or the clock, that it came from.
TimesInOrder ==
  /\ \A g \in Guids : catalog[g].at <= clock /\ snap[g].at <= serverTime
  /\ serverTime <= clock
  /\ watermark <= clock

\* The response in hand is the catalogue of one instant not before the
\* watermark, and it lists what changed in between.
ResponseIsACut ==
  pc # "idle" =>
    /\ watermark <= serverTime
    /\ \A g \in Guids :
         /\ catalog[g].at <= serverTime => catalog[g] = snap[g]
         /\ snap[g].at <= watermark => snap[g] = synced[g]
    /\ pc = "fetched" => todo = {g \in Guids : snap[g].at > watermark}

\* The open transaction has taken each check from the last catalogue to the new.
TransactionAdvances ==
  pc = "applying" =>
    \A g \in Guids : Agrees(IF g \in todo THEN synced[g] ELSE snap[g], tx[g])

\* What the open transaction may have done to a row: nothing before its turn,
\* never a new id, and no change of imported content unless the response says
\* so.  The table itself stands still meanwhile.
TransactionKeepsRows ==
  pc = "applying" =>
    \A g \in Guids :
      /\ g \in todo => tx[g] = checks[g]
      /\ checks[g] # NoRow /\ tx[g] # NoRow => tx[g].id = checks[g].id
      /\ snap[g].kind = "private" /\ checks[g].locally_defined =>
           tx[g].locally_defined /\ tx[g].content = checks[g].content

\* No check of the last committed catalogue was changed after its watermark.
SyncedByWatermark == \A g \in Guids : synced[g].at <= watermark

IInv ==
  /\ TypeOK
  /\ IdsBounded(checks) /\ IdsBounded(tx)
  /\ Flagged(checks) /\ Flagged(tx)
  /\ TimesInOrder
  /\ ResponseIsACut
  /\ TransactionAdvances
  /\ MirrorMatchesWatermark

USE BoundsAssumption, FilesAreNotTimes

-----------------------------------------------------------------------------
(* What the statements do to a table.                                      *)

\* The row a statement leaves for g; the other rows stay as they are.
Writes(t, u, g, row) == \A h \in Guids : u[h] = IF h = g THEN row ELSE t[h]

\* A row's id is its own, or the next one.
IdFor(t, g) == IF t[g] = NoRow THEN NextId(t) ELSE t[g].id

LEMMA NextIdTyped ==
  ASSUME NEW t \in Table, IdsBounded(t), NEW g \in Guids
  PROVE  IdFor(t, g) \in Nat \ {0}
<1>1. PICK n \in Nat : \A h \in Guids : t[h].id <= n
  BY DEF IdsBounded
<1> DEFINE id == [h \in Guids |-> t[h].id]
<1>2. id \in [Guids -> Nat] /\ \A h \in Guids : id[h] = t[h].id
  BY DEF Table, Row, NoRow
<1>3. {id[h] : h \in Guids} = {t[h].id : h \in Guids}
  OBVIOUS
<1>4. NextId(t) \in 1..(n + 1)
  <2> HIDE DEF id
  <2> QED BY <1>1, <1>2, <1>3, NextIdIsFresh DEF NextId
<1>5. t[g] # NoRow => t[g].id \in Nat \ {0}
  BY DEF Table, Row, NoRow
<1> QED BY <1>4, <1>5 DEF IdFor

\* A row with such an id keeps the ids bounded, and one marked as its content
\* demands keeps the table flagged.
LEMMA RowWritten ==
  ASSUME NEW t \in Table, IdsBounded(t), Flagged(t), NEW g \in Guids,
         NEW row \in Row, row.locally_defined <=> row.content \in Files,
         NEW u, u = [t EXCEPT ![g] = row]
  PROVE  u \in Table /\ IdsBounded(u) /\ Flagged(u) /\ Writes(t, u, g, row)
<1>1. u \in Table /\ Writes(t, u, g, row)
  BY DEF Table, Writes
<1>2. PICK n \in Nat : \A h \in Guids : t[h].id <= n
  BY DEF IdsBounded
<1>3. row.id \in Nat /\ \A h \in Guids : t[h].id \in Nat
  BY DEF Table, Row, NoRow
<1>4. row.id + n \in Nat /\ \A h \in Guids : t[h].id <= row.id + n /\ row.id <= row.id + n
  BY <1>2, <1>3
<1>5. \A h \in Guids : u[h].id <= row.id + n
  BY <1>1, <1>4 DEF Writes
<1>6. Flagged(u)
  BY <1>1 DEF Flagged, Writes
<1> QED BY <1>1, <1>4, <1>5, <1>6 DEF IdsBounded

LEMMA DeleteStep ==
  ASSUME NEW t \in Table, IdsBounded(t), Flagged(t), NEW g \in Guids
  PROVE  /\ Delete(t, g) \in Table /\ IdsBounded(Delete(t, g)) /\ Flagged(Delete(t, g))
         /\ Writes(t, Delete(t, g), g, NoRow)
<1> DEFINE u == Delete(t, g)
<1>1. u \in Table /\ Writes(t, u, g, NoRow)
  BY DEF Table, Writes, Delete
<1>2. PICK n \in Nat : \A h \in Guids : t[h].id <= n
  BY DEF IdsBounded
<1>3. NoRow.id = 0 /\ NoRow.content = 0 /\ ~NoRow.locally_defined
  BY DEF NoRow
<1> HIDE DEF u
<1>4. \A h \in Guids : u[h].id <= n
  BY <1>1, <1>2, <1>3 DEF Writes
<1>5. Flagged(u)
  BY <1>1, <1>3 DEF Flagged, Writes
<1> QED BY <1>1, <1>4, <1>5 DEF IdsBounded, u

LEMMA UpsertStep ==
  ASSUME NEW t \in Table, IdsBounded(t), Flagged(t), NEW g \in Guids,
         NEW c \in ServerCheck, c.kind # "deleted"
  PROVE  /\ Upsert(t, g, c) \in Table /\ IdsBounded(Upsert(t, g, c)) /\ Flagged(Upsert(t, g, c))
         /\ \E row : Writes(t, Upsert(t, g, c), g, row) /\ Agrees(c, row)
<1> DEFINE sent == c.kind = "ordinary"
           row == [id |-> IdFor(t, g), meta |-> c.at,
                   content |-> IF sent THEN c.at ELSE t[g].content,
                   locally_defined |-> ~sent /\ t[g].locally_defined]
<1>1. IdFor(t, g) \in Nat \ {0}
  BY NextIdTyped
<1>2. c.at \in 0..MaxClock /\ c.at \notin Files
  BY DEF ServerCheck
<1>3. /\ t[g].content \in 0..MaxClock \cup Files
      /\ t[g].locally_defined <=> t[g].content \in Files
  BY DEF Table, Row, NoRow, Flagged
<1>4. row \in Row
  BY <1>1, <1>2, <1>3 DEF Row
<1>5. row.id = IdFor(t, g) /\ (row.locally_defined <=> row.content \in Files)
  BY <1>2, <1>3
<1>6. Upsert(t, g, c) = [t EXCEPT ![g] = row]
  BY DEF Upsert, IdFor
<1>7. Agrees(c, row)
  <2>1. row # NoRow
    BY <1>1 DEF NoRow
  <2> QED BY <2>1 DEF Agrees
<1> HIDE DEF row
<1> QED BY <1>4, <1>5, <1>6, <1>7, RowWritten

LEMMA ImportStep ==
  ASSUME NEW t \in Table, IdsBounded(t), Flagged(t), NEW g \in Guids, NEW f \in Files
  PROVE  /\ Import(t, g, f) \in Table /\ IdsBounded(Import(t, g, f)) /\ Flagged(Import(t, g, f))
         /\ \E row : /\ Writes(t, Import(t, g, f), g, row)
                     /\ row.content = f /\ row.locally_defined
                     /\ \A c \in ServerCheck : Agrees(c, t[g]) => Agrees(c, row)
<1> DEFINE row == [id |-> IdFor(t, g), meta |-> IF t[g] = NoRow THEN f ELSE t[g].meta,
                   content |-> f, locally_defined |-> TRUE]
<1>1. IdFor(t, g) \in Nat \ {0}
  BY NextIdTyped
<1>2. t[g].meta \in 0..MaxClock \cup Files
  BY DEF Table, Row, NoRow
<1>3. row \in Row
  BY <1>1, <1>2 DEF Row
<1>4. row.id = IdFor(t, g) /\ (row.locally_defined <=> row.content \in Files)
  OBVIOUS
<1>5. Import(t, g, f) = [t EXCEPT ![g] = row]
  BY DEF Import, IdFor
<1>6. \A c \in ServerCheck : Agrees(c, t[g]) => Agrees(c, row)
  <2>1. row # NoRow
    BY <1>1 DEF NoRow
  <2> QED BY <2>1 DEF Agrees
<1>7. row.content = f /\ row.locally_defined
  OBVIOUS
<1> HIDE DEF row
<1> QED BY <1>3, <1>4, <1>5, <1>6, <1>7, RowWritten

LEMMA ApplyStep ==
  ASSUME NEW t \in Table, IdsBounded(t), Flagged(t), NEW g \in Guids, NEW c \in ServerCheck
  PROVE  /\ Apply(t, g, c) \in Table /\ IdsBounded(Apply(t, g, c)) /\ Flagged(Apply(t, g, c))
         /\ \E row : Writes(t, Apply(t, g, c), g, row) /\ Agrees(c, row)
<1>1. CASE c.kind = "deleted"
  <2>1. Agrees(c, NoRow)
    BY <1>1 DEF Agrees
  <2> QED BY <1>1, <2>1, DeleteStep DEF Apply
<1>2. CASE c.kind # "deleted"
  BY <1>2, UpsertStep DEF Apply
<1> QED BY <1>1, <1>2

LEMMA EmptyTable ==
  LET t == [g \in Guids |-> NoRow]
  IN  t \in Table /\ IdsBounded(t) /\ Flagged(t)
<1>1. 0 \in Nat /\ \A g \in Guids : [h \in Guids |-> NoRow][g].id <= 0
  BY DEF NoRow
<1> QED BY <1>1 DEF Table, IdsBounded, Flagged, NoRow

-----------------------------------------------------------------------------
(* The steps.                                                              *)

LEMMA InitIInv == Init => IInv
<1> SUFFICES ASSUME Init PROVE IInv
  OBVIOUS
<1> USE DEF Init
<1>1. checks \in Table /\ IdsBounded(checks) /\ Flagged(checks)
  BY EmptyTable
<1>2. tx = checks
  OBVIOUS
<1>3. Unassigned \in ServerCheck /\ Unassigned.at = 0 /\ Agrees(Unassigned, NoRow)
  BY DEF Unassigned, ServerCheck, Kinds, Agrees
<1>4. TypeOK
  BY <1>1, <1>3 DEF TypeOK
<1>5. MirrorMatchesWatermark
  BY <1>3 DEF MirrorMatchesWatermark
<1>6. TimesInOrder
  BY <1>3 DEF TimesInOrder
<1> QED
  BY <1>1, <1>2, <1>4, <1>5, <1>6 DEF IInv, ResponseIsACut, TransactionAdvances

\* Between two syncs nothing is in hand.
LEMMA EndSyncClears ==
  ASSUME EndSync
  PROVE  /\ pc' = "idle" /\ serverTime' = 0 /\ todo' = {}
         /\ snap' \in [Guids -> ServerCheck] /\ (\A g \in Guids : snap'[g].at = 0)
         /\ tx' \in Table /\ IdsBounded(tx') /\ Flagged(tx')
<1>1. tx' \in Table /\ IdsBounded(tx') /\ Flagged(tx')
  BY EmptyTable DEF EndSync
<1> QED BY <1>1 DEF EndSync, Unassigned, ServerCheck, Kinds

LEMMA ChangeCheckStep ==
  ASSUME IInv, NEW g \in Guids, NEW kind \in Kinds, ChangeCheck(g, kind)
  PROVE  IInv'
<1> USE DEF IInv, ChangeCheck, dbVars, syncVars
<1>1. clock' = clock + 1 /\ clock \in Nat /\ clock' \in 0..MaxClock
  BY DEF TypeOK
<1>2. [kind |-> kind, at |-> clock + 1] \in ServerCheck
  BY <1>1 DEF ServerCheck
<1>3. TypeOK'
  BY <1>1, <1>2 DEF TypeOK
<1>4. \A h \in Guids : catalog'[h] = catalog[h] \/ catalog'[h].at = clock + 1
  BY DEF TypeOK
<1>5. \A h \in Guids : /\ catalog[h].at \in Nat /\ catalog[h].at <= clock
                       /\ snap[h].at \in Nat /\ snap[h].at <= serverTime
  BY DEF TypeOK, ServerCheck, TimesInOrder
<1>6. serverTime \in Nat /\ serverTime <= clock /\ watermark \in Nat /\ watermark <= clock
  BY DEF TypeOK, TimesInOrder
<1>7. TimesInOrder'
  <2>1. \A h \in Guids : catalog'[h].at <= clock'
    BY <1>1, <1>4, <1>5
  <2>2. serverTime <= clock' /\ watermark <= clock'
    BY <1>1, <1>6
  <2> QED BY <1>5, <2>1, <2>2 DEF TimesInOrder
<1>8. \A h \in Guids : /\ catalog'[h].at <= serverTime => catalog'[h] = catalog[h]
                       /\ catalog'[h].at <= watermark => catalog'[h] = catalog[h]
  BY <1>1, <1>4, <1>6
<1>9. ResponseIsACut'
  BY <1>8 DEF ResponseIsACut
<1>10. TransactionAdvances'
  BY DEF TransactionAdvances
<1>11. MirrorMatchesWatermark'
  BY <1>8 DEF MirrorMatchesWatermark
<1> QED BY <1>3, <1>7, <1>9, <1>10, <1>11

LEMMA FetchChecksStep ==
  ASSUME IInv, FetchChecks
  PROVE  IInv'
<1> USE DEF IInv, FetchChecks, serverVars, dbVars
<1>1. TypeOK'
  BY DEF TypeOK
<1>2. TimesInOrder'
  BY DEF TimesInOrder, TypeOK
<1>3. ResponseIsACut'
  BY DEF ResponseIsACut, TimesInOrder, MirrorMatchesWatermark
<1>4. TransactionAdvances' /\ MirrorMatchesWatermark'
  BY DEF TransactionAdvances, MirrorMatchesWatermark
<1> QED BY <1>1, <1>2, <1>3, <1>4

LEMMA BeginTransactionStep ==
  ASSUME IInv, BeginTransaction
  PROVE  IInv'
<1> USE DEF IInv, BeginTransaction, serverVars, dbVars
<1>1. TypeOK'
  BY DEF TypeOK
<1>2. TimesInOrder' /\ MirrorMatchesWatermark' /\ ResponseIsACut'
  BY DEF TimesInOrder, MirrorMatchesWatermark, ResponseIsACut
<1>3. \A g \in Guids \ todo : snap[g] = synced[g]
  <2>1. \A g \in Guids : snap[g].at \in Nat /\ watermark \in Nat
    BY DEF TypeOK, ServerCheck
  <2> QED BY <2>1 DEF ResponseIsACut
<1>4. TransactionAdvances'
  BY <1>3 DEF TransactionAdvances, MirrorMatchesWatermark
<1> QED BY <1>1, <1>2, <1>4

LEMMA ApplyCheckStep ==
  ASSUME IInv, NEW g \in Guids, ApplyCheck(g)
  PROVE  IInv'
<1> USE DEF IInv, ApplyCheck, serverVars, dbVars
<1>1. tx \in Table /\ snap[g] \in ServerCheck
  BY DEF TypeOK
<1>2. /\ tx' \in Table /\ IdsBounded(tx') /\ Flagged(tx')
      /\ \E row : Writes(tx, tx', g, row) /\ Agrees(snap[g], row)
  BY <1>1, ApplyStep
<1>3. PICK row : Writes(tx, tx', g, row) /\ Agrees(snap[g], row)
  BY <1>2
<1>4. TypeOK'
  BY <1>2 DEF TypeOK
<1>5. TimesInOrder' /\ MirrorMatchesWatermark' /\ ResponseIsACut'
  BY DEF TimesInOrder, MirrorMatchesWatermark, ResponseIsACut
<1>6. TransactionAdvances'
  BY <1>3 DEF TransactionAdvances, Writes
<1> QED BY <1>2, <1>4, <1>5, <1>6

LEMMA CommitStep ==
  ASSUME IInv, Commit
  PROVE  IInv'
<1> USE DEF IInv, Commit, serverVars
<1>1. /\ pc' = "idle" /\ serverTime' = 0 /\ todo' = {}
      /\ snap' \in [Guids -> ServerCheck] /\ (\A g \in Guids : snap'[g].at = 0)
      /\ tx' \in Table /\ IdsBounded(tx') /\ Flagged(tx')
  BY EndSyncClears
<1>2. TypeOK'
  BY <1>1 DEF TypeOK
<1>3. TimesInOrder'
  BY <1>1 DEF TimesInOrder, TypeOK
<1>4. MirrorMatchesWatermark'
  BY DEF MirrorMatchesWatermark, TransactionAdvances, ResponseIsACut
<1> QED BY <1>1, <1>2, <1>3, <1>4 DEF ResponseIsACut, TransactionAdvances

LEMMA SyncFailsStep ==
  ASSUME IInv, SyncFails
  PROVE  IInv'
<1> USE DEF IInv, SyncFails, serverVars, dbVars
<1>1. /\ pc' = "idle" /\ serverTime' = 0 /\ todo' = {}
      /\ snap' \in [Guids -> ServerCheck] /\ (\A g \in Guids : snap'[g].at = 0)
      /\ tx' \in Table /\ IdsBounded(tx') /\ Flagged(tx')
  BY EndSyncClears
<1>2. failures' \in 0..MaxFailures
  BY DEF TypeOK
<1>3. TypeOK'
  BY <1>1, <1>2 DEF TypeOK
<1>4. TimesInOrder' /\ MirrorMatchesWatermark'
  BY <1>1 DEF TimesInOrder, MirrorMatchesWatermark, TypeOK
<1> QED BY <1>1, <1>3, <1>4 DEF ResponseIsACut, TransactionAdvances

LEMMA ImportPrivateCheckStep ==
  ASSUME IInv, NEW g \in Guids, NEW f \in Files, ImportPrivateCheck(g, f)
  PROVE  IInv'
<1> USE DEF IInv, ImportPrivateCheck, serverVars, syncVars
<1>1. checks \in Table /\ \A h \in Guids : synced[h] \in ServerCheck
  BY DEF TypeOK
<1>2. /\ checks' \in Table /\ IdsBounded(checks') /\ Flagged(checks')
      /\ \E row : /\ Writes(checks, checks', g, row)
                  /\ \A c \in ServerCheck : Agrees(c, checks[g]) => Agrees(c, row)
  BY <1>1, ImportStep
<1>3. TypeOK'
  BY <1>2 DEF TypeOK
<1>4. TimesInOrder' /\ ResponseIsACut' /\ TransactionAdvances'
  BY DEF TimesInOrder, ResponseIsACut, TransactionAdvances
<1>5. MirrorMatchesWatermark'
  BY <1>1, <1>2 DEF MirrorMatchesWatermark, Writes
<1> QED BY <1>2, <1>3, <1>4, <1>5

LEMMA NextIInv == IInv /\ [Next]_vars => IInv'
<1> SUFFICES ASSUME IInv, [Next]_vars PROVE IInv'
  OBVIOUS
<1>1. CASE Server
  BY <1>1, ChangeCheckStep DEF Server
<1>2. CASE Sync
  BY <1>2, FetchChecksStep, BeginTransactionStep, ApplyCheckStep, CommitStep DEF Sync
<1>3. CASE SyncFails
  BY <1>3, SyncFailsStep
<1>4. CASE \E g \in Guids, f \in Files : ImportPrivateCheck(g, f)
  BY <1>4, ImportPrivateCheckStep
<1>5. CASE UNCHANGED vars
  BY <1>5 DEF vars, serverVars, dbVars, syncVars, IInv, TypeOK, IdsBounded, Flagged, TimesInOrder,
              ResponseIsACut, TransactionAdvances, MirrorMatchesWatermark
<1> QED BY <1>1, <1>2, <1>3, <1>4, <1>5 DEF Next

-----------------------------------------------------------------------------
(* What the steps do to the rows.                                          *)

LEMMA TransactionStep ==
  ASSUME IInv, TransactionKeepsRows, [Next]_vars
  PROVE  TransactionKeepsRows'
<1> USE DEF TransactionKeepsRows
<1>1. CASE Server
  BY <1>1 DEF Server, ChangeCheck, dbVars, syncVars
<1>2. CASE FetchChecks
  BY <1>2 DEF FetchChecks
<1>3. CASE BeginTransaction
  BY <1>3 DEF BeginTransaction, dbVars
<1>4. ASSUME NEW g \in Guids, ApplyCheck(g) PROVE TransactionKeepsRows'
  <2>1. /\ pc = "applying" /\ g \in todo /\ tx' = Apply(tx, g, snap[g])
        /\ todo' = todo \ {g} /\ checks' = checks /\ snap' = snap
    BY <1>4 DEF ApplyCheck, dbVars
  <2>2. tx[g] = checks[g] /\ tx \in Table
    BY <2>1 DEF IInv, TypeOK
  <2>3. \A h \in Guids : h # g => tx'[h] = tx[h]
    BY <2>1, <2>2 DEF Apply, Delete, Upsert, Table
  <2>4. tx[g] # NoRow /\ tx'[g] # NoRow => tx'[g].id = tx[g].id
    BY <2>1, <2>2 DEF Apply, Delete, Upsert, Table
  <2>5. snap[g].kind = "private" =>
          /\ tx'[g].locally_defined <=> tx[g].locally_defined
          /\ tx'[g].content = tx[g].content
    BY <2>1, <2>2 DEF Apply, Upsert, Table
  <2> QED BY <2>1, <2>2, <2>3, <2>4, <2>5
<1>5. CASE Commit \/ SyncFails
  BY <1>5 DEF Commit, SyncFails, EndSync
<1>6. ASSUME NEW g \in Guids, NEW f \in Files, ImportPrivateCheck(g, f)
      PROVE  TransactionKeepsRows'
  BY <1>6 DEF ImportPrivateCheck, syncVars
<1>7. CASE UNCHANGED vars
  BY <1>7 DEF vars, dbVars, syncVars
<1> QED BY <1>1, <1>2, <1>3, <1>4, <1>5, <1>6, <1>7 DEF Next, Sync

\* The table changes at a commit and by an import only.
LEMMA TableChanges ==
  ASSUME [Next]_vars
  PROVE  \/ checks' = checks
         \/ pc = "applying" /\ checks' = tx
         \/ \E g \in Guids, f \in Files : checks' = Import(checks, g, f)
<1>1. CASE Sync
  BY <1>1 DEF Sync, FetchChecks, BeginTransaction, ApplyCheck, Commit, dbVars
<1>2. CASE Server \/ SyncFails \/ UNCHANGED vars
  BY <1>2 DEF Server, ChangeCheck, SyncFails, vars, dbVars
<1>3. CASE \E g \in Guids, f \in Files : ImportPrivateCheck(g, f)
  BY <1>3 DEF ImportPrivateCheck
<1> QED BY <1>1, <1>2, <1>3 DEF Next

LEMMA ContentStep ==
  ASSUME IInv, TransactionKeepsRows, [Next]_vars, NEW g \in Guids,
         checks[g].locally_defined, checks'[g].content # checks[g].content
  PROVE  checks'[g].locally_defined \/ (pc = "applying" /\ snap[g].kind # "private")
<1>1. CASE pc = "applying" /\ checks' = tx
  BY <1>1 DEF TransactionKeepsRows
<1>2. ASSUME NEW h \in Guids, NEW f \in Files, checks' = Import(checks, h, f)
      PROVE  checks'[g].locally_defined
  BY <1>2 DEF Import, IInv, TypeOK, Table
<1> QED BY <1>1, <1>2, TableChanges

LEMMA IdStep ==
  ASSUME IInv, TransactionKeepsRows, [Next]_vars, NEW g \in Guids,
         checks[g] # NoRow, checks'[g] # NoRow
  PROVE  checks'[g].id = checks[g].id
<1>1. CASE pc = "applying" /\ checks' = tx
  BY <1>1 DEF TransactionKeepsRows
<1>2. ASSUME NEW h \in Guids, NEW f \in Files, checks' = Import(checks, h, f)
      PROVE  checks'[g].id = checks[g].id
  BY <1>2 DEF Import, IInv, TypeOK, Table
<1> QED BY <1>1, <1>2, TableChanges

-----------------------------------------------------------------------------
(* The theorems.                                                           *)

\* The strengthening is an invariant of syncs, imports and changes.
THEOREM Invariance == Spec => []IInv
<1>1. Init => IInv
  BY InitIInv
<1>2. IInv /\ [Next]_vars => IInv'
  BY NextIInv
<1> QED BY <1>1, <1>2, PTL DEF Spec

\* Types, for any number of checks, changes and failures.
THEOREM MirrorTypes == Spec => []TypeOK
<1>1. IInv => TypeOK
  BY DEF IInv
<1> QED BY <1>1, Invariance, PTL

\* A sync that fails or is killed half-way leaves mirror and watermark agreed.
THEOREM MirrorKeepsItsWatermark == Spec => []MirrorMatchesWatermark
<1>1. IInv => MirrorMatchesWatermark
  BY DEF IInv
<1> QED BY <1>1, Invariance, PTL

\* locally_defined marks exactly the checks whose content came from a file.
THEOREM FlagTellsImports == Spec => []LocallyDefinedMeansImported
<1>1. IInv => LocallyDefinedMeansImported
  BY DEF IInv, Flagged, LocallyDefinedMeansImported
<1> QED BY <1>1, Invariance, PTL

\* A transaction keeps rows, besides what it owes the catalogue.
THEOREM RowsInvariance == Spec => [](IInv /\ TransactionKeepsRows)
<1>1. Init => TransactionKeepsRows
  BY DEF Init, TransactionKeepsRows
<1>2. IInv /\ TransactionKeepsRows /\ [Next]_vars => TransactionKeepsRows'
  BY TransactionStep
<1> QED BY <1>1, <1>2, Invariance, PTL DEF Spec

\* No sync erases imported content on the strength of metadata alone, whatever
\* the transaction's order and wherever an earlier one stopped.
THEOREM ImportsSurvive == Spec => ImportedContentSurvives
<1>1. IInv /\ TransactionKeepsRows /\ [Next]_vars =>
        \A g \in Guids :
          checks[g].locally_defined /\ checks'[g].content # checks[g].content =>
            \/ checks'[g].locally_defined
            \/ pc = "applying" /\ snap[g].kind # "private"
  BY ContentStep
<1> QED BY <1>1, RowsInvariance, PTL DEF ImportedContentSurvives, Spec

\* The local id of a check that stays mirrored does not change, so a result or
\* a schedule made before a sync names the same check after it.
THEOREM IdsStay == Spec => IdsAreStable
<1>1. IInv /\ TransactionKeepsRows /\ [Next]_vars =>
        \A g \in Guids :
          checks[g] # NoRow /\ checks'[g] # NoRow => checks'[g].id = checks[g].id
  BY IdStep
<1> QED BY <1>1, RowsInvariance, PTL DEF IdsAreStable, Spec

\* What MirrorConverges comes to: a watermark that has reached the server's
\* clock says the mirror has reached its catalogue.
THEOREM CaughtUpMirrors ==
  Spec => [](watermark = clock => \A g \in Guids : Agrees(catalog[g], checks[g]))
<1>1. IInv => (watermark = clock => \A g \in Guids : Agrees(catalog[g], checks[g]))
  BY DEF IInv, TimesInOrder, MirrorMatchesWatermark
<1> QED BY <1>1, Invariance, PTL
\* A sync takes the mirror forward only: neither the watermark nor any check's
\* version goes back, however old the response that commits.
THEOREM MirrorGoesForward ==
  Spec => [][watermark' >= watermark /\ \A g \in Guids : synced'[g].at >= synced[g].at]_vars
<1>1. Init => SyncedByWatermark
  BY DEF Init, SyncedByWatermark, Unassigned
<1>2. ASSUME IInv, SyncedByWatermark, [Next]_vars
      PROVE  /\ SyncedByWatermark'
             /\ watermark' >= watermark /\ \A g \in Guids : synced'[g].at >= synced[g].at
  <2>1. /\ watermark \in Nat /\ serverTime \in Nat
        /\ \A g \in Guids : synced[g].at \in Nat /\ snap[g].at \in Nat
    BY <1>2 DEF IInv, TypeOK, ServerCheck
  <2>2. CASE Commit
    <3>1. pc = "applying" /\ watermark' = serverTime /\ synced' = snap
      BY <2>2 DEF Commit
    <3>2. /\ watermark <= serverTime
          /\ \A g \in Guids : /\ snap[g].at <= watermark => snap[g] = synced[g]
                            /\ snap[g].at <= serverTime
      BY <1>2, <3>1 DEF IInv, ResponseIsACut, TimesInOrder
    <3> QED BY <1>2, <2>1, <3>1, <3>2 DEF SyncedByWatermark
  <2>3. CASE UNCHANGED <<watermark, synced>>
    BY <1>2, <2>1, <2>3 DEF SyncedByWatermark
  <2> QED
    BY <1>2, <2>2, <2>3 DEF Next, Server, ChangeCheck, Sync, FetchChecks, BeginTransaction,
       ApplyCheck, SyncFails, ImportPrivateCheck, vars, dbVars
<1> QED BY <1>1, <1>2, Invariance, PTL DEF Spec
=============================================================================
