--------------------------- MODULE DeliveryProofs ---------------------------
(***************************************************************************)
(* Theorems about Delivery, for every number of checks, goroutines, rows   *)
(* and faults and every batch size.                                        *)
(***************************************************************************)
EXTENDS Delivery, FiniteSetTheorems, TLAPS

\* Row ids are handed out in order, and only to rows that exist.
RowsAllocated == \A r \in RowIds : status[r] = "absent" <=> r > seq

\* A batch exists only between its listing and the end of its reportOnce, and
\* all of its rows are still unsent.
BatchUnsent ==
  /\ rpc \notin {"post", "mark"} => batch = {}
  /\ \A p \in batch : status[p[1]] = "unsent"

\* Only existing rows travel.
TravellersExist == \A p \in received \cup late : status[p[1]] # "absent"

\* MarkSent is called with rows the server has confirmed.
MarkedWasReceived == rpc = "mark" => batch \subseteq received

\* Copies ingested or still under way are paid for by faults, but for the one
\* that was, or is about to be, recorded as sent.
Confirmed(r) == status[r] \in {"sent", "deleted"} \/ (rpc = "mark" /\ r \in RowsOf(batch))
CopiesPaidFor ==
  \A r \in RowIds :
    copies[r] + (IF r \in RowsOf(late) THEN 1 ELSE 0)
      <= faults + (IF Confirmed(r) THEN 1 ELSE 0)

\* Whatever carries a row carries the older rows of the same check too, unless
\* the server already has them.
CarriesOlder(pairs) ==
  \A p \in pairs : \A r \in RowIds :
    r < p[1] /\ checkId[r] = checkId[p[1]] => r \in RowsOf(received \cup pairs)

IInv ==
  /\ TypeOK
  /\ RowsAllocated
  /\ BatchUnsent
  /\ TravellersExist
  /\ MarkedWasReceived
  /\ NoResultLost
  /\ CopiesPaidFor
  /\ CarriesOlder(batch)
  /\ CarriesOlder(late)
  /\ CarriesOlder(received)
  /\ NoLostWakeup

-----------------------------------------------------------------------------
USE BatchSizeAssumption, BoundsAssumption

\* LIMIT after ORDER BY id keeps a downward closed part of the rows.
LEMMA OldestIsDownwardClosed ==
  ASSUME NEW S, S \subseteq RowIds, NEW n \in Nat,
         NEW p \in Oldest(S, n), NEW r \in S, r < p
  PROVE  r \in Oldest(S, n)
<1> DEFINE Upto(x) == {q \in S : q <= x}
<1>1. IsFiniteSet(RowIds)
  BY FS_Interval DEF RowIds
<1>2. IsFiniteSet(Upto(p))
  BY <1>1, FS_Subset
<1>3. Upto(r) \subseteq Upto(p)
  <2>1. p \in S /\ S \subseteq Int
    BY DEF Oldest, RowIds
  <2>2. \A q \in S : q <= r => q <= p
    BY <2>1
  <2> QED BY <2>2
<1>4. /\ IsFiniteSet(Upto(r))
      /\ Cardinality(Upto(r)) <= Cardinality(Upto(p))
  BY <1>2, <1>3, FS_Subset
<1>5. Cardinality(Upto(r)) \in Nat /\ Cardinality(Upto(p)) \in Nat
  BY <1>2, <1>4, FS_CardinalityType
<1>6. Cardinality(Upto(p)) <= n
  BY DEF Oldest
<1> QED BY <1>4, <1>5, <1>6 DEF Oldest

\* What a goroutine remembers in each place of execute.
LEMMA WriterStates ==
  ASSUME NEW x \in WriterState
  PROVE  /\ x.pc = "resolved" => x.id \in 0..MaxId /\ x.guid \in Guids
         /\ x.pc = "inserted" => x.row \in RowIds
<1>1. CASE x = IdleWriter
  BY <1>1 DEF IdleWriter
<1>2. CASE x \in Resolved
  BY <1>2 DEF Resolved
<1>3. CASE x \in Inserted
  BY <1>3 DEF Inserted
<1> QED BY <1>1, <1>2, <1>3 DEF WriterState

-----------------------------------------------------------------------------
\* Type correctness, step by step.
LEMMA TypeStep == TypeOK /\ [Next]_vars => TypeOK'
<1> SUFFICES ASSUME TypeOK, [Next]_vars PROVE TypeOK'
  OBVIOUS
<1> USE DEF TypeOK, bufferVars, reporterVars, serverVars, RowIds
<1>1. ASSUME NEW delta \in Deltas, ApplyChecksDelta(delta) PROVE TypeOK'
  BY <1>1 DEF ApplyChecksDelta
<1>0. {} \in SUBSET (RowIds \X Guids) /\ IdleWriter \in WriterState
  BY DEF WriterState
<1>2. ASSUME NEW w \in Writers, NEW g \in Guids, ResolveCheck(w, g) PROVE TypeOK'
  <2>1. [pc |-> "resolved", guid |-> g, id |-> ids[g], row |-> 0] \in WriterState
    BY <1>2 DEF WriterState, Resolved, ResolveCheck
  <2> QED BY <1>2, <2>1 DEF ResolveCheck
<1>3. ASSUME NEW w \in Writers, NEW transition \in BOOLEAN, InsertResult(w, transition)
      PROVE  TypeOK'
  <2>1. seq + 1 \in RowIds
    BY <1>3 DEF InsertResult
  <2>2. [pc |-> "inserted", guid |-> NoGuid, id |-> 0, row |-> seq + 1] \in WriterState
    BY <2>1 DEF WriterState, Inserted
  <2>3. writer[w] \in WriterState /\ writer[w].pc = "resolved"
    BY <1>3 DEF InsertResult
  <2>5. writer[w].id \in 0..MaxId /\ writer[w].guid \in Guids
    BY <2>3, WriterStates
  <2>6. /\ status' \in [RowIds -> {"absent", "unsent", "sent", "deleted"}]
        /\ checkId' \in [RowIds -> 0..MaxId]
        /\ producer' \in [RowIds -> Guids \cup {NoGuid}]
    BY <1>3, <2>1, <2>5 DEF InsertResult
  <2>4. writer' \in [Writers -> WriterState]
    BY <1>0, <1>3, <2>2 DEF InsertResult
  <2>7. /\ seq' \in 0..MaxRows
        /\ UNCHANGED <<ids, flushCh, reporterVars, ctxDone, serverVars,
                       signalled, faults>>
    BY <1>3, <2>1 DEF InsertResult
  <2> QED BY <2>4, <2>6, <2>7
<1>4. ASSUME NEW w \in Writers, InsertFails(w) PROVE TypeOK'
  <2>1. writer' \in [Writers -> WriterState]
    BY <1>0, <1>4 DEF InsertFails
  <2> QED BY <1>4, <2>1 DEF InsertFails
<1>15. ASSUME NEW w \in Writers, TriggerFlush(w) PROVE TypeOK'
  <2>1. writer[w].row \in RowIds
    BY <1>15, WriterStates DEF TriggerFlush
  <2>2. writer' \in [Writers -> WriterState]
    BY <1>0, <1>15 DEF TriggerFlush
  <2>3. signalled' \in SUBSET RowIds
    BY <1>15, <2>1 DEF TriggerFlush
  <2> QED BY <1>15, <2>2, <2>3 DEF TriggerFlush, SendFlush
<1>5. CASE WakeOnTimer \/ WakeOnFlush \/ WakeOnDone
  BY <1>5 DEF WakeOnTimer, WakeOnFlush, WakeOnDone, BeginReport
<1>16. ReturnFromReport =>
         /\ rpc' \in {"purge", "stopped"}
         /\ first' \in BOOLEAN
         /\ batch' \in SUBSET (RowIds \X Guids)
  BY <1>0 DEF ReturnFromReport
<1>6. CASE ListRows
  <2>1. ListUnsent \in SUBSET (RowIds \X Guids)
    BY DEF ListUnsent, Oldest, Sendable, Unsent
  <2>2. CASE ReturnFromReport
    BY <1>6, <1>16, <2>2 DEF ListRows
  <2>3. CASE rpc' = "post" /\ first' = FALSE /\ batch' = ListUnsent
    BY <1>6, <2>1, <2>3 DEF ListRows
  <2> QED BY <1>6, <2>2, <2>3 DEF ListRows
<1>17. ASSUME NEW b \in SUBSET (RowIds \X Guids), Ingest(b)
       PROVE  received' \in SUBSET (RowIds \X Guids) /\ copies' \in [RowIds -> Nat]
  BY <1>17 DEF Ingest
<1>7. CASE PostResults
  <2>1. received' \in SUBSET (RowIds \X Guids) /\ copies' \in [RowIds -> Nat]
    BY <1>7, <1>17 DEF PostResults
  <2>2. rpc' \in {"select", "list", "post", "mark", "purge", "stopped"}
    BY <1>7 DEF PostResults
  <2> QED BY <1>7, <2>1, <2>2 DEF PostResults
<1>8. CASE PostTimesOut \/ ReportFails \/ MarkSentFails
  <2>1. ReturnFromReport
    BY <1>8 DEF PostTimesOut, ReportFails, MarkSentFails
  <2>2. late' \in SUBSET (RowIds \X Guids) /\ faults' \in 0..MaxFaults
    BY <1>8 DEF PostTimesOut, ReportFails, MarkSentFails
  <2> QED BY <1>8, <1>16, <2>1, <2>2 DEF PostTimesOut, ReportFails, MarkSentFails
<1>9. CASE MarkSent
  BY <1>0, <1>9 DEF MarkSent, ReturnFromReport
<1>10. ASSUME NEW old \in SUBSET RowIds, PurgeSentOlderThan(old) PROVE TypeOK'
  BY <1>10 DEF PurgeSentOlderThan
<1>11. CASE LateRequestArrives
  <2>1. late' \in SUBSET (RowIds \X Guids)
    BY <1>0, <1>11 DEF LateRequestArrives
  <2>2. received' \in SUBSET (RowIds \X Guids) /\ copies' \in [RowIds -> Nat]
    BY <1>11, <1>17 DEF LateRequestArrives
  <2> QED BY <1>11, <2>1, <2>2 DEF LateRequestArrives
<1>12. CASE Cancel
  BY <1>12 DEF Cancel
<1>13. CASE Restart \/ Kill
  <2>1. StartProcess
    BY <1>13 DEF Restart, Kill
  <2>2. writer' \in [Writers -> WriterState] /\ batch' \in SUBSET (RowIds \X Guids)
    BY <1>0, <2>1 DEF StartProcess
  <2>3. late' \in SUBSET (RowIds \X Guids) /\ faults' \in 0..MaxFaults
    BY <1>13 DEF Restart, Kill
  <2> QED BY <2>1, <2>2, <2>3 DEF StartProcess
<1>14. CASE UNCHANGED vars
  BY <1>14 DEF vars
<1> QED
  BY <1>1, <1>2, <1>3, <1>4, <1>5, <1>6, <1>7, <1>8, <1>9, <1>10, <1>11, <1>12,
     <1>13, <1>14, <1>15 DEF Next, Execute, Report, Process

\* The database is empty and the process fresh.
LEMMA InitialType == Init => TypeOK
<1>1. {} \in SUBSET (RowIds \X Guids)
  OBVIOUS
<1>2. Init => writer \in [Writers -> WriterState]
  BY DEF Init, WriterState
<1>3. Init => /\ batch \in SUBSET (RowIds \X Guids)
              /\ late \in SUBSET (RowIds \X Guids)
              /\ received \in SUBSET (RowIds \X Guids)
  BY <1>1 DEF Init
<1>4. Init => /\ status \in [RowIds -> {"absent", "unsent", "sent", "deleted"}]
              /\ checkId \in [RowIds -> 0..MaxId]
              /\ producer \in [RowIds -> Guids \cup {NoGuid}]
              /\ copies \in [RowIds -> Nat]
              /\ ids \in [Guids -> 0..MaxId]
  BY DEF Init
<1>5. Init => /\ seq \in 0..MaxRows /\ faults \in 0..MaxFaults
              /\ signalled \in SUBSET RowIds
              /\ rpc \in {"select", "list", "post", "mark", "purge", "stopped"}
  BY DEF Init
<1>6. Init => /\ flushCh \in BOOLEAN /\ first \in BOOLEAN
              /\ final \in BOOLEAN /\ ctxDone \in BOOLEAN
  BY DEF Init
<1> QED BY <1>2, <1>3, <1>4, <1>5, <1>6 DEF TypeOK

\* Every variable always has the type its declaration announces.
THEOREM TypeCorrect == Spec => []TypeOK
<1>1. Init => TypeOK
  BY InitialType
<1>2. TypeOK /\ [Next]_vars => TypeOK'
  BY TypeStep
<1> QED BY <1>1, <1>2, PTL DEF Spec

-----------------------------------------------------------------------------
(* IInv is inductive.  Each lemma below takes one action (or a few that    *)
(* disturb the same conjuncts) and its successor's type from TypeStep.     *)

\* The variables IInv's conjuncts other than TypeOK speak of.
invVars == <<seq, status, checkId, batch, late, received, copies, faults, rpc,
             signalled, flushCh>>

\* Steps that leave these variables alone keep IInv.
LEMMA UnchangedStep ==
  ASSUME IInv, TypeOK', UNCHANGED invVars
  PROVE  IInv'
BY DEF IInv, invVars, RowsAllocated, BatchUnsent, TravellersExist,
       MarkedWasReceived, NoResultLost, CopiesPaidFor, Confirmed, CarriesOlder,
       NoLostWakeup, RowsOf

\* A new row is younger than every row that travels.
LEMMA InsertStep ==
  ASSUME IInv, TypeOK', NEW w \in Writers, NEW transition \in BOOLEAN,
         InsertResult(w, transition)
  PROVE  IInv'
<1> DEFINE n == seq + 1
<1>1. /\ n \in RowIds /\ seq \in Nat
      /\ seq' = n
      /\ status' = [status EXCEPT ![n] = "unsent"]
      /\ \A r \in RowIds : r # n => checkId'[r] = checkId[r]
      /\ UNCHANGED <<rpc, batch, late, received, copies, faults, signalled, flushCh>>
  BY BoundsAssumption DEF InsertResult, IInv, TypeOK, RowIds, reporterVars, serverVars
<1>2. /\ status \in [RowIds -> {"absent", "unsent", "sent", "deleted"}]
      /\ status[n] = "absent"
      /\ status'[n] = "unsent"
      /\ \A r \in RowIds : r # n => status'[r] = status[r]
  BY <1>1 DEF IInv, TypeOK, RowsAllocated, RowIds
<1>3. \A p \in batch \cup late \cup received : p[1] \in RowIds /\ p[1] < n
  <2>1. \A p \in batch \cup late \cup received : p[1] \in RowIds
    BY DEF IInv, TypeOK
  <2>2. \A p \in batch \cup late \cup received : status[p[1]] # "absent"
    BY DEF IInv, BatchUnsent, TravellersExist
  <2> QED BY <1>1, <2>1, <2>2 DEF IInv, RowsAllocated, RowIds
<1>4. RowsAllocated'
  BY <1>1, <1>2 DEF IInv, RowsAllocated, RowIds
<1>5. BatchUnsent' /\ TravellersExist'
  BY <1>1, <1>2, <1>3 DEF IInv, BatchUnsent, TravellersExist, RowIds
<1>6. MarkedWasReceived' /\ NoLostWakeup'
  BY <1>1 DEF IInv, MarkedWasReceived, NoLostWakeup
<1>7. NoResultLost'
  BY <1>1, <1>2 DEF IInv, NoResultLost
<1>8. CopiesPaidFor'
  <2>1. \A r \in RowIds : Confirmed(r)' <=> Confirmed(r)
    BY <1>1, <1>2 DEF Confirmed, RowsOf
  <2> QED BY <1>1, <2>1 DEF IInv, CopiesPaidFor, RowsOf
<1>9. \A S \in SUBSET (batch \cup late \cup received) :
        (\A p \in S : \A r \in RowIds : r < p[1] /\ checkId[r] = checkId[p[1]]
                     => r \in RowsOf(received \cup S))
        => \A p \in S : \A r \in RowIds : r < p[1] /\ checkId'[r] = checkId'[p[1]]
                     => r \in RowsOf(received \cup S)
  <2> SUFFICES ASSUME NEW S \in SUBSET (batch \cup late \cup received),
                      NEW p \in S, NEW r \in RowIds, r < p[1]
               PROVE  checkId'[r] = checkId[r] /\ checkId'[p[1]] = checkId[p[1]]
    OBVIOUS
  <2>1. p[1] \in RowIds /\ p[1] < n /\ r # n
    BY <1>1, <1>3 DEF RowIds
  <2> QED BY <1>1, <2>1
<1>10. CarriesOlder(batch)' /\ CarriesOlder(late)' /\ CarriesOlder(received)'
  BY <1>1, <1>9 DEF IInv, CarriesOlder, RowsOf
<1> QED BY <1>4, <1>5, <1>6, <1>7, <1>8, <1>10 DEF IInv

\* Signalling fills the channel; a cycle begins by covering all signals.
LEMMA SignalStep ==
  ASSUME IInv, TypeOK',
         (\E w \in Writers : TriggerFlush(w)) \/ WakeOnTimer \/ WakeOnFlush \/ WakeOnDone
  PROVE  IInv'
<1>1. /\ UNCHANGED <<seq, status, checkId, batch, late, received, copies, faults>>
      /\ UNCHANGED rpc \/ (rpc = "select" /\ rpc' = "list")
      /\ flushCh' = TRUE \/ signalled' = {}
  BY DEF TriggerFlush, SendFlush, WakeOnTimer, WakeOnFlush, WakeOnDone, BeginReport,
         bufferVars, reporterVars, serverVars
<1>2. NoLostWakeup'
  BY <1>1 DEF NoLostWakeup
<1> QED
  BY <1>1, <1>2 DEF IInv, RowsAllocated, BatchUnsent, TravellersExist,
     MarkedWasReceived, NoResultLost, CopiesPaidFor, Confirmed, CarriesOlder, RowsOf

\* A listing holds unsent rows only, and with a row every older unsent row of
\* the same check: it joins to the same guids, and ORDER BY comes before LIMIT.
LEMMA ListingFacts ==
  ASSUME IInv
  PROVE  /\ \A p \in ListUnsent : p[1] \in RowIds /\ status[p[1]] = "unsent"
         /\ CarriesOlder(ListUnsent)
<1>1. \A p \in ListUnsent :
        /\ p[1] \in Oldest(Sendable, BatchSize) /\ p[1] \in Sendable
        /\ p[1] \in RowIds /\ status[p[1]] = "unsent"
  BY DEF ListUnsent, Oldest, Sendable, Unsent
<1>2. SUFFICES ASSUME NEW p \in ListUnsent, NEW r \in RowIds,
                      r < p[1], checkId[r] = checkId[p[1]]
               PROVE  r \in RowsOf(received \cup ListUnsent)
  BY <1>1 DEF CarriesOlder
<1>3. CASE status[r] = "unsent"
  <2>1. Joined(r) = Joined(p[1])
    BY <1>2 DEF Joined
  <2>2. r \in Sendable
    BY <1>1, <1>3, <2>1 DEF Sendable, Unsent
  <2>3. r \in Oldest(Sendable, BatchSize)
    <3>1. Sendable \subseteq RowIds
      BY DEF Sendable, Unsent
    <3> QED BY <1>1, <1>2, <2>2, <3>1, OldestIsDownwardClosed
  <2>4. PICK g \in Guids : g \in Joined(r)
    BY <2>2 DEF Sendable, Joined
  <2>5. <<r, g>> \in ListUnsent
    BY <2>3, <2>4 DEF ListUnsent
  <2>6. <<r, g>>[1] = r
    OBVIOUS
  <2> QED BY <2>5, <2>6 DEF RowsOf
<1>4. CASE status[r] \in {"sent", "deleted"}
  BY <1>4 DEF IInv, NoResultLost, RowsOf
<1>5. status[r] # "absent"
  <2>1. p[1] \in RowIds /\ status[p[1]] # "absent"
    BY <1>1
  <2> QED BY <1>2, <2>1 DEF IInv, TypeOK, RowsAllocated, RowIds
<1> QED BY <1>3, <1>4, <1>5 DEF IInv, TypeOK

\* reportOnce ends without having confirmed anything.
LEMMA AbandonStep ==
  ASSUME IInv, TypeOK', ReturnFromReport,
         UNCHANGED <<seq, status, checkId, received, copies, signalled, flushCh>>,
         \/ rpc \in {"list", "post"} /\ UNCHANGED <<late, faults>>
         \/ rpc = "post" /\ late' = batch /\ faults' = faults + 1
         \/ rpc = "mark" /\ UNCHANGED late /\ faults' = faults + 1
  PROVE  IInv'
<1>1. /\ batch' = {} /\ rpc' \in {"purge", "stopped"}
      /\ late' = late \/ late' = batch
  BY DEF ReturnFromReport
<1>2. RowsAllocated' /\ NoResultLost' /\ NoLostWakeup'
  BY DEF IInv, RowsAllocated, NoResultLost, NoLostWakeup, RowsOf
<1>3. BatchUnsent' /\ MarkedWasReceived' /\ CarriesOlder(batch)'
  BY <1>1 DEF BatchUnsent, MarkedWasReceived, CarriesOlder
<1>4. TravellersExist'
  BY <1>1 DEF IInv, TravellersExist, BatchUnsent
<1>5. CarriesOlder(late)' /\ CarriesOlder(received)'
  BY <1>1 DEF IInv, CarriesOlder, RowsOf
<1>6. CopiesPaidFor'
  <2> SUFFICES ASSUME NEW r \in RowIds
               PROVE  copies[r] + (IF r \in RowsOf(late') THEN 1 ELSE 0)
                        <= faults' + (IF Confirmed(r)' THEN 1 ELSE 0)
    BY DEF CopiesPaidFor, RowsOf
  <2>1. /\ copies[r] \in Nat /\ faults \in Nat
        /\ Confirmed(r)' <=> status[r] \in {"sent", "deleted"}
        /\ copies[r] + (IF r \in RowsOf(late) THEN 1 ELSE 0)
             <= faults + (IF Confirmed(r) THEN 1 ELSE 0)
    BY <1>1 DEF IInv, TypeOK, CopiesPaidFor, Confirmed
  <2>2. CASE rpc \in {"list", "post"} /\ UNCHANGED <<late, faults>>
    BY <2>1, <2>2 DEF Confirmed
  <2>3. CASE rpc = "post" /\ late' = batch /\ faults' = faults + 1
    BY <2>1, <2>3 DEF Confirmed
  <2>4. CASE rpc = "mark" /\ UNCHANGED late /\ faults' = faults + 1
    <3>1. Confirmed(r) => r \in RowsOf(batch) \/ Confirmed(r)'
      BY <2>1 DEF Confirmed
    <3> QED BY <2>1, <2>4, <3>1
  <2> QED BY <2>2, <2>3, <2>4
<1> QED BY <1>2, <1>3, <1>4, <1>5, <1>6 DEF IInv

\* A cycle starts on a batch, or ends, with nothing changed in the database.
LEMMA ListStep ==
  ASSUME IInv, TypeOK', ListRows
  PROVE  IInv'
<1>1. CASE ReturnFromReport
  BY <1>1, AbandonStep DEF ListRows, bufferVars, serverVars
<1>2. CASE rpc' = "post" /\ batch' = ListUnsent
  <2>1. /\ UNCHANGED <<seq, status, checkId, late, received, copies, faults,
                        signalled, flushCh>>
        /\ rpc = "list"
    BY DEF ListRows, bufferVars, serverVars
  <2>2. BatchUnsent' /\ MarkedWasReceived'
    BY <1>2, <2>1, ListingFacts DEF BatchUnsent, MarkedWasReceived
  <2>3. CarriesOlder(batch)'
    BY <1>2, <2>1, ListingFacts DEF CarriesOlder, RowsOf
  <2>4. CopiesPaidFor'
    BY <1>2, <2>1 DEF IInv, CopiesPaidFor, Confirmed, RowsOf
  <2> QED BY <2>1, <2>2, <2>3, <2>4 DEF IInv, RowsAllocated, TravellersExist,
             NoResultLost, CarriesOlder, NoLostWakeup, RowsOf
<1> QED BY <1>1, <1>2 DEF ListRows

\* The server ingests the current batch or the late request: its rows gain a
\* copy, and are then about to be marked or no longer under way.
LEMMA IngestStep ==
  ASSUME IInv, TypeOK', PostResults \/ LateRequestArrives
  PROVE  IInv'
<1>1. /\ UNCHANGED <<seq, status, checkId, batch, faults, signalled, flushCh>>
      /\ \/ rpc = "post" /\ rpc' = "mark" /\ late' = late /\ Ingest(batch)
         \/ rpc' = rpc /\ late' = {} /\ Ingest(late)
  BY DEF PostResults, LateRequestArrives, bufferVars, reporterVars
<1>2. received' = received \cup batch \/ received' = received \cup late
  BY <1>1 DEF Ingest
<1>3. RowsAllocated' /\ NoLostWakeup' /\ BatchUnsent'
  BY <1>1 DEF IInv, RowsAllocated, NoLostWakeup, BatchUnsent
<1>4. TravellersExist'
  BY <1>1, <1>2 DEF IInv, TravellersExist, BatchUnsent
<1>5. MarkedWasReceived'
  BY <1>1 DEF IInv, MarkedWasReceived, Ingest
<1>6. NoResultLost'
  BY <1>1, <1>2 DEF IInv, NoResultLost, RowsOf
<1>7. CarriesOlder(batch)' /\ CarriesOlder(late)' /\ CarriesOlder(received)'
  <2>1. RowsOf(received) \subseteq RowsOf(received')
    BY <1>2 DEF RowsOf
  <2> QED BY <1>1, <1>2, <2>1 DEF IInv, CarriesOlder, RowsOf
<1>8. CopiesPaidFor'
  <2> SUFFICES ASSUME NEW r \in RowIds
               PROVE  copies'[r] + (IF r \in RowsOf(late') THEN 1 ELSE 0)
                        <= faults + (IF Confirmed(r)' THEN 1 ELSE 0)
    BY <1>1 DEF CopiesPaidFor, RowsOf
  <2>1. /\ copies[r] \in Nat /\ faults \in Nat
        /\ copies[r] + (IF r \in RowsOf(late) THEN 1 ELSE 0)
             <= faults + (IF Confirmed(r) THEN 1 ELSE 0)
    BY DEF IInv, TypeOK, CopiesPaidFor
  <2>2. CASE rpc = "post" /\ rpc' = "mark" /\ late' = late /\ Ingest(batch)
    <3>1. copies'[r] = IF r \in RowsOf(batch) THEN copies[r] + 1 ELSE copies[r]
      BY <2>2 DEF Ingest
    <3>2. r \in RowsOf(batch) => ~Confirmed(r) /\ Confirmed(r)'
      BY <1>1, <2>2 DEF Confirmed, RowsOf, IInv, BatchUnsent
    <3>3. Confirmed(r) => Confirmed(r)'
      BY <1>1, <2>2 DEF Confirmed, RowsOf
    <3> QED BY <2>1, <2>2, <3>1, <3>2, <3>3
  <2>3. CASE rpc' = rpc /\ late' = {} /\ Ingest(late)
    <3>1. copies'[r] = IF r \in RowsOf(late) THEN copies[r] + 1 ELSE copies[r]
      BY <2>3 DEF Ingest
    <3>2. (Confirmed(r) <=> Confirmed(r)') /\ r \notin RowsOf(late')
      BY <1>1, <2>3 DEF Confirmed, RowsOf
    <3> QED BY <2>1, <3>1, <3>2
  <2> QED BY <1>1, <2>2, <2>3
<1> QED BY <1>3, <1>4, <1>5, <1>6, <1>7, <1>8 DEF IInv

\* Rows become sent while the server has them, and only such rows are purged.
LEMMA MarkStep ==
  ASSUME IInv, TypeOK', MarkSent \/ \E old \in SUBSET RowIds : PurgeSentOlderThan(old)
  PROVE  IInv'
<1>1. /\ UNCHANGED <<seq, checkId, late, received, copies, faults, signalled, flushCh>>
      /\ rpc' \notin {"post", "mark"} /\ batch' = {}
      /\ rpc \in {"mark", "purge"}
  BY DEF MarkSent, PurgeSentOlderThan, ReturnFromReport, bufferVars, serverVars,
     IInv, BatchUnsent
<1>2. \A r \in RowIds :
        /\ status'[r] = "absent" <=> status[r] = "absent"
        /\ status'[r] \in {"sent", "deleted"} <=> Confirmed(r)
  BY DEF MarkSent, PurgeSentOlderThan, Confirmed, IInv, TypeOK, BatchUnsent, RowsOf
<1>3. RowsAllocated' /\ NoLostWakeup'
  BY <1>1, <1>2 DEF IInv, RowsAllocated, NoLostWakeup
<1>4. TravellersExist'
  BY <1>1, <1>2 DEF IInv, TypeOK, TravellersExist
<1>5. BatchUnsent' /\ MarkedWasReceived' /\ CarriesOlder(batch)'
  BY <1>1 DEF BatchUnsent, MarkedWasReceived, CarriesOlder
<1>6. NoResultLost'
  <2>1. \A r \in RowIds : Confirmed(r) => r \in RowsOf(received)
    BY DEF IInv, NoResultLost, MarkedWasReceived, Confirmed, RowsOf
  <2> QED BY <1>1, <1>2, <2>1 DEF NoResultLost, RowsOf
<1>7. CarriesOlder(late)' /\ CarriesOlder(received)'
  BY <1>1 DEF IInv, CarriesOlder, RowsOf
<1>8. CopiesPaidFor'
  <2>1. \A r \in RowIds : Confirmed(r)' <=> Confirmed(r)
    BY <1>1, <1>2 DEF Confirmed
  <2> QED BY <1>1, <2>1 DEF IInv, CopiesPaidFor, RowsOf
<1> QED BY <1>3, <1>4, <1>5, <1>6, <1>7, <1>8 DEF IInv

\* A new process finds the database as it was; a kill pays for what the old
\* one had under way.
LEMMA ProcessStep ==
  ASSUME IInv, TypeOK', Restart \/ Kill
  PROVE  IInv'
<1>1. /\ UNCHANGED <<seq, status, checkId, received, copies>>
      /\ rpc' = "select" /\ batch' = {} /\ signalled' = {}
      /\ \/ rpc = "stopped" /\ UNCHANGED <<late, faults>>
         \/ late' = late /\ faults' = faults + 1
         \/ rpc = "post" /\ late' = batch /\ faults' = faults + 1
  BY DEF Restart, Kill, StartProcess, bufferVars
<1>2. RowsAllocated' /\ NoResultLost' /\ NoLostWakeup'
  BY <1>1 DEF IInv, RowsAllocated, NoResultLost, NoLostWakeup, RowsOf
<1>3. BatchUnsent' /\ MarkedWasReceived' /\ CarriesOlder(batch)'
  BY <1>1 DEF BatchUnsent, MarkedWasReceived, CarriesOlder
<1>4. TravellersExist'
  BY <1>1 DEF IInv, TravellersExist, BatchUnsent
<1>5. CarriesOlder(late)' /\ CarriesOlder(received)'
  BY <1>1 DEF IInv, CarriesOlder, RowsOf
<1>6. CopiesPaidFor'
  <2> SUFFICES ASSUME NEW r \in RowIds
               PROVE  copies[r] + (IF r \in RowsOf(late') THEN 1 ELSE 0)
                        <= faults' + (IF Confirmed(r)' THEN 1 ELSE 0)
    BY <1>1 DEF CopiesPaidFor, RowsOf
  <2>1. /\ copies[r] \in Nat /\ faults \in Nat
        /\ Confirmed(r)' <=> status[r] \in {"sent", "deleted"}
        /\ copies[r] + (IF r \in RowsOf(late) THEN 1 ELSE 0)
             <= faults + (IF Confirmed(r) THEN 1 ELSE 0)
    BY <1>1 DEF IInv, TypeOK, CopiesPaidFor, Confirmed
  <2>2. rpc # "mark" => (Confirmed(r) <=> Confirmed(r)')
    BY <2>1 DEF Confirmed
  <2> QED BY <1>1, <2>1, <2>2
<1> QED BY <1>2, <1>3, <1>4, <1>5, <1>6 DEF IInv

\* Every action preserves IInv.
LEMMA InductiveStep == IInv /\ [Next]_vars => IInv'
<1> SUFFICES ASSUME IInv, [Next]_vars PROVE IInv'
  OBVIOUS
<1>1. TypeOK'
  BY TypeStep DEF IInv
<1>2. ASSUME NEW delta \in Deltas, ApplyChecksDelta(delta) PROVE IInv'
  BY <1>1, <1>2, UnchangedStep
     DEF ApplyChecksDelta, invVars, bufferVars, reporterVars, serverVars
<1>3. ASSUME NEW w \in Writers, NEW g \in Guids, ResolveCheck(w, g) PROVE IInv'
  BY <1>1, <1>3, UnchangedStep
     DEF ResolveCheck, invVars, bufferVars, reporterVars, serverVars
<1>4. ASSUME NEW w \in Writers, InsertFails(w) PROVE IInv'
  BY <1>1, <1>4, UnchangedStep
     DEF InsertFails, invVars, bufferVars, reporterVars, serverVars
<1>5. ASSUME NEW w \in Writers, NEW transition \in BOOLEAN, InsertResult(w, transition)
      PROVE  IInv'
  BY <1>1, <1>5, InsertStep
<1>6. CASE (\E w \in Writers : TriggerFlush(w)) \/ WakeOnTimer \/ WakeOnFlush \/ WakeOnDone
  BY <1>1, <1>6, SignalStep
<1>7. CASE ListRows
  BY <1>1, <1>7, ListStep
<1>8. CASE PostResults \/ LateRequestArrives
  BY <1>1, <1>8, IngestStep
<1>9. CASE PostTimesOut \/ ReportFails \/ MarkSentFails
  BY <1>1, <1>9, AbandonStep
     DEF PostTimesOut, ReportFails, MarkSentFails, bufferVars, serverVars
<1>10. CASE MarkSent \/ \E old \in SUBSET RowIds : PurgeSentOlderThan(old)
  BY <1>1, <1>10, MarkStep
<1>11. CASE Cancel \/ UNCHANGED vars
  BY <1>1, <1>11, UnchangedStep
     DEF Cancel, vars, invVars, bufferVars, reporterVars, serverVars
<1>12. CASE Restart \/ Kill
  BY <1>1, <1>12, ProcessStep
<1> QED
  BY <1>2, <1>3, <1>4, <1>5, <1>6, <1>7, <1>8, <1>9, <1>10, <1>11, <1>12
     DEF Next, Execute, Report, Process

\* The strengthening from which the safety theorems follow.
THEOREM Invariance == Spec => []IInv
<1>1. Init => IInv
  <2> SUFFICES ASSUME Init PROVE IInv
    OBVIOUS
  <2>1. TypeOK
    BY InitialType
  <2>2. RowsAllocated /\ BatchUnsent /\ TravellersExist /\ MarkedWasReceived
    BY DEF Init, RowsAllocated, BatchUnsent, TravellersExist, MarkedWasReceived, RowIds
  <2>3. NoResultLost /\ NoLostWakeup
    BY DEF Init, NoResultLost, NoLostWakeup
  <2>4. CopiesPaidFor
    BY DEF Init, CopiesPaidFor, Confirmed, RowsOf
  <2>5. CarriesOlder(batch) /\ CarriesOlder(late) /\ CarriesOlder(received)
    BY DEF Init, CarriesOlder
  <2> QED BY <2>1, <2>2, <2>3, <2>4, <2>5 DEF IInv
<1>2. IInv /\ [Next]_vars => IInv'
  BY InductiveStep
<1> QED BY <1>1, <1>2, PTL DEF Spec

\* No kill, lost response, failed UPDATE or purge loses a result: MarkSent and
\* PurgeSentOlderThan only ever touch rows the server has ingested.
THEOREM ResultsAreNotLost == Spec => []NoResultLost
<1>1. IInv => NoResultLost
  BY DEF IInv
<1> QED BY <1>1, Invariance, PTL

\* However kills, lost responses and retries interleave, the number of copies
\* the server ingests of a result beyond the first is at most that of faults.
THEOREM DuplicatesAreBounded == Spec => []DuplicatesNeedFaults
<1>1. IInv => DuplicatesNeedFaults
  <2> SUFFICES ASSUME IInv, NEW r \in RowIds PROVE copies[r] <= 1 + faults
    BY DEF DuplicatesNeedFaults
  <2>1. copies[r] \in Nat /\ faults \in Nat
    BY DEF IInv, TypeOK
  <2>2. copies[r] + (IF r \in RowsOf(late) THEN 1 ELSE 0)
          <= faults + (IF Confirmed(r) THEN 1 ELSE 0)
    BY DEF IInv, CopiesPaidFor
  <2> QED BY <2>1, <2>2
<1> QED BY <1>1, Invariance, PTL

\* The server sees the results of a check in the order they were recorded, for
\* every batch size and however late a given-up request arrives.
THEOREM ResultsArriveInOrder == Spec => []InOrderPerCheck
<1>1. IInv => InOrderPerCheck
  BY DEF IInv, CarriesOlder, InOrderPerCheck, RowsOf
<1> QED BY <1>1, Invariance, PTL

\* A status transition's wake-up is never lost, for any number of goroutines.
THEOREM WakeupsAreNotLost == Spec => []NoLostWakeup
<1>1. IInv => NoLostWakeup
  BY DEF IInv
<1> QED BY <1>1, Invariance, PTL

-----------------------------------------------------------------------------
(* Refinement of AtLeastOnce.                                              *)

\* Neither a row's existence, its acknowledgement nor the server's rows change.
LEMMA StutterStep ==
  ASSUME UNCHANGED <<status, received>>
  PROVE  UNCHANGED Abstract!vars
BY DEF Abstract!vars, RowsOf

\* Every step produces, receives or acknowledges results, or changes none of it.
LEMMA RefinementStep ==
  IInv /\ IInv' /\ [Next]_vars => [Abstract!Next]_(Abstract!vars)
<1> SUFFICES ASSUME IInv, IInv', [Next]_vars
             PROVE  Abstract!Next \/ UNCHANGED Abstract!vars
  OBVIOUS
<1> DEFINE Produced == {r \in RowIds : status[r] # "absent"}
           Acked == {r \in RowIds : status[r] \in {"sent", "deleted"}}
<1>1. CASE UNCHANGED <<status, received>>
  BY <1>1, StutterStep
<1>2. ASSUME NEW w \in Writers, NEW transition \in BOOLEAN, InsertResult(w, transition)
      PROVE  Abstract!Next
  <2>1. /\ seq + 1 \in RowIds /\ UNCHANGED received
        /\ status[seq + 1] = "absent"
        /\ status' = [status EXCEPT ![seq + 1] = "unsent"]
    BY <1>2 DEF InsertResult, IInv, TypeOK, RowsAllocated, RowIds, serverVars
  <2>2. Produced' = Produced \cup {seq + 1} /\ Acked' = Acked /\ seq + 1 \notin Produced
    BY <2>1 DEF IInv, TypeOK
  <2>3. PICK n \in RowIds : n = seq + 1
    BY <2>1
  <2>4. Abstract!Produce(n)
    BY <2>1, <2>2, <2>3 DEF Abstract!Produce, RowsOf
  <2> QED BY <2>4 DEF Abstract!Next
<1>3. ASSUME NEW b, b \in {batch, late}, Ingest(b), UNCHANGED status
      PROVE  Abstract!Next
  <2> DEFINE S == RowsOf(b) \ Acked
  <2>1. \A p \in b : p[1] \in RowIds /\ status[p[1]] # "absent"
    BY <1>3 DEF IInv, TypeOK, BatchUnsent, TravellersExist
  <2>2. S \subseteq Produced \ Acked /\ S \in SUBSET RowIds
    BY <2>1 DEF RowsOf
  <2>3. RowsOf(received') = RowsOf(received) \cup S
    <3>1. RowsOf(received') = RowsOf(received) \cup RowsOf(b)
      BY <1>3 DEF Ingest, RowsOf
    <3>2. Acked \subseteq RowsOf(received)
      BY DEF IInv, NoResultLost
    <3> QED BY <3>1, <3>2
  <2>4. RowsOf(received)' = RowsOf(received')
    BY DEF RowsOf
  <2>5. Abstract!Receive(S)
    BY <1>3, <2>2, <2>3, <2>4 DEF Abstract!Receive
  <2> QED BY <2>2, <2>5 DEF Abstract!Next
<1>4. CASE MarkSent \/ \E old \in SUBSET RowIds : PurgeSentOlderThan(old)
  <2>1. UNCHANGED received /\ Acked \subseteq Acked' /\ Produced' = Produced
    BY <1>4 DEF MarkSent, PurgeSentOlderThan, IInv, TypeOK, BatchUnsent, serverVars, RowsOf
  <2>2. Acked' \subseteq RowsOf(received)
    BY <2>1 DEF IInv, NoResultLost, RowsOf
  <2>3. PICK S \in SUBSET RowIds : S = Acked'
    OBVIOUS
  <2>4. Abstract!Acknowledge(S)
    BY <2>1, <2>2, <2>3 DEF Abstract!Acknowledge, RowsOf
  <2> QED BY <2>4 DEF Abstract!Next
<1>5. PostResults \/ LateRequestArrives =>
        UNCHANGED status /\ \E b \in {batch, late} : Ingest(b)
  BY DEF PostResults, LateRequestArrives, bufferVars
<1>6. \/ UNCHANGED <<status, received>>
      \/ \E w \in Writers, transition \in BOOLEAN : InsertResult(w, transition)
      \/ PostResults \/ LateRequestArrives
      \/ MarkSent \/ \E old \in SUBSET RowIds : PurgeSentOlderThan(old)
  BY DEF Next, Execute, Report, Process, vars, bufferVars, serverVars, ApplyChecksDelta,
     ResolveCheck, InsertFails, TriggerFlush, WakeOnTimer, WakeOnFlush, WakeOnDone,
     BeginReport, ListRows, PostTimesOut, ReportFails, MarkSentFails, Cancel, Restart,
     Kill, StartProcess
<1> QED BY <1>1, <1>2, <1>3, <1>4, <1>5, <1>6

\* Delivery implements at-least-once delivery, for every value of its constants.
THEOREM Refinement == Spec => ImplementsAtLeastOnce
<1>1. Init => Abstract!Init
  BY DEF Init, Abstract!Init, RowsOf
<1>2. IInv /\ IInv' /\ [Next]_vars => [Abstract!Next]_(Abstract!vars)
  BY RefinementStep
<1> QED BY <1>1, <1>2, Invariance, PTL DEF Spec, ImplementsAtLeastOnce, Abstract!Spec
=============================================================================
