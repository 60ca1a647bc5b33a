-------------------------- MODULE CheckFilesProofs --------------------------
(***************************************************************************)
(* Theorems about CheckFiles: the commands keep the mirror what Mirror says *)
(* it is, an import's work stays, and what a test, an execution and the     *)
(* egress policy promise of imported definitions holds of every definition *)
(* and every behaviour of the network.                                     *)
(***************************************************************************)
EXTENDS CheckFiles, MirrorProofs, FiniteSetTheorems

\* A file is entries; one that is being imported has a guid in each, and more
\* to import.
FileInHand ==
  /\ file \in Seq(Entry)
  /\ import.done \in 0..Len(file)
  /\ Running => import.done < Len(file)
  /\ Running \/ import.done > 0 => \A i \in DOMAIN file : file[i].guid # NoGuid

ImportTyped ==
  import \in [state : {"none", "running", "ok", "invalid", "stopped"}, done : Nat]

FilesIInv ==
  /\ IInv
  /\ ImportTyped
  /\ FileInHand
  /\ TransactionKeepsRows
  /\ ImportsStay

USE GuidsAssumption, DefinitionsAssumption, TargetsAssumption, FilesAssumption,
    VerdictAssumption, MaxHopsAssumption

-----------------------------------------------------------------------------
(* Helpers.                                                                *)

LEMMA SmallestOf ==
  ASSUME NEW S \in SUBSET Nat, S # {}
  PROVE  Min(S) \in S /\ \A x \in S : Min(S) <= x
<1>1. PICK m \in S : \A x \in S : ~(<<x, m>> \in OpToRel(<, Nat))
  BY WFMin, NatLessThanWellFounded
<1>2. \A x \in S : ~(x < m)
  BY <1>1 DEF OpToRel
<1>3. \A x \in S : m <= x
  BY <1>2
<1> QED BY <1>3 DEF Min

LEMMA AtLeastZeroIs ==
  ASSUME NEW n \in Int
  PROVE  AtLeastZero(n) = (IF n < 0 THEN 0 ELSE n) /\ AtLeastZero(n) \in Nat
<1>1. CASE n < 0
  <2>1. \A x \in {n, 0} : x <= 0
    BY <1>1
  <2>3. {n, 0} \in SUBSET Int /\ 0 \in {n, 0}
    OBVIOUS
  <2>2. Max({n, 0}) = 0
    BY <2>1, <2>3, LastOf
  <2> QED BY <1>1, <2>2 DEF AtLeastZero
<1>2. CASE ~(n < 0)
  <2>1. \A x \in {n, 0} : x <= n
    BY <1>2
  <2>3. {n, 0} \in SUBSET Int /\ n \in {n, 0}
    OBVIOUS
  <2>2. Max({n, 0}) = n
    BY <2>1, <2>3, LastOf
  <2> QED BY <1>2, <2>2 DEF AtLeastZero
<1> QED BY <1>1, <1>2

\* The checks of a set, in some order.
LEMMA InSomeOrder ==
  ASSUME NEW S, IsFiniteSet(S)
  PROVE  SetToSeq(S) \in Seq(S)
<1>1. Cardinality(S) \in Nat /\ ExistsBijection(1..Cardinality(S), S)
  BY FS_CardinalityType
<1>2. \E f \in [1..Cardinality(S) -> S] : IsInjective(f)
  BY <1>1 DEF ExistsBijection, Bijection, Injection
<1>3. SetToSeq(S) \in [1..Cardinality(S) -> S]
  BY <1>2 DEF SetToSeq
<1> QED BY <1>1, <1>3

-----------------------------------------------------------------------------
(* The file.                                                               *)

\* An exported file is one that can be imported.
LEMMA ExportStep ==
  ASSUME IInv, ExportPrivateChecks
  PROVE  file' \in Seq(Entry)
<1> DEFINE S == {g \in Guids : checks[g].locally_defined}
           private == SetToSeq(S)
           Exported(i) == CheckExportOf(RowDefinition(checks[private[i]].content,
                                                      checks[private[i]].meta))
           def(i) == CHOOSE f \in Files : DefinitionOf[f] = Exported(i)
<1>1. private \in Seq(S)
  BY FS_Subset, InSomeOrder
<1>2. \A i \in DOMAIN private : private[i] \in S
  BY <1>1
<1>3. \A g \in S : checks[g].content \in Files /\ checks[g].meta \in Metas
  BY DEF IInv, Flagged, TypeOK, Table, Row, NoRow, Metas
<1>4. \A i \in DOMAIN private : def(i) \in Files
  BY <1>2, <1>3, ExportedAssumption
<1>5. \A i \in DOMAIN private : [guid |-> private[i], def |-> def(i)] \in Entry
  BY <1>2, <1>4 DEF Entry
<1>6. file' = [i \in DOMAIN private |-> [guid |-> private[i], def |-> def(i)]]
  BY DEF ExportPrivateChecks
<1>7. DOMAIN private = 1..Len(private) /\ Len(private) \in Nat
  BY <1>1
<1> HIDE DEF private, def
<1> QED BY <1>5, <1>6, <1>7

\* Each entry is one import of Mirror.
LEMMA ImportNextIsImport ==
  ASSUME FileInHand, ImportNext
  PROVE  \E g \in Guids, f \in Files :
           /\ ImportPrivateCheck(g, f)
           /\ file[import.done + 1].guid = g /\ file[import.done + 1].def = f
<1>1. import.done + 1 \in DOMAIN file
  BY DEF FileInHand, ImportNext
<1>2. file[import.done + 1] \in Entry /\ file[import.done + 1].guid # NoGuid
  BY <1>1 DEF FileInHand, ImportNext
<1> QED BY <1>2 DEF ImportNext, Entry

LEMMA FileStep ==
  ASSUME IInv, FileInHand, [FilesNext]_allVars
  PROVE  FileInHand'
<1> USE DEF FileInHand, Running
<1>1. CASE MirrorStep
  BY <1>1 DEF MirrorStep, fileVars
<1>2. ASSUME NEW entries \in HandWritten, WriteFile(entries) PROVE FileInHand'
  BY <1>2 DEF WriteFile
<1>3. CASE ExportPrivateChecks
  <2>1. file' \in Seq(Entry)
    BY <1>3, ExportStep
  <2>2. import'.done = 0 /\ import'.state = "none"
    BY <1>3 DEF ExportPrivateChecks
  <2>3. Len(file') \in Nat
    BY <2>1
  <2> QED BY <2>1, <2>2, <2>3
<1>4. CASE StartImport
  <2>1. import'.done = 0 /\ file' = file
    BY <1>4 DEF StartImport, fileVars
  <2>2. import'.state = "running" =>
          file # <<>> /\ \A i \in DOMAIN file : file[i].guid # NoGuid
    BY <1>4 DEF StartImport
  <2>3. Len(file) \in Nat /\ (file # <<>> => 0 < Len(file))
    OBVIOUS
  <2> QED BY <2>1, <2>2, <2>3
<1>5. CASE ImportNext
  <2>1. /\ import'.done = import.done + 1 /\ file' = file
        /\ import'.state = "running" => import.done + 1 # Len(file)
        /\ import.state = "running"
    BY <1>5 DEF ImportNext, fileVars
  <2>2. Len(file) \in Nat /\ import.done \in 0..Len(file) /\ import.done < Len(file)
    BY <2>1
  <2>3. import'.done \in 0..Len(file)
    BY <2>1, <2>2
  <2>4. import.done + 1 # Len(file) => import.done + 1 < Len(file)
    BY <2>2
  <2> QED BY <2>1, <2>3, <2>4
<1>6. CASE ImportStops
  BY <1>6 DEF ImportStops, fileVars
<1>7. CASE UNCHANGED allVars
  BY <1>7 DEF allVars, commandVars, fileVars
<1> QED BY <1>1, <1>2, <1>3, <1>4, <1>5, <1>6, <1>7 DEF FilesNext

LEMMA ImportTypedStep ==
  ASSUME ImportTyped, [FilesNext]_allVars
  PROVE  ImportTyped'
<1> USE DEF ImportTyped
<1>1. CASE MirrorStep \/ UNCHANGED allVars
  BY <1>1 DEF MirrorStep, allVars, commandVars
<1>2. CASE (\E entries \in HandWritten : WriteFile(entries)) \/ ExportPrivateChecks
  BY <1>2 DEF WriteFile, ExportPrivateChecks
<1>3. CASE StartImport
  BY <1>3 DEF StartImport
<1>4. CASE ImportNext
  <2>1. import.done + 1 \in Nat
    OBVIOUS
  <2> QED BY <1>4, <2>1 DEF ImportNext
<1>5. CASE ImportStops
  BY <1>5 DEF ImportStops
<1> QED BY <1>1, <1>2, <1>3, <1>4, <1>5 DEF FilesNext

-----------------------------------------------------------------------------
(* The mirror and the imports.                                             *)

LEMMA FilesStepIsMirrorStep ==
  ASSUME FileInHand, [FilesNext]_allVars
  PROVE  [Next]_vars
<1>1. CASE MirrorStep
  BY <1>1 DEF MirrorStep, Next
<1>2. CASE ImportNext
  BY <1>2, ImportNextIsImport DEF Next
<1> QED
  BY <1>1, <1>2 DEF FilesNext, WriteFile, ExportPrivateChecks, StartImport, ImportStops, allVars

\* What a step of the daemon changes of an imported check, it is told to.
LEMMA SyncLeavesImports ==
  ASSUME TransactionKeepsRows, Server \/ Sync \/ SyncFails, NEW g \in Guids,
         checks[g].locally_defined,
         checks'[g] = checks[g] \/ snap[g].kind = "private"
  PROVE  checks'[g].locally_defined /\ checks'[g].content = checks[g].content
<1>1. CASE Commit
  BY <1>1 DEF Commit, TransactionKeepsRows
<1>2. CASE ~Commit
  <2>1. checks' = checks
    BY <1>2 DEF Server, Sync, SyncFails, ChangeCheck, FetchChecks, BeginTransaction, ApplyCheck,
               dbVars
  <2> QED BY <2>1
<1> QED BY <1>1, <1>2

LEMMA ImportedGuids ==
  ASSUME FileInHand
  PROVE  \A i \in 1..import.done : file[i].guid \in Guids
<1> TAKE i \in 1..import.done
<1>1. import.done \in 0..Len(file) /\ Len(file) \in Nat /\ DOMAIN file = 1..Len(file)
  BY DEF FileInHand
<1>2. i \in DOMAIN file /\ import.done > 0
  BY <1>1
<1>3. file[i] \in Entry /\ file[i].guid # NoGuid
  BY <1>2 DEF FileInHand
<1> QED BY <1>3 DEF Entry

LEMMA ImportsStayStep ==
  ASSUME FilesIInv, [FilesNext]_allVars
  PROVE  ImportsStay'
<1> USE DEF FilesIInv
<1>1. CASE MirrorStep
  <2>1. file' = file /\ import' = import
    BY <1>1 DEF MirrorStep, fileVars
  <2>2. \A g \in Guids : g \notin overwritten' =>
          /\ g \notin overwritten
          /\ checks'[g] = checks[g] \/ snap[g].kind = "private"
    BY <1>1 DEF MirrorStep
  <2>3. \A g : LastEntry(g)' = LastEntry(g)
    BY <2>1 DEF LastEntry
  <2>4. \A i \in 1..import.done : file[i].guid \in Guids
    BY ImportedGuids
  <2> QED BY <1>1, <2>1, <2>2, <2>3, <2>4, SyncLeavesImports DEF MirrorStep, ImportsStay
<1>2. CASE ImportNext
  <2> DEFINE n == import.done + 1
  <2>1. PICK g \in Guids, f \in Files :
          ImportPrivateCheck(g, f) /\ file[n].guid = g /\ file[n].def = f
    BY <1>2, ImportNextIsImport
  <2>2. /\ import'.done = n /\ file' = file
        /\ overwritten' = overwritten \ {g}
    BY <1>2, <2>1 DEF ImportNext, fileVars
  <2>3. n \in Nat /\ import.done \in Nat
    BY DEF FileInHand
  <2>4. /\ checks'[g].content = f /\ checks'[g].locally_defined
        /\ \A h \in Guids : h # g => checks'[h] = checks[h]
    BY <2>1 DEF ImportPrivateCheck, Import, IInv, TypeOK, Table
  <2> HIDE DEF n
  <2>5. 1..n = 1..import.done \cup {n} /\ \A i \in 1..n : i <= n
    BY <2>3 DEF n
  <2>6. LastEntry(g)' = n
    <3> DEFINE S == {i \in 1..n : file[i].guid = g}
    <3>1. S \in SUBSET Int /\ n \in S /\ \A i \in S : i <= n
      BY <2>1, <2>3, <2>5
    <3>2. LastEntry(g)' = Max(S)
      BY <2>2 DEF LastEntry
    <3> QED BY <3>1, <3>2, LastOf
  <2>7. \A h \in Guids \ {g} : LastEntry(h)' = LastEntry(h)
    <3> TAKE h \in Guids \ {g}
    <3>1. {i \in 1..n : file[i].guid = h} = {i \in 1..import.done : file[i].guid = h}
      BY <2>1, <2>5
    <3> QED BY <2>2, <3>1 DEF LastEntry
  <2>8. \A i \in 1..import.done : file[i].guid \in Guids
    BY ImportedGuids
  <2>9. \A i \in 1..n : file[i].guid = g \/ file[i].guid \in {file[j].guid : j \in 1..import.done} \ {g}
    BY <2>1, <2>5
  <2> QED BY <2>1, <2>2, <2>4, <2>6, <2>7, <2>8, <2>9 DEF ImportsStay
<1>3. ASSUME NEW entries \in HandWritten, WriteFile(entries) PROVE ImportsStay'
  BY <1>3 DEF WriteFile, ImportsStay
<1>4. CASE ExportPrivateChecks \/ StartImport
  BY <1>4 DEF ExportPrivateChecks, StartImport, ImportsStay
<1>5. CASE ImportStops \/ UNCHANGED allVars
  <2>1. UNCHANGED <<file, overwritten, checks>>
    BY <1>5 DEF ImportStops, allVars, commandVars, fileVars, vars, dbVars
  <2>2. import'.done = import.done
    BY <1>5 DEF ImportStops, allVars, commandVars, ImportTyped
  <2>3. \A g : LastEntry(g)' = LastEntry(g)
    BY <2>1, <2>2 DEF LastEntry
  <2> QED BY <2>1, <2>2, <2>3 DEF ImportsStay
<1> QED BY <1>1, <1>2, <1>3, <1>4, <1>5 DEF FilesNext

LEMMA FilesInitIInv == FilesInit => FilesIInv
<1> SUFFICES ASSUME FilesInit PROVE FilesIInv
  OBVIOUS
<1>1. IInv
  BY InitIInv DEF FilesInit
<1>2. file = <<>> /\ import.done = 0 /\ import.state = "none" /\ file \in Seq(Entry) /\ Len(file) = 0
  BY DEF FilesInit
<1>3. ImportTyped
  BY DEF FilesInit, ImportTyped
<1>4. FileInHand
  <2>1. 0 \in 0..0 /\ ~(0 > 0)
    OBVIOUS
  <2> QED BY <1>2, <2>1 DEF FileInHand, Running
<1>5. TransactionKeepsRows
  BY DEF FilesInit, Init, TransactionKeepsRows
<1>6. ImportsStay
  BY <1>2 DEF ImportsStay
<1> QED BY <1>1, <1>3, <1>4, <1>5, <1>6 DEF FilesIInv

LEMMA FilesNextIInv == FilesIInv /\ [FilesNext]_allVars => FilesIInv'
<1> SUFFICES ASSUME FilesIInv, [FilesNext]_allVars PROVE FilesIInv'
  OBVIOUS
<1>1. [Next]_vars
  BY FilesStepIsMirrorStep DEF FilesIInv
<1>2. IInv' /\ TransactionKeepsRows'
  BY <1>1, NextIInv, TransactionStep DEF FilesIInv
<1>3. FileInHand' /\ ImportTyped' /\ ImportsStay'
  BY FileStep, ImportTypedStep, ImportsStayStep DEF FilesIInv
<1> QED BY <1>2, <1>3 DEF FilesIInv

-----------------------------------------------------------------------------
(* Dialling.                                                               *)

\* What RestrictedAddr lets through is public, but for zones of the ranges that
\* are compared without one.
LEMMA UnrestrictedIsOutside ==
  ASSUME NEW addr \in Addr, ~RestrictedAddr(addr)
  PROVE  addr.range = "public" \/ InternalByZone(addr)
<1>1. Unmap(addr).range = addr.range
  BY DEF Unmap, Addr
<1>2. Unmap(addr).form # "plain" => addr.form = "zoned"
  BY DEF Unmap, Addr
<1>3. LooksPublic(Unmap(addr))
  BY DEF RestrictedAddr
<1> QED BY <1>1, <1>2, <1>3 DEF LooksPublic, InternalByZone

\* A pinned dial connects to the addresses it has checked and to no others,
\* whatever another lookup of the name would answer.
LEMMA PinnedDialStaysOutside ==
  ASSUME NEW hop \in Hop
  PROVE  \A addr \in PinnedDialContext(hop).dialled :
           addr.range = "public" \/ InternalByZone(addr)
<1> DEFINE addrs == Resolve(hop)
<1>1. \A i \in DOMAIN addrs : addrs[i] \in Addr
  <2>1. hop.url.addr \in Addr /\ hop.addrs \in Seq(Addr)
    BY DEF Hop, Url
  <2> QED BY <2>1 DEF Resolve
<1>2. CASE Refuses(addrs)
  BY <1>2 DEF PinnedDialContext, NoDial
<1>3. CASE ~Refuses(addrs)
  <2> SUFFICES ASSUME NEW addr \in PinnedDialContext(hop).dialled
               PROVE  addr.range = "public" \/ InternalByZone(addr)
    OBVIOUS
  <2>1. PICK i \in DOMAIN addrs : addr = addrs[i]
    BY <1>3 DEF PinnedDialContext, DialInOrder
  <2>2. addr \in Addr /\ ~RestrictedAddr(addr)
    BY <1>1, <1>3, <2>1 DEF Refuses
  <2> QED BY <2>2, UnrestrictedIsOutside
<1> QED BY <1>2, <1>3

\* Whatever the check, its redirects and the answers of the resolver.
LEMMA StrictExecutionsStayOutside ==
  ASSUME NEW check, NEW t \in Target
  PROVE  \A addr \in Dialled("strict", check, t) :
           addr.range = "public" \/ InternalByZone(addr)
<1>1. t.hops \in Seq(Hop) /\ t.hops # <<>>
  BY DEF Target
<1>2. 1 \in DOMAIN t.hops /\ \A k \in DOMAIN t.hops : t.hops[k] \in Hop
  BY <1>1
<1>3. \A k \in DOMAIN t.hops : \A addr \in Dial("strict", t.hops[k]).dialled :
        addr.range = "public" \/ InternalByZone(addr)
  BY <1>2, PinnedDialStaysOutside DEF Dial
<1>4. Visited("strict", check, t) \subseteq DOMAIN t.hops
  BY DEF Visited
<1> QED BY <1>2, <1>3, <1>4 DEF Dialled

-----------------------------------------------------------------------------
(* Rules.                                                                  *)

\* A checker succeeds when no rule is broken, else fails with the first that is.
LEMMA FirstBrokenRule ==
  ASSUME NEW rules, DOMAIN rules \subseteq Nat, \A i \in DOMAIN rules : rules[i][2] # ""
  PROVE  /\ FirstBroken(rules) = "" <=> \A i \in DOMAIN rules : ~rules[i][1]
         /\ FirstBroken(rules) # "" =>
              \E i \in DOMAIN rules : rules[i][1] /\ FirstBroken(rules) = rules[i][2]
<1>1. CASE Broken(rules) = {}
  BY <1>1 DEF FirstBroken, Broken
<1>2. CASE Broken(rules) # {}
  <2>1. Broken(rules) \in SUBSET Nat
    BY DEF Broken
  <2>2. Min(Broken(rules)) \in Broken(rules)
    BY <1>2, <2>1, SmallestOf
  <2> QED BY <1>2, <2>2 DEF FirstBroken, Broken
<1> QED BY <1>1, <1>2

\* How the checkers end, by the rules that are not broken.
LEMMA HTTPEnds ==
  ASSUME NEW policy, NEW check, NEW t
  PROVE  LET rules == HTTPRules(policy, check, t)
         IN  /\ FirstBroken(rules) = "" <=> \A i \in 1..7 : ~rules[i][1]
             /\ ~rules[1][1] /\ ~rules[2][1] =>
                  FirstBroken(rules) \notin {"blocked", "no port", "transport"}
<1> DEFINE rules == HTTPRules(policy, check, t)
<1>0. DOMAIN rules = 1..7
  BY DEF HTTPRules
<1>1. /\ rules[1][2] = "blocked" /\ rules[2][2] = "transport" /\ rules[3][2] = "read"
      /\ rules[4][2] = "status" /\ rules[5][2] = "match" /\ rules[6][2] = "response time"
      /\ rules[7][2] = "certificate"
  BY DEF HTTPRules
<1> HIDE DEF rules
<1>2. \A i \in DOMAIN rules : i = 1 \/ i = 2 \/ i = 3 \/ i = 4 \/ i = 5 \/ i = 6 \/ i = 7
  BY <1>0
<1>3. DOMAIN rules \subseteq Nat
  BY <1>0
<1>4. \A i \in DOMAIN rules : rules[i][2] # ""
  BY <1>1, <1>2
<1>5. \A i \in DOMAIN rules \ {1, 2} : rules[i][2] \notin {"", "blocked", "no port", "transport"}
  BY <1>1, <1>2
<1> QED BY <1>0, <1>3, <1>4, <1>5, FirstBrokenRule DEF rules

LEMMA TCPEnds ==
  ASSUME NEW policy, NEW check, NEW t
  PROVE  LET rules == TCPRules(policy, check, t)
         IN  /\ FirstBroken(rules) = "" <=> \A i \in 1..4 : ~rules[i][1]
             /\ ~rules[1][1] /\ ~rules[2][1] =>
                  FirstBroken(rules) \in {"", "match", "response time"}
<1> DEFINE rules == TCPRules(policy, check, t)
<1>0. DOMAIN rules = 1..4
  BY DEF TCPRules
<1>1. /\ rules[1][2] = "no port" /\ rules[2][2] = "transport"
      /\ rules[3][2] = "match" /\ rules[4][2] = "response time"
  BY DEF TCPRules
<1> HIDE DEF rules
<1>2. \A i \in DOMAIN rules : i = 1 \/ i = 2 \/ i = 3 \/ i = 4
  BY <1>0
<1>3. DOMAIN rules \subseteq Nat
  BY <1>0
<1>4. \A i \in DOMAIN rules : rules[i][2] # ""
  BY <1>1, <1>2
<1> QED BY <1>0, <1>1, <1>2, <1>3, <1>4, FirstBrokenRule DEF rules

LEMMA TLSEnds ==
  ASSUME NEW policy, NEW check, NEW t
  PROVE  LET rules == TLSRules(policy, check, t)
         IN  /\ FirstBroken(rules) = "" <=> \A i \in 1..5 : ~rules[i][1]
             /\ ~rules[1][1] /\ ~rules[2][1] =>
                  FirstBroken(rules) \in {"", "match", "response time", "certificate"}
<1> DEFINE rules == TLSRules(policy, check, t)
<1>0. DOMAIN rules = 1..5
  BY DEF TLSRules
<1>1. /\ rules[1][2] = "no port" /\ rules[2][2] = "transport" /\ rules[3][2] = "match"
      /\ rules[4][2] = "response time" /\ rules[5][2] = "certificate"
  BY DEF TLSRules
<1> HIDE DEF rules
<1>2. \A i \in DOMAIN rules : i = 1 \/ i = 2 \/ i = 3 \/ i = 4 \/ i = 5
  BY <1>0
<1>3. DOMAIN rules \subseteq Nat
  BY <1>0
<1>4. \A i \in DOMAIN rules : rules[i][2] # ""
  BY <1>1, <1>2
<1> QED BY <1>0, <1>1, <1>2, <1>3, <1>4, FirstBrokenRule DEF rules

\* Without an answer in time no check succeeds.
LEMMA NoAnswerNoSuccess ==
  ASSUME NEW policy, NEW check, NEW t, ~InTime(check, t)
  PROVE  SchemeCheckerRun(policy, check, t).success = FALSE
<1>1. HTTPRules(policy, check, t)[2][1] /\ TCPRules(policy, check, t)[2][1]
      /\ TLSRules(policy, check, t)[2][1]
  BY DEF HTTPRules, TCPRules, TLSRules
<1>2. /\ FirstBroken(HTTPRules(policy, check, t)) # ""
      /\ FirstBroken(TCPRules(policy, check, t)) # ""
      /\ FirstBroken(TLSRules(policy, check, t)) # ""
  <2>1. 2 \in 1..7 /\ 2 \in 1..4 /\ 2 \in 1..5
    OBVIOUS
  <2> QED BY <1>1, <2>1, HTTPEnds, TCPEnds, TLSEnds
<1> QED BY <1>2 DEF SchemeCheckerRun, HTTPRun, TCPRun, TLSRun, Result

-----------------------------------------------------------------------------
(* What a check decides depends on its rules only.                         *)

\* Two definitions that differ in nothing a rule looks at.
SameRules(d, e) ==
  /\ d.url = e.url
  /\ d.disable_redirects = e.disable_redirects
  /\ d.insecure_skip_verify = e.insecure_skip_verify
  /\ d.status_code_op = e.status_code_op
  /\ d.status_code_value = e.status_code_value
  /\ d.match_string = e.match_string
  /\ d.match_mode = e.match_mode
  /\ Timeout(d) = Timeout(e)
  /\ \A n : ResponseTimeExceeded(d, n) = ResponseTimeExceeded(e, n)
  /\ \A n : CertExpiryExceeded(d, n) = CertExpiryExceeded(e, n)

LEMMA SameRulesSameRun ==
  ASSUME NEW policy, NEW d, NEW e, NEW t, SameRules(d, e)
  PROVE  SchemeCheckerRun(policy, d, t) = SchemeCheckerRun(policy, e, t)
<1> USE DEF SameRules
<1>1. \A c : MatchContent(d, c) = MatchContent(e, c)
  BY DEF MatchContent
<1>2. \A s : StatusCodeAcceptable(d, s) = StatusCodeAcceptable(e, s)
  BY DEF StatusCodeAcceptable
<1>3. InTime(d, t) = InTime(e, t)
  BY DEF InTime
<1>4. \A hop : Responds(policy, d, hop) = Responds(policy, e, hop)
  BY DEF Responds
<1>5. \A k : RedirectRefused(policy, d, t, k) = RedirectRefused(policy, e, t, k)
  BY DEF RedirectRefused
<1>6. \A k : RedirectFollowed(policy, d, t, k) = RedirectFollowed(policy, e, t, k)
  BY <1>4, <1>5 DEF RedirectFollowed
<1>7. Visited(policy, d, t) = Visited(policy, e, t)
  BY <1>6 DEF Visited
<1>8. LastHop(policy, d, t) = LastHop(policy, e, t)
  BY <1>7 DEF LastHop
<1>9. Fetched(policy, d, t) = Fetched(policy, e, t)
  BY <1>4, <1>5, <1>7, <1>8 DEF Fetched
<1>10. HTTPRules(policy, d, t) = HTTPRules(policy, e, t)
  BY <1>1, <1>2, <1>3, <1>8, <1>9 DEF HTTPRules
<1>11. TCPRules(policy, d, t) = TCPRules(policy, e, t)
  BY <1>1, <1>3 DEF TCPRules
<1>12. TLSRules(policy, d, t) = TLSRules(policy, e, t)
  BY <1>1, <1>3 DEF TLSRules
<1> QED
  BY <1>8, <1>10, <1>11, <1>12 DEF SchemeCheckerRun, HTTPRun, TCPRun, TLSRun

-----------------------------------------------------------------------------
(* What execute keeps and records.                                         *)

LEMMA CappedSize ==
  ASSUME NEW content, NEW n \in Nat
  PROVE  TruncateContent(content, n).size <= n
BY DEF TruncateContent

LEMMA SampleIsKept ==
  ASSUME NEW content \in Content, content.size > 0
  PROVE  SampleContent(content).size # 0
BY DEF SampleContent, TruncateContent, Content

LEMMA StatusIsNotZero ==
  ASSUME NEW hop \in Hop
  PROVE  hop.status # 0
<1>1. hop.status \in 100..599
  BY DEF Hop
<1>2. \A n \in 100..599 : n # 0
  OBVIOUS
<1> QED BY <1>1, <1>2

LEMMA LastHopIsAHop ==
  ASSUME NEW policy, NEW check, NEW t \in Target
  PROVE  LastHop(policy, check, t) \in Hop
<1>1. t.hops \in Seq(Hop) /\ t.hops # <<>>
  BY DEF Target
<1>2. Len(t.hops) \in Nat /\ DOMAIN t.hops = 1..Len(t.hops) /\ Len(t.hops) # 0
  BY <1>1
<1>3. 1 \in Visited(policy, check, t)
  BY <1>2 DEF Visited
<1>4. Visited(policy, check, t) \in SUBSET Nat /\ Visited(policy, check, t) \subseteq DOMAIN t.hops
  BY <1>2 DEF Visited
<1>5. \A x \in Visited(policy, check, t) : x <= Len(t.hops)
  BY <1>2, <1>4
<1>6. Max(Visited(policy, check, t)) \in DOMAIN t.hops
  BY <1>2, <1>3, <1>4, <1>5, LargestBelow
<1> QED BY <1>1, <1>2, <1>6 DEF LastHop

-----------------------------------------------------------------------------
(* What is imported, whatever its definition and the network.              *)

LEMMA NormalizedLikeStored ==
  ASSUME NEW def \in Definition
  PROVE  SameRules(NormalizeTestCheck(def), Stored(def))
<1>1. /\ def.timeout_sec \in Int /\ def.max_response_time_ms \in Int
      /\ def.cert_expiry_warn_days \in Int
  BY DEF Definition
<1>2. Timeout(NormalizeTestCheck(def)) = Timeout(Stored(def))
  <2>1. NormalizeTestCheck(def).timeout_sec =
          IF def.timeout_sec = 0 THEN DefaultTimeout ELSE def.timeout_sec
    BY DEF NormalizeTestCheck, Definition
  <2>2. Stored(def).timeout_sec = AtLeastZero(def.timeout_sec)
    BY DEF Stored, Definition
  <2> QED BY <1>1, <2>1, <2>2, AtLeastZeroIs, VerdictAssumption DEF Timeout
<1>3. \A n : ResponseTimeExceeded(NormalizeTestCheck(def), n) = ResponseTimeExceeded(Stored(def), n)
  <2>1. /\ NormalizeTestCheck(def).max_response_time_ms = def.max_response_time_ms
        /\ Stored(def).max_response_time_ms = AtLeastZero(def.max_response_time_ms)
    BY DEF NormalizeTestCheck, Stored, Definition
  <2> QED BY <1>1, <2>1, AtLeastZeroIs DEF ResponseTimeExceeded
<1>4. \A n : CertExpiryExceeded(NormalizeTestCheck(def), n) = CertExpiryExceeded(Stored(def), n)
  <2>1. /\ NormalizeTestCheck(def).cert_expiry_warn_days = def.cert_expiry_warn_days
        /\ Stored(def).cert_expiry_warn_days = AtLeastZero(def.cert_expiry_warn_days)
    BY DEF NormalizeTestCheck, Stored, Definition
  <2> QED BY <1>1, <2>1, AtLeastZeroIs DEF CertExpiryExceeded
<1>5. /\ NormalizeTestCheck(def).match_mode = Stored(def).match_mode
      /\ NormalizeTestCheck(def).match_string = Stored(def).match_string
      /\ NormalizeTestCheck(def).url = Stored(def).url
      /\ NormalizeTestCheck(def).disable_redirects = Stored(def).disable_redirects
      /\ NormalizeTestCheck(def).insecure_skip_verify = Stored(def).insecure_skip_verify
      /\ NormalizeTestCheck(def).status_code_op = Stored(def).status_code_op
      /\ NormalizeTestCheck(def).status_code_value = Stored(def).status_code_value
  BY DEF NormalizeTestCheck, Stored, Definition
<1> QED BY <1>2, <1>3, <1>4, <1>5 DEF SameRules

LEMMA TestsPredict ==
  ASSUME NEW f \in Files, NEW policy, NEW t \in Targets, NEW expired \in BOOLEAN
  PROVE  Predicts(f, policy, t, expired)
<1> DEFINE def == DefinitionOf[f]
           run == SchemeCheckerRun(policy, Stored(def), t)
<1>1. def \in Definition /\ t \in Target
  OBVIOUS
<1>2. Execute(policy, Stored(def), t, TRUE).success = InvertPassed(def, run.success)
  <2>1. Stored(def).invert_result = def.invert_result
    BY <1>1 DEF Stored, Definition
  <2> QED BY <2>1 DEF Execute, InvertPassed
<1>3. CASE ~expired
  <2>1. [t EXCEPT !.answers = @ /\ ~expired] = t
    BY <1>1, <1>3 DEF Target
  <2>2. TestRun(policy, def, t, expired) = run
    BY <1>1, <2>1, NormalizedLikeStored, SameRulesSameRun DEF TestRun
  <2> QED BY <1>2, <1>3, <2>2 DEF Predicts, TestCheck
<1>4. CASE expired
  <2>1. ~InTime(NormalizeTestCheck(def), [t EXCEPT !.answers = @ /\ ~expired])
    BY <1>1, <1>4 DEF InTime, Target
  <2>2. TestRun(policy, def, t, expired).success = FALSE
    BY <2>1, NoAnswerNoSuccess DEF TestRun
  <2>3. TestCheck(policy, def, t, expired) => def.invert_result
    BY <1>1, <2>2 DEF TestCheck, InvertPassed, Definition
  <2> QED BY <1>4, <2>3 DEF Predicts
<1> QED BY <1>3, <1>4

LEMMA AnswersCount ==
  ASSUME NEW policy, NEW def, NEW t \in Target, Answered(policy, def, t)
  PROVE  Execute(policy, def, t, FALSE).recorded
<1> DEFINE run == SchemeCheckerRun(policy, def, t)
<1>1. CheckURL(policy, def.url) /\ InTime(def, t) /\ t.content.size > 0
  BY DEF Answered
<1>2. SampleContent(t.content).size # 0
  BY <1>1, SampleIsKept DEF Target
<1>3. CASE def.url.scheme = "tcp"
  <2>1. ~TCPRules(policy, def, t)[1][1] /\ ~TCPRules(policy, def, t)[2][1]
    BY <1>1, <1>3 DEF Answered, TCPRules
  <2>2. run.sample = SampleContent(t.content)
    BY <1>1, <1>3, <2>1, TCPEnds DEF SchemeCheckerRun, TCPRun, Result
  <2> QED BY <1>2, <2>2 DEF Execute, IsTransportFailure
<1>4. CASE def.url.scheme = "tls"
  <2>1. ~TLSRules(policy, def, t)[1][1] /\ ~TLSRules(policy, def, t)[2][1] /\ t.certificate
    BY <1>1, <1>4 DEF Answered, TLSRules
  <2>2. run.sample = SampleContent(t.content)
    BY <1>1, <1>4, <2>1, TLSEnds DEF SchemeCheckerRun, TLSRun, Result
  <2> QED BY <1>2, <2>2 DEF Execute, IsTransportFailure
<1>5. CASE def.url.scheme \notin {"tcp", "tls"}
  <2>1. ~HTTPRules(policy, def, t)[1][1] /\ ~HTTPRules(policy, def, t)[2][1]
    BY <1>1, <1>5 DEF Answered, HTTPRules
  <2>2. LastHop(policy, def, t).status # 0
    BY LastHopIsAHop, StatusIsNotZero
  <2>3. run.http_status # 0
    BY <1>1, <1>5, <2>1, <2>2, HTTPEnds DEF SchemeCheckerRun, HTTPRun, Result
  <2> QED BY <2>3 DEF Execute, IsTransportFailure
<1> QED BY <1>3, <1>4, <1>5

LEMMA DetailIsCapped ==
  ASSUME NEW f \in Files, NEW meta \in Metas, NEW t
  PROVE  Execute("open", RowDefinition(f, meta), t, TRUE).sample.size <= Cap(meta)
<1>1. \A h \in Files : DefinitionOf[h] \in Definition /\ DefinitionOf[h].result_detail_max_chars \in Int
  BY DEF Definition
<1>2. Cap(meta) \in Nat
  BY <1>1, AtLeastZeroIs DEF Cap
<1>3. RowDefinition(f, meta).result_detail_max_chars = Cap(meta)
  BY <1>1 DEF RowDefinition, Stored, Cap, Definition
<1> QED BY <1>2, <1>3, CappedSize DEF Execute, Capped

-----------------------------------------------------------------------------
(* The theorems.                                                           *)

\* The strengthening is an invariant of daemon and commands together.
THEOREM FilesInvariance == FilesSpec => []FilesIInv
<1> QED BY FilesInitIInv, FilesNextIInv, PTL DEF FilesSpec

\* The commands do to the mirror only what Mirror allows: all that is proved of
\* it holds beside them.
THEOREM CommandsImplementMirror == FilesSpec => Spec
<1>1. FilesInit => Init
  BY DEF FilesInit
<1>2. FilesIInv /\ [FilesNext]_allVars => [Next]_vars
  BY FilesStepIsMirrorStep DEF FilesIInv
<1> QED BY <1>1, <1>2, FilesInvariance, PTL DEF FilesSpec, Spec

\* An import that stops half-way leaves what it has stored, for files and
\* tables of any size.
THEOREM ImportsAreKept == FilesSpec => []ImportsStay
<1>1. FilesIInv => ImportsStay
  BY DEF FilesIInv
<1> QED BY <1>1, FilesInvariance, PTL

\* "It passed the test" means "the daemon will record a pass", for every
\* definition.
THEOREM TestsPredictTheDaemon == FilesSpec => []TestPredictsDaemon
<1>1. TestPredictsDaemon
  BY TestsPredict DEF TestPredictsDaemon, PredictedFiles, Imported
<1> QED BY <1>1, PTL

\* No more of a response is kept than the cap in force, which is never negative.
THEOREM DetailIsKeptHere == FilesSpec => []DetailStaysHere
<1>1. FilesIInv => DetailStaysHere
  <2>1. FilesIInv => \A g \in Imported : checks[g].meta \in Metas
    BY DEF FilesIInv, IInv, TypeOK, Table, Row, NoRow, Imported, Metas
  <2>2. \A meta \in Metas : CappedUnder[meta] = Files
    BY DetailIsCapped DEF CappedUnder
  <2> QED BY <2>1, <2>2 DEF DetailStaysHere, Imported
<1> QED BY <1>1, FilesInvariance, PTL

\* A failure after an answer is recorded whatever the probe finds.
THEOREM AnsweredFailuresAreRecorded == FilesSpec => []AnswersAreRecorded
<1>1. AnswersAreRecorded
  BY AnswersCount DEF AnswersAreRecorded, RecordedFiles, Imported
<1> QED BY <1>1, PTL

\* Under the strict policy only addresses that were checked are dialled, whatever
\* names resolve to, once or again, and responses redirect to: public ones, and
\* of the others only an unspecified or reserved address with a zone.
THEOREM StrictDialsStayOutside == FilesSpec => []DialsStayOutside
<1>1. DialsStayOutside
  BY StrictExecutionsStayOutside, TargetsAssumption DEF DialsStayOutside, ContainedFiles, Imported
<1> QED BY <1>1, PTL
=============================================================================
