----------------------------- MODULE CheckFiles -----------------------------
(***************************************************************************)
(* Definitions the server is never given: the commands -test-check,        *)
(* -import-private-check and -export-private-checks (main.go, testcheck.go)*)
(* over the mirror a daemon syncs at the same time, and what the daemon    *)
(* makes of an imported check when it executes it.                         *)
(*                                                                         *)
(* A member of Files is the content of one definition.  A check file on    *)
(* the operator's disk is a sequence of entries, each a guid and a content.*)
(***************************************************************************)
EXTENDS Mirror, Verdict, SequencesExt

CONSTANTS
  DefinitionOf,   \* Files -> Definition
  Targets,        \* what the network may do to an execution
  ServerDetail,   \* result_detail_max_chars of a check the server has saved
  HandWritten,    \* check files the operator may write
  NoGuid

Entry == [guid : Guids \cup {NoGuid}, def : Files]

ASSUME GuidsAssumption == IsFiniteSet(Guids)
ASSUME DefinitionsAssumption == DefinitionOf \in [Files -> Definition]
ASSUME TargetsAssumption == Targets \subseteq Target
ASSUME FilesAssumption == HandWritten \subseteq Seq(Entry) /\ ServerDetail \in Nat

VARIABLES
  file,         \* the check file on disk
  import,       \* the last -import-private-check: where it is, how many it did
  \* history, never read by the code
  exportOf,     \* the content each entry was exported from, if it was
  overwritten   \* checks a sync replaced or removed since that import began

fileVars == <<file, exportOf>>
commandVars == <<fileVars, import, overwritten>>
allVars == <<vars, commandVars>>

-----------------------------------------------------------------------------
(* Definitions on their way through a file and the table.                  *)

AtLeastZero(n) == Max({n, 0})

\* What ImportPrivateCheck writes of a definition.
Stored(def) ==
  [def EXCEPT !.match_mode = IF @ = "" THEN "contains" ELSE @,
              !.timeout_sec = AtLeastZero(@),
              !.max_response_time_ms = AtLeastZero(@),
              !.cert_expiry_warn_days = AtLeastZero(@),
              !.result_detail_max_chars = AtLeastZero(@)]

\* The row of an imported check as scanCheck reads it: its metadata is the
\* server's, or that of the file which made the row.
RowDefinition(content, meta) ==
  [Stored(DefinitionOf[content]) EXCEPT
     !.result_detail_max_chars =
        IF meta \in Files THEN Stored(DefinitionOf[meta]).result_detail_max_chars
        ELSE ServerDetail]

\* CheckExport has no cert_expiry_warn_days; a key that is missing reads as 0.
CheckExportOf(def) == [def EXCEPT !.cert_expiry_warn_days = 0]

\* Files holds what is exported, too.
Metas == Files \cup 0..MaxClock
ASSUME ExportedAssumption ==
  \A f \in Files, meta \in Metas :
    \E e \in Files : DefinitionOf[e] = CheckExportOf(RowDefinition(f, meta))

\* What a server would have filled in.
NormalizeTestCheck(def) ==
  [def EXCEPT !.match_mode = IF @ = "" THEN "contains" ELSE @,
              !.timeout_sec = IF @ = 0 THEN DefaultTimeout ELSE @]

\* The deadline of the whole command ends an execution without an answer.
TestRun(policy, def, t, expired) ==
  SchemeCheckerRun(policy, NormalizeTestCheck(def), [t EXCEPT !.answers = @ /\ ~expired])

\* The result printed as the checker returned it.
TestCheckUninverted(policy, def, t, expired) == TestRun(policy, def, t, expired).success

TestCheck(policy, def, t, expired) ==
  InvertPassed(def, TestRun(policy, def, t, expired).success)

-----------------------------------------------------------------------------
(* The commands.                                                           *)

Running == import.state = "running"

WriteFile(entries) ==
  /\ ~Running
  /\ file' = entries
  /\ exportOf' = [i \in DOMAIN entries |-> entries[i].def]
  /\ import' = [state |-> "none", done |-> 0]
  /\ overwritten' = {}
  /\ UNCHANGED vars

\* -export-private-checks: the rows with locally_defined = 1, read at once.
ExportPrivateChecks ==
  LET private == SetToSeq({g \in Guids : checks[g].locally_defined})
      Exported(g) == CheckExportOf(RowDefinition(checks[g].content, checks[g].meta))
  IN  /\ ~Running
      /\ file' = [i \in DOMAIN private |->
                    [guid |-> private[i],
                     def |-> CHOOSE f \in Files : DefinitionOf[f] = Exported(private[i])]]
      /\ exportOf' = [i \in DOMAIN private |-> checks[private[i]].content]
      /\ import' = [state |-> "none", done |-> 0]
      /\ overwritten' = {}
      /\ UNCHANGED vars

\* The command reads the file and begins, unless it holds no check, or one
\* without a guid.
StartImport ==
  LET valid == file # <<>> /\ \A i \in DOMAIN file : file[i].guid # NoGuid
  IN  /\ ~Running
      /\ import' = [state |-> IF valid THEN "running" ELSE "invalid", done |-> 0]
      /\ overwritten' = {}
      /\ UNCHANGED <<vars, fileVars>>

\* As if a reader's snapshot were enough to write: no wait for the sync's
\* transaction.
ImportNextUnlocked ==
  LET entry == file[import.done + 1]
  IN  /\ Running
      /\ checks' = Import(checks, entry.guid, entry.def)
      /\ import' = [state |-> IF import.done + 1 = Len(file) THEN "ok" ELSE "running",
                    done |-> import.done + 1]
      /\ overwritten' = overwritten \ {entry.guid}
      /\ UNCHANGED <<serverVars, watermark, syncVars, synced, failures, fileVars>>

\* One check of the file; the last one ends the command with exit code 0.
ImportNext ==
  LET entry == file[import.done + 1]
  IN  /\ Running
      /\ ImportPrivateCheck(entry.guid, entry.def)
      /\ import' = [state |-> IF import.done + 1 = Len(file) THEN "ok" ELSE "running",
                    done |-> import.done + 1]
      /\ overwritten' = overwritten \ {entry.guid}
      /\ UNCHANGED fileVars

\* A statement fails and the command exits with 2, or it is killed.
ImportStops ==
  /\ Running
  /\ import' = [import EXCEPT !.state = "stopped"]
  /\ UNCHANGED <<vars, fileVars, overwritten>>

\* The daemon and the server go on as in Mirror.
MirrorStep ==
  /\ Server \/ Sync \/ SyncFails
  /\ overwritten' = overwritten \cup
       {g \in Guids : checks'[g] # checks[g] /\ snap[g].kind # "private"}
  /\ UNCHANGED <<fileVars, import>>

FilesInit ==
  /\ Init
  /\ file = <<>>
  /\ exportOf = <<>>
  /\ import = [state |-> "none", done |-> 0]
  /\ overwritten = {}

FilesNext ==
  \/ MirrorStep
  \/ \E entries \in HandWritten : WriteFile(entries)
  \/ ExportPrivateChecks
  \/ StartImport
  \/ ImportNext
  \/ ImportStops

FilesSpec == FilesInit /\ [][FilesNext]_allVars

\* The daemon's part as in Mirror; no command need ever be given or go on.
FilesFairSpec == FilesSpec /\ WF_allVars(Sync /\ MirrorStep)
-----------------------------------------------------------------------------
FilesTypeOK ==
  /\ TypeOK
  /\ file \in Seq(Entry)
  /\ exportOf \in [DOMAIN file -> Files]
  /\ import \in [state : {"none", "running", "ok", "invalid", "stopped"}, done : 0..Len(file)]
  /\ overwritten \in SUBSET Guids

\* An import that stops half-way, or ends, leaves in the table what it has
\* stored so far - of each check the last of its entries - unless a sync has
\* brought a definition, or removed the check, since.
LastEntry(g) == Max({i \in 1..import.done : file[i].guid = g})
ImportsStay ==
  \A g \in {file[i].guid : i \in 1..import.done} \ overwritten :
    checks[g].locally_defined /\ checks[g].content = file[LastEntry(g)].def

\* "It passed the test therefore means the daemon will record a pass": of a
\* definition imported from the tested file, whatever the network does, and a
\* check that failed would be recorded as failed.  The daemon's execution is one
\* whose probe, if it comes to one, finds the internet; of these two only the
\* deadline of the whole command makes the verdicts differ, or an inverted check
\* pass.
Imported == {g \in Guids : checks[g].content \in Files}
Predicts(f, policy, t, expired) ==
  LET def == DefinitionOf[f]
      passed == TestCheck(policy, def, t, expired)
      recorded == Execute(policy, Stored(def), t, TRUE).success
  IN  /\ passed /\ ~(expired /\ def.invert_result) => recorded
      /\ ~expired => passed = recorded
PredictedFiles ==
  {f \in Files : \A policy \in Policies, t \in Targets, expired \in BOOLEAN :
                   Predicts(f, policy, t, expired)}
TestPredictsDaemon == \A g \in Imported : checks[g].content \in PredictedFiles

\* Of the response to an imported check no more characters are buffered, and so
\* sent to the server, than the cap in force: none when it is zero or, in a
\* file edited by hand, less.
Cap(meta) ==
  IF meta \in Files THEN AtLeastZero(DefinitionOf[meta].result_detail_max_chars) ELSE ServerDetail
CappedUnder ==
  [meta \in Metas |->
     {f \in Files :
        \A t \in Targets :
          Execute("open", RowDefinition(f, meta), t, TRUE).sample.size
            <= Cap(meta)}]
DetailStaysHere == \A g \in Imported : checks[g].content \in CappedUnder[checks[g].meta]

\* An answer proves that traffic flowed: a failure after it is recorded even
\* if the probe then finds no internet, and however little of it is kept.
Answered(policy, def, t) ==
  /\ CheckURL(policy, def.url) /\ InTime(def, t) /\ t.content.size > 0
  /\ IF def.url.scheme \in {"tcp", "tls"}
     THEN /\ def.url.port /\ Dial(policy, t.hops[1]).conn
          /\ def.url.scheme = "tls" => t.certificate /\ (t.hops[1].trusted \/ def.insecure_skip_verify)
     ELSE Fetched(policy, def, t)
RecordedFiles ==
  {f \in Files : \A policy \in Policies, t \in Targets :
      LET def == Stored(DefinitionOf[f])
      IN  Answered(policy, def, t) => Execute(policy, def, t, FALSE).recorded}
AnswersAreRecorded == \A g \in Imported : checks[g].content \in RecordedFiles

\* An address checked is the address dialled: whatever its name resolves to, now
\* or when it is looked up again, however an address is written and wherever the
\* execution is redirected, under the strict policy it never connects to a
\* loopback, private, link-local or multicast address, and to an unspecified or
\* reserved one only by its zone.
InternalByZone(addr) == addr.form = "zoned" /\ addr.range \in {"unspecified", "reserved"}
ContainedFiles ==
  {f \in Files : \A t \in Targets :
      \A addr \in Dialled("strict", Stored(DefinitionOf[f]), t) :
        addr.range = "public" \/ InternalByZone(addr)}
DialsStayOutside == \A g \in Imported : checks[g].content \in ContainedFiles

\* RestrictedAddr "reports whether one resolved address is internal", among them
\* "0.0.0.0 and ::" and the reserved ranges: nothing but public addresses is
\* dialled under the strict policy.
PublicFiles ==
  {f \in Files : \A t \in Targets :
      \A addr \in Dialled("strict", Stored(DefinitionOf[f]), t) : addr.range = "public"}
DialledIsPublic == \A g \in Imported : checks[g].content \in PublicFiles

\* "A backup copy, in the same shape -import-private-check reads": an exported
\* definition that is imported again decides like the one it was exported from.
RestoredLike(e, f) ==
  \A t \in Targets : Execute("open", Stored(DefinitionOf[e]), t, TRUE).success =
                       Execute("open", Stored(DefinitionOf[f]), t, TRUE).success
ExportRestores == \A i \in DOMAIN file : RestoredLike(file[i].def, exportOf[i])
=============================================================================
