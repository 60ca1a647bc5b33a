-------------------------------- MODULE Gate --------------------------------
(***************************************************************************)
(* ConnectivityGate (gate.go) in the detail the Runner model leaves out:   *)
(* concurrent calls of Verify, each with its probe's dial goroutines and   *)
(* results channel, the clock read before the lock is taken, and the       *)
(* outage that LastOutage reports.                                         *)
(*                                                                         *)
(* Callers are executions of Verify that may overlap: Ticker is the one of *)
(* the gate's own Run loop, the others those of checks that failed.  With  *)
(* a proxy the probe is a single call of Ping: one target.                 *)
(***************************************************************************)
EXTENDS Integers, Sequences, FiniteSets

CONSTANTS
  Checks,       \* overlapping calls of Verify from execute
  Ticker,       \* the call of Verify from Run
  Targets,      \* endpoints a probe dials
  MaxClock,     \* bound: clock readings
  MaxLosses     \* bound: times a target stops answering

ASSUME TickerAssumption == Ticker \notin Checks
ASSUME TargetsAssumption == IsFiniteSet(Targets) /\ Targets # {}
ASSUME GateBounds == MaxClock \in Nat /\ MaxLosses \in Nat

Callers == Checks \cup {Ticker}

VARIABLES
  online,       \* gate.online
  offlineSince, \* gate.offlineSince
  lastOutage,   \* gate.lastOutageEndedAt and lastOutageDuration
  verify,       \* callers: where Verify is, what probe said, the time it read
  dial,         \* callers: state of the dial goroutine of each target
  results,      \* callers: the channel results
  failed,       \* callers: how many failures probe has received
  ctxDone,      \* callers whose context is cancelled
  clock,        \* the latest time read
  answering,    \* targets that answer
  \* history, never read by the code
  lost,         \* targets that did not answer at some time
  cancelled,    \* whether a caller's context was cancelled during a call
  losses

gateVars == <<online, offlineSince, lastOutage>>
probeVars == <<dial, results, failed>>
worldVars == <<clock, answering, lost, losses>>
vars == <<gateVars, verify, probeVars, ctxDone, worldVars, cancelled>>

-----------------------------------------------------------------------------
NoOutage == [endedAt |-> 0, duration |-> 0, ok |-> FALSE]
NotCalled == [pc |-> "idle", reachable |-> FALSE, now |-> 0]
NoDials == [t \in Targets |-> "none"]

TypeOK ==
  /\ online \in BOOLEAN
  /\ offlineSince \in 0..MaxClock
  /\ lastOutage \in [endedAt : 0..MaxClock, duration : (0 - MaxClock)..MaxClock, ok : BOOLEAN]
  /\ verify \in [Callers -> [pc : {"idle", "probe", "clock", "lock"},
                             reachable : BOOLEAN, now : 0..MaxClock]]
  /\ dial \in [Callers -> [Targets -> {"none", "dialing", "answered", "refused"}]]
  /\ \A c \in Callers :
       results[c] \in Seq(BOOLEAN) /\ Len(results[c]) <= Cardinality(Targets)
  /\ failed \in [Callers -> 0..Cardinality(Targets)]
  /\ ctxDone \in SUBSET Callers
  /\ clock \in 0..MaxClock
  /\ answering \in SUBSET Targets
  /\ lost \in SUBSET Targets
  /\ cancelled \in BOOLEAN
  /\ losses \in 0..MaxLosses

-----------------------------------------------------------------------------
(* The world.                                                              *)

TargetLost(t) ==
  /\ t \in answering
  /\ losses < MaxLosses
  /\ losses' = losses + 1
  /\ answering' = answering \ {t}
  /\ lost' = lost \cup {t}
  /\ UNCHANGED <<gateVars, verify, probeVars, ctxDone, clock, cancelled>>

TargetBack(t) ==
  /\ t \notin answering
  /\ answering' = answering \cup {t}
  /\ UNCHANGED <<gateVars, verify, probeVars, ctxDone, clock, lost, losses, cancelled>>

\* The check on whose behalf Verify was called is dropped or restarted.
CancelCaller(c) ==
  /\ verify[c].pc # "idle"
  /\ c \notin ctxDone
  /\ ctxDone' = ctxDone \cup {c}
  /\ cancelled' = TRUE
  /\ UNCHANGED <<gateVars, verify, probeVars, worldVars>>

-----------------------------------------------------------------------------
(* Verify and probe.                                                       *)

\* Capacity of the channel results: one slot per target.
Unbuffered == 0
Capacity == Cardinality(Targets)

\* A count of failures that outlives the probe.
BeginVerifyKeepsCount(c) ==
  /\ verify[c].pc = "idle"
  /\ dial[c] = NoDials
  /\ c = Ticker => ~online
  /\ verify' = [verify EXCEPT ![c].pc = "probe"]
  /\ dial' = [dial EXCEPT ![c] = [t \in Targets |-> "dialing"]]
  /\ results' = [results EXCEPT ![c] = <<>>]
  /\ ctxDone' = ctxDone \ {c}
  /\ UNCHANGED <<gateVars, failed, worldVars, cancelled>>

\* Begin a probe: every target is dialled in a goroutine of its own.  A caller
\* is used again only when the stragglers of its last probe are gone; Run calls
\* Verify only while the gate is offline.
BeginVerify(c) ==
  /\ verify[c].pc = "idle"
  /\ dial[c] = NoDials
  /\ c = Ticker => ~online
  /\ verify' = [verify EXCEPT ![c].pc = "probe"]
  /\ dial' = [dial EXCEPT ![c] = [t \in Targets |-> "dialing"]]
  /\ results' = [results EXCEPT ![c] = <<>>]
  /\ failed' = [failed EXCEPT ![c] = 0]
  /\ ctxDone' = ctxDone \ {c}
  /\ UNCHANGED <<gateVars, worldVars, cancelled>>

\* probe's deferred cancel ends the dials under way when it has returned.
Dial(c, t) ==
  /\ dial[c][t] = "dialing"
  /\ \/ t \in answering /\ dial' = [dial EXCEPT ![c][t] = "answered"]
     \/ /\ t \notin answering \/ c \in ctxDone \/ verify[c].pc # "probe"
        /\ dial' = [dial EXCEPT ![c][t] = "refused"]
  /\ UNCHANGED <<gateVars, verify, results, failed, ctxDone, worldVars, cancelled>>

\* results <- (err == nil): needs room in the channel, or the receiver.
SendResult(c, t) ==
  /\ dial[c][t] \in {"answered", "refused"}
  /\ Len(results[c]) < Capacity
       \/ (results[c] = <<>> /\ verify[c].pc = "probe")
  /\ results' = [results EXCEPT ![c] = Append(@, dial[c][t] = "answered")]
  /\ dial' = [dial EXCEPT ![c][t] = "none"]
  /\ UNCHANGED <<gateVars, verify, failed, ctxDone, worldVars, cancelled>>

\* The first result decides, whatever it is.
ReceiveFirst(c) ==
  /\ verify[c].pc = "probe"
  /\ results[c] # <<>>
  /\ results' = [results EXCEPT ![c] = Tail(@)]
  /\ verify' = [verify EXCEPT ![c].pc = "clock", ![c].reachable = Head(results[c])]
  /\ UNCHANGED <<gateVars, dial, failed, ctxDone, worldVars, cancelled>>

\* The first success returns true; the last of all failures returns false.
ReceiveResult(c) ==
  /\ verify[c].pc = "probe"
  /\ results[c] # <<>>
  /\ results' = [results EXCEPT ![c] = Tail(@)]
  /\ IF Head(results[c])
     THEN /\ verify' = [verify EXCEPT ![c].pc = "clock", ![c].reachable = TRUE]
          /\ UNCHANGED failed
     ELSE /\ failed' = [failed EXCEPT ![c] = @ + 1]
          /\ verify' = IF failed[c] + 1 = Cardinality(Targets)
                       THEN [verify EXCEPT ![c].pc = "clock", ![c].reachable = FALSE]
                       ELSE verify
  /\ UNCHANGED <<gateVars, dial, ctxDone, worldVars, cancelled>>

\* now := time.Now(), before the lock: some time not before the latest reading.
ReadClock(c) ==
  /\ verify[c].pc = "clock"
  /\ \E t \in clock..MaxClock :
       /\ clock' = t
       /\ verify' = [verify EXCEPT ![c].pc = "lock", ![c].now = t]
  /\ UNCHANGED <<gateVars, probeVars, ctxDone, answering, lost, losses, cancelled>>

\* Without the case that comes back online.
UpdateGateOneWay(c) ==
  /\ verify[c].pc = "lock"
  /\ online' = (online /\ verify[c].reachable)
  /\ verify' = [verify EXCEPT ![c] = NotCalled]
  /\ UNCHANGED <<offlineSince, lastOutage, probeVars, ctxDone, worldVars, cancelled>>

\* Under the lock: a transition either way, or nothing.
UpdateGate(c) ==
  LET v == verify[c]
  IN  /\ v.pc = "lock"
      /\ verify' = [verify EXCEPT ![c] = NotCalled]
      /\ \/ /\ ~v.reachable /\ online
            /\ online' = FALSE
            /\ offlineSince' = v.now
            /\ UNCHANGED lastOutage
         \/ /\ v.reachable /\ ~online
            /\ online' = TRUE
            /\ lastOutage' = [endedAt |-> v.now, ok |-> TRUE,
                              duration |-> v.now - offlineSince]
            /\ UNCHANGED offlineSince
         \/ v.reachable = online /\ UNCHANGED gateVars
      /\ UNCHANGED <<probeVars, ctxDone, worldVars, cancelled>>

-----------------------------------------------------------------------------
Init ==
  /\ online = TRUE
  /\ offlineSince = 0
  /\ lastOutage = NoOutage
  /\ verify = [c \in Callers |-> NotCalled]
  /\ dial = [c \in Callers |-> NoDials]
  /\ results = [c \in Callers |-> <<>>]
  /\ failed = [c \in Callers |-> 0]
  /\ ctxDone = {}
  /\ clock = 0
  /\ answering \in SUBSET Targets
  /\ lost = Targets \ answering
  /\ cancelled = FALSE
  /\ losses = 0

Dialer(c, t) == Dial(c, t) \/ SendResult(c, t)
Verify(c) == ReceiveResult(c) \/ ReadClock(c) \/ UpdateGate(c)

Next ==
  \/ \E t \in Targets : TargetLost(t) \/ TargetBack(t)
  \/ \E c \in Callers :
       BeginVerify(c) \/ Verify(c) \/ \E t \in Targets : Dialer(c, t)
  \/ \E c \in Checks : CancelCaller(c)

Spec == Init /\ [][Next]_vars

\* A dial ends within probeDialTimeout, goroutines keep running, and Run probes
\* at every recheckInterval while the gate is offline.
Fairness ==
  /\ \A c \in Callers :
       WF_vars(Verify(c)) /\ \A t \in Targets : WF_vars(Dialer(c, t))
  /\ SF_vars(BeginVerify(Ticker))

FairSpec == Spec /\ Fairness

-----------------------------------------------------------------------------
\* DefaultProbeTargets' "one operator having a bad day can't pause monitoring":
\* while some target has answered all the time and no check was dropped during
\* its probe, the gate stays online.
OneGoodTargetKeepsOnline == online \/ lost = Targets \/ cancelled

\* A probe that returns early leaves no goroutine behind: every dial goroutine
\* gets rid of its result and ends ("buffered [...] so stragglers can finish").
StragglersEnd == \A c \in Callers, t \in Targets : []<>(dial[c][t] = "none")

\* "this loop only exists to notice recovery": the gate does not stay offline
\* while a target answers, however it went offline.
NoticesRecovery == []<>(online \/ answering = {})

\* What LastOutage's callers and the gate's test take for granted: an outage
\* does not end before it began.
OutageNotNegative == lastOutage.duration >= 0
=============================================================================
