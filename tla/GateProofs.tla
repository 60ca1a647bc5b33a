----------------------------- MODULE GateProofs -----------------------------
(***************************************************************************)
(* Theorems about Gate, for any callers, targets, clock readings and       *)
(* losses.                                                                 *)
(***************************************************************************)
EXTENDS Gate, FiniteSetTheorems, SequenceTheorems, TLAPS

Call == [pc : {"idle", "probe", "clock", "lock"}, reachable : BOOLEAN, now : 0..MaxClock]

\* The types, without the bounds that only counting gives.
Shapes ==
  /\ online \in BOOLEAN
  /\ offlineSince \in 0..MaxClock
  /\ lastOutage \in [endedAt : 0..MaxClock, duration : (0 - MaxClock)..MaxClock, ok : BOOLEAN]
  /\ verify \in [Callers -> Call]
  /\ dial \in [Callers -> [Targets -> {"none", "dialing", "answered", "refused"}]]
  /\ results \in [Callers -> Seq(BOOLEAN)]
  /\ failed \in [Callers -> Nat]
  /\ ctxDone \in SUBSET Callers
  /\ clock \in 0..MaxClock
  /\ answering \in SUBSET Targets
  /\ lost \in SUBSET Targets
  /\ cancelled \in BOOLEAN
  /\ losses \in 0..MaxLosses

\* The dial goroutines that have not sent their result.
Outstanding(c) == {t \in Targets : dial[c][t] # "none"}

\* While a probe runs each target's result is counted, in the channel, or still
\* to be sent; an early return only takes results away.
Sum(c) == failed[c] + Len(results[c]) + Cardinality(Outstanding(c))
Accounted(c) ==
  /\ Sum(c) <= Cardinality(Targets)
  /\ verify[c].pc = "probe" => Sum(c) = Cardinality(Targets)

\* The success of a target that has answered all the time is on its way.
Heard(c, t) ==
  \/ dial[c][t] \in {"dialing", "answered"}
  \/ \E i \in 1..Len(results[c]) : results[c][i] = TRUE

\* Without a cancelled caller a probe fails only when all targets do.
GoodIsHeard ==
  /\ Targets \ lost \subseteq answering
  /\ ~cancelled =>
       /\ ctxDone = {}
       /\ \A c \in Callers :
            /\ verify[c].pc = "probe" => \A t \in Targets \ lost : Heard(c, t)
            /\ verify[c].pc \in {"clock", "lock"} /\ ~verify[c].reachable => lost = Targets

IInv ==
  /\ Shapes
  /\ \A c \in Callers : Accounted(c)
  /\ GoodIsHeard
  /\ OneGoodTargetKeepsOnline

USE TickerAssumption, TargetsAssumption, GateBounds

-----------------------------------------------------------------------------
LEMMA TargetsAreCounted ==
  Cardinality(Targets) \in Nat \ {0}
BY FS_CardinalityType, FS_EmptySet

LEMMA OutstandingIsCounted ==
  ASSUME NEW c \in Callers
  PROVE  IsFiniteSet(Outstanding(c)) /\ Cardinality(Outstanding(c)) \in Nat
BY FS_Subset, FS_CardinalityType DEF Outstanding

\* The bounds of the type invariant are those of the count.
LEMMA CountBounds ==
  ASSUME IInv
  PROVE  TypeOK
<1>1. ASSUME NEW c \in Callers
      PROVE  Len(results[c]) <= Cardinality(Targets) /\ failed[c] \in 0..Cardinality(Targets)
  <2>1. failed[c] \in Nat /\ Len(results[c]) \in Nat
    BY DEF IInv, Shapes
  <2>2. failed[c] + Len(results[c]) + Cardinality(Outstanding(c)) <= Cardinality(Targets)
    BY DEF IInv, Accounted, Sum
  <2> QED BY <2>1, <2>2, OutstandingIsCounted, TargetsAreCounted
<1> QED BY <1>1 DEF IInv, Shapes, Call, TypeOK

-----------------------------------------------------------------------------
(* Each group of actions.                                                  *)

\* What a step of Verify makes of the record of its caller.
LEMMA CallShapes ==
  ASSUME verify \in [Callers -> Call], NEW c \in Callers,
         NEW p \in {"idle", "probe", "clock", "lock"}, NEW r \in BOOLEAN, NEW n \in 0..MaxClock
  PROVE  /\ [verify EXCEPT ![c].pc = p] \in [Callers -> Call]
         /\ [verify EXCEPT ![c].pc = p, ![c].reachable = r] \in [Callers -> Call]
         /\ [verify EXCEPT ![c].pc = p, ![c].now = n] \in [Callers -> Call]
         /\ [verify EXCEPT ![c] = NotCalled] \in [Callers -> Call]
<1>1. [verify EXCEPT ![c].pc = p] \in [Callers -> Call]
  BY DEF Call
<1>2. [verify EXCEPT ![c].pc = p, ![c].reachable = r] \in [Callers -> Call]
  BY DEF Call
<1>3. [verify EXCEPT ![c].pc = p, ![c].now = n] \in [Callers -> Call]
  BY DEF Call
<1>4. [verify EXCEPT ![c] = NotCalled] \in [Callers -> Call]
  BY DEF Call, NotCalled
<1> QED BY <1>1, <1>2, <1>3, <1>4

\* The two ways to take a result.
LEMMA Received ==
  ASSUME Shapes, NEW c \in Callers, ReceiveResult(c)
  PROVE  /\ verify[c].pc = "probe"
         /\ results[c] \in Seq(BOOLEAN) /\ results[c] # <<>>
         /\ results' = [results EXCEPT ![c] = Tail(results[c])]
         /\ \/ /\ Head(results[c])
               /\ verify' = [verify EXCEPT ![c].pc = "clock", ![c].reachable = TRUE]
               /\ failed' = failed
            \/ /\ ~Head(results[c])
               /\ failed' = [failed EXCEPT ![c] = failed[c] + 1]
               /\ \/ /\ failed[c] + 1 = Cardinality(Targets)
                     /\ verify' = [verify EXCEPT ![c].pc = "clock", ![c].reachable = FALSE]
                  \/ failed[c] + 1 # Cardinality(Targets) /\ verify' = verify
<1>1. results[c] \in Seq(BOOLEAN)
  BY DEF Shapes
<1>2. CASE Head(results[c])
  BY <1>1, <1>2, Zenon DEF ReceiveResult
<1>3. CASE ~Head(results[c])
  BY <1>1, <1>3, Zenon DEF ReceiveResult
<1> QED BY <1>2, <1>3

LEMMA Dialled ==
  ASSUME Shapes, NEW c \in Callers, NEW t \in Targets, Dial(c, t)
  PROVE  \E x \in {"answered", "refused"} :
           /\ dial[c][t] = "dialing"
           /\ dial' = [dial EXCEPT ![c][t] = x]
           /\ x = "refused" => t \notin answering \/ c \in ctxDone \/ verify[c].pc # "probe"
BY DEF Dial

LEMMA ShapesStep ==
  ASSUME Shapes, [Next]_vars
  PROVE  Shapes'
<1>1. CASE \E t \in Targets : TargetLost(t) \/ TargetBack(t)
  BY <1>1 DEF TargetLost, TargetBack, Shapes, gateVars, probeVars
<1>2. ASSUME NEW c \in Callers, BeginVerify(c) PROVE Shapes'
  <2>1. verify' \in [Callers -> Call]
    BY <1>2, CallShapes DEF BeginVerify, Shapes
  <2> QED BY <1>2, <2>1 DEF BeginVerify, Shapes, gateVars, worldVars
<1>3. ASSUME NEW c \in Callers, ReceiveResult(c) PROVE Shapes'
  <2>1. verify' \in [Callers -> Call]
    <3>1. \/ verify' = [verify EXCEPT ![c].pc = "clock", ![c].reachable = TRUE]
          \/ verify' = [verify EXCEPT ![c].pc = "clock", ![c].reachable = FALSE]
          \/ verify' = verify
      BY <1>3, Received
    <3>2. verify \in [Callers -> Call]
      BY DEF Shapes
    <3>3. CASE verify' = verify
      BY <3>2, <3>3
    <3>4. ASSUME NEW r \in BOOLEAN,
                 verify' = [verify EXCEPT ![c].pc = "clock", ![c].reachable = r]
          PROVE  verify' \in [Callers -> Call]
      BY <3>2, <3>4 DEF Call
    <3> QED BY <3>1, <3>3, <3>4, Zenon
  <2>2. failed' \in [Callers -> Nat]
    <3>1. failed' = failed \/ failed' = [failed EXCEPT ![c] = failed[c] + 1]
      BY <1>3, Received
    <3>2. failed \in [Callers -> Nat]
      BY DEF Shapes
    <3> QED BY <3>1, <3>2
  <2>3. results' \in [Callers -> Seq(BOOLEAN)]
    <3>1. Tail(results[c]) \in Seq(BOOLEAN)
      BY <1>3, Received, HeadTailProperties
    <3>2. results \in [Callers -> Seq(BOOLEAN)]
      BY DEF Shapes
    <3>3. results' = [results EXCEPT ![c] = Tail(results[c])]
      BY <1>3, Received
    <3> QED BY <3>1, <3>2, <3>3
  <2> QED BY <1>3, <2>1, <2>2, <2>3 DEF ReceiveResult, Shapes, gateVars, worldVars
<1>4. ASSUME NEW c \in Callers, ReadClock(c) PROVE Shapes'
  <2>1. verify' \in [Callers -> Call] /\ clock' \in 0..MaxClock
    <3>1. PICK t \in clock..MaxClock :
            clock' = t /\ verify' = [verify EXCEPT ![c].pc = "lock", ![c].now = t]
      BY <1>4 DEF ReadClock
    <3>2. t \in 0..MaxClock
      BY DEF Shapes
    <3> QED BY <3>1, <3>2, CallShapes DEF Shapes
  <2> QED BY <1>4, <2>1 DEF ReadClock, Shapes, gateVars, probeVars
<1>5. ASSUME NEW c \in Callers, UpdateGate(c) PROVE Shapes'
  <2>1. verify' \in [Callers -> Call]
    BY <1>5, CallShapes DEF UpdateGate, Shapes
  <2>2. verify[c].now \in 0..MaxClock
    BY DEF Shapes, Call
  <2>3. online' \in BOOLEAN /\ offlineSince' \in 0..MaxClock
    BY <1>5, <2>2 DEF UpdateGate, Shapes, gateVars
  <2>4. lastOutage' \in [endedAt : 0..MaxClock, duration : (0 - MaxClock)..MaxClock, ok : BOOLEAN]
    <3>1. verify[c].now - offlineSince \in (0 - MaxClock)..MaxClock
      <4>1. offlineSince \in 0..MaxClock
        BY DEF Shapes
      <4> QED BY <2>2, <4>1
    <3>3. lastOutage \in [endedAt : 0..MaxClock, duration : (0 - MaxClock)..MaxClock, ok : BOOLEAN]
      BY DEF Shapes
    <3>2. \/ lastOutage' = lastOutage
          \/ lastOutage' = [endedAt |-> verify[c].now, ok |-> TRUE,
                            duration |-> verify[c].now - offlineSince]
      BY <1>5 DEF UpdateGate, gateVars
    <3>4. CASE lastOutage' = lastOutage
      BY <3>3, <3>4
    <3>5. CASE lastOutage' = [endedAt |-> verify[c].now, ok |-> TRUE,
                              duration |-> verify[c].now - offlineSince]
      BY <2>2, <3>1, <3>5
    <3> QED BY <3>2, <3>4, <3>5
  <2> QED BY <1>5, <2>1, <2>3, <2>4 DEF UpdateGate, Shapes, probeVars, worldVars
<1>6. ASSUME NEW c \in Callers, NEW t \in Targets, Dial(c, t) PROVE Shapes'
  <2>1. dial' \in [Callers -> [Targets -> {"none", "dialing", "answered", "refused"}]]
    <3>1. PICK x \in {"answered", "refused"} : dial' = [dial EXCEPT ![c][t] = x]
      BY <1>6, Dialled
    <3>2. dial \in [Callers -> [Targets -> {"none", "dialing", "answered", "refused"}]]
      BY DEF Shapes
    <3> QED BY <3>1, <3>2
  <2> QED BY <1>6, <2>1 DEF Dial, Shapes, gateVars, worldVars
<1>7. ASSUME NEW c \in Callers, NEW t \in Targets, SendResult(c, t) PROVE Shapes'
  BY <1>7 DEF SendResult, Shapes, gateVars, worldVars
<1>8. CASE \E c \in Checks : CancelCaller(c)
  BY <1>8 DEF CancelCaller, Callers, Shapes, gateVars, probeVars, worldVars
<1>9. CASE UNCHANGED vars
  BY <1>9 DEF vars, Shapes, gateVars, probeVars, worldVars
<1> QED BY <1>1, <1>2, <1>3, <1>4, <1>5, <1>6, <1>7, <1>8, <1>9 DEF Next, Verify, Dialer

\* Nothing of caller d changes that counts.
LEMMA SameAccount ==
  ASSUME NEW d \in Callers, Accounted(d),
         dial'[d] = dial[d], results'[d] = results[d], failed'[d] = failed[d],
         verify'[d].pc = "probe" => verify[d].pc = "probe"
  PROVE  Accounted(d)'
<1>1. Outstanding(d)' = Outstanding(d)
  BY DEF Outstanding
<1>2. Sum(d)' = Sum(d)
  BY <1>1 DEF Sum
<1> QED BY <1>2 DEF Accounted

LEMMA SumParts ==
  ASSUME Shapes, NEW d \in Callers
  PROVE  failed[d] \in Nat /\ Len(results[d]) \in Nat /\ Cardinality(Outstanding(d)) \in Nat
<1>1. results[d] \in Seq(BOOLEAN) /\ failed[d] \in Nat
  BY DEF Shapes
<1> QED BY <1>1, LenProperties, OutstandingIsCounted

LEMMA AccountedStep ==
  ASSUME Shapes, \A c \in Callers : Accounted(c), [Next]_vars, NEW d \in Callers
  PROVE  Accounted(d)'
<1> USE TargetsAreCounted, OutstandingIsCounted
<1>1. CASE \/ \E t \in Targets : TargetLost(t) \/ TargetBack(t)
           \/ \E c \in Checks : CancelCaller(c)
           \/ \E c \in Callers : ReadClock(c) \/ UpdateGate(c)
           \/ UNCHANGED vars
  <2>1. UNCHANGED <<dial, results, failed>>
    BY <1>1 DEF TargetLost, TargetBack, CancelCaller, ReadClock, UpdateGate, vars, probeVars
  <2>2. verify'[d].pc = "probe" => verify[d].pc = "probe"
    <3>1. ASSUME NEW c \in Callers, ReadClock(c) \/ UpdateGate(c)
          PROVE  verify'[d] = verify[d] \/ verify'[d].pc \in {"lock", "idle"}
      <4>1. verify \in [Callers -> Call]
        BY DEF Shapes
      <4>2. CASE ReadClock(c)
        BY <4>1, <4>2 DEF ReadClock, Call
      <4>3. CASE UpdateGate(c)
        BY <4>1, <4>3 DEF UpdateGate, NotCalled
      <4> QED BY <3>1, <4>2, <4>3
    <3>2. CASE UNCHANGED verify
      BY <3>2
    <3> QED BY <1>1, <3>1, <3>2 DEF TargetLost, TargetBack, CancelCaller, vars
  <2> QED BY <2>1, <2>2, SameAccount
<1>2. ASSUME NEW c \in Callers, BeginVerify(c)
      PROVE  Accounted(d)'
  <2>1. CASE d = c
    <3>1. failed'[d] = 0 /\ results'[d] = <<>> /\ Outstanding(d)' = Targets
      BY <1>2, <2>1 DEF BeginVerify, Shapes, Outstanding
    <3>2. Sum(d)' = Cardinality(Targets)
      BY <3>1, EmptySeq DEF Sum
    <3> QED BY <3>2 DEF Accounted
  <2>2. CASE d # c
    BY <1>2, <2>2, SameAccount DEF BeginVerify, Shapes
  <2> QED BY <2>1, <2>2
<1>3. ASSUME NEW c \in Callers, NEW t \in Targets, Dial(c, t)
      PROVE  Accounted(d)'
  <2>1. \A u \in Targets : dial'[d][u] # "none" <=> dial[d][u] # "none"
    <3>1. PICK x \in {"answered", "refused"} :
            dial[c][t] = "dialing" /\ dial' = [dial EXCEPT ![c][t] = x]
      BY <1>3, Dialled
    <3>2. dial \in [Callers -> [Targets -> {"none", "dialing", "answered", "refused"}]]
      BY DEF Shapes
    <3> QED BY <3>1, <3>2
  <2>3. Outstanding(d)' = Outstanding(d)
    BY <2>1 DEF Outstanding
  <2>2. UNCHANGED <<verify, results, failed>>
    BY <1>3 DEF Dial
  <2> QED BY <2>2, <2>3 DEF Accounted, Sum
<1>4. ASSUME NEW c \in Callers, NEW t \in Targets, SendResult(c, t)
      PROVE  Accounted(d)'
  <2>1. CASE d = c
    <3>1. t \in Outstanding(d) /\ Outstanding(d)' = Outstanding(d) \ {t}
      BY <1>4, <2>1 DEF SendResult, Shapes, Outstanding
    <3>8. Cardinality(Outstanding(d) \ {t}) = Cardinality(Outstanding(d)) - 1
      <4>1. IsFiniteSet(Outstanding(d))
        BY OutstandingIsCounted
      <4> HIDE TargetsAreCounted, OutstandingIsCounted
      <4> QED BY <3>1, <4>1, FS_RemoveElement
    <3>2. Cardinality(Outstanding(d))' = Cardinality(Outstanding(d)) - 1
      BY <3>1, <3>8, Zenon
    <3>3. /\ results[d] \in Seq(BOOLEAN) /\ failed[d] \in Nat
          /\ results'[d] = Append(results[d], dial[d][t] = "answered")
          /\ UNCHANGED <<verify, failed>>
      BY <1>4, <2>1 DEF SendResult, Shapes
    <3>4. Len(results'[d]) = Len(results[d]) + 1 /\ Len(results[d]) \in Nat
      BY <3>3, AppendProperties, LenProperties
    <3>5. failed'[d] = failed[d] /\ verify'[d] = verify[d]
      BY <3>3
    <3>6. Sum(d)' = failed[d] + (Len(results[d]) + 1) + (Cardinality(Outstanding(d)) - 1)
      BY <3>2, <3>4, <3>5, Zenon DEF Sum
    <3>7. Sum(d)' = Sum(d)
      BY <3>6, SumParts DEF Sum
    <3> QED BY <3>5, <3>7 DEF Accounted
  <2>2. CASE d # c
    BY <1>4, <2>2, SameAccount DEF SendResult, Shapes
  <2> QED BY <2>1, <2>2
<1>5. ASSUME NEW c \in Callers, ReceiveResult(c)
      PROVE  Accounted(d)'
  <2>1. CASE d = c
    <3>1. /\ results[d] \in Seq(BOOLEAN) /\ results[d] # <<>>
          /\ results'[d] = Tail(results[d])
          /\ verify[d].pc = "probe"
      <4>1. /\ results[c] \in Seq(BOOLEAN) /\ results[c] # <<>>
            /\ results' = [results EXCEPT ![c] = Tail(results[c])]
            /\ verify[c].pc = "probe"
        BY <1>5, Received
      <4>2. results'[c] = Tail(results[c])
        BY <4>1 DEF Shapes
      <4> QED BY <2>1, <4>1, <4>2, Zenon
    <3>2. Len(results'[d]) = Len(results[d]) - 1 /\ Len(results[d]) \in Nat
      BY <3>1, HeadTailProperties, LenProperties
    <3>3. \/ failed'[d] = failed[d] /\ verify'[d].pc = "clock"
          \/ failed'[d] = failed[d] + 1
      <4>1. failed \in [Callers -> Nat] /\ verify \in [Callers -> Call]
        BY DEF Shapes
      <4>2. CASE /\ verify' = [verify EXCEPT ![c].pc = "clock", ![c].reachable = TRUE]
                 /\ failed' = failed
        BY <2>1, <4>1, <4>2 DEF Call
      <4>3. CASE failed' = [failed EXCEPT ![c] = failed[c] + 1]
        BY <2>1, <4>1, <4>3
      <4> QED BY <1>5, <4>2, <4>3, Received
    <3>4. Outstanding(d)' = Outstanding(d)
      BY <1>5 DEF ReceiveResult, Outstanding
    <3>5. Sum(d)' = failed'[d] + (Len(results[d]) - 1) + Cardinality(Outstanding(d))
      BY <3>2, <3>4, Zenon DEF Sum
    <3>6. Sum(d) = Cardinality(Targets)
      BY <3>1 DEF Accounted
    <3>7. \/ Sum(d)' = Cardinality(Targets)
          \/ Sum(d)' <= Cardinality(Targets) /\ verify'[d].pc = "clock"
      BY <3>3, <3>5, <3>6, SumParts DEF Sum
    <3> QED BY <3>7 DEF Accounted
  <2>2. CASE d # c
    BY <1>5, <2>2, SameAccount DEF ReceiveResult, Shapes
  <2> QED BY <2>1, <2>2
<1> QED BY <1>1, <1>2, <1>3, <1>4, <1>5 DEF Next, Verify, Dialer

LEMMA SumOfOne ==
  ASSUME NEW a \in Nat, NEW b \in Nat \ {0}, NEW k \in Nat, a + b + k = a + 1
  PROVE  b = 1 /\ k = 0
OBVIOUS

LEMMA OnlyElement ==
  ASSUME NEW S, NEW s \in Seq(S), Len(s) = 1
  PROVE  \A i \in 1..Len(s) : s[i] = Head(s)
OBVIOUS

LEMMA LaterInTail ==
  ASSUME NEW S, NEW s \in Seq(S), s # <<>>, NEW i \in 1..Len(s), s[i] # Head(s)
  PROVE  \E k \in 1..Len(Tail(s)) : Tail(s)[k] = s[i]
<1>1. Len(s) \in Nat /\ Len(Tail(s)) = Len(s) - 1 /\ Head(s) = s[1]
  BY LenProperties, HeadTailProperties
<1>2. i - 1 \in 1..Len(Tail(s))
  BY <1>1
<1>3. Tail(s)[i - 1] = s[i]
  BY <1>2, HeadTailProperties
<1> QED BY <1>2, <1>3

\* A probe that gives up has had the results of all targets, and none was a
\* success.
LEMMA GivesUpOnAll ==
  ASSUME Shapes, \A c \in Callers : Accounted(c), GoodIsHeard, ~cancelled,
         NEW c \in Callers, ReceiveResult(c), ~Head(results[c]), verify'[c].pc # "probe"
  PROVE  lost = Targets
<1>1. failed[c] + 1 = Cardinality(Targets) /\ verify[c].pc = "probe"
  BY Received
<1>2. results[c] \in Seq(BOOLEAN) /\ results[c] # <<>> /\ failed[c] \in Nat
  BY Received DEF Shapes
<1>3. Len(results[c]) = 1 /\ Cardinality(Outstanding(c)) = 0
  <2>1. Len(results[c]) \in Nat \ {0}
    BY <1>2, EmptySeq
  <2>2. Sum(c) = failed[c] + 1
    BY <1>1 DEF Accounted
  <2> QED BY <2>1, <2>2, SumParts, SumOfOne DEF Sum
<1>4. Outstanding(c) = {}
  BY <1>3, OutstandingIsCounted, FS_EmptySet
<1>5. \A t \in Targets : ~Heard(c, t)
  <2>3. \A i \in 1..Len(results[c]) : results[c][i] = Head(results[c])
    BY <1>2, <1>3, OnlyElement
  <2>4. \A t \in Targets : dial[c][t] = "none"
    BY <1>4 DEF Outstanding
  <2> QED BY <2>3, <2>4 DEF Heard
<1> QED BY <1>1, <1>5 DEF GoodIsHeard, Shapes
LEMMA HeardStep ==
  ASSUME Shapes, \A c \in Callers : Accounted(c), GoodIsHeard, [Next]_vars
  PROVE  GoodIsHeard'
<1> DEFINE Fair(c) ==
             /\ verify[c].pc = "probe" => \A t \in Targets \ lost : Heard(c, t)
             /\ verify[c].pc \in {"clock", "lock"} /\ ~verify[c].reachable => lost = Targets
\* Losses only make the claim weaker.
<1>1. ASSUME UNCHANGED <<verify, dial, results, ctxDone, cancelled>>,
             lost \subseteq lost', lost' \subseteq Targets, Targets \ lost' \subseteq answering'
      PROVE  GoodIsHeard'
  <2>1. \A c \in Callers, t \in Targets : Heard(c, t)' <=> Heard(c, t)
    BY <1>1 DEF Heard
  <2> QED BY <1>1, <2>1 DEF GoodIsHeard
<1>2. CASE \E t \in Targets : TargetLost(t) \/ TargetBack(t)
  BY <1>1, <1>2 DEF TargetLost, TargetBack, Shapes, GoodIsHeard, probeVars
<1>3. CASE \E c \in Checks : CancelCaller(c)
  BY <1>3 DEF CancelCaller, GoodIsHeard, worldVars
<1>4. CASE UNCHANGED vars
  BY <1>1, <1>4 DEF vars, probeVars, worldVars, Shapes, GoodIsHeard
\* The other steps are those of one caller.
<1>5. ASSUME NEW c \in Callers, ctxDone' \subseteq ctxDone,
             UNCHANGED <<answering, lost, cancelled>>,
             \A d \in Callers \ {c} :
               verify'[d] = verify[d] /\ dial'[d] = dial[d] /\ results'[d] = results[d],
             ~cancelled /\ ctxDone = {} => Fair(c)'
      PROVE  GoodIsHeard'
  <2>1. ASSUME NEW d \in Callers \ {c}, Fair(d) PROVE Fair(d)'
    <3>1. \A t \in Targets : Heard(d, t)' <=> Heard(d, t)
      BY <1>5 DEF Heard
    <3> QED BY <1>5, <2>1, <3>1
  <2>2. ~cancelled => ctxDone = {} /\ \A d \in Callers : Fair(d)
    BY DEF GoodIsHeard
  <2>3. ~cancelled' => ctxDone' = {} /\ \A d \in Callers : Fair(d)'
    BY <1>5, <2>1, <2>2
  <2>4. Targets \ lost' \subseteq answering'
    BY <1>5 DEF GoodIsHeard
  <2> HIDE DEF Fair
  <2> QED BY <2>3, <2>4 DEF GoodIsHeard, Fair
<1>6. ASSUME NEW c \in Callers, BeginVerify(c)
      PROVE  GoodIsHeard'
  <2>1. Fair(c)'
    <3>1. verify'[c].pc = "probe" /\ \A t \in Targets : dial'[c][t] = "dialing"
      <4>1. verify \in [Callers -> Call] /\ DOMAIN dial = Callers
        BY DEF Shapes
      <4> QED BY <1>6, <4>1 DEF BeginVerify, Call
    <3> QED BY <3>1 DEF Heard
  <2> QED BY <1>5, <1>6, <2>1 DEF BeginVerify, Shapes, worldVars
<1>7. ASSUME NEW c \in Callers, ReadClock(c) \/ UpdateGate(c)
      PROVE  GoodIsHeard'
  <2>1. verify \in [Callers -> Call]
    BY DEF Shapes
  <2>2. \/ verify[c].pc = "clock" /\ verify'[c].pc = "lock" /\ verify'[c].reachable = verify[c].reachable
        \/ verify'[c].pc = "idle"
    BY <1>7, <2>1 DEF ReadClock, UpdateGate, NotCalled, Call
  <2>3. UNCHANGED <<dial, results, ctxDone, answering, lost, cancelled>>
    BY <1>7 DEF ReadClock, UpdateGate, probeVars, worldVars
  <2>4. \A d \in Callers \ {c} : verify'[d] = verify[d]
    BY <1>7, <2>1 DEF ReadClock, UpdateGate
  <2>5. ~cancelled => Fair(c)'
    BY <2>2, <2>3 DEF GoodIsHeard
  <2> HIDE DEF Fair
  <2> QED BY <1>5, <2>3, <2>4, <2>5
<1>8. ASSUME NEW c \in Callers, NEW u \in Targets, Dial(c, u)
      PROVE  GoodIsHeard'
  <2>1. PICK x \in {"answered", "refused"} :
          /\ dial[c][u] = "dialing"
          /\ dial' = [dial EXCEPT ![c][u] = x]
          /\ x = "refused" => u \notin answering \/ c \in ctxDone \/ verify[c].pc # "probe"
    BY <1>8, Dialled
  <2>2. dial \in [Callers -> [Targets -> {"none", "dialing", "answered", "refused"}]]
    BY DEF Shapes
  <2>3. UNCHANGED <<verify, results, ctxDone, answering, lost, cancelled>>
    BY <1>8 DEF Dial, worldVars
  <2>4. \A d \in Callers \ {c} : dial'[d] = dial[d]
    BY <2>1, <2>2
  <2>5. ASSUME ~cancelled, ctxDone = {} PROVE Fair(c)'
    <3>1. ASSUME NEW t \in Targets \ lost, verify[c].pc = "probe" PROVE Heard(c, t)'
      <4>1. Heard(c, t)
        BY <2>5, <3>1 DEF GoodIsHeard
      <4>2. CASE t = u
        BY <2>1, <2>2, <2>5, <3>1, <4>2 DEF GoodIsHeard, Heard
      <4>3. CASE t # u
        BY <2>1, <2>2, <2>3, <4>1, <4>3 DEF Heard
      <4> QED BY <4>2, <4>3
    <3> QED BY <2>3, <2>5, <3>1 DEF GoodIsHeard
  <2> HIDE DEF Fair
  <2> QED BY <1>5, <2>3, <2>4, <2>5
<1>9. ASSUME NEW c \in Callers, NEW u \in Targets, SendResult(c, u)
      PROVE  GoodIsHeard'
  <2>1. /\ dial \in [Callers -> [Targets -> {"none", "dialing", "answered", "refused"}]]
        /\ results \in [Callers -> Seq(BOOLEAN)]
    BY DEF Shapes
  <2>2. UNCHANGED <<verify, ctxDone, answering, lost, cancelled>>
    BY <1>9 DEF SendResult, worldVars
  <2>3. /\ dial' = [dial EXCEPT ![c][u] = "none"]
        /\ results' = [results EXCEPT ![c] = Append(results[c], dial[c][u] = "answered")]
    BY <1>9 DEF SendResult
  <2>4. \A d \in Callers \ {c} : dial'[d] = dial[d] /\ results'[d] = results[d]
    BY <2>1, <2>3
  <2>5. ASSUME ~cancelled, ctxDone = {} PROVE Fair(c)'
    <3>1. ASSUME NEW t \in Targets \ lost, Heard(c, t) PROVE Heard(c, t)'
      <4>1. results'[c] = Append(results[c], dial[c][u] = "answered")
        BY <2>1, <2>3
      <4>2. /\ Len(results'[c]) = Len(results[c]) + 1 /\ Len(results[c]) \in Nat
            /\ \A i \in 1..Len(results[c]) : results'[c][i] = results[c][i]
            /\ results'[c][Len(results[c]) + 1] = (dial[c][u] = "answered")
        BY <2>1, <4>1, AppendProperties, LenProperties
      <4>3. CASE \E i \in 1..Len(results[c]) : results[c][i] = TRUE
        BY <4>2, <4>3 DEF Heard
      <4>4. CASE t = u /\ dial[c][t] \in {"dialing", "answered"}
        <5>1. dial[c][u] = "answered"
          BY <1>9, <4>4 DEF SendResult
        <5>2. results'[c][Len(results[c]) + 1] = TRUE
          BY <4>2, <5>1, Zenon
        <5>3. Len(results[c]) + 1 \in 1..Len(results'[c])
          BY <4>2
        <5> QED BY <5>2, <5>3 DEF Heard
      <4>5. CASE t # u /\ dial[c][t] \in {"dialing", "answered"}
        BY <2>1, <2>3, <4>5 DEF Heard
      <4> QED BY <3>1, <4>3, <4>4, <4>5 DEF Heard
    <3> QED BY <2>2, <2>5, <3>1 DEF GoodIsHeard
  <2> HIDE DEF Fair
  <2> QED BY <1>5, <2>2, <2>4, <2>5
<1>10. ASSUME NEW c \in Callers, ReceiveResult(c)
       PROVE  GoodIsHeard'
  <2>1. UNCHANGED <<dial, ctxDone, answering, lost, cancelled>>
    BY <1>10 DEF ReceiveResult, worldVars
  <2>2. /\ results \in [Callers -> Seq(BOOLEAN)]
        /\ verify \in [Callers -> Call]
    BY DEF Shapes
  <2>3. \A d \in Callers \ {c} : verify'[d] = verify[d] /\ results'[d] = results[d]
    <3>1. \/ verify' = [verify EXCEPT ![c].pc = "clock", ![c].reachable = TRUE]
          \/ verify' = [verify EXCEPT ![c].pc = "clock", ![c].reachable = FALSE]
          \/ verify' = verify
      BY <1>10, Received
    <3>2. \A d \in Callers \ {c} : verify'[d] = verify[d]
      BY <2>2, <3>1
    <3>3. results' = [results EXCEPT ![c] = Tail(results[c])]
      BY <1>10, Received
    <3>4. \A d \in Callers \ {c} : results'[d] = results[d]
      BY <2>2, <3>3
    <3> QED BY <3>2, <3>4
  <2>4. ASSUME ~cancelled, ctxDone = {} PROVE Fair(c)'
    <3>1. CASE Head(results[c])
      <4>1. verify'[c].pc = "clock" /\ verify'[c].reachable
        <5>1. verify' = [verify EXCEPT ![c].pc = "clock", ![c].reachable = TRUE]
          BY <1>10, <3>1, Received, Zenon
        <5> QED BY <2>2, <5>1 DEF Call
      <4> QED BY <4>1
    <3>2. CASE ~Head(results[c]) /\ verify'[c].pc # "probe"
      BY <1>10, <2>1, <2>4, <3>2, GivesUpOnAll
    <3>3. CASE ~Head(results[c]) /\ verify'[c].pc = "probe"
      <4>1. ASSUME NEW t \in Targets \ lost PROVE Heard(c, t)'
        <5>1. Heard(c, t)
          BY <1>10, <2>4, Received DEF GoodIsHeard
        <5>2. /\ results[c] \in Seq(BOOLEAN) /\ results[c] # <<>>
              /\ results'[c] = Tail(results[c])
          BY <1>10, <2>2, Received
        <5>3. ASSUME NEW i \in 1..Len(results[c]), results[c][i] = TRUE
              PROVE  \E k \in 1..Len(results'[c]) : results'[c][k] = TRUE
          <6>1. results[c][i] # Head(results[c])
            BY <3>3, <5>3, Zenon
          <6>2. \E k \in 1..Len(Tail(results[c])) : Tail(results[c])[k] = results[c][i]
            BY <5>2, <6>1, LaterInTail
          <6> QED BY <5>2, <5>3, <6>2, Zenon
        <5> QED BY <2>1, <5>1, <5>3 DEF Heard
      <4> QED BY <2>1, <3>3, <4>1
    <3> QED BY <3>1, <3>2, <3>3
  <2> HIDE DEF Fair
  <2> QED BY <1>5, <2>1, <2>3, <2>4
<1> QED BY <1>2, <1>3, <1>4, <1>6, <1>7, <1>8, <1>9, <1>10 DEF Next, Verify, Dialer

\* Who closes the gate has found all targets lost.
LEMMA OnlineStep ==
  ASSUME Shapes, GoodIsHeard, OneGoodTargetKeepsOnline, [Next]_vars
  PROVE  OneGoodTargetKeepsOnline'
<1>1. ASSUME NEW c \in Callers, UpdateGate(c)
      PROVE  OneGoodTargetKeepsOnline'
  <2>1. UNCHANGED <<lost, cancelled>>
    BY <1>1 DEF UpdateGate, worldVars
  <2>2. verify[c].pc = "lock" /\ (online' = online \/ online' = TRUE \/ ~verify[c].reachable)
    BY <1>1 DEF UpdateGate, gateVars
  <2> QED BY <2>1, <2>2 DEF OneGoodTargetKeepsOnline, GoodIsHeard
<1>2. ASSUME UNCHANGED online, cancelled => cancelled', lost \subseteq lost', lost' \subseteq Targets
      PROVE  OneGoodTargetKeepsOnline'
  BY <1>2 DEF OneGoodTargetKeepsOnline
<1>3. CASE \E t \in Targets : TargetLost(t) \/ TargetBack(t)
  BY <1>2, <1>3 DEF TargetLost, TargetBack, Shapes, gateVars
<1>4. CASE \E c \in Checks : CancelCaller(c)
  BY <1>2, <1>4 DEF CancelCaller, Shapes, gateVars, worldVars
<1>5. ASSUME NEW c \in Callers,
             BeginVerify(c) \/ ReceiveResult(c) \/ ReadClock(c) \/ \E t \in Targets : Dialer(c, t)
      PROVE  OneGoodTargetKeepsOnline'
  <2>1. UNCHANGED <<online, lost, cancelled>>
    BY <1>5, Zenon DEF BeginVerify, ReceiveResult, ReadClock, Dialer, Dial, SendResult,
                       gateVars, worldVars
  <2> QED BY <1>2, <2>1 DEF Shapes
<1>6. CASE UNCHANGED vars
  BY <1>2, <1>6 DEF vars, gateVars, worldVars, Shapes
<1> QED BY <1>1, <1>3, <1>4, <1>5, <1>6 DEF Next, Verify

LEMMA InitIInv == Init => IInv
<1> SUFFICES ASSUME Init PROVE IInv
  OBVIOUS
<1>1. Shapes
  <2>1. 0 \in 0..MaxClock /\ 0 \in (0 - MaxClock)..MaxClock /\ 0 \in 0..MaxLosses
    OBVIOUS
  <2>2. lastOutage \in [endedAt : 0..MaxClock, duration : (0 - MaxClock)..MaxClock, ok : BOOLEAN]
    BY <2>1 DEF Init, NoOutage
  <2>3. verify \in [Callers -> Call]
    BY <2>1 DEF Init, NotCalled, Call
  <2>4. results \in [Callers -> Seq(BOOLEAN)]
    BY EmptySeq DEF Init
  <2> QED BY <2>1, <2>2, <2>3, <2>4 DEF Init, NoDials, Shapes
<1>2. ASSUME NEW c \in Callers PROVE Accounted(c)
  <2>1. failed[c] = 0 /\ results[c] = <<>> /\ Outstanding(c) = {} /\ verify[c].pc = "idle"
    BY DEF Init, NoDials, NotCalled, Outstanding
  <2>2. Sum(c) = 0
    BY <2>1, EmptySeq, FS_EmptySet DEF Sum
  <2> QED BY <2>1, <2>2, TargetsAreCounted DEF Accounted
<1>3. GoodIsHeard /\ OneGoodTargetKeepsOnline
  BY DEF Init, NotCalled, GoodIsHeard, OneGoodTargetKeepsOnline
<1> QED BY <1>1, <1>2, <1>3 DEF IInv

LEMMA NextIInv == IInv /\ [Next]_vars => IInv'
BY ShapesStep, AccountedStep, HeardStep, OnlineStep DEF IInv

-----------------------------------------------------------------------------
\* Gate's inductive invariant: each target's result is counted once, and that of
\* a good one is not overlooked.
THEOREM Invariance == Spec => []IInv
<1> QED BY InitIInv, NextIInv, PTL DEF Spec

\* Counts and channels of probe stay within the number of targets.
THEOREM GateTypes == Spec => []TypeOK
<1> QED BY Invariance, CountBounds, PTL

\* However many callers probe however many targets at once, one target that
\* always answers keeps the gate online while no caller is cancelled.
THEOREM OneTargetIsEnough == Spec => []OneGoodTargetKeepsOnline
<1>1. IInv => OneGoodTargetKeepsOnline
  BY DEF IInv
<1> QED BY <1>1, Invariance, PTL

\* What StragglersEnd comes to: a dial goroutine that has its result to send
\* finds room in the channel, whether or not probe still receives.
THEOREM RoomForStragglers ==
  Spec => [](\A c \in Callers, t \in Targets :
               dial[c][t] \in {"answered", "refused"} => Len(results[c]) < Capacity)
<1>1. IInv => \A c \in Callers, t \in Targets :
                dial[c][t] \in {"answered", "refused"} => Len(results[c]) < Capacity
  <2> SUFFICES ASSUME IInv, NEW c \in Callers, NEW t \in Targets,
                      dial[c][t] \in {"answered", "refused"}
               PROVE  Len(results[c]) < Capacity
    OBVIOUS
  <2>1. t \in Outstanding(c)
    BY DEF Outstanding
  <2>2. Cardinality(Outstanding(c)) # 0
    BY <2>1, OutstandingIsCounted, FS_EmptySet
  <2>3. Sum(c) <= Cardinality(Targets) /\ Shapes
    BY DEF IInv, Accounted
  <2>4. failed[c] \in Nat /\ Len(results[c]) \in Nat /\ Cardinality(Outstanding(c)) \in Nat
    BY <2>3, SumParts
  <2>5. failed[c] + Len(results[c]) + Cardinality(Outstanding(c)) <= Cardinality(Targets)
    BY <2>3 DEF Sum
  <2> QED BY <2>2, <2>4, <2>5, TargetsAreCounted DEF Capacity
<1> QED BY <1>1, Invariance, PTL
=============================================================================
