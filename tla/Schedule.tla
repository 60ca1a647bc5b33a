------------------------------ MODULE Schedule ------------------------------
(***************************************************************************)
(* When a check runs: effectiveIntervalSeconds, checkPhaseSeconds and      *)
(* nextSlotAfter (schedule.go) and the timing of scheduleLoop (runner.go), *)
(* for all the monitors one check is assigned to.                          *)
(*                                                                         *)
(* Time is counted in ticks, TicksPerSecond of them to a second of the     *)
(* Unix clock, because nextSlotAfter looks at whole seconds only.          *)
(***************************************************************************)
EXTENDS Integers, FiniteSets, FiniteSetsExt

CONSTANTS
  Assignments,      \* <<interval_sec, monitor_count>>; an import lets a negative
                    \* interval pass
  TicksPerSecond,
  MaxTime,          \* bound: clock, in ticks
  MaxRestarts       \* bound: restarts by reconcile

ASSUME AssignmentsAssumption ==
  IsFiniteSet(Assignments) /\ Assignments \subseteq (Int \ {0}) \X Nat
ASSUME TicksAssumption == TicksPerSecond \in Nat \ {0}
ASSUME ScheduleBounds == MaxTime \in Nat /\ MaxRestarts \in Nat

VARIABLES
  interval,     \* check.IntervalSec
  count,        \* check.MonitorCount, 0 from an older server
  hash,         \* fnv32a of the check's guid
  now,          \* the clock, in ticks
  pc,           \* monitors: where scheduleLoop is
  next,         \* monitors: the slot waited for, in ticks
  \* history, never read by the code
  fired,        \* monitors: second of the latest slot that fired, -1 before
  refired,      \* whether a slot fired that was not after the one before
  restarts

checkVars == <<interval, count, hash>>
vars == <<checkVars, now, pc, next, fired, refired, restarts>>

-----------------------------------------------------------------------------
\* A monitor is its MonitorRank.
MaxCount == Max({1} \cup {a[2] : a \in Assignments})
Monitors == 0..(MaxCount - 1)
Assigned == 0..(Max({1, count}) - 1)

\* Go's %, with the sign of the dividend.
Rem(a, n) == IF a >= 0 THEN a % n ELSE -((-a) % n)

Mod64(a, n) == IF Rem(a, n) < 0 THEN Rem(a, n) + n ELSE Rem(a, n)

Second(t) == t \div TicksPerSecond

EffectiveInterval == interval * Max({1, count})

\* Only the hash sets a check's place in the grid.
PhaseWithoutRank(rank) ==
  IF EffectiveInterval <= 0 THEN 0 ELSE Mod64(hash % EffectiveInterval, EffectiveInterval)

Phase(rank) ==
  IF EffectiveInterval <= 0 THEN 0
  ELSE Mod64(rank * interval + (hash % EffectiveInterval), EffectiveInterval)

\* The rest of the interval added with the wrong sign.
NextSlotAfterSignSlip(t, phase) ==
  LET sec == Second(t)
      rem == Mod64(sec - phase, EffectiveInterval)
  IN  IF EffectiveInterval <= 0 \/ rem = 0 THEN t ELSE (sec + EffectiveInterval + rem) * TicksPerSecond

\* now itself when its second is a slot, else the first tick of the next slot.
\* Without a positive interval there is no grid.
NextSlotAfter(t, phase) ==
  LET sec == Second(t)
      rem == Mod64(sec - phase, EffectiveInterval)
  IN  IF EffectiveInterval <= 0 \/ rem = 0 THEN t ELSE (sec + EffectiveInterval - rem) * TicksPerSecond

Step == Max({1, EffectiveInterval}) * TicksPerSecond

MaxSlot == MaxTime + TicksPerSecond * MaxCount * Max({1} \cup {a[1] : a \in Assignments})

TypeOK ==
  /\ <<interval, count>> \in Assignments
  /\ hash \in Nat
  /\ now \in 0..MaxTime
  /\ pc \in [Monitors -> {"start", "wait", "execute"}]
  /\ next \in [Monitors -> 0..MaxSlot]
  /\ fired \in [Monitors -> {-1} \cup 0..MaxTime]
  /\ refired \in BOOLEAN
  /\ restarts \in 0..MaxRestarts

-----------------------------------------------------------------------------
Tick ==
  /\ now < MaxTime
  /\ now' = now + 1
  /\ UNCHANGED <<checkVars, pc, next, fired, refired, restarts>>

\* The loop joins the grid, after the immediate execution of a new check.
JoinGrid(m) ==
  /\ m \in Assigned
  /\ pc[m] = "start"
  /\ pc' = [pc EXCEPT ![m] = "wait"]
  /\ next' = [next EXCEPT ![m] = NextSlotAfter(now, Phase(m))]
  /\ UNCHANGED <<checkVars, now, fired, refired, restarts>>

\* <-timer.C, at the slot or later.
Fire(m) ==
  LET slot == Second(next[m])
  IN  /\ pc[m] = "wait"
      /\ now >= next[m]
      /\ pc' = [pc EXCEPT ![m] = "execute"]
      /\ fired' = [fired EXCEPT ![m] = slot]
      /\ refired' = (refired \/ slot <= fired[m])
      /\ UNCHANGED <<checkVars, now, next, restarts>>

\* Searching the next slot from the clock again.
AdvanceBySearch(m) ==
  /\ pc[m] = "execute"
  /\ pc' = [pc EXCEPT ![m] = "wait"]
  /\ next' = [next EXCEPT ![m] = NextSlotAfter(now, Phase(m))]
  /\ UNCHANGED <<checkVars, now, fired, refired, restarts>>

\* One step only: every slot that an execution overran is still waited for.
AdvanceByOneStep(m) ==
  /\ pc[m] = "execute"
  /\ pc' = [pc EXCEPT ![m] = "wait"]
  /\ next' = [next EXCEPT ![m] = @ + Step]
  /\ UNCHANGED <<checkVars, now, fired, refired, restarts>>

\* execute returns; next advances by whole steps to the first slot after now.
Advance(m) ==
  LET missed == Max({0, now - next[m]}) \div Step
  IN  /\ pc[m] = "execute"
      /\ pc' = [pc EXCEPT ![m] = "wait"]
      /\ next' = [next EXCEPT ![m] = @ + (1 + missed) * Step]
      /\ UNCHANGED <<checkVars, now, fired, refired, restarts>>

\* reconcile restarts the check with a definition whose schedule is the same.
Restart(m) ==
  /\ pc[m] # "start"
  /\ restarts < MaxRestarts
  /\ restarts' = restarts + 1
  /\ pc' = [pc EXCEPT ![m] = "start"]
  /\ UNCHANGED <<checkVars, now, next, fired, refired>>

Init ==
  /\ \E a \in Assignments : interval = a[1] /\ count = a[2]
  /\ hash \in 0..Max({0, EffectiveInterval - 1})
  /\ now = 0
  /\ pc = [m \in Monitors |-> "start"]
  /\ next = [m \in Monitors |-> 0]
  /\ fired = [m \in Monitors |-> -1]
  /\ refired = FALSE
  /\ restarts = 0

Next ==
  \/ Tick
  \/ \E m \in Monitors : JoinGrid(m) \/ Fire(m) \/ Advance(m) \/ Restart(m)

Spec == Init /\ [][Next]_vars

-----------------------------------------------------------------------------
\* The slots a check's monitors wait for are interval_sec apart and never
\* coincide, whenever each of them was started and however long it executes:
\* together they run the check once per interval_sec.
Waiting == {m \in Monitors : pc[m] = "wait"}
RotationIsKept ==
  interval > 0 => \A m, k \in Waiting :
    (Second(next[m]) - Second(next[k]) - (m - k) * interval) % EffectiveInterval = 0

\* nextSlotAfter skips no slot: between the time it is given and its answer
\* lies no second of the grid that has not begun yet.
IsSlot(t, phase) ==
  t % TicksPerSecond = 0 /\ Second(t) % EffectiveInterval = phase
NextSlotIsEarliest ==
  \A phase \in 0..(EffectiveInterval - 1) :
    LET slot == NextSlotAfter(now, phase)
    IN  /\ slot >= now
        /\ Second(slot) % EffectiveInterval = phase
        /\ \A t \in now..(slot - 1) : ~IsSlot(t, phase)

\* No slot fires twice, however fast an execution is, unless the check is
\* restarted within its slot; without a grid, no second does.
OncePerSlot == refired => restarts > 0

\* "skip forward to the next still-future slot instead of bursting to catch up":
\* after an execution of any length the loop waits for a slot that is still to
\* come, and at most one step away.
SkipsOverrunSlots ==
  [][\A m \in Monitors :
       pc[m] = "execute" /\ pc'[m] = "wait" => next'[m] \in (now + 1)..(now + Step)]_vars
=============================================================================
