--------------------------- MODULE ScheduleProofs ---------------------------
(***************************************************************************)
(* Theorems about Schedule, for every assignment, resolution of the clock, *)
(* number of monitors and of restarts.                                     *)
(***************************************************************************)
EXTENDS Schedule, LargestId, FiniteSetTheorems

\* An execution begins at its slot or later.
SlotsHaveCome == \A m \in Monitors : pc[m] = "execute" => next[m] <= now

\* Every slot, waited for or being executed, is its monitor's share of the
\* check's grid.
OnGrid ==
  interval > 0 =>
    \A m \in Monitors :
      pc[m] # "start" => (Second(next[m]) - (m * interval + hash)) % EffectiveInterval = 0

\* Until a restart, the slot that comes is later than the one that fired.
FiredBeforeNext ==
  restarts = 0 =>
    \A m \in Monitors :
      /\ pc[m] = "start" => fired[m] = -1
      /\ pc[m] = "wait" => fired[m] < Second(next[m])
      /\ pc[m] = "execute" => fired[m] = Second(next[m])

JoinedAreAssigned == \A m \in Monitors : pc[m] # "start" => m \in Assigned

IInv ==
  /\ TypeOK
  /\ SlotsHaveCome
  /\ OnGrid
  /\ FiredBeforeNext
  /\ JoinedAreAssigned
  /\ OncePerSlot

-----------------------------------------------------------------------------
(* Division.  These lemmas come before the assumptions on the constants are *)
(* in use: they are about numbers.                                         *)

LEMMA Division ==
  ASSUME NEW a \in Int, NEW n \in Nat \ {0}
  PROVE  /\ a \div n \in Int /\ a % n \in 0..(n - 1)
         /\ a = n * (a \div n) + (a % n)
OBVIOUS

LEMMA Quotient ==
  ASSUME NEW n \in Nat \ {0}, NEW q \in Int, NEW r \in 0..(n - 1)
  PROVE  (n * q + r) \div n = q /\ (n * q + r) % n = r
OBVIOUS

LEMMA ShiftByWhole ==
  ASSUME NEW a \in Int, NEW n \in Nat \ {0}, NEW k \in Int
  PROVE  (a + k * n) \div n = (a \div n) + k /\ (a + k * n) % n = a % n
<1> DEFINE q == a \div n
           r == a % n
<1>1. q \in Int /\ r \in 0..(n - 1) /\ a = n * q + r
  BY Division
<1> HIDE DEF q, r
<1>2. a + k * n = n * (q + k) + r
  BY <1>1
<1>3. q + k \in Int
  BY <1>1
<1>4. (n * (q + k) + r) \div n = q + k /\ (n * (q + k) + r) % n = r
  BY <1>1, <1>3, Quotient
<1> QED BY <1>2, <1>4 DEF q, r

LEMMA Multiple ==
  ASSUME NEW a \in Int, NEW n \in Nat \ {0}
  PROVE  a % n = 0 <=> \E k \in Int : a = k * n
<1>1. ASSUME a % n = 0 PROVE \E k \in Int : a = k * n
  <2>1. a \div n \in Int /\ a = (a \div n) * n
     BY <1>1, Division
  <2> QED BY <2>1
<1>2. ASSUME NEW k \in Int, a = k * n PROVE a % n = 0
  <2>1. a = n * k + 0 /\ 0 \in 0..(n - 1)
    BY <1>2
  <2> QED BY <2>1, Quotient
<1> QED BY <1>1, <1>2

LEMMA SameRemainder ==
  ASSUME NEW a \in Int, NEW b \in Int, NEW n \in Nat \ {0}
  PROVE  a % n = b % n <=> (a - b) % n = 0
<1>1. a - b \in Int
  OBVIOUS
<1>2. ASSUME a % n = b % n PROVE (a - b) % n = 0
  <2> DEFINE p == a \div n
             q == b \div n
             r == b % n
  <2>1. p \in Int /\ q \in Int /\ r \in Int /\ a = n * p + r /\ b = n * q + r
    BY <1>2, Division
  <2> HIDE DEF p, q, r
  <2>2. p - q \in Int /\ a - b = (p - q) * n
    BY <2>1
  <2> QED BY <1>1, <2>2, Multiple
<1>3. ASSUME (a - b) % n = 0 PROVE a % n = b % n
  <2> DEFINE d == a - b
  <2>1. d \in Int /\ d % n = 0 /\ a = b + d
    BY <1>3
  <2> HIDE DEF d
  <2>2. PICK k \in Int : d = k * n
    BY <2>1, Multiple
  <2>3. (b + k * n) % n = b % n
    BY <2>2, ShiftByWhole
  <2> QED BY <2>1, <2>2, <2>3, Zenon
<1> QED BY <1>2, <1>3

LEMMA SmallRemainder ==
  ASSUME NEW n \in Nat \ {0}, NEW r \in 0..(n - 1)
  PROVE  r % n = r
<1>1. r = n * 0 + r
  OBVIOUS
<1> QED BY <1>1, Quotient

LEMMA DivisionBounds ==
  ASSUME NEW a \in Int, NEW n \in Nat \ {0}
  PROVE  n * (a \div n) <= a /\ a < n * (a \div n) + n
BY Division

\* The quotient by n grows with the dividend.
LEMMA DivisionIsMonotone ==
  ASSUME NEW a \in Int, NEW b \in Int, NEW n \in Nat \ {0}, a <= b
  PROVE  a \div n <= b \div n
<1> DEFINE p == a \div n
           q == b \div n
<1>1. /\ p \in Int /\ q \in Int
      /\ n * p <= a /\ b < n * q + n
  BY Division
<1> HIDE DEF p, q
<1>2. ASSUME p > q PROVE FALSE
  <2>1. p - q \in Nat \ {0} /\ n * (p - q) >= n
    BY <1>1, <1>2
  <2>2. n * (p - q) = n * p - n * q
    BY <1>1
  <2>3. n * p \in Int /\ n * q \in Int
    BY <1>1
  <2> QED BY <1>1, <2>1, <2>2, <2>3
<1> QED BY <1>1, <1>2 DEF p, q

\* The conversions of Go's % are those of the mathematical one.
LEMMA Mod64Is ==
  ASSUME NEW a \in Int, NEW n \in Nat \ {0}
  PROVE  Mod64(a, n) = a % n
<1>1. CASE a >= 0
  <2>1. a % n \in Nat
    BY Division
  <2> QED BY <1>1, <2>1 DEF Mod64, Rem
<1>2. CASE a < 0
  <2> DEFINE q == (-a) \div n
             r == (-a) % n
  <2>1. -a \in Int
    OBVIOUS
  <2>2. q \in Int /\ r \in 0..(n - 1) /\ -a = n * q + r
    BY <2>1, Division
  <2>3. Rem(a, n) = -r
    BY <1>2 DEF Rem
  <2> HIDE DEF q, r
  <2>4. CASE r = 0
    <3>1. a = n * (-q) + 0 /\ -q \in Int /\ 0 \in 0..(n - 1)
      BY <2>2, <2>4
    <3>2. a % n = 0
      BY <3>1, Quotient
    <3> QED BY <2>3, <2>4, <3>2 DEF Mod64
  <2>5. CASE r # 0
    <3>1. a = n * (-q - 1) + (n - r) /\ -q - 1 \in Int /\ n - r \in 0..(n - 1)
      BY <2>2, <2>5
    <3>2. a % n = n - r
      BY <3>1, Quotient
    <3>3. -r < 0 /\ -r + n = n - r
      BY <2>2, <2>5
    <3> QED BY <2>3, <3>2, <3>3 DEF Mod64
  <2> QED BY <2>2, <2>4, <2>5
<1> QED BY <1>1, <1>2

\* Which seconds belong to a phase of the grid.
LEMMA OnPhase ==
  ASSUME NEW s \in Int, NEW n \in Nat \ {0}, NEW phase \in 0..(n - 1)
  PROVE  s % n = phase <=> (s - phase) % n = 0
<1>1. phase % n = phase /\ phase \in Int
  BY SmallRemainder
<1>2. s % n = phase % n <=> (s - phase) % n = 0
  BY <1>1, SameRemainder
<1> QED BY <1>1, <1>2

LEMMA OrderOfMultiples ==
  ASSUME NEW a \in Int, NEW b \in Int, NEW n \in Nat \ {0}
  PROVE  /\ a < b <=> a * n < b * n
         /\ a < b => a * n + n <= b * n
<1>1. ASSUME a < b PROVE a * n + n <= b * n
  <2>1. b - a \in Nat \ {0}
    BY <1>1
  <2>2. n * (b - a) >= n
    BY <2>1
  <2>3. n * (b - a) = b * n - a * n /\ a * n \in Int /\ b * n \in Int
    OBVIOUS
  <2> QED BY <2>2, <2>3
<1>2. ASSUME b <= a PROVE b * n <= a * n
  <2>1. a - b \in Nat
    BY <1>2
  <2>2. n * (a - b) \in Nat
    BY <2>1
  <2>3. n * (a - b) = a * n - b * n /\ a * n \in Int /\ b * n \in Int
    OBVIOUS
  <2> QED BY <2>2, <2>3
<1>3. a * n \in Int /\ b * n \in Int
  OBVIOUS
<1> QED BY <1>1, <1>2, <1>3

\* The search of nextSlotAfter, for ticks of 1/T second and a grid of n seconds.
SlotFrom(t, phase, n, T) ==
  LET sec == t \div T
      rem == (sec - phase) % n
  IN  IF rem = 0 THEN t ELSE (sec + n - rem) * T

\* Between a time and its slot no second of the phase begins.
SkipsNone(t, slot, phase, n, T) ==
  \A u \in t..(slot - 1) : ~(u % T = 0 /\ (u \div T) % n = phase)

LEMMA EarliestSlot ==
  ASSUME NEW T \in Nat \ {0}, NEW n \in Nat \ {0}, NEW t \in Nat, NEW phase \in 0..(n - 1)
  PROVE  LET slot == SlotFrom(t, phase, n, T)
         IN  /\ slot \in t..(t + n * T)
             /\ (slot \div T) % n = phase
             /\ SkipsNone(t, slot, phase, n, T)
<1> DEFINE sec == t \div T
           rem == (sec - phase) % n
           p == (sec - phase) \div n
           slot == IF rem = 0 THEN t ELSE (sec + n - rem) * T
<1> SUFFICES /\ slot \in t..(t + n * T)
             /\ (slot \div T) % n = phase
             /\ \A u \in t..(slot - 1) : ~(u % T = 0 /\ (u \div T) % n = phase)
  <2> SlotFrom(t, phase, n, T) = slot
    BY DEF SlotFrom
  <2> HIDE DEF slot
  <2> QED BY DEF SkipsNone
<1>1. sec \in Int /\ sec * T <= t /\ t < sec * T + T
  BY DivisionBounds, Division
<1>2. rem \in 0..(n - 1) /\ p \in Int /\ sec - phase = p * n + rem
  <2> DEFINE d == sec - phase
  <2>1. d \in Int
    BY <1>1
  <2> HIDE DEF sec, d
  <2>2. d \div n \in Int /\ d % n \in 0..(n - 1) /\ d = (d \div n) * n + (d % n)
    BY <2>1, Division
  <2> QED BY <2>2 DEF d
<1>3. n * T \in Nat
  OBVIOUS
<1>4. CASE rem = 0
  <2>1. slot = t /\ t..(slot - 1) = {}
    BY <1>4
  <2>2. sec % n = phase
    <3> HIDE DEF sec
    <3>1. sec \in Int
      BY <1>1
    <3>2. (sec - phase) % n = 0
      BY <1>4
    <3>3. sec % n = phase <=> (sec - phase) % n = 0
      BY <3>1, OnPhase
    <3> QED BY <3>2, <3>3
  <2> QED BY <1>3, <2>1, <2>2
<1>5. CASE rem # 0
  <2> DEFINE found == sec + n - rem
  <2>1. slot = found * T
    BY <1>5
  <2> HIDE DEF sec, rem, p, slot
  <2>2. found \in Int /\ sec < found /\ found < sec + n
    BY <1>1, <1>2, <1>5
  <2>3. found - phase = (p + 1) * n
    BY <1>1, <1>2
  <2> HIDE DEF found
  <2>4. found % n = phase
    <3>1. p + 1 \in Int /\ found - phase \in Int
      BY <1>2, <2>2
    <3>2. (found - phase) % n = 0
      BY <2>3, <3>1, Multiple
    <3>3. found % n = phase <=> (found - phase) % n = 0
      BY <2>2, OnPhase
    <3> QED BY <3>2, <3>3
  <2>5. slot \div T = found
    <3>1. slot = T * found + 0 /\ 0 \in 0..(T - 1)
      BY <2>1, <2>2
    <3> QED BY <2>2, <3>1, Quotient
  <2>6. slot \in t..(t + n * T)
    <3>1. sec * T + T <= found * T
      BY <1>1, <2>2, OrderOfMultiples
    <3>2. found * T < (sec + n) * T
      <4>1. sec + n \in Int
        BY <1>1
      <4> QED BY <2>2, <4>1, OrderOfMultiples
    <3>3. (sec + n) * T = sec * T + n * T /\ sec * T \in Int /\ found * T \in Int
      BY <1>1, <2>2
    <3> QED BY <1>1, <1>3, <2>1, <3>1, <3>2, <3>3
  <2>7. ASSUME NEW u \in t..(slot - 1), u % T = 0, (u \div T) % n = phase
        PROVE  FALSE
    <3> DEFINE s == u \div T
    <3>1. u \in Int /\ t <= u /\ u < slot
      BY <2>6
    <3>2. s \in Int /\ u = s * T
      BY <2>7, <3>1, Division
    <3>3. sec <= s
      BY <3>1, DivisionIsMonotone DEF sec
    <3>4. s % n = phase
      BY <2>7
    <3> HIDE DEF s
    <3>5. s < found
      BY <2>1, <2>2, <3>1, <3>2, OrderOfMultiples
    <3>6. PICK k \in Int : s - phase = k * n
      <4>1. s - phase \in Int /\ (s - phase) % n = 0
        BY <3>2, <3>4, OnPhase
      <4> QED BY <4>1, Multiple
    <3>7. p * n < k * n
      <4>1. p * n \in Int /\ k * n \in Int
        BY <1>2
      <4> QED BY <1>1, <1>2, <1>5, <3>2, <3>3, <3>6, <4>1
    <3>8. p < k
      BY <1>2, <3>7, OrderOfMultiples
    <3>9. p * n + n <= k * n
      BY <1>2, <3>8, OrderOfMultiples
    <3>10. (p + 1) * n = p * n + n /\ p * n \in Int /\ k * n \in Int
      BY <1>2
    <3> QED BY <2>2, <2>3, <3>2, <3>5, <3>6, <3>9, <3>10
  <2> QED BY <2>4, <2>5, <2>6, <2>7
<1> QED BY <1>4, <1>5

\* A loop that is late by some steps advances to the first one that is not.
LEMMA FirstStepAfter ==
  ASSUME NEW step \in Nat \ {0}, NEW slot \in Nat, NEW t \in Nat, slot <= t
  PROVE  LET missed == Max({0, t - slot}) \div step
             new == slot + (1 + missed) * step
         IN  missed \in Nat /\ t < new /\ new <= t + step /\ slot + step <= new
<1> DEFINE d == t - slot
           q == d \div step
<1>1. d \in Nat /\ t = slot + d
  OBVIOUS
<1>2. Max({0, t - slot}) = d
  <2>1. {0, d} \in SUBSET Int /\ d \in {0, d} /\ \A x \in {0, d} : x <= d
    BY <1>1
  <2> QED BY <2>1, LastOf
<1> HIDE DEF d
<1>3. q \in Int /\ q * step <= d /\ d < q * step + step
  BY <1>1, Division
<1> HIDE DEF q
<1>4. q >= 0
  <2>1. CASE q < 0
    <3>1. q * step + step <= 0 * step
      BY <1>3, <2>1, OrderOfMultiples
    <3>2. 0 * step = 0 /\ q * step \in Int
      BY <1>3
    <3> QED BY <1>1, <1>3, <3>1, <3>2
  <2> QED BY <1>3, <2>1
<1>5. (1 + q) * step = q * step + step /\ q * step \in Int
  BY <1>3
<1>6. q \in Nat
  BY <1>3, <1>4
<1>7. q * step >= 0
  BY <1>6
<1>8. /\ t < slot + (1 + q) * step /\ slot + (1 + q) * step <= t + step
      /\ slot + step <= slot + (1 + q) * step
  BY <1>1, <1>3, <1>5, <1>7
<1> QED BY <1>2, <1>6, <1>8 DEF q

-----------------------------------------------------------------------------
(* Maxima.                                                                 *)

LEMMA FiniteIsBounded ==
  ASSUME NEW S \in SUBSET Nat, IsFiniteSet(S)
  PROVE  \E n \in Nat : \A x \in S : x <= n
<1> DEFINE Bounded(T) == \E n \in Nat : \A x \in T : x <= n
           Sizes == {c \in Nat : \E T \in SUBSET Nat :
                                    IsFiniteSet(T) /\ Cardinality(T) = c /\ ~Bounded(T)}
<1>1. ASSUME ~Bounded(S) PROVE FALSE
  <2>1. Cardinality(S) \in Sizes
    BY <1>1, FS_CardinalityType
  <2>2. PICK c \in Sizes : \A d \in Sizes : ~(<<d, c>> \in OpToRel(<, Nat))
    BY <2>1, WFMin, NatLessThanWellFounded
  <2>3. \A d \in Sizes : ~(d < c)
    BY <2>2 DEF OpToRel
  <2>4. PICK T \in SUBSET Nat : IsFiniteSet(T) /\ Cardinality(T) = c /\ ~Bounded(T)
    OBVIOUS
  <2>5. PICK x \in T : TRUE
    BY <2>4
  <2>6. /\ IsFiniteSet(T \ {x}) /\ Cardinality(T \ {x}) = c - 1
        /\ c - 1 \in Nat /\ c - 1 < c
    <3>1. IsFiniteSet(T \ {x}) /\ Cardinality(T \ {x}) = c - 1
      BY <2>4, <2>5, FS_RemoveElement
    <3>2. Cardinality(T \ {x}) \in Nat
      BY <3>1, FS_CardinalityType
    <3>3. c \in Nat
      OBVIOUS
    <3> QED BY <3>1, <3>2, <3>3
  <2>7. Bounded(T \ {x})
    <3>1. c - 1 \notin Sizes
      <4> HIDE DEF Sizes
      <4> QED BY <2>3, <2>6
    <3>2. T \ {x} \in SUBSET Nat
      OBVIOUS
    <3> HIDE DEF Bounded
    <3> QED BY <2>6, <3>1, <3>2
  <2>8. PICK n \in Nat : \A y \in T \ {x} : y <= n
    BY <2>7
  <2>9. \E k \in Nat : \A y \in T : y <= k
    <3>1. CASE x <= n
      BY <2>8, <3>1
    <3>2. CASE ~(x <= n)
      <4>1. \A y \in T : y <= x
        BY <2>5, <2>8, <3>2
      <4> QED BY <2>5, <4>1
    <3> QED BY <3>1, <3>2
  <2> QED BY <2>4, <2>9
<1> QED BY <1>1

\* Of finitely many numbers, one of which is 1, the largest.
LEMMA MaxFromOne ==
  ASSUME NEW S \in SUBSET Int, IsFiniteSet(S), 1 \in S
  PROVE  Max(S) \in Nat \ {0} /\ \A x \in S : x <= Max(S)
<1> DEFINE N == S \cap Nat
<1>1. N \in SUBSET Nat /\ IsFiniteSet(N) /\ 1 \in N
  BY FS_Subset
<1>2. PICK n \in Nat : \A x \in N : x <= n
  BY <1>1, FiniteIsBounded
<1>3. Max(N) \in N /\ \A x \in N : x <= Max(N)
  BY <1>1, <1>2, LargestBelow
<1>4. Max(N) \in S /\ 1 <= Max(N) /\ Max(N) \in Nat
  BY <1>1, <1>3
<1>5. \A x \in S : x <= Max(N)
  <2> TAKE x \in S
  <2>1. CASE x \in Nat
    BY <1>3, <2>1
  <2>2. CASE x \notin Nat
    BY <1>4, <2>2
  <2> QED BY <2>1, <2>2
<1>6. Max(S) = Max(N)
  BY <1>4, <1>5, LastOf
<1> QED BY <1>4, <1>5, <1>6

\* What a wrong number is replaced by.
LEMMA AtLeastOneIs ==
  ASSUME NEW n \in Int
  PROVE  Max({1, n}) = (IF n > 1 THEN n ELSE 1) /\ Max({1, n}) \in Nat \ {0}
<1>1. CASE n > 1
  <2>1. n \in {1, n} /\ {1, n} \in SUBSET Int /\ \A x \in {1, n} : x <= n
    BY <1>1
  <2>2. Max({1, n}) = n
    BY <2>1, LastOf
  <2> QED BY <1>1, <2>2
<1>2. CASE ~(n > 1)
  <2>1. 1 \in {1, n} /\ {1, n} \in SUBSET Int /\ \A x \in {1, n} : x <= 1
    BY <1>2
  <2>2. Max({1, n}) = 1
    BY <2>1, LastOf
  <2> QED BY <1>2, <2>2
<1> QED BY <1>1, <1>2

LEMMA FiniteImage ==
  ASSUME NEW S, IsFiniteSet(S), NEW T, NEW f \in [S -> T], \A t \in T : \E s \in S : f[s] = t
  PROVE  IsFiniteSet(T)
<1>1. f \in Surjection(S, T)
  BY DEF Surjection
<1> QED BY <1>1, FS_Surjection

-----------------------------------------------------------------------------
(* The grid.                                                               *)

LEMMA PhaseOf ==
  ASSUME NEW n \in Nat \ {0}, NEW x \in Int, NEW h \in Nat, NEW s \in Int,
         s % n = (x + (h % n)) % n
  PROVE  (s - (x + h)) % n = 0
<1> DEFINE r == h % n
           y == x + r
           p == y % n
           i == s \div n
           j == y \div n
           k == h \div n
<1>1. k \in Int /\ r \in Int /\ h = k * n + r
  BY Division
<1>2. y \in Int
  BY <1>1
<1>3. i \in Int /\ j \in Int /\ p \in Int /\ s = i * n + p
  <2> HIDE DEF y
  <2> QED BY <1>2, Division DEF y
<1>4. y = j * n + p
  <2> HIDE DEF y
  <2> QED BY <1>2, Division
<1> HIDE DEF r, p, i, j, k
<1>5. s - (x + h) = (i - j - k) * n /\ i - j - k \in Int /\ s - (x + h) \in Int
  BY <1>1, <1>3, <1>4
<1> QED BY <1>5, Multiple

\* c places, i apart, in an interval of i * c: no two of them are the same.
LEMMA PlacesAreDistinct ==
  ASSUME NEW i \in Nat \ {0}, NEW c \in Nat \ {0}, NEW m \in 0..(c - 1), NEW k \in 0..(c - 1),
         (m * i - k * i) % (i * c) = 0
  PROVE  m = k
<1>1. i * c \in Nat \ {0} /\ m * i - k * i \in Int
  OBVIOUS
<1>2. PICK j \in Int : m * i - k * i = j * (i * c)
  BY <1>1, Multiple
<1>3. i * (m - k - j * c) = 0 /\ m - k - j * c \in Int
  BY <1>2
<1>4. m - k = j * c
  BY <1>3
<1>5. CASE j > 0
  BY <1>4, <1>5
<1>6. CASE j < 0
  BY <1>4, <1>6
<1>7. CASE j = 0
  BY <1>4, <1>7
<1> QED BY <1>5, <1>6, <1>7

-----------------------------------------------------------------------------
(* The parameters.                                                         *)

USE AssignmentsAssumption, TicksAssumption, ScheduleBounds

Longest == Max({1} \cup {a[1] : a \in Assignments})

LEMMA Largest ==
  /\ MaxCount \in Nat \ {0} /\ \A a \in Assignments : a[2] <= MaxCount
  /\ Longest \in Nat \ {0} /\ \A a \in Assignments : a[1] <= Longest
<1> DEFINE Counts == {a[2] : a \in Assignments}
           Intervals == {a[1] : a \in Assignments}
<1>1. Counts \in SUBSET Int /\ Intervals \in SUBSET Int
  OBVIOUS
<1>2. IsFiniteSet(Counts)
  <2> DEFINE f == [a \in Assignments |-> a[2]]
  <2>1. f \in [Assignments -> Counts] /\ \A t \in Counts : \E a \in Assignments : f[a] = t
    OBVIOUS
  <2> HIDE DEF f, Counts, Intervals
  <2> QED BY <2>1, FiniteImage
<1>3. IsFiniteSet(Intervals)
  <2> DEFINE f == [a \in Assignments |-> a[1]]
  <2>1. f \in [Assignments -> Intervals] /\ \A t \in Intervals : \E a \in Assignments : f[a] = t
    OBVIOUS
  <2> HIDE DEF f, Counts, Intervals
  <2> QED BY <2>1, FiniteImage
<1>4. \A a \in Assignments : a[2] \in Counts /\ a[1] \in Intervals
  OBVIOUS
<1>5. MaxCount = Max({1} \cup Counts) /\ Longest = Max({1} \cup Intervals)
  BY DEF MaxCount, Longest
<1> HIDE DEF Counts, Intervals
<1>6. IsFiniteSet({1} \cup Counts) /\ IsFiniteSet({1} \cup Intervals)
  BY <1>2, <1>3, FS_Singleton, FS_Union
<1>7. /\ Max({1} \cup Counts) \in Nat \ {0}
      /\ \A x \in {1} \cup Counts : x <= Max({1} \cup Counts)
  <2>1. {1} \cup Counts \in SUBSET Int /\ 1 \in {1} \cup Counts
    BY <1>1
  <2> QED BY <1>6, <2>1, MaxFromOne
<1>8. /\ Max({1} \cup Intervals) \in Nat \ {0}
      /\ \A x \in {1} \cup Intervals : x <= Max({1} \cup Intervals)
  <2>1. {1} \cup Intervals \in SUBSET Int /\ 1 \in {1} \cup Intervals
    BY <1>1
  <2> QED BY <1>6, <2>1, MaxFromOne
<1> QED BY <1>4, <1>5, <1>7, <1>8

LEMMA ProductsGrow ==
  ASSUME NEW a \in Nat, NEW b \in Nat, NEW x \in 0..a, NEW y \in 0..b
  PROVE  x * y <= a * b
<1>1. a - x \in Nat /\ b - y \in Nat /\ x \in Nat /\ y \in Nat
  OBVIOUS
<1>2. (a - x) * y >= 0 /\ a * (b - y) >= 0
  BY <1>1
<1>3. (a - x) * y = a * y - x * y /\ a * (b - y) = a * b - a * y
  BY <1>1
<1>4. a * y \in Int /\ x * y \in Int /\ a * b \in Int
  BY <1>1
<1> QED BY <1>2, <1>3, <1>4

\* What an assignment makes of the grid.
LEMMA GridTypes ==
  ASSUME <<interval, count>> \in Assignments
  PROVE  /\ interval \in Int \ {0} /\ interval <= Longest
         /\ Max({1, count}) \in 1..MaxCount
         /\ EffectiveInterval \in Int
         /\ interval > 0 => EffectiveInterval \in 1..(MaxCount * Longest)
         /\ ~(interval > 0) => EffectiveInterval <= 0
<1>1. interval \in Int \ {0} /\ count \in Nat /\ count <= MaxCount /\ interval <= Longest
  BY Largest
<1> DEFINE c == Max({1, count})
<1>2. c \in 1..MaxCount
  BY <1>1, AtLeastOneIs, Largest
<1>3. EffectiveInterval = interval * c
  BY DEF EffectiveInterval
<1>4. MaxCount \in Nat /\ Longest \in Nat
  BY Largest
<1> HIDE DEF c
<1>5. interval * c \in Int
  BY <1>1, <1>2, <1>4
<1>6. ASSUME interval > 0 PROVE interval * c \in 1..(MaxCount * Longest)
  <2>1. interval \in 0..Longest /\ c \in 0..MaxCount
    BY <1>1, <1>2, <1>4, <1>6
  <2>2. c * interval <= MaxCount * Longest
    BY <1>4, <2>1, ProductsGrow
  <2>3. interval * c = c * interval /\ MaxCount * Longest \in Int
    BY <1>1, <1>2, <1>4
  <2>4. interval * c >= 1
    BY <1>1, <1>2, <1>4, <1>6
  <2> QED BY <1>5, <2>2, <2>3, <2>4
<1>7. ASSUME ~(interval > 0) PROVE interval * c <= 0
  BY <1>1, <1>2, <1>4, <1>7
<1> QED BY <1>1, <1>2, <1>3, <1>5, <1>6, <1>7 DEF c

\* What TypeOK says of the check.
LEMMA CheckTypes ==
  ASSUME TypeOK
  PROVE  /\ interval \in Int \ {0} /\ interval <= Longest
         /\ Max({1, count}) \in 1..MaxCount
         /\ EffectiveInterval \in Int
         /\ interval > 0 => EffectiveInterval \in 1..(MaxCount * Longest)
         /\ ~(interval > 0) => EffectiveInterval <= 0
         /\ hash \in Nat /\ now \in 0..MaxTime
BY GridTypes DEF TypeOK

LEMMA SlotBound == MaxSlot = MaxTime + MaxCount * Longest * TicksPerSecond /\ MaxSlot \in Nat
<1>1. /\ MaxSlot = MaxTime + TicksPerSecond * MaxCount * Longest
      /\ MaxCount \in Nat /\ Longest \in Nat
  BY Largest DEF MaxSlot, Longest
<1> QED BY <1>1

\* A step is one of the grid where there is one, else a second, and no slot
\* within a step of the present is beyond the bound.
LEMMA StepTypes ==
  ASSUME TypeOK
  PROVE  /\ MaxTime + Step <= MaxSlot
         /\ Step \in Nat /\ Step >= TicksPerSecond
         /\ interval > 0 => Step = EffectiveInterval * TicksPerSecond
<1> DEFINE k == Max({1, EffectiveInterval})
           bound == MaxCount * Longest
<1>1. bound \in Nat \ {0} /\ MaxSlot = MaxTime + bound * TicksPerSecond
  BY Largest, SlotBound
<1>2. Step = k * TicksPerSecond
  BY DEF Step
<1>3. /\ EffectiveInterval \in Int
      /\ interval > 0 => EffectiveInterval \in 1..bound
      /\ ~(interval > 0) => EffectiveInterval <= 0
  BY CheckTypes
<1> HIDE DEF bound
<1>4. k \in 1..bound /\ (interval > 0 => k = EffectiveInterval)
  BY <1>1, <1>3, AtLeastOneIs
<1> HIDE DEF k
<1>5. k * TicksPerSecond <= bound * TicksPerSecond
  BY <1>1, <1>4, ProductsGrow
<1>6. bound * TicksPerSecond \in Nat /\ k * TicksPerSecond \in Nat
  BY <1>1, <1>4
<1> QED BY <1>1, <1>2, <1>4, <1>5, <1>6

LEMMA SearchTypes ==
  ASSUME TypeOK, interval > 0, NEW phase \in 0..(EffectiveInterval - 1)
  PROVE  LET slot == NextSlotAfter(now, phase)
         IN  /\ slot \in now..(now + EffectiveInterval * TicksPerSecond)
             /\ Second(slot) % EffectiveInterval = phase
             /\ \A t \in now..(slot - 1) : ~IsSlot(t, phase)
<1> DEFINE n == EffectiveInterval
           sec == Second(now)
           rem == (sec - phase) % n
<1>1. n \in Nat \ {0} /\ now \in Nat
  BY CheckTypes
<1>2. phase \in Int /\ sec \in Int
  BY <1>1, Division DEF Second
<1>3. Mod64(sec - phase, n) = rem
  <2>1. sec - phase \in Int
    BY <1>2
  <2> HIDE DEF sec, n
  <2> QED BY <1>1, <2>1, Mod64Is
<1>4. ~(n <= 0)
  BY <1>1
<1>5. NextSlotAfter(now, phase) = SlotFrom(now, phase, n, TicksPerSecond)
  BY <1>3, <1>4 DEF NextSlotAfter, SlotFrom, Second
<1>6. phase \in 0..(n - 1)
  OBVIOUS
<1> DEFINE slot == SlotFrom(now, phase, n, TicksPerSecond)
<1> HIDE DEF n
<1>7. /\ slot \in now..(now + n * TicksPerSecond)
      /\ (slot \div TicksPerSecond) % n = phase
      /\ SkipsNone(now, slot, phase, n, TicksPerSecond)
  BY <1>1, <1>6, EarliestSlot
<1> HIDE DEF slot
<1> QED BY <1>5, <1>7 DEF Second, IsSlot, SkipsNone, n, slot

\* The slot a loop joins the grid at.
LEMMA JoinedSlot ==
  ASSUME TypeOK, NEW m \in Nat
  PROVE  LET slot == NextSlotAfter(now, Phase(m))
         IN  /\ slot \in now..(now + Step)
             /\ interval > 0 => (Second(slot) - (m * interval + hash)) % EffectiveInterval = 0
<1> DEFINE slot == NextSlotAfter(now, Phase(m))
<1>1. CASE interval > 0
  <2> DEFINE n == EffectiveInterval
             x == m * interval
             y == x + (hash % n)
  <2>1. n \in Nat \ {0} /\ hash \in Nat /\ interval \in Int /\ now \in Nat
    BY <1>1, CheckTypes
  <2>2. x \in Int
    BY <2>1
  <2>3. hash % n \in Int
    BY <2>1, Division
  <2>4. y \in Int
    BY <2>2, <2>3
  <2>5. ~(n <= 0)
    BY <2>1
  <2>6. Phase(m) = Mod64(y, n)
    BY <2>5 DEF Phase
  <2> HIDE DEF n, y
  <2>7. Phase(m) = y % n /\ y % n \in 0..(n - 1)
    BY <2>1, <2>4, <2>6, Mod64Is, Division
  <2>8. slot \in now..(now + n * TicksPerSecond) /\ Second(slot) % n = Phase(m)
    BY <1>1, <2>7, SearchTypes DEF n
  <2>9. Step = n * TicksPerSecond
    BY <1>1, StepTypes DEF n
  <2> HIDE DEF slot, x
  <2>10. Second(slot) \in Int
    <3>1. slot \in Int
      BY <2>1, <2>8
    <3> QED BY <3>1, Division DEF Second
  <2>11. (Second(slot) - (x + hash)) % n = 0
    BY <2>1, <2>2, <2>7, <2>8, <2>10, PhaseOf DEF y
  <2> QED BY <2>8, <2>9, <2>11 DEF slot, x, n
<1>2. CASE ~(interval > 0)
  <2>1. EffectiveInterval <= 0 /\ now \in Nat
    BY <1>2, CheckTypes
  <2>2. slot = now
    BY <2>1 DEF NextSlotAfter
  <2>3. Step \in Nat
    BY StepTypes
  <2> QED BY <1>2, <2>1, <2>2, <2>3
<1> QED BY <1>1, <1>2

LEMMA SecondTypes ==
  ASSUME NEW t \in Nat
  PROVE  Second(t) \in 0..t
<1> DEFINE q == t \div TicksPerSecond
<1>1. q \in Int /\ q * TicksPerSecond <= t /\ t < q * TicksPerSecond + TicksPerSecond
  BY Division
<1> HIDE DEF q
<1>2. CASE q < 0
  <2>1. q * TicksPerSecond + TicksPerSecond <= 0 * TicksPerSecond
    BY <1>1, <1>2, OrderOfMultiples
  <2>2. 0 * TicksPerSecond = 0 /\ q * TicksPerSecond \in Int
    BY <1>1
  <2> QED BY <1>1, <2>1, <2>2
<1>3. CASE q >= 0
  <2>1. q * (TicksPerSecond - 1) >= 0
    BY <1>1, <1>3
  <2>2. q * (TicksPerSecond - 1) = q * TicksPerSecond - q /\ q * TicksPerSecond \in Int
    BY <1>1
  <2> QED BY <1>1, <1>3, <2>1, <2>2 DEF q, Second
<1> QED BY <1>1, <1>2, <1>3

\* Slots a second apart or more have different seconds.
LEMMA LaterSecond ==
  ASSUME NEW t \in Nat, NEW u \in Nat, t + TicksPerSecond <= u
  PROVE  Second(t) < Second(u)
<1> DEFINE k == 1
<1>1. /\ k \in Int /\ t \in Int /\ TicksPerSecond \in Nat \ {0}
      /\ t + TicksPerSecond \in Int /\ t + TicksPerSecond = t + k * TicksPerSecond
  OBVIOUS
<1>2. (t + TicksPerSecond) \div TicksPerSecond = (t \div TicksPerSecond) + 1
  <2> HIDE DEF k
  <2>1. (t + k * TicksPerSecond) \div TicksPerSecond = (t \div TicksPerSecond) + k
    BY <1>1, ShiftByWhole, Zenon
  <2> QED BY <1>1, <2>1 DEF k
<1>3. (t + TicksPerSecond) \div TicksPerSecond <= u \div TicksPerSecond
  BY <1>1, DivisionIsMonotone
<1>4. Second(t) \in Int /\ Second(u) \in Int
  BY SecondTypes
<1> QED BY <1>1, <1>2, <1>3, <1>4 DEF Second

LEMMA MonitorTypes == Monitors \in SUBSET Nat
BY Largest DEF Monitors

-----------------------------------------------------------------------------
(* The steps.                                                              *)

LEMMA InitIInv == Init => IInv
<1> SUFFICES ASSUME Init PROVE IInv
  OBVIOUS
<1> USE DEF Init
<1>1. <<interval, count>> \in Assignments
  OBVIOUS
<1>2. hash \in Nat
  <2>1. EffectiveInterval \in Int
    BY <1>1, GridTypes
  <2>2. CASE EffectiveInterval >= 1
    <3>1. EffectiveInterval - 1 \in Nat
      BY <2>1, <2>2
    <3>2. /\ {0, EffectiveInterval - 1} \in SUBSET Int
          /\ EffectiveInterval - 1 \in {0, EffectiveInterval - 1}
          /\ \A x \in {0, EffectiveInterval - 1} : x <= EffectiveInterval - 1
      BY <3>1
    <3>3. Max({0, EffectiveInterval - 1}) = EffectiveInterval - 1
      BY <3>1, <3>2, LastOf
    <3> QED BY <3>1, <3>3
  <2>3. CASE ~(EffectiveInterval >= 1)
    <3>1. EffectiveInterval - 1 \in Int /\ EffectiveInterval - 1 <= 0
      BY <2>1, <2>3
    <3>2. /\ {0, EffectiveInterval - 1} \in SUBSET Int
          /\ 0 \in {0, EffectiveInterval - 1}
          /\ \A x \in {0, EffectiveInterval - 1} : x <= 0
      BY <3>1
    <3>3. Max({0, EffectiveInterval - 1}) = 0
      BY <3>1, <3>2, LastOf
    <3> QED BY <3>3
  <2> QED BY <2>2, <2>3
<1>3. 0 \in 0..MaxTime /\ 0 \in 0..MaxSlot /\ 0 \in 0..MaxRestarts /\ -1 \in {-1} \cup 0..MaxTime
  BY SlotBound
<1>4. TypeOK
  BY <1>1, <1>2, <1>3 DEF TypeOK
<1>5. SlotsHaveCome /\ OnGrid /\ FiredBeforeNext /\ JoinedAreAssigned /\ OncePerSlot
  BY DEF SlotsHaveCome, OnGrid, FiredBeforeNext, JoinedAreAssigned, OncePerSlot
<1> QED BY <1>4, <1>5 DEF IInv

\* What every invariant takes from the types.
LEMMA SlotTypes ==
  ASSUME TypeOK, NEW m \in Monitors
  PROVE  /\ m \in Nat
         /\ next[m] \in Nat /\ Second(next[m]) \in 0..next[m]
         /\ fired[m] \in Int
         /\ now \in Nat /\ now <= MaxTime
<1>1. next[m] \in Nat
  BY SlotBound DEF TypeOK
<1> QED BY <1>1, MonitorTypes, SecondTypes DEF TypeOK

LEMMA TickStep ==
  ASSUME IInv, Tick
  PROVE  IInv'
<1> USE DEF IInv, Tick, checkVars
<1>1. TypeOK'
  BY DEF TypeOK
<1>2. SlotsHaveCome'
  BY SlotTypes DEF SlotsHaveCome
<1>3. OnGrid' /\ FiredBeforeNext' /\ JoinedAreAssigned' /\ OncePerSlot'
  BY DEF OnGrid, FiredBeforeNext, JoinedAreAssigned, OncePerSlot, EffectiveInterval, Assigned
<1> QED BY <1>1, <1>2, <1>3

LEMMA JoinGridStep ==
  ASSUME IInv, NEW m \in Monitors, JoinGrid(m)
  PROVE  IInv'
<1> USE DEF IInv, JoinGrid, checkVars
<1> DEFINE slot == NextSlotAfter(now, Phase(m))
<1>1. /\ slot \in now..(now + Step)
      /\ interval > 0 => (Second(slot) - (m * interval + hash)) % EffectiveInterval = 0
  BY SlotTypes, JoinedSlot
<1>2. pc[m] = "start" /\ m \in Assigned
  OBVIOUS
<1>3. /\ pc' = [pc EXCEPT ![m] = "wait"] /\ next' = [next EXCEPT ![m] = slot]
      /\ pc \in [Monitors -> {"start", "wait", "execute"}] /\ next \in [Monitors -> 0..MaxSlot]
  BY DEF TypeOK
<1> HIDE DEF slot
<1>4. slot \in 0..MaxSlot /\ Second(slot) \in Nat
  <2>1. slot \in Nat /\ slot <= MaxTime + Step
    BY <1>1, SlotTypes, StepTypes
  <2>2. slot <= MaxSlot
    BY <2>1, StepTypes, SlotBound
  <2> QED BY <2>1, <2>2, SlotBound, SecondTypes
<1>5. /\ pc'[m] = "wait" /\ next'[m] = slot
      /\ \A k \in Monitors : k # m => pc'[k] = pc[k] /\ next'[k] = next[k]
  BY <1>3
<1>6. UNCHANGED <<interval, count, hash, now, fired, refired, restarts>>
  OBVIOUS
<1> HIDE DEF JoinGrid
<1>7. TypeOK'
  BY <1>3, <1>4, <1>6 DEF TypeOK
<1>8. SlotsHaveCome'
  BY <1>5, <1>6 DEF SlotsHaveCome
<1>9. OnGrid'
  BY <1>1, <1>5, <1>6 DEF OnGrid, EffectiveInterval
<1>10. FiredBeforeNext'
  BY <1>2, <1>4, <1>5, <1>6 DEF FiredBeforeNext
<1>11. JoinedAreAssigned' /\ OncePerSlot'
  BY <1>2, <1>5, <1>6 DEF JoinedAreAssigned, OncePerSlot, Assigned
<1> QED BY <1>7, <1>8, <1>9, <1>10, <1>11

LEMMA FireStep ==
  ASSUME IInv, NEW m \in Monitors, Fire(m)
  PROVE  IInv'
<1> USE DEF IInv, Fire, checkVars
<1>1. /\ pc[m] = "wait" /\ next[m] <= now
      /\ next[m] \in Nat /\ Second(next[m]) \in 0..next[m] /\ fired[m] \in Int
      /\ now \in Nat /\ now <= MaxTime
  BY SlotTypes
<1>2. /\ pc' = [pc EXCEPT ![m] = "execute"] /\ fired' = [fired EXCEPT ![m] = Second(next[m])]
      /\ pc \in [Monitors -> {"start", "wait", "execute"}]
      /\ fired \in [Monitors -> {-1} \cup 0..MaxTime] /\ restarts \in 0..MaxRestarts
  BY DEF TypeOK
<1>3. refired' <=> (refired \/ Second(next[m]) <= fired[m])
  OBVIOUS
<1>4. refired' \in BOOLEAN
  BY DEF TypeOK
<1>5. UNCHANGED <<interval, count, hash, now, next, restarts>>
  OBVIOUS
<1> HIDE DEF Fire
<1>6. /\ pc'[m] = "execute" /\ fired'[m] = Second(next[m])
      /\ \A k \in Monitors : k # m => pc'[k] = pc[k] /\ fired'[k] = fired[k]
  BY <1>2
<1>7. Second(next[m]) \in 0..MaxTime
  BY <1>1
<1>8. TypeOK'
  BY <1>2, <1>4, <1>5, <1>7 DEF TypeOK
<1>9. SlotsHaveCome'
  BY <1>1, <1>5, <1>6 DEF SlotsHaveCome
<1>10. OnGrid' /\ JoinedAreAssigned'
  BY <1>1, <1>5, <1>6 DEF OnGrid, JoinedAreAssigned, EffectiveInterval, Assigned
<1>11. FiredBeforeNext'
  BY <1>1, <1>5, <1>6 DEF FiredBeforeNext
<1>12. OncePerSlot'
  <2>1. restarts \in Nat /\ restarts' = restarts
    BY <1>2, <1>5
  <2>2. CASE restarts = 0
    <3>1. fired[m] < Second(next[m])
      BY <1>1, <2>2 DEF FiredBeforeNext
    <3>2. ~(Second(next[m]) <= fired[m])
      BY <1>1, <3>1
    <3>3. ~refired
      BY <2>2 DEF OncePerSlot
    <3> QED BY <1>3, <3>2, <3>3 DEF OncePerSlot
  <2>3. CASE restarts # 0
    BY <2>1, <2>3 DEF OncePerSlot
  <2> QED BY <2>2, <2>3
<1> QED BY <1>8, <1>9, <1>10, <1>11, <1>12

\* The slot after an execution is the first of the monitor's that is not past.
LEMMA AdvancedSlot ==
  ASSUME IInv, NEW m \in Monitors, Advance(m)
  PROVE  /\ next'[m] \in (now + 1)..(now + Step)
         /\ next[m] + Step <= next'[m]
         /\ interval > 0 =>
              (Second(next'[m]) - (m * interval + hash)) % EffectiveInterval = 0
         /\ next' = [next EXCEPT ![m] = next'[m]]
<1> USE DEF IInv
<1> DEFINE missed == Max({0, now - next[m]}) \div Step
           new == next[m] + (1 + missed) * Step
<1>1. pc[m] = "execute" /\ next' = [next EXCEPT ![m] = new]
  BY DEF Advance
<1>2. next'[m] = new /\ next' = [next EXCEPT ![m] = next'[m]]
  BY <1>1 DEF TypeOK
<1>3. /\ next[m] \in Nat /\ next[m] <= now /\ now \in Nat
      /\ Second(next[m]) \in Int /\ m \in Nat
  BY <1>1, SlotTypes DEF SlotsHaveCome
<1>4. Step \in Nat \ {0}
  BY StepTypes
<1>5. missed \in Nat /\ now < new /\ new <= now + Step /\ next[m] + Step <= new
  BY <1>3, <1>4, FirstStepAfter
<1> HIDE DEF missed
<1>6. new \in Nat
  BY <1>3, <1>4, <1>5
<1>7. ASSUME interval > 0
      PROVE  (Second(new) - (m * interval + hash)) % EffectiveInterval = 0
  <2> DEFINE n == EffectiveInterval
             x == m * interval + hash
             k == (1 + missed) * n
  <2>1. n \in Nat \ {0} /\ interval \in Int /\ hash \in Int
    BY <1>7, CheckTypes
  <2>2. Step = n * TicksPerSecond
    BY <1>7, StepTypes
  <2>3. (Second(next[m]) - x) % n = 0
    BY <1>1, <1>7 DEF OnGrid
  <2>4. x \in Int
    BY <1>3, <2>1
  <2> HIDE DEF n, x
  <2>5. k \in Int /\ new = next[m] + k * TicksPerSecond
    BY <1>5, <2>1, <2>2
  <2>6. Second(new) = Second(next[m]) + k
    <3> HIDE DEF k, new
    <3>1. next[m] \in Int /\ TicksPerSecond \in Nat \ {0}
      BY <1>3
    <3>2. (next[m] + k * TicksPerSecond) \div TicksPerSecond = (next[m] \div TicksPerSecond) + k
      BY <2>5, <3>1, ShiftByWhole, Zenon
    <3> QED BY <2>5, <3>2 DEF Second
  <2> DEFINE d == Second(next[m]) - x
             j == 1 + missed
  <2>7. Second(new) - x = d + j * n /\ d \in Int /\ j \in Int
    <3> HIDE DEF new
    <3> QED BY <1>3, <1>5, <2>1, <2>4, <2>5, <2>6
  <2> HIDE DEF d, j
  <2>8. (d + j * n) % n = d % n
    BY <2>1, <2>7, ShiftByWhole, Zenon
  <2>9. d % n = 0
    BY <2>3 DEF d
  <2> HIDE DEF new
  <2> QED BY <2>7, <2>8, <2>9 DEF n, x
<1> HIDE DEF new
<1> QED BY <1>2, <1>3, <1>4, <1>5, <1>6, <1>7

LEMMA AdvanceStep ==
  ASSUME IInv, NEW m \in Monitors, Advance(m)
  PROVE  IInv'
<1> DEFINE slot == next'[m]
<1>1. /\ slot \in (now + 1)..(now + Step) /\ next[m] + Step <= slot
      /\ interval > 0 => (Second(slot) - (m * interval + hash)) % EffectiveInterval = 0
      /\ next' = [next EXCEPT ![m] = slot]
  BY AdvancedSlot
<1> HIDE DEF slot
<1> USE DEF IInv, Advance, checkVars
<1>2. /\ next[m] \in Nat /\ now \in Nat /\ now <= MaxTime
      /\ Step \in Nat /\ Step >= TicksPerSecond
  BY SlotTypes, StepTypes
<1>3. slot \in 0..MaxSlot /\ slot \in Nat
  <2>1. slot \in Nat /\ slot <= MaxTime + Step
    BY <1>1, <1>2
  <2>2. slot <= MaxSlot
    BY <2>1, StepTypes, SlotBound
  <2> QED BY <2>1, <2>2, SlotBound
<1>4. Second(next[m]) < Second(slot)
  <2>1. next[m] + TicksPerSecond <= slot
    BY <1>1, <1>2, <1>3
  <2> QED BY <1>2, <1>3, <2>1, LaterSecond
<1>5. /\ pc[m] = "execute" /\ pc' = [pc EXCEPT ![m] = "wait"]
      /\ pc \in [Monitors -> {"start", "wait", "execute"}] /\ next \in [Monitors -> 0..MaxSlot]
  BY DEF TypeOK
<1>6. UNCHANGED <<interval, count, hash, now, fired, refired, restarts>>
  OBVIOUS
<1> HIDE DEF Advance
<1>7. /\ pc'[m] = "wait" /\ next'[m] = slot
      /\ \A k \in Monitors : k # m => pc'[k] = pc[k] /\ next'[k] = next[k]
  BY <1>1, <1>5
<1>8. TypeOK'
  BY <1>1, <1>3, <1>5, <1>6 DEF TypeOK
<1>9. SlotsHaveCome'
  BY <1>6, <1>7 DEF SlotsHaveCome
<1>10. OnGrid'
  BY <1>1, <1>6, <1>7 DEF OnGrid, EffectiveInterval
<1>11. FiredBeforeNext'
  BY <1>4, <1>5, <1>6, <1>7 DEF FiredBeforeNext
<1>12. JoinedAreAssigned' /\ OncePerSlot'
  BY <1>5, <1>6, <1>7 DEF JoinedAreAssigned, OncePerSlot, Assigned
<1> QED BY <1>8, <1>9, <1>10, <1>11, <1>12

LEMMA RestartStep ==
  ASSUME IInv, NEW m \in Monitors, Restart(m)
  PROVE  IInv'
<1> USE DEF IInv, Restart, checkVars
<1>1. restarts' = restarts + 1 /\ restarts \in Nat /\ restarts < MaxRestarts
  BY DEF TypeOK
<1>2. restarts' > 0 /\ restarts' # 0 /\ restarts' \in 0..MaxRestarts
  BY <1>1
<1>3. TypeOK'
  BY <1>2 DEF TypeOK
<1>4. \A k \in Monitors : pc'[k] # "start" => pc'[k] = pc[k]
  BY DEF TypeOK
<1>5. SlotsHaveCome' /\ OnGrid' /\ JoinedAreAssigned'
  BY <1>4 DEF SlotsHaveCome, OnGrid, JoinedAreAssigned, EffectiveInterval, Assigned
<1>6. FiredBeforeNext' /\ OncePerSlot'
  BY <1>2 DEF FiredBeforeNext, OncePerSlot
<1> QED BY <1>3, <1>5, <1>6

LEMMA NextIInv == IInv /\ [Next]_vars => IInv'
<1> SUFFICES ASSUME IInv, [Next]_vars PROVE IInv'
  OBVIOUS
<1>1. CASE Tick
  BY <1>1, TickStep
<1>2. ASSUME NEW m \in Monitors, JoinGrid(m) \/ Fire(m) \/ Advance(m) \/ Restart(m)
      PROVE  IInv'
  BY <1>2, JoinGridStep, FireStep, AdvanceStep, RestartStep
<1>3. CASE UNCHANGED vars
  BY <1>3 DEF vars, checkVars, IInv, TypeOK, SlotsHaveCome, OnGrid, FiredBeforeNext,
              JoinedAreAssigned, OncePerSlot, EffectiveInterval, Assigned
<1> QED BY <1>1, <1>2, <1>3 DEF Next

\* A loop leaves its execution by advancing.
LEMMA LeavesByAdvance ==
  ASSUME IInv, [Next]_vars, NEW m \in Monitors, pc[m] = "execute", pc'[m] = "wait"
  PROVE  Advance(m) /\ next'[m] \in (now + 1)..(now + Step)
<1>1. pc \in [Monitors -> {"start", "wait", "execute"}]
  BY DEF IInv, TypeOK
<1>2. pc' # pc
  OBVIOUS
<1>3. PICK k \in Monitors : JoinGrid(k) \/ Fire(k) \/ Advance(k) \/ Restart(k)
  BY <1>2 DEF Next, Tick, vars
<1>4. CASE JoinGrid(k) \/ Fire(k) \/ Restart(k)
  BY <1>1, <1>4 DEF JoinGrid, Fire, Restart
<1>5. CASE Advance(k)
  <2>1. k = m
    BY <1>1, <1>5 DEF Advance
  <2> QED BY <1>5, <2>1, AdvancedSlot
<1> QED BY <1>3, <1>4, <1>5

LEMMA WaitingOnGrid ==
  ASSUME IInv, interval > 0, NEW m \in Waiting, NEW k \in Waiting
  PROVE  /\ (Second(next[m]) - Second(next[k]) - (m - k) * interval) % EffectiveInterval = 0
         /\ m # k => Second(next[m]) # Second(next[k])
<1> DEFINE n == EffectiveInterval
           a == Second(next[m])
           b == Second(next[k])
           x == m * interval
           y == k * interval
<1>1. /\ m \in Monitors /\ k \in Monitors /\ pc[m] = "wait" /\ pc[k] = "wait"
      /\ TypeOK
  BY DEF Waiting, IInv
<1>2. /\ n \in Nat \ {0} /\ hash \in Int /\ interval \in Nat \ {0}
      /\ m \in Nat /\ k \in Nat /\ a \in Int /\ b \in Int
  BY <1>1, CheckTypes, SlotTypes
<1>3. (a - (x + hash)) % n = 0 /\ (b - (y + hash)) % n = 0
  BY <1>1 DEF IInv, OnGrid
<1>4. x \in Int /\ y \in Int /\ x - y = (m - k) * interval
  BY <1>2
<1>5. (a - b - (x - y)) % n = 0
  <2> DEFINE d == a - (x + hash)
             e == b - (y + hash)
  <2>1. d \in Int /\ e \in Int /\ a - b - (x - y) = d - e
    <3> HIDE DEF n, a, b, x, y
    <3> QED BY <1>2, <1>4
  <2>2. d % n = 0 /\ e % n = 0
    BY <1>3
  <2> HIDE DEF n, a, b, x, y, d, e
  <2>4. d \in Int /\ e \in Int /\ n \in Nat \ {0}
    BY <1>2, <2>1
  <2>3. d % n = e % n <=> (d - e) % n = 0
    BY <2>4, SameRemainder
  <2> QED BY <2>1, <2>2, <2>3
<1>6. ASSUME a = b PROVE m = k
  <2> DEFINE c == Max({1, count})
  <2>1. m \in 0..(c - 1) /\ k \in 0..(c - 1) /\ c \in Nat \ {0}
    <3>1. m \in Assigned /\ k \in Assigned
      BY <1>1 DEF IInv, JoinedAreAssigned
    <3> QED BY <1>1, <3>1, CheckTypes, Largest DEF Assigned
  <2>2. n = interval * c
    BY DEF EffectiveInterval
  <2>3. (y - x) % n = 0
    <3>1. y - x = a - b - (x - y)
      <4> HIDE DEF a, b, x, y
      <4> QED BY <1>2, <1>4, <1>6
    <3> HIDE DEF a, b, x, y, n
    <3> QED BY <1>5, <3>1
  <2>4. (k * interval - m * interval) % (interval * c) = 0
    BY <2>2, <2>3
  <2> HIDE DEF c, n, a, b, x, y
  <2> QED BY <1>2, <2>1, <2>4, PlacesAreDistinct
<1>7. (a - b - (m - k) * interval) % n = 0
  <2> HIDE DEF n, a, b, x, y
  <2> QED BY <1>4, <1>5
<1> QED BY <1>6, <1>7

-----------------------------------------------------------------------------
(* The theorems.                                                           *)

\* The strengthening is an invariant of ticks, joins, executions and restarts.
THEOREM Invariance == Spec => []IInv
<1> QED BY InitIInv, NextIInv, PTL DEF Spec

\* Types: no slot is ever waited for that lies more than a step ahead.
THEOREM ScheduleTypes == Spec => []TypeOK
<1>1. IInv => TypeOK
  BY DEF IInv
<1> QED BY <1>1, Invariance, PTL

\* The monitors of a check stay interval_sec apart in its grid, for any number
\* of them, any interval and any hash, whenever each starts and however long it
\* executes.
THEOREM RotationIsKeptForever == Spec => []RotationIsKept
<1>1. IInv => RotationIsKept
  BY WaitingOnGrid DEF RotationIsKept
<1> QED BY <1>1, Invariance, PTL

\* So no two monitors of a check wait for the same second, though none knows of
\* the others.
THEOREM SlotsNeverCoincide ==
  Spec => [](interval > 0 =>
               \A m, k \in Waiting : m # k => Second(next[m]) # Second(next[k]))
<1>1. IInv => (interval > 0 =>
                 \A m, k \in Waiting : m # k => Second(next[m]) # Second(next[k]))
  BY WaitingOnGrid
<1> QED BY <1>1, Invariance, PTL

\* nextSlotAfter finds the first slot that has not passed, at every time and for
\* every phase.
THEOREM SearchFindsEarliest == Spec => []NextSlotIsEarliest
<1>1. IInv => NextSlotIsEarliest
  <2> SUFFICES ASSUME IInv, NEW phase \in 0..(EffectiveInterval - 1)
               PROVE  LET slot == NextSlotAfter(now, phase)
                      IN  /\ slot >= now
                          /\ Second(slot) % EffectiveInterval = phase
                          /\ \A t \in now..(slot - 1) : ~IsSlot(t, phase)
    BY DEF NextSlotIsEarliest
  <2> DEFINE slot == NextSlotAfter(now, phase)
  <2>1. TypeOK /\ EffectiveInterval \in Int /\ now \in Nat /\ interval > 0
    BY CheckTypes DEF IInv
  <2>2. /\ slot \in now..(now + EffectiveInterval * TicksPerSecond)
        /\ Second(slot) % EffectiveInterval = phase
        /\ \A t \in now..(slot - 1) : ~IsSlot(t, phase)
    BY <2>1, SearchTypes
  <2> HIDE DEF slot
  <2>3. slot >= now
    BY <2>1, <2>2
  <2> QED BY <2>2, <2>3 DEF slot
<1> QED BY <1>1, Invariance, PTL

\* A slot fires twice only when its check was restarted.
THEOREM SlotsFireOnce == Spec => []OncePerSlot
<1>1. IInv => OncePerSlot
  BY DEF IInv
<1> QED BY <1>1, Invariance, PTL

\* After an execution, however late, the loop waits for a slot that is still to
\* come and at most one step away: those it overran are skipped, none is caught
\* up with.
THEOREM OverrunSlotsAreSkipped == Spec => SkipsOverrunSlots
<1>1. IInv /\ [Next]_vars =>
        \A m \in Monitors : pc[m] = "execute" /\ pc'[m] = "wait" =>
          next'[m] \in (now + 1)..(now + Step)
  BY LeavesByAdvance
<1> QED BY <1>1, Invariance, PTL DEF SkipsOverrunSlots, Spec
=============================================================================
