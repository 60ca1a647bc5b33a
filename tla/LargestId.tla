----------------------------- MODULE LargestId -----------------------------
(* A table whose ids are bounded has a largest one, the id NextId counts on *)
(* from: INTEGER PRIMARY KEY without AUTOINCREMENT.                        *)
EXTENDS Integers, FiniteSetsExt, WellFoundedInduction, TLAPS

\* A bound that is a member is the maximum.
LEMMA LastOf ==
  ASSUME NEW S \in SUBSET Int, NEW n \in S, \A x \in S : x <= n
  PROVE  Max(S) = n
<1>1. \A y \in S : n >= y
  OBVIOUS
<1>2. \A x \in S : (\A y \in S : x >= y) => x = n
  <2> TAKE x \in S
  <2> HAVE \A y \in S : x >= y
  <2>1. x >= n /\ x <= n /\ x \in Int /\ n \in Int
    OBVIOUS
  <2> QED BY <2>1
<1> QED BY <1>1, <1>2 DEF Max

LEMMA LargestBelow ==
  ASSUME NEW S \in SUBSET Nat, S # {}, NEW n \in Nat, \A x \in S : x <= n
  PROVE  Max(S) \in S /\ \A x \in S : x <= Max(S)
<1> DEFINE T == {n - x : x \in S}
<1>1. T \subseteq Nat
  OBVIOUS
<1>2. T # {}
  OBVIOUS
<1>3. \E m \in T : \A k \in T : ~(<<k, m>> \in OpToRel(<, Nat))
  BY <1>1, <1>2, WFMin, NatLessThanWellFounded
<1>4. PICK m \in T : \A k \in T : ~(k < m)
  BY <1>1, <1>3 DEF OpToRel
<1>5. PICK x \in S : m = n - x
  BY <1>4
<1>6. \A y \in S : x >= y
  <2> TAKE y \in S
  <2>1. n - y \in T
    OBVIOUS
  <2>2. ~(n - y < n - x)
    BY <1>4, <1>5, <2>1
  <2>3. x \in Nat /\ y \in Nat
    OBVIOUS
  <2> HIDE DEF T
  <2> QED BY <2>2, <2>3
<1> QED BY <1>6 DEF Max

\* The id of the next row is above every id in the table.
LEMMA NextIdIsFresh ==
  ASSUME NEW I, NEW id \in [I -> Nat], NEW n \in Nat, \A i \in I : id[i] <= n
  PROVE  LET next == 1 + Max({id[i] : i \in I} \cup {0})
         IN  next \in 1..(n + 1) /\ \A i \in I : id[i] < next
<1> DEFINE S == {id[i] : i \in I} \cup {0}
<1>1. S \in SUBSET Nat /\ S # {} /\ \A x \in S : x <= n
  OBVIOUS
<1>2. Max(S) \in S /\ \A x \in S : x <= Max(S)
  BY <1>1, LargestBelow
<1>3. \A i \in I : id[i] \in S
  OBVIOUS
<1>4. Max(S) \in Nat /\ Max(S) <= n
  BY <1>1, <1>2
<1> HIDE DEF S
<1>5. 1 + Max(S) \in 1..(n + 1)
  BY <1>4
<1>6. \A i \in I : id[i] < 1 + Max(S)
  BY <1>2, <1>3, <1>4
<1> QED BY <1>5, <1>6 DEF S
=============================================================================
