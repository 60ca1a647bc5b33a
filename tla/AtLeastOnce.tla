---------------------------- MODULE AtLeastOnce ----------------------------
(***************************************************************************)
(* What the results pipeline promises, with no database, no batches and no *)
(* process in it: every result that was produced can be received by the    *)
(* server any number of times until it is acknowledged, and it is          *)
(* acknowledged (and so may be forgotten locally) only after it has been   *)
(* received.  Delivery is shown to implement this specification.           *)
(***************************************************************************)
CONSTANT Rows   \* identities of buffered results

VARIABLES
  produced,     \* results written to the local buffer
  received,     \* results the server holds
  acked         \* results the agent no longer feels responsible for

vars == <<produced, received, acked>>

Init ==
  /\ produced = {}
  /\ received = {}
  /\ acked = {}

Produce(r) ==
  /\ r \notin produced
  /\ produced' = produced \cup {r}
  /\ UNCHANGED <<received, acked>>

\* A result may be received again: the acknowledgement can get lost.
Receive(S) ==
  /\ S \subseteq produced \ acked
  /\ received' = received \cup S
  /\ UNCHANGED <<produced, acked>>

Acknowledge(S) ==
  /\ S \subseteq received
  /\ acked' = acked \cup S
  /\ UNCHANGED <<produced, received>>

Next ==
  \/ \E r \in Rows : Produce(r)
  \/ \E S \in SUBSET Rows : Receive(S) \/ Acknowledge(S)

Spec == Init /\ [][Next]_vars
=============================================================================
