----------------------------- MODULE MCSchedule -----------------------------
(* Small instances of Schedule for TLC. *)
EXTENDS Schedule

\* Every small rotation, and a check without a grid.
SmallAssignments == {<<-1, 1>>} \cup (1..3) \X (0..3)
=============================================================================
