------------------------------ MODULE MCRunner ------------------------------
(* Small instances of Runner for TLC. *)
EXTENDS Runner, TLC

\* Neither checks nor goroutines are told apart by anything but their name.
Symmetry == Permutations(Guids) \cup Permutations(Tasks)
=============================================================================
