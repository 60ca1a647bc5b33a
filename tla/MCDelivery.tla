----------------------------- MODULE MCDelivery -----------------------------
(* Small instances of Delivery for TLC. *)
EXTENDS Delivery, TLC

\* Neither checks nor goroutines are told apart by anything but their name.
Symmetry == Permutations(Guids) \cup Permutations(Writers)
=============================================================================
