------------------------------- MODULE MCBridge -------------------------------
(* Bridge with interchangeable plain lights. *)
EXTENDS Bridge, TLC

Symmetry == Permutations(Lights)

=============================================================================
