----------------------------- MODULE MCBackends -----------------------------
(***************************************************************************)
(* The backends with two leaves that are set or are not.                   *)
(***************************************************************************)
EXTENDS Backends, TLC

Symmetry == Permutations(Leaf)

=============================================================================
