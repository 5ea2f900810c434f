---------------------------- MODULE MCYangAccess ----------------------------
(***************************************************************************)
(* The in-memory datastore with a few nodes of each kind.                  *)
(***************************************************************************)
EXTENDS YangAccess

Symmetry == Permutations(Entry) \cup Permutations(Item)

=============================================================================
