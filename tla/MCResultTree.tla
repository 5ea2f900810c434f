---------------------------- MODULE MCResultTree ----------------------------
(***************************************************************************)
(* A leaf-list with siblings whose names begin with its name, a container  *)
(* with another leaf-list and a container with presence, a list with an    *)
(* action, and an RPC with leafs of three types and a leaf-list.           *)
(***************************************************************************)
EXTENDS ResultTree

CONSTANTS one, two, odd, empty, fine, coarse

Schema == <<
  <<"ll", None, "leaf-list", {one, two, odd}>>,
  <<"llx", None, "leaf", {one}>>,
  <<"llys", None, "leaf-list", {one}>>,
  <<"c", None, "container", {}>>,
  <<"p", "c", "presence", {}>>,
  <<"ll2", "c", "leaf-list", {one, two}>>,
  <<"list", None, "list", {one, two}>>,
  <<"k", "list", "key", {one, two}>>,
  <<"reset", "list", "operation", {}>>,
  <<"to", "reset", "leaf-list", {one, two}>>,
  <<"ping", None, "operation", {}>>,
  <<"quiet", "ping", "leaf", {empty}>>,
  <<"wait", "ping", "leaf", {fine, coarse}>>,
  <<"via", "ping", "container", {}>>,
  <<"hops", "via", "leaf-list", {one, two}>> >>

MCNames == [k \in DOMAIN Schema |-> Schema[k][1]]
Column(n) == [name \in ToSet(MCNames) |-> Schema[CHOOSE k \in DOMAIN Schema : Schema[k][1] = name][n]]
MCParentOf == Column(2)
MCKindOf == Column(3)
MCValuesOf == Column(4)

\* Names that begin with another, and a value with a bracket in it.
MCSpelling == [word \in ToSet(MCNames) \cup {one, two, odd} |->
  CASE word = "llx" -> <<"ll", "x">>
    [] word = "llys" -> <<"ll", "ys">>
    [] word = odd -> <<"o", "[", "d">>
    [] OTHER -> <<word>>]

=============================================================================
