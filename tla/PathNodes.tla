----------------------------- MODULE PathNodes -----------------------------
(***************************************************************************)
(* Paths as sequences of nodes: the part of ast_path.cpp that does not     *)
(* render them.  ".." is the node Up; what else a node is, is left to the  *)
(* modules that extend this one.                                           *)
(***************************************************************************)
EXTENDS Naturals, Sequences, SequencesExt

CONSTANT Up  \* the node ".."

Root == << >>

(***************************************************************************)
(* pushFragment: ".." drops the last node (and is allowed at the root), any *)
(* other node is appended.                                                 *)
(***************************************************************************)
PushFragment(where, what) ==
  IF what # Up THEN Append(where, what)
  ELSE IF where = Root THEN where ELSE Front(where)

PushAll(where, nodes) ==
  LET upTo[i \in 0 .. Len(nodes)] ==
        IF i = 0 THEN where ELSE PushFragment(upTo[i - 1], nodes[i])
  IN  upTo[Len(nodes)]

(***************************************************************************)
(* realPath: an absolute path is returned as it was typed, with its ".."   *)
(* nodes in it; a relative one is pushed onto the working directory.       *)
(***************************************************************************)
RealPath(cwd, typed) ==
  IF typed.abs THEN typed.nodes ELSE PushAll(cwd, typed.nodes)

(***************************************************************************)
(* Interpreter::toCanonicalPath: both kinds of path are pushed node by     *)
(* node, an absolute one onto the root.                                    *)
(***************************************************************************)
Canonical(cwd, typed) == PushAll(IF typed.abs THEN Root ELSE cwd, typed.nodes)

HasUp(path) == \E i \in DOMAIN path : path[i] = Up

=============================================================================
