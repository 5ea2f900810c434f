---------------------------- MODULE PathGrammar ----------------------------
(***************************************************************************)
(* Which paths each command accepts: path_parser.hpp, the path rules of    *)
(* grammars.hpp and the handlers of ast_handlers.hpp that reject a parsed  *)
(* path.                                                                   *)
(*                                                                         *)
(* The YANG schema is the set of its data paths with the kind of the node  *)
(* each of them names.  "entry" stands for a list instance and for an      *)
(* element of a leaf-list.                                                 *)
(***************************************************************************)
EXTENDS Paths

CONSTANTS
  Schema,   \* the paths of the schema's nodes, list keys included
  Kind,     \* what node each path of the schema names
  NoInput,  \* the RPCs and actions that have no input node
  Refused,  \* nodes the grammar takes and libyang refuses (a key's pattern, range...)
  Typed     \* the paths a user types

Inner == {"container", "presence", "entry"}
Kinds == Inner \cup {"leaf", "rpc"}

ASSUME SchemaAssumption ==
  /\ Schema \subseteq Seq(Node)
  /\ Root \notin Schema
  /\ \A path \in Schema : Len(path) > 1 => Front(path) \in Schema
  /\ Kind \in [Schema -> Kinds]
  /\ NoInput \subseteq {path \in Schema : Kind[path] = "rpc"}
  /\ Refused \subseteq Schema
ASSUME TypedAssumption == Typed \subseteq TypedPath

NodesOf(kinds) == {path \in Schema : Kind[path] \in kinds}

(***************************************************************************)
(* PathParser over NodeParser: the parser walks from the working directory *)
(* (absoluteStart moves it to the root).  At each node it offers the       *)
(* children the command's filter lets through, and "..", which is always   *)
(* in the table and leads to the root or to a node of the schema.          *)
(***************************************************************************)
Walks(cwd, typed, allowed) ==
  \A i \in DOMAIN typed.nodes :
    LET here == Canonical(cwd, [typed EXCEPT !.nodes = SubSeq(@, 1, i)])
    IN  here \in (IF typed.nodes[i] = Up THEN Schema \cup {Root} ELSE allowed)

\* The last node typed names a node of one of these kinds.
EndsAt(cwd, typed, kinds) ==
  /\ typed.nodes # Root
  /\ typed.nodes[Len(typed.nodes)] # Up
  /\ Canonical(cwd, typed) \in NodesOf(kinds)

AcceptsCd(cwd, typed) ==
  /\ Walks(cwd, typed, NodesOf(Inner))
  /\ Canonical(cwd, typed) \in Schema \cup {Root}

AcceptsGet(cwd, typed) ==
  /\ Walks(cwd, typed, NodesOf(Inner \cup {"leaf"}))
  /\ Canonical(cwd, typed) \in Schema \cup {Root}

\* writableLeafPath filters by isConfig, which is FALSE for an RPC's own node.
AcceptsSet(cwd, typed) ==
  /\ Walks(cwd, typed, NodesOf(Inner \cup {"leaf"}))
  /\ EndsAt(cwd, typed, {"leaf"})

\* move: a path to a list instance or to an element of a leaf-list.
AcceptsMove(cwd, typed) ==
  /\ Walks(cwd, typed, Schema)
  /\ EndsAt(cwd, typed, {"entry"})

\* create: the same, or a path that leads to a presence container, by ".." too.
AcceptsCreate(cwd, typed) ==
  \/ AcceptsMove(cwd, typed)
  \/ /\ typed.nodes # Root
     /\ Walks(cwd, typed, Schema)
     /\ Canonical(cwd, typed) \in NodesOf({"presence"})

AcceptsDelete(cwd, typed) ==
  \/ AcceptsCreate(cwd, typed)
  \/ AcceptsSet(cwd, typed)

AcceptsPrepare(cwd, typed) ==
  /\ Walks(cwd, typed, Schema)
  /\ EndsAt(cwd, typed, {"rpc"})

\* RpcActionPath<AllowInput::No> hides the RPCs that have input nodes.
AcceptsExec(cwd, typed) ==
  /\ Walks(cwd, typed, NodesOf(Inner \cup {"leaf"}) \cup NoInput)
  /\ EndsAt(cwd, typed, {"rpc"})

(***************************************************************************)
(* A working directory with ".." in it has no schema node: availableNodes  *)
(* dereferences an empty optional as soon as a relative path is parsed.    *)
(***************************************************************************)
ParsingIsUndefined(cwd, typed) == ~typed.abs /\ HasUp(cwd)

=============================================================================
