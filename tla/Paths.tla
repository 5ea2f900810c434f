------------------------------- MODULE Paths -------------------------------
(***************************************************************************)
(* The path algebra of the command line on rendered paths: ast_path.cpp.   *)
(*                                                                         *)
(* A path is the sequence of the texts of its nodes, each of them the text *)
(* pathToDataString prints for the node ("mod:cont", "item[key='1']", the  *)
(* name of an RPC).  ".." is the node Up.  What the program does with a    *)
(* path is done on two levels: pushFragment and realPath work on nodes,    *)
(* while the RPC restrictions, the proxy datastore and the prompt compare  *)
(* rendered strings.  Both levels are kept: TextStarts says which node     *)
(* texts start with which, TextLen how long each of them is.               *)
(***************************************************************************)
EXTENDS PathNodes

CONSTANTS
  Node,        \* the texts of the schema's data nodes
  TextStarts,  \* the pairs <<a, b>> such that the text a starts with the text b
  TextLen      \* how many characters a node's text has

ASSUME UpAssumption == Up \notin Node
ASSUME TextStartsAssumption ==
  /\ TextStarts \subseteq Node \X Node
  /\ \A n \in Node : <<n, n>> \in TextStarts
ASSUME TextLenAssumption ==
  /\ TextLen \in [Node \cup {Up} -> Nat \ {0}]
  /\ \A pair \in TextStarts : TextLen[pair[1]] >= TextLen[pair[2]]

\* A path as the user typed it: its scope and its nodes, ".." among them.
TypedPath == [abs : BOOLEAN, nodes : Seq(Node \cup {Up})]

\* A mistake to be caught: the last node of the prefix is not compared.
StartsWithParent(path, prefix) ==
  /\ Len(prefix) <= Len(path)
  /\ \A i \in 1 .. Len(prefix) - 1 : path[i] = prefix[i]

(***************************************************************************)
(* starts_with on the rendered strings of two absolute paths: all nodes of *)
(* the prefix but its last must be there literally, the last one may be    *)
(* the beginning of a longer name.                                         *)
(***************************************************************************)
StartsWith(path, prefix) ==
  /\ Len(prefix) <= Len(path)
  /\ \A i \in 1 .. Len(prefix) - 1 : path[i] = prefix[i]
  /\ prefix # Root => <<path[Len(prefix)], prefix[Len(prefix)]>> \in TextStarts

\* The size of the rendered string of an absolute path ("/" for the root).
TextLength(path) ==
  LET upTo[i \in 0 .. Len(path)] ==
        IF i = 0 THEN 0 ELSE upTo[i - 1] + 1 + TextLen[path[i]]
  IN  IF path = Root THEN 1 ELSE upTo[Len(path)]

=============================================================================
