---------------------------- MODULE SchemaNodes ----------------------------
(***************************************************************************)
(* How a path stored with or without module names stands for a node of the *)
(* YANG schema: YangSchema, the rendering of paths in ast_path.cpp and     *)
(* utils.cpp, and the table of children NodeParser builds.                 *)
(*                                                                         *)
(* A schema node is the sequence of the steps <<module, name>> that lead   *)
(* to it from the top.  A fragment of a path has the module the user typed *)
(* (or NoModule), a name and, for an instance of a list, the value of its  *)
(* key.  The program completes a fragment that has no module with that of  *)
(* the path's first fragment; libyang, in the program and in the server,   *)
(* with that of the node above (external).                                 *)
(***************************************************************************)
EXTENDS PathNodes, FiniteSetsExt

CONSTANTS
  SchemaNode,  \* the nodes of the schema
  Kind,        \* what each of them is
  Config,      \* those that are configuration
  Hidden,      \* modules availableNodes skips: ietf-yang-library, ietf-yang-schema-mount
  NoModule,    \* boost::none
  NoKey,       \* no key in a fragment
  NoNode       \* std::nullopt

ModuleOf(node) == Last(node)[1]
NameOf(node) == Last(node)[2]
Children == [node \in SchemaNode \cup {Root} |-> {child \in SchemaNode : Front(child) = node}]
Kinds == {"container", "presence", "list", "leaf", "rpc"}

(***************************************************************************)
(* A YANG module that augments another one imports it, and imports have no *)
(* cycle: below a node of another module there is no node of the top-level *)
(* module.  A node is nothing but its steps, so siblings of one module     *)
(* have different names.                                                   *)
(***************************************************************************)
ASSUME SchemaNodeAssumption ==
  /\ \A node \in SchemaNode :
       /\ node # Root
       /\ Len(node) > 1 => Front(node) \in SchemaNode
       /\ \A i \in DOMAIN node :
            node[i][1] = node[1][1] => \A j \in 1 .. i : node[j][1] = node[1][1]
       /\ Len(node) \in Nat
       /\ node = [i \in 1 .. Len(node) |-> <<node[i][1], node[i][2]>>]
       /\ \A i \in DOMAIN node : node[i][1] # NoModule
  /\ Root \notin SchemaNode /\ NoNode \notin SchemaNode \cup {Root}
  /\ Kind \in [SchemaNode -> Kinds]
  /\ Config \subseteq SchemaNode

Fragment(module, name, key) == [prefix |-> module, name |-> name, key |-> key]

-----------------------------------------------------------------------------
(***************************************************************************)
(* Rendering                                                               *)
(***************************************************************************)

\* pathToSchemaString and pathToDataString with Prefixes::Always.
Always(path) ==
  [i \in DOMAIN path |->
     IF path[i].prefix = NoModule THEN [path[i] EXCEPT !.prefix = path[1].prefix] ELSE path[i]]

\* fullNodeName: a node of the location, by the same rule.
FullName(location, module, name) ==
  Fragment(IF module = NoModule THEN location[1].prefix ELSE module, name, NoKey)

(***************************************************************************)
(* External: Context::findPath, and a server that gets the path.  A step   *)
(* without a module is in the module of the step before it.                *)
(***************************************************************************)
NodeAt(path) ==
  LET Nearest(i) == Max({j \in 1 .. i : path[j].prefix # NoModule})
      steps == [i \in DOMAIN path |-> <<path[Nearest(i)].prefix, path[i].name>>]
  IN  IF \E i \in DOMAIN path : \A j \in 1 .. i : path[j].prefix = NoModule THEN NoNode
      ELSE IF steps \in SchemaNode \cup {Root} THEN steps ELSE NoNode

\* getSchemaNode(schemaPath) and getSchemaNode(location, node)
GetSchemaNode(path) == NodeAt(Always(path))
GetChildNode(location, module, name) ==
  NodeAt(Append(Always(location), FullName(location, module, name)))

-----------------------------------------------------------------------------
(***************************************************************************)
(* The table of NodeParser                                                 *)
(***************************************************************************)

\* A mistake to be caught: a module is left out when it is that of the node above.
PrefixOfParents(location, child) ==
  IF location = Root \/ (Len(child) > 1 /\ ModuleOf(Front(child)) # ModuleOf(child))
  THEN ModuleOf(child) ELSE NoModule

\* availableNodes: the module is left out when it is that of the path's first node.
PrefixOf(location, child) ==
  IF location = Root \/ location[1].prefix # ModuleOf(child) THEN ModuleOf(child) ELSE NoModule

AvailableNodes(location) ==
  {child \in Children[GetSchemaNode(location)] : ModuleOf(child) \notin Hidden}

\* One child under the name that is suggested for it, and with the top-level
\* module too when that name has none.
Spellings(location, child) ==
  LET prefix == PrefixOf(location, child)
      modules == {prefix} \cup (IF prefix = NoModule THEN {location[1].prefix} ELSE {})
  IN  {[typed |-> Fragment(module, NameOf(child), NoKey),
        node |-> child,
        kind |-> Kind[GetChildNode(location, prefix, NameOf(child))]] : module \in modules}

\* What the command's filter is asked about a child; it allows some of the nodes.
Filtered(location, child) ==
  NodeAt(Append(Always(location), Fragment(PrefixOf(location, child), NameOf(child), NoKey)))

NodeTable(location, allowed) ==
  UNION {Spellings(location, child) :
           child \in {child \in AvailableNodes(location) : Filtered(location, child) \in allowed}}

\* Every node asked for is there; otherwise an empty optional is dereferenced.
TableIsDefined(location) ==
  /\ GetSchemaNode(location) # NoNode
  /\ \A child \in AvailableNodes(location) :
       /\ Filtered(location, child) # NoNode
       /\ GetChildNode(location, PrefixOf(location, child), NameOf(child)) # NoNode

\* m_suggestions, of the nodes
Suggested(location, allowed) ==
  {Fragment(PrefixOf(location, child), NameOf(child), NoKey) :
     child \in {child \in AvailableNodes(location) : Filtered(location, child) \in allowed}}

=============================================================================
