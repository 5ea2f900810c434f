----------------------------- MODULE ResultTree -----------------------------
(***************************************************************************)
(* The lists of paths and values that a data tree is turned into: by get,  *)
(* which prints them, and by exec, which builds the request from those of  *)
(* the input (libyang_utils.cpp, printTree of interpreter.cpp).            *)
(*                                                                         *)
(* A tree is the sequence of its nodes in document order, a path the       *)
(* sequence of its steps, and the text of a path a sequence of pieces:     *)
(* what the code compares are texts, and a name may begin with another.    *)
(* External, modelled from how they are used: newPath with the Update      *)
(* option, findXPath, childrenDfs, DataNode::path.                         *)
(***************************************************************************)
EXTENDS Naturals, Sequences, SequencesExt, FiniteSets

CONSTANTS
  Names,     \* the nodes of the schema, in its order
  ParentOf,  \* the node above, None at the top
  KindOf,    \* "container", "presence", "list", "key", "leaf", "leaf-list", "operation"
  ValuesOf,  \* the values of a leaf or leaf-list, and of the key of a list
  Spelling,  \* the pieces of a name or value
  Empty,     \* the value of a leaf of type empty
  Fine,      \* a decimal with more than six digits after the point
  Coarse,    \* the same, rounded
  Bracketed, \* "[empty]"
  None,
  MaxNodes   \* a bound on the nodes of a tree

Name == ToSet(Names)

ASSUME SchemaAssumption ==
  /\ IsInjective(Names)
  /\ \A name \in Name : ParentOf[name] \in Name \cup {None}
  /\ MaxNodes \in Nat \ {0}

VARIABLES
  tree,   \* the tree of a datastore, or of an operation's input
  input,  \* the path of the operation whose input is entered, or None
  typed,  \* history: the value typed for each leaf of the input
  sent    \* the tree of the last request, None when there was none or it was refused

vars == <<tree, input, typed, sent>>

Init == tree = << >> /\ input = None /\ typed = {} /\ sent = None

-----------------------------------------------------------------------------
(***************************************************************************)
(* Paths and trees                                                         *)
(***************************************************************************)
Step(name, key) == [name |-> name, key |-> key]

NameOf(path) == Last(path).name
Kind(path) == KindOf[NameOf(path)]

\* The path of all instances of a list or leaf-list.
AllInstances(path) == Append(Front(path), Step(NameOf(path), None))

\* The key of a list is named in a predicate, as is the value of a leaf-list's element.
StepText(step) ==
  <<"/">> \o Spelling[step.name] \o IF step.key = None THEN << >> ELSE <<"[">> \o Spelling[step.key] \o <<"]">>

Text(path) == FoldLeft(LAMBDA text, step : text \o StepText(step), << >>, path)

Rank(name) == CHOOSE k \in DOMAIN Names : Names[k] = name

Paths(nodes) == {nodes[k].path : k \in DOMAIN nodes}

\* What stands before a new node: its parent, and below that the nodes the
\* schema has before it and the instances that are there already.
Precedes(path, new) ==
  /\ IsPrefix(Front(new), path)
  /\ Len(path) >= Len(new) => Rank(path[Len(new)].name) <= Rank(NameOf(new))

PlaceFor(nodes, new) ==
  1 + Max({0} \cup {k \in DOMAIN nodes : Precedes(nodes[k].path, new)})

\* A node that is there already takes the new value.
WithNode(nodes, path, value) ==
  IF path \in Paths(nodes)
  THEN [k \in DOMAIN nodes |-> IF nodes[k].path = path THEN [path |-> path, value |-> value] ELSE nodes[k]]
  ELSE InsertAt(nodes, PlaceFor(nodes, path), [path |-> path, value |-> value])

KeysOf(path) ==
  SelectSeq(Names, LAMBDA name : KindOf[name] = "key" /\ ParentOf[name] = NameOf(path))

\* An entry comes with its key.
WithAncestor(nodes, path) ==
  IF path \in Paths(nodes) THEN nodes
  ELSE FoldLeft(LAMBDA more, key : WithNode(more, Append(path, Step(key, None)), Last(path).key),
                WithNode(nodes, path, None), KeysOf(path))

HasValue(path) == Kind(path) \in {"leaf", "key", "leaf-list"}

\* newPath: the nodes above that are missing are created too.
NewPath(nodes, path, value) ==
  LET above == FoldLeft(LAMBDA more, k : WithAncestor(more, SubSeq(path, 1, k)),
                        nodes, [k \in 1 .. Len(path) - 1 |-> k])
  IN  IF HasValue(path) THEN WithNode(above, path, value) ELSE WithAncestor(above, path)

Without(nodes, path) == SelectSeq(nodes, LAMBDA node : ~IsPrefix(path, node.path))

-----------------------------------------------------------------------------
(***************************************************************************)
(* Values                                                                  *)
(***************************************************************************)

\* leafDataToString: doubles have six digits.
LeafDataToString(value) ==
  IF value = Empty THEN Bracketed ELSE IF value = Fine THEN Coarse ELSE value

\* setLeaf: a leaf of type empty is created without a value.
LyValue(value) == IF value = Empty THEN Empty ELSE LeafDataToString(value)

\* A leaf of type empty takes no text.
Refused(path, text) == Kind(path) = "leaf" /\ Empty \in ValuesOf[NameOf(path)] /\ text = Bracketed

-----------------------------------------------------------------------------
(***************************************************************************)
(* lyNodesToTree                                                           *)
(***************************************************************************)

\* stripXPathPrefix; << >> is no prefix. A prefix that is found anywhere counts.
StripXPathPrefix(text, ignored) ==
  IF \E k \in 0 .. Len(text) : IsPrefix(ignored, SubSeq(text, k + 1, Len(text)))
  THEN SubSeq(text, Len(ignored) + 1, Len(text)) ELSE text

\* An entry of a DatastoreAccess::Tree; path is what its text stands for.
Entry(path, ignored, value) == [path |-> path, text |-> StripXPathPrefix(Text(path), ignored), value |-> value]

\* impl_lyNodesToTree: containers without presence are not listed.
Listed(nodes, ignored) ==
  FoldLeft(LAMBDA entries, node :
             IF Kind(node.path) \in {"container", "operation"} THEN entries
             ELSE Append(entries, Entry(node.path, ignored,
                                        IF HasValue(node.path) THEN node.value ELSE Kind(node.path))),
           << >>, nodes)

\* childrenDfs
Subtree(nodes, path) == SelectSeq(nodes, LAMBDA node : IsPrefix(path, node.path))

Brackets(text) == {k \in DOMAIN text : text[k] = "["}

\* stripLeafListValueFromPath: what is before the last bracket, which may be one
\* in the value.
StripLeafListValue(text) == SubSeq(text, 1, Max(Brackets(text)) - 1)

\* special_{LeafList}
Header(path) ==
  [path |-> AllInstances(path), text |-> StripLeafListValue(Text(path)), value |-> "leaf-list"]
IsHeader(entry) == entry.value = "leaf-list"

IsBelow(heading, text) == heading # None /\ IsPrefix(heading, text)

\* A mistake to be caught: the header takes the place of the first element.
AddItemInPlace(listing, item, listed) ==
  IF IsBelow(listing.heading, Text(item)) THEN [listing EXCEPT !.entries = @ \o listed]
  ELSE IF Kind(item) = "leaf-list"
  THEN [entries |-> Append(listing.entries, Header(item)), heading |-> Header(item).text]
  ELSE [entries |-> listing.entries \o listed, heading |-> None]

(***************************************************************************)
(* Before the first element of a leaf-list goes the leaf-list itself; the  *)
(* items after it belong to it as long as their path begins with its path. *)
(***************************************************************************)
AddItem(listing, item, listed) ==
  IF IsBelow(listing.heading, Text(item)) THEN [listing EXCEPT !.entries = @ \o listed]
  ELSE IF Kind(item) = "leaf-list"
  THEN [entries |-> Append(listing.entries, Header(item)) \o listed, heading |-> Header(item).text]
  ELSE [entries |-> listing.entries \o listed, heading |-> None]

LyNodesToTree(nodes, items, ignored) ==
  FoldLeft(LAMBDA listing, item : AddItem(listing, item, Listed(Subtree(nodes, item), ignored)),
           [entries |-> << >>, heading |-> None], items).entries

PathsInOrder(nodes) == [k \in DOMAIN nodes |-> nodes[k].path]

TopLevel(nodes) == SelectSeq(PathsInOrder(nodes), LAMBDA path : Len(path) = 1)

Instances(nodes, target) ==
  SelectSeq(PathsInOrder(nodes), LAMBDA path : path = target \/ AllInstances(path) = target)

\* YangAccess::getItems, << >> for "/"
FoundItems(nodes, target) ==
  LyNodesToTree(nodes, IF target = << >> THEN TopLevel(nodes) ELSE Instances(nodes, target), << >>)

\* getItems of the other backends: what the server leaves of the tree, from the top.
SelectedItems(nodes, target) ==
  LET found == ToSet(Instances(nodes, target))
      selected == SelectSeq(nodes, LAMBDA node :
                    \E path \in found : IsPrefix(path, node.path) \/ IsPrefix(node.path, path)
                                        \/ (Kind(node.path) = "key" /\ IsStrictPrefix(Front(node.path), path)))
  IN  LyNodesToTree(selected, TopLevel(selected), << >>)

\* The output of an operation, named from the operation.
RpcOutputToTree(nodes, operation) ==
  LyNodesToTree(nodes, <<operation>>, Append(Text(operation), "/"))

-----------------------------------------------------------------------------
(***************************************************************************)
(* printTree                                                               *)
(***************************************************************************)
Line(text, value) == [text |-> text, value |-> value]

\* Without a bracket, erase throws.
PrintElement(output, entry) ==
  IF Brackets(entry.text) = {} THEN [output EXCEPT !.threw = TRUE]
  ELSE [output EXCEPT !.lines =
          Append(@, Line(StripLeafListValue(entry.text), LeafDataToString(entry.value)))]

PrintOther(output, entry) ==
  [output EXCEPT !.lines = Append(@, Line(entry.text, LeafDataToString(entry.value))),
                 !.heading = IF IsHeader(entry) THEN entry.text ELSE None]

\* A mistake to be caught: the inner loop steps over the entry that ends it.
PrintEntrySkipping(output, entry) ==
  IF output.threw THEN output
  ELSE IF IsBelow(output.heading, entry.text) THEN PrintElement(output, entry)
  ELSE IF output.heading = None THEN PrintOther(output, entry)
  ELSE [output EXCEPT !.heading = None]

\* Entries below the heading of a leaf-list are printed without what follows the
\* last bracket of their path.
PrintEntry(output, entry) ==
  IF output.threw THEN output
  ELSE IF IsBelow(output.heading, entry.text) THEN PrintElement(output, entry)
  ELSE PrintOther(output, entry)

PrintTree(entries) ==
  FoldLeft(LAMBDA output, entry : PrintEntry(output, entry),
           [lines |-> << >>, heading |-> None, threw |-> FALSE], entries)

-----------------------------------------------------------------------------
(***************************************************************************)
(* Operations                                                              *)
(***************************************************************************)

\* A mistake to be caught: no CreationOptions::Update, so that the key of an entry
\* is refused when its turn comes.
AddOnlyNew(request, entry) ==
  IF request = None \/ entry.path \in Paths(request) THEN None
  ELSE NewPath(request, entry.path, LeafDataToString(entry.value))

\* treeToRpcInput: the entries in their order.
AddToRequest(request, entry) ==
  IF request = None \/ Refused(entry.path, LeafDataToString(entry.value)) THEN None
  ELSE NewPath(request, entry.path, LeafDataToString(entry.value))

TreeToRpcInput(path, entries) == FoldLeft(AddToRequest, NewPath(<< >>, path, None), entries)

\* The steps a command can name below a node, and above them.
Below(path) ==
  {Append(path, Step(name, key)) :
     name \in {n \in Name : ParentOf[n] = (IF path = << >> THEN None ELSE NameOf(path))},
     key \in UNION {ValuesOf[n] : n \in Name} \cup {None}}

Typed(path) ==
  LET name == NameOf(path)
  IN  IF KindOf[name] \in {"list", "leaf-list"} THEN Last(path).key \in ValuesOf[name]
      ELSE Last(path).key = None

\* The paths one step below the nodes of the tree, and below containers that
\* will be there as soon as something is in them.
Containers(places) == {path \in UNION {Below(above) : above \in places} : Typed(path) /\ Kind(path) = "container"}
Places(nodes) == nodes \cup Containers(nodes)
Reachable ==
  {path \in UNION {Below(above) : above \in Places(Paths(tree) \cup {<< >>})} : Typed(path)}

InInput(path) == IF input = None THEN Kind(path) # "operation" ELSE IsPrefix(input, path) /\ path # input

\* set, create: setLeaf and createItem
SetLeaf(path, value) ==
  /\ Kind(path) = "leaf" /\ value \in ValuesOf[NameOf(path)]
  /\ tree' = NewPath(tree, path, LyValue(value))
  /\ typed' = {old \in typed : old[1] # path} \cup {<<path, value>>}
  /\ UNCHANGED <<input, sent>>

CreateItem(path) ==
  /\ Kind(path) \in {"list", "leaf-list", "presence"}
  /\ tree' = NewPath(tree, path, Last(path).key)
  /\ UNCHANGED <<input, typed, sent>>

\* delete
DeleteItem(path) ==
  /\ path \in Paths(tree) /\ Kind(path) \notin {"key", "container"}
  /\ tree' = Without(tree, path)
  /\ typed' = {old \in typed : ~IsPrefix(path, old[1])}
  /\ UNCHANGED <<input, sent>>

\* prepare: a temporary datastore with the path of the operation; what the
\* tree was before is of no interest here.
Initiate(path) ==
  /\ input = None /\ Kind(path) = "operation"
  /\ tree' = NewPath(<< >>, path, None)
  /\ input' = path
  /\ typed' = {}
  /\ UNCHANGED sent

\* exec: the input is gone, whether the request was built or refused.
Execute ==
  /\ input # None
  /\ sent' = TreeToRpcInput(input, FoundItems(tree, << >>))
  /\ tree' = << >> /\ input' = None /\ typed' = {}

Next ==
  \/ \E path \in {p \in Reachable : InInput(p)} :
       /\ Len(tree) < MaxNodes
       /\ \/ CreateItem(path)
          \/ \E value \in ValuesOf[NameOf(path)] : SetLeaf(path, value)
  \/ \E path \in {p \in Paths(tree) : InInput(p)} : DeleteItem(path)
  \/ \E path \in Reachable : Initiate(path)
  \/ Execute

Spec == Init /\ [][Next]_vars

-----------------------------------------------------------------------------
(***************************************************************************)
(* Properties                                                              *)
(***************************************************************************)

\* What get can ask for: "/", a node, all instances of a list or leaf-list.
Targets == {<< >>} \cup Paths(tree) \cup {AllInstances(path) : path \in Paths(tree)}

InScope(target) ==
  IF target = << >> THEN tree
  ELSE SelectSeq(tree, LAMBDA node : \E path \in ToSet(Instances(tree, target)) : IsPrefix(path, node.path))

\* lyNodesToTree: whatever get asks for, every node of the tree that it covers is
\* listed, in the order of the tree, and nothing is listed twice, leaf-lists whose
\* headings swallow the nodes after them included.
EverythingIsListed ==
  \A target \in Targets : \A entries \in {FoundItems(tree, target)} :
    /\ SelectSeq(entries, LAMBDA entry : ~IsHeader(entry)) = Listed(InScope(target), << >>)
    /\ \A j, k \in DOMAIN entries : entries[j].text = entries[k].text => j = k

\* A heading with a node after it that is not of this leaf-list, though its path
\* begins with the heading: a sibling with a longer name.  Or an element whose value
\* has a bracket.
Misleading(entries) ==
  \E j, k \in DOMAIN entries :
    /\ j < k /\ IsHeader(entries[j])
    /\ IsPrefix(entries[j].text, entries[k].text)
    /\ \/ AllInstances(entries[k].path) # entries[j].path
       \/ Cardinality(Brackets(entries[k].text)) > 1

\* An element below its heading is named like the heading, all else by its path.
PathOf(entry, entries) ==
  IF \E k \in DOMAIN entries : IsHeader(entries[k]) /\ entries[k].path = AllInstances(entry.path)
  THEN AllInstances(entry.path) ELSE entry.path

IsPrinted(entries, above) ==
  \A lines \in {PrintTree(entries).lines} :
    /\ Len(lines) = Len(entries)
    /\ \A k \in DOMAIN lines :
         /\ above \o lines[k].text = Text(PathOf(entries[k], entries))
         /\ lines[k].value = LeafDataToString(entries[k].value)

\* printTree: every entry has its line, which names the node and says its value,
\* whichever backend it is from, and in what an operation answers, named from the
\* operation; only elements with a bracket in their value, and siblings whose names
\* begin with that of a leaf-list, are printed under a wrong name, or end the listing
\* with an exception.
EveryLineIsPrinted ==
  /\ \A target \in Targets : \A entries \in {FoundItems(tree, target), SelectedItems(tree, target)} :
       Misleading(entries) \/ IsPrinted(entries, << >>)
  /\ input # None => IsPrinted(RpcOutputToTree(tree, input), Append(Text(input), "/"))

WithoutContainers(nodes) == SelectSeq(nodes, LAMBDA node : Kind(node.path) # "container")

\* ProxyDatastore::execute, treeToRpcInput: the request holds what was entered, in
\* the order it was entered in, and every leaf as it was typed up to the sixth
\* decimal; with a leaf of type empty there is no request.
InputIsSentWhole ==
  [][Execute =>
       IF \E leaf \in typed : leaf[2] = Empty THEN sent' = None
       ELSE /\ sent' # None
            /\ WithoutContainers(sent') = WithoutContainers(tree)
            /\ \A leaf \in typed :
                 [path |-> leaf[1], value |-> IF leaf[2] = Fine THEN Coarse ELSE leaf[2]] \in ToSet(sent')]_vars

=============================================================================
