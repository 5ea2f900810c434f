----------------------------- MODULE SetCommand -----------------------------
(***************************************************************************)
(* Moving around in the schema and setting leaves: the commands cd and     *)
(* set from the typed line to the datastore's setLeaf, and Tab on a value. *)
(*                                                                         *)
(* All the leaves have one type, chosen at the beginning, and so have the  *)
(* keys of the lists, which have one key each.                             *)
(***************************************************************************)
EXTENDS SchemaNodes, LeafValues, FiniteSets

CONSTANTS
  Key,           \* the name of the key of a list
  Typed,         \* the paths a user types, [abs, nodes]
  Texts,         \* the values a user types
  WritableOps    \* yang-cli sets config false data too

ASSUME UpIsAFragment ==
  /\ Up = Fragment(NoModule, "..", NoKey)
  /\ \A node \in SchemaNode : NameOf(node) # ".."  \* no YANG identifier
ASSUME SameNone == NoModule = Unprefixed /\ NoKey = << >>
ASSUME TypedAssumption ==
  /\ \A typed \in Typed :
       /\ typed.abs \in BOOLEAN
       /\ Len(typed.nodes) \in Nat /\ DOMAIN typed.nodes = 1 .. Len(typed.nodes)
       /\ typed.abs => ~HasUp(typed.nodes)
  /\ Texts \subseteq Seq(Piece)
ASSUME KeyAssumption ==
  \A node \in SchemaNode : Kind[node] = "list" =>
    Append(node, <<ModuleOf(node), Key>>) \in SchemaNode

VARIABLES
  type,     \* of the leaves
  cwd,      \* Parser::m_curDir
  here,     \* history: the schema node the user went to
  parser,   \* what the parser has made of the path of `set`
  last      \* what came of the line, the value included

vars == <<type, cwd, here, parser, last>>

\* A parser in a directory that stands for a node (history): the path it has come
\* to, the fragments it has read, and what the last of them is.
Parser(dir, node, abs) ==
  [status |-> "ok", abs |-> abs, dir |-> dir, path |-> IF abs THEN Root ELSE dir,
   node |-> IF abs THEN Root ELSE node, nodes |-> << >>, kind |-> "none"]
NoParser == [Parser(Root, Root, TRUE) EXCEPT !.status = "none"]

(***************************************************************************)
(* What came of `set`: "done" when the datastore was asked to set path to  *)
(* data, "refused" by the grammar, "error" for an exception after it, or   *)
(* "undefined" behaviour.                                                  *)
(***************************************************************************)
NoData == Data("none", Unprefixed, << >>)
Result(status, path, data) == [status |-> status, path |-> path, data |-> data]

Line(cmd, text, result, offered) ==
  [cmd |-> cmd, text |-> text, result |-> result, offered |-> offered]
NoLine == Line("none", << >>, Result("none", Root, NoData), {})

Init ==
  /\ type \in Type
  /\ cwd = Root
  /\ here = Root
  /\ parser = NoParser
  /\ last = NoLine

-----------------------------------------------------------------------------
(***************************************************************************)
(* The parser's path                                                       *)
(***************************************************************************)

\* m_nodes.front() of a path; there is none at the root.
FrontModule(path) == IF path = Root THEN NoModule ELSE path[1].prefix
\* A mistake to be caught: an identity is looked up in the directory's module.
ContextOfDir(p) == Context(FrontModule(p.dir), FrontModule(p.dir))

ContextOf(p) == Context(FrontModule(p.path), FrontModule(p.dir))

\* The element of a set that has one, or the default.
OnlyOf(set, default) == CHOOSE x \in (IF set = {} THEN {default} ELSE set) : TRUE

\* listSuffix with one key: its text, to the "]".  When leaf_data has reset the
\* path, suggestKeysEnd asks for the keys of a list that no schema has.
ListIsLost(p, location, module, text) ==
  \/ GetChildNode(location, module, Key) = NoNode
  \/ Resets(type, text, ContextOf(p))

KeyRead(readings, isLost, text) ==
  {IF isLost THEN Undefined ELSE r.data :
     r \in {r \in readings : isLost \/ r.data = Undefined \/ r.used = Len(text)}}

KeyData(p, entry, text) ==
  IF text = NoKey THEN {}
  ELSE KeyRead(ReadLeafData(type, text, ContextOf(p)),
               ListIsLost(p, Append(p.path, entry.typed), entry.typed.prefix, text), text)

PushNode(p, entry, key) ==
  LET fragment == [entry.typed EXCEPT !.key = key]
  IN  [p EXCEPT !.path = PushFragment(@, fragment), !.nodes = Append(@, fragment),
                !.node = entry.node, !.kind = entry.kind]

PushUp(p) ==
  [p EXCEPT !.path = PushFragment(@, Up), !.nodes = Append(@, Up),
            !.node = PushFragment(@, Up), !.kind = "none"]

Fails(p, status) == [p EXCEPT !.status = status]

\* NodeParser::parse, for the entry of the table that was typed.
PushInstance(p, entry, data) ==
  IF data = Undefined THEN Fails(p, "undefined") ELSE PushNode(p, entry, LeafDataToString(data))

ParseEntry(p, entry, key) ==
  CASE entry.kind = "list" ->
         OnlyOf({PushInstance(p, entry, data) : data \in KeyData(p, entry, key)}, Fails(p, "refused"))
    [] entry.kind # "list" /\ key = NoKey -> PushNode(p, entry, NoKey)
    [] entry.kind # "list" /\ key # NoKey -> Fails(p, "refused")

ParseNode(p, typed, allowed) ==
  IF ~TableIsDefined(p.path) THEN Fails(p, "undefined")
  ELSE IF typed = Up THEN PushUp(p)
  ELSE OnlyOf({ParseEntry(p, entry, typed.key) :
                 entry \in {e \in NodeTable(p.path, allowed) : e.typed = [typed EXCEPT !.key = NoKey]}},
              Fails(p, "refused"))

\* PathParser::parse: node after node, until one fails.
ParsePath(start, nodes, allowed) ==
  LET upTo[i \in 0 .. Len(nodes)] ==
        IF i = 0 THEN start
        ELSE IF upTo[i - 1].status = "ok" THEN ParseNode(upTo[i - 1], nodes[i], allowed)
        ELSE upTo[i - 1]
  IN  upTo[Len(nodes)]

CdFilter == {node \in SchemaNode : Kind[node] \notin {"rpc", "leaf"}}

\* A mistake to be caught: only the leaf at the end must be writable.
WritableLeavesOnly == {node \in SchemaNode : WritableOps \/ Kind[node] # "leaf" \/ node \in Config}

\* A mistake to be caught: it is the other tools that set config false data.
WritableWithoutOps == IF WritableOps THEN Config ELSE SchemaNode

\* writableLeafPath
WritableFilter == IF WritableOps THEN SchemaNode ELSE Config

-----------------------------------------------------------------------------
(***************************************************************************)
(* The commands                                                            *)
(***************************************************************************)
AtPrompt == parser = NoParser
ReadBy(p) == [abs |-> p.abs, nodes |-> p.nodes]

Cd(typed) ==
  /\ AtPrompt
  /\ \E parsed \in {ParsePath(Parser(cwd, here, typed.abs), typed.nodes, CdFilter)} :
       CASE parsed.status = "ok" ->
              /\ cwd' = RealPath(cwd, ReadBy(parsed))
              /\ here' = parsed.node
              /\ UNCHANGED parser
         [] parsed.status = "undefined" -> parser' = parsed /\ UNCHANGED <<cwd, here>>
         [] parsed.status = "refused" -> UNCHANGED <<cwd, here, parser>>
  /\ UNCHANGED <<type, last>>

\* set: writableLeafPath, and leaf_data looks up the leaf's type.
AtALeaf(parsed) ==
  IF parsed.status # "ok" THEN parsed
  ELSE IF parsed.kind # "leaf" THEN Fails(parsed, "refused")
  ELSE IF GetSchemaNode(parsed.path) = NoNode THEN Fails(parsed, "undefined")
  ELSE parsed

ParseLeafPath(start, nodes) == AtALeaf(ParsePath(start, nodes, WritableFilter))

TypePath(typed) ==
  /\ AtPrompt
  /\ parser' = ParseLeafPath(Parser(cwd, here, typed.abs), typed.nodes)
  /\ UNCHANGED <<type, cwd, here, last>>

\* A mistake to be caught: an identity without a module is handed over as it is.
NotCompleted(nodes, data) == {data}

\* Interpreter::operator()(set_): the module of an identity is that of the first
\* node as it was typed; .value() throws when that has none.
Completed(nodes, data) ==
  IF data.kind # "identityref" \/ data.prefix # Unprefixed THEN {data}
  ELSE IF nodes[1].prefix = NoModule THEN {}
  ELSE {[data EXCEPT !.prefix = nodes[1].prefix]}

\* space_separator > leaf_data, then -space_separator and the end of the line.
Accepts(read, text) ==
  read.data = Undefined \/ \A i \in read.used + 1 .. Len(text) : text[i] = Space

Outcome(nodes, path, data) ==
  IF data = Undefined THEN Result("undefined", path, NoData)
  ELSE OnlyOf({Result("done", path, sent) : sent \in Completed(nodes, data)}, Result("error", path, NoData))

SetTo(p, path, text) ==
  OnlyOf({Outcome(p.nodes, path, read.data) :
            read \in {r \in ReadLeafData(type, text, ContextOf(p)) : Accepts(r, text)}},
         Result("refused", path, NoData))

SetResult(p, text) == SetTo(p, Canonical(p.dir, ReadBy(p)), text)

Set(text) ==
  /\ parser.status = "ok" /\ last = NoLine
  /\ last' = Line("set", text, SetResult(parser, text), {})
  /\ UNCHANGED <<type, cwd, here, parser>>

\* Tab after the beginning of a value.  Completions inside an instance-identifier
\* are those of its path.
Tab(text) ==
  /\ parser.status = "ok" /\ last = NoLine
  /\ \A member \in ToSet(Alternatives[type]) : Base(member) # "instance-identifier"
  /\ last' = Line("tab", text, NoLine.result, SuggestedValues(type, text, ContextOf(parser)))
  /\ UNCHANGED <<type, cwd, here, parser>>

\* The line is done, or is refused; a line that is undefined has no next one.
Prompt ==
  /\ \/ parser.status = "refused"
     \/ last # NoLine /\ last.result.status # "undefined"
  /\ parser' = NoParser
  /\ last' = NoLine
  /\ UNCHANGED <<type, cwd, here>>

Next ==
  \/ \E typed \in Typed : Cd(typed) \/ TypePath(typed)
  \/ \E text \in Texts : Set(text) \/ Tab(text)
  \/ Prompt

Spec == Init /\ [][Next]_vars

-----------------------------------------------------------------------------
(***************************************************************************)
(* Properties                                                              *)
(***************************************************************************)
IsSet == last.cmd = "set" /\ last.result.status = "done"

(***************************************************************************)
(* Below the top level a node is typed with its module or without it, and  *)
(* stored as typed.  However the working directory is spelled, the program *)
(* (which completes it with its first module) and libyang and the server   *)
(* (with the module of the node above) find the node the user went to, and *)
(* every child of it by the name it is offered under.                      *)
(***************************************************************************)
EverySpellingIsTheNode ==
  /\ GetSchemaNode(cwd) = here
  /\ NodeAt(cwd) = here
  /\ TableIsDefined(cwd)

(***************************************************************************)
(* What Tab offers for the next node of `set` is, for each child that may  *)
(* be written and for no other, exactly one name, and typing it leads to   *)
(* that child; ls prints the same names.                                   *)
(***************************************************************************)
OneNameForEachChild ==
  LET offered == Suggested(cwd, WritableFilter)
      Child(name) == {entry.node : entry \in {e \in NodeTable(cwd, WritableFilter) : e.typed = name}}
  IN  AtPrompt =>
        /\ \A name \in offered : Cardinality(Child(name)) = 1
        /\ \A name, other \in offered : Child(name) = Child(other) => name = other
        /\ UNION {Child(name) : name \in offered} =
             {child \in Children[here] : ModuleOf(child) \notin Hidden /\ (WritableOps \/ child \in Config)}

\* set: the path handed to the datastore names the leaf the typed path led to,
\* whatever was spelled with a module, and it may be written.
TheTypedLeafIsSet ==
  IsSet =>
    /\ NodeAt(last.result.path) = parser.node
    /\ Kind[parser.node] = "leaf"
    /\ WritableOps \/ parser.node \in Config

\* A failed instance-identifier makes the parser look an identity up in the module
\* of the working directory.
IdentityAfterReset ==
  \E i \in DOMAIN Alternatives[type] :
    Base(Alternatives[type][i]) = "identityref" /\ ResetBefore(type, i)

\* leaf_data against what a YANG type allows: what is handed to the datastore is
\* a value of the leaf's type, through unions and references.  (An identity typed
\* without its module is looked up in one module and completed with another where the
\* path is relative, see IdentityIsCompleted, or was reset.)
OnlyValuesAreSet ==
  IsSet =>
    \/ IsOfType(type, LeafDataToString(last.result.data))
    \/ /\ last.result.data.kind = "identityref" /\ ModuleLength(last.text) = 0
       /\ ~parser.abs \/ IdentityAfterReset

\* A value of the leaf's type is refused only when it begins with a shorter value of
\* another member: a union keeps the first member that reads anything.
EveryOtherValueIsSet ==
  last.cmd = "set" /\ last.result.status = "refused" => IsShadowed(type, last.text)

\* Whatever Tab offers for a value is accepted by the grammar, unless it begins
\* with a shorter value of another member of the union.
OfferedValuesAreAccepted ==
  \A value \in last.offered :
    SetResult(parser, value).status \in {"done", "error"} \/ IsShadowed(type, value)

\* A line with an absolute path means the same wherever it is typed, but for an
\* identity after a failed instance-identifier.
AbsoluteLinesAreAbsolute ==
  last.cmd = "set" /\ parser.abs =>
    \/ last.result = SetResult([parser EXCEPT !.dir = Root], last.text)
    \/ IdentityAfterReset

\* "If the user didn't supply a module prefix for identityref, we need to add it
\* ourselves": an identity that was accepted is set with a module, and it is one of
\* those the type allows.
IdentityIsCompleted ==
  last.cmd = "set" /\ Base(type) = "identityref" =>
    /\ last.result.status # "error"
    /\ IsSet => IsOfType(type, LeafDataToString(last.result.data))

=============================================================================
