# netconf-cli in TLA+

This directory specifies and verifies netconf-cli: `cli.cpp` and what it is
linked with to become `netconf-cli`, `sysrepo-cli` or `yang-cli`. The modules
are translations of the C++ sources; `PROJECT.json` names, for every definition
that models code, the lines it stands for, and lists the runs, the mutations
each property is known to detect, the hazards and the theorems.

```
tlc -config CliSession.cfg MCCliSession     # a run: every run is listed below
tlapm CliSessionProofs.tla                  # the proofs of one module
```

## 1. The system

A user types commands at a prompt (`cli.cpp`). `Parser` turns a line into an
AST with a Boost.Spirit grammar that consults the YANG schema, and
`Interpreter` runs the command against a `ProxyDatastore`. That object sends
each call either to the real datastore (`NetconfAccess`, `SysrepoAccess` or
`YangAccess`) or, while the input of an RPC or action is being prepared, to a
temporary `YangAccess` that collects this input. In `netconf-cli` two more
threads exist: one sends keepalives on the NETCONF session, one waits for the
`ssh` child and ends the prompt when it exits.

| Component (sources) | State | Operations | What makes it correct |
|---|---|---|---|
| Console main loop (`cli.cpp`) | none of its own; the prompt shows the working directory | prompt, read, parse, run, report errors | a command that throws never ends the process |
| Command interpreter (`interpreter.cpp`) | `Parser::m_curDir` | the 18 commands | nothing outside of the RPC is touched while its input is prepared; `get -datastore` restores the target; `exec` and `cancel` leave the RPC |
| Proxy datastore (`proxy_datastore.cpp`) | `m_inputDatastore`, `m_inputPath` | initiate, execute, cancel, every datastore call | the server gets exactly the input that was entered for this RPC, and gets it once |
| Path algebra (`ast_path.cpp`, `utils.cpp`) | - | realPath, canonical paths, rendering | relative and absolute spellings name the same node |
| Grammar (`path_parser.hpp`, `grammars.hpp`, `ast_handlers.hpp`, `parser.cpp`) | one `ParserContext` per parse, shared by all rules | parseCommand | a path is accepted when it names a node the command can work on, each list with its keys |
| Completion (`completion.cpp`, `data_query.cpp`, `parser.cpp`) | suggestions and where they begin, in the same context | completeCommand | what is offered continues the line, and every instance can be reached by it |
| Leaf values (`leaf_data*.hpp`, `ast_values.cpp`) | the suggestions and the path in the same context | parse a value against its type | a value of the type is accepted and only such a value |
| Schema (`yang_schema.cpp`, `static_schema.cpp`) | the libyang context | find a node by its path, list the children of a node | every spelling of a path finds the node it names |
| In-memory datastore (`yang_access.cpp`) | `m_datastore`, a pointer into a libyang tree | create, set, delete, move, validate, copy | nothing entered falls out of the pointer's reach; moves reorder and nothing else |
| NETCONF backend (`netconf_access.cpp`) | `m_session`, `m_sessionMutex`, the keepalive, `m_serverHasNMDA`; on the server the candidate | requests, keepalive, destruction | one request at a time; no use after destruction; each edit lands in the datastore of the target |
| sysrepo backend (`sysrepo_access.cpp`) | the session with its current datastore and its edits of each | the same | the same |
| ssh transport (`cli-netconf.cpp`, `cli.cpp`) | the child, the watcher's thread, `backendReturnCode`, the emulated keys | connect, watch, leave | the process ends, and returns the child's exit code when the child ended it |
| Trees of results (`libyang_utils.cpp`, `printTree`) | - | lyNodesToTree, treeToRpcInput | what is printed or sent is what is in the tree |
| Python bindings, debug printers | - | - | not part of the command line |

### Interactions that are hard

* **State kept twice.** The working directory (nodes), the path of the RPC
  (nodes, compared as rendered strings) and the contents of the temporary
  datastore must agree; they are updated by different classes, in an order in
  which each step may throw.
* **Two readings of a path.** The check of a path during an input uses
  `realPath`, which keeps the `..` of an absolute path; the commands use
  `toCanonicalPath`, except `move`, which uses the path as typed.
* **A context shared by all rules of the parser.** Rules that fail leave what
  they wrote in it, and alternatives and second attempts go on with it.
* **Threads.** User requests, completions and keepalives share one session; the
  destructor must stop a thread that may be waiting for the timer, for the
  mutex or for the server; the watcher writes a code that the main loop reads.
* **Servers with a state.** A sysrepo session stays switched to the datastore of
  its latest request and keeps edits per datastore; a NETCONF candidate lives
  from the first edit to the commit.
* **Names with and without modules.** A path is kept as it was typed; the program,
  libyang and the server each complete it with a module in a way of their own.
* **Texts that stand for structure.** What belongs to a leaf-list or to an RPC is
  told by the beginning of a rendered path, and an input is sent as printed text.
* **A pointer into a tree.** Unlinking, moving and validating change which
  top-level node `m_datastore` must point to.

`PROJECT.json` lists 40 hazards of these kinds at the line where they bite, with
the properties that watch them, or the reason why none does.

## 2. The modules

```
PathNodes <- Paths <- PathGrammar <- CliSession <- CarefulSession   (console, interpreter, proxy)
    |                                    |               |  \--refines--> RpcInput
    |                             CliSessionProofs  CarefulSessionProofs
    \<- SchemaNodes <- SetCommand <- SetCommandProofs    (spelling of paths, cd and set)
         |      LeafValues <-/            |              (values of leaves)
         SchemaNodesProofs <--------------/
Keepalive <- NetconfConsole <- NetconfConsoleProofs      (threads of netconf-cli)
Backends <- BackendsProofs                               (datastores of the servers)
YangAccess <- YangAccessProofs                           (in-memory datastore)
ListKeys <- ListKeysProofs                               (keys of lists, completion)
ResultTree                                               (what is printed, what is sent)
```

`MC*` modules give the constants of a run.

### PathNodes, Paths, PathGrammar

A path is a sequence of nodes. `PushFragment`, `RealPath` and `Canonical` of
`PathNodes` are `pushFragment`, `realPath` and `toCanonicalPath`. In `Paths` a node
is the text `pathToDataString` prints for it. `StartsWith` is `starts_with` on two rendered
paths: all nodes of the prefix but its last must be equal, the last one may be
the beginning of a longer name (`TextStarts`). `TextLength` is the size of a
rendered path, which the prompt computes with.

`PathGrammar` says which typed paths each command accepts from which directory:
`Walks` is `PathParser` over `NodeParser` with the command's filter,
`EndsAt` the handlers that reject a parsed path. A node has a kind; `entry`
stands for a list instance and for an element of a leaf-list, `rpc` for RPCs and
actions. The schema is a constant, so every theorem is about every schema.

### CliSession

| Variable | Code |
|---|---|
| `status` | where the main loop is; `terminated` by an exception outside of the `try`, `undefined` after undefined behaviour |
| `cwd` | `Parser::m_curDir` |
| `inputPath`, `inputDs` | `ProxyDatastore::m_inputPath`, and the paths present in `m_inputDatastore` |
| `target` | `DatastoreAccess::m_target` |
| `query` | the `get` being run: its path, its `-datastore`, and the `oldTarget` its guard holds |
| `call` | the call to the backend made by the latest command, with its result |
| `entered` | history: what the user saw accepted since the input began |
| `chosen` | history: the target the user was given, or last switched to |

One action per command, with its guard from the grammar; commands that throw
leave what was assigned before the throw. `get` takes three steps, for its target
is another one while it asks: `BeginGet` makes the guard and sets the target of
`-datastore`, `GetItems` asks the backend or the temporary datastore, which answers
or throws, and `LeaveGet` is the guard's destructor, by which the scope is left
either way (`setTarget` is an assignment and cannot throw). No other command is read
in between. An edit of the input brings the parents `newPath`
creates (`Created`), which stay when the node is deleted; those above the RPC's own
node are created with it, cannot be touched during the input, and are left out. `PrepareThrows` and `ExecPathThrows`
are `initiate` failing after its two assignments: the node is one the grammar
takes and libyang refuses (`Refused`: a key's pattern or range), or there is no
temporary datastore (`HasTemporary = FALSE`, yang-cli), whose use is undefined.
`ls`, `describe` and `help` change no state and call no backend: they are
`NothingToDo`, as is a line that does not parse.

### RpcInput and CarefulSession

`RpcInput` is the promise of `ProxyDatastore`, in 80 lines and without paths as
strings, directories or failures: an input is begun, edited, abandoned, or sent
whole with its RPC; nothing changes on the server between.

`CarefulSession` is `CliSession` restricted to what does not meet the
divergences of section 5. Its assumptions say what a session must avoid for the
promise to hold:

* `ExactTexts`: no node's text is the beginning of another one;
* `CanonicalTyping`: no absolute path is typed with `..` in it;
* `NothingRefused`: every node the grammar takes, libyang takes, and the program
  has a temporary datastore;
* `exec <path>` is typed at the root, out of an input; no relative path is moved
  during an input.

These are restrictions on the user and the schema, not on the code: each is
there because a session that breaks it breaks the promise, and most of the runs
of section 5 show how. `CwdIsANode` (the directory is a node of the schema) holds
in these sessions and is stated as a theorem.

### Keepalive, NetconfConsole

`Keepalive` is `NetconfAccess` with `SessionKeepalive`: the thread that owns it
(`main`), the thread of the `io_context` (`worker`), the timer with its queued
handler, the mutex. The constructor starts the thread before it arms the timer,
as the order of the members has it. `NetconfConsole` puts it into `main()`: the
hello exchange, the loop on `backendReturnCode`, the emulated `^U ^K ^D`, and
the destruction of the locals in reverse order. boost::asio, replxx and ssh are
external, modelled from how they are used. The process started with `--socket`
has neither child nor watcher and is not modelled.

### Backends

The three kinds of server the user can be connected to: sysrepo, NETCONF with
and without NMDA; `Init` chooses one. A datastore is a function from leaves to
what they hold. `session` is the datastore the sysrepo session is switched to,
`edits` its pending edits of each datastore (a request that throws leaves the
session switched and the edits in place); `candidate` is the NETCONF candidate,
a copy of running from its first edit. `asked` remembers which edits wait for a
commit *where the help of `switch` says they go*, independently of where the
code put them. `copied` says that running was copied over under a candidate:
the later commit then restores what the candidate was taken from.

### YangAccess

`root` is `m_datastore`, `tops` the siblings it reaches in their order, `items`
the instances of a list nested in each entry of a top-level list. `Unlink` is
`impl_unlink` with its search for a sibling that is not of ietf-yang-library.
`given` remembers what was entered and not taken away. `NothingIsLost` says that all
of it is still reached; it does not say that what was removed is gone, which is not so
when `move` to an end has put an item beside one with the same key (section 5).

### ListKeys

The part of the parser with a state: `ctx` is `ParserContext` (`m_tmpListKeys`,
the key being typed, the error message, the suggestions and where they begin,
the current path); `rule`, `at` and `saveIter` are the rule that parses next and
the iterators of `NodeParser`. The schema is a chain of lists, each inside the
one before. A line is a sequence of tokens and is parsed anew, with a new
context, at every Tab and Enter. An expectation failure ends the parse; a
failing node is given back to `PathParser`, which in `DataPathListEnd` mode
(`get`) tries it again *in the context the first try left*. `Completions` is
what `completeCommand` makes of the context at the end of the parse, and the
user may take what is offered, or type any token. Half-typed tokens are left
out. `Writes(path)` says that the line is the text of a path: from the place where each
node begins (`Begins`) there are its name and, in brackets, each of its keys once.
`TextsAssumption` of `MCListKeys` has TLC compare it with `Texts`, which lists these
texts in all orders of the keys.

### SchemaNodes, LeafValues, SetCommand

`SchemaNodes` is how a path stands for a node of the schema. A node is the
sequence of its steps, each a module with a name; a fragment of a path has the
module that was typed, or none. `Always` completes a path with the module of its
first fragment, as `pathToSchemaString` does; `NodeAt` is libyang (external),
which takes the module of the node above. `NodeTable` is the table of names that
`NodeParser` builds for a directory, with `availableNodes` and `fullNodeName`;
`TableIsDefined` says that no empty optional is dereferenced in it.

`LeafValues` is `leaf_data.hpp`: one operator per type, `ReadLeafData` for a type
with its unions and references, `SuggestedValues` for what is left in the
context for Tab. A text is a sequence of pieces (words, numbers, marks, whole
paths), a reading says how many pieces were used and what was read. `IsValue` and
`IsWritten` are the reference: what YANG calls a value of the type. Decimals are
read without exponents, `inf` and `nan`.

| Variable of `SetCommand` | Code |
|---|---|
| `type` | the type of all leaves and keys, chosen once |
| `cwd` | `Parser::m_curDir` |
| `here` | history: the node of the schema the user went to |
| `parser` | what `PathParser` has made of the path of `set`, and the node this path means |
| `last` | the value typed or completed, what was handed to `setLeaf`, what Tab offered |

`cd` and `set` are typed with absolute and relative paths, with modules and
without; a list has one key, whose text is read by its type. Tab is not pressed
inside an instance-identifier, where it completes a path. The filter of a command
(`writableLeafPath` with `WritableOps`) is a set of schema nodes.

### ResultTree

A tree is the sequence of its nodes in document order; the text of a path is a
sequence of pieces, so that a name may begin with another name. `LyNodesToTree`
lists a tree with the headings of its leaf-lists, for the items `get` asks for
in the in-memory datastore (`FoundItems`), for a tree cut by a server
(`SelectedItems`), and for the output of an operation (`RpcOutputToTree`, whose
tree is that of the operation alone). `PrintTree` is `printTree`, and
`TreeToRpcInput` the request `exec` builds from the listed input. `input` is the
operation whose input is entered, `sent` the tree of the last request, `typed` a
history of the leaves as the user typed them. libyang's `newPath`, `findXPath`
and `childrenDfs` are external.

## 3. The runs

| Run | Instance | What it shows |
|---|---|---|
| `CliSession` | 15 schema nodes, 36 typed paths, 2 targets; 29 564 states | under any sequence of commands: what is sent was entered in this input; the input holds nothing whose text does not begin with the RPC's path; every request finds the target the user switched to, whatever `get -datastore` did before; asking the server ends the input |
| `CarefulSession` | the same schema with exact texts, no refused node, 32 paths; 5 024 states | careful sessions implement `RpcInput`; the directory stays inside the RPC; the prompt never fails; what is sent is everything that was entered |
| `NetconfConsole` | no constants: exhaustive; 9 343 states | mutual exclusion on the session, no use after destruction, threads end before `main`; requests return, keepalives go on, leaving ends, the child's exit is noticed and reported |
| `Backends` | sysrepo and NETCONF with NMDA, 2 leaves, 1 value; 37 095 states up to symmetry | a configuration changes only where `switch` says, by an edit that was made and not discarded, or by a copy; a commit publishes all that waits for it |
| `YangAccess` | 1 plain node, 3 entries, 2 items, 1 library node; 11 609 states up to symmetry | the pointer reaches the whole tree, nothing entered is lost, moves keep the order of the others and go where they say |
| `ListKeys` | lists with 2 and 1 keys of one name, 2 values, 6 instances, lines of 16 tokens; 283 096 states | a path is accepted exactly when each list has its keys once each; completing never leads to an instance that is not there, and leads to each that is; in data paths the messages are true |
| `SetCommand` | two modules, one augmenting the other with nodes of the same names, 19 types, 18 paths, 26 texts; 35 995 states | however it is spelled, a path is the node the user went to, for the program and for the server; Tab offers each writable child under one name; `set` reaches the leaf that was typed, with a value of its type; every other value is accepted, but for those a union loses; what Tab offers is accepted; absolute lines mean the same everywhere |
| `ResultTree` | 15 schema nodes, names that begin with each other, a value with a bracket; trees of about 5 nodes; 17 724 states | `get` lists every node it covers once and in order, and prints each under its name, but for the listings section 5 describes; an RPC's input is sent whole and in its order |

Each property of these runs comes with a mutation of a mapped definition, a
plausible bug in that code (in the modules under "A mistake to be caught"),
that makes TLC find the property violated.

### Bounds, and why they are enough

* `CliSession`: `MCCliSession` has one of everything the code distinguishes: an
  RPC with input and one without, actions under a list instance and under a
  container, an action with the name of a top-level RPC, a leaf in a list instance
  of an input (which is created with it and stays without it), a node whose text
  begins with an RPC's, a node libyang refuses, every kind of path (relative,
  with one or two `..`, absolute, absolute with `..`). The state has no
  counter: TLC covers sessions of every length.
* `Backends`: the code treats leaves and values alike; two leaves show an edit of
  one beside an untouched other, and present or absent is the smallest choice
  of content. Sessions of every length.
* `YangAccess`: three entries are needed for one to stand between two others in
  a move; a plain and a library node give siblings of other kinds; `MaxItems`
  bounds the items of all nested lists together.
* `ListKeys`: two levels with a key of the same name show whether keys of one
  list leak into the next; two keys show both orders and a key given twice.
  `MaxLine = 16` is one more than the longest path takes; the user does not go
  on typing after a token the parser has refused, which no continuation repairs.
* `SetCommand`: `MCTypeInfo` has a type of every base and the unions whose members
  read the beginnings of each other's values, `MCTexts` each kind of text these
  tell apart: the bounds of the integers, longer and shorter names, quotes,
  modules, spaces. The schema has, below the top, the same name in two modules
  beside each other and inside each other. A line starts from every directory, also
  from one whose first module is the augmenting one; sessions of every length.
* `ResultTree`: `MaxNodes = 5` bounds the nodes a tree has before one more is
  created, with the nodes above it. Two elements of a leaf-list, a node after
  them and another leaf-list are the smallest tree in which a heading begins,
  ends and begins again; there is room for an entry with its key and an action.
* `NetconfConsole`: nothing is bounded; the watcher presses three keys.

### Fairness

Only the two thread modules state fairness. Each thread is scheduled (weak
fairness); a thread that waits for the mutex gets it (strong fairness on the two
locks: a keepalive is sent once in a minute, requests come at a person's pace,
so the mutex is free again and again); an emulated key is taken (strong:
`input()` looks for one before each key it reads); a command ends (strong: it
makes finitely many requests). The child is obliged to exit only once the
session is closed. Nothing is assumed of the user, nor of the server: without
the child no request is answered. A keepalive that throws ends the process by
`std::terminate`, so the liveness properties name that outcome (`failed`).

## 4. What is proved

TLAPS checks the following for every value of the constants: every schema, every
set of typed paths, every set of leaves and values.

| Module | Theorem | Statement |
|---|---|---|
| `CliSessionProofs` | `SessionTypeOK`, `SessionSendsOnlyEntered`, `SessionInputHoldsOnlyItsRpc`, `SessionActsOnChosenTarget` | the four invariants of run `CliSession` |
| | `SessionAskingEndsInput` | its action property |
| | `SessionSettledDuringInput` | no commit, discard, copy or switch reaches the server during an input |
| `CarefulSessionProofs` | `CarefulCwdStaysInInput`, `CarefulNeverBroken`, `CarefulEverythingEnteredIsSent`, `CarefulInputHoldsOnlyNodesOfItsRpc`, `CarefulCwdIsANode` | the invariants that make the promise hold |
| | `CarefulImplementsPromise` | `CarefulSpec => Promise!Spec`: the refinement of `RpcInput` |
| `NetconfConsoleProofs` | `ConsoleOneRequestAtATime`, `ConsoleNobodyUsesADestroyedSession`, `ConsoleThreadsEndBeforeMain`, `ConsoleEmulatedEofReportsChild` | the safety properties of run `NetconfConsole`, with the reasons why they hold |
| `SchemaNodesProofs` | `SpellingsAreOneNode` | a path spelled from a node, in any way, is that node for `getSchemaNode` and for libyang |
| | `TableIsComplete`, `NamesLeadToChildren`, `NamesAreUnambiguous` | in a directory so spelled, `NodeParser` dereferences no empty optional, each name of its table leads to a path spelled from its child, and no name stands for two children |
| `SetCommandProofs` | `SetEverySpellingIsTheNode`, `SetOneNameForEachChild`, `SetTheTypedLeafIsSet` | these three invariants of run `SetCommand`, for every schema, type, set of typed paths and values, and for both `WritableOps` |
| | `SetOnlyValuesAreSet`, `SetAbsoluteLinesAreAbsolute` | what is handed to `setLeaf` is a value of the leaf's type; a line with an absolute path means the same everywhere (the exceptions, an identity without its module, are named in the properties) |
| `YangAccessProofs` | `DatastoreRootReachesTheTree`, `DatastoreNothingIsLost`, `DatastoreOrderIsKept` | the two invariants and the action property of run `YangAccess`, for every set of top-level nodes, entries and items, and every `MaxItems` |
| `ListKeysProofs` | `ListKeysTypeOK`, `ListKeysReadsWhatIsWritten`, `ListKeysMessageIsTrueOfDataPaths` | the parser of paths with keys accepts exactly the texts of paths, reads what they say, and complains of keys for a reason: for every chain of lists with finitely many keys, every line and every `MaxLine` |
| | `ListKeysSuggestedInstancesExist`, `ListKeysEveryInstanceIsOffered` | who only takes what Tab offers names instances that exist, and from every beginning of the path to an instance Tab goes on to it: the remaining invariants of run `ListKeys` |
| `BackendsProofs` | `BackendsTypeOK`, `BackendsOnlyAskedIsWritten`, `BackendsCommitPublishes` | the properties of run `Backends` (the last two where `"netconf"` is not in `Backend`: section 5 shows why) |

**CliSession.** The inductive invariant is
`IInv == TypeOK /\ ReadingIsQuiet /\ InputIsEntered /\ OnlyEnteredIsSent /\ InputHoldsOnlyItsRpc
/\ TargetIsChosen /\ ActsOnChosenTarget`.
`OnlyEnteredIsSent` alone is not inductive: when `exec` sends `inputDs`, one has
to know that `inputDs` is within `entered` (`InputIsEntered`), and since `call`
keeps the latest call, that a command starts with no call pending
(`ReadingIsQuiet`: the prompt has cleared it), or a later reset of `entered`
would falsify the property of an old call. `ActsOnChosenTarget` needs to know the
target at every prompt (`TargetIsChosen`): it is the chosen one, unless a `get` is
running; then its guard holds the chosen one, through the throw as well as the
answer, and so do the edits after it. The assumptions are those the modules
state of their constants (`UpAssumption`, `TextStartsAssumption`,
`SchemaAssumption`, `TypedAssumption`, `SessionAssumption`), which TLC evaluates
in every run. The preservation proof has one lemma per action.

**CarefulSession.** `CInv` adds `CwdIsANode`, `CwdStaysInInput`, `NeverBroken`,
`InputIsWhole` (the temporary datastore exists exactly during an input, and
holds the RPC's own node) and `EverythingEnteredIsSent`. They lean on each
other: that nothing entered goes to the server needs the typed path to be inside
the RPC, which for a relative path needs the directory to be inside it, which
holds because `exec` and `cancel` leave both together; and the equality of
`entered` and `inputDs` needs `InputIsWhole` for deletions. That the input holds only
nodes of its RPC is, with `ExactTexts`, what `SessionInputHoldsOnlyItsRpc` says of
texts. The refinement
follows step by step: each action, under `CInv` in both states, is a step of the
promise or leaves its variables alone.

**Backends.** `IInv == TypeOK /\ EditsAreAsked /\ CandidateIsAsked`: the
sysrepo session's edits of each datastore are exactly the ones asked for there,
and the candidate differs from running only by what was asked for, unless
running was copied over. Without these two a commit could publish anything.

**NetconfConsole.** `KInv` is about the session: the mutex is held by exactly the
thread that uses it, the keepalive's thread exists from the construction of its
owner, and it has left `run()` by the time it has been joined, which is before the
session is destroyed. It is preserved by each step of `Keepalive`, whether the
user's thread takes it or the keepalive's. `ConsoleInv` adds what the main loop
and the watcher know of each other: the loop joins the watcher only when the
session is gone, it leaves when the watcher is done, the watcher goes on from
waiting only when the child has exited and its code is stored, and no key is
emulated before. The last one is why the end of file reports the child's code.
Whether these threads ever get there is left to TLC.

**SchemaNodes, SetCommand.** `Spells(path, node)` says that each fragment of a path
was typed for a step of a node: with its module, or without it where that module is
the top-level node's. libyang finds such a node because between a fragment and the
nearest one before it that has a module all steps are of the top-level module; here
the assumption is needed that below a node of another module there is none of the
top-level module (`SchemaNodeAssumption`: an augmenting module imports what it
augments, and imports have no cycle). Completing the prefixes, as the program does,
gives another spelling of the same node, and so does pushing a name of the table or
`..`. The inductive invariant `SInv` says that the working directory is spelled from
the node the user went to, and that a parser which has read the path of `set` stands
at a writable leaf, whose path is what `realPath` and `toCanonicalPath` make of the
fragments read. That a function defined by recursion over a path exists, and what
holds of its values, is proved from the least index for which it would not
(`LeastExists`, from `WFMin` of the library): this needs no theorem that takes an
operator.

**The values of SetCommand.** `LineIsOfTheParser` keeps the line and the parser
together: what came of the line is what `SetResult` makes of it for the parser that is
still there. What is set was then read by a member of the type (`ReadByAMember`), and
`ReadFits` goes through the parsers: what each reads is a value of its member by the
rules of YANG. Two of them take work. `BitsAre`: the bits are read one after the other
from those not read yet, so they are distinct bits of the type. `BinaryIsValue`: what
was read is read again as a whole. For an identity without its module the front of the
parser's path is the first node as typed, when the path is absolute and was not reset.
`Alternatives` recurs over the members of unions and the targets of references, which
`PartsAssumption` (no type is a part of itself) makes well-founded: the function exists,
and lists at least one plain type (`AlternativesAre`), by the types that would be the
innermost exceptions.

**YangAccess.** `TInv == TypeOK /\ RootReachesTheTree /\ NothingIsLost`. The two depend
on each other through `Held`: what was given is at the top or an item of an entry that
is, so nothing is lost when the list of top-level nodes loses only what was taken away.
The lemmas are about sequences without repetitions: what inserting, removing and moving
an element do to the set of elements and to the order of any two others.

**ListKeys.** The invariant `KInv` adds to the properties what is behind the iterator
while a line is parsed (`Reads`): the nodes before the current one are written on the
line as `ctx.path` says, the keys of the current one as `keys` says, and the keys
remembered are those, or, when `get` tries a node again, some that were left by the first
try and include the first key of the node (`Carried`): this is why no retry succeeds with
half of the keys. That nothing is refused for no reason needs the other direction:
whatever path of the grammar the line is the text of, what was read so far is the
beginning of it (`PathIsFollowed`), since where the keys of a node begin and end on a
line depends on the line alone. The keys of a list are counted (`Cardinality`), hence the
assumption that there are finitely many.

`SuggestedInstancesExist` is about a whole dialogue, so `GInv == KInv /\ Guided` speaks
of what lies between two presses of Tab: whatever complete path, with the keys below it,
the line begins with (`KeysExist(line)`), there is an instance with these keys; and the
same of every line in `offered`. A value is only offered where one is expected, and then it
is that of an instance which the keys before it fit (`ValuesAreOfInstances`): this is
where `partialFitsComplete` is needed. Other suggestions hold no value and keep
`KeysExist` for this reason alone. That what is read of the offered line is what the
parser remembered when it made the offer rests on a lemma that a text has one reading
(`ContextIsTheSame`).

`EveryInstanceIsOffered` needs no history, but the other direction. `EInv` adds `OnTheWay`:
whenever the line is the beginning of the text of an instance's path (`Towards`), the parser
has read a beginning of that path and nothing else (`Way`), and at the end of the line the
suggestions go on with the text, or with the slash after it (`GoesOn`); and `Offers`, what
is left of it when the parse has ended. `Way` has to say when a node is parsed twice: a list
of `get` is tried again only if nothing but its name was typed, for the lines with more are
those the property leaves out (`MayEndInList`). The texts of a path are made with
`FlattenSeq` and every order of the keys; `PathTextIs` shows that each of them satisfies
`IsTextOf`, which says token by token where a node is written.

**Only model-checked.** Liveness (`ClosingEnds`, `CallsReturn`, `KeepalivesGoOn`,
`LeavingEnds`, `ChildExitIsNoticed`), which the prover does not do under fairness.
The properties of `ResultTree`: they compare listings that are folded from a tree, item by
item, with its nodes, so each needs an induction over both, and that texts of different
nodes differ depends on how the names of a schema are spelled, of which the model assumes
nothing. `EveryOtherValueIsSet` and
`OfferedValuesAreAccepted` hold of the types and texts of the run and not of all: what a
parser takes depends on where the next token begins, and `IsShadowed` names only what is
lost to another member of a union. For instance the value `+5er` of a union of an integer
and binary is lost to `+5`, which the integer reads though YANG does not write it so.

## 5. Where the code does not do what is said of it

Each of these is a run in which TLC finds the counterexample.

| Run | What happens |
|---|---|
| `ErrorsAreSurvived` | `prepare /mod:rpc`, then `exec /mod:other`: the command fails ("input already in progress") after it has moved to the root, and the next prompt cuts more characters off `/` than it has; `std::out_of_range` outside the `try` ends the process |
| `EditsStayInInput` | `prepare /mod:rpc`, then `create /mod:rpc/../mod:cont/item`: the check is made on the path as typed, which begins with the RPC's; the path handed over is the canonical one, and the item is created in the main datastore in the middle of the input |
| `KeepsSessionAlive` | the keepalive's thread may find its context without work before the timer is armed, and end |
| `IdentityIsCompleted` | `set leaf ident` on a relative path: the grammar takes the identity, then `set` looks for its module in the first node as typed, which has none, and the command fails with `bad optional access`; or it is completed with the module of an augmenting node |

Further divergences that the models contain, without a run of their own. About
commands and datastores:

* `exec reset` typed in a container is parsed there and executed at the root
  (`ExecAsksForTheTypedPath` of `CliSession`, which fails as a PROPERTY of its run);
* `move` with a relative path passes the check during an input and is sent to the
  main datastore, as the path it hands over does not begin with the RPC's. This is
  what `tests/interpreter.cpp` (491-495) expects, so it is no finding; but no
  promise of a separate input holds of it, and careful sessions leave it out;
* without NMDA, what is edited under the target startup is committed to running
  (with `Backend = {"netconf"}` the run `Backends` finds `OnlyAskedIsWritten`
  violated);
* `move` to an end puts an instance of a nested list into the list of another
  parent, where its key may already be (`EndOf` of `MoveItemToEnd`);
* a node named `fireplace` counts as inside an RPC named `fire`
  (`InputHoldsOnlyNodesOfItsRpc` fails in `CliSession`);
* `prepare` of a node libyang refuses leaves an input without
  its RPC's node, and `cd` to an absolute path with `..` a directory
  that is no node (`CwdIsANode`), from which the next parse dereferences an
  empty optional; `prepare` in yang-cli dereferences a null pointer;
* in sysrepo-cli `dump` and the completions of keys read the datastore of the
  previous request, not the target's;
* `get list[k=1]` with a key missing is refused because `k` "was entered more
  than once", and Tab after its bracket offers nothing: `listSuffix` forgets its
  keys only when it succeeds (`MessageIsTrue` fails in `DataPathListEnd` mode);
* an enum's own suggestions replace the values found in the datastore
  (`SuggestedInstancesExist` is stated for keys of other types);
* a relative `move` in `YangAccess` to an instance that is not there
  dereferences an empty optional (`MoveNextToNothing`).

About values (`SetCommand`, where `IsShadowed` names what is lost):

* a union keeps the first member that reads anything: `3.5` of a union of `uint8`
  and `decimal64` is read as `3` and refused for the rest of the line;
* the suggestions of one member of a union replace those of the members before
  it, and the bits not yet set are no longer offered once a space was typed;
* decimals are printed and sent with six digits after the point;
* an instance-identifier in a union resets the parser's path, so that a later
  identity is looked up in the module of the directory and, on an absolute path, set
  with that of the path (`IdentityAfterReset`): the
  server may be sent an identity that does not exist; in the type of a key it
  makes the parser ask for the keys of a list that no schema has, and an identity
  typed as the first thing at the root asks an empty path for its first node:
  both are undefined behaviour, where the model stops.

About what is printed and sent (`ResultTree`, where `Misleading` names them):

* a sibling whose name begins with the name of a leaf-list before it is printed as
  if it were an element, cut at its last bracket; when it has none, `erase`
  throws `std::out_of_range` and the listing ends;
* an element of a leaf-list with a bracket in its value is named by what stands
  before that bracket;
* a leaf of type empty in an RPC's input is printed as `[empty]`, which libyang
  refuses when the request is built: the RPC cannot be executed and its input is
  lost.

## 6. What is not modelled, and why

* Spelled variants of one node during an RPC's input: `SchemaNodes` has them, but
  in `CliSession` each node has one text, so that a node of the input typed with
  and without its module is one path there and would be two in the code's
  comparison.
* `leafValueFromNode`'s conversions type by type; quoting of keys; several keys
  of different types in one list; completions inside an instance-identifier.
* `YangAccess`: files and formats, the merge of several data files, `execute`
  (which always throws), the keys of lists.
* `WritableOps::Yes` of yang-cli is a constant of `SetCommand`, `FALSE` in its run (the
  properties hold with `TRUE` as well; the theorems are about both).
* Other clients of the same server.
* `AnyPath` of `ls` and `describe`, leaf-list elements and the arguments of
  `move` and `copy` in `ListKeys`; commands' own completions.
* Descriptions, units and defaults of schema nodes, `StaticSchema` (which only the
  tests use), Python bindings, debug printers, the history file.

## 7. Plan

1. **Done.** `Paths`, `PathGrammar`, `CliSession`, `RpcInput`, `CarefulSession`
   with their proofs: the separation of an RPC's input is the central promise of
   the program. `Keepalive`, `NetconfConsole` with their proofs: the only
   concurrency. `Backends`, `YangAccess` and `ListKeys` with their proofs.
   `SchemaNodes`, `LeafValues`, `SetCommand`: from a typed line to the node and
   the value, with proofs. `ResultTree`: from a data tree to what is printed and sent.
2. **Extend the models.** Spelled variants in `CliSession`, with the refinement of
   `RpcInput` under the assumption that one spelling is used; the `AnyPath` mode
   and leaf-list elements in `ListKeys`; data files and merging in `YangAccess`; a
   composition of `CliSession` with `YangAccess` as the temporary datastore.
3. **Prove more.** Done: `YangAccess`, the values of `SetCommand`, and all of `ListKeys`:
   what is read, and what is offered. Left: `ResultTree`: `EverythingIsListed`, by the
   least item at which the listing would differ.

No recursive operator is declared in a module that is proved about or planned to
be: recursion over paths is a recursive function (`PushAll`, `ParsePath`,
`TextLength`).
