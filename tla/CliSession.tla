----------------------------- MODULE CliSession -----------------------------
(***************************************************************************)
(* One session of the command line: the main loop of cli.cpp, the working  *)
(* directory kept by Parser, the commands of Interpreter, and              *)
(* ProxyDatastore, which sends each of them either to the backend or to    *)
(* the temporary datastore that collects the input of an RPC or action.    *)
(*                                                                         *)
(* The backend is seen through the calls that reach it (call); what each   *)
(* backend does with them is the subject of other modules.                 *)
(***************************************************************************)
EXTENDS PathGrammar, FiniteSets

CONSTANTS
  Targets,        \* DatastoreTarget
  HasTemporary,   \* FALSE in yang-cli, whose createTemporaryDatastore returns nullptr
  None,           \* std::nullopt
  NoStore         \* m_inputDatastore == nullptr

\* Everything inputPath can be: a node of the schema, or what `exec` makes of
\* a relative path once it has left the working directory.
InputPaths == Schema \cup {Canonical(Root, typed) : typed \in Typed}

ASSUME SessionAssumption ==
  /\ HasTemporary \in BOOLEAN
  /\ None \notin InputPaths \cup Targets
  /\ \A paths \in SUBSET Schema : NoStore # paths

VARIABLES
  status,     \* where the main loop is
  cwd,        \* Parser::m_curDir
  inputPath,  \* ProxyDatastore::m_inputPath
  inputDs,    \* ProxyDatastore::m_inputDatastore: the paths present in it
  target,     \* DatastoreAccess::m_target of the backend
  query,      \* the `get` being run: its path, its -datastore, the oldTarget of its guard
  call,       \* the call to the backend made by the latest command
  entered,    \* history: what the user saw accepted since the input began
  chosen      \* history: the target the user was given or last switched to

vars == <<status, cwd, inputPath, inputDs, target, query, call, entered, chosen>>

NoCall == [op |-> "none", path |-> None, data |-> {}, ds |-> None, ok |-> TRUE]

\* Paths are handed to the backend as strings: an absolute one, or a relative one.
Absolute(nodes) == [abs |-> TRUE, nodes |-> nodes]

Init ==
  /\ status = "prompt"
  /\ cwd = Root
  /\ inputPath = None
  /\ inputDs = NoStore
  /\ target \in Targets
  /\ query = None
  /\ call = NoCall
  /\ entered = {}
  /\ chosen = target

-----------------------------------------------------------------------------
(***************************************************************************)
(* The main loop.  The prompt strips the RPC's path from the directory     *)
(* with fullContextPath.substr(rpcPrefixLength), outside the try block: if *)
(* the directory is the shorter string, std::out_of_range ends the         *)
(* process.                                                                *)
(***************************************************************************)

\* The first disjunct implies the second.
PromptFits == \/ StartsWith(cwd, inputPath)
              \/ TextLength(cwd) >= TextLength(inputPath)

Prompt ==
  /\ status = "prompt"
  /\ status' = IF inputPath = None \/ PromptFits THEN "reading" ELSE "terminated"
  /\ call' = NoCall
  /\ entered' = IF inputPath = None THEN {} ELSE entered
  /\ UNCHANGED <<cwd, inputPath, inputDs, target, query, chosen>>

\* A command that threw: the message is printed and the loop goes on.
Fails ==
  /\ status' = "prompt"
  /\ UNCHANGED <<inputPath, inputDs, target, call, entered, query, chosen>>

\* A blank line, an interrupted one, and a line the grammar refuses.
NothingToDo == status = "reading" /\ Fails /\ UNCHANGED cwd

\* `quit`, and end of file.
Quit ==
  /\ status = "reading"
  /\ status' = "ended"
  /\ UNCHANGED <<cwd, inputPath, inputDs, target, call, entered, query, chosen>>

\* A command that calls the backend, which may succeed or throw.
Calls(op, path, data, ds) ==
  /\ status' = "prompt"
  /\ \E ok \in BOOLEAN :
       call' = [op |-> op, path |-> path, data |-> data, ds |-> ds, ok |-> ok]

(***************************************************************************)
(* Parsing from a directory that is no node of the schema.                 *)
(***************************************************************************)
ParseFromNowhere(typed) ==
  /\ status = "reading"
  /\ ParsingIsUndefined(cwd, typed)
  /\ status' \in {"prompt", "undefined"}
  /\ UNCHANGED <<cwd, inputPath, inputDs, target, call, entered, query, chosen>>

\* Parsing from a node of the schema, or from the root.
Reads(typed) == status = "reading" /\ ~ParsingIsUndefined(cwd, typed)

-----------------------------------------------------------------------------
(***************************************************************************)
(* ProxyDatastore                                                          *)
(***************************************************************************)

\* A mistake to be caught: every edit made during an input goes to the input.
InsideAnything(nodes) == inputDs # NoStore

\* A mistake to be caught: the arguments of starts_with are swapped.
InsideSwapped(nodes) == inputDs # NoStore /\ StartsWith(inputPath, nodes)

\* pickDatastore: does the path go to the temporary datastore?
Inside(nodes) == inputDs # NoStore /\ StartsWith(nodes, inputPath)

\* A mistake to be caught: only absolute paths are checked.
BlockedIfAbsolute(typed) ==
  inputPath # None /\ typed.abs /\ ~StartsWith(typed.nodes, inputPath)

\* enforceRpcRestrictions for the commands that take a path.
Blocked(typed) ==
  inputPath # None /\ ~StartsWith(RealPath(cwd, typed), inputPath)

\* m_datastore calls: nothing changes but what the backend is asked.
Backend(op, path, data, ds) ==
  /\ Calls(op, path, data, ds)
  /\ UNCHANGED <<inputPath, inputDs, target, entered, query, chosen>>

\* A mistake to be caught: a node whose value is refused stays in the tree.
AddsBeforeThrowing(op, nodes) ==
  \/ /\ Inside(nodes)
     /\ inputDs' = inputDs \cup {nodes}
     /\ entered' \in {entered, entered \cup {nodes}}
     /\ status' = "prompt"
     /\ UNCHANGED <<inputPath, target, call, query, chosen>>
  \/ /\ ~Inside(nodes)
     /\ Calls(op, Absolute(nodes), {}, target)
     /\ UNCHANGED <<inputPath, inputDs, target, entered, query, chosen>>

\* What newPath adds for a path: its node and the parents that are missing.  Those
\* above the RPC's own node are there from the start, and are not written down.
Created(nodes) ==
  {nodes} \cup {path \in Schema : IsPrefix(path, nodes) /\ StartsWith(path, inputPath)}

\* setLeaf and createItem: newPath adds the node, or throws (the value of a
\* leaf may be refused too).
Adds(op, nodes) ==
  \/ /\ Inside(nodes)
     /\ nodes \notin Refused
     /\ inputDs' = inputDs \cup Created(nodes)
     /\ entered' = entered \cup Created(nodes)
     /\ status' = "prompt"
     /\ UNCHANGED <<inputPath, target, call, query, chosen>>
  \/ Inside(nodes) /\ Fails
  \/ /\ ~Inside(nodes)
     /\ Calls(op, Absolute(nodes), {}, target)
     /\ entered' = IF inputPath # None /\ call'.ok THEN entered \cup {nodes} ELSE entered
     /\ UNCHANGED <<inputPath, inputDs, target, query, chosen>>

\* deleteItem: the node goes with everything below it, or is not there.  The
\* parents stay, those that were created for it too.
Below(nodes) == {path \in Schema : IsPrefix(nodes, path)}

Removes(nodes) ==
  \/ /\ Inside(nodes)
     /\ nodes \in inputDs
     /\ inputDs' = inputDs \ Below(nodes)
     /\ entered' = entered \ Below(nodes)
     /\ status' = "prompt"
     /\ UNCHANGED <<inputPath, target, call, query, chosen>>
  \/ Inside(nodes) /\ nodes \notin inputDs /\ Fails
  \/ ~Inside(nodes) /\ Backend("deleteItem", Absolute(nodes), {}, target)

\* initiate: the two members are assigned before createItem can throw.
InitiateSucceeds(nodes) == HasTemporary /\ nodes \in Schema \ Refused

InitiateThrows(nodes) ==
  /\ HasTemporary
  /\ nodes \notin Schema \ Refused
  /\ inputPath' = nodes
  /\ inputDs' = {}
  /\ entered' = {}
  /\ status' = "prompt"
  /\ UNCHANGED <<target, call, query, chosen>>

InitiateOnNull(nodes) ==
  /\ ~HasTemporary
  /\ inputPath' = nodes
  /\ status' = "undefined"
  /\ UNCHANGED <<inputDs, target, call, entered, query, chosen>>

\* A mistake to be caught: only the path is reset.
ResetPathOnly == inputPath' = None /\ UNCHANGED inputDs

\* cancel, also run by execute whether it returns or throws.
ResetInput == inputPath' = None /\ inputDs' = NoStore

-----------------------------------------------------------------------------
(***************************************************************************)
(* Interpreter: one action per command.                                    *)
(***************************************************************************)
Cd(typed) ==
  /\ Reads(typed) /\ AcceptsCd(cwd, typed)
  /\ cwd' = IF Blocked(typed) THEN cwd ELSE RealPath(cwd, typed)
  /\ Fails

Create(typed) ==
  /\ Reads(typed) /\ AcceptsCreate(cwd, typed)
  /\ IF Blocked(typed) THEN Fails ELSE Adds("createItem", Canonical(cwd, typed))
  /\ UNCHANGED cwd

Set(typed) ==
  /\ Reads(typed) /\ AcceptsSet(cwd, typed)
  /\ IF Blocked(typed) THEN Fails ELSE Adds("setLeaf", Canonical(cwd, typed))
  /\ UNCHANGED cwd

Delete(typed) ==
  /\ Reads(typed) /\ AcceptsDelete(cwd, typed)
  /\ IF Blocked(typed) THEN Fails ELSE Removes(Canonical(cwd, typed))
  /\ UNCHANGED cwd

\* move hands over its source as it was typed, without toCanonicalPath.
Move(typed) ==
  /\ Reads(typed) /\ AcceptsMove(cwd, typed)
  /\ IF Blocked(typed) \/ (typed.abs /\ Inside(typed.nodes))
     THEN Fails   \* refused, or the order inside the input changes
     ELSE Backend("moveItem", typed, {}, target)
  /\ UNCHANGED cwd

(***************************************************************************)
(* get [-datastore ds] [path].  A guard remembers the target, which is set *)
(* to ds; the datastore that has the path is asked, and may throw; the     *)
(* guard sets the target back as its scope is left, by the exception too.  *)
(* setTarget is ProxyDatastore's: it is the backend's target that changes, *)
(* even when the temporary datastore is the one to answer.                 *)
(***************************************************************************)
BeginGet(nodes) ==
  /\ status' = "getting"
  /\ \E ds \in Targets \cup {None} :
       /\ query' = [nodes |-> nodes, ds |-> ds, oldTarget |-> target]
       /\ target' = IF ds = None THEN target ELSE ds
  /\ UNCHANGED <<cwd, inputPath, inputDs, call, entered, chosen>>

Get(typed) == Reads(typed) /\ AcceptsGet(cwd, typed) /\ BeginGet(Canonical(cwd, typed))

GetHere == status = "reading" /\ BeginGet(cwd)

GetItems ==
  /\ status = "getting"
  /\ status' = "leaving"
  /\ IF Inside(query.nodes) THEN UNCHANGED call
     ELSE \E ok \in BOOLEAN :
            call' = [op |-> "getItems", path |-> Absolute(query.nodes), data |-> {},
                     ds |-> target, ok |-> ok]
  /\ UNCHANGED <<cwd, inputPath, inputDs, target, query, entered, chosen>>

\* A mistake to be caught: no guard, the target is set back after the listing.
LeaveGetUnguarded ==
  /\ status = "leaving"
  /\ status' = "prompt"
  /\ target' = IF call.ok THEN query.oldTarget ELSE target
  /\ query' = None
  /\ UNCHANGED <<cwd, inputPath, inputDs, call, entered, chosen>>

LeaveGet ==
  /\ status = "leaving"
  /\ status' = "prompt"
  /\ target' = query.oldTarget
  /\ query' = None
  /\ UNCHANGED <<cwd, inputPath, inputDs, call, entered, chosen>>

Dump ==
  /\ status = "reading"
  /\ Backend("dump", None, {}, target)
  /\ UNCHANGED cwd

\* commit, discard, copy: enforceRpcRestrictions forbids them during an input.
WholeDatastore(op) ==
  /\ status = "reading"
  /\ IF inputPath # None THEN Fails ELSE Backend(op, None, {}, target)
  /\ UNCHANGED cwd

Commit == WholeDatastore("commitChanges")
Discard == WholeDatastore("discardChanges")
Copy == WholeDatastore("copyConfig")

Switch(ds) ==
  /\ status = "reading"
  /\ IF inputPath # None THEN Fails
     ELSE /\ status' = "prompt"
          /\ call' = [NoCall EXCEPT !.op = "setTarget", !.ds = ds]
          /\ target' = ds
          /\ chosen' = ds
          /\ UNCHANGED <<inputPath, inputDs, query, entered>>
  /\ UNCHANGED cwd

\* A mistake to be caught: the session does not enter the RPC it prepares.
PrepareStaysOutside(typed) ==
  LET nodes == Canonical(cwd, typed) IN
  /\ Reads(typed) /\ AcceptsPrepare(cwd, typed)
  /\ inputPath = None
  /\ InitiateSucceeds(nodes)
  /\ inputPath' = nodes
  /\ inputDs' = {nodes}
  /\ entered' = {nodes}
  /\ status' = "prompt"
  /\ UNCHANGED <<cwd, target, call, query, chosen>>

PrepareSucceeds(typed) ==
  LET nodes == Canonical(cwd, typed) IN
  /\ Reads(typed) /\ AcceptsPrepare(cwd, typed)
  /\ inputPath = None
  /\ InitiateSucceeds(nodes)
  /\ inputPath' = nodes
  /\ inputDs' = {nodes}
  /\ entered' = {nodes}
  /\ cwd' = RealPath(cwd, typed)
  /\ status' = "prompt"
  /\ UNCHANGED <<target, call, query, chosen>>

\* The node is valid for the parser and refused by libyang, or there is no store.
PrepareThrows(typed) ==
  LET nodes == Canonical(cwd, typed) IN
  /\ Reads(typed) /\ AcceptsPrepare(cwd, typed)
  /\ inputPath = None
  /\ InitiateThrows(nodes) \/ InitiateOnNull(nodes)
  /\ UNCHANGED cwd

PrepareRefused(typed) ==
  /\ Reads(typed) /\ AcceptsPrepare(cwd, typed)
  /\ inputPath # None
  /\ Fails
  /\ UNCHANGED cwd

\* A mistake to be caught: the input is kept when the server refuses it.
ExecuteKeepsRefused(nodes, data) ==
  /\ Calls("execute", Absolute(nodes), data, target)
  /\ IF call'.ok THEN ResetInput ELSE inputPath' = nodes /\ inputDs' = data
  /\ UNCHANGED <<target, query, chosen>>

\* A mistake to be caught: the input is reset before it is sent.
ExecuteAfterReset(nodes, data) ==
  /\ Calls("execute", Absolute(nodes), {}, target)
  /\ ResetInput
  /\ UNCHANGED <<target, query, chosen>>

\* execute: the server is asked with what the temporary datastore holds.
Execute(nodes, data) ==
  /\ Calls("execute", Absolute(nodes), data, target)
  /\ ResetInput
  /\ UNCHANGED <<target, query, chosen>>

\* exec goes to the root before anything else.
Exec ==
  /\ status = "reading"
  /\ IF inputDs = NoStore THEN Fails
     ELSE Execute(inputPath, inputDs) /\ UNCHANGED entered
  /\ cwd' = Root

ExecPathSucceeds(typed) ==
  LET nodes == Canonical(Root, typed) IN
  /\ Reads(typed) /\ AcceptsExec(cwd, typed)
  /\ inputDs = NoStore
  /\ InitiateSucceeds(nodes)
  /\ Execute(nodes, {nodes})
  /\ entered' = {nodes}
  /\ cwd' = Root

ExecPathThrows(typed) ==
  LET nodes == Canonical(Root, typed) IN
  /\ Reads(typed) /\ AcceptsExec(cwd, typed)
  /\ inputDs = NoStore
  /\ InitiateThrows(nodes) \/ InitiateOnNull(nodes)
  /\ cwd' = Root

ExecPathRefused(typed) ==
  /\ Reads(typed) /\ AcceptsExec(cwd, typed)
  /\ inputDs # NoStore
  /\ Fails
  /\ cwd' = Root

Cancel ==
  /\ status = "reading"
  /\ cwd' = Root
  /\ ResetInput
  /\ status' = "prompt"
  /\ UNCHANGED <<target, call, entered, query, chosen>>

Next ==
  \/ Prompt
  \/ NothingToDo
  \/ Quit
  \/ \E typed \in Typed :
       \/ ParseFromNowhere(typed)
       \/ Cd(typed)
       \/ Create(typed)
       \/ Set(typed)
       \/ Delete(typed)
       \/ Move(typed)
       \/ Get(typed)
       \/ PrepareSucceeds(typed)
       \/ PrepareThrows(typed)
       \/ PrepareRefused(typed)
       \/ ExecPathSucceeds(typed)
       \/ ExecPathThrows(typed)
       \/ ExecPathRefused(typed)
  \/ GetHere
  \/ GetItems
  \/ LeaveGet
  \/ Dump
  \/ Commit
  \/ Discard
  \/ Copy
  \/ \E ds \in Targets : Switch(ds)
  \/ Exec
  \/ Cancel

Spec == Init /\ [][Next]_vars

-----------------------------------------------------------------------------
(***************************************************************************)
(* Properties                                                              *)
(***************************************************************************)

Ops == {"none", "setTarget", "createItem", "setLeaf", "deleteItem", "moveItem", "getItems",
        "dump", "commitChanges", "discardChanges", "copyConfig", "execute"}

\* The ranges of the state: the working directory is a node of the schema, or
\* an absolute path kept as it was typed; what is in the temporary datastore
\* are nodes of the schema, and it exists only while its path is set.
TypeOK ==
  /\ status \in {"prompt", "reading", "getting", "leaving", "ended", "terminated", "undefined"}
  /\ cwd \in Schema \cup {Root} \cup {typed.nodes : typed \in Typed}
  /\ inputPath \in InputPaths \cup {None}
  /\ inputDs # NoStore => inputPath # None /\ inputDs \subseteq Schema
  /\ {target, chosen} \subseteq Targets
  /\ status \in {"getting", "leaving"} =>
       query.ds \in Targets \cup {None} /\ query.oldTarget \in Targets
  /\ call.op \in Ops
  /\ call.ds \in Targets \cup {None}
  /\ entered \subseteq Schema

\* ProxyDatastore: whatever was prepared, executed, cancelled or refused
\* before, the input the server gets with an RPC was accepted since this RPC's
\* own input began; nothing of an earlier or abandoned input leaks into it.
OnlyEnteredIsSent == call.op = "execute" => call.data \subseteq entered

\* pickDatastore: the temporary datastore never holds a node whose path does
\* not begin with the path of the RPC being prepared.
InputHoldsOnlyItsRpc ==
  inputDs # NoStore => \A nodes \in inputDs : StartsWith(nodes, inputPath)

\* enforceRpcRestrictions: from the moment an input begins to the moment it is
\* executed or cancelled the backend sees no commit, discard, copy or switch.
SettledDuringInput ==
  [][inputPath # None =>
       call'.op \notin {"commitChanges", "discardChanges", "copyConfig", "setTarget"}]_vars

\* get -datastore and its guard: a `get` reads the datastore it names, and whatever
\* it was asked for, however it ended and whether it was run during an input, every
\* other request finds the target the user last switched to.
ActsOnChosenTarget ==
  /\ call.op \notin {"none", "setTarget", "getItems"} => call.ds = chosen
  /\ call.op = "getItems" /\ status = "leaving" =>
       call.ds = IF query.ds = None THEN chosen ELSE query.ds

\* execute: once the server has been asked, and whatever it answered, the
\* session is out of the input and back at the root.
AskingEndsInput ==
  [][call'.op = "execute" =>
       inputPath' = None /\ inputDs' = NoStore /\ cwd' = Root]_vars

-----------------------------------------------------------------------------
(***************************************************************************)
(* What the documentation, the comments and the tests say, and the code    *)
(* does not always do.  Runs of their own show how ErrorsAreSurvived and   *)
(* EditsStayInInput fail; ExecAsksForTheTypedPath fails as well, and the   *)
(* others hold in careful sessions, which say what it takes.               *)
(***************************************************************************)

\* A command that throws is reported and the loop goes on (the catch clauses
\* of the main loop); no command line brings the process down.
ErrorsAreSurvived == status # "terminated"

\* `exec <path>` asks the server for the RPC the path named when it was typed.
ExecAsksForTheTypedPath ==
  [][\A typed \in Typed :
       ExecPathSucceeds(typed) => call'.path = Absolute(Canonical(cwd, typed))]_vars

\* `cd` leads to a node of the schema.
CwdIsANode == cwd \in Schema \cup {Root}

\* "Can't execute `create` out of the RPC/action context": during an input the
\* backend never creates, sets or deletes anything for the user.  (Relative moves
\* are not meant: the tests expect them to reach the backend.)
EditsStayInInput ==
  [][inputPath # None =>
       ~(call'.op \in {"createItem", "setLeaf", "deleteItem"} /\ call'.ok)]_vars

\* The temporary datastore takes the nodes of the RPC and no others.
InputHoldsOnlyNodesOfItsRpc ==
  inputDs # NoStore => \A nodes \in inputDs : IsPrefix(inputPath, nodes)

=============================================================================
