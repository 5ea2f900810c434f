--------------------------- MODULE CarefulSession ---------------------------
(***************************************************************************)
(* The sessions in which the input of an RPC is really kept apart: the     *)
(* RpcInput promise holds of them.  They are those of CliSession that      *)
(* avoid what breaks the properties of CliSession's last section:          *)
(*   - no node's text is the beginning of another one (ExactTexts),        *)
(*   - no absolute path is typed with ".." in it (CanonicalTyping),        *)
(*   - every node the grammar takes libyang takes too (NothingRefused),    *)
(*   - the program has a temporary datastore (not yang-cli),               *)
(*   - `exec <path>` is typed at the root and out of an input,             *)
(*   - no relative path is moved during an input.                          *)
(***************************************************************************)
EXTENDS CliSession

ASSUME ExactTexts == TextStarts = {<<n, n>> : n \in Node}
ASSUME CanonicalTyping ==
  \A typed \in Typed : typed.abs => /\ PushAll(Root, typed.nodes) = typed.nodes
                                    /\ ~HasUp(typed.nodes)
ASSUME NothingRefused == Refused = {} /\ HasTemporary

CarefulExecPath(typed) ==
  /\ cwd = Root /\ inputPath = None
  /\ ExecPathSucceeds(typed)

CarefulMove(typed) == (typed.abs \/ inputPath = None) /\ Move(typed)

CarefulNext ==
  \/ Prompt
  \/ NothingToDo
  \/ Quit
  \/ \E typed \in Typed :
       \/ Cd(typed)
       \/ Create(typed)
       \/ Set(typed)
       \/ Delete(typed)
       \/ CarefulMove(typed)
       \/ Get(typed)
       \/ PrepareSucceeds(typed)
       \/ PrepareRefused(typed)
       \/ CarefulExecPath(typed)
  \/ GetHere
  \/ GetItems
  \/ LeaveGet
  \/ Dump
  \/ Commit
  \/ Discard
  \/ Copy
  \/ \E ds \in Targets : Switch(ds)
  \/ Exec
  \/ Cancel

CarefulSpec == Init /\ [][CarefulNext]_vars

-----------------------------------------------------------------------------
\* enforceRpcRestrictions on `cd`, and the order of exec and cancel: while an
\* input is in progress the working directory is inside its RPC.
CwdStaysInInput == inputPath # None => StartsWith(cwd, inputPath)

\* (CwdIsANode of CliSession holds too: no relative path is parsed from nowhere,
\* so ParseFromNowhere, like PrepareThrows and ExecPathThrows under
\* NothingRefused, has no place in CarefulNext.)

\* The prompt can always be computed: the process ends only when asked to.
NeverBroken == status \notin {"terminated", "undefined"}

\* Interpreter and ProxyDatastore: every edit the user saw accepted during the
\* input is in what the server gets, and nothing else is.
EverythingEnteredIsSent == call.op = "execute" => call.data = entered

(***************************************************************************)
(* The mapping onto the promise: reading is quiet, an execution carries    *)
(* the RPC and its input, everything else asks for a change.               *)
(***************************************************************************)
RequestOf(c) ==
  IF c.op = "execute"
  THEN [kind |-> "execution", rpc |-> c.path.nodes, input |-> c.data]
  ELSE [kind |-> IF c.op \in {"none", "getItems", "dump"} THEN "quiet" ELSE "change",
        rpc |-> None, input |-> {}]

Promise == INSTANCE RpcInput WITH
  Rpcs <- NodesOf({"rpc"}),
  Inputs <- [path \in NodesOf({"rpc"}) |-> Below(path)],
  rpc <- inputPath,
  input <- IF inputDs = NoStore THEN {} ELSE inputDs,
  request <- RequestOf(call)

ImplementsPromise == Promise!Spec

=============================================================================
