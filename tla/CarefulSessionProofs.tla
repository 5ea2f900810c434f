------------------------ MODULE CarefulSessionProofs ------------------------
(***************************************************************************)
(* Of careful sessions: the input of an RPC is kept apart from the         *)
(* configuration, the prompt can always be computed, and the session       *)
(* implements the promise of RpcInput.  CInv adds to the inductive         *)
(* invariant of CliSessionProofs that the working directory is a node of   *)
(* the schema inside the RPC, that the two members of ProxyDatastore are   *)
(* set together, and that the temporary datastore holds what was entered.  *)
(***************************************************************************)
EXTENDS CarefulSession, CliSessionProofs

InputIsWhole ==
  IF inputDs = NoStore THEN inputPath = None
  ELSE inputPath \in NodesOf({"rpc"}) /\ inputDs = entered

CInv ==
  /\ IInv
  /\ CwdIsANode
  /\ CwdStaysInInput
  /\ NeverBroken
  /\ InputIsWhole
  /\ EverythingEnteredIsSent

\* The parts of CInv beyond IInv, which every step of Next preserves.
Apart == CwdIsANode /\ CwdStaysInInput /\ NeverBroken /\ InputIsWhole /\ EverythingEnteredIsSent

\* A careful session is a session.
LEMMA CarefulIsNext == CarefulNext => Next
BY DEF CarefulNext, CarefulMove, CarefulExecPath, Next

\* When absolute paths are typed without "..", realPath and toCanonicalPath agree.
LEMMA RealPathIsCanonical ==
  ASSUME NEW typed \in Typed
  PROVE  RealPath(cwd, typed) = Canonical(cwd, typed)
BY CanonicalTyping DEF RealPath, Canonical

\* What enforceRpcRestrictions lets through goes to the temporary datastore.
LEMMA NotBlockedIsInside ==
  ASSUME CInv, NEW typed \in Typed, ~Blocked(typed), inputPath # None
  PROVE  Inside(Canonical(cwd, typed))
BY RealPathIsCanonical DEF Blocked, Inside, CInv, InputIsWhole

\* When no name begins another one, starts_with on strings is the prefix order on nodes.
LEMMA StartsWithIsPrefix ==
  ASSUME NEW path \in Schema, NEW prefix \in Schema, StartsWith(path, prefix)
  PROVE  IsPrefix(prefix, path)
<1>1. path \in Seq(Node) /\ prefix \in Seq(Node) /\ prefix # Root
  BY SchemaAssumption
<1>2. Len(prefix) <= Len(path) /\ Len(prefix) \in Nat \ {0}
  BY <1>1 DEF StartsWith, Root
<1>3. path[Len(prefix)] = prefix[Len(prefix)]
  BY <1>1, ExactTexts DEF StartsWith
<1>4. \A i \in 1 .. Len(prefix) : path[i] = prefix[i]
  BY <1>2, <1>3 DEF StartsWith
<1>5. SubSeq(prefix, 1, Len(prefix)) = SubSeq(path, 1, Len(prefix))
  BY <1>1, <1>2, <1>4
<1> QED
  BY <1>2, <1>5 DEF IsPrefix

\* The session starts with its input apart.
LEMMA InitApart == Init => Apart
BY DEF Init, Apart, CwdIsANode, CwdStaysInInput, NeverBroken, InputIsWhole,
       EverythingEnteredIsSent, NoCall

\* A command that throws keeps the input apart.
LEMMA FailsApart ==
  ASSUME CInv, Fails, UNCHANGED cwd
  PROVE  Apart'
BY DEF Fails, CInv, Apart, CwdIsANode, CwdStaysInInput, NeverBroken, InputIsWhole,
       EverythingEnteredIsSent

\* A call to the backend, other than execute, keeps the input apart.
LEMMA BackendApart ==
  ASSUME CInv, NEW op, NEW path, NEW ds, op # "execute", Backend(op, path, {}, ds), UNCHANGED cwd
  PROVE  Apart'
BY DEF Backend, Calls, CInv, Apart, CwdIsANode, CwdStaysInInput, NeverBroken, InputIsWhole,
       EverythingEnteredIsSent

\* `cd` keeps the working directory a node of the schema, and inside the RPC.
LEMMA CdApart ==
  ASSUME CInv, NEW typed \in Typed, Cd(typed)
  PROVE  Apart'
<1>1. Canonical(cwd, typed) \in Schema \cup {Root} /\ RealPath(cwd, typed) = Canonical(cwd, typed)
  BY RealPathIsCanonical DEF Cd, Reads, AcceptsCd
<1>2. CASE Blocked(typed)
  BY <1>2, FailsApart DEF Cd
<1>3. CASE ~Blocked(typed)
  <2>1. inputPath # None => StartsWith(cwd', inputPath)
    BY <1>3 DEF Cd, Blocked
  <2> QED
    BY <1>1, <1>3, <2>1 DEF Cd, Fails, CInv, Apart, CwdIsANode, CwdStaysInInput, NeverBroken,
       InputIsWhole, EverythingEnteredIsSent
<1> QED
  BY <1>2, <1>3

\* setLeaf and createItem keep the temporary datastore equal to what was entered.
LEMMA AddsApart ==
  ASSUME CInv, status = "reading", NEW op \in {"createItem", "setLeaf"}, NEW typed \in Typed,
         ~Blocked(typed), Canonical(cwd, typed) \in Schema, Adds(op, Canonical(cwd, typed)), UNCHANGED cwd
  PROVE  Apart'
<1> DEFINE nodes == Canonical(cwd, typed)
<1> USE DEF CInv, IInv, ReadingIsQuiet, Apart, CwdIsANode, CwdStaysInInput, NeverBroken,
            InputIsWhole, EverythingEnteredIsSent
<1>1. CASE /\ Inside(nodes)
           /\ inputDs' = inputDs \cup Created(nodes)
           /\ entered' = entered \cup Created(nodes)
           /\ status' = "prompt"
           /\ UNCHANGED <<inputPath, target, call>>
  <2>1. inputDs # NoStore /\ inputDs' = entered'
    BY <1>1 DEF Inside
  <2>2. inputDs' # NoStore
    BY <1>1, <2>1, SessionAssumption DEF TypeOK, Created
  <2> QED
    BY <1>1, <2>1, <2>2
<1>2. CASE Fails
  BY <1>2, FailsApart
<1>3. CASE /\ ~Inside(nodes)
           /\ Calls(op, Absolute(nodes), {}, target)
           /\ entered' = IF inputPath # None /\ call'.ok THEN entered \cup {nodes} ELSE entered
           /\ UNCHANGED <<inputPath, inputDs, target>>
  <2>1. inputPath = None
    BY <1>3, NotBlockedIsInside
  <2> QED
    BY <1>3, <2>1 DEF Calls
<1> QED
  BY <1>1, <1>2, <1>3 DEF Adds

\* `create` and `set` keep the input apart.
LEMMA CreateSetApart ==
  ASSUME CInv, NEW typed \in Typed, Create(typed) \/ Set(typed)
  PROVE  Apart'
<1>1. Canonical(cwd, typed) \in Schema /\ status = "reading" /\ UNCHANGED cwd
  BY DEF Create, Set, Reads, AcceptsCreate, AcceptsMove, AcceptsSet, EndsAt, NodesOf
<1>2. CASE Blocked(typed)
  BY <1>1, <1>2, FailsApart DEF Create, Set
<1>3. CASE ~Blocked(typed)
  BY <1>1, <1>3, AddsApart DEF Create, Set
<1> QED
  BY <1>2, <1>3

\* `delete` keeps the input apart.
LEMMA DeleteApart ==
  ASSUME CInv, NEW typed \in Typed, Delete(typed)
  PROVE  Apart'
<1> DEFINE nodes == Canonical(cwd, typed)
<1>1. CASE Fails
  BY <1>1, FailsApart DEF Delete
<1>2. CASE Backend("deleteItem", Absolute(nodes), {}, target)
  BY <1>2, BackendApart DEF Delete
<1>3. CASE /\ Inside(nodes)
           /\ inputDs' = inputDs \ Below(nodes)
           /\ entered' = entered \ Below(nodes)
           /\ status' = "prompt"
           /\ UNCHANGED <<inputPath, target, call>>
  <2>1. inputDs # NoStore /\ inputDs' # NoStore /\ status = "reading" /\ UNCHANGED cwd
    BY <1>3, SessionAssumption DEF Inside, CInv, IInv, TypeOK, Delete, Reads
  <2> QED
    BY <1>3, <2>1 DEF CInv, IInv, ReadingIsQuiet, Apart, CwdIsANode, CwdStaysInInput,
       NeverBroken, InputIsWhole, EverythingEnteredIsSent
<1> QED
  BY <1>1, <1>2, <1>3 DEF Delete, Removes

\* What an absolute `move` names during an input is in the input: the backend is not asked.
LEMMA CarefulMoveKinds ==
  ASSUME CInv, NEW typed \in Typed, CarefulMove(typed)
  PROVE  Fails \/ (inputPath = None /\ Backend("moveItem", typed, {}, target))
<1>1. CASE Fails
  BY <1>1
<1>2. CASE ~Blocked(typed) /\ ~(typed.abs /\ Inside(typed.nodes)) /\ inputPath # None
  <2>1. typed.abs /\ Canonical(cwd, typed) = typed.nodes
    BY <1>2, CanonicalTyping DEF CarefulMove, Canonical
  <2> QED
    BY <1>2, <2>1, NotBlockedIsInside
<1> QED
  BY <1>1, <1>2 DEF CarefulMove, Move

\* `move`, the reading commands, commit, discard and copy keep the input apart.
LEMMA QuietApart ==
  ASSUME CInv, \/ \E typed \in Typed : CarefulMove(typed) \/ Get(typed)
               \/ GetHere \/ GetItems \/ LeaveGet \/ Dump \/ Commit \/ Discard \/ Copy
  PROVE  Apart'
<1>1. CASE \E typed \in Typed : CarefulMove(typed)
  BY <1>1, CarefulMoveKinds, FailsApart, BackendApart DEF CarefulMove, Move
<1>2. CASE GetHere \/ GetItems \/ LeaveGet \/ \E typed \in Typed : Get(typed)
  BY <1>2 DEF Get, GetHere, BeginGet, GetItems, LeaveGet, CInv, Apart, CwdIsANode,
     CwdStaysInInput, NeverBroken, InputIsWhole, EverythingEnteredIsSent
<1>3. CASE Dump
  BY <1>3, BackendApart DEF Dump
<1>4. CASE Commit \/ Discard \/ Copy
  BY <1>4, FailsApart, BackendApart DEF Commit, Discard, Copy, WholeDatastore
<1> QED
  BY <1>1, <1>2, <1>3, <1>4

\* `prepare` begins an input whose RPC is the working directory.
LEMMA PrepareApart ==
  ASSUME CInv, NEW typed \in Typed, PrepareSucceeds(typed) \/ PrepareRefused(typed)
  PROVE  Apart'
<1>1. CASE PrepareRefused(typed)
  BY <1>1, FailsApart DEF PrepareRefused
<1>2. CASE PrepareSucceeds(typed)
  <2>1. Canonical(cwd, typed) \in NodesOf({"rpc"}) /\ status = "reading"
    BY <1>2 DEF PrepareSucceeds, Reads, AcceptsPrepare, EndsAt
  <2>2. Canonical(cwd, typed) \in Schema /\ inputDs' # NoStore
    BY <1>2, <2>1, SessionAssumption DEF NodesOf, PrepareSucceeds
  <2>3. cwd' = inputPath' /\ StartsWith(cwd', inputPath')
    BY <1>2, <2>2, RealPathIsCanonical, StartsWithItself DEF PrepareSucceeds
  <2> QED
    BY <1>2, <2>1, <2>2, <2>3 DEF PrepareSucceeds, CInv, IInv, ReadingIsQuiet, Apart, CwdIsANode,
       CwdStaysInInput, NeverBroken, InputIsWhole, EverythingEnteredIsSent
<1> QED
  BY <1>1, <1>2

\* `exec` and `cancel` end the input; the server gets what was entered.
LEMMA ExecApart ==
  ASSUME CInv, Exec \/ Cancel \/ \E typed \in Typed : CarefulExecPath(typed)
  PROVE  Apart'
<1> USE DEF CInv, IInv, ReadingIsQuiet, Apart, CwdIsANode, CwdStaysInInput, NeverBroken,
            InputIsWhole, EverythingEnteredIsSent
<1>1. CASE Exec /\ inputDs = NoStore
  BY <1>1 DEF Exec, Fails
<1>2. CASE Exec /\ inputDs # NoStore
  BY <1>2 DEF Exec, Execute, Calls, ResetInput
<1>3. CASE Cancel
  BY <1>3 DEF Cancel, ResetInput
<1>4. CASE \E typed \in Typed : CarefulExecPath(typed)
  BY <1>4 DEF CarefulExecPath, ExecPathSucceeds, Execute, Calls, ResetInput
<1> QED
  BY <1>1, <1>2, <1>3, <1>4

\* The main loop and `switch` keep the input apart; the prompt fits.
LEMMA LoopApart ==
  ASSUME CInv, Prompt \/ NothingToDo \/ Quit \/ \E ds \in Targets : Switch(ds)
  PROVE  Apart'
<1> USE DEF CInv, IInv, ReadingIsQuiet, Apart, CwdIsANode, CwdStaysInInput, NeverBroken,
            InputIsWhole, EverythingEnteredIsSent
<1>1. CASE Prompt
  BY <1>1 DEF Prompt, PromptFits, NoCall, TypeOK
<1>2. CASE NothingToDo
  BY <1>2, FailsApart DEF NothingToDo
<1>3. CASE Quit
  BY <1>3 DEF Quit
<1>4. CASE \E ds \in Targets : Switch(ds)
  BY <1>4 DEF Switch, Fails, NoCall
<1> QED
  BY <1>1, <1>2, <1>3, <1>4

\* The careful invariant is inductive.
LEMMA NextCInv == CInv /\ [CarefulNext]_vars => CInv'
<1> SUFFICES ASSUME CInv, [CarefulNext]_vars PROVE CInv'
  OBVIOUS
<1>1. IInv'
  BY CarefulIsNext, NextIInv DEF CInv
<1>2. CASE UNCHANGED vars
  BY <1>1, <1>2 DEF vars, CInv, CwdIsANode, CwdStaysInInput, NeverBroken, InputIsWhole,
     EverythingEnteredIsSent
<1>3. CASE CarefulNext
  <2>1. Apart'
    BY <1>3, CdApart, CreateSetApart, DeleteApart, QuietApart, PrepareApart, ExecApart, LoopApart
    DEF CarefulNext
  <2> QED
    BY <1>1, <2>1 DEF Apart, CInv
<1> QED
  BY <1>2, <1>3

\* The careful invariant holds in every careful session.
THEOREM CarefulCInv == CarefulSpec => []CInv
<1>1. Init => CInv
  BY InitIInv, InitApart DEF Apart, CInv
<1> QED
  BY <1>1, NextCInv, PTL DEF CarefulSpec

-----------------------------------------------------------------------------
(***************************************************************************)
(* The session implements the promise: every careful step is one of its    *)
(* steps under the mapping of CarefulSession, or changes nothing there.    *)
(***************************************************************************)
Step == [Promise!Next]_(Promise!vars)

\* What goes to the temporary datastore is a node of the RPC being prepared.
LEMMA InputsOf ==
  ASSUME CInv, NEW nodes \in Schema, Inside(nodes)
  PROVE  /\ inputPath \in NodesOf({"rpc"})
         /\ nodes \in [path \in NodesOf({"rpc"}) |-> Below(path)][inputPath]
<1>1. inputPath \in NodesOf({"rpc"}) /\ inputPath \in Schema
  BY DEF Inside, CInv, InputIsWhole, NodesOf
<1>2. IsPrefix(inputPath, nodes)
  BY <1>1, StartsWithIsPrefix DEF Inside
<1> QED
  BY <1>1, <1>2 DEF Below

\* A command that throws is a stuttering step of the promise.
LEMMA FailsStep ==
  ASSUME Fails
  PROVE  Step
BY DEF Fails, Step, Promise!vars, RequestOf

\* Reading the backend is a quiet step of the promise.
LEMMA ReadStep ==
  ASSUME call'.op \in {"getItems", "dump"}, UNCHANGED <<inputPath, inputDs>>
  PROVE  Step
BY DEF Step, Promise!Next, Promise!BeQuiet, Promise!Quiet, RequestOf

\* Out of an input, a change asked of the backend is one of the promise.
LEMMA ChangeStep ==
  ASSUME CInv, inputPath = None, inputDs' = inputDs, inputPath' = inputPath,
         call'.op \in {"createItem", "setLeaf", "deleteItem", "moveItem", "commitChanges",
                       "discardChanges", "copyConfig", "setTarget"}
  PROVE  Step
BY DEF Step, Promise!Next, Promise!RequestChange, Promise!Change, RequestOf

\* setLeaf and createItem enter a node, or ask for a change out of an input.
LEMMA AddsStep ==
  ASSUME CInv, status = "reading", NEW op \in {"createItem", "setLeaf"}, NEW typed \in Typed,
         ~Blocked(typed), Canonical(cwd, typed) \in Schema, Adds(op, Canonical(cwd, typed))
  PROVE  Step
<1> DEFINE nodes == Canonical(cwd, typed)
<1>1. CASE /\ Inside(nodes)
           /\ inputDs' = inputDs \cup Created(nodes)
           /\ UNCHANGED <<inputPath, target, call>>
  <2>1. inputDs # NoStore /\ inputDs' # NoStore /\ inputPath # None
    BY <1>1, SessionAssumption DEF Inside, Created, CInv, IInv, TypeOK
  <2>2. Created(nodes) \in SUBSET [path \in NodesOf({"rpc"}) |-> Below(path)][inputPath]
    <3>1. \A path \in Created(nodes) : Inside(path) /\ path \in Schema
      BY <1>1, <2>1 DEF Created, Inside
    <3> QED
      BY <3>1, InputsOf
  <2>3. Promise!Enter(Created(nodes))
    BY <1>1, <2>1, <2>2 DEF Promise!Enter, RequestOf
  <2> QED
    BY <1>1, <2>2, <2>3, InputsOf DEF Step, Promise!Next
<1>2. CASE Fails
  BY <1>2, FailsStep
<1>3. CASE /\ ~Inside(nodes)
           /\ Calls(op, Absolute(nodes), {}, target)
           /\ UNCHANGED <<inputPath, inputDs, target>>
  <2>1. inputPath = None
    BY <1>3, NotBlockedIsInside
  <2> QED
    BY <1>3, <2>1, ChangeStep DEF Calls
<1> QED
  BY <1>1, <1>2, <1>3 DEF Adds

\* deleteItem withdraws nodes, or asks for a change out of an input.
LEMMA RemovesStep ==
  ASSUME CInv, NEW typed \in Typed, ~Blocked(typed), Canonical(cwd, typed) \in Schema,
         Removes(Canonical(cwd, typed))
  PROVE  Step
<1> DEFINE nodes == Canonical(cwd, typed)
<1>1. CASE /\ Inside(nodes)
           /\ inputDs' = inputDs \ Below(nodes)
           /\ UNCHANGED <<inputPath, target, call>>
  <2>1. inputDs # NoStore /\ inputDs' # NoStore /\ inputPath # None
    BY <1>1, SessionAssumption DEF Inside, CInv, IInv, TypeOK
  <2>2. inputDs \cap Below(nodes) \in SUBSET [path \in NodesOf({"rpc"}) |-> Below(path)][inputPath]
    <3>1. \A node \in inputDs : Inside(node) /\ node \in Schema
      BY <2>1 DEF Inside, CInv, IInv, InputHoldsOnlyItsRpc, TypeOK
    <3> QED
      BY <3>1, InputsOf
  <2>3. Promise!Withdraw(inputDs \cap Below(nodes))
    BY <1>1, <2>1 DEF Promise!Withdraw, RequestOf
  <2> QED
    BY <1>1, <2>2, <2>3, InputsOf DEF Step, Promise!Next
<1>2. CASE Fails
  BY <1>2, FailsStep
<1>3. CASE ~Inside(nodes) /\ Backend("deleteItem", Absolute(nodes), {}, target)
  <2>1. inputPath = None
    BY <1>3, NotBlockedIsInside
  <2> QED
    BY <1>3, <2>1, ChangeStep DEF Backend, Calls
<1> QED
  BY <1>1, <1>2, <1>3 DEF Removes

\* `cd` and the edits implement steps of the promise.
LEMMA EditStep ==
  ASSUME CInv, NEW typed \in Typed,
         Cd(typed) \/ Create(typed) \/ Set(typed) \/ Delete(typed) \/ CarefulMove(typed)
  PROVE  Step
<1>1. CASE Cd(typed)
  BY <1>1, FailsStep DEF Cd
<1>2. CASE Create(typed) \/ Set(typed)
  <2>1. Canonical(cwd, typed) \in Schema /\ status = "reading"
    BY <1>2 DEF Create, Set, Reads, AcceptsCreate, AcceptsMove, AcceptsSet, EndsAt, NodesOf
  <2> QED
    BY <1>2, <2>1, FailsStep, AddsStep DEF Create, Set
<1>3. CASE Delete(typed)
  <2>1. Canonical(cwd, typed) \in Schema
    BY <1>3 DEF Delete, Reads, AcceptsDelete, AcceptsCreate, AcceptsMove, AcceptsSet, EndsAt, NodesOf
  <2> QED
    BY <1>3, <2>1, FailsStep, RemovesStep DEF Delete
<1>4. CASE CarefulMove(typed)
  BY <1>4, CarefulMoveKinds, FailsStep, ChangeStep DEF Backend, Calls
<1> QED
  BY <1>1, <1>2, <1>3, <1>4

\* `get` and `dump` implement steps of the promise.
LEMMA ReadingStep ==
  ASSUME GetHere \/ GetItems \/ LeaveGet \/ Dump \/ \E typed \in Typed : Get(typed)
  PROVE  Step
<1>1. CASE GetHere \/ LeaveGet \/ \E typed \in Typed : Get(typed)
  BY <1>1 DEF GetHere, Get, BeginGet, LeaveGet, Step, RequestOf, Promise!vars
<1>2. CASE GetItems /\ Inside(query.nodes)
  BY <1>2 DEF GetItems, Step, RequestOf, Promise!vars
<1>3. CASE Dump \/ (GetItems /\ ~Inside(query.nodes))
  BY <1>3, ReadStep DEF Dump, GetItems, Backend, Calls
<1> QED
  BY <1>1, <1>2, <1>3

\* commit, discard, copy and switch implement steps of the promise.
LEMMA DatastoreStep ==
  ASSUME CInv, Commit \/ Discard \/ Copy \/ \E ds \in Targets : Switch(ds)
  PROVE  Step
<1>1. CASE Commit \/ Discard \/ Copy
  BY <1>1, FailsStep, ChangeStep DEF Commit, Discard, Copy, WholeDatastore, Backend, Calls
<1>2. CASE \E ds \in Targets : Switch(ds)
  <2>1. PICK ds \in Targets : Switch(ds)
    BY <1>2
  <2>2. CASE inputPath # None
    BY <2>1, <2>2, FailsStep DEF Switch
  <2>3. CASE inputPath = None
    <3>1. call'.op = "setTarget" /\ inputDs' = inputDs /\ inputPath' = inputPath
      BY <2>1, <2>3 DEF Switch, NoCall
    <3> QED
      BY <2>3, <3>1, ChangeStep
  <2> QED
    BY <2>2, <2>3
<1> QED
  BY <1>1, <1>2

\* `prepare` begins the input of the promise.
LEMMA PrepareStep ==
  ASSUME CInv, NEW typed \in Typed, PrepareSucceeds(typed) \/ PrepareRefused(typed)
  PROVE  Step
<1>1. CASE PrepareRefused(typed)
  BY <1>1, FailsStep DEF PrepareRefused
<1>2. CASE PrepareSucceeds(typed)
  <2>1. Canonical(cwd, typed) \in NodesOf({"rpc"}) /\ inputDs' # NoStore
    BY <1>2, SessionAssumption DEF PrepareSucceeds, Reads, AcceptsPrepare, EndsAt, NodesOf
  <2>2. Promise!Begin(Canonical(cwd, typed))
    BY <1>2, <2>1 DEF PrepareSucceeds, Promise!Begin, RequestOf
  <2> QED
    BY <2>1, <2>2 DEF Step, Promise!Next
<1> QED
  BY <1>1, <1>2

\* `exec` sends the input of the promise.
LEMMA ExecStep ==
  ASSUME CInv, Exec
  PROVE  Step
<1>1. CASE inputDs = NoStore
  BY <1>1, FailsStep DEF Exec
<1>2. CASE inputDs # NoStore
  <2>1. Promise!Send
    BY <1>2, SessionAssumption DEF Exec, Execute, Calls, Absolute, ResetInput, RequestOf,
       Promise!Send, Promise!Execution, CInv, IInv, TypeOK
  <2> QED
    BY <2>1 DEF Step, Promise!Next
<1> QED
  BY <1>1, <1>2

\* `exec <path>` sends an RPC without input at once.
LEMMA ExecPathStep ==
  ASSUME CInv, NEW typed \in Typed, CarefulExecPath(typed)
  PROVE  Step
<1>1. Canonical(Root, typed) \in NodesOf({"rpc"})
  BY DEF CarefulExecPath, ExecPathSucceeds, Reads, AcceptsExec, EndsAt
<1>2. Promise!SendAtOnce(Canonical(Root, typed))
  BY DEF CarefulExecPath, ExecPathSucceeds, Execute, Calls, Absolute, ResetInput, RequestOf,
     Promise!SendAtOnce, Promise!Execution
<1> QED
  BY <1>1, <1>2 DEF Step, Promise!Next

\* The main loop, `quit` and `cancel` implement steps of the promise.
LEMMA LoopStep ==
  ASSUME CInv, Prompt \/ NothingToDo \/ Quit \/ Cancel
  PROVE  Step
<1>1. CASE Prompt
  BY <1>1 DEF Prompt, NoCall, RequestOf, Step, Promise!Next, Promise!BeQuiet, Promise!Quiet
<1>2. CASE NothingToDo
  BY <1>2, FailsStep DEF NothingToDo
<1>3. CASE Quit
  BY <1>3 DEF Quit, Step, RequestOf, Promise!vars
<1>4. CASE Cancel
  BY <1>4 DEF Cancel, ResetInput, RequestOf, Step, Promise!Next, Promise!Abandon
<1> QED
  BY <1>1, <1>2, <1>3, <1>4

\* Every careful step implements a step of the promise, or none.
LEMMA CarefulStep == CInv /\ [CarefulNext]_vars => Step
<1> SUFFICES ASSUME CInv, [CarefulNext]_vars PROVE Step
  OBVIOUS
<1>1. CASE UNCHANGED vars
  BY <1>1 DEF vars, Step, RequestOf, Promise!vars
<1>2. CASE CarefulNext
  BY <1>2, EditStep, ReadingStep, DatastoreStep, PrepareStep, ExecStep, ExecPathStep, LoopStep
  DEF CarefulNext
<1> QED
  BY <1>1, <1>2

-----------------------------------------------------------------------------
(***************************************************************************)
(* The theorems                                                            *)
(***************************************************************************)

\* enforceRpcRestrictions and changeNode: the working directory of a careful
\* session is inside the RPC for as long as its input is in progress.
THEOREM CarefulCwdStaysInInput == CarefulSpec => []CwdStaysInInput
BY CarefulCInv, PTL DEF CInv

\* The working directory of a careful session is a node of the schema, so that
\* every later parse finds it.
THEOREM CarefulCwdIsANode == CarefulSpec => []CwdIsANode
BY CarefulCInv, PTL DEF CInv

\* No command of a careful session ends the process or makes it undefined.
THEOREM CarefulNeverBroken == CarefulSpec => []NeverBroken
BY CarefulCInv, PTL DEF CInv

\* What the server gets is exactly what the user saw accepted.
THEOREM CarefulEverythingEnteredIsSent == CarefulSpec => []EverythingEnteredIsSent
BY CarefulCInv, PTL DEF CInv

\* pickDatastore compares strings; where no name begins another one, what it takes for
\* the input are nodes of the RPC and nothing beside it.
THEOREM CarefulInputHoldsOnlyNodesOfItsRpc == CarefulSpec => []InputHoldsOnlyNodesOfItsRpc
<1>1. CInv => InputHoldsOnlyNodesOfItsRpc
  <2> SUFFICES ASSUME CInv, inputDs # NoStore, NEW nodes \in inputDs
               PROVE  IsPrefix(inputPath, nodes)
    BY DEF InputHoldsOnlyNodesOfItsRpc
  <2>1. nodes \in Schema /\ inputPath \in Schema /\ StartsWith(nodes, inputPath)
    BY DEF CInv, IInv, TypeOK, InputHoldsOnlyItsRpc, InputIsWhole, NodesOf
  <2> QED
    BY <2>1, StartsWithIsPrefix
<1> QED
  BY <1>1, CarefulCInv, PTL

\* prepare, exec and cancel keep their promise in a careful session.
THEOREM CarefulImplementsPromise == CarefulSpec => ImplementsPromise
<1>1. Init => Promise!Init
  BY DEF Init, Promise!Init, Promise!Quiet, RequestOf, NoCall
<1>2. CInv /\ [CarefulNext]_vars => [Promise!Next]_(Promise!vars)
  BY CarefulStep DEF Step
<1> QED
  BY <1>1, <1>2, CarefulCInv, PTL DEF CarefulSpec, ImplementsPromise, Promise!Spec

=============================================================================
