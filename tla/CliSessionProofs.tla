-------------------------- MODULE CliSessionProofs --------------------------
(***************************************************************************)
(* For every schema, every set of typed paths and every set of confusable  *)
(* names: type correctness of the session, what the input sent with an RPC *)
(* may contain, and what cannot happen while an input is in progress.      *)
(*                                                                         *)
(* The inductive invariant adds three facts to the properties: a command   *)
(* is read with no call to the backend pending, whatever the temporary     *)
(* datastore holds was entered since the input began, and the target is    *)
(* the chosen one, or a guard that knows the chosen one is alive.          *)
(***************************************************************************)
EXTENDS CliSession, TLAPS

\* call is reset by the prompt, so each command is seen with its own call.
ReadingIsQuiet ==
  /\ status \in {"reading", "getting"} => call.op = "none"
  /\ status = "leaving" => call.op \in {"none", "getItems"}

\* The temporary datastore holds nothing older than the input it collects.
InputIsEntered == inputDs # NoStore => inputDs \subseteq entered

\* The guard of a `get` holds the target to go back to while another may be set.
TargetIsChosen ==
  IF status \in {"getting", "leaving"}
  THEN /\ query.oldTarget = chosen
       /\ target = IF query.ds = None THEN chosen ELSE query.ds
  ELSE target = chosen

\* The inductive invariant.
IInv ==
  /\ TypeOK
  /\ ReadingIsQuiet
  /\ InputIsEntered
  /\ OnlyEnteredIsSent
  /\ InputHoldsOnlyItsRpc
  /\ TargetIsChosen
  /\ ActsOnChosenTarget

\* A path of the schema starts with itself (reflexivity of starts_with).
LEMMA StartsWithItself ==
  ASSUME NEW path \in Schema
  PROVE  StartsWith(path, path)
<1>1. path \in Seq(Node) /\ path # Root
  BY SchemaAssumption
<1>2. Len(path) \in Nat /\ path[Len(path)] \in Node
  BY <1>1 DEF Root
<1> QED
  BY <1>1, <1>2, TextStartsAssumption DEF StartsWith

\* changeNode(realPath) leads to a node of the schema, or to a path as it was typed.
LEMMA RealPathTyped ==
  ASSUME NEW typed \in Typed, Canonical(cwd, typed) \in Schema \cup {Root}
  PROVE  RealPath(cwd, typed) \in Schema \cup {Root} \cup {t.nodes : t \in Typed}
BY DEF RealPath, Canonical

\* The session starts in the invariant.
LEMMA InitIInv == Init => IInv
BY DEF Init, IInv, TypeOK, ReadingIsQuiet, InputIsEntered, OnlyEnteredIsSent,
       InputHoldsOnlyItsRpc, TargetIsChosen, ActsOnChosenTarget, NoCall, Ops

\* A command that throws preserves the invariant.
LEMMA FailsIInv ==
  ASSUME IInv, status = "reading", Fails, cwd' \in Schema \cup {Root} \cup {t.nodes : t \in Typed}
  PROVE  IInv'
BY DEF Fails, IInv, TypeOK, ReadingIsQuiet, InputIsEntered, OnlyEnteredIsSent,
       InputHoldsOnlyItsRpc, TargetIsChosen, ActsOnChosenTarget

\* `cd` preserves the invariant.
LEMMA CdIInv ==
  ASSUME IInv, NEW typed \in Typed, Cd(typed)
  PROVE  IInv'
<1>1. status = "reading" /\ Canonical(cwd, typed) \in Schema \cup {Root}
  BY DEF Cd, Reads, AcceptsCd
<1>2. cwd' \in Schema \cup {Root} \cup {t.nodes : t \in Typed}
  BY <1>1, RealPathTyped DEF Cd, IInv, TypeOK
<1> QED
  BY <1>1, <1>2, FailsIInv DEF Cd

\* A call to the backend, other than execute, preserves the invariant.
LEMMA BackendIInv ==
  ASSUME IInv, status = "reading", NEW op \in Ops \ {"execute"}, NEW path,
         Backend(op, path, {}, target), UNCHANGED cwd
  PROVE  IInv'
BY DEF Backend, Calls, IInv, TypeOK, ReadingIsQuiet, InputIsEntered, OnlyEnteredIsSent,
       InputHoldsOnlyItsRpc, TargetIsChosen, ActsOnChosenTarget, InputPaths

\* setLeaf and createItem of ProxyDatastore preserve the invariant.
LEMMA AddsIInv ==
  ASSUME IInv, status = "reading", NEW op \in {"createItem", "setLeaf"}, NEW nodes \in Schema,
         Adds(op, nodes), UNCHANGED cwd
  PROVE  IInv'
<1> USE DEF IInv, TypeOK, ReadingIsQuiet, InputIsEntered, OnlyEnteredIsSent,
            InputHoldsOnlyItsRpc, TargetIsChosen, ActsOnChosenTarget
<1>1. CASE /\ Inside(nodes)
           /\ inputDs' = inputDs \cup Created(nodes)
           /\ entered' = entered \cup Created(nodes)
           /\ status' = "prompt"
           /\ UNCHANGED <<inputPath, target, call, query, chosen>>
  <2>1. Created(nodes) \subseteq Schema /\ \A path \in Created(nodes) : StartsWith(path, inputPath)
    BY <1>1 DEF Created, Inside
  <2> QED
    BY <1>1, <2>1, SessionAssumption DEF Inside
<1>2. CASE Fails
  BY <1>2, FailsIInv
<1>3. CASE /\ ~Inside(nodes)
           /\ Calls(op, Absolute(nodes), {}, target)
           /\ entered' = IF inputPath # None /\ call'.ok THEN entered \cup {nodes} ELSE entered
           /\ UNCHANGED <<inputPath, inputDs, target, query, chosen>>
  BY <1>3 DEF Calls, Ops
<1> QED
  BY <1>1, <1>2, <1>3 DEF Adds

\* deleteItem of ProxyDatastore preserves the invariant.
LEMMA RemovesIInv ==
  ASSUME IInv, status = "reading", NEW nodes \in Schema, Removes(nodes), UNCHANGED cwd
  PROVE  IInv'
<1>1. CASE /\ Inside(nodes)
           /\ inputDs' = inputDs \ Below(nodes)
           /\ entered' = entered \ Below(nodes)
           /\ status' = "prompt"
           /\ UNCHANGED <<inputPath, target, call, query, chosen>>
  BY <1>1 DEF Inside, IInv, TypeOK, ReadingIsQuiet, InputIsEntered, OnlyEnteredIsSent,
              InputHoldsOnlyItsRpc, TargetIsChosen, ActsOnChosenTarget
<1>2. CASE Fails
  BY <1>2, FailsIInv DEF IInv, TypeOK
<1>3. CASE Backend("deleteItem", Absolute(nodes), {}, target)
  BY <1>3, BackendIInv DEF IInv, TypeOK, Ops
<1> QED
  BY <1>1, <1>2, <1>3 DEF Removes

\* `create` preserves the invariant.
LEMMA CreateIInv ==
  ASSUME IInv, NEW typed \in Typed, Create(typed)
  PROVE  IInv'
<1>1. Canonical(cwd, typed) \in Schema
  BY DEF Create, Reads, AcceptsCreate, AcceptsMove, EndsAt, NodesOf
<1>2. CASE Fails
  BY <1>2, FailsIInv DEF Create, Reads, IInv, TypeOK
<1>3. CASE Adds("createItem", Canonical(cwd, typed))
  BY <1>1, <1>3, AddsIInv DEF Create, Reads
<1> QED
  BY <1>2, <1>3 DEF Create

\* `set` preserves the invariant.
LEMMA SetIInv ==
  ASSUME IInv, NEW typed \in Typed, Set(typed)
  PROVE  IInv'
<1>1. Canonical(cwd, typed) \in Schema
  BY DEF Set, Reads, AcceptsSet, EndsAt, NodesOf
<1>2. CASE Fails
  BY <1>2, FailsIInv DEF Set, Reads, IInv, TypeOK
<1>3. CASE Adds("setLeaf", Canonical(cwd, typed))
  BY <1>1, <1>3, AddsIInv DEF Set, Reads
<1> QED
  BY <1>2, <1>3 DEF Set

\* `delete` preserves the invariant.
LEMMA DeleteIInv ==
  ASSUME IInv, NEW typed \in Typed, Delete(typed)
  PROVE  IInv'
<1>1. Canonical(cwd, typed) \in Schema
  BY DEF Delete, Reads, AcceptsDelete, AcceptsCreate, AcceptsMove, AcceptsSet, EndsAt, NodesOf
<1>2. CASE Fails
  BY <1>2, FailsIInv DEF Delete, Reads, IInv, TypeOK
<1>3. CASE Removes(Canonical(cwd, typed))
  BY <1>1, <1>3, RemovesIInv DEF Delete, Reads
<1> QED
  BY <1>2, <1>3 DEF Delete

\* `move` preserves the invariant.
LEMMA MoveIInv ==
  ASSUME IInv, NEW typed \in Typed, Move(typed)
  PROVE  IInv'
<1>1. CASE Fails
  BY <1>1, FailsIInv DEF Move, Reads, IInv, TypeOK
<1>2. CASE Backend("moveItem", typed, {}, target)
  BY <1>2, BackendIInv DEF Move, Reads, Ops
<1> QED
  BY <1>1, <1>2 DEF Move

\* `get` preserves the invariant as its guard is made, ...
LEMMA BeginGetIInv ==
  ASSUME IInv, status = "reading", NEW nodes, BeginGet(nodes)
  PROVE  IInv'
BY DEF BeginGet, IInv, TypeOK, ReadingIsQuiet, InputIsEntered, OnlyEnteredIsSent,
       InputHoldsOnlyItsRpc, TargetIsChosen, ActsOnChosenTarget

\* ... as a datastore is asked, ...
LEMMA GetItemsIInv == IInv /\ GetItems => IInv'
<1> SUFFICES ASSUME IInv, GetItems PROVE IInv'
  OBVIOUS
<1> USE DEF GetItems, IInv, TypeOK, ReadingIsQuiet, InputIsEntered, OnlyEnteredIsSent,
            InputHoldsOnlyItsRpc, TargetIsChosen, ActsOnChosenTarget
<1>1. CASE Inside(query.nodes)
  BY <1>1
<1>2. CASE ~Inside(query.nodes)
  BY <1>2 DEF Ops
<1> QED
  BY <1>1, <1>2

\* ... and as the guard's scope is left.
LEMMA LeaveGetIInv == IInv /\ LeaveGet => IInv'
BY DEF LeaveGet, IInv, TypeOK, ReadingIsQuiet, InputIsEntered, OnlyEnteredIsSent,
       InputHoldsOnlyItsRpc, TargetIsChosen, ActsOnChosenTarget

\* `commit`, `discard` and `copy` preserve the invariant.
LEMMA WholeDatastoreIInv ==
  ASSUME IInv, NEW op \in {"commitChanges", "discardChanges", "copyConfig"}, WholeDatastore(op)
  PROVE  IInv'
<1>1. CASE Fails
  BY <1>1, FailsIInv DEF WholeDatastore, IInv, TypeOK
<1>2. CASE Backend(op, None, {}, target)
  BY <1>2, BackendIInv DEF WholeDatastore, IInv, TypeOK, Ops
<1> QED
  BY <1>1, <1>2 DEF WholeDatastore

\* `dump` preserves the invariant.
LEMMA DumpIInv == IInv /\ Dump => IInv'
BY BackendIInv DEF Dump, IInv, TypeOK, Ops

\* `switch` preserves the invariant.
LEMMA SwitchIInv ==
  ASSUME IInv, NEW ds \in Targets, Switch(ds)
  PROVE  IInv'
<1>1. CASE Fails
  BY <1>1, FailsIInv DEF Switch, IInv, TypeOK
<1>2. CASE ~Fails
  BY <1>2 DEF Switch, NoCall, IInv, TypeOK, ReadingIsQuiet, InputIsEntered,
              OnlyEnteredIsSent, InputHoldsOnlyItsRpc, TargetIsChosen, ActsOnChosenTarget, Ops
<1> QED
  BY <1>1, <1>2

\* An initiate that throws, or meets a null datastore, preserves the invariant.
LEMMA InitiateIInv ==
  ASSUME IInv, status = "reading", NEW nodes \in InputPaths,
         InitiateThrows(nodes) \/ InitiateOnNull(nodes),
         cwd' \in {cwd, Root}, inputDs = NoStore
  PROVE  IInv'
BY SessionAssumption DEF InitiateThrows, InitiateOnNull, IInv, TypeOK, ReadingIsQuiet, InputIsEntered,
       OnlyEnteredIsSent, InputHoldsOnlyItsRpc, TargetIsChosen, ActsOnChosenTarget

\* `prepare` preserves the invariant, whatever becomes of it.
LEMMA PrepareIInv ==
  ASSUME IInv, NEW typed \in Typed,
         PrepareSucceeds(typed) \/ PrepareThrows(typed) \/ PrepareRefused(typed)
  PROVE  IInv'
<1>1. Canonical(cwd, typed) \in Schema /\ status = "reading"
  BY DEF PrepareSucceeds, PrepareThrows, PrepareRefused, Reads, AcceptsPrepare, EndsAt, NodesOf
<1>2. CASE PrepareSucceeds(typed)
  <2>1. cwd' \in Schema \cup {Root} \cup {t.nodes : t \in Typed}
    BY <1>1, <1>2, RealPathTyped DEF PrepareSucceeds
  <2>2. StartsWith(Canonical(cwd, typed), Canonical(cwd, typed))
    BY <1>1, StartsWithItself
  <2> QED
    BY <1>1, <1>2, <2>1, <2>2, SessionAssumption
    DEF PrepareSucceeds, InputPaths, IInv, TypeOK, ReadingIsQuiet, InputIsEntered,
        OnlyEnteredIsSent, InputHoldsOnlyItsRpc, TargetIsChosen, ActsOnChosenTarget
<1>3. CASE PrepareThrows(typed)
  <2>1. inputDs = NoStore
    BY <1>3 DEF PrepareThrows, IInv, TypeOK
  <2> QED
    BY <1>1, <1>3, <2>1, InitiateIInv DEF PrepareThrows, InputPaths
<1>4. CASE PrepareRefused(typed)
  BY <1>1, <1>4, FailsIInv DEF PrepareRefused, IInv, TypeOK
<1> QED
  BY <1>2, <1>3, <1>4

\* `exec` without a path preserves the invariant.
LEMMA ExecIInv == IInv /\ Exec => IInv'
<1> SUFFICES ASSUME IInv, Exec PROVE IInv'
  OBVIOUS
<1>1. CASE Fails
  BY <1>1, FailsIInv DEF Exec
<1>2. CASE inputDs # NoStore /\ Execute(inputPath, inputDs) /\ UNCHANGED entered
  BY <1>2 DEF Exec, Execute, Calls, ResetInput, IInv, TypeOK, ReadingIsQuiet, InputIsEntered,
              OnlyEnteredIsSent, InputHoldsOnlyItsRpc, TargetIsChosen, ActsOnChosenTarget, Ops
<1> QED
  BY <1>1, <1>2 DEF Exec

\* `exec` with a path preserves the invariant, whatever becomes of it.
LEMMA ExecPathIInv ==
  ASSUME IInv, NEW typed \in Typed,
         ExecPathSucceeds(typed) \/ ExecPathThrows(typed) \/ ExecPathRefused(typed)
  PROVE  IInv'
<1>1. CASE ExecPathSucceeds(typed)
  <2>1. status = "reading" /\ Canonical(Root, typed) \in Schema
    BY <1>1 DEF ExecPathSucceeds, InitiateSucceeds, Reads
  <2> QED
    BY <1>1, <2>1 DEF ExecPathSucceeds, Execute, Calls, ResetInput, IInv, TypeOK, ReadingIsQuiet,
       InputIsEntered, OnlyEnteredIsSent, InputHoldsOnlyItsRpc, TargetIsChosen, ActsOnChosenTarget, Ops
<1>2. CASE ExecPathThrows(typed)
  BY <1>2, InitiateIInv DEF ExecPathThrows, Reads, InputPaths
<1>3. CASE ExecPathRefused(typed)
  BY <1>3, FailsIInv DEF ExecPathRefused, Reads
<1> QED
  BY <1>1, <1>2, <1>3

\* The main loop, `quit` and `cancel` preserve the invariant.
LEMMA LoopIInv ==
  ASSUME IInv, Prompt \/ NothingToDo \/ Quit \/ Cancel \/ \E t \in Typed : ParseFromNowhere(t)
  PROVE  IInv'
<1> USE DEF IInv, TypeOK, ReadingIsQuiet, InputIsEntered, OnlyEnteredIsSent,
            InputHoldsOnlyItsRpc, TargetIsChosen, ActsOnChosenTarget, Ops
<1>1. CASE Prompt
  BY <1>1 DEF Prompt, NoCall
<1>2. CASE NothingToDo
  BY <1>2, FailsIInv DEF NothingToDo
<1>3. CASE Quit
  BY <1>3 DEF Quit
<1>4. CASE Cancel
  BY <1>4 DEF Cancel, ResetInput
<1>5. CASE \E t \in Typed : ParseFromNowhere(t)
  BY <1>5 DEF ParseFromNowhere
<1> QED
  BY <1>1, <1>2, <1>3, <1>4, <1>5

\* The invariant is inductive.
LEMMA NextIInv == IInv /\ [Next]_vars => IInv'
<1> SUFFICES ASSUME IInv, [Next]_vars PROVE IInv'
  OBVIOUS
<1>1. CASE UNCHANGED vars
  BY <1>1 DEF vars, IInv, TypeOK, ReadingIsQuiet, InputIsEntered, OnlyEnteredIsSent,
              InputHoldsOnlyItsRpc, TargetIsChosen, ActsOnChosenTarget
<1>2. ASSUME NEW typed \in Typed,
             \/ Cd(typed) \/ Create(typed) \/ Set(typed) \/ Delete(typed)
             \/ Move(typed) \/ Get(typed)
      PROVE  IInv'
  BY <1>2, CdIInv, CreateIInv, SetIInv, DeleteIInv, MoveIInv, BeginGetIInv DEF Get, Reads
<1>3. ASSUME NEW typed \in Typed,
             \/ PrepareSucceeds(typed) \/ PrepareThrows(typed) \/ PrepareRefused(typed)
             \/ ExecPathSucceeds(typed) \/ ExecPathThrows(typed) \/ ExecPathRefused(typed)
      PROVE  IInv'
  BY <1>3, PrepareIInv, ExecPathIInv
<1>4. CASE Prompt \/ NothingToDo \/ Quit \/ Cancel \/ \E t \in Typed : ParseFromNowhere(t)
  BY <1>4, LoopIInv
<1>5. CASE GetHere \/ GetItems \/ LeaveGet \/ Dump \/ Exec
  BY <1>5, BeginGetIInv, GetItemsIInv, LeaveGetIInv, DumpIInv, ExecIInv DEF GetHere
<1>6. CASE Commit \/ Discard \/ Copy
  BY <1>6, WholeDatastoreIInv DEF Commit, Discard, Copy
<1>7. CASE \E ds \in Targets : Switch(ds)
  BY <1>7, SwitchIInv
<1> QED
  BY <1>1, <1>2, <1>3, <1>4, <1>5, <1>6, <1>7 DEF Next

\* The inductive invariant holds in every session.
THEOREM SpecIInv == Spec => []IInv
BY InitIInv, NextIInv, PTL DEF Spec

\* What one step can do to the backend and the input.
Harmless == call'.op \in {"none", "createItem", "setLeaf", "deleteItem", "moveItem",
                          "getItems", "dump"}
ForTheWholeDatastore == inputPath = None /\ call'.op # "execute"
Asking == /\ call'.op = "execute"
          /\ inputPath' = None /\ inputDs' = NoStore /\ cwd' = Root

StepKind == Harmless \/ ForTheWholeDatastore \/ Asking

\* `cd`, the edits and the beginning of `get` make at most an editing or reading call.
LEMMA EditSteps ==
  ASSUME IInv, NEW typed \in Typed,
         Cd(typed) \/ Create(typed) \/ Set(typed) \/ Delete(typed) \/ Move(typed) \/ Get(typed)
  PROVE  Harmless
<1>1. call.op = "none"
  BY DEF Cd, Create, Set, Delete, Move, Get, Reads, IInv, ReadingIsQuiet
<1>2. CASE Cd(typed)
  BY <1>1, <1>2 DEF Cd, Fails, Harmless
<1>3. CASE Create(typed) \/ Set(typed)
  BY <1>1, <1>3 DEF Create, Set, Adds, Fails, Calls, Harmless
<1>4. CASE Delete(typed) \/ Move(typed)
  BY <1>1, <1>4 DEF Delete, Move, Removes, Fails, Backend, Calls, Harmless
<1>5. CASE Get(typed)
  BY <1>1, <1>5 DEF Get, BeginGet, Harmless
<1> QED
  BY <1>2, <1>3, <1>4, <1>5

\* `prepare` and `exec <path>` either leave the backend alone or ask it and end the input.
LEMMA RpcSteps ==
  ASSUME IInv, NEW typed \in Typed,
         \/ PrepareSucceeds(typed) \/ PrepareThrows(typed) \/ PrepareRefused(typed)
         \/ ExecPathSucceeds(typed) \/ ExecPathThrows(typed) \/ ExecPathRefused(typed)
  PROVE  Harmless \/ Asking
<1>1. call.op = "none"
  BY DEF PrepareSucceeds, PrepareThrows, PrepareRefused, ExecPathSucceeds, ExecPathThrows,
         ExecPathRefused, Reads, IInv, ReadingIsQuiet
<1>2. CASE ExecPathSucceeds(typed)
  BY <1>2 DEF ExecPathSucceeds, Execute, Calls, ResetInput, Asking
<1>3. CASE ~ExecPathSucceeds(typed)
  BY <1>1, <1>3 DEF PrepareSucceeds, PrepareThrows, PrepareRefused, ExecPathThrows,
     ExecPathRefused, InitiateThrows, InitiateOnNull, Fails, Harmless
<1> QED
  BY <1>2, <1>3

\* The main loop, the reading commands, `exec` and `cancel` do one of the same two things.
LEMMA OtherSteps ==
  ASSUME IInv, \/ Prompt \/ NothingToDo \/ Quit \/ Cancel \/ GetHere \/ GetItems \/ LeaveGet
               \/ Dump \/ Exec \/ \E t \in Typed : ParseFromNowhere(t)
  PROVE  Harmless \/ Asking
<1>1. CASE Prompt
  BY <1>1 DEF Prompt, NoCall, Harmless
<1>2. CASE GetItems \/ LeaveGet
  BY <1>2 DEF GetItems, LeaveGet, IInv, ReadingIsQuiet, Harmless
<1>3. CASE status = "reading" /\ call.op = "none"
  <2>1. CASE NothingToDo \/ Quit \/ Cancel \/ \E t \in Typed : ParseFromNowhere(t)
    BY <1>3, <2>1 DEF NothingToDo, Quit, Cancel, ParseFromNowhere, Fails, Harmless
  <2>2. CASE GetHere \/ Dump
    BY <1>3, <2>2 DEF GetHere, Dump, BeginGet, Backend, Calls, Harmless
  <2>3. CASE Exec
    BY <1>3, <2>3 DEF Exec, Execute, Calls, ResetInput, Fails, Harmless, Asking
  <2> QED
    BY <1>1, <1>2, <2>1, <2>2, <2>3
<1> QED
  BY <1>1, <1>2, <1>3 DEF NothingToDo, Quit, Cancel, ParseFromNowhere, GetHere, Dump, Exec, IInv,
     ReadingIsQuiet

\* What concerns a whole datastore, and `switch`, happens out of an input only.
LEMMA DatastoreSteps ==
  ASSUME IInv, Commit \/ Discard \/ Copy \/ \E ds \in Targets : Switch(ds)
  PROVE  Harmless \/ ForTheWholeDatastore
<1>1. call.op = "none"
  BY DEF Commit, Discard, Copy, WholeDatastore, Switch, IInv, ReadingIsQuiet
<1>2. CASE Commit \/ Discard \/ Copy
  BY <1>1, <1>2 DEF Commit, Discard, Copy, WholeDatastore, Fails, Backend, Calls, Harmless,
     ForTheWholeDatastore
<1>3. CASE \E ds \in Targets : Switch(ds)
  BY <1>1, <1>3 DEF Switch, Fails, NoCall, Harmless, ForTheWholeDatastore
<1> QED
  BY <1>2, <1>3

\* Every step of the session is of one of the three kinds.
LEMMA EveryStep == IInv /\ Next => StepKind
BY EditSteps, RpcSteps, OtherSteps, DatastoreSteps DEF Next, StepKind

(***************************************************************************)
(* The theorems                                                            *)
(***************************************************************************)

\* Type correctness of the session, for every schema and every typed path.
THEOREM SessionTypeOK == Spec => []TypeOK
BY SpecIInv, PTL DEF IInv

\* Nothing of an earlier or abandoned input is ever sent with an RPC.
THEOREM SessionSendsOnlyEntered == Spec => []OnlyEnteredIsSent
BY SpecIInv, PTL DEF IInv

\* The temporary datastore only takes paths that begin with its RPC's path.
THEOREM SessionInputHoldsOnlyItsRpc == Spec => []InputHoldsOnlyItsRpc
BY SpecIInv, PTL DEF IInv

\* No commit, discard, copy or switch gets through during an input.
THEOREM SessionSettledDuringInput == Spec => SettledDuringInput
<1>1. IInv /\ [Next]_vars =>
        [inputPath # None =>
           call'.op \notin {"commitChanges", "discardChanges", "copyConfig", "setTarget"}]_vars
  BY EveryStep DEF StepKind, Harmless, ForTheWholeDatastore, Asking
<1> QED
  BY <1>1, SpecIInv, PTL DEF Spec, SettledDuringInput

\* A `get` reads the datastore it names, and every other request finds the target the
\* user chose, for every number of targets and every way a `get` ends.
THEOREM SessionActsOnChosenTarget == Spec => []ActsOnChosenTarget
BY SpecIInv, PTL DEF IInv

\* Asking the server ends the input, whatever it answers.
THEOREM SessionAskingEndsInput == Spec => AskingEndsInput
<1>1. IInv /\ [Next]_vars =>
        [call'.op = "execute" =>
           inputPath' = None /\ inputDs' = NoStore /\ cwd' = Root]_vars
  BY EveryStep DEF StepKind, Harmless, ForTheWholeDatastore, Asking
<1> QED
  BY <1>1, SpecIInv, PTL DEF Spec, AskingEndsInput

=============================================================================
