--------------------------- MODULE BackendsProofs ---------------------------
(***************************************************************************)
(* Proofs about the backends that can reach the startup datastore.         *)
(***************************************************************************)
EXTENDS Backends, TLAPS

\* sysrepo keeps exactly the edits that the user waits to have committed.
EditsAreAsked == backend = "sysrepo" => edits = asked

\* With NMDA only running has edits that wait.  They are in the candidate, which
\* otherwise is as running was when it was taken.
CandidateIsAsked ==
  backend = "nmda" =>
    /\ asked["startup"] = NoEdits
    /\ candidate = Clean => asked["running"] = NoEdits
    /\ candidate # Clean =>
         \A leaf \in Leaf :
           /\ asked["running"][leaf] # Untouched => candidate[leaf] = asked["running"][leaf]
           /\ ~copied => candidate[leaf] \in {held["running"][leaf], asked["running"][leaf]}

IInv == TypeOK /\ EditsAreAsked /\ CandidateIsAsked

\* The two fields of a request, which the properties look at.
LEMMA RequestFields ==
  ASSUME NEW op, NEW ds
  PROVE  [op |-> op, ds |-> ds].op = op /\ [op |-> op, ds |-> ds].ds = ds
OBVIOUS

LEMMA InitIInv == Init => IInv
<1> SUFFICES ASSUME Init PROVE IInv
  OBVIOUS
<1>1. TypeOK
  BY DEF Init, TypeOK, Config, DatastoreTarget, Content, NoEdits
<1>2. EditsAreAsked /\ CandidateIsAsked
  BY DEF Init, EditsAreAsked, CandidateIsAsked, Config
<1> QED
  BY <1>1, <1>2 DEF IInv

\* The datastore an edit is made in is the one it was meant for.
LEMMA TargetsAgree ==
  ASSUME m_target \in DatastoreTarget
  PROVE  /\ TargetToDsSet(m_target) = WritesTo(m_target)
         /\ TargetToDsSet(m_target) \in Config
BY DEF DatastoreTarget, Config, TargetToDsSet, WritesTo

LEMMA EditTypes ==
  ASSUME NEW edit \in [Leaf -> Content \cup {Untouched}], NEW content \in [Leaf -> Content]
  PROVE  Apply(edit, content) \in [Leaf -> Content]
BY DEF Apply

LEMMA SysrepoKeepsIInv ==
  ASSUME IInv, Sysrepo
  PROVE  IInv'
<1> USE DEF IInv
<1>1. /\ backend = "sysrepo" /\ backend' = backend /\ m_target' = m_target
      /\ candidate' = candidate /\ copied' = copied
  BY DEF Sysrepo, SysrepoEdit, SysrepoCommit, SysrepoDiscard, SysrepoGet, SysrepoCopy,
         SysrepoReads, SysrepoThrows, ApplyChanges, DropChanges, SwitchDatastore
<1>2. CandidateIsAsked'
  BY <1>1 DEF CandidateIsAsked
<1>3. /\ TargetToDsSet(m_target) = WritesTo(m_target)
      /\ TargetToDsSet(m_target) \in Config
  BY TargetsAgree DEF TypeOK
<1>4. NoEdits \in [Leaf -> Content \cup {Untouched}]
  BY DEF NoEdits
<1>5. /\ session' \in DatastoreTarget
      /\ held' \in [Config -> [Leaf -> Content]]
      /\ edits' \in [Config -> [Leaf -> Content \cup {Untouched}]]
      /\ edits' = asked'
  <2>1. CASE \E leaf \in Leaf, value \in Content : SysrepoEdit(leaf, value)
    BY <1>1, <1>3, <2>1 DEF SysrepoEdit, SwitchDatastore, TypeOK, EditsAreAsked, DatastoreTarget
  <2>2. CASE SysrepoCommit
    BY <1>1, <1>3, <1>4, <2>2, EditTypes
       DEF SysrepoCommit, ApplyChanges, SwitchDatastore, TypeOK, EditsAreAsked, DatastoreTarget
  <2>3. CASE SysrepoDiscard
    BY <1>1, <1>3, <1>4, <2>3
       DEF SysrepoDiscard, DropChanges, SwitchDatastore, TypeOK, EditsAreAsked, DatastoreTarget
  <2>4. CASE SysrepoGet
    BY <1>1, <2>4 DEF SysrepoGet, SwitchDatastore, TargetToDsGet, TypeOK, EditsAreAsked
  <2>5. CASE \E source \in Config : \E destination \in Config \ {source} :
               SysrepoCopy(source, destination)
    BY <1>1, <2>5 DEF SysrepoCopy, SwitchDatastore, TypeOK, EditsAreAsked, DatastoreTarget
  <2>6. CASE \E op \in Reading : SysrepoReads(op)
    BY <1>1, <2>6 DEF SysrepoReads, SwitchDatastore, TypeOK, EditsAreAsked
  <2>7. CASE \E op \in Failing : SysrepoThrows(op)
    BY <1>1, <1>3, <2>7 DEF SysrepoThrows, SwitchDatastore, TypeOK, EditsAreAsked, DatastoreTarget
  <2> QED
    BY <2>1, <2>2, <2>3, <2>4, <2>5, <2>6, <2>7 DEF Sysrepo
<1> QED
  BY <1>1, <1>2, <1>5 DEF TypeOK, EditsAreAsked

LEMMA NetconfKeepsIInv ==
  ASSUME IInv, Netconf
  PROVE  IInv'
<1> DEFINE Types ==
      /\ held' \in [Config -> [Leaf -> Content]]
      /\ candidate' \in [Leaf -> Content] \cup {Clean}
      /\ asked' \in [Config -> [Leaf -> Content \cup {Untouched}]]
      /\ copied' \in BOOLEAN
<1> USE DEF IInv
<1>1. /\ backend \in {"nmda", "netconf"} /\ backend' = backend /\ m_target' = m_target
      /\ session' = session /\ edits' = edits
  BY DEF Netconf, NetconfEdit, NetconfCommit, NetconfDiscard, NetconfGet, NetconfCopy,
         NetconfReads, NetconfThrows, NetconfRequest
<1>2. EditsAreAsked'
  BY <1>1 DEF EditsAreAsked
<1>3. /\ NoEdits \in [Leaf -> Content \cup {Untouched}]
      /\ Draft \in [Leaf -> Content]
      /\ Clean \notin [Leaf -> Content]
      /\ WritesTo(m_target) \in Config
  BY BackendsAssumption DEF NoEdits, Draft, TypeOK, Config, WritesTo
<1>4. Types /\ CandidateIsAsked'
  <2>1. ASSUME NEW leaf \in Leaf, NEW value \in Content, NetconfEdit(leaf, value)
        PROVE  Types /\ CandidateIsAsked'
    <3>1. CASE backend = "nmda" /\ m_target = "startup"
      BY <1>1, <2>1, <3>1 DEF NetconfEdit, TypeOK, CandidateIsAsked, Config
    <3>2. CASE ~(backend = "nmda" /\ m_target = "startup")
      <4>1. /\ held' = held /\ copied' = copied
            /\ candidate' = [Draft EXCEPT ![leaf] = value]
            /\ asked' = [asked EXCEPT ![WritesTo(m_target)][leaf] = value]
        BY <1>1, <2>1, <3>2 DEF NetconfEdit
      <4>2. Types
        BY <1>3, <4>1 DEF TypeOK
      <4>3. ASSUME backend = "nmda", NEW other \in Leaf
            PROVE  /\ asked'["startup"] = asked["startup"]
                   /\ asked'["running"][other] # Untouched =>
                        candidate'[other] = asked'["running"][other]
                   /\ ~copied => candidate'[other] \in {held["running"][other],
                                                        asked'["running"][other]}
        BY <1>3, <3>2, <4>1, <4>3 DEF TypeOK, CandidateIsAsked, Config, Draft, NoEdits, WritesTo
      <4>4. CandidateIsAsked'
        BY <1>1, <1>3, <2>1, <4>1, <4>3 DEF TypeOK, CandidateIsAsked
      <4> QED
        BY <4>2, <4>4
    <3> QED
      BY <3>1, <3>2
  <2>2. CASE NetconfCommit
    BY <1>1, <1>3, <2>2 DEF NetconfCommit, TypeOK, CandidateIsAsked, Config
  <2>3. CASE NetconfDiscard
    BY <1>1, <1>3, <2>3 DEF NetconfDiscard, TypeOK, CandidateIsAsked, Config
  <2>4. CASE NetconfGet
    BY <1>1, <2>4 DEF NetconfGet, TypeOK, CandidateIsAsked
  <2>5. ASSUME NEW source \in Config, NEW destination \in Config \ {source},
               NetconfCopy(source, destination)
        PROVE  Types /\ CandidateIsAsked'
    BY <1>1, <1>3, <2>5 DEF NetconfCopy, TypeOK, CandidateIsAsked, Config
  <2>6. CASE \E op \in Reading : NetconfReads(op)
    BY <1>1, <2>6 DEF NetconfReads, TypeOK, CandidateIsAsked
  <2>7. CASE \E op \in Failing \cup {"copy"} : NetconfThrows(op)
    BY <1>1, <2>7 DEF NetconfThrows, TypeOK, CandidateIsAsked
  <2> QED
    BY <2>1, <2>2, <2>3, <2>4, <2>5, <2>6, <2>7 DEF Netconf
<1> QED
  BY <1>1, <1>2, <1>4 DEF TypeOK

LEMMA StepIInv ==
  ASSUME IInv, [Next]_vars
  PROVE  IInv'
<1>1. CASE \E target \in DatastoreTarget : SetTarget(target)
  BY <1>1 DEF SetTarget, server, IInv, TypeOK, EditsAreAsked, CandidateIsAsked
<1>2. CASE UNCHANGED vars
  BY <1>2 DEF vars, server, IInv, TypeOK, EditsAreAsked, CandidateIsAsked
<1> QED
  BY <1>1, <1>2, SysrepoKeepsIInv, NetconfKeepsIInv DEF Next

THEOREM BackendsIInv == Spec => []IInv
BY InitIInv, StepIInv, PTL DEF Spec

\* The ranges of the state, whatever the backend and the configuration.
THEOREM BackendsTypeOK == Spec => []TypeOK
<1>1. IInv => TypeOK
  BY DEF IInv
<1> QED
  BY <1>1, BackendsIInv, PTL

-----------------------------------------------------------------------------
\* What a commit writes, for each leaf that it changes.
LEMMA CommitWritesAsked ==
  ASSUME IInv, backend # "netconf", SysrepoCommit \/ NetconfCommit,
         NEW ds \in Config, NEW leaf \in Leaf
  PROVE  /\ held'[ds][leaf] # held[ds][leaf] =>
              asked[ds][leaf] = held'[ds][leaf] \/ (ds = "running" /\ copied)
         /\ ds = WritesTo(m_target) /\ asked[ds][leaf] # Untouched =>
              held'[ds][leaf] = asked[ds][leaf]
<1> USE DEF IInv
<1>1. CASE SysrepoCommit
  <2>1. TargetToDsSet(m_target) = WritesTo(m_target) /\ WritesTo(m_target) \in Config
    BY TargetsAgree DEF TypeOK
  <2>2. held' = [held EXCEPT ![WritesTo(m_target)] = Apply(asked[WritesTo(m_target)], @)]
    BY <1>1, <2>1 DEF SysrepoCommit, ApplyChanges, SwitchDatastore, EditsAreAsked
  <2> QED
    BY <2>1, <2>2 DEF Apply, TypeOK
<1>2. CASE NetconfCommit
  <2>1. backend = "nmda" /\ held' = [held EXCEPT !["running"] = Draft]
    BY <1>2 DEF NetconfCommit, NetconfRequest
  <2> QED
    BY <2>1 DEF CandidateIsAsked, Draft, NoEdits, TypeOK, Config, WritesTo
<1> QED
  BY <1>1, <1>2

\* The commands that write, and what each leaves behind.
LEMMA Writers ==
  ASSUME [Next]_vars
  PROVE  \/ held' = held /\ (request'.op = "commit" => asked' = asked)
         \/ SysrepoCommit \/ NetconfCommit
         \/ \E source \in Config, destination \in Config :
              SysrepoCopy(source, destination) \/ NetconfCopy(source, destination)
         \/ \E leaf \in Leaf, value \in Content : NetconfEdit(leaf, value)
<1>1. CASE UNCHANGED vars
  BY <1>1 DEF vars, server
<1>2. CASE \E target \in DatastoreTarget : SetTarget(target)
  BY <1>2 DEF SetTarget, server
<1>3. CASE Sysrepo
  BY <1>3 DEF Sysrepo, SysrepoEdit, SysrepoDiscard, SysrepoGet, SysrepoReads, SysrepoThrows,
              DropChanges, SwitchDatastore
<1>4. CASE Netconf
  BY <1>4 DEF Netconf, NetconfDiscard, NetconfGet, NetconfReads, NetconfThrows, NetconfRequest
<1> QED
  BY <1>1, <1>2, <1>3, <1>4 DEF Next

\* Unless the server lacks NMDA, an edit is written where the help of `switch`
\* says, by the commit it waits for, and nothing else is written but by a copy.
THEOREM BackendsOnlyAskedIsWritten ==
  "netconf" \notin Backend => (Spec => OnlyAskedIsWritten)
<1> DEFINE Right(ds, leaf) ==
      held'[ds][leaf] # held[ds][leaf] =>
        \/ request'.op = "copy" /\ request'.ds = ds
        \/ request'.op = "edit" /\ WritesTo(m_target) = ds
        \/ request'.op = "commit" /\ asked[ds][leaf] = held'[ds][leaf]
        \/ request'.op = "commit" /\ ds = "running" /\ copied
<1> SUFFICES ASSUME "netconf" \notin Backend PROVE Spec => OnlyAskedIsWritten
  OBVIOUS
<1>1. ASSUME IInv, [Next]_vars, NEW ds \in Config, NEW leaf \in Leaf
      PROVE  Right(ds, leaf)
  <2>0. TypeOK /\ backend # "netconf"
    BY <1>1 DEF IInv, TypeOK
  <2>1. CASE held' = held
    BY <2>1
  <2>2. CASE SysrepoCommit \/ NetconfCommit
    <3>1. request'.op = "commit"
      BY <2>2 DEF SysrepoCommit, ApplyChanges, SwitchDatastore, NetconfCommit, NetconfRequest
    <3> QED
      BY <1>1, <2>0, <2>2, <3>1, CommitWritesAsked
  <2>3. ASSUME NEW source \in Config, NEW destination \in Config,
               SysrepoCopy(source, destination) \/ NetconfCopy(source, destination)
        PROVE  Right(ds, leaf)
    <3>1. /\ request'.op = "copy" /\ request'.ds = destination
          /\ held' \in {held, [held EXCEPT ![destination] = held[source]]}
      BY <2>3 DEF SysrepoCopy, SwitchDatastore, NetconfCopy, NetconfRequest
    <3> QED
      BY <2>0, <3>1 DEF TypeOK
  <2>4. ASSUME NEW other \in Leaf, NEW value \in Content, NetconfEdit(other, value)
        PROVE  Right(ds, leaf)
    <3>1. CASE backend = "nmda" /\ m_target = "startup"
      BY <2>0, <2>4, <3>1 DEF NetconfEdit, NetconfRequest, TypeOK, WritesTo, Config
    <3>2. CASE ~(backend = "nmda" /\ m_target = "startup")
      BY <2>4, <3>2 DEF NetconfEdit
    <3> QED
      BY <3>1, <3>2
  <2> QED
    BY <1>1, <2>1, <2>2, <2>3, <2>4, Writers
<1>2. IInv /\ [Next]_vars =>
        [\A ds \in Config, leaf \in Leaf : Right(ds, leaf)]_vars
  BY <1>1
<1>3. Spec => [][\A ds \in Config, leaf \in Leaf : Right(ds, leaf)]_vars
  BY <1>2, BackendsIInv, PTL DEF Spec
<1> QED
  BY <1>3 DEF OnlyAskedIsWritten

\* Unless the server lacks NMDA, a commit that is not refused publishes what
\* waits for it, whatever happened between the edits and the commit.
THEOREM BackendsCommitPublishes ==
  "netconf" \notin Backend => (Spec => CommitPublishes)
<1> DEFINE Published ==
      request'.op = "commit" /\ asked' # asked =>
        \A leaf \in Leaf :
          LET ds == WritesTo(m_target) IN
          asked[ds][leaf] # Untouched => held'[ds][leaf] = asked[ds][leaf]
<1> SUFFICES ASSUME "netconf" \notin Backend PROVE Spec => CommitPublishes
  OBVIOUS
<1>1. ASSUME IInv, [Next]_vars
      PROVE  Published
  <2>0. backend # "netconf" /\ WritesTo(m_target) \in Config
    BY <1>1 DEF IInv, TypeOK, WritesTo, Config
  <2>1. CASE SysrepoCommit \/ NetconfCommit
    BY <1>1, <2>0, <2>1, CommitWritesAsked
  <2>2. CASE request'.op # "commit" \/ asked' = asked
    BY <2>2
  <2>3. ASSUME NEW source \in Config, NEW destination \in Config,
               SysrepoCopy(source, destination) \/ NetconfCopy(source, destination)
        PROVE  request'.op # "commit"
    BY <2>3 DEF SysrepoCopy, SwitchDatastore, NetconfCopy, NetconfRequest
  <2>4. ASSUME NEW leaf \in Leaf, NEW value \in Content, NetconfEdit(leaf, value)
        PROVE  request'.op # "commit"
    BY <2>4 DEF NetconfEdit, NetconfRequest
  <2> QED
    BY <1>1, <2>1, <2>2, <2>3, <2>4, Writers
<1>2. IInv /\ [Next]_vars => [Published]_vars
  BY <1>1
<1>3. Spec => [][Published]_vars
  BY <1>2, BackendsIInv, PTL DEF Spec
<1> QED
  BY <1>3 DEF CommitPublishes

=============================================================================
