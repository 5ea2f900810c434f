------------------------------ MODULE Backends ------------------------------
(***************************************************************************)
(* Which datastore of the server each command reads or writes:             *)
(* sysrepo_access.cpp and netconf_access.cpp with and without NMDA.        *)
(*                                                                         *)
(* A datastore is a function from leaves to what they hold.  External,     *)
(* modelled from how they are used: a sysrepo session, which keeps the     *)
(* edits of each datastore apart until they are applied to the one it is   *)
(* switched to, and a NETCONF server, whose candidate is a copy of running *)
(* from its first edit until it is committed or discarded.                 *)
(***************************************************************************)
CONSTANTS
  Backend,    \* the programs considered: of "sysrepo", "nmda" and "netconf"
  Leaf,       \* the leaves of the configuration
  Value,      \* what a leaf can be set to
  Absent,     \* a leaf that is not there
  Untouched,  \* a leaf no edit is about
  Clean       \* a candidate without edits

Config == {"running", "startup"}
DatastoreTarget == Config \cup {"operational"}
Content == Value \cup {Absent}

ASSUME BackendsAssumption ==
  /\ Backend \subseteq {"sysrepo", "nmda", "netconf"}
  /\ Absent \notin Value /\ Untouched \notin Content
  /\ Clean \notin [Leaf -> Content]

VARIABLES
  backend,    \* the class of the datastore, and m_serverHasNMDA
  m_target,
  held,       \* the server: the two configuration datastores
  session,    \* sysrepo: the datastore the session was last switched to
  edits,      \* sysrepo: the session's edits of each datastore
  candidate,  \* NETCONF: the candidate datastore
  asked,      \* history: the edits that wait for a commit, where `switch` says they go
  copied,     \* history: running was copied over since the candidate was taken from it
  request     \* the last command, and the datastore it read or wrote

server == <<held, session, edits, candidate>>
vars == <<backend, m_target, server, asked, copied, request>>

NoEdits == [leaf \in Leaf |-> Untouched]
Apply(edit, content) ==
  [leaf \in Leaf |-> IF edit[leaf] = Untouched THEN content[leaf] ELSE edit[leaf]]

\* What the help of `switch` says of a target.
ReadsFrom(target) == target
WritesTo(target) == IF target = "startup" THEN "startup" ELSE "running"

Init ==
  /\ backend \in Backend
  /\ m_target = "operational"
  /\ held = [ds \in Config |-> [leaf \in Leaf |-> Absent]]
  /\ session = "running"
  /\ edits = [ds \in Config |-> NoEdits]
  /\ candidate = Clean
  /\ asked = [ds \in Config |-> NoEdits]
  /\ copied = FALSE
  /\ request = [op |-> "none", ds |-> "running"]

\* setTarget, for `switch`, `get -datastore` and the option -d.
SetTarget(target) ==
  /\ m_target' = target
  /\ request' = [op |-> "switch", ds |-> target]
  /\ UNCHANGED <<backend, server, asked, copied>>

-----------------------------------------------------------------------------
(***************************************************************************)
(* SysrepoAccess.  What is asked of a session is about the datastore it is *)
(* switched to, and a request that throws leaves it switched.              *)
(***************************************************************************)
TargetToDsGet(target) == target

\* A mistake to be caught: the candidate, which the sources say does not work.
TargetToDsSetCandidate(target) == IF target = "startup" THEN "startup" ELSE "candidate"

TargetToDsSet(target) == IF target = "startup" THEN "startup" ELSE "running"

SwitchDatastore(op, ds) ==
  /\ backend = "sysrepo"
  /\ session' = ds
  /\ request' = [op |-> op, ds |-> ds]
  /\ UNCHANGED <<backend, m_target, candidate, copied>>

\* An edit, commit or discard that throws, and execute, which changes no datastore.
SysrepoThrows(op) ==
  /\ SwitchDatastore(op, TargetToDsSet(m_target))
  /\ UNCHANGED <<held, edits, asked>>

\* setLeaf, createItem, deleteItem, moveItem
SysrepoEdit(leaf, value) ==
  /\ SwitchDatastore("edit", TargetToDsSet(m_target))
  /\ edits' = [edits EXCEPT ![session'][leaf] = value]
  /\ asked' = [asked EXCEPT ![WritesTo(m_target)][leaf] = value]
  /\ UNCHANGED held

ApplyChanges(ds) ==
  /\ SwitchDatastore("commit", ds)
  /\ held' = [held EXCEPT ![ds] = Apply(edits[ds], @)]
  /\ edits' = [edits EXCEPT ![ds] = NoEdits]
  /\ asked' = [asked EXCEPT ![WritesTo(m_target)] = NoEdits]

\* A mistake to be caught: the session is not switched first.
SysrepoCommitHere == session \in Config /\ ApplyChanges(session)

SysrepoCommit == ApplyChanges(TargetToDsSet(m_target))

DropChanges(ds) ==
  /\ SwitchDatastore("discard", ds)
  /\ edits' = [edits EXCEPT ![ds] = NoEdits]
  /\ asked' = [asked EXCEPT ![WritesTo(m_target)] = NoEdits]
  /\ UNCHANGED held

\* A mistake to be caught: the session is not switched first.
SysrepoDiscardHere == session \in Config /\ DropChanges(session)

SysrepoDiscard == DropChanges(TargetToDsSet(m_target))

SysrepoGet ==
  /\ SwitchDatastore("get", TargetToDsGet(m_target))
  /\ UNCHANGED <<held, edits, asked>>

SysrepoCopy(source, destination) ==
  /\ SwitchDatastore("copy", destination)
  /\ held' \in {held, [held EXCEPT ![destination] = held[source]]}
  /\ UNCHANGED <<edits, asked>>

\* dump, and listInstances for a completion: wherever the session is.
SysrepoReads(op) ==
  /\ SwitchDatastore(op, session)
  /\ UNCHANGED <<held, edits, asked>>

-----------------------------------------------------------------------------
(***************************************************************************)
(* NetconfAccess.  Only a server with NMDA is told which datastore to edit *)
(* or read; what throws changes nothing.                                   *)
(***************************************************************************)
Draft == IF candidate = Clean THEN held["running"] ELSE candidate

NetconfRequest(op, ds) ==
  /\ backend \in {"nmda", "netconf"}
  /\ request' = [op |-> op, ds |-> ds]
  /\ UNCHANGED <<backend, m_target, session, edits>>

\* An edit, commit, discard or copy that throws, and execute.
NetconfThrows(op) ==
  /\ NetconfRequest(op, "running")
  /\ UNCHANGED <<held, candidate, asked, copied>>

\* doEditFromDataNode: the candidate, and with NMDA the startup datastore.
NetconfEdit(leaf, value) ==
  IF backend = "nmda" /\ m_target = "startup"
  THEN /\ NetconfRequest("edit", "startup")
       /\ held' = [held EXCEPT !["startup"][leaf] = value]
       /\ UNCHANGED <<candidate, asked, copied>>
  ELSE /\ NetconfRequest("edit", "running")
       /\ candidate' = [Draft EXCEPT ![leaf] = value]
       /\ asked' = [asked EXCEPT ![WritesTo(m_target)][leaf] = value]
       /\ UNCHANGED <<held, copied>>

NetconfCommit ==
  /\ NetconfRequest("commit", "running")
  /\ held' = [held EXCEPT !["running"] = Draft]
  /\ candidate' = Clean
  /\ asked' = [ds \in Config |-> NoEdits]
  /\ copied' = FALSE

NetconfDiscard ==
  /\ NetconfRequest("discard", "running")
  /\ candidate' = Clean
  /\ asked' = [ds \in Config |-> NoEdits]
  /\ copied' = FALSE
  /\ UNCHANGED held

NetconfCopy(source, destination) ==
  /\ NetconfRequest("copy", destination)
  /\ held' = [held EXCEPT ![destination] = held[source]]
  /\ copied' = (copied \/ (destination = "running" /\ candidate # Clean))
  /\ UNCHANGED <<candidate, asked>>

NetconfGet ==
  /\ NetconfRequest("get", IF backend = "nmda" THEN TargetToDsGet(m_target) ELSE "operational")
  /\ UNCHANGED <<held, candidate, asked, copied>>

\* dump and listInstances use <get>: the running configuration and the state.
NetconfReads(op) ==
  /\ NetconfRequest(op, "operational")
  /\ UNCHANGED <<held, candidate, asked, copied>>

-----------------------------------------------------------------------------
Failing == {"edit", "commit", "discard", "execute"}
Reading == {"dump", "listInstances"}

Sysrepo ==
  \/ \E leaf \in Leaf, value \in Content : SysrepoEdit(leaf, value)
  \/ SysrepoCommit
  \/ SysrepoDiscard
  \/ SysrepoGet
  \/ \E source \in Config : \E destination \in Config \ {source} : SysrepoCopy(source, destination)
  \/ \E op \in Reading : SysrepoReads(op)
  \/ \E op \in Failing : SysrepoThrows(op)

Netconf ==
  \/ \E leaf \in Leaf, value \in Content : NetconfEdit(leaf, value)
  \/ NetconfCommit
  \/ NetconfDiscard
  \/ NetconfGet
  \/ \E source \in Config : \E destination \in Config \ {source} : NetconfCopy(source, destination)
  \/ \E op \in Reading : NetconfReads(op)
  \/ \E op \in Failing \cup {"copy"} : NetconfThrows(op)

Next ==
  \/ \E target \in DatastoreTarget : SetTarget(target)
  \/ Sysrepo
  \/ Netconf

Spec == Init /\ [][Next]_vars

-----------------------------------------------------------------------------
(***************************************************************************)
(* Properties                                                              *)
(***************************************************************************)

\* The ranges of the state; the session is only ever switched to a datastore
\* that the command line can name.
TypeOK ==
  /\ backend \in Backend
  /\ m_target \in DatastoreTarget
  /\ held \in [Config -> [Leaf -> Content]]
  /\ session \in DatastoreTarget
  /\ edits \in [Config -> [Leaf -> Content \cup {Untouched}]]
  /\ candidate \in [Leaf -> Content] \cup {Clean}
  /\ asked \in [Config -> [Leaf -> Content \cup {Untouched}]]
  /\ copied \in BOOLEAN

\* `switch`: an edit is written, at once or by a commit, to the datastore that
\* the target it was made under writes to, unless it is discarded first; no
\* leaf of a configuration changes for another reason than such an edit or a
\* copy.  (A candidate taken before a copy restores what was there then.)
OnlyAskedIsWritten ==
  [][\A ds \in Config, leaf \in Leaf :
       held'[ds][leaf] # held[ds][leaf] =>
         \/ request'.op = "copy" /\ request'.ds = ds
         \/ request'.op = "edit" /\ WritesTo(m_target) = ds
         \/ request'.op = "commit" /\ asked[ds][leaf] = held'[ds][leaf]
         \/ request'.op = "commit" /\ ds = "running" /\ copied]_vars

\* `commit`: what waits for a commit where the target writes is there after
\* it, whatever was read, copied, refused or edited under other targets since.
CommitPublishes ==
  [][request'.op = "commit" /\ asked' # asked =>
       \A leaf \in Leaf :
         LET ds == WritesTo(m_target) IN
         asked[ds][leaf] # Untouched => held'[ds][leaf] = asked[ds][leaf]]_vars

=============================================================================
