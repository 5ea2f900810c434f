------------------------------ MODULE RpcInput ------------------------------
(***************************************************************************)
(* What `prepare`, `exec` and `cancel` promise: the input of an RPC or     *)
(* action is collected apart from the configuration.  While it is being    *)
(* collected the server is asked for no change; the one request that ends  *)
(* the collection carries exactly what was collected, and names the RPC    *)
(* the collection was begun for.                                           *)
(***************************************************************************)
CONSTANTS
  Rpcs,     \* the RPCs and actions
  Inputs,   \* for each of them, the nodes its input can have
  None      \* no RPC is being prepared

VARIABLES
  rpc,      \* the RPC being prepared
  input,    \* what has been entered for it
  request   \* the latest request for a change or an execution

vars == <<rpc, input, request>>

Quiet == [kind |-> "quiet", rpc |-> None, input |-> {}]
Change == [kind |-> "change", rpc |-> None, input |-> {}]
Execution(r, data) == [kind |-> "execution", rpc |-> r, input |-> data]

Init == rpc = None /\ input = {} /\ request = Quiet

Begin(r) ==
  /\ rpc = None
  /\ rpc' = r
  /\ input' = {r}
  /\ UNCHANGED request

Enter(nodes) ==
  /\ rpc # None
  /\ nodes \subseteq Inputs[rpc]
  /\ input' = input \cup nodes
  /\ UNCHANGED <<rpc, request>>

Withdraw(nodes) ==
  /\ rpc # None
  /\ input' = input \ nodes
  /\ UNCHANGED <<rpc, request>>

Send ==
  /\ rpc # None
  /\ request' = Execution(rpc, input)
  /\ rpc' = None
  /\ input' = {}

\* An RPC without input is executed at once.
SendAtOnce(r) ==
  /\ rpc = None
  /\ request' = Execution(r, {r})
  /\ UNCHANGED <<rpc, input>>

Abandon ==
  /\ rpc' = None
  /\ input' = {}
  /\ UNCHANGED request

\* Only out of an input is the configuration edited, committed, copied...
RequestChange ==
  /\ rpc = None
  /\ request' = Change
  /\ UNCHANGED <<rpc, input>>

BeQuiet == request' = Quiet /\ UNCHANGED <<rpc, input>>

Next ==
  \/ \E r \in Rpcs :
       \/ Begin(r)
       \/ SendAtOnce(r)
       \/ \E nodes \in SUBSET Inputs[r] : Enter(nodes) \/ Withdraw(nodes)
  \/ Send
  \/ Abandon
  \/ RequestChange
  \/ BeQuiet

Spec == Init /\ [][Next]_vars

=============================================================================
