---------------------------- MODULE MCCliSession ----------------------------
(***************************************************************************)
(* A small schema for the command line: an RPC with input (fire), a        *)
(* container whose name starts with the RPC's name (fireplace), a          *)
(* container with a list instance that carries an action with input        *)
(* (poke), and an action that has the name of a top-level RPC (reset).     *)
(***************************************************************************)
EXTENDS CliSession

MCUp == ".."
MCNode == {"fire", "fireplace", "cont", "item", "log", "bad", "poke", "reset", "leaf"}

\* "fireplace" is the one text that starts with another one.
MCTextStarts == {<<n, n>> : n \in MCNode} \cup {<<"fireplace", "fire">>}
ExactTextStarts == {<<n, n>> : n \in MCNode}

MCTextLen == [n \in MCNode \cup {MCUp} |->
                CASE n = "fireplace" -> 4 [] n = MCUp -> 1 [] OTHER -> 2]

MCKind ==
  (<<"fire">>                         :> "rpc") @@
  (<<"fire", "leaf">>                 :> "leaf") @@
  (<<"fire", "item">>                 :> "entry") @@
  (<<"fire", "item", "leaf">>         :> "leaf") @@
  (<<"reset">>                        :> "rpc") @@
  (<<"cont">>                         :> "presence") @@
  (<<"cont", "reset">>                :> "rpc") @@
  (<<"cont", "item">>                 :> "entry") @@
  (<<"cont", "item", "poke">>         :> "rpc") @@
  (<<"cont", "item", "poke", "leaf">> :> "leaf") @@
  (<<"cont", "bad">>                  :> "entry") @@
  (<<"cont", "bad", "poke">>          :> "rpc") @@
  (<<"cont", "bad", "reset">>         :> "rpc") @@
  (<<"fireplace">>                    :> "container") @@
  (<<"fireplace", "log">>             :> "entry")

MCSchema == DOMAIN MCKind
MCNoInput == {<<"reset">>, <<"cont", "reset">>, <<"cont", "bad", "reset">>}

\* An instance of the list with a key that libyang does not take.
MCRefused == {<<"cont", "bad">>, <<"cont", "bad", "poke">>, <<"cont", "bad", "reset">>}

MCTargets == {"running", "startup"}

-----------------------------------------------------------------------------
Rel(nodes) == [abs |-> FALSE, nodes |-> nodes]
Abs(nodes) == [abs |-> TRUE, nodes |-> nodes]

\* The root, every path of one node, relative paths that go up first, and every path of
\* the schema typed as an absolute one.
CleanTyped ==
  {Rel(<<n>>) : n \in MCNode \cup {MCUp}} \cup
  {Rel(<<MCUp, n>>) : n \in {"item", "reset", "cont", MCUp}} \cup
  {Rel(<<"item", "poke">>), Rel(<<MCUp, MCUp, "fireplace">>)} \cup
  {Abs(path) : path \in MCSchema \cup {Root}}

\* Absolute paths that go up: out of the RPC, into it, to nowhere.
MCTyped ==
  CleanTyped \cup
  {Abs(<<"fire", MCUp, "cont", "item">>), Abs(<<"cont", MCUp, "fire">>),
   Abs(<<"cont", MCUp, "fireplace">>), Abs(<<MCUp>>)}

=============================================================================
