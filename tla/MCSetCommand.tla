---------------------------- MODULE MCSetCommand ----------------------------
(***************************************************************************)
(* Two modules, the second of which augments the first with a container    *)
(* and a leaf that have the names of others, and has a container of its    *)
(* own; a list with one key; a read-only subtree; types of every base, and *)
(* unions whose members read the beginnings of each other's values.        *)
(***************************************************************************)
EXTENDS SetCommand

m1(name) == <<"m1", name>>
m2(name) == <<"m2", name>>

MCSchemaNode == {
  <<m1("box")>>, <<m1("box"), m1("in")>>, <<m1("box"), m1("in"), m1("val")>>,
  <<m1("box"), m2("in")>>, <<m1("box"), m2("in"), m2("in")>>, <<m1("box"), m2("in"), m2("val")>>,
  <<m1("box"), m1("val")>>, <<m1("box"), m2("val")>>,
  <<m1("box"), m1("state")>>, <<m1("box"), m1("state"), m1("val")>>,
  <<m1("item")>>, <<m1("item"), m1("id")>>, <<m1("item"), m1("val")>>,
  <<m2("box")>>, <<m2("val")>>, <<<<"lib", "box">>>>}

MCKind == [node \in MCSchemaNode |->
  CASE Last(node)[2] \in {"val", "id"} -> "leaf"
    [] Last(node)[2] = "item" -> "list"
    [] OTHER -> "container"]

MCConfig == {node \in MCSchemaNode : \A i \in DOMAIN node : node[i][2] # "state"}

Step(module, name) == Fragment(module, name, << >>)
None(name) == Step("none", name)
Box == Step("m1", "box")
Item(key) == Fragment("m1", "item", key)
MCUp == None("..")

Absolute == {
  << >>, <<Box, Step("m1", "in")>>, <<Box, None("in"), None("val")>>,
  <<Box, Step("m2", "in"), Step("m2", "val")>>, <<Step("m2", "val")>>, <<Step("m2", "box")>>,
  <<Item(<<"fast">>), None("val")>>, <<Box, None("state"), None("val")>>}
Relative == {
  <<MCUp>>, <<MCUp, None("in")>>, <<Box>>, <<None("in")>>, <<Step("m2", "in")>>,
  <<None("val")>>, <<Step("m1", "val")>>, <<Step("m2", "val")>>,
  <<MCUp, Step("m2", "in"), Step("m2", "val")>>,
  <<Box, Step("m1", "in"), None("val")>>,
  <<Item(<<"m1", ":", "fast">>)>>}
MCTyped == [abs : {TRUE}, nodes : Absolute] \cup [abs : {FALSE}, nodes : Relative]

MCValueOf == ("0" :> 0) @@ ("5" :> 5) @@ ("128" :> 128) @@ ("256" :> 256)
MCSixDigits == ("0" :> "000000") @@ ("5" :> "500000") @@ ("128" :> "128000") @@ ("256" :> "256000")

Union(members) == [base |-> "union", members |-> members]
Enum(names) == [base |-> "enum", names |-> names]
MCTypeInfo ==
  ("uint8" :> [base |-> "unsigned", max |-> 255]) @@
  ("int8" :> [base |-> "signed", max |-> 127]) @@
  ("dec" :> [base |-> "decimal"]) @@
  ("bool" :> [base |-> "bool"]) @@
  ("str" :> [base |-> "string"]) @@
  ("bin" :> [base |-> "binary"]) @@
  ("speed" :> Enum({<<"fast">>, <<"fast", "er">>, <<"slow">>})) @@
  ("gear" :> Enum({<<"5", "er">>, <<"slow">>})) @@
  ("kind" :> [base |-> "identityref",
              identities |-> {<<"m1", <<"fast">>>>, <<"m2", <<"fast", "er">>>>, <<"m1", <<"slow">>>>,
                              <<"m2", <<"slow", "er">>>>}]) @@
  ("flags" :> [base |-> "bits", names |-> {<<"fast">>, <<"slow">>}]) @@
  ("empty" :> [base |-> "empty"]) @@
  ("iid" :> [base |-> "instance-identifier"]) @@
  ("ref" :> [base |-> "leafref", target |-> "numbers"]) @@
  ("numbers" :> Union(<<"uint8", "dec">>)) @@
  ("names" :> Union(<<"bool", "kind", "speed", "str">>)) @@
  ("resource" :> Union(<<"iid", "kind", "str">>)) @@
  ("place" :> Union(<<"iid", "kind">>)) @@
  ("options" :> Union(<<"gear", "flags", "speed">>)) @@
  ("nested" :> Union(<<"int8", "ref", "gear", "empty", "str">>))

MCType == DOMAIN MCTypeInfo
MCNoKey == << >>

MCTexts == {
  << >>, <<"5">>, <<"128">>, <<"256">>, <<"-", "5">>, <<"-", "128">>, <<"+", "5">>,
  <<"5", ".", "128">>, <<".", "5">>, <<"5", "er">>, <<"true">>,
  <<"fast">>, <<"fast", "er">>, <<"slow">>, <<"slow", "er">>, <<"m1", ":", "fast">>, <<"m2", ":", "fast", "er">>,
  <<"m2", ":", "fast">>, <<"m1", ":">>, <<"'", "fast", "'">>, <<"'", "fast">>,
  <<"fast", " ">>, <<"fast", " ", "slow">>, <<"fast", " ", "fast">>, <<"fast", "=">>,
  <<"/m1:box">>, <<"/nowhere">>}

=============================================================================
