-------------------------- MODULE SchemaNodesProofs --------------------------
(***************************************************************************)
(* However a path is spelled, it stands for one node: for the program,     *)
(* which completes a fragment with the module of the path's first one, and *)
(* for libyang, which takes that of the node above.                        *)
(***************************************************************************)
EXTENDS SchemaNodes, WellFoundedInduction, SequenceTheorems, TLAPS

\* A fragment typed for step i of a node: with its module, or without it where that
\* is the module of the top-level node.
SpellsStep(fragment, node, i) ==
  /\ fragment = Fragment(fragment.prefix, fragment.name, fragment.key)
  /\ fragment.name = node[i][2]
  /\ \/ fragment.prefix = node[i][1]
     \/ i > 1 /\ fragment.prefix = NoModule /\ node[i][1] = node[1][1]

\* A path typed for a node, one fragment for each of its steps.
Spells(path, node) ==
  /\ node \in SchemaNode \cup {Root}
  /\ path \in Seq({path[i] : i \in DOMAIN path}) /\ Len(path) = Len(node)
  /\ \A i \in 1 .. Len(node) : SpellsStep(path[i], node, i)

-----------------------------------------------------------------------------
(***************************************************************************)
(* Least and greatest elements                                             *)
(***************************************************************************)
LEMMA LeastExists ==
  ASSUME NEW T, T \subseteq Nat, T # {}
  PROVE  \E m \in T : \A k \in T : ~(k < m)
<1> DEFINE R == OpToRel(<, Nat)
<1>1. PICK m \in T : \A k \in T : <<k, m>> \notin R
  <2> HIDE DEF R
  <2>1. IsWellFoundedOn(R, Nat)
    BY NatLessThanWellFounded DEF R
  <2> QED
    BY <2>1, WFMin
<1>2. \A k \in T : ~(k < m)
  <2> SUFFICES ASSUME NEW k \in T, k < m PROVE FALSE
    OBVIOUS
  <2>1. <<k, m>> \in R
    BY DEF OpToRel
  <2> QED
    BY <1>1, <2>1
<1> QED
  BY <1>2

LEMMA GreatestExists ==
  ASSUME NEW n \in Nat, NEW S, S \subseteq 0 .. n, S # {}
  PROVE  \E x \in S : \A y \in S : x >= y
<1> DEFINE T == {n - x : x \in S}
<1>1. T \subseteq Nat /\ T # {}
  <2>1. PICK x \in S : TRUE
    OBVIOUS
  <2>2. n - x \in T
    OBVIOUS
  <2>3. \A y \in S : n - y \in Nat
    OBVIOUS
  <2> QED
    BY <2>2, <2>3
<1>2. PICK t \in T : \A u \in T : ~(u < t)
  <2> HIDE DEF T
  <2> QED
    BY <1>1, LeastExists
<1>3. PICK x \in S : t = n - x
  OBVIOUS
<1>4. \A y \in S : x >= y
  <2> TAKE y \in S
  <2>1. ~(n - y < n - x)
    BY <1>2, <1>3
  <2>2. x \in 0 .. n /\ y \in 0 .. n
    BY <1>3
  <2> QED
    BY <2>1, <2>2
<1> QED
  BY <1>4

LEMMA MaxIsGreatest ==
  ASSUME NEW n \in Nat, NEW S, S \subseteq 0 .. n, S # {}
  PROVE  Max(S) \in S /\ \A y \in S : Max(S) >= y
BY GreatestExists DEF Max

-----------------------------------------------------------------------------
(***************************************************************************)
(* Nodes and their paths                                                   *)
(***************************************************************************)
LEMMA FrontOfSequence ==
  ASSUME NEW T, NEW s \in Seq(T), s # << >>
  PROVE  /\ Front(s) \in Seq(T)
         /\ Len(s) \in Nat \ {0} /\ Len(Front(s)) = Len(s) - 1
         /\ \A i \in 1 .. Len(s) - 1 : Front(s)[i] = s[i]
<1> DEFINE n == Len(s) - 1
<1>1. Len(s) \in Nat /\ n \in Nat /\ \A i \in 1 .. n : s[i] \in T
  OBVIOUS
<1>2. Front(s) = SubSeq(s, 1, n)
  BY DEF Front
<1> HIDE DEF n
<1>3. /\ SubSeq(s, 1, n) \in Seq(T)
      /\ Len(SubSeq(s, 1, n)) = IF 1 <= n THEN n - 1 + 1 ELSE 0
      /\ \A i \in 1 .. n - 1 + 1 : SubSeq(s, 1, n)[i] = s[1 + i - 1]
  BY <1>1, SubSeqProperties
<1>4. n - 1 + 1 = n /\ \A i \in 1 .. n : 1 + i - 1 = i
  BY <1>1
<1>5. /\ Front(s) \in Seq(T)
      /\ Len(Front(s)) = n
      /\ \A i \in 1 .. n : Front(s)[i] = s[i]
  BY <1>1, <1>2, <1>3, <1>4
<1> QED
  BY <1>1, <1>5 DEF n

LEMMA NodeIsItsSteps ==
  ASSUME NEW node \in SchemaNode \cup {Root}
  PROVE  /\ Len(node) \in Nat /\ DOMAIN node = 1 .. Len(node)
         /\ node = [i \in 1 .. Len(node) |-> <<node[i][1], node[i][2]>>]
         /\ \A i \in 1 .. Len(node) : node[i][1] # NoModule
<1>1. CASE node \in SchemaNode
  BY <1>1, SchemaNodeAssumption
<1>2. CASE node = Root
  <2>1. Len(node) = 0 /\ node = << >> /\ DOMAIN node = {}
    BY <1>2 DEF Root
  <2>2. 1 .. 0 = {}
    OBVIOUS
  <2> QED
    BY <2>1, <2>2
<1> QED
  BY <1>1, <1>2

\* Between a fragment and the nearest one before it that has a module, all nodes
\* are of the top-level module, and so is that one.
LEMMA NearestModule ==
  ASSUME NEW path, NEW node, Spells(path, node), NEW i \in 1 .. Len(node)
  PROVE  path[Max({j \in 1 .. i : path[j].prefix # NoModule})].prefix = node[i][1]
<1> DEFINE S == {j \in 1 .. i : path[j].prefix # NoModule}
<1> USE NodeIsItsSteps DEF Spells, SpellsStep
<1>1. i \in Nat /\ 1 \in 1 .. i /\ 1 \in 1 .. Len(node) /\ \A j \in 1 .. i : j \in 1 .. Len(node)
  OBVIOUS
<1>2. 1 \in S
  BY <1>1
<1>3. PICK j \in S : j = Max(S) /\ \A k \in S : j >= k
  <2>1. S \subseteq 0 .. i
    BY <1>1
  <2> QED
    BY <1>1, <1>2, <2>1, MaxIsGreatest
<1>4. path[j].prefix = node[j][1]
  BY <1>1, <1>3
<1>5. CASE i \in S
  <2>1. j \in 1 .. i
    BY <1>3
  <2> HIDE DEF S
  <2>2. j >= i
    BY <1>3, <1>5
  <2>3. j = i
    BY <1>1, <2>1, <2>2
  <2>4. path[Max(S)].prefix = node[i][1]
    BY <1>3, <1>4, <2>3
  <2> QED
    BY <2>4 DEF S
<1>6. CASE i \notin S
  <2>1. node[i][1] = node[1][1]
    BY <1>1, <1>6
  <2>2. node \in SchemaNode
    BY <1>1 DEF Root
  <2>3. node[j][1] = node[1][1]
    BY <1>1, <2>1, <2>2, SchemaNodeAssumption
  <2> QED
    BY <1>3, <1>4, <2>1, <2>3
<1> QED
  BY <1>5, <1>6

\* libyang finds the node a path is spelled from.
LEMMA SpelledIsFound ==
  ASSUME NEW path, NEW node, Spells(path, node)
  PROVE  NodeAt(path) = node
<1> DEFINE Nearest(i) == Max({j \in 1 .. i : path[j].prefix # NoModule})
           steps == [i \in DOMAIN path |-> <<path[Nearest(i)].prefix, path[i].name>>]
<1>1. node \in SchemaNode \cup {Root} /\ DOMAIN path = 1 .. Len(node)
  BY DEF Spells
<1>2. \A i \in 1 .. Len(node) : path[Nearest(i)].prefix = node[i][1] /\ path[i].name = node[i][2]
  <2> TAKE i \in 1 .. Len(node)
  <2>1. path[Nearest(i)].prefix = node[i][1]
    BY NearestModule
  <2>2. path[i].name = node[i][2]
    BY DEF Spells, SpellsStep
  <2> QED
    BY <2>1, <2>2
<1>3. steps = node
  <2>1. steps = [i \in 1 .. Len(node) |-> <<node[i][1], node[i][2]>>]
    BY <1>1, <1>2
  <2> QED
    BY <1>1, <2>1, NodeIsItsSteps
<1>4. ~ \E i \in DOMAIN path : \A j \in 1 .. i : path[j].prefix = NoModule
  <2> SUFFICES ASSUME NEW i \in 1 .. Len(node) PROVE path[1].prefix # NoModule /\ 1 \in 1 .. i
    BY <1>1
  <2> QED
    BY NodeIsItsSteps DEF Spells, SpellsStep
<1> HIDE DEF steps
<1>5. NodeAt(path) = IF steps \in SchemaNode \cup {Root} THEN steps ELSE NoNode
  BY <1>4 DEF NodeAt, steps
<1> QED
  BY <1>1, <1>3, <1>5

\* pathToSchemaString completes a path to another one for the same node.
LEMMA CompletedIsSpelled ==
  ASSUME NEW path, NEW node, Spells(path, node)
  PROVE  Spells(Always(path), node)
<1> DEFINE full == Always(path)
<1>1. DOMAIN path = 1 .. Len(node) /\ DOMAIN full = 1 .. Len(node) /\ Len(node) \in Nat
  BY NodeIsItsSteps DEF Spells, Always
<1>2. \A i \in 1 .. Len(node) : SpellsStep(full[i], node, i)
  <2> TAKE i \in 1 .. Len(node)
  <2>1. full[i] = IF path[i].prefix = NoModule THEN [path[i] EXCEPT !.prefix = path[1].prefix] ELSE path[i]
    BY <1>1 DEF Always
  <2>2. SpellsStep(path[i], node, i) /\ SpellsStep(path[1], node, 1)
    BY <1>1 DEF Spells
  <2>3. path[1].prefix = node[1][1]
    BY <2>2 DEF SpellsStep
  <2> HIDE DEF full
  <2>4. CASE path[i].prefix = NoModule
    <3>1. full[i] = [path[i] EXCEPT !.prefix = node[1][1]]
      BY <2>1, <2>3, <2>4
    <3>2. full[i] = Fragment(node[1][1], path[i].name, path[i].key)
      BY <2>2, <3>1 DEF SpellsStep, Fragment
    <3>3. node[i][1] = node[1][1]
      BY <2>2, <2>4, NodeIsItsSteps DEF Spells, SpellsStep
    <3> QED
      BY <2>2, <3>2, <3>3 DEF SpellsStep, Fragment
  <2>5. CASE path[i].prefix # NoModule
    BY <2>1, <2>2, <2>5
  <2> QED
    BY <2>4, <2>5
<1>3. full \in Seq({full[i] : i \in DOMAIN full}) /\ Len(full) = Len(node)
  BY <1>1 DEF Always
<1> QED
  BY <1>2, <1>3 DEF Spells

(***************************************************************************)
(* Every spelling of a path is the node it was spelled from, whether the   *)
(* program completes it or the server does.                                *)
(***************************************************************************)
THEOREM SpellingsAreOneNode ==
  ASSUME NEW path, NEW node, Spells(path, node)
  PROVE  GetSchemaNode(path) = node /\ NodeAt(path) = node
BY SpelledIsFound, CompletedIsSpelled DEF GetSchemaNode

-----------------------------------------------------------------------------
(***************************************************************************)
(* The table of names                                                      *)
(***************************************************************************)
LEMMA ChildIsOneStepMore ==
  ASSUME NEW node \in SchemaNode \cup {Root}, NEW child \in Children[node]
  PROVE  /\ child \in SchemaNode
         /\ Len(child) = Len(node) + 1
         /\ \A i \in 1 .. Len(node) : child[i] = node[i]
<1>1. child \in SchemaNode /\ Front(child) = node
  BY DEF Children
<1>2. Len(child) \in Nat /\ child # << >> /\ DOMAIN child = 1 .. Len(child)
  BY <1>1, NodeIsItsSteps, SchemaNodeAssumption DEF Root
<1>3. child \in Seq({child[i] : i \in DOMAIN child})
  BY <1>1, <1>2, NodeIsItsSteps
<1> QED
  <2> DEFINE Steps == {child[i] : i \in DOMAIN child}
  <2> HIDE DEF Steps
  <2>1. child \in Seq(Steps)
    BY <1>3 DEF Steps
  <2>2. Len(Front(child)) = Len(child) - 1 /\ \A i \in 1 .. Len(child) - 1 : Front(child)[i] = child[i]
    BY <1>2, <2>1, FrontOfSequence
  <2> QED
    BY <1>1, <1>2, <2>2

LEMMA ChildIsSpelled ==
  ASSUME NEW path, NEW node, Spells(path, node), NEW child \in Children[node],
         NEW fragment, SpellsStep(fragment, child, Len(child))
  PROVE  Spells(Append(path, fragment), child)
<1>1. child \in SchemaNode /\ Len(child) = Len(node) + 1 /\ \A i \in 1 .. Len(node) : child[i] = node[i]
  BY ChildIsOneStepMore DEF Spells
<1>2. Len(node) \in Nat /\ Len(path) = Len(node) /\ path \in Seq({path[i] : i \in DOMAIN path})
  BY NodeIsItsSteps DEF Spells
<1> DEFINE more == Append(path, fragment)
<1>3. /\ Len(more) = Len(child) /\ more[Len(child)] = fragment
      /\ \A i \in 1 .. Len(node) : more[i] = path[i]
      /\ more \in Seq({more[i] : i \in DOMAIN more})
  BY <1>1, <1>2
<1> HIDE DEF more
<1>4. \A i \in 1 .. Len(child) : SpellsStep(more[i], child, i)
  <2> TAKE i \in 1 .. Len(child)
  <2>1. CASE i = Len(child)
    BY <1>3, <2>1
  <2>2. CASE i # Len(child)
    <3>1. i \in 1 .. Len(node) /\ 1 \in 1 .. Len(node)
      BY <1>1, <1>2, <2>2
    <3>2. SpellsStep(path[i], node, i) /\ child[i] = node[i] /\ child[1] = node[1] /\ more[i] = path[i]
      BY <1>1, <1>3, <3>1 DEF Spells
    <3> QED
      BY <3>2 DEF SpellsStep
  <2> QED
    BY <2>1, <2>2
<1> QED
  BY <1>1, <1>3, <1>4 DEF Spells, more

\* The first fragment of a path has its module, which is that of the node's first step.
LEMMA FirstHasItsModule ==
  ASSUME NEW path, NEW node, Spells(path, node), node # Root
  PROVE  /\ path # Root /\ path[1].prefix = node[1][1] /\ node[1][1] # NoModule
         /\ \A child \in Children[node] : child[1] = node[1]
<1>1. Len(node) \in Nat /\ Len(node) # 0
  <2>1. node \in SchemaNode /\ Len(node) \in Nat /\ node = [i \in 1 .. Len(node) |-> <<node[i][1], node[i][2]>>]
    BY SchemaNodeAssumption DEF Spells
  <2>2. ASSUME Len(node) = 0 PROVE node = << >>
    BY <2>1, <2>2
  <2> QED
    BY <2>1, <2>2 DEF Root
<1>2. 1 \in 1 .. Len(node) /\ Len(path) = Len(node)
  BY <1>1 DEF Spells
<1>3. path # Root
  BY <1>1, <1>2 DEF Root
<1>4. path[1].prefix = node[1][1] /\ node[1][1] # NoModule
  BY <1>2, NodeIsItsSteps DEF Spells, SpellsStep
<1>5. \A child \in Children[node] : child[1] = node[1]
  BY <1>2, ChildIsOneStepMore DEF Spells
<1> QED
  BY <1>3, <1>4, <1>5

\* The two names a child may have in a directory spell its last step, whatever key
\* is typed after them.
LEMMA NameIsSpelled ==
  ASSUME NEW path, NEW node, Spells(path, node), NEW child \in Children[node],
         NEW module, NEW key,
         \/ module = ModuleOf(child)
         \/ module = PrefixOf(path, child)
  PROVE  SpellsStep(Fragment(module, NameOf(child), key), child, Len(child))
<1> DEFINE n == Len(child)
           fragment == Fragment(module, NameOf(child), key)
<1>1. child \in SchemaNode /\ n = Len(node) + 1 /\ Len(node) \in Nat
  BY ChildIsOneStepMore, NodeIsItsSteps DEF Spells
<1>2. child[n] = <<ModuleOf(child), NameOf(child)>>
  <2>1. n \in 1 .. n
    BY <1>1
  <2>2. child[n] = <<child[n][1], child[n][2]>>
    BY <1>1, <2>1, NodeIsItsSteps
  <2> QED
    BY <2>2 DEF ModuleOf, NameOf, Last
<1>3. fragment.prefix = module /\ fragment.name = NameOf(child) /\ fragment.key = key
  BY DEF Fragment
<1>4. module = ModuleOf(child) \/ (n > 1 /\ module = NoModule /\ ModuleOf(child) = child[1][1])
  <2>1. CASE path = Root
    BY <2>1 DEF PrefixOf
  <2>2. CASE path # Root
    <3>1. node # Root
      BY <2>2 DEF Spells, Root
    <3>2. Len(node) # 0
      <4>1. Len(path) # 0
        BY <2>2 DEF Spells, Root
      <4> QED
        BY <4>1 DEF Spells
    <3>3. path[1].prefix = child[1][1]
      BY <3>1, FirstHasItsModule
    <3> QED
      BY <1>1, <2>2, <3>2, <3>3 DEF PrefixOf
  <2> QED
    BY <2>1, <2>2
<1> QED
  BY <1>2, <1>3, <1>4 DEF SpellsStep, Fragment

(***************************************************************************)
(* NodeParser never dereferences an empty optional in a directory that was *)
(* spelled from a node, and the filter of the command is asked about the   *)
(* child itself.                                                           *)
(***************************************************************************)
THEOREM TableIsComplete ==
  ASSUME NEW path, NEW node, Spells(path, node)
  PROVE  /\ TableIsDefined(path)
         /\ \A child \in Children[node] :
              /\ Filtered(path, child) = child
              /\ GetChildNode(path, PrefixOf(path, child), NameOf(child)) = child
<1>1. GetSchemaNode(path) = node /\ node \in SchemaNode \cup {Root}
  BY SpellingsAreOneNode DEF Spells
<1>2. ASSUME NEW child \in Children[node]
      PROVE  /\ Filtered(path, child) = child
             /\ GetChildNode(path, PrefixOf(path, child), NameOf(child)) = child
             /\ child \in SchemaNode
  <2>1. Spells(Always(path), node)
    BY CompletedIsSpelled
  <2> DEFINE module == PrefixOf(path, child)
  <2>2. Spells(Append(Always(path), Fragment(module, NameOf(child), NoKey)), child)
    BY <2>1, NameIsSpelled, ChildIsSpelled
  <2>3. Filtered(path, child) = child
    BY <2>2, SpelledIsFound DEF Filtered
  <2>4. FullName(path, module, NameOf(child)) \in
          {Fragment(module, NameOf(child), NoKey), Fragment(ModuleOf(child), NameOf(child), NoKey)}
    <3>1. CASE module # NoModule
      BY <3>1 DEF FullName
    <3>2. CASE module = NoModule
      <4>1. child \in SchemaNode /\ Len(child) \in 1 .. Len(child)
        BY <1>1, ChildIsOneStepMore, NodeIsItsSteps
      <4>2. ModuleOf(child) # NoModule
        BY <4>1, NodeIsItsSteps DEF ModuleOf, Last
      <4>3. path[1].prefix = ModuleOf(child)
        BY <3>2, <4>2 DEF PrefixOf
      <4> QED
        BY <3>2, <4>3 DEF FullName
    <3> QED
      BY <3>1, <3>2
  <2>5. Spells(Append(Always(path), FullName(path, module, NameOf(child))), child)
    BY <2>1, <2>4, NameIsSpelled, ChildIsSpelled
  <2>6. GetChildNode(path, module, NameOf(child)) = child
    <3>1. NodeAt(Append(Always(path), FullName(path, module, NameOf(child)))) = child
      BY <2>5, SpelledIsFound
    <3> QED
      BY <3>1 DEF GetChildNode
  <2> QED
    BY <1>1, <2>3, <2>6, ChildIsOneStepMore
<1>3. TableIsDefined(path)
  BY <1>1, <1>2, SchemaNodeAssumption DEF TableIsDefined, AvailableNodes
<1> QED
  BY <1>2, <1>3

(***************************************************************************)
(* Whatever name of the table is typed, and with whatever key, the path    *)
(* that is stored is spelled from the child the name stands for, which is  *)
(* one the command's filter allows.                                        *)
(***************************************************************************)
THEOREM NamesLeadToChildren ==
  ASSUME NEW path, NEW node, Spells(path, node), NEW allowed,
         NEW entry \in NodeTable(path, allowed), NEW key
  PROVE  /\ entry.node \in Children[node] \cap allowed
         /\ entry.kind = Kind[entry.node]
         /\ Spells(Append(path, [entry.typed EXCEPT !.key = key]), entry.node)
<1>1. GetSchemaNode(path) = node
  BY SpellingsAreOneNode
<1>2. PICK child \in Children[node] : Filtered(path, child) \in allowed /\ entry \in Spellings(path, child)
  BY <1>1 DEF NodeTable, AvailableNodes
<1>3. child \in allowed
  BY <1>2, TableIsComplete
<1>4. PICK module : /\ module = ModuleOf(child) \/ module = PrefixOf(path, child)
                    /\ entry = [typed |-> Fragment(module, NameOf(child), NoKey), node |-> child,
                                kind |-> Kind[GetChildNode(path, PrefixOf(path, child), NameOf(child))]]
  <2>1. PICK module \in {PrefixOf(path, child)} \cup
                         (IF PrefixOf(path, child) = NoModule THEN {path[1].prefix} ELSE {}) :
          entry = [typed |-> Fragment(module, NameOf(child), NoKey), node |-> child,
                   kind |-> Kind[GetChildNode(path, PrefixOf(path, child), NameOf(child))]]
    BY <1>2 DEF Spellings
  <2>2. CASE module = PrefixOf(path, child)
    BY <2>1, <2>2
  <2>3. CASE module # PrefixOf(path, child)
    <3>1. module = path[1].prefix /\ PrefixOf(path, child) = NoModule
      BY <2>1, <2>3
    <3>2. child \in SchemaNode /\ Len(child) \in 1 .. Len(child)
      BY ChildIsOneStepMore, NodeIsItsSteps DEF Spells
    <3>3. ModuleOf(child) # NoModule
      BY <3>2, NodeIsItsSteps DEF ModuleOf, Last
    <3>4. module = ModuleOf(child)
      BY <3>1, <3>3 DEF PrefixOf
    <3> QED
      BY <2>1, <3>4
  <2> QED
    BY <2>2, <2>3
<1>5. entry.kind = Kind[child]
  BY <1>4, TableIsComplete
<1>6. [entry.typed EXCEPT !.key = key] = Fragment(module, NameOf(child), key)
  BY <1>4 DEF Fragment
<1>7. Spells(Append(path, Fragment(module, NameOf(child), key)), child)
  BY <1>4, NameIsSpelled, ChildIsSpelled
<1> QED
  BY <1>3, <1>4, <1>5, <1>6, <1>7

(***************************************************************************)
(* No two children of a directory can be typed by one name: a path that is *)
(* spelled from two nodes is spelled from one.                             *)
(***************************************************************************)
THEOREM NamesAreUnambiguous ==
  ASSUME NEW path, NEW node, Spells(path, node), NEW allowed,
         NEW one \in NodeTable(path, allowed), NEW other \in NodeTable(path, allowed),
         one.typed = other.typed
  PROVE  one.node = other.node /\ one.kind = other.kind
<1>1. /\ Spells(Append(path, [one.typed EXCEPT !.key = NoKey]), one.node)
      /\ one.kind = Kind[one.node]
  BY NamesLeadToChildren
<1>2. /\ Spells(Append(path, [other.typed EXCEPT !.key = NoKey]), other.node)
      /\ other.kind = Kind[other.node]
  BY NamesLeadToChildren
<1> DEFINE typed == Append(path, [one.typed EXCEPT !.key = NoKey])
<1>3. NodeAt(typed) = one.node
  BY <1>1, SpelledIsFound
<1>4. NodeAt(typed) = other.node
  BY <1>2, SpelledIsFound
<1> QED
  BY <1>1, <1>2, <1>3, <1>4

\* "..", stored or not, leads from a path spelled from a node to one spelled from
\* the node above.
LEMMA UpIsSpelled ==
  ASSUME NEW path, NEW node, Spells(path, node)
  PROVE  Spells(PushFragment(path, Up), PushFragment(node, Up))
<1>1. CASE node = Root
  <2>1. path = Root
    BY <1>1 DEF Spells, Root
  <2> QED
    BY <1>1, <2>1 DEF PushFragment
<1>2. CASE node # Root
  <2> DEFINE n == Len(node) - 1
             above == Front(node)
             short == Front(path)
  <2>1. node \in SchemaNode /\ path # << >>
    BY <1>2, FirstHasItsModule DEF Spells, Root
  <2>2. node \in Seq({node[i] : i \in DOMAIN node}) /\ node # << >>
    BY <1>2, <2>1, NodeIsItsSteps DEF Root
  <2>3. PushFragment(path, Up) = short /\ PushFragment(node, Up) = above
    BY <1>2, <2>1 DEF PushFragment, Root
  <2>4. /\ above \in Seq({node[i] : i \in DOMAIN node})
        /\ n \in Nat /\ Len(node) \in Nat \ {0} /\ Len(above) = n
        /\ \A i \in 1 .. n : above[i] = node[i]
    BY <2>2, FrontOfSequence
  <2>5. /\ short \in Seq({path[i] : i \in DOMAIN path}) /\ Len(short) = n
        /\ \A i \in 1 .. n : short[i] = path[i]
    BY <2>1, FrontOfSequence DEF Spells
  <2> HIDE DEF above, short
  <2>6. above \in SchemaNode \cup {Root}
    <3>1. CASE n = 0
      <4>1. above = << >>
        BY <2>4, <3>1, EmptySeq
      <4> QED
        BY <4>1 DEF Root
    <3>2. CASE n # 0
      BY <2>1, <2>4, <3>2, SchemaNodeAssumption DEF above
    <3> QED
      BY <3>1, <3>2
  <2>7. \A i \in 1 .. n : SpellsStep(short[i], above, i)
    <3> TAKE i \in 1 .. n
    <3>1. i \in 1 .. Len(node) /\ 1 \in 1 .. n
      BY <2>4
    <3>2. short[i] = path[i] /\ above[i] = node[i] /\ above[1] = node[1]
      BY <2>4, <2>5, <3>1
    <3>3. SpellsStep(path[i], node, i)
      BY <3>1 DEF Spells
    <3> QED
      BY <3>2, <3>3 DEF SpellsStep
  <2>8. short \in Seq({short[i] : i \in DOMAIN short})
    BY <2>5
  <2>9. Spells(short, above)
    BY <2>4, <2>5, <2>6, <2>7, <2>8 DEF Spells
  <2> QED
    BY <2>3, <2>9
<1> QED
  BY <1>1, <1>2

=============================================================================
