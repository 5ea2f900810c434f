-------------------------- MODULE SetCommandProofs --------------------------
(***************************************************************************)
(* For every schema, every type and every way of spelling paths: the       *)
(* working directory is the node the user went to, and `set` sets the leaf *)
(* that was typed, to a value of its type.                                 *)
(***************************************************************************)
EXTENDS SetCommand, SchemaNodesProofs, FiniteSetTheorems

-----------------------------------------------------------------------------
(***************************************************************************)
(* Going on one node at a time                                             *)
(***************************************************************************)
\* The function PushAll is defined by, its values on the first n nodes.
Pushes(g, n, where, nodes) ==
  g = [i \in 0 .. n |-> IF i = 0 THEN where ELSE PushFragment(g[i - 1], nodes[i])]

LEMMA PushesExists ==
  ASSUME NEW where, NEW nodes, NEW n \in Nat
  PROVE  \E g : Pushes(g, n, where, nodes)
<1> DEFINE T == {m \in Nat : ~ \E g : Pushes(g, m, where, nodes)}
<1> SUFFICES ASSUME T # {} PROVE FALSE
  OBVIOUS
<1>1. PICK m \in T : \A k \in T : ~(k < m)
  BY LeastExists
<1>2. CASE m = 0
  <2>1. Pushes([i \in 0 .. 0 |-> where], 0, where, nodes)
    BY DEF Pushes
  <2> QED
    BY <1>2, <2>1
<1>3. CASE m # 0
  <2>1. m - 1 \in Nat /\ m - 1 < m /\ m \in Nat
    BY <1>3
  <2>2. PICK g : Pushes(g, m - 1, where, nodes)
    BY <1>1, <2>1
  <2> DEFINE h == [i \in 0 .. m |-> IF i < m THEN g[i] ELSE PushFragment(g[m - 1], nodes[m])]
  <2>3. ASSUME NEW i \in 0 .. m
        PROVE  h[i] = IF i = 0 THEN where ELSE PushFragment(h[i - 1], nodes[i])
    <3>1. CASE i = m
      <4>1. h[i] = PushFragment(g[m - 1], nodes[m]) /\ h[i - 1] = g[m - 1]
        BY <2>1, <3>1
      <4> QED
        BY <1>3, <3>1, <4>1
    <3>2. CASE i # m
      <4>1. i \in 0 .. m - 1 /\ (i # 0 => i - 1 \in 0 .. m - 1)
        BY <2>1, <3>2
      <4>2. g[i] = IF i = 0 THEN where ELSE PushFragment(g[i - 1], nodes[i])
        BY <2>2, <4>1 DEF Pushes
      <4>3. h[i] = g[i] /\ (i # 0 => h[i - 1] = g[i - 1])
        BY <2>1, <4>1
      <4> QED
        BY <4>2, <4>3
    <3> QED
      BY <3>1, <3>2
  <2>4. h = [i \in 0 .. m |-> h[i]]
    OBVIOUS
  <2> HIDE DEF h
  <2>5. Pushes(h, m, where, nodes)
    BY <2>3, <2>4 DEF Pushes
  <2> QED
    BY <1>1, <2>5
<1> QED
  BY <1>2, <1>3

LEMMA PushAllIsPushes ==
  ASSUME NEW where, NEW nodes, Len(nodes) \in Nat
  PROVE  \E g : Pushes(g, Len(nodes), where, nodes) /\ PushAll(where, nodes) = g[Len(nodes)]
<1> DEFINE g == CHOOSE g : Pushes(g, Len(nodes), where, nodes)
<1>1. Pushes(g, Len(nodes), where, nodes)
  BY PushesExists
<1>2. PushAll(where, nodes) = g[Len(nodes)]
  BY DEF PushAll, Pushes
<1> QED
  BY <1>1, <1>2

\* A path pushed node by node: the last node is pushed onto all before it.
LEMMA PushAllAppend ==
  ASSUME NEW where, NEW S, NEW nodes \in Seq(S), NEW node
  PROVE  PushAll(where, Append(nodes, node)) = PushFragment(PushAll(where, nodes), node)
<1> DEFINE n == Len(nodes)
           more == Append(nodes, node)
<1>1. n \in Nat /\ Len(more) = n + 1 /\ more[n + 1] = node /\ \A i \in 1 .. n : more[i] = nodes[i]
  OBVIOUS
<1> HIDE DEF more, n
<1>2. PICK g : Pushes(g, n, where, nodes) /\ PushAll(where, nodes) = g[n]
  BY <1>1, PushAllIsPushes DEF n
<1>3. PICK h : Pushes(h, n + 1, where, more) /\ PushAll(where, more) = h[n + 1]
  BY <1>1, PushAllIsPushes
<1>4. \A i \in 0 .. n : h[i] = g[i]
  <2> DEFINE T == {i \in 0 .. n : h[i] # g[i]}
  <2> SUFFICES ASSUME T # {} PROVE FALSE
    OBVIOUS
  <2>1. T \subseteq Nat
    OBVIOUS
  <2>2. PICK m \in T : \A k \in T : ~(k < m)
    BY <2>1, LeastExists
  <2>3. m \in 0 .. n + 1 /\ m \in 0 .. n
    BY <1>1
  <2>4. g[m] = IF m = 0 THEN where ELSE PushFragment(g[m - 1], nodes[m])
    BY <1>2, <2>3 DEF Pushes
  <2>5. h[m] = IF m = 0 THEN where ELSE PushFragment(h[m - 1], more[m])
    BY <1>3, <2>3 DEF Pushes
  <2>6. ASSUME m # 0 PROVE h[m - 1] = g[m - 1] /\ more[m] = nodes[m]
    <3>1. m - 1 \in 0 .. n /\ m - 1 < m /\ m \in 1 .. n
      BY <1>1, <2>3, <2>6
    <3> QED
      BY <1>1, <2>2, <3>1
  <2> QED
    BY <2>4, <2>5, <2>6
<1>5. h[n + 1] = PushFragment(h[n], more[n + 1])
  <2> DEFINE end == n + 1
  <2>1. end \in 0 .. n + 1 /\ end # 0 /\ end - 1 = n
    BY <1>1
  <2> HIDE DEF end
  <2>2. h[end] = IF end = 0 THEN where ELSE PushFragment(h[end - 1], more[end])
    BY <1>3, <2>1 DEF Pushes
  <2>3. h[end] = PushFragment(h[n], more[end])
    BY <2>1, <2>2
  <2> QED
    BY <2>3 DEF end
<1> QED
  BY <1>1, <1>2, <1>3, <1>4, <1>5 DEF more

LEMMA PushAllNothing ==
  ASSUME NEW where
  PROVE  PushAll(where, << >>) = where
<1>1. Len(<< >>) = 0 /\ 0 \in Nat
  OBVIOUS
<1>2. PICK g : Pushes(g, 0, where, << >>) /\ PushAll(where, << >>) = g[0]
  BY <1>1, PushAllIsPushes
<1> QED
  BY <1>2 DEF Pushes

-----------------------------------------------------------------------------
(***************************************************************************)
(* The parser                                                              *)
(***************************************************************************)

IsSequence(s) == s \in Seq({s[i] : i \in DOMAIN s})

\* A parser that started in a directory for a node, and has not failed, stands at a
\* path spelled from its node, and this is the path of what it has read.
Follows(p, dir, abs, allowed) ==
  /\ Spells(p.path, p.node)
  /\ p.dir = dir /\ p.abs = abs
  /\ IsSequence(p.nodes)
  /\ abs => p.path = p.nodes
  /\ PushAll(IF abs THEN Root ELSE dir, p.nodes) = p.path
  /\ p.kind # "none" => p.kind = Kind[p.node] /\ p.node \in allowed

IsParser(p) ==
  /\ DOMAIN p = {"status", "abs", "dir", "path", "node", "nodes", "kind"}
  /\ p = [field \in DOMAIN p |-> p[field]]

GoesOn(p, dir, abs, allowed) ==
  /\ IsParser(p) /\ p.status \in {"ok", "refused", "undefined"}
  /\ p.status = "ok" => Follows(p, dir, abs, allowed)

LEMMA OnlyOfIsOne ==
  ASSUME NEW S, NEW default
  PROVE  OnlyOf(S, default) \in S \cup {default}
<1>1. CASE S = {}
  BY <1>1 DEF OnlyOf
<1>2. CASE S # {}
  BY <1>2 DEF OnlyOf
<1> QED
  BY <1>1, <1>2

LEMMA FailedGoesNowhere ==
  ASSUME NEW p, IsParser(p), NEW status \in {"refused", "undefined"}, NEW dir, NEW abs, NEW allowed
  PROVE  GoesOn(Fails(p, status), dir, abs, allowed)
<1>1. IsParser(Fails(p, status)) /\ Fails(p, status).status = status
  BY DEF Fails, IsParser
<1> QED
  BY <1>1 DEF GoesOn

LEMMA MoreIsSequence ==
  ASSUME NEW s, IsSequence(s), NEW x
  PROVE  IsSequence(Append(s, x))
<1> DEFINE S == {s[i] : i \in DOMAIN s}
           n == Len(s)
           more == Append(s, x)
           Elements == {more[i] : i \in DOMAIN more}
<1>1. s \in Seq(S)
  BY DEF IsSequence
<1> HIDE DEF S
<1>2. more \in Seq(S \cup {x}) /\ Len(more) = n + 1 /\ n \in Nat
  BY <1>1
<1>3. DOMAIN more = 1 .. n + 1 /\ n + 1 \in Nat /\ more \in [1 .. n + 1 -> Elements]
  <2>1. DOMAIN more = 1 .. n + 1
    BY <1>2
  <2>2. \A i \in 1 .. n + 1 : more[i] \in Elements
    BY <2>1
  <2> HIDE DEF Elements, more
  <2>3. PICK k \in Nat : more \in [1 .. k -> S \cup {x}]
    BY <1>2, SeqDef
  <2> QED
    BY <1>2, <2>1, <2>2, <2>3
<1> HIDE DEF Elements, more
<1>4. more \in Seq(Elements)
  BY <1>3, SeqDef
<1> QED
  BY <1>4 DEF IsSequence, Elements, more

\* The name of a child is never "..".
LEMMA NodeIsPushed ==
  ASSUME NEW p, NEW dir, NEW abs, NEW allowed,
         IsParser(p), p.status = "ok", Follows(p, dir, abs, allowed),
         NEW entry \in NodeTable(p.path, allowed), NEW key
  PROVE  GoesOn(PushNode(p, entry, key), dir, abs, allowed)
<1> DEFINE fragment == [entry.typed EXCEPT !.key = key]
           q == PushNode(p, entry, key)
<1>1. /\ entry.node \in Children[p.node] \cap allowed
      /\ entry.kind = Kind[entry.node]
      /\ Spells(Append(p.path, fragment), entry.node)
  BY NamesLeadToChildren DEF Follows
<1>2. fragment # Up
  <2>1. entry.node \in SchemaNode /\ p.node \in SchemaNode \cup {Root}
        /\ Len(entry.node) = Len(p.node) + 1 /\ Len(p.node) \in Nat
    BY <1>1, ChildIsOneStepMore, NodeIsItsSteps DEF Follows, Spells
  <2>2. Len(p.path) = Len(p.node) /\ p.path \in Seq({p.path[i] : i \in DOMAIN p.path})
    BY DEF Follows, Spells
  <2> DEFINE n == Len(entry.node)
  <2> HIDE DEF fragment
  <2>3. Append(p.path, fragment)[n] = fragment /\ n \in 1 .. n
    BY <2>1, <2>2
  <2>4. fragment.name = entry.node[n][2]
    BY <1>1, <2>3 DEF Spells, SpellsStep
  <2> QED
    BY <2>1, <2>4, UpIsAFragment DEF NameOf, Last, Fragment
<1> HIDE DEF fragment
<1>3. PushFragment(p.path, fragment) = Append(p.path, fragment)
  BY <1>2 DEF PushFragment
<1>4. /\ IsParser(q) /\ q.status = "ok" /\ q.abs = p.abs /\ q.dir = p.dir
      /\ q.path = Append(p.path, fragment) /\ q.nodes = Append(p.nodes, fragment)
      /\ q.node = entry.node /\ q.kind = entry.kind
  BY <1>3 DEF PushNode, IsParser, fragment
<1> DEFINE where == IF abs THEN Root ELSE dir
<1>5. PushAll(where, Append(p.nodes, fragment)) = Append(p.path, fragment)
  <2>1. PushAll(where, p.nodes) = p.path /\ IsSequence(p.nodes)
    BY DEF Follows
  <2> HIDE DEF where
  <2>2. PushAll(where, Append(p.nodes, fragment)) = PushFragment(PushAll(where, p.nodes), fragment)
    BY <2>1, PushAllAppend DEF IsSequence
  <2> QED
    BY <1>3, <2>1, <2>2
<1>6. IsSequence(Append(p.nodes, fragment))
  BY MoreIsSequence DEF Follows
<1> HIDE DEF q
<1>7. Follows(q, dir, abs, allowed)
  BY <1>1, <1>4, <1>5, <1>6 DEF Follows
<1> QED
  BY <1>4, <1>7 DEF GoesOn, q

LEMMA UpIsPushed ==
  ASSUME NEW p, NEW dir, NEW allowed, IsParser(p), p.status = "ok", Follows(p, dir, FALSE, allowed)
  PROVE  GoesOn(PushUp(p), dir, FALSE, allowed)
<1> DEFINE q == PushUp(p)
<1>1. /\ IsParser(q) /\ q.status = "ok" /\ q.abs = p.abs /\ q.dir = p.dir
      /\ q.path = PushFragment(p.path, Up) /\ q.nodes = Append(p.nodes, Up)
      /\ q.node = PushFragment(p.node, Up) /\ q.kind = "none"
  BY DEF PushUp, IsParser
<1>2. Spells(PushFragment(p.path, Up), PushFragment(p.node, Up))
  BY UpIsSpelled DEF Follows
<1>3. PushAll(dir, Append(p.nodes, Up)) = PushFragment(p.path, Up)
  BY PushAllAppend DEF Follows, IsSequence
<1>4. IsSequence(Append(p.nodes, Up))
  BY MoreIsSequence DEF Follows
<1> HIDE DEF q
<1>5. Follows(q, dir, FALSE, allowed)
  BY <1>1, <1>2, <1>3, <1>4 DEF Follows
<1> QED
  BY <1>1, <1>5 DEF GoesOn, q

\* One fragment: a path that is typed from the root has no ".." in it.
LEMMA NodeIsParsed ==
  ASSUME NEW p, NEW dir, NEW abs \in BOOLEAN, NEW allowed, IsParser(p), p.status = "ok",
         Follows(p, dir, abs, allowed), NEW typed, abs => typed # Up
  PROVE  GoesOn(ParseNode(p, typed, allowed), dir, abs, allowed)
<1>1. CASE ~TableIsDefined(p.path)
  BY <1>1, FailedGoesNowhere DEF ParseNode
<1>2. CASE TableIsDefined(p.path) /\ typed = Up
  <2>1. ~abs
    BY <1>2
  <2>2. GoesOn(PushUp(p), dir, abs, allowed)
    BY <2>1, UpIsPushed
  <2> QED
    BY <1>2, <2>2 DEF ParseNode
<1>3. CASE TableIsDefined(p.path) /\ typed # Up
  <2>1. GoesOn(Fails(p, "refused"), dir, abs, allowed) /\ GoesOn(Fails(p, "undefined"), dir, abs, allowed)
    BY FailedGoesNowhere
  <2>2. ASSUME NEW entry \in NodeTable(p.path, allowed), NEW key
        PROVE  GoesOn(ParseEntry(p, entry, key), dir, abs, allowed)
    <3>1. \A text : GoesOn(PushNode(p, entry, text), dir, abs, allowed)
      BY NodeIsPushed
    <3>2. \A data : GoesOn(PushInstance(p, entry, data), dir, abs, allowed)
      BY <2>1, <3>1 DEF PushInstance
    <3> DEFINE instances == {PushInstance(p, entry, data) : data \in KeyData(p, entry, key)}
    <3>3. OnlyOf(instances, Fails(p, "refused")) \in instances \cup {Fails(p, "refused")}
      BY OnlyOfIsOne
    <3>4. GoesOn(OnlyOf(instances, Fails(p, "refused")), dir, abs, allowed)
      BY <2>1, <3>2, <3>3
    <3> HIDE DEF instances
    <3>5. ParseEntry(p, entry, key) = IF entry.kind = "list" THEN OnlyOf(instances, Fails(p, "refused"))
                                      ELSE IF key = NoKey THEN PushNode(p, entry, NoKey)
                                      ELSE Fails(p, "refused")
      BY DEF ParseEntry, instances
    <3> QED
      BY <2>1, <3>1, <3>4, <3>5
  <2> DEFINE entries == {e \in NodeTable(p.path, allowed) : e.typed = [typed EXCEPT !.key = NoKey]}
             parsed == {ParseEntry(p, entry, typed.key) : entry \in entries}
  <2>3. OnlyOf(parsed, Fails(p, "refused")) \in parsed \cup {Fails(p, "refused")}
    BY OnlyOfIsOne
  <2>4. GoesOn(OnlyOf(parsed, Fails(p, "refused")), dir, abs, allowed)
    BY <2>1, <2>2, <2>3
  <2> QED
    BY <1>3, <2>4 DEF ParseNode
<1> QED
  BY <1>1, <1>2, <1>3

\* The function ParsePath is defined by, its values for the first n nodes.
Parses(g, n, start, nodes, allowed) ==
  g = [i \in 0 .. n |->
         IF i = 0 THEN start
         ELSE IF g[i - 1].status = "ok" THEN ParseNode(g[i - 1], nodes[i], allowed)
         ELSE g[i - 1]]

LEMMA ParsesExists ==
  ASSUME NEW start, NEW nodes, NEW allowed, NEW n \in Nat
  PROVE  \E g : Parses(g, n, start, nodes, allowed)
<1> DEFINE T == {m \in Nat : ~ \E g : Parses(g, m, start, nodes, allowed)}
           Step(p, i) == IF p.status = "ok" THEN ParseNode(p, nodes[i], allowed) ELSE p
<1> SUFFICES ASSUME T # {} PROVE FALSE
  OBVIOUS
<1>1. PICK m \in T : \A k \in T : ~(k < m)
  BY LeastExists
<1>2. CASE m = 0
  <2>1. Parses([i \in 0 .. 0 |-> start], 0, start, nodes, allowed)
    BY DEF Parses
  <2> QED
    BY <1>2, <2>1
<1>3. CASE m # 0
  <2>1. m - 1 \in Nat /\ m - 1 < m /\ m \in Nat
    BY <1>3
  <2>2. PICK g : Parses(g, m - 1, start, nodes, allowed)
    BY <1>1, <2>1
  <2>3. g = [i \in 0 .. m - 1 |-> IF i = 0 THEN start ELSE Step(g[i - 1], i)]
    BY <2>2 DEF Parses
  <2> HIDE DEF Step
  <2> DEFINE h == [i \in 0 .. m |-> IF i < m THEN g[i] ELSE Step(g[m - 1], m)]
  <2>4. ASSUME NEW i \in 0 .. m
        PROVE  h[i] = IF i = 0 THEN start ELSE Step(h[i - 1], i)
    <3>1. CASE i = m
      <4>1. h[i] = Step(g[m - 1], m) /\ h[i - 1] = g[m - 1]
        BY <2>1, <3>1
      <4> QED
        BY <1>3, <3>1, <4>1
    <3>2. CASE i # m
      <4>1. i \in 0 .. m - 1 /\ (i # 0 => i - 1 \in 0 .. m - 1)
        BY <2>1, <3>2
      <4>2. g[i] = IF i = 0 THEN start ELSE Step(g[i - 1], i)
        BY <2>3, <4>1
      <4>3. h[i] = g[i] /\ (i # 0 => h[i - 1] = g[i - 1])
        BY <2>1, <4>1
      <4> QED
        BY <4>2, <4>3
    <3> QED
      BY <3>1, <3>2
  <2>5. h = [i \in 0 .. m |-> h[i]]
    OBVIOUS
  <2> HIDE DEF h
  <2>6. h = [i \in 0 .. m |-> IF i = 0 THEN start ELSE Step(h[i - 1], i)]
    BY <2>4, <2>5
  <2>7. Parses(h, m, start, nodes, allowed)
    BY <2>6 DEF Parses, Step
  <2> QED
    BY <1>1, <2>7
<1> QED
  BY <1>2, <1>3

LEMMA ParsePathIsParses ==
  ASSUME NEW start, NEW nodes, NEW allowed, Len(nodes) \in Nat
  PROVE  \E g : /\ Parses(g, Len(nodes), start, nodes, allowed)
               /\ ParsePath(start, nodes, allowed) = g[Len(nodes)]
<1> DEFINE g == CHOOSE g : Parses(g, Len(nodes), start, nodes, allowed)
<1>1. Parses(g, Len(nodes), start, nodes, allowed)
  BY ParsesExists
<1>2. ParsePath(start, nodes, allowed) = g[Len(nodes)]
  BY DEF ParsePath, Parses
<1> QED
  BY <1>1, <1>2

\* A whole path.
LEMMA PathIsParsed ==
  ASSUME NEW start, NEW dir, NEW abs \in BOOLEAN, NEW allowed, GoesOn(start, dir, abs, allowed),
         NEW nodes, Len(nodes) \in Nat, DOMAIN nodes = 1 .. Len(nodes), abs => ~HasUp(nodes)
  PROVE  GoesOn(ParsePath(start, nodes, allowed), dir, abs, allowed)
<1> DEFINE n == Len(nodes)
<1>1. PICK g : Parses(g, n, start, nodes, allowed) /\ ParsePath(start, nodes, allowed) = g[n]
  BY ParsePathIsParses
<1>2. n \in Nat /\ \A i \in 1 .. n : abs => nodes[i] # Up
  BY DEF HasUp
<1> HIDE DEF n
<1> DEFINE T == {i \in 0 .. n : ~GoesOn(g[i], dir, abs, allowed)}
<1>3. T = {}
  <2> SUFFICES ASSUME T # {} PROVE FALSE
    OBVIOUS
  <2>1. T \subseteq Nat
    OBVIOUS
  <2>2. PICK m \in T : \A k \in T : ~(k < m)
    BY <2>1, LeastExists
  <2>3. g[m] = IF m = 0 THEN start
               ELSE IF g[m - 1].status = "ok" THEN ParseNode(g[m - 1], nodes[m], allowed)
               ELSE g[m - 1]
    BY <1>1, <2>2 DEF Parses
  <2>4. m # 0
    BY <2>2, <2>3
  <2>5. m \in 1 .. n /\ m - 1 \in 0 .. n /\ m - 1 < m
    BY <1>2, <2>2, <2>4
  <2>6. GoesOn(g[m - 1], dir, abs, allowed)
    BY <2>2, <2>5
  <2>7. CASE g[m - 1].status = "ok"
    <3>1. IsParser(g[m - 1]) /\ Follows(g[m - 1], dir, abs, allowed)
      BY <2>6, <2>7 DEF GoesOn
    <3>2. abs => nodes[m] # Up
      BY <1>2, <2>5
    <3>3. GoesOn(ParseNode(g[m - 1], nodes[m], allowed), dir, abs, allowed)
      BY <2>7, <3>1, <3>2, NodeIsParsed
    <3> QED
      BY <2>2, <2>3, <2>4, <2>7, <3>3
  <2>8. CASE g[m - 1].status # "ok"
    BY <2>2, <2>3, <2>4, <2>6, <2>8
  <2> QED
    BY <2>7, <2>8
<1> QED
  BY <1>1, <1>2, <1>3

LEMMA RootIsSpelled == Spells(Root, Root)
  BY DEF Spells, Root

LEMMA ParserStarts ==
  ASSUME NEW dir, NEW node, Spells(dir, node), NEW abs \in BOOLEAN, NEW allowed
  PROVE  GoesOn(Parser(dir, node, abs), dir, abs, allowed)
<1> DEFINE p == Parser(dir, node, abs)
<1>1. IsParser(p) /\ p.status = "ok" /\ p.abs = abs /\ p.dir = dir /\ p.nodes = << >> /\ p.kind = "none"
      /\ p.path = (IF abs THEN Root ELSE dir) /\ p.node = (IF abs THEN Root ELSE node)
  BY DEF Parser, IsParser
<1> HIDE DEF p
<1>2. Spells(p.path, p.node)
  BY <1>1, RootIsSpelled
<1>3. IsSequence(<< >>)
  BY DEF IsSequence
<1>4. PushAll(IF abs THEN Root ELSE dir, << >>) = IF abs THEN Root ELSE dir
  BY PushAllNothing
<1> QED
  BY <1>1, <1>2, <1>3, <1>4 DEF GoesOn, Follows, Root, p

\* What a parser has read leads from the directory to where it stands, for cd, which
\* uses realPath, and for set, which uses toCanonicalPath.
LEMMA ReadLeadsThere ==
  ASSUME NEW p, NEW dir, NEW abs \in BOOLEAN, NEW allowed, Follows(p, dir, abs, allowed)
  PROVE  RealPath(dir, ReadBy(p)) = p.path /\ Canonical(dir, ReadBy(p)) = p.path
BY DEF Follows, RealPath, Canonical, ReadBy

-----------------------------------------------------------------------------
(***************************************************************************)
(* The session                                                             *)
(***************************************************************************)

\* The working directory is spelled from the node the user went to; a parser that
\* has read the path of `set` stands at a leaf the command may write, and what is set
\* is the path it has read.
SInv ==
  /\ Spells(cwd, here)
  /\ parser.status = "ok" =>
       /\ IsParser(parser) /\ parser.abs \in BOOLEAN
       /\ Follows(parser, cwd, parser.abs, WritableFilter) /\ parser.kind = "leaf"
  /\ IsSet => parser.status = "ok" /\ last.result.path = Canonical(parser.dir, ReadBy(parser))

LEMMA InitSInv == Init => SInv
<1> SUFFICES ASSUME Init PROVE SInv
  OBVIOUS
<1>1. parser.status # "ok"
  BY DEF Init, NoParser, Parser
<1>2. ~IsSet
  BY DEF Init, IsSet, NoLine, Line
<1> QED
  BY <1>1, <1>2, RootIsSpelled DEF Init, SInv

LEMMA NoParserIsNotOk == NoParser.status # "ok"
  BY DEF NoParser, Parser

LEMMA CdKeepsSInv ==
  ASSUME SInv, NEW typed \in Typed, Cd(typed)
  PROVE  SInv'
<1> DEFINE parsed == ParsePath(Parser(cwd, here, typed.abs), typed.nodes, CdFilter)
<1>1. GoesOn(parsed, cwd, typed.abs, CdFilter)
  BY ParserStarts, PathIsParsed, TypedAssumption DEF SInv
<1> HIDE DEF parsed
<1>2. parser = NoParser /\ UNCHANGED last
  BY DEF Cd, AtPrompt
<1>3. ~IsSet
  BY <1>2, NoParserIsNotOk DEF SInv
<1>4. ~IsSet'
  BY <1>2, <1>3 DEF IsSet
<1>5. CASE parsed.status = "ok"
  <2>1. cwd' = RealPath(cwd, ReadBy(parsed)) /\ here' = parsed.node /\ UNCHANGED parser
    BY <1>5 DEF Cd, parsed
  <2>2. Follows(parsed, cwd, typed.abs, CdFilter)
    BY <1>1, <1>5 DEF GoesOn
  <2>3. cwd' = parsed.path
    BY <2>1, <2>2, ReadLeadsThere, TypedAssumption
  <2>4. Spells(cwd', here')
    BY <2>1, <2>2, <2>3 DEF Follows
  <2> QED
    BY <1>2, <1>4, <2>1, <2>4, NoParserIsNotOk DEF SInv
<1>6. CASE parsed.status = "undefined"
  <2>1. parser' = parsed /\ UNCHANGED <<cwd, here>>
    BY <1>6 DEF Cd, parsed
  <2> QED
    BY <1>4, <1>6, <2>1 DEF SInv
<1>7. CASE parsed.status = "refused"
  <2>1. UNCHANGED <<cwd, here, parser>>
    BY <1>7 DEF Cd, parsed
  <2> QED
    BY <1>2, <1>4, <2>1, NoParserIsNotOk DEF SInv
<1> QED
  BY <1>1, <1>5, <1>6, <1>7 DEF GoesOn

LEMMA TypePathKeepsSInv ==
  ASSUME SInv, NEW typed \in Typed, TypePath(typed)
  PROVE  SInv'
<1> DEFINE parsed == ParsePath(Parser(cwd, here, typed.abs), typed.nodes, WritableFilter)
<1>1. GoesOn(parsed, cwd, typed.abs, WritableFilter)
  BY ParserStarts, PathIsParsed, TypedAssumption DEF SInv
<1> HIDE DEF parsed
<1>2. parser = NoParser /\ parser' = AtALeaf(parsed) /\ UNCHANGED <<type, cwd, here, last>>
  BY DEF TypePath, AtPrompt, ParseLeafPath, parsed
<1>3. ~IsSet /\ ~IsSet'
  BY <1>2, NoParserIsNotOk DEF SInv, IsSet
<1>4. \A status \in {"refused", "undefined"} : Fails(parsed, status).status # "ok"
  BY <1>1 DEF Fails, GoesOn, IsParser
<1>5. ASSUME parser'.status = "ok"
      PROVE  parser' = parsed /\ parsed.status = "ok" /\ parsed.kind = "leaf"
  BY <1>2, <1>4, <1>5 DEF AtALeaf
<1>6. ASSUME parser'.status = "ok"
      PROVE  /\ IsParser(parser') /\ parser'.abs \in BOOLEAN
             /\ Follows(parser', cwd, parser'.abs, WritableFilter)
  <2>1. Follows(parsed, cwd, typed.abs, WritableFilter) /\ parsed.abs = typed.abs /\ typed.abs \in BOOLEAN
    BY <1>1, <1>5, <1>6, TypedAssumption DEF GoesOn, Follows
  <2>2. IsParser(parsed)
    BY <1>1 DEF GoesOn
  <2> QED
    BY <1>5, <1>6, <2>1, <2>2
<1>7. UNCHANGED WritableFilter
  BY DEF WritableFilter
<1> QED
  BY <1>2, <1>3, <1>5, <1>6 DEF SInv

\* Whatever comes of the value, the path is the one `set` made canonical.
LEMMA OutcomeHasItsPath ==
  ASSUME NEW p, NEW path, NEW text
  PROVE  SetTo(p, path, text).path = path
<1>1. \A nodes, data : Outcome(nodes, path, data).path = path
  <2> TAKE nodes, data
  <2> DEFINE done == {Result("done", path, sent) : sent \in Completed(nodes, data)}
  <2>1. OnlyOf(done, Result("error", path, NoData)) \in done \cup {Result("error", path, NoData)}
    BY OnlyOfIsOne
  <2>2. \A outcome \in done \cup {Result("error", path, NoData)} : outcome.path = path
    BY DEF Result
  <2> HIDE DEF done
  <2>3. OnlyOf(done, Result("error", path, NoData)).path = path
    BY <2>1, <2>2
  <2> QED
    BY <2>3 DEF Outcome, Result, done
<1> DEFINE outcomes == {Outcome(p.nodes, path, read.data) :
                          read \in {r \in ReadLeafData(type, text, ContextOf(p)) : Accepts(r, text)}}
<1>2. OnlyOf(outcomes, Result("refused", path, NoData)) \in outcomes \cup {Result("refused", path, NoData)}
  BY OnlyOfIsOne
<1>3. \A outcome \in outcomes : outcome.path = path
  BY <1>1
<1>4. SetTo(p, path, text) = OnlyOf(outcomes, Result("refused", path, NoData))
  BY DEF SetTo
<1> HIDE DEF outcomes
<1> QED
  BY <1>2, <1>3, <1>4 DEF Result

LEMMA LineKeepsSInv ==
  ASSUME SInv, (\E text \in Texts : Set(text) \/ Tab(text)) \/ Prompt \/ UNCHANGED vars
  PROVE  SInv'
<1>1. ASSUME NEW text \in Texts, Set(text) PROVE SInv'
  <2>1. parser.status = "ok" /\ UNCHANGED <<type, cwd, here, parser>>
        /\ last' = Line("set", text, SetResult(parser, text), {})
    BY <1>1 DEF Set
  <2>2. last'.result.path = Canonical(parser.dir, ReadBy(parser))
    BY <2>1, OutcomeHasItsPath DEF Line, SetResult
  <2> QED
    BY <2>1, <2>2 DEF SInv
<1>2. ASSUME NEW text \in Texts, Tab(text) PROVE SInv'
  <2>1. last'.cmd = "tab" /\ UNCHANGED <<type, cwd, here, parser>>
    BY <1>2 DEF Tab, Line
  <2> QED
    BY <2>1 DEF SInv, IsSet
<1>3. CASE Prompt
  <2>1. parser' = NoParser /\ last'.cmd = "none" /\ UNCHANGED <<cwd, here>>
    BY <1>3 DEF Prompt, NoLine, Line
  <2> QED
    BY <2>1, NoParserIsNotOk DEF SInv, IsSet
<1>4. CASE UNCHANGED vars
  BY <1>4 DEF SInv, IsSet, vars
<1> QED
  BY <1>1, <1>2, <1>3, <1>4

LEMMA SpecKeepsSInv == Spec => []SInv
<1>1. SInv /\ [Next]_vars => SInv'
  BY CdKeepsSInv, TypePathKeepsSInv, LineKeepsSInv DEF Next
<1> QED
  BY InitSInv, <1>1, PTL DEF Spec

(***************************************************************************)
(* However the working directory is spelled, it is the node the user went  *)
(* to, for the program and for the server, and none of its children is     *)
(* looked up in vain.                                                      *)
(***************************************************************************)
THEOREM SetEverySpellingIsTheNode == Spec => []EverySpellingIsTheNode
<1>1. SInv => EverySpellingIsTheNode
  BY SpellingsAreOneNode, TableIsComplete DEF SInv, EverySpellingIsTheNode
<1> QED
  BY <1>1, SpecKeepsSInv, PTL

(***************************************************************************)
(* The path handed to setLeaf names the leaf that was typed, which may be  *)
(* written.                                                                *)
(***************************************************************************)
THEOREM SetTheTypedLeafIsSet == Spec => []TheTypedLeafIsSet
<1>1. SInv => TheTypedLeafIsSet
  <2> SUFFICES ASSUME SInv, IsSet
               PROVE  /\ NodeAt(last.result.path) = parser.node
                      /\ Kind[parser.node] = "leaf"
                      /\ WritableOps \/ parser.node \in Config
    BY DEF TheTypedLeafIsSet
  <2>1. /\ parser.abs \in BOOLEAN /\ Follows(parser, cwd, parser.abs, WritableFilter)
        /\ parser.kind = "leaf" /\ last.result.path = Canonical(parser.dir, ReadBy(parser))
    BY DEF SInv
  <2>2. last.result.path = parser.path
    BY <2>1, ReadLeadsThere DEF Follows
  <2>3. NodeAt(parser.path) = parser.node
    BY <2>1, SpelledIsFound DEF Follows
  <2>4. parser.kind = Kind[parser.node] /\ parser.node \in WritableFilter
    BY <2>1 DEF Follows
  <2> QED
    BY <2>1, <2>2, <2>3, <2>4 DEF WritableFilter
<1> QED
  BY <1>1, SpecKeepsSInv, PTL

\* Each child has one name that is offered for it.
LEMMA OfferedNames ==
  ASSUME NEW path, NEW node, Spells(path, node), NEW allowed
  PROVE  /\ Suggested(path, allowed) =
              {Fragment(PrefixOf(path, child), NameOf(child), NoKey) :
                 child \in {child \in Children[node] : ModuleOf(child) \notin Hidden /\ child \in allowed}}
         /\ \A child \in Children[node] : ModuleOf(child) \notin Hidden /\ child \in allowed =>
              {entry.node : entry \in {e \in NodeTable(path, allowed) :
                 e.typed = Fragment(PrefixOf(path, child), NameOf(child), NoKey)}} = {child}
<1>1. GetSchemaNode(path) = node /\ \A child \in Children[node] : Filtered(path, child) = child
  BY SpellingsAreOneNode, TableIsComplete
<1>2. AvailableNodes(path) = {child \in Children[node] : ModuleOf(child) \notin Hidden}
  BY <1>1 DEF AvailableNodes
<1>3. {child \in AvailableNodes(path) : Filtered(path, child) \in allowed} =
      {child \in Children[node] : ModuleOf(child) \notin Hidden /\ child \in allowed}
  BY <1>1, <1>2
<1>4. ASSUME NEW child \in Children[node], ModuleOf(child) \notin Hidden, child \in allowed
      PROVE  {entry.node : entry \in {e \in NodeTable(path, allowed) :
                e.typed = Fragment(PrefixOf(path, child), NameOf(child), NoKey)}} = {child}
  <2> DEFINE name == Fragment(PrefixOf(path, child), NameOf(child), NoKey)
             offered == [typed |-> name, node |-> child,
                         kind |-> Kind[GetChildNode(path, PrefixOf(path, child), NameOf(child))]]
  <2>1. offered \in Spellings(path, child)
    BY DEF Spellings
  <2>2. offered \in NodeTable(path, allowed)
    <3>1. child \in {c \in AvailableNodes(path) : Filtered(path, c) \in allowed}
      BY <1>3, <1>4
    <3> QED
      BY <2>1, <3>1 DEF NodeTable
  <2>3. offered.typed = name /\ offered.node = child
    OBVIOUS
  <2> HIDE DEF offered, name
  <2>4. \A entry \in NodeTable(path, allowed) : entry.typed = name => entry.node = child
    BY <2>2, <2>3, NamesAreUnambiguous
  <2>5. {entry.node : entry \in {e \in NodeTable(path, allowed) : e.typed = name}} = {child}
    BY <2>2, <2>3, <2>4
  <2> QED
    BY <2>5 DEF name
<1> QED
  BY <1>3, <1>4 DEF Suggested

(***************************************************************************)
(* Tab offers each child that `set` may go to under one name, and no other *)
(* name.                                                                   *)
(***************************************************************************)
THEOREM SetOneNameForEachChild == Spec => []OneNameForEachChild
<1>1. SInv => OneNameForEachChild
  <2> SUFFICES ASSUME SInv PROVE OneNameForEachChild
    OBVIOUS
  <2> DEFINE offered == Suggested(cwd, WritableFilter)
             Child(name) == {entry.node : entry \in {e \in NodeTable(cwd, WritableFilter) : e.typed = name}}
             Name(child) == Fragment(PrefixOf(cwd, child), NameOf(child), NoKey)
             writable == {child \in Children[here] : ModuleOf(child) \notin Hidden /\ child \in WritableFilter}
  <2>1. offered = {Name(child) : child \in writable} /\ \A child \in writable : Child(Name(child)) = {child}
    <3>1. Spells(cwd, here)
      BY DEF SInv
    <3>2. offered = {Name(child) : child \in writable}
      BY <3>1, OfferedNames
    <3>3. ASSUME NEW child \in writable PROVE Child(Name(child)) = {child}
      <4>1. child \in Children[here] /\ ModuleOf(child) \notin Hidden /\ child \in WritableFilter
        OBVIOUS
      <4> QED
        BY <3>1, <4>1, OfferedNames
    <3> HIDE DEF offered, Child, Name, writable
    <3> QED
      BY <3>2, <3>3
  <2>2. writable = {child \in Children[here] : ModuleOf(child) \notin Hidden /\ (WritableOps \/ child \in Config)}
    <3>1. \A child \in Children[here] : child \in SchemaNode
      BY ChildIsOneStepMore DEF SInv, Spells
    <3> QED
      BY <3>1 DEF WritableFilter
  <2> HIDE DEF offered, Child, Name, writable
  <2>3. \A name \in offered : \E child \in writable : name = Name(child) /\ Child(name) = {child}
    BY <2>1
  <2>4. \A name \in offered : Cardinality(Child(name)) = 1
    BY <2>3, FS_Singleton
  <2>5. \A name, other \in offered : Child(name) = Child(other) => name = other
    BY <2>3
  <2>6. UNION {Child(name) : name \in offered} = writable
    BY <2>1
  <2> QED
    BY <2>2, <2>4, <2>5, <2>6 DEF OneNameForEachChild, offered, Child
<1> QED
  BY <1>1, SpecKeepsSInv, PTL

-----------------------------------------------------------------------------
(***************************************************************************)
(* Sequences of sequences                                                  *)
(***************************************************************************)
\* The function FlattenSeq is defined by, its values up to n.
Flattens(g, n, seqs) ==
  g = [i \in 1 .. n |-> IF i = 1 THEN seqs[i] ELSE g[i - 1] \o seqs[i]]

LEMMA FlattensExists ==
  ASSUME NEW seqs, NEW n \in Nat
  PROVE  \E g : Flattens(g, n, seqs)
<1> DEFINE T == {m \in Nat : ~ \E g : Flattens(g, m, seqs)}
<1> SUFFICES ASSUME T # {} PROVE FALSE
  OBVIOUS
<1>1. PICK m \in T : \A k \in T : ~(k < m)
  BY LeastExists
<1>2. CASE m = 0
  <2>1. Flattens([i \in 1 .. 0 |-> << >>], 0, seqs)
    BY DEF Flattens
  <2> QED
    BY <1>2, <2>1
<1>3. CASE m # 0
  <2>1. m - 1 \in Nat /\ m - 1 < m /\ m \in Nat
    BY <1>3
  <2>2. PICK g : Flattens(g, m - 1, seqs)
    BY <1>1, <2>1
  <2> DEFINE h == [i \in 1 .. m |-> IF i < m THEN g[i]
                                    ELSE IF i = 1 THEN seqs[i] ELSE g[i - 1] \o seqs[i]]
  <2>3. ASSUME NEW i \in 1 .. m
        PROVE  h[i] = IF i = 1 THEN seqs[i] ELSE h[i - 1] \o seqs[i]
    <3>1. CASE i = m
      <4>1. i # 1 => h[i - 1] = g[i - 1]
        BY <2>1, <3>1
      <4> QED
        BY <2>1, <3>1, <4>1
    <3>2. CASE i # m
      <4>1. i \in 1 .. m - 1 /\ (i # 1 => i - 1 \in 1 .. m - 1)
        BY <2>1, <3>2
      <4>2. g[i] = IF i = 1 THEN seqs[i] ELSE g[i - 1] \o seqs[i]
        BY <2>2, <4>1 DEF Flattens
      <4>3. h[i] = g[i] /\ (i # 1 => h[i - 1] = g[i - 1])
        BY <2>1, <4>1
      <4> QED
        BY <4>2, <4>3
    <3> QED
      BY <3>1, <3>2
  <2>4. h = [i \in 1 .. m |-> h[i]]
    OBVIOUS
  <2> HIDE DEF h
  <2>5. Flattens(h, m, seqs)
    BY <2>3, <2>4 DEF Flattens
  <2> QED
    BY <1>1, <2>5
<1> QED
  BY <1>2, <1>3

LEMMA FlattenIsFlattens ==
  ASSUME NEW seqs, Len(seqs) \in Nat, Len(seqs) # 0
  PROVE  \E g : Flattens(g, Len(seqs), seqs) /\ FlattenSeq(seqs) = g[Len(seqs)]
<1> DEFINE g == CHOOSE g : Flattens(g, Len(seqs), seqs)
<1>1. Flattens(g, Len(seqs), seqs)
  BY FlattensExists
<1>2. FlattenSeq(seqs) = g[Len(seqs)]
  BY DEF FlattenSeq, Flattens
<1> QED
  BY <1>1, <1>2

LEMMA FlattenOne ==
  ASSUME NEW s
  PROVE  FlattenSeq(<<s>>) = s
<1>0. Len(<<s>>) = 1 /\ <<s>>[1] = s
  OBVIOUS
<1>1. PICK seqs : seqs = <<s>> /\ Len(seqs) = 1 /\ seqs[1] = s
  BY <1>0
<1>2. PICK g : Flattens(g, 1, seqs) /\ FlattenSeq(seqs) = g[1]
  <2>1. Len(seqs) \in Nat /\ Len(seqs) # 0
    BY <1>1
  <2>2. \E g : Flattens(g, Len(seqs), seqs) /\ FlattenSeq(seqs) = g[Len(seqs)]
    BY <2>1, FlattenIsFlattens
  <2> QED
    BY <1>1, <2>2
<1> QED
  BY <1>1, <1>2 DEF Flattens

LEMMA FlattenIsNotEmpty ==
  ASSUME NEW T, NEW seqs \in Seq(Seq(T) \ {<< >>}), seqs # << >>
  PROVE  FlattenSeq(seqs) \in Seq(T) \ {<< >>}
<1> DEFINE n == Len(seqs)
<1>1. n \in Nat /\ n # 0 /\ \A i \in 1 .. n : seqs[i] \in Seq(T) \ {<< >>}
  BY EmptySeq
<1>2. PICK g : Flattens(g, n, seqs) /\ FlattenSeq(seqs) = g[n]
  BY <1>1, FlattenIsFlattens
<1> HIDE DEF n
<1> DEFINE S == {i \in 1 .. n : g[i] \notin Seq(T) \ {<< >>}}
<1>3. S = {}
  <2> SUFFICES ASSUME S # {} PROVE FALSE
    OBVIOUS
  <2>0. S \subseteq Nat
    BY <1>1
  <2>1. PICK m \in S : \A k \in S : ~(k < m)
    BY <2>0, LeastExists
  <2>2. g[m] = IF m = 1 THEN seqs[m] ELSE g[m - 1] \o seqs[m]
    BY <1>2, <2>1 DEF Flattens
  <2>3. CASE m = 1
    BY <1>1, <2>1, <2>2, <2>3
  <2>4. CASE m # 1
    <3>1. m - 1 \in 1 .. n /\ m - 1 < m /\ m \in 1 .. n
      BY <1>1, <2>1, <2>4
    <3>2. g[m - 1] \in Seq(T) \ {<< >>}
      BY <2>1, <3>1
    <3>3. seqs[m] \in Seq(T) \ {<< >>}
      BY <1>1, <3>1
    <3>4. g[m - 1] \o seqs[m] \in Seq(T) \ {<< >>}
      <4>1. \A a, b \in Seq(T) : a \o b \in Seq(T) /\ (b # << >> => a \o b # << >>)
        <5> TAKE a, b \in Seq(T)
        <5>1. a \o b \in Seq(T) /\ Len(a \o b) = Len(a) + Len(b) /\ Len(a) \in Nat /\ Len(b) \in Nat
          OBVIOUS
        <5>2. b # << >> => Len(b) # 0
          BY EmptySeq
        <5>3. Len(<< >>) = 0
          OBVIOUS
        <5> QED
          BY <5>1, <5>2, <5>3
      <4> QED
        BY <3>2, <3>3, <4>1
    <3> QED
      BY <2>1, <2>2, <2>4, <3>4
  <2> QED
    BY <2>3, <2>4
<1> QED
  BY <1>1, <1>2, <1>3

-----------------------------------------------------------------------------
(***************************************************************************)
(* The alternatives of a type                                              *)
(***************************************************************************)
\* What Alternatives says of one type, for the alternatives f of its parts.
Flattened(f, t) ==
  CASE Base(t) = "union" ->
         FlattenSeq([i \in DOMAIN TypeInfo[t].members |-> f[TypeInfo[t].members[i]]])
    [] Base(t) = "leafref" -> f[TypeInfo[t].target]
    [] OTHER -> <<t>>

\* The function Alternatives is defined by, for types with all their parts.
Solves(f, types) ==
  /\ types \subseteq Type /\ \A t \in types : Parts(t) \subseteq types
  /\ f = [t \in types |-> Flattened(f, t)]

LEMMA PartsAreTypes ==
  ASSUME NEW t \in Type
  PROVE  Parts(t) \subseteq Type
<1>1. CASE Base(t) = "union"
  <2>1. TypeInfo[t].members \in Seq(Type)
    BY <1>1, TypeAssumption
  <2> QED
    BY <1>1, <2>1 DEF Parts, ToSet
<1>2. CASE Base(t) = "leafref"
  BY <1>2, TypeAssumption DEF Parts
<1>3. CASE Base(t) \notin {"union", "leafref"}
  BY <1>3 DEF Parts
<1> QED
  BY <1>1, <1>2, <1>3

LEMMA OnlyPartsCount ==
  ASSUME NEW t \in Type, NEW f, NEW g, \A part \in Parts(t) : f[part] = g[part]
  PROVE  Flattened(f, t) = Flattened(g, t)
<1>1. CASE Base(t) = "union"
  <2>1. \A i \in DOMAIN TypeInfo[t].members : TypeInfo[t].members[i] \in Parts(t)
    BY <1>1 DEF Parts, ToSet
  <2>2. [i \in DOMAIN TypeInfo[t].members |-> f[TypeInfo[t].members[i]]]
          = [i \in DOMAIN TypeInfo[t].members |-> g[TypeInfo[t].members[i]]]
    BY <2>1
  <2> QED
    BY <1>1, <2>2 DEF Flattened
<1>2. CASE Base(t) = "leafref"
  BY <1>2 DEF Flattened, Parts
<1>3. CASE Base(t) \notin {"union", "leafref"}
  BY <1>3 DEF Flattened
<1> QED
  BY <1>1, <1>2, <1>3

LEMMA SolutionsAgree ==
  ASSUME NEW f, NEW g, NEW S, NEW T, Solves(f, S), Solves(g, T), NEW t \in S \cap T
  PROVE  f[t] = g[t]
<1> DEFINE D == {u \in S \cap T : f[u] # g[u]}
<1> SUFFICES ASSUME D # {} PROVE FALSE
  OBVIOUS
<1>1. D \in SUBSET Type
  BY DEF Solves
<1>2. PICK u \in D : Parts(u) \cap D = {}
  BY <1>1, PartsAssumption
<1>3. \A part \in Parts(u) : f[part] = g[part]
  BY <1>2 DEF Solves
<1>4. Flattened(f, u) = Flattened(g, u)
  BY <1>1, <1>2, <1>3, OnlyPartsCount
<1>5. f[u] = Flattened(f, u) /\ g[u] = Flattened(g, u)
  BY <1>2 DEF Solves
<1> QED
  BY <1>2, <1>4, <1>5

LEMMA SolutionExists == \E f : Solves(f, Type)
<1> DEFINE Solved == {S \in SUBSET Type : \E f : Solves(f, S)}
           U == UNION Solved
           IsValueAt(t, v) == \E S \in SUBSET Type : \E f : Solves(f, S) /\ t \in S /\ v = f[t]
           F == [t \in U |-> CHOOSE v : IsValueAt(t, v)]
<1>1. ASSUME NEW S, NEW f, Solves(f, S), NEW t \in S
      PROVE  t \in U /\ F[t] = f[t]
  <2>1. S \in SUBSET Type /\ t \in U
    BY <1>1 DEF Solves
  <2>2. IsValueAt(t, f[t])
    BY <1>1, <2>1
  <2>3. \A v : IsValueAt(t, v) => v = f[t]
    BY <1>1, SolutionsAgree
  <2> HIDE DEF IsValueAt, U
  <2>4. F[t] = CHOOSE v : IsValueAt(t, v)
    BY <2>1
  <2> QED
    BY <2>1, <2>2, <2>3, <2>4
<1>2. ASSUME NEW t \in U
      PROVE  t \in Type /\ Parts(t) \subseteq U /\ F[t] = Flattened(F, t)
  <2>1. PICK S \in SUBSET Type : \E f : Solves(f, S) /\ t \in S
    BY <1>2
  <2>2. PICK f : Solves(f, S) /\ t \in S
    BY <2>1
  <2>3. Parts(t) \subseteq S /\ f[t] = Flattened(f, t) /\ t \in Type
    BY <2>2 DEF Solves
  <2> HIDE DEF F, U
  <2>4. \A part \in Parts(t) : part \in U /\ F[part] = f[part]
    BY <1>1, <2>2, <2>3
  <2>5. F[t] = f[t]
    BY <1>1, <2>2
  <2>6. Flattened(F, t) = Flattened(f, t)
    BY <2>3, <2>4, OnlyPartsCount
  <2> QED
    BY <2>3, <2>4, <2>5, <2>6
<1>3. F = [t \in U |-> F[t]]
  OBVIOUS
<1> HIDE DEF F
<1>4. \A S, f : Solves(f, S) => S \subseteq U
  BY <1>1
<1> HIDE DEF U
<1>5. Solves(F, U)
  <2>1. F = [t \in U |-> Flattened(F, t)]
    BY <1>2, <1>3
  <2> QED
    BY <1>2, <2>1 DEF Solves
<1>6. U = Type
  <2> SUFFICES ASSUME Type \ U # {} PROVE FALSE
    BY <1>2
  <2>1. PICK t \in Type \ U : Parts(t) \cap (Type \ U) = {}
    BY PartsAssumption
  <2>2. Parts(t) \subseteq U
    BY <2>1, PartsAreTypes
  <2> DEFINE h == [u \in U \cup {t} |-> IF u = t THEN Flattened(F, t) ELSE F[u]]
  <2>3. \A u \in U : h[u] = F[u]
    BY <2>1
  <2>4. h[t] = Flattened(F, t) /\ h = [u \in U \cup {t} |-> h[u]]
    OBVIOUS
  <2> HIDE DEF h
  <2>5. ASSUME NEW u \in U \cup {t}
        PROVE  h[u] = Flattened(h, u) /\ u \in Type /\ Parts(u) \subseteq U
    <3>1. Parts(u) \subseteq U /\ u \in Type
      BY <1>2, <2>1, <2>2
    <3>2. h[u] = Flattened(F, u)
      BY <1>2, <2>3, <2>4
    <3>3. Flattened(F, u) = Flattened(h, u)
      BY <2>3, <3>1, OnlyPartsCount
    <3> QED
      BY <3>1, <3>2, <3>3
  <2>6. h = [u \in U \cup {t} |-> Flattened(h, u)]
    BY <2>4, <2>5
  <2>7. Solves(h, U \cup {t})
    BY <2>5, <2>6 DEF Solves
  <2> QED
    BY <1>4, <2>1, <2>7
<1> QED
  BY <1>5, <1>6

\* The types that are no union and no reference.
Member == {t \in Type : Base(t) \notin {"union", "leafref"}}

\* Every type comes down to some of them.
LEMMA AlternativesAre ==
  ASSUME NEW t \in Type
  PROVE  Alternatives[t] \in Seq(Member) \ {<< >>}
<1>1. Solves(Alternatives, Type)
  <2>1. PICK f : f = [u \in Type |-> Flattened(f, u)]
    BY SolutionExists DEF Solves
  <2>2. Alternatives = [u \in Type |-> Flattened(Alternatives, u)]
    <3>1. Alternatives = CHOOSE g : g = [u \in Type |-> Flattened(g, u)]
      BY DEF Alternatives, Flattened
    <3> QED
      BY <2>1, <3>1
  <2> QED
    BY <2>2, PartsAreTypes DEF Solves
<1>2. \A u \in Type : Alternatives[u] = Flattened(Alternatives, u)
  BY <1>1 DEF Solves
<1> DEFINE D == {u \in Type : Alternatives[u] \notin Seq(Member) \ {<< >>}}
<1> SUFFICES ASSUME D # {} PROVE FALSE
  OBVIOUS
<1>3. PICK u \in D : Parts(u) \cap D = {}
  BY PartsAssumption
<1>4. \A part \in Parts(u) : Alternatives[part] \in Seq(Member) \ {<< >>}
  BY <1>3, PartsAreTypes
<1>5. CASE Base(u) = "union"
  <2> DEFINE members == TypeInfo[u].members
             seqs == [i \in DOMAIN members |-> Alternatives[members[i]]]
  <2>1. members \in Seq(Type) /\ members # << >>
    BY <1>3, <1>5, TypeAssumption
  <2>2. \A i \in DOMAIN members : members[i] \in Parts(u)
    BY <1>5 DEF Parts, ToSet
  <2>3. Len(members) \in Nat /\ DOMAIN members = 1 .. Len(members) /\ Len(members) # 0
    BY <2>1, EmptySeq
  <2> HIDE DEF members
  <2>4. seqs \in [1 .. Len(members) -> Seq(Member) \ {<< >>}]
    BY <1>4, <2>2, <2>3
  <2>5. seqs \in Seq(Seq(Member) \ {<< >>})
    BY <2>3, <2>4, SeqDef
  <2>6. seqs # << >>
    <3>1. DOMAIN seqs = 1 .. Len(members) /\ 1 \in 1 .. Len(members)
      BY <2>3
    <3>2. DOMAIN << >> = {}
      OBVIOUS
    <3> QED
      BY <3>1, <3>2
  <2>7. FlattenSeq(seqs) \in Seq(Member) \ {<< >>}
    BY <2>5, <2>6, FlattenIsNotEmpty
  <2>8. Alternatives[u] = FlattenSeq(seqs)
    BY <1>2, <1>3, <1>5 DEF Flattened, members
  <2> QED
    BY <1>3, <2>7, <2>8
<1>6. CASE Base(u) = "leafref"
  BY <1>2, <1>3, <1>4, <1>6 DEF Flattened, Parts
<1>7. CASE Base(u) \notin {"union", "leafref"}
  <2>1. <<u>> \in Seq(Member) \ {<< >>}
    BY <1>3, <1>7 DEF Member
  <2> QED
    BY <1>2, <1>3, <1>7, <2>1 DEF Flattened
<1> QED
  BY <1>5, <1>6, <1>7

-----------------------------------------------------------------------------
(***************************************************************************)
(* Beginnings of texts                                                     *)
(***************************************************************************)
LEMMA RunIs ==
  ASSUME NEW T, NEW text \in Seq(T), NEW pieces
  PROVE  /\ Run(text, pieces) \in 0 .. Len(text)
         /\ \A i \in 1 .. Run(text, pieces) : text[i] \in pieces
         /\ Run(text, pieces) < Len(text) => text[Run(text, pieces) + 1] \notin pieces
<1> DEFINE n == Len(text)
           S == {m \in 0 .. n : \A i \in 1 .. m : text[i] \in pieces}
<1>1. n \in Nat
  OBVIOUS
<1> HIDE DEF n
<1>2. 0 \in S /\ S \subseteq 0 .. n
  BY <1>1
<1>3. PICK r \in S : r = Max(S) /\ \A m \in S : r >= m
  <2> HIDE DEF S
  <2> QED
    BY <1>1, <1>2, MaxIsGreatest
<1>4. Run(text, pieces) = r
  BY <1>3 DEF Run, n
<1>5. ASSUME r < n
      PROVE  text[r + 1] \notin pieces
  <2> SUFFICES ASSUME text[r + 1] \in pieces PROVE FALSE
    OBVIOUS
  <2>1. r + 1 \in 0 .. n
    BY <1>1, <1>3, <1>5
  <2>2. \A i \in 1 .. r + 1 : text[i] \in pieces
    <3> TAKE i \in 1 .. r + 1
    <3>1. i \in 1 .. r \/ i = r + 1
      BY <1>3
    <3> QED
      BY <1>3, <3>1
  <2>3. r + 1 \in S
    BY <2>1, <2>2
  <2>4. r \in Nat /\ r >= r + 1
    BY <1>3, <2>3
  <2> QED
    BY <2>4
<1> QED
  BY <1>3, <1>4, <1>5 DEF n

LEMMA FromIs ==
  ASSUME NEW T, NEW text \in Seq(T), NEW at \in 1 .. Len(text) + 1
  PROVE  /\ From(text, at) \in Seq(T) /\ Len(From(text, at)) = Len(text) + 1 - at
         /\ \A i \in 1 .. Len(text) + 1 - at : From(text, at)[i] = text[at + i - 1]
<1>1. Len(text) \in Nat /\ at \in Int /\ \A i \in at .. Len(text) : text[i] \in T
  OBVIOUS
<1>2. /\ SubSeq(text, at, Len(text)) \in Seq(T)
      /\ Len(SubSeq(text, at, Len(text))) = IF at <= Len(text) THEN Len(text) - at + 1 ELSE 0
      /\ \A i \in 1 .. Len(text) - at + 1 : SubSeq(text, at, Len(text))[i] = text[at + i - 1]
  BY <1>1, SubSeqProperties
<1>3. PICK n \in Nat : n = Len(text)
  BY <1>1
<1>4. /\ (IF at <= n THEN n - at + 1 ELSE 0) = n + 1 - at
      /\ n - at + 1 = n + 1 - at
  BY <1>3
<1> QED
  BY <1>2, <1>3, <1>4 DEF From

LEMMA PrefixIs ==
  ASSUME NEW T, NEW s \in Seq(T), NEW t \in Seq(T), IsPrefix(s, t)
  PROVE  Len(s) <= Len(t) /\ s = SubSeq(t, 1, Len(s))
BY SubSeqFull DEF IsPrefix

LEMMA SeqOfNone ==
  ASSUME NEW S, S = {}
  PROVE  SetToSeq(S) = << >>
<1>1. Cardinality(S) = 0
  BY FS_EmptySet
<1>2. PICK f : f \in [1 .. 0 -> S] /\ IsInjective(f)
  <2>1. [x \in {} |-> x] \in [1 .. 0 -> S] /\ IsInjective([x \in {} |-> x])
    BY DEF IsInjective
  <2> QED
    BY <2>1
<1>3. SetToSeq(S) \in [1 .. 0 -> S]
  BY <1>1, <1>2 DEF SetToSeq
<1>4. SetToSeq(S) \in Seq(S) /\ Len(SetToSeq(S)) = 0
  BY <1>3, SeqDef
<1> QED
  BY <1>4, EmptySeq

LEMMA SeqOfOne ==
  ASSUME NEW b
  PROVE  SetToSeq({b}) = <<b>>
<1>1. Cardinality({b}) = 1
  BY FS_Singleton
<1>2. <<b>> \in [1 .. 1 -> {b}] /\ IsInjective(<<b>>)
  BY DEF IsInjective
<1>3. SetToSeq({b}) \in [1 .. 1 -> {b}]
  BY <1>1, <1>2 DEF SetToSeq
<1>4. SetToSeq({b}) \in Seq({b}) /\ Len(SetToSeq({b})) = 1
  <2>1. PICK s : s = SetToSeq({b})
    OBVIOUS
  <2>2. 1 \in Nat /\ s \in [1 .. 1 -> {b}]
    BY <1>3, <2>1
  <2>3. s \in Seq({b})
    BY <2>2, SeqDef
  <2>4. Len(s) = 1
    BY <2>2, <2>3
  <2> QED
    BY <2>1, <2>3, <2>4
<1>5. SetToSeq({b})[1] = b
  BY <1>3
<1>6. <<b>> \in Seq({b}) /\ Len(<<b>>) = 1 /\ <<b>>[1] = b
  OBVIOUS
<1> QED
  BY <1>4, <1>5, <1>6, SeqEqual

\* At most one name is the longest that a text begins with.
LEMMA LongestIs ==
  ASSUME NEW T, NEW text \in Seq(T), NEW names, names \subseteq Seq(T)
  PROVE  \/ LongestOf(names, text) = {}
         \/ \E name \in names : LongestOf(names, text) = {name} /\ Len(name) <= Len(text)
<1> SUFFICES ASSUME NEW name \in LongestOf(names, text)
             PROVE  name \in names /\ LongestOf(names, text) = {name} /\ Len(name) <= Len(text)
  OBVIOUS
<1>1. \A a \in LongestOf(names, text) :
        /\ a \in names /\ a \in Seq(T) /\ IsPrefix(a, text)
        /\ \A b \in LongestOf(names, text) : Len(b) <= Len(a)
  BY DEF LongestOf
<1>2. ASSUME NEW a \in LongestOf(names, text)
      PROVE  a = name
  <2>1. Len(a) \in Nat /\ Len(name) \in Nat /\ Len(a) <= Len(name) /\ Len(name) <= Len(a)
    BY <1>1
  <2>2. Len(a) = Len(name)
    BY <2>1
  <2>3. a = SubSeq(text, 1, Len(a)) /\ name = SubSeq(text, 1, Len(name))
    BY <1>1, PrefixIs
  <2> QED
    BY <2>2, <2>3
<1> QED
  BY <1>1, <1>2, PrefixIs

-----------------------------------------------------------------------------
(***************************************************************************)
(* Bits                                                                    *)
(***************************************************************************)
\* What the function of Bits says of one place in the text and the bits left there.
BitFrom(f, text, at, left) ==
  LET Then(bit, spaces) ==
        IF spaces = 0 THEN [used |-> at - 1 + Len(FlattenSeq(bit)), bits |-> bit]
        ELSE [f[at + Len(FlattenSeq(bit)) + spaces][left \ ToSet(bit)] EXCEPT !.bits = bit \o @]
      After(bit) == Then(bit, Run(From(text, at + Len(FlattenSeq(bit))), {Space}))
  IN  After(SetToSeq(LongestOf(left, From(text, at))))

\* This function, from one place on.
ReadsBits(f, names, text, first) ==
  f = [at \in first .. Len(text) + 1 |-> [left \in SUBSET names |-> BitFrom(f, text, at, left)]]

\* The bit that is read, if one is, its size, and the spaces after it.
IsBit(bit, size, spaces, text, at, left) ==
  /\ size \in Nat /\ spaces \in Nat /\ at + size + spaces \in 1 .. Len(text) + 1
  /\ \/ bit = << >>
     \/ \E name \in left : bit = <<name>>
  /\ \A f : BitFrom(f, text, at, left) =
              IF spaces = 0 THEN [used |-> at - 1 + size, bits |-> bit]
              ELSE [f[at + size + spaces][left \ ToSet(bit)] EXCEPT !.bits = bit \o @]

LEMMA BitIs ==
  ASSUME NEW T, NEW text \in Seq(T), NEW left, left \subseteq Seq(T), NEW at \in 1 .. Len(text) + 1
  PROVE  \E bit, size, spaces : IsBit(bit, size, spaces, text, at, left)
<1> DEFINE bit == SetToSeq(LongestOf(left, From(text, at)))
           size == Len(FlattenSeq(bit))
           spaces == Run(From(text, at + size), {Space})
<1>1. From(text, at) \in Seq(T) /\ Len(From(text, at)) = Len(text) + 1 - at /\ Len(text) \in Nat
  BY FromIs
<1>2. /\ \/ bit = << >>
         \/ \E name \in left : bit = <<name>>
      /\ size \in 0 .. Len(text) + 1 - at
  <2>1. CASE LongestOf(left, From(text, at)) = {}
    <3>1. bit = << >>
      BY <2>1, SeqOfNone
    <3>2. FlattenSeq(<< >>) = << >> /\ Len(<< >>) = 0
      BY DEF FlattenSeq
    <3> QED
      BY <1>1, <3>1, <3>2
  <2>2. ASSUME NEW name \in left, LongestOf(left, From(text, at)) = {name}, Len(name) <= Len(From(text, at))
        PROVE  bit = <<name>> /\ size \in 0 .. Len(text) + 1 - at
    <3>1. bit = <<name>>
      BY <2>2, SeqOfOne
    <3>2. size = Len(name) /\ Len(name) \in Nat
      BY <3>1, FlattenOne
    <3> QED
      BY <1>1, <2>2, <3>1, <3>2
  <2> QED
    BY <1>1, <2>1, <2>2, LongestIs
<1> HIDE DEF bit
<1>3. at + size \in 1 .. Len(text) + 1
  BY <1>1, <1>2
<1>4. From(text, at + size) \in Seq(T) /\ Len(From(text, at + size)) = Len(text) + 1 - (at + size)
  <2> HIDE DEF size
  <2> QED
    BY <1>3, FromIs
<1>5. spaces \in 0 .. Len(text) + 1 - (at + size)
  <2> HIDE DEF size
  <2> QED
    BY <1>4, RunIs
<1>6. \A f : BitFrom(f, text, at, left) =
               IF spaces = 0 THEN [used |-> at - 1 + size, bits |-> bit]
               ELSE [f[at + size + spaces][left \ ToSet(bit)] EXCEPT !.bits = bit \o @]
  BY DEF BitFrom, bit
<1> HIDE DEF size, spaces
<1>7. at + size + spaces \in 1 .. Len(text) + 1
  BY <1>1, <1>2, <1>3, <1>5
<1>8. size \in Nat /\ spaces \in Nat
  BY <1>1, <1>2, <1>3, <1>5
<1>9. IsBit(bit, size, spaces, text, at, left)
  BY <1>2, <1>6, <1>7, <1>8 DEF IsBit
<1> QED
  BY <1>9

\* Each place needs later ones only.
LEMMA LaterBitsCount ==
  ASSUME NEW T, NEW text \in Seq(T), NEW left, left \subseteq Seq(T), NEW at \in 1 .. Len(text) + 1,
         NEW f, NEW g, \A i \in at + 1 .. Len(text) + 1 : f[i] = g[i]
  PROVE  BitFrom(f, text, at, left) = BitFrom(g, text, at, left)
<1>0. PICK bit, size, spaces : IsBit(bit, size, spaces, text, at, left)
  BY BitIs
<1>1. /\ size \in Nat /\ spaces \in Nat /\ at + size + spaces \in 1 .. Len(text) + 1
      /\ \A h : BitFrom(h, text, at, left) =
                  IF spaces = 0 THEN [used |-> at - 1 + size, bits |-> bit]
                  ELSE [h[at + size + spaces][left \ ToSet(bit)] EXCEPT !.bits = bit \o @]
  BY <1>0 DEF IsBit
<1>2. CASE spaces = 0
  BY <1>1, <1>2
<1>3. CASE spaces # 0
  <2>1. at + size + spaces \in at + 1 .. Len(text) + 1
    BY <1>1, <1>3
  <2>2. f[at + size + spaces] = g[at + size + spaces]
    BY <2>1
  <2> QED
    BY <1>1, <1>3, <2>2
<1> QED
  BY <1>2, <1>3

LEMMA BitsAreRead ==
  ASSUME NEW T, NEW text \in Seq(T), NEW names, names \subseteq Seq(T), NEW n \in 0 .. Len(text)
  PROVE  \E f : ReadsBits(f, names, text, Len(text) + 1 - n)
<1> DEFINE N == Len(text) + 1
           D == {m \in 0 .. Len(text) : ~ \E f : ReadsBits(f, names, text, N - m)}
<1> SUFFICES ASSUME D # {} PROVE FALSE
  OBVIOUS
<1>0. D \subseteq Nat /\ N \in Nat /\ Len(text) \in Nat
  OBVIOUS
<1>1. PICK m \in D : \A k \in D : ~(k < m)
  BY <1>0, LeastExists
<1> DEFINE at == N - m
<1>2. at \in 1 .. N /\ m \in Nat /\ at \in Nat
  BY <1>0, <1>1
<1>3. PICK g : m # 0 => ReadsBits(g, names, text, at + 1)
  <2>1. CASE m = 0
    BY <2>1
  <2>2. CASE m # 0
    <3>1. m - 1 \in 0 .. Len(text) /\ m - 1 < m /\ N - (m - 1) = at + 1
      BY <1>0, <1>1, <2>2
    <3> QED
      BY <1>1, <3>1
  <2> QED
    BY <2>1, <2>2
<1> HIDE DEF at
<1> DEFINE h == [i \in at .. N |-> IF i = at THEN [left \in SUBSET names |-> BitFrom(g, text, at, left)]
                                   ELSE g[i]]
<1>4. /\ \A i \in at + 1 .. N : h[i] = g[i]
      /\ h[at] = [left \in SUBSET names |-> BitFrom(g, text, at, left)]
      /\ h = [i \in at .. N |-> h[i]]
  BY <1>2
<1> HIDE DEF h
<1>5. ASSUME NEW i \in at .. N
      PROVE  h[i] = [left \in SUBSET names |-> BitFrom(h, text, i, left)]
  <2>1. i \in 1 .. Len(text) + 1
    BY <1>2
  <2>2. \A k \in i + 1 .. Len(text) + 1 : g[k] = h[k]
    <3>1. \A k \in i + 1 .. N : k \in at + 1 .. N
      BY <1>2
    <3> QED
      BY <1>4, <3>1
  <2>3. \A left \in SUBSET names : BitFrom(g, text, i, left) = BitFrom(h, text, i, left)
    <3> TAKE left \in SUBSET names
    <3>1. left \subseteq Seq(T)
      OBVIOUS
    <3> QED
      BY <2>1, <2>2, <3>1, LaterBitsCount
  <2>4. [left \in SUBSET names |-> BitFrom(g, text, i, left)]
          = [left \in SUBSET names |-> BitFrom(h, text, i, left)]
    BY <2>3
  <2>5. CASE i = at
    BY <1>4, <2>4, <2>5
  <2>6. CASE i # at
    <3>1. i \in at + 1 .. N /\ m # 0
      BY <1>2, <2>6 DEF at
    <3>2. g[i] = [left \in SUBSET names |-> BitFrom(g, text, i, left)]
      BY <1>3, <3>1 DEF ReadsBits
    <3> QED
      BY <1>4, <2>4, <3>1, <3>2
  <2> QED
    BY <2>5, <2>6
<1>6. ReadsBits(h, names, text, at)
  BY <1>4, <1>5 DEF ReadsBits
<1> QED
  BY <1>1, <1>6 DEF at

\* What is read is bits among those left, each of them once.
AreBits(left, read) ==
  /\ read = [used |-> read.used, bits |-> read.bits]
  /\ read.bits \in Seq(left) /\ IsInjective(read.bits)

LEMMA NoBitOrOne ==
  ASSUME NEW left, NEW bit, bit = << >> \/ \E name \in left : bit = <<name>>
  PROVE  bit \in Seq(left) /\ IsInjective(bit)
<1>1. CASE bit = << >>
  BY <1>1 DEF IsInjective
<1>2. ASSUME NEW name \in left, bit = <<name>>
      PROVE  bit \in Seq(left) /\ IsInjective(bit)
  <2>1. DOMAIN <<name>> = 1 .. 1
    OBVIOUS
  <2>2. \A a, b \in 1 .. 1 : a = b
    OBVIOUS
  <2> QED
    BY <1>2, <2>1, <2>2 DEF IsInjective
<1> QED
  BY <1>1, <1>2

LEMMA AnotherBit ==
  ASSUME NEW left, NEW name \in left, NEW bits \in Seq(left \ {name}), IsInjective(bits)
  PROVE  <<name>> \o bits \in Seq(left) /\ IsInjective(<<name>> \o bits)
<1>1. PICK bit : bit = <<name>> /\ bit \in Seq(left) /\ Len(bit) = 1 /\ bit[1] = name
  <2>1. <<name>> \in Seq(left) /\ Len(<<name>>) = 1 /\ <<name>>[1] = name
    OBVIOUS
  <2> QED
    BY <2>1
<1>2. bits \in Seq(left) /\ Len(bits) \in Nat /\ \A i \in 1 .. Len(bits) : bits[i] # name
  OBVIOUS
<1> DEFINE more == bit \o bits
<1>3. /\ more \in Seq(left) /\ Len(more) = 1 + Len(bits)
      /\ \A i \in 1 .. 1 + Len(bits) : more[i] = IF i <= 1 THEN name ELSE bits[i - 1]
  BY <1>1, <1>2, ConcatProperties
<1>4. DOMAIN more = 1 .. 1 + Len(bits)
  BY <1>3
<1> HIDE DEF more
<1>5. ASSUME NEW a \in 1 .. 1 + Len(bits), NEW b \in 1 .. 1 + Len(bits), more[a] = more[b]
      PROVE  a = b
  <2>1. \A i \in 1 .. 1 + Len(bits) : i = 1 \/ i - 1 \in 1 .. Len(bits)
    BY <1>2
  <2>2. CASE a = 1
    BY <1>2, <1>3, <1>5, <2>1, <2>2
  <2>3. CASE b = 1
    BY <1>2, <1>3, <1>5, <2>1, <2>3
  <2>4. CASE a # 1 /\ b # 1
    <3>1. bits[a - 1] = bits[b - 1] /\ a - 1 \in 1 .. Len(bits) /\ b - 1 \in 1 .. Len(bits)
      BY <1>3, <1>5, <2>1, <2>4
    <3>2. DOMAIN bits = 1 .. Len(bits)
      BY <1>2
    <3>3. a - 1 = b - 1
      BY <3>1, <3>2 DEF IsInjective
    <3> QED
      BY <1>2, <3>3
  <2> QED
    BY <2>2, <2>3, <2>4
<1> QED
  BY <1>1, <1>3, <1>4, <1>5 DEF IsInjective, more

LEMMA BitFromAreBits ==
  ASSUME NEW text \in Seq(Piece), NEW left, left \subseteq Seq(Piece), NEW at \in 1 .. Len(text) + 1,
         NEW f, \A i \in at + 1 .. Len(text) + 1 : \A rest \in SUBSET left : AreBits(rest, f[i][rest])
  PROVE  AreBits(left, BitFrom(f, text, at, left))
<1>0. PICK bit, size, spaces : IsBit(bit, size, spaces, text, at, left)
  BY BitIs
<1>1. /\ size \in Nat /\ spaces \in Nat /\ at + size + spaces \in 1 .. Len(text) + 1
      /\ \A h : BitFrom(h, text, at, left) =
                  IF spaces = 0 THEN [used |-> at - 1 + size, bits |-> bit]
                  ELSE [h[at + size + spaces][left \ ToSet(bit)] EXCEPT !.bits = bit \o @]
  BY <1>0 DEF IsBit
<1>2. bit \in Seq(left) /\ IsInjective(bit)
  BY <1>0, NoBitOrOne DEF IsBit
<1>3. CASE spaces = 0
  BY <1>1, <1>2, <1>3 DEF AreBits
<1>4. CASE spaces # 0
  <2> DEFINE rest == left \ ToSet(bit)
             read == f[at + size + spaces][rest]
  <2>1. at + size + spaces \in at + 1 .. Len(text) + 1
    BY <1>1, <1>4
  <2>2. AreBits(rest, read)
    BY <2>1
  <2>3. BitFrom(f, text, at, left) = [read EXCEPT !.bits = bit \o @]
    BY <1>1, <1>4
  <2> HIDE DEF read
  <2>4. BitFrom(f, text, at, left) = [used |-> read.used, bits |-> bit \o read.bits]
    BY <2>2, <2>3 DEF AreBits
  <2>5. CASE bit = << >>
    <3>1. rest = left
      BY <2>5 DEF ToSet
    <3>2. bit \o read.bits = read.bits
      BY <2>2, <2>5, ConcatEmptySeq DEF AreBits
    <3> QED
      BY <2>2, <2>4, <3>1, <3>2 DEF AreBits
  <2>6. ASSUME NEW name \in left, bit = <<name>>
        PROVE  AreBits(left, BitFrom(f, text, at, left))
    <3>1. rest = left \ {name}
      BY <2>6 DEF ToSet
    <3>2. read.bits \in Seq(left \ {name}) /\ IsInjective(read.bits)
      BY <2>2, <3>1 DEF AreBits
    <3>3. bit \o read.bits \in Seq(left) /\ IsInjective(bit \o read.bits)
      BY <2>6, <3>2, AnotherBit
    <3> QED
      BY <2>4, <3>3 DEF AreBits
  <2> QED
    BY <1>0, <2>5, <2>6 DEF IsBit
<1> QED
  BY <1>3, <1>4

LEMMA ReadBitsAreBits ==
  ASSUME NEW text \in Seq(Piece), NEW names, names \subseteq Seq(Piece), NEW f,
         ReadsBits(f, names, text, 1), NEW n \in 0 .. Len(text)
  PROVE  \A left \in SUBSET names : AreBits(left, f[Len(text) + 1 - n][left])
<1> DEFINE N == Len(text) + 1
           D == {m \in 0 .. Len(text) : ~ \A left \in SUBSET names : AreBits(left, f[N - m][left])}
<1> SUFFICES ASSUME D # {} PROVE FALSE
  OBVIOUS
<1>0. D \subseteq Nat /\ N \in Nat /\ Len(text) \in Nat
  OBVIOUS
<1>1. PICK m \in D : \A k \in D : ~(k < m)
  BY <1>0, LeastExists
<1>2. PICK at \in 1 .. N : at = N - m
  BY <1>0, <1>1
<1>3. ASSUME NEW i \in at + 1 .. N
      PROVE  \A rest \in SUBSET names : AreBits(rest, f[i][rest])
  <2>1. N - i \in Nat
    BY <1>0, <1>2
  <2>2. PICK k \in Nat : k = N - i
    BY <2>1, Zenon
  <2>3. k \in 0 .. Len(text) /\ N - k = i /\ k < m
    BY <1>0, <1>1, <1>2, <2>2
  <2> QED
    BY <1>1, <2>3
<1>4. ASSUME NEW left \in SUBSET names
      PROVE  AreBits(left, f[at][left])
  <2>1. f[at][left] = BitFrom(f, text, at, left)
    <3>1. f[at] = [rest \in SUBSET names |-> BitFrom(f, text, at, rest)]
      BY <1>2 DEF ReadsBits
    <3> QED
      BY <1>4, <3>1
  <2>2. \A i \in at + 1 .. N : \A rest \in SUBSET left : AreBits(rest, f[i][rest])
    BY <1>3
  <2>3. left \subseteq Seq(Piece)
    OBVIOUS
  <2> QED
    BY <1>2, <2>1, <2>2, <2>3, BitFromAreBits
<1> QED
  BY <1>1, <1>2, <1>4

\* The bits that are read are bits of the type, each of them once.
LEMMA BitsAre ==
  ASSUME NEW t \in Type, Base(t) = "bits", NEW text \in Seq(Piece)
  PROVE  /\ Bits(t, text).bits \in Seq(TypeInfo[t].names)
         /\ IsInjective(Bits(t, text).bits)
<1> DEFINE names == TypeInfo[t].names
<1>1. names \subseteq Seq(Piece) /\ Len(text) \in Nat
  BY TypeAssumption
<1> HIDE DEF names
<1>2. PICK f : ReadsBits(f, names, text, 1) /\ Bits(t, text) = f[1][names]
  <2>1. \E f : ReadsBits(f, names, text, 1)
    <3>1. Len(text) \in 0 .. Len(text) /\ Len(text) + 1 - Len(text) = 1
      BY <1>1
    <3> QED
      BY <1>1, <3>1, BitsAreRead
  <2> DEFINE f == CHOOSE f : ReadsBits(f, names, text, 1)
  <2>2. Bits(t, text) = f[1][names]
    BY DEF Bits, ReadsBits, BitFrom, names
  <2> QED
    BY <2>1, <2>2
<1>3. AreBits(names, f[1][names])
  <2>1. Len(text) \in 0 .. Len(text) /\ Len(text) + 1 - Len(text) = 1
    BY <1>1
  <2> QED
    BY <1>1, <1>2, <2>1, ReadBitsAreBits
<1> QED
  BY <1>2, <1>3 DEF names, AreBits

-----------------------------------------------------------------------------
(***************************************************************************)
(* What each parser reads                                                  *)
(***************************************************************************)
LEMMA PlainIsItsText ==
  ASSUME NEW kind, NEW text
  PROVE  LeafDataToString(Data(kind, Unprefixed, text)) = text
BY DEF LeafDataToString, Data

LEMMA UnsignedIsRead ==
  ASSUME NEW t \in Type, Base(t) \in {"unsigned", "signed"}, NEW text \in Seq(Piece), NEW max,
         NEW r \in ReadUnsigned(max, text)
  PROVE  \E digits \in Number : /\ r.data = Data("integer", Unprefixed, <<digits>>)
                                /\ ValueOf[digits] <= max /\ text # << >> /\ digits = text[1]
BY DEF ReadUnsigned, Starts, Reading

LEMMA UnsignedIsValue ==
  ASSUME NEW t \in Type, Base(t) = "unsigned", NEW text \in Seq(Piece),
         NEW r \in ReadUnsigned(TypeInfo[t].max, text)
  PROVE  \E value : r.data = Data("integer", Unprefixed, value) /\ IsValue(t, value)
<1>1. PICK digits \in Number : /\ r.data = Data("integer", Unprefixed, <<digits>>)
                               /\ ValueOf[digits] <= TypeInfo[t].max
  BY UnsignedIsRead
<1>2. WithinOf(t, <<digits>>)
  BY <1>1 DEF WithinOf
<1>3. IsValue(t, <<digits>>)
  BY <1>2 DEF IsValue
<1> QED
  BY <1>1, <1>3

LEMMA SignedIsValue ==
  ASSUME NEW t \in Type, Base(t) = "signed", NEW text \in Seq(Piece),
         NEW r \in ReadSigned(TypeInfo[t].max, text)
  PROVE  \E value : r.data = Data("integer", Unprefixed, value) /\ IsValue(t, value)
<1> DEFINE max == TypeInfo[t].max
<1>1. max \in Nat /\ \A digits \in Number : digits \notin {"+", "-"} /\ ValueOf[digits] \in Nat
  BY TypeAssumption, PieceAssumption DEF Signs
<1>2. PICK read \in ReadUnsigned(max + Len(Sign(text)), Unsigned(text)) :
        r.data = Data("integer", Unprefixed, Sign(text) \o read.data.text)
  BY DEF ReadSigned, Reading
<1> HIDE DEF max
<1>3. Unsigned(text) \in Seq(Piece)
  <2>1. CASE Starts(text, Signs)
    <3>1. text # << >> /\ Unsigned(text) = Tail(text)
      BY <2>1 DEF Starts, Unsigned
    <3> QED
      BY <3>1, HeadTailProperties
  <2>2. CASE ~Starts(text, Signs)
    BY <2>2 DEF Unsigned
  <2> QED
    BY <2>1, <2>2
<1>4. PICK digits \in Number : /\ read.data = Data("integer", Unprefixed, <<digits>>)
                               /\ ValueOf[digits] <= max + Len(Sign(text))
  BY <1>3, UnsignedIsRead
<1>5. r.data = Data("integer", Unprefixed, Sign(text) \o <<digits>>)
  BY <1>2, <1>4 DEF Data
<1>6. CASE Sign(text) = <<"-">>
  <2> DEFINE signed == <<"-">> \o <<digits>>
  <2>1. Len(<<"-">>) = 1 /\ Len(<<digits>>) = 1 /\ <<"-">>[1] = "-" /\ <<digits>>[1] = digits
    OBVIOUS
  <2>2. Len(signed) = 2 /\ signed[1] = "-" /\ signed[2] = digits /\ signed # << >>
    <3>1. <<"-">> \in Seq({"-", digits}) /\ <<digits>> \in Seq({"-", digits})
      OBVIOUS
    <3>2. /\ signed \in Seq({"-", digits}) /\ Len(signed) = 1 + 1
          /\ \A i \in 1 .. 1 + 1 : signed[i] = IF i <= 1 THEN <<"-">>[i] ELSE <<digits>>[i - 1]
      BY <2>1, <3>1, ConcatProperties
    <3> HIDE DEF signed
    <3>3. signed[1] = <<"-">>[1]
      BY <3>2
    <3>4. signed[2] = <<digits>>[2 - 1]
      BY <3>2
    <3>5. Len(signed) = 2
      BY <3>2
    <3>6. Len(<< >>) # 2
      OBVIOUS
    <3>7. signed # << >>
      BY <3>5, <3>6, Zenon
    <3>8. signed[1] = "-"
      BY <2>1, <3>3
    <3>9. 2 - 1 = 1
      OBVIOUS
    <3>10. signed[2] = digits
      BY <2>1, <3>4, <3>9
    <3> QED
      BY <3>5, <3>7, <3>8, <3>10
  <2> HIDE DEF signed
  <2>3. ValueOf[digits] <= max + 1
    BY <1>4, <1>6, <2>1
  <2>4. WithinOf(t, signed)
    BY <2>2, <2>3 DEF WithinOf, max
  <2>5. IsValue(t, signed)
    BY <2>4 DEF IsValue
  <2> QED
    BY <1>5, <1>6, <2>5 DEF signed
<1>7. CASE Sign(text) = << >>
  <2>1. << >> \o <<digits>> = <<digits>> /\ Len(<< >>) = 0
    OBVIOUS
  <2>2. Len(<<digits>>) = 1 /\ <<digits>>[1] = digits /\ digits # "-"
    BY <1>1
  <2>3. ValueOf[digits] <= max
    BY <1>1, <1>4, <1>7, <2>1
  <2>4. WithinOf(t, <<digits>>)
    BY <2>2, <2>3 DEF WithinOf, max
  <2>5. IsValue(t, <<digits>>)
    BY <2>4 DEF IsValue
  <2> QED
    BY <1>5, <1>7, <2>1, <2>5
<1> QED
  BY <1>6, <1>7 DEF Sign

LEMMA DecimalIsValue ==
  ASSUME NEW t \in Type, Base(t) = "decimal", NEW text \in Seq(Piece), NEW r \in ReadDecimal(text)
  PROVE  \E value : r.data = Data("decimal", Unprefixed, value) /\ IsValue(t, value)
<1>1. \A s : OrZero(Digits(s)) \in Number /\ OrZero(<< >>) \in Number
  <2> TAKE s
  <2>1. CASE Starts(s, Number)
    <3>1. Digits(s) = <<s[1]>> /\ s[1] \in Number
      BY <2>1 DEF Digits, Starts
    <3>2. <<s[1]>> # << >> /\ <<s[1]>>[1] = s[1]
      OBVIOUS
    <3> QED
      BY <3>1, <3>2, PieceAssumption DEF OrZero
  <2>2. CASE ~Starts(s, Number)
    BY <2>2, PieceAssumption DEF Digits, OrZero
  <2> QED
    BY <2>1, <2>2
<1>2. \E sign : \E whole, fraction \in Number :
        r.data = Data("decimal", Unprefixed, Sign(sign) \o <<whole, ".", SixDigits[fraction]>>)
  <2>1. \A sign, whole, point, fraction : r \in DecimalOf(sign, whole, point, fraction) =>
          r.data = Data("decimal", Unprefixed, Sign(sign) \o <<OrZero(whole), ".", SixDigits[OrZero(fraction)]>>)
    BY DEF DecimalOf, Reading
  <2> DEFINE sign == SubSeq(text, 1, Len(text) - Len(Unsigned(text)))
             rest == From(text, Len(sign) + Len(Digits(Unsigned(text))) + 1)
  <2>2. r \in AfterWhole(sign, Digits(Unsigned(text)), rest)
    BY DEF ReadDecimal
  <2> HIDE DEF sign, rest
  <2>3. \E fraction \in {Digits(Tail(rest)), << >>} : \E point :
          r \in DecimalOf(sign, Digits(Unsigned(text)), point, fraction)
    BY <2>2 DEF AfterWhole
  <2>4. PICK fraction \in {Digits(Tail(rest)), << >>} :
          r.data = Data("decimal", Unprefixed,
                        Sign(sign) \o <<OrZero(Digits(Unsigned(text))), ".", SixDigits[OrZero(fraction)]>>)
    BY <2>1, <2>3
  <2>5. OrZero(fraction) \in Number /\ OrZero(Digits(Unsigned(text))) \in Number
    BY <1>1, <2>4
  <2> QED
    BY <2>4, <2>5
<1>2a. PICK sign : \E whole, fraction \in Number :
        r.data = Data("decimal", Unprefixed, Sign(sign) \o <<whole, ".", SixDigits[fraction]>>)
  BY <1>2
<1>2b. PICK whole \in Number, fraction \in Number :
        r.data = Data("decimal", Unprefixed, Sign(sign) \o <<whole, ".", SixDigits[fraction]>>)
  BY <1>2a
<1> DEFINE value == Sign(sign) \o <<whole, ".", SixDigits[fraction]>>
<1>3. IsDecimal(value)
  <2>1. Sign(sign) \in {<< >>, <<"-">>}
    BY DEF Sign
  <2> QED
    BY <2>1 DEF IsDecimal
<1> HIDE DEF value
<1>4. IsValue(t, value)
  BY <1>3 DEF IsValue
<1> QED
  BY <1>2b, <1>4 DEF value

LEMMA NameIsRead ==
  ASSUME NEW kind, NEW names, NEW text, NEW r \in ReadName(kind, names, text)
  PROVE  \E name \in names : r.data = Data(kind, Unprefixed, name)
BY DEF ReadName, LongestOf, Reading

LEMMA BitsIsValue ==
  ASSUME NEW t \in Type, Base(t) = "bits", NEW text \in Seq(Piece), NEW r \in ReadBits(t, text)
  PROVE  \E value : r.data = Data("bits", Unprefixed, value) /\ IsValue(t, value)
<1> DEFINE names == TypeInfo[t].names
<1>1. PICK bits : /\ r.data = Data("bits", Unprefixed, Spaced(bits))
                  /\ bits \in Seq(names) /\ IsInjective(bits)
  BY BitsAre DEF ReadBits, Reading
<1>2. Len(bits) \in Nat /\ DOMAIN bits = 1 .. Len(bits) /\ \A i \in 1 .. Len(bits) : bits[i] \in names
  BY <1>1
<1> DEFINE range == {bits[i] : i \in 1 .. Len(bits)}
<1>3. bits \in Bijection(1 .. Len(bits), range)
  <2>1. bits \in [1 .. Len(bits) -> range]
    <3>1. \A i \in 1 .. Len(bits) : bits[i] \in range
      OBVIOUS
    <3>2. bits = [i \in 1 .. Len(bits) |-> bits[i]]
      BY <1>1, <1>2
    <3> HIDE DEF range
    <3> QED
      BY <3>1, <3>2
  <2> QED
    BY <1>1, <1>2, <2>1 DEF Bijection, Injection, Surjection
<1>4. range \subseteq names
  BY <1>2
<1> HIDE DEF range
<1>5. Cardinality(range) = Len(bits)
  <2>1. ExistsBijection(1 .. Len(bits), range)
    BY <1>3 DEF ExistsBijection
  <2> QED
    BY <1>2, <2>1, FS_CountingElements
<1>6. bits \in SetToSeqs(range)
  <2>1. bits \in [1 .. Len(bits) -> range]
    BY <1>3 DEF Bijection, Injection
  <2> QED
    BY <1>1, <1>2, <1>5, <2>1 DEF SetToSeqs, IsInjective
<1>7. bits \in SetToAllKPermutations(names)
  BY <1>4, <1>6 DEF SetToAllKPermutations
<1>8. IsValue(t, Spaced(bits))
  BY <1>7 DEF IsValue
<1> QED
  BY <1>1, <1>8

LEMMA LesserOfTwo ==
  ASSUME NEW n \in Nat
  PROVE  Min({2, n}) = IF n <= 2 THEN n ELSE 2
<1>1. PICK m \in {2, n} : \A k \in {2, n} : m <= k
  <2>1. CASE n <= 2
    BY <2>1
  <2>2. CASE ~(n <= 2)
    BY <2>2
  <2> QED
    BY <2>1, <2>2
<1>2. Min({2, n}) \in {2, n} /\ \A k \in {2, n} : Min({2, n}) <= k
  BY <1>1 DEF Min
<1> QED
  BY <1>2

LEMMA FrontIs ==
  ASSUME NEW text \in Seq(Piece), NEW k \in Int, k >= 1, k <= Len(text)
  PROVE  /\ SubSeq(text, 1, k) \in Seq(Piece) /\ Len(SubSeq(text, 1, k)) = k
         /\ \A i \in 1 .. k : SubSeq(text, 1, k)[i] = text[i]
<1>1. \A i \in 1 .. k : text[i] \in Piece
  <2> TAKE i \in 1 .. k
  <2>1. i \in 1 .. Len(text)
    OBVIOUS
  <2> QED
    BY <2>1
<1>2. PICK front : front = SubSeq(text, 1, k)
  OBVIOUS
<1>3. /\ front \in Seq(Piece) /\ Len(front) = IF 1 <= k THEN k - 1 + 1 ELSE 0
      /\ \A i \in 1 .. k - 1 + 1 : front[i] = text[1 + i - 1]
  BY <1>1, <1>2, SubSeqProperties
<1>4. k - 1 + 1 = k /\ \A i \in 1 .. k : 1 + i - 1 = i
  OBVIOUS
<1> QED
  BY <1>2, <1>3, <1>4

\* The characters that are read are read again, as a whole.
LEMMA BinaryIsValue ==
  ASSUME NEW t \in Type, Base(t) = "binary", NEW text \in Seq(Piece), NEW r \in ReadBinary(text)
  PROVE  \E value : r.data = Data("binary", Unprefixed, value) /\ IsValue(t, value)
<1> DEFINE characters == Word \cup Number \cup {"+", "/"}
           n == Run(text, characters)
           rest == From(text, n + 1)
           equals == Run(rest, {"="})
           padding == Min({2, equals})
           value == SubSeq(text, 1, n + padding)
           m == Run(value, characters)
           after == From(value, m + 1)
           again == Run(after, {"="})
<1>1. n # 0 /\ r.data = Data("binary", Unprefixed, value)
  BY DEF ReadBinary, Reading
<1>2. "=" \notin characters
  BY PieceAssumption
<1>3. /\ n \in 0 .. Len(text) /\ \A i \in 1 .. n : text[i] \in characters
      /\ Len(text) \in Nat /\ n \in Nat
  <2> HIDE DEF characters
  <2>1. n \in 0 .. Len(text) /\ \A i \in 1 .. n : text[i] \in characters
    BY RunIs
  <2> QED
    BY <2>1
<1>4. ReadBinary(value) = IF m = 0 THEN {}
        ELSE {Reading(m + Min({2, again}), Data("binary", Unprefixed, SubSeq(value, 1, m + Min({2, again}))))}
  BY DEF ReadBinary
<1> HIDE DEF characters, n
<1>5. /\ rest \in Seq(Piece) /\ Len(rest) = Len(text) - n
      /\ \A i \in 1 .. Len(text) - n : rest[i] = text[n + i]
  <2>1. n + 1 \in 1 .. Len(text) + 1
    BY <1>3
  <2>2. /\ rest \in Seq(Piece) /\ Len(rest) = Len(text) + 1 - (n + 1)
        /\ \A i \in 1 .. Len(text) + 1 - (n + 1) : rest[i] = text[(n + 1) + i - 1]
    BY <2>1, FromIs
  <2>3. Len(text) + 1 - (n + 1) = Len(text) - n /\ \A i \in Nat : (n + 1) + i - 1 = n + i
    BY <1>3
  <2> QED
    BY <2>2, <2>3
<1> HIDE DEF rest
<1>6. equals \in 0 .. Len(text) - n /\ equals \in Nat /\ \A i \in 1 .. equals : rest[i] = "="
  <2>1. equals \in 0 .. Len(rest) /\ \A i \in 1 .. equals : rest[i] \in {"="}
    BY <1>5, RunIs
  <2> QED
    BY <1>5, <2>1
<1> HIDE DEF equals
<1>7. padding \in Nat /\ padding <= equals /\ padding <= 2
  BY <1>6, LesserOfTwo
<1> HIDE DEF padding
<1>8. /\ value \in Seq(Piece) /\ Len(value) = n + padding
      /\ \A i \in 1 .. n + padding : value[i] = text[i]
  <2>1. n + padding \in Int /\ 1 \in Int /\ n + padding >= 1 /\ n + padding <= Len(text)
    BY <1>1, <1>3, <1>6, <1>7
  <2>2. \A i \in 1 .. n + padding : text[i] \in Piece
    BY <1>3, <2>1
  <2>3. PICK k \in Int : k = n + padding
    BY <2>1
  <2>4. k >= 1 /\ k <= Len(text) /\ \A i \in 1 .. k : text[i] \in Piece
    BY <2>1, <2>2, <2>3
  <2>5. PICK front : front = SubSeq(text, 1, k)
    OBVIOUS
  <2>6. front \in Seq(Piece) /\ Len(front) = k /\ \A i \in 1 .. k : front[i] = text[i]
    BY <2>4, <2>5, FrontIs
  <2>7. value = front
    BY <2>3, <2>5 DEF value
  <2> QED
    BY <2>3, <2>6, <2>7
<1> HIDE DEF value
<1>9. \A i \in 1 .. n : value[i] \in characters
  BY <1>3, <1>7, <1>8
<1>10. \A i \in n + 1 .. n + padding : value[i] = "="
  <2> TAKE i \in n + 1 .. n + padding
  <2>1. PICK j \in 1 .. padding : i = n + j
    <3>1. i - n \in 1 .. padding /\ i = n + (i - n)
      BY <1>3, <1>7
    <3> QED
      BY <3>1
  <2>2. i \in 1 .. n + padding /\ j \in 1 .. equals /\ j \in 1 .. Len(text) - n
    BY <1>3, <1>6, <1>7, <2>1
  <2> QED
    BY <1>5, <1>6, <1>8, <2>1, <2>2
<1>11. m = n
  <2>1. /\ m \in 0 .. n + padding /\ \A i \in 1 .. m : value[i] \in characters
        /\ m < n + padding => value[m + 1] \notin characters
    BY <1>8, RunIs
  <2> HIDE DEF m
  <2>2. ~(m < n)
    <3> SUFFICES ASSUME m < n PROVE FALSE
      OBVIOUS
    <3>1. m + 1 \in 1 .. n /\ m < n + padding
      BY <1>3, <1>7, <2>1
    <3> QED
      BY <1>9, <2>1, <3>1
  <2>3. ~(m > n)
    <3> SUFFICES ASSUME m > n PROVE FALSE
      OBVIOUS
    <3>1. n + 1 \in 1 .. m /\ n + 1 \in n + 1 .. n + padding
      BY <1>3, <1>7, <2>1
    <3> QED
      BY <1>2, <1>10, <2>1, <3>1
  <2> QED
    BY <1>3, <1>7, <2>1, <2>2, <2>3
<1> HIDE DEF m
<1>12. /\ after \in Seq(Piece) /\ Len(after) = padding
       /\ \A i \in 1 .. padding : after[i] = "="
  <2>1. n + 1 \in 1 .. Len(value) + 1
    BY <1>3, <1>7, <1>8
  <2>2. /\ after \in Seq(Piece) /\ Len(after) = Len(value) + 1 - (n + 1)
        /\ \A i \in 1 .. Len(value) + 1 - (n + 1) : after[i] = value[(n + 1) + i - 1]
    BY <1>8, <1>11, <2>1, FromIs
  <2>3. Len(value) + 1 - (n + 1) = padding
    BY <1>3, <1>7, <1>8
  <2>4. \A i \in 1 .. padding : (n + 1) + i - 1 \in n + 1 .. n + padding
    BY <1>3, <1>7
  <2> QED
    BY <1>10, <2>2, <2>3, <2>4
<1> HIDE DEF after
<1>13. again = padding
  <2>1. /\ again \in 0 .. padding
        /\ again < padding => after[again + 1] \notin {"="}
    BY <1>12, RunIs
  <2> HIDE DEF again
  <2>2. ~(again < padding)
    <3> SUFFICES ASSUME again < padding PROVE FALSE
      OBVIOUS
    <3>1. again + 1 \in 1 .. padding
      BY <1>7, <2>1
    <3> QED
      BY <1>12, <2>1, <3>1
  <2> QED
    BY <1>7, <2>1, <2>2
<1> HIDE DEF again
<1>14. Min({2, again}) = padding
  BY <1>7, <1>13, LesserOfTwo
<1>15. ReadBinary(value) # {} /\ \A read \in ReadBinary(value) : read.used = Len(value)
  <2>1. m # 0 /\ m + Min({2, again}) = Len(value)
    BY <1>1, <1>8, <1>11, <1>14
  <2>2. ReadBinary(value) = {Reading(Len(value), Data("binary", Unprefixed, SubSeq(value, 1, Len(value))))}
    BY <1>4, <2>1
  <2> QED
    BY <2>2 DEF Reading
<1>16. IsValue(t, value)
  BY <1>15 DEF IsValue
<1> QED
  BY <1>1, <1>16

\* An identity, with the module that was typed or in the module it was looked up in.
LEMMA IdentityIsRead ==
  ASSUME NEW t \in Type, Base(t) = "identityref", NEW text \in Seq(Piece), NEW front,
         NEW r \in ReadIdentity(t, text, front), r.data # Undefined
  PROVE  \E id \in TypeInfo[t].identities :
           \/ r.data = Data("identityref", id[1], id[2]) /\ id[1] # Unprefixed
           \/ /\ r.data = Data("identityref", Unprefixed, id[2])
              /\ ModuleLength(text) = 0 /\ front # Unprefixed /\ id[1] = front
<1>1. \A prefix, meant, name, used : r \in IdentityOf(t, prefix, meant, name, used) =>
        /\ meant # Unprefixed
        /\ \E id \in TypeInfo[t].identities : r.data = Data("identityref", prefix, id[2]) /\ id[1] = meant
  <2> TAKE prefix, meant, name, used
  <2> SUFFICES ASSUME r \in IdentityOf(t, prefix, meant, name, used)
               PROVE  /\ meant # Unprefixed
                      /\ \E id \in TypeInfo[t].identities :
                           r.data = Data("identityref", prefix, id[2]) /\ id[1] = meant
    OBVIOUS
  <2>1. name # << >>
    BY DEF IdentityOf
  <2>2. meant # Unprefixed
    BY <2>1 DEF IdentityOf, Reading
  <2>3. PICK id \in TypeInfo[t].identities \cap {<<meant, name>>} :
          r = Reading(used, Data("identityref", prefix, id[2]))
    BY <2>1, <2>2 DEF IdentityOf
  <2> QED
    BY <2>2, <2>3 DEF Reading
<1>2. CASE ModuleLength(text) = 0
  BY <1>1, <1>2 DEF ReadIdentity
<1>3. CASE ModuleLength(text) # 0
  BY <1>1, <1>3 DEF ReadIdentity
<1> QED
  BY <1>2, <1>3

\* What a member of a type reads is a value of it, but for an identity that has yet
\* to be completed with the module it was looked up in.
Fits(t, text, front, data) ==
  \/ /\ IsValue(t, LeafDataToString(data))
     /\ data.kind # "identityref" \/ data.prefix # Unprefixed
  \/ /\ data.kind = "identityref" /\ data.prefix = Unprefixed /\ ModuleLength(text) = 0
     /\ Base(t) = "identityref" /\ front # Unprefixed
     /\ IsValue(t, LeafDataToString([data EXCEPT !.prefix = front]))

LEMMA ReadFits ==
  ASSUME NEW t \in Member, NEW text \in Seq(Piece), NEW front,
         NEW r \in Read(t, text, front), r.data # Undefined
  PROVE  Fits(t, text, front, r.data)
<1>1. t \in Type /\ Base(t) \in Bases \ {"union", "leafref"}
  BY TypeAssumption DEF Member
<1>2. ASSUME NEW kind, NEW value, r.data = Data(kind, Unprefixed, value), kind # "identityref", IsValue(t, value)
      PROVE  Fits(t, text, front, r.data)
  BY <1>2, PlainIsItsText DEF Fits, Data
<1>3. CASE Base(t) = "unsigned"
  <2>1. r \in ReadUnsigned(TypeInfo[t].max, text)
    BY <1>3 DEF Read
  <2> QED
    BY <1>1, <1>2, <1>3, <2>1, UnsignedIsValue
<1>4. CASE Base(t) = "signed"
  <2>1. r \in ReadSigned(TypeInfo[t].max, text)
    BY <1>4 DEF Read
  <2> QED
    BY <1>1, <1>2, <1>4, <2>1, SignedIsValue
<1>5. CASE Base(t) = "decimal"
  <2>1. r \in ReadDecimal(text)
    BY <1>5 DEF Read
  <2> QED
    BY <1>1, <1>2, <1>5, <2>1, DecimalIsValue
<1>6. CASE Base(t) = "bool"
  <2>1. r \in ReadName("bool", {<<"true">>, <<"false">>}, text)
    BY <1>6 DEF Read, ReadBool
  <2>2. PICK name \in {<<"true">>, <<"false">>} : r.data = Data("bool", Unprefixed, name)
    BY <2>1, NameIsRead
  <2>3. IsValue(t, name)
    BY <1>6, <2>2 DEF IsValue
  <2> QED
    BY <1>2, <2>2, <2>3
<1>7. CASE Base(t) = "string"
  <2>1. PICK value : r.data = Data("string", Unprefixed, value)
    BY <1>7 DEF Read, ReadString, Reading
  <2>2. IsValue(t, value)
    BY <1>7 DEF IsValue
  <2> QED
    BY <1>2, <2>1, <2>2
<1>8. CASE Base(t) = "binary"
  <2>1. r \in ReadBinary(text)
    BY <1>8 DEF Read
  <2> QED
    BY <1>1, <1>2, <1>8, <2>1, BinaryIsValue
<1>9. CASE Base(t) = "enum"
  <2>1. r \in ReadName("enum", TypeInfo[t].names, text)
    BY <1>9 DEF Read, ReadEnum
  <2>2. PICK name \in TypeInfo[t].names : r.data = Data("enum", Unprefixed, name)
    BY <2>1, NameIsRead
  <2>3. IsValue(t, name)
    BY <1>9, <2>2 DEF IsValue
  <2> QED
    BY <1>2, <2>2, <2>3
<1>10. CASE Base(t) = "bits"
  <2>1. r \in ReadBits(t, text)
    BY <1>10 DEF Read
  <2> QED
    BY <1>1, <1>2, <1>10, <2>1, BitsIsValue
<1>11. CASE Base(t) = "empty"
  <2>1. r.data = Data("empty", Unprefixed, << >>)
    BY <1>11 DEF Read, ReadEmpty, Reading
  <2>2. IsValue(t, << >>)
    BY <1>11 DEF IsValue
  <2> QED
    BY <1>2, <2>1, <2>2
<1>12. CASE Base(t) = "instance-identifier"
  <2>1. /\ r.data = Data("instance-identifier", Unprefixed, <<text[1]>>) /\ text[1] \in NodePath
    BY <1>12 DEF Read, ReadInstance, Reading, Starts
  <2>2. IsValue(t, <<text[1]>>)
    <3>1. Len(<<text[1]>>) = 1 /\ <<text[1]>>[1] = text[1]
      OBVIOUS
    <3> QED
      BY <1>12, <2>1, <3>1 DEF IsValue
  <2> QED
    BY <1>2, <2>1, <2>2
<1>13. CASE Base(t) = "identityref"
  <2>1. r \in ReadIdentity(t, text, front)
    BY <1>13 DEF Read
  <2>2. PICK id \in TypeInfo[t].identities :
          \/ r.data = Data("identityref", id[1], id[2]) /\ id[1] # Unprefixed
          \/ /\ r.data = Data("identityref", Unprefixed, id[2])
             /\ ModuleLength(text) = 0 /\ front # Unprefixed /\ id[1] = front
    BY <1>1, <1>13, <2>1, IdentityIsRead
  <2>3. IsValue(t, <<id[1], ":">> \o id[2])
    BY <1>13 DEF IsValue
  <2>4. CASE r.data = Data("identityref", id[1], id[2]) /\ id[1] # Unprefixed
    BY <2>3, <2>4 DEF Fits, Data, LeafDataToString
  <2>5. CASE /\ r.data = Data("identityref", Unprefixed, id[2])
             /\ ModuleLength(text) = 0 /\ front # Unprefixed /\ id[1] = front
    <3>1. LeafDataToString([r.data EXCEPT !.prefix = front]) = <<id[1], ":">> \o id[2]
      BY <2>5 DEF Data, LeafDataToString
    <3>2. IsValue(t, LeafDataToString([r.data EXCEPT !.prefix = front]))
      BY <2>3, <3>1
    <3>3. r.data.kind = "identityref" /\ r.data.prefix = Unprefixed
      BY <2>5 DEF Data
    <3> QED
      BY <1>13, <2>5, <3>2, <3>3 DEF Fits
  <2> QED
    BY <2>2, <2>4, <2>5
<1>14. Base(t) \in {"unsigned", "signed", "decimal", "bool", "string", "binary", "enum", "bits", "empty",
                    "instance-identifier", "identityref"}
  BY <1>1 DEF Bases
<1> QED
  BY <1>3, <1>4, <1>5, <1>6, <1>7, <1>8, <1>9, <1>10, <1>11, <1>12, <1>13, <1>14

-----------------------------------------------------------------------------
(***************************************************************************)
(* LeafData::parse: whatever is read was read by a member of the type.     *)
(***************************************************************************)
LEMMA ReadByAMember ==
  ASSUME NEW t \in Type, NEW text, NEW ctx, NEW r \in ReadLeafData(t, text, ctx)
  PROVE  \E i \in DOMAIN Alternatives[t] : Alternatives[t][i] \in Member /\ r \in ReadAs(t, i, text, ctx)
<1> DEFINE readings == Readings(t, text, ctx)
           S == {i \in DOMAIN readings : readings[i] # {}} \cup {Len(readings)}
<1>1. /\ Len(Alternatives[t]) \in Nat \ {0} /\ DOMAIN Alternatives[t] = 1 .. Len(Alternatives[t])
      /\ \A i \in DOMAIN Alternatives[t] : Alternatives[t][i] \in Member
  <2>1. PICK members : members = Alternatives[t]
    OBVIOUS
  <2>2. members \in Seq(Member) /\ members # << >>
    BY <2>1, AlternativesAre
  <2>3. Len(members) \in Nat \ {0} /\ DOMAIN members = 1 .. Len(members) /\ \A i \in DOMAIN members : members[i] \in Member
    BY <2>2, EmptySeq
  <2> QED
    BY <2>1, <2>3
<1>2. DOMAIN readings = DOMAIN Alternatives[t] /\ \A i \in DOMAIN readings : readings[i] = ReadAs(t, i, text, ctx)
  BY DEF Readings
<1>3. r \in readings[FirstPassing(readings)]
  BY DEF ReadLeafData, LastTried
<1>4. FirstPassing(readings) = Min(S)
  BY DEF FirstPassing
<1> HIDE DEF readings
<1>5. Len(readings) = Len(Alternatives[t])
  BY <1>1, <1>2
<1>6. S \subseteq Nat /\ S # {} /\ S \subseteq DOMAIN readings
  BY <1>1, <1>2, <1>5
<1> HIDE DEF S
<1>7. Min(S) \in S
  <2>1. PICK least \in S : \A k \in S : ~(k < least)
    BY <1>6, LeastExists
  <2>2. \A k \in S : least <= k
    BY <1>6, <2>1
  <2> QED
    BY <2>2 DEF Min
<1> QED
  BY <1>1, <1>2, <1>3, <1>4, <1>6, <1>7

-----------------------------------------------------------------------------
(***************************************************************************)
(* The values that are set                                                 *)
(***************************************************************************)
\* What came of the line is what comes of it for the parser that is still there.
LineIsOfTheParser ==
  last.cmd = "set" => parser.status = "ok" /\ last.result = SetResult(parser, last.text)

LEMMA LineStaysOfTheParser ==
  ASSUME LineIsOfTheParser, [Next]_vars
  PROVE  LineIsOfTheParser'
<1>1. ASSUME UNCHANGED <<type, parser>>, NEW text
      PROVE  SetResult(parser, text)' = SetResult(parser, text)
  BY <1>1 DEF SetResult, SetTo, ReadLeafData, Readings, ReadAs, ResetBefore
<1>2. ASSUME NEW text \in Texts, Set(text) PROVE LineIsOfTheParser'
  <2>1. /\ parser.status = "ok" /\ UNCHANGED <<type, cwd, here, parser>>
        /\ last'.text = text /\ last'.result = SetResult(parser, text)
    BY <1>2 DEF Set, Line
  <2>2. SetResult(parser, text)' = SetResult(parser, text)
    BY <1>1, <2>1
  <2> QED
    BY <2>1, <2>2 DEF LineIsOfTheParser
<1>3. ASSUME NEW text \in Texts, Tab(text) PROVE LineIsOfTheParser'
  BY <1>3 DEF Tab, Line, LineIsOfTheParser
<1>4. CASE Prompt
  BY <1>4 DEF Prompt, NoLine, Line, LineIsOfTheParser
<1>5. ASSUME NEW typed \in Typed, Cd(typed) \/ TypePath(typed) PROVE LineIsOfTheParser'
  <2>1. parser = NoParser /\ UNCHANGED last
    BY <1>5 DEF Cd, TypePath, AtPrompt
  <2> QED
    BY <2>1, NoParserIsNotOk DEF LineIsOfTheParser
<1>6. CASE UNCHANGED vars
  <2>1. UNCHANGED <<type, parser, last>>
    BY <1>6 DEF vars
  <2>2. SetResult(parser, last.text)' = SetResult(parser, last.text)
    <3>1. PICK text : text = last.text
      OBVIOUS
    <3>2. SetResult(parser, text)' = SetResult(parser, text)
      BY <1>1, <2>1
    <3> QED
      BY <2>1, <3>1, <3>2
  <2> QED
    BY <2>1, <2>2 DEF LineIsOfTheParser
<1> QED
  BY <1>2, <1>3, <1>4, <1>5, <1>6 DEF Next

LEMMA SpecKeepsTheLine == Spec => []LineIsOfTheParser
<1>1. Init => LineIsOfTheParser
  BY DEF Init, NoLine, Line, LineIsOfTheParser
<1> QED
  BY <1>1, LineStaysOfTheParser, PTL DEF Spec

\* Only identities are read in a context.
LEMMA ReadNeedsNoFront ==
  ASSUME NEW member, NEW text, NEW front, NEW other, Base(member) # "identityref"
  PROVE  Read(member, text, front) = Read(member, text, other)
BY DEF Read

(***************************************************************************)
(* A line with an absolute path means the same in every directory, but for *)
(* an identity after a failed instance-identifier.                         *)
(***************************************************************************)
THEOREM SetAbsoluteLinesAreAbsolute == Spec => []AbsoluteLinesAreAbsolute
<1>1. SInv /\ LineIsOfTheParser => AbsoluteLinesAreAbsolute
  <2> DEFINE p == parser
             q == [parser EXCEPT !.dir = Root]
             text == last.text
  <2> SUFFICES ASSUME SInv, LineIsOfTheParser, last.cmd = "set", parser.abs, ~IdentityAfterReset
               PROVE  SetResult(q, text) = SetResult(p, text)
    BY DEF LineIsOfTheParser, AbsoluteLinesAreAbsolute
  <2>1. q.abs = p.abs /\ q.nodes = p.nodes /\ q.path = p.path
    <3>1. IsParser(p)
      BY DEF SInv, LineIsOfTheParser
    <3> QED
      BY <3>1 DEF IsParser
  <2> HIDE DEF p, q
  <2>2. ReadBy(q) = ReadBy(p) /\ ReadBy(p).abs
    BY <2>1 DEF ReadBy, p
  <2>3. Canonical(q.dir, ReadBy(q)) = Canonical(p.dir, ReadBy(p))
    BY <2>2 DEF Canonical
  <2>4. ASSUME NEW i \in DOMAIN Alternatives[type]
        PROVE  ReadAs(type, i, text, ContextOf(q)) = ReadAs(type, i, text, ContextOf(p))
    <3>1. ContextOf(q).front = ContextOf(p).front
      BY <2>1 DEF ContextOf, Context
    <3>2. CASE ResetBefore(type, i)
      <4>1. Base(Alternatives[type][i]) # "identityref"
        BY <3>2 DEF IdentityAfterReset
      <4> QED
        BY <3>2, <4>1, ReadNeedsNoFront DEF ReadAs
    <3>3. CASE ~ResetBefore(type, i)
      BY <3>1, <3>3 DEF ReadAs
    <3> QED
      BY <3>2, <3>3
  <2>5. Readings(type, text, ContextOf(q)) = Readings(type, text, ContextOf(p))
    BY <2>4 DEF Readings
  <2>6. ReadLeafData(type, text, ContextOf(q)) = ReadLeafData(type, text, ContextOf(p))
    BY <2>5 DEF ReadLeafData
  <2> QED
    BY <2>1, <2>3, <2>6 DEF SetResult, SetTo
<1> QED
  BY <1>1, SpecKeepsSInv, SpecKeepsTheLine, PTL

\* The leaf's type is one, and the line was typed.
ValuesTyped == type \in Type /\ (last.cmd = "set" => last.text \in Texts)

LEMMA ValuesStayTyped ==
  ASSUME ValuesTyped, [Next]_vars
  PROVE  ValuesTyped'
<1>1. ASSUME NEW text \in Texts, Set(text) PROVE ValuesTyped'
  BY <1>1 DEF Set, Line, ValuesTyped
<1>2. ASSUME NEW text \in Texts, Tab(text) PROVE ValuesTyped'
  BY <1>2 DEF Tab, Line, ValuesTyped
<1>3. CASE Prompt
  BY <1>3 DEF Prompt, NoLine, Line, ValuesTyped
<1>4. ASSUME NEW typed \in Typed, Cd(typed) \/ TypePath(typed) PROVE ValuesTyped'
  BY <1>4 DEF Cd, TypePath, ValuesTyped
<1>5. CASE UNCHANGED vars
  BY <1>5 DEF vars, ValuesTyped
<1> QED
  BY <1>1, <1>2, <1>3, <1>4, <1>5 DEF Next

LEMMA SpecKeepsValuesTyped == Spec => []ValuesTyped
<1>1. Init => ValuesTyped
  BY DEF Init, NoLine, Line, ValuesTyped
<1> QED
  BY <1>1, ValuesStayTyped, PTL DEF Spec

\* What was read for a line that set something.
LEMMA SomethingWasRead ==
  ASSUME NEW p, NEW path, NEW text, SetTo(p, path, text).status = "done"
  PROVE  \E r \in ReadLeafData(type, text, ContextOf(p)) :
           r.data # Undefined /\ SetTo(p, path, text).data \in Completed(p.nodes, r.data)
<1> DEFINE S == {Outcome(p.nodes, path, read.data) :
                   read \in {r \in ReadLeafData(type, text, ContextOf(p)) : Accepts(r, text)}}
           result == SetTo(p, path, text)
<1>1. result \in S \cup {Result("refused", path, NoData)}
  BY OnlyOfIsOne DEF SetTo
<1>2. Result("refused", path, NoData).status # "done"
  BY DEF Result
<1>3. PICK r \in ReadLeafData(type, text, ContextOf(p)) : result = Outcome(p.nodes, path, r.data)
  BY <1>1, <1>2
<1> HIDE DEF result, S
<1>4. result.status = "done"
  BY DEF result
<1>5. r.data # Undefined
  BY <1>3, <1>4 DEF Outcome, Result
<1> DEFINE C == {Result("done", path, sent) : sent \in Completed(p.nodes, r.data)}
<1>6. result \in C \cup {Result("error", path, NoData)}
  BY <1>3, <1>5, OnlyOfIsOne DEF Outcome
<1>7. Result("error", path, NoData).status # "done"
  BY DEF Result
<1>8. PICK sent \in Completed(p.nodes, r.data) : result = Result("done", path, sent)
  BY <1>4, <1>6, <1>7
<1>9. result.data = sent
  BY <1>8 DEF Result
<1> QED
  BY <1>5, <1>9 DEF result

(***************************************************************************)
(* What is handed to the datastore is a value of the leaf's type: each     *)
(* parser reads only values of its member, and an identity typed without   *)
(* its module on an absolute line is completed with the module it was      *)
(* looked up in, unless a failed instance-identifier reset the path.       *)
(***************************************************************************)
THEOREM SetOnlyValuesAreSet == Spec => []OnlyValuesAreSet
<1>1. SInv /\ LineIsOfTheParser /\ ValuesTyped => OnlyValuesAreSet
  <2> SUFFICES ASSUME SInv, LineIsOfTheParser, ValuesTyped, IsSet
               PROVE  \/ IsOfType(type, LeafDataToString(last.result.data))
                      \/ /\ last.result.data.kind = "identityref" /\ ModuleLength(last.text) = 0
                         /\ ~parser.abs \/ IdentityAfterReset
    BY DEF OnlyValuesAreSet
  <2> DEFINE text == last.text
             sent == last.result.data
             nodes == parser.nodes
  <2>1. last.result = SetTo(parser, Canonical(parser.dir, ReadBy(parser)), text)
    BY DEF IsSet, LineIsOfTheParser, SetResult
  <2>2. PICK r \in ReadLeafData(type, text, ContextOf(parser)) :
          r.data # Undefined /\ sent \in Completed(nodes, r.data)
    <3>1. last.result.status = "done"
      BY DEF IsSet
    <3> QED
      BY <2>1, <3>1, SomethingWasRead
  <2>3. type \in Type /\ text \in Seq(Piece)
    BY TypedAssumption DEF IsSet, ValuesTyped
  <2>4. PICK i \in DOMAIN Alternatives[type] :
          Alternatives[type][i] \in Member /\ r \in ReadAs(type, i, text, ContextOf(parser))
    BY <2>3, ReadByAMember
  <2> DEFINE member == Alternatives[type][i]
             front == IF ResetBefore(type, i) THEN ContextOf(parser).cwdFront ELSE ContextOf(parser).front
  <2>5. Fits(member, text, front, r.data)
    <3>1. r \in Read(member, text, front)
      BY <2>4 DEF ReadAs
    <3> HIDE DEF member, front
    <3>2. member \in Member
      BY <2>4 DEF member
    <3> QED
      BY <2>2, <2>3, <3>1, <3>2, ReadFits
  <2>6. member \in ToSet(Alternatives[type])
    BY <2>4 DEF ToSet
  <2>7. CASE IsValue(member, LeafDataToString(r.data)) /\ (r.data.kind # "identityref" \/ r.data.prefix # Unprefixed)
    <3>1. sent = r.data
      BY <2>2, <2>7 DEF Completed
    <3> QED
      BY <2>6, <2>7, <3>1 DEF IsOfType
  <2>8. CASE /\ r.data.kind = "identityref" /\ r.data.prefix = Unprefixed /\ ModuleLength(text) = 0
             /\ Base(member) = "identityref" /\ front # Unprefixed
             /\ IsValue(member, LeafDataToString([r.data EXCEPT !.prefix = front]))
    <3>1. sent = [r.data EXCEPT !.prefix = nodes[1].prefix]
      BY <2>2, <2>8 DEF Completed
    <3>2. sent.kind = "identityref"
      BY <2>8, <3>1
    <3>3. CASE ~parser.abs \/ IdentityAfterReset
      BY <2>8, <3>2, <3>3
    <3>4. CASE parser.abs /\ ~IdentityAfterReset
      <4>1. ~ResetBefore(type, i)
        BY <2>4, <2>8, <3>4 DEF IdentityAfterReset
      <4>2. front = FrontModule(parser.path)
        BY <4>1 DEF ContextOf, Context
      <4>3. nodes = parser.path
        BY <3>4 DEF SInv, Follows, IsSet, LineIsOfTheParser
      <4>4. front = nodes[1].prefix
        BY <2>8, <4>2, <4>3, SameNone DEF FrontModule
      <4>5. sent = [r.data EXCEPT !.prefix = front]
        BY <3>1, <4>4
      <4> QED
        BY <2>6, <2>8, <4>5 DEF IsOfType
    <3> QED
      BY <3>3, <3>4
  <2> QED
    BY <2>5, <2>7, <2>8 DEF Fits
<1> QED
  BY <1>1, SpecKeepsSInv, SpecKeepsTheLine, SpecKeepsValuesTyped, PTL

=============================================================================
