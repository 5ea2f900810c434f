--------------------------- MODULE ListKeysProofs ---------------------------
(***************************************************************************)
(* Of typing a path, whatever the lists, their keys and instances, and     *)
(* however long the line.                                                  *)
(*                                                                         *)
(*   - The parser accepts exactly the paths, reads what was written, and   *)
(*     gives reasons that are true.  KInv, the inductive invariant, says   *)
(*     what is behind the iterator while a line is parsed.                 *)
(*   - Who only takes what is offered never names an instance that is not  *)
(*     there.  GInv adds that of a line typed so, what was read exists.    *)
(*   - From the beginning of the path to an instance, Tab goes on to it.   *)
(*     EInv adds that on the way to an instance the parser reads its nodes *)
(*     and that, where the line ends, the suggestions are the path's.      *)
(***************************************************************************)
EXTENDS ListKeys, FiniteSetTheorems, SequenceTheorems, WellFoundedInduction, TLAPS

-----------------------------------------------------------------------------
(***************************************************************************)
(* The invariant                                                           *)
(***************************************************************************)
Messages == {"none", "not a key", "expected", "bad value", "more than once", "not enough"}

Context ==
  [path : Seq(SomeKeys), tmpListKeys : SomeKeys, key : Token \cup {End}, error : Messages,
   from : Nat, suggestions : SUBSET [value : Seq(Token), more : Seq(Token)]]

\* Where the parser is in the middle of a node.
Within == rule \in {"suffix", "key", "value", "close"}

Types ==
  /\ parserMode \in {"DataPath", "DataPathListEnd"}
  /\ line \in Seq(Token)
  /\ phase \in {"typing", "parsing", "parsed"}
  /\ rule \in {"node", "suffix", "key", "value", "close", "after", "accepted", "refused"}
  /\ phase = "parsing" => rule \notin {"accepted", "refused"}
  /\ phase = "parsed" => rule \in {"accepted", "refused"}
  /\ at \in Nat /\ saveIter \in Nat /\ seen \in Nat
  /\ listEnd \in BOOLEAN /\ (listEnd => parserMode = "DataPathListEnd")
  /\ keys \in SomeKeys
  /\ ctx \in Context

\* What Take replaces the line by is not shorter.
OffersAreLonger ==
  phase = "parsed" => \A o \in offered : o \in Seq(Token) /\ Len(o) >= Len(line)

\* The nodes behind the iterator are those of the path.
PathIsRead ==
  LET begin == Begins(ctx.path)
      P == Len(ctx.path)
  IN  /\ P <= Depth
      /\ \A n \in 1 .. P :
           /\ IsNodeAt(line, begin[n], ctx.path[n])
           /\ \/ DOMAIN ctx.path[n] = KeysOf[n]
              \/ n = P /\ ctx.path[n] = NoKeys /\ listEnd /\ rule = "after"
      /\ \A n \in 1 .. P - 1 : line[begin[n + 1]] = Slash
      /\ rule = "after" => P > 0 /\ at = begin[P + 1] - 1
      /\ rule # "after" => saveIter = begin[P + 1] /\ (P > 0 => line[saveIter] = Slash)
      /\ rule = "node" => at = saveIter

\* How many keys of the node are behind the iterator.
Count == Cardinality(DOMAIN keys)

\* The text holds these keys, after a name and each of them once; so many of
\* them are closed.
KeysAreAt(text, begin, read, closed) ==
  LET count == Cardinality(DOMAIN read)
      TheKey(i) == text[begin + 4 * i - 1]
  IN  /\ begin + 4 * count <= Len(text)
      /\ text[begin + 1] = Name
      /\ \A i \in 1 .. count :
           /\ text[begin + 4 * i - 2] = Open
           /\ TheKey(i) \in DOMAIN read /\ text[begin + 4 * i] = read[TheKey(i)]
      /\ \A i \in 1 .. closed : text[begin + 4 * i + 1] = Close
      /\ \A key \in DOMAIN read : \E i \in 1 .. count : TheKey(i) = key

KeysAreRead(closed) == KeysAreAt(line, saveIter, keys, closed)

NodeIsRead ==
  Within =>
    /\ Level <= Depth
    /\ DOMAIN keys \subseteq KeysOf[Level]
    /\ rule = "suffix" => KeysAreRead(Count) /\ at = saveIter + 4 * Count + 1
    /\ rule = "key" =>
         KeysAreRead(Count) /\ at = saveIter + 4 * Count + 2 /\ line[at] = Open
    /\ rule = "value" =>
         /\ KeysAreRead(Count) /\ at = saveIter + 4 * Count + 3
         /\ line[at - 1] = Open /\ line[at] = ctx.key /\ ctx.key \in KeysOf[Level]
    /\ rule = "close" => KeysAreRead(Count - 1) /\ at = saveIter + 4 * Count /\ Count > 0

\* A node is tried again with the keys of the first try: it comes no further
\* than to the first of them.
Carried ==
  /\ listEnd
  /\ rule \in {"node", "suffix", "key", "value"} /\ keys = NoKeys
  /\ saveIter + 4 <= Len(line)
  /\ line[saveIter + 2] = Open /\ line[saveIter + 3] \in DOMAIN ctx.tmpListKeys

KeysAreRemembered ==
  IF Within \/ rule = "node" THEN Carried \/ ctx.tmpListKeys = IF Within THEN keys ELSE NoKeys
  ELSE ctx.tmpListKeys = NoKeys

\* The nodes and the keys of the line are those that were read, and there was
\* no reason to complain.
NothingElse ==
  parserMode = "DataPath" =>
    /\ ctx.error = "none"
    /\ seen <= at + 1
    /\ Cardinality({n \in 1 .. (IF rule = "after" THEN at ELSE saveIter) : line[n] = Name})
         = Len(ctx.path)
    /\ Within =>
         /\ \A n \in saveIter + 2 .. at : line[n] # Name
         /\ \A j \in saveIter + 3 .. at :
              line[j - 1] = Open => line[j] \in DOMAIN keys \/ (rule = "value" /\ j = at)

\* A path that may be accepted.
Acceptable(path) ==
  /\ path \in WrittenPaths /\ Writes(path)
  /\ EndsInList(path) => parserMode = "DataPathListEnd"

\* The line is a path's: what was read is the beginning of this path.
PathIsFollowed ==
  \A path \in WrittenPaths :
    Acceptable(path) =>
      /\ IsPrefix(ctx.path, path)
      /\ Within => Len(ctx.path) < Len(path)
      /\ listEnd => /\ EndsInList(path)
                    /\ Len(path) = IF rule = "after" THEN Len(ctx.path) ELSE Len(ctx.path) + 1

Reads == PathIsRead /\ NodeIsRead /\ KeysAreRemembered /\ NothingElse /\ PathIsFollowed

Parsing == phase = "parsing" => Reads

Typed == Types /\ TypeOK /\ OffersAreLonger

KInv == Typed /\ Parsing /\ ReadsWhatIsWritten /\ MessageIsTrueOfDataPaths

-----------------------------------------------------------------------------
(***************************************************************************)
(* Tokens, and the keys of an instance                                     *)
(***************************************************************************)
LEMMA TokensDiffer ==
  /\ {Name, Open, Close, Slash, End} \cap (Key \cup Value) = {}
  /\ Key \cap Value = {}
  /\ Name # Open /\ Name # Close /\ Name # Slash /\ Open # Close /\ Open # Slash /\ Close # Slash
  /\ End # Name /\ End # Open /\ End # Close /\ End # Slash /\ End \notin Token
BY ListsAssumption DEF Name, Open, Close, Slash, Junk, End, Token

LEMMA ListsHaveKeys ==
  /\ Depth \in Nat
  /\ \A n \in 1 .. Depth :
       KeysOf[n] \subseteq Key /\ KeysOf[n] # {} /\ IsFiniteSet(KeysOf[n])
<1>1. Depth \in Nat /\ \A n \in 1 .. Depth : KeysOf[n] \in (SUBSET Key) \ {{}}
  BY ListsAssumption DEF Depth
<1>2. \A S \in SUBSET Key : IsFiniteSet(S)
  BY ListsAssumption, FS_Subset
<1> QED
  BY <1>1, <1>2

LEMMA SomeKeysAre ==
  ASSUME NEW assigned \in SomeKeys
  PROVE  /\ DOMAIN assigned \subseteq Key
         /\ assigned = [key \in DOMAIN assigned |-> assigned[key]]
         /\ \A key \in DOMAIN assigned : assigned[key] \in Value
         /\ IsFiniteSet(DOMAIN assigned) /\ Cardinality(DOMAIN assigned) \in Nat
<1>1. PICK S \in SUBSET Key : assigned \in [S -> Value]
  BY DEF SomeKeys
<1>2. IsFiniteSet(S)
  BY ListsAssumption, FS_Subset
<1> QED
  BY <1>1, <1>2, FS_CardinalityType

LEMMA AreSomeKeys ==
  ASSUME NEW S, S \subseteq Key, NEW f \in [S -> Value]
  PROVE  f \in SomeKeys
BY DEF SomeKeys

LEMMA NoKeysAreEmpty ==
  /\ NoKeys \in SomeKeys /\ DOMAIN NoKeys = {} /\ Cardinality(DOMAIN NoKeys) = 0
  /\ \A assigned \in SomeKeys :
       /\ DOMAIN assigned = {} => assigned = NoKeys
       /\ Cardinality(DOMAIN assigned) = 0 => assigned = NoKeys
<1>1. DOMAIN NoKeys = {} /\ NoKeys \in [{} -> Value]
  BY DEF NoKeys
<1>2. NoKeys \in SomeKeys
  BY <1>1, AreSomeKeys
<1>3. ASSUME NEW assigned \in SomeKeys, DOMAIN assigned = {}
      PROVE  assigned = NoKeys
  BY <1>1, <1>3, SomeKeysAre
<1>4. ASSUME NEW assigned \in SomeKeys, Cardinality(DOMAIN assigned) = 0
      PROVE  DOMAIN assigned = {}
  BY <1>4, SomeKeysAre, FS_EmptySet
<1> QED
  BY <1>1, <1>2, <1>3, <1>4, FS_EmptySet

LEMMA GivenAddsAKey ==
  ASSUME NEW assigned \in SomeKeys, NEW key \in Key, NEW value \in Value
  PROVE  /\ Given(assigned, key, value) \in SomeKeys
         /\ DOMAIN Given(assigned, key, value) = DOMAIN assigned \cup {key}
         /\ Given(assigned, key, value)[key] = value
         /\ \A k \in DOMAIN assigned \ {key} : Given(assigned, key, value)[k] = assigned[k]
         /\ key \notin DOMAIN assigned =>
              Cardinality(DOMAIN Given(assigned, key, value)) = Cardinality(DOMAIN assigned) + 1
<1> DEFINE more == Given(assigned, key, value)
           S == DOMAIN assigned \cup {key}
<1>1. DOMAIN more = S /\ more[key] = value /\ \A k \in DOMAIN assigned \ {key} : more[k] = assigned[k]
  BY DEF Given
<1>2. more \in [S -> Value] /\ S \subseteq Key
  BY SomeKeysAre DEF Given
<1>3. more \in SomeKeys
  BY <1>2, AreSomeKeys
<1>4. Cardinality(S) = IF key \in DOMAIN assigned THEN Cardinality(DOMAIN assigned)
                       ELSE Cardinality(DOMAIN assigned) + 1
  BY SomeKeysAre, FS_AddElement
<1> QED
  BY <1>1, <1>3, <1>4

-----------------------------------------------------------------------------
(***************************************************************************)
(* Where the nodes of a path begin                                         *)
(***************************************************************************)
LEMMA LeastExists ==
  ASSUME NEW T, T \subseteq Nat, T # {}
  PROVE  \E m \in T : \A k \in T : ~(k < m)
<1> DEFINE R == OpToRel(<, Nat)
<1>1. PICK m \in T : \A k \in T : <<k, m>> \notin R
  <2> HIDE DEF R
  <2>1. IsWellFoundedOn(R, Nat)
    BY NatLessThanWellFounded DEF R
  <2> QED
    BY <2>1, WFMin
<1> QED
  BY <1>1 DEF OpToRel

After(begin, path, n) == begin[n] + 4 * Cardinality(DOMAIN path[n]) + 2

\* begin is what Begins(path) is for the first nodes of the path.
AreBegins(begin, path, nodes) ==
  begin = [n \in 1 .. nodes + 1 |-> IF n = 1 THEN 0 ELSE After(begin, path, n - 1)]

LEMMA BeginsExist ==
  ASSUME NEW path, NEW nodes \in Nat
  PROVE  \E begin : AreBegins(begin, path, nodes)
<1> DEFINE T == {m \in Nat : ~ \E g : AreBegins(g, path, m)}
<1> SUFFICES ASSUME T # {} PROVE FALSE
  OBVIOUS
<1>1. PICK m \in T : \A k \in T : ~(k < m)
  BY LeastExists
<1>2. CASE m = 0
  <2>1. AreBegins([i \in 1 .. 1 |-> 0], path, 0)
    BY DEF AreBegins
  <2> QED
    BY <1>2, <2>1
<1>3. CASE m # 0
  <2>1. m - 1 \in Nat /\ m - 1 < m /\ m \in Nat /\ (m - 1) + 1 = m
    BY <1>3
  <2>2. PICK g : AreBegins(g, path, m - 1)
    BY <1>1, <2>1
  <2>3. \A i \in 1 .. m : g[i] = IF i = 1 THEN 0 ELSE After(g, path, i - 1)
    BY <2>1, <2>2 DEF AreBegins
  <2> DEFINE h == [i \in 1 .. m + 1 |-> IF i <= m THEN g[i] ELSE After(g, path, m)]
  <2>4. ASSUME NEW i \in 1 .. m + 1
        PROVE  h[i] = IF i = 1 THEN 0 ELSE After(h, path, i - 1)
    <3>1. CASE i = m + 1
      <4>1. h[i] = After(g, path, m) /\ h[i - 1] = g[m] /\ i # 1 /\ i - 1 = m
        BY <1>3, <2>1, <3>1
      <4> QED
        BY <4>1 DEF After
    <3>2. CASE i # m + 1
      <4>1. i \in 1 .. m /\ (i # 1 => i - 1 \in 1 .. m)
        BY <2>1, <3>2
      <4>2. h[i] = g[i] /\ (i # 1 => h[i - 1] = g[i - 1])
        BY <2>1, <4>1
      <4> QED
        BY <2>3, <4>1, <4>2 DEF After
    <3> QED
      BY <3>1, <3>2
  <2>5. h = [i \in 1 .. m + 1 |-> h[i]]
    OBVIOUS
  <2> HIDE DEF h
  <2>6. AreBegins(h, path, m)
    BY <2>4, <2>5 DEF AreBegins
  <2> QED
    BY <1>1, <2>6
<1> QED
  BY <1>2, <1>3

LEMMA BeginsAre ==
  ASSUME NEW path \in Seq(SomeKeys)
  PROVE  /\ Begins(path)[1] = 0
         /\ \A n \in 1 .. Len(path) + 1 : Begins(path)[n] \in Nat
         /\ \A n \in 1 .. Len(path) :
              Begins(path)[n + 1] = Begins(path)[n] + 4 * Cardinality(DOMAIN path[n]) + 2
<1> DEFINE P == Len(path)
           g == CHOOSE g : AreBegins(g, path, P)
<1>1. P \in Nat
  OBVIOUS
<1>2. AreBegins(g, path, P)
  BY <1>1, BeginsExist
<1>3. Begins(path) = g
  BY DEF Begins, AreBegins, After
<1> HIDE DEF g
<1>4. \A n \in 1 .. P : Cardinality(DOMAIN path[n]) \in Nat
  BY SomeKeysAre
<1> HIDE DEF P
<1>5. \A n \in 1 .. P + 1 : g[n] = IF n = 1 THEN 0 ELSE After(g, path, n - 1)
  BY <1>2 DEF AreBegins
<1>6. g[1] = 0
  BY <1>1, <1>5
<1>7. ASSUME NEW n \in 1 .. P
      PROVE  g[n + 1] = g[n] + 4 * Cardinality(DOMAIN path[n]) + 2
  <2> DEFINE next == n + 1
  <2>1. next \in 1 .. P + 1 /\ next # 1 /\ next - 1 = n
    BY <1>1
  <2> HIDE DEF next
  <2>2. g[next] = After(g, path, n)
    BY <1>5, <2>1
  <2> QED
    BY <2>2 DEF next, After
<1>8. \A n \in 1 .. P + 1 : g[n] \in Nat
  <2> DEFINE T == {n \in 1 .. P + 1 : g[n] \notin Nat}
  <2> SUFFICES ASSUME T # {} PROVE FALSE
    OBVIOUS
  <2>1. T \subseteq Nat
    BY <1>1
  <2>2. PICK m \in T : \A k \in T : ~(k < m)
    BY <2>1, LeastExists
  <2>3. m # 1 /\ m \in 1 .. P + 1
    BY <1>6, <2>2
  <2>4. m - 1 \in 1 .. P /\ m - 1 \in 1 .. P + 1 /\ m - 1 < m /\ (m - 1) + 1 = m
    BY <1>1, <2>3
  <2>5. g[m - 1] \in Nat
    BY <2>2, <2>4
  <2>6. g[m] = g[m - 1] + 4 * Cardinality(DOMAIN path[m - 1]) + 2
    BY <1>7, <2>4
  <2>7. Cardinality(DOMAIN path[m - 1]) \in Nat
    BY <1>4, <2>4
  <2> QED
    BY <2>2, <2>5, <2>6, <2>7
<1> QED
  BY <1>3, <1>6, <1>7, <1>8 DEF P

\* Two paths whose first nodes are the same.
LEMMA BeginsAgree ==
  ASSUME NEW path \in Seq(SomeKeys), NEW other \in Seq(SomeKeys), NEW nodes \in Nat,
         nodes <= Len(path), nodes <= Len(other), \A n \in 1 .. nodes : path[n] = other[n]
  PROVE  \A n \in 1 .. nodes + 1 : Begins(path)[n] = Begins(other)[n]
<1> DEFINE g == Begins(path)
           h == Begins(other)
           T == {n \in 1 .. nodes + 1 : g[n] # h[n]}
<1>0. Len(path) \in Nat /\ Len(other) \in Nat
  OBVIOUS
<1>1. /\ g[1] = 0 /\ h[1] = 0
      /\ \A n \in 1 .. nodes : /\ g[n + 1] = g[n] + 4 * Cardinality(DOMAIN path[n]) + 2
                               /\ h[n + 1] = h[n] + 4 * Cardinality(DOMAIN other[n]) + 2
  <2>1. 1 .. nodes \subseteq 1 .. Len(path) /\ 1 .. nodes \subseteq 1 .. Len(other)
    BY <1>0
  <2> QED
    BY <2>1, BeginsAre
<1> HIDE DEF g, h
<1> SUFFICES ASSUME T # {} PROVE FALSE
  BY DEF g, h
<1>2. T \subseteq Nat
  OBVIOUS
<1>3. PICK m \in T : \A k \in T : ~(k < m)
  BY <1>2, LeastExists
<1>4. m - 1 \in 1 .. nodes /\ m - 1 \in 1 .. nodes + 1 /\ m - 1 < m /\ (m - 1) + 1 = m
  BY <1>1, <1>3
<1>5. g[m - 1] = h[m - 1] /\ path[m - 1] = other[m - 1]
  BY <1>3, <1>4
<1> QED
  BY <1>1, <1>3, <1>4, <1>5

LEMMA PrefixIs ==
  ASSUME NEW path \in Seq(SomeKeys), NEW whole \in Seq(SomeKeys)
  PROVE  IsPrefix(path, whole) <=>
           Len(path) <= Len(whole) /\ \A n \in 1 .. Len(path) : path[n] = whole[n]
<1> DEFINE P == Len(path)
           front == SubSeq(path, 1, P)
           other == SubSeq(whole, 1, P)
<1>0. P \in Nat /\ Len(whole) \in Nat
  OBVIOUS
<1>1. front \in Seq(SomeKeys) /\ Len(front) = P /\ \A n \in 1 .. P : front[n] = path[n]
  OBVIOUS
<1>2. ASSUME P <= Len(whole)
      PROVE  other \in Seq(SomeKeys) /\ Len(other) = P /\ \A n \in 1 .. P : other[n] = whole[n]
  BY <1>2
<1>3. IsPrefix(path, whole) <=> P <= Len(whole) /\ front = other
  BY DEF IsPrefix
<1> HIDE DEF P, front, other
<1>4. ASSUME P <= Len(whole), \A n \in 1 .. P : path[n] = whole[n]
      PROVE  front = other
  BY <1>1, <1>2, <1>4, SeqEqual
<1> QED
  BY <1>1, <1>2, <1>3, <1>4 DEF P

-----------------------------------------------------------------------------
(***************************************************************************)
(* The keys of a node, one after the other                                 *)
(***************************************************************************)
LEMMA NoneAreAt ==
  ASSUME NEW text, NEW begin \in Nat, begin + 1 <= Len(text), Len(text) \in Nat,
         text[begin + 1] = Name
  PROVE  KeysAreAt(text, begin, NoKeys, 0)
<1> DEFINE count == Cardinality(DOMAIN NoKeys)
<1>1. count = 0 /\ DOMAIN NoKeys = {}
  BY NoKeysAreEmpty
<1> QED
  BY <1>1 DEF KeysAreAt

LEMMA OneMoreIsAt ==
  ASSUME NEW text, NEW begin \in Nat, Len(text) \in Nat,
         NEW read \in SomeKeys, NEW key \in Key, NEW value \in Value,
         NEW m, m = Cardinality(DOMAIN read), KeysAreAt(text, begin, read, m),
         begin + 4 * m + 4 <= Len(text), text[begin + 4 * m + 2] = Open,
         text[begin + 4 * m + 3] = key, text[begin + 4 * m + 4] = value,
         key \notin DOMAIN read, NEW more, DOMAIN more = DOMAIN read \cup {key},
         Cardinality(DOMAIN more) = m + 1, more[key] = value,
         \A k \in DOMAIN read \ {key} : more[k] = read[k]
  PROVE  KeysAreAt(text, begin, more, m)
<1> DEFINE count == Cardinality(DOMAIN more)
           TheKey(i) == text[begin + 4 * i - 1]
<1>1. m \in Nat /\ count = m + 1
  BY SomeKeysAre
<1>2. /\ text[begin + 1] = Name
      /\ \A i \in 1 .. m :
           /\ text[begin + 4 * i - 2] = Open
           /\ TheKey(i) \in DOMAIN read /\ text[begin + 4 * i] = read[TheKey(i)]
      /\ \A i \in 1 .. m : text[begin + 4 * i + 1] = Close
      /\ \A k \in DOMAIN read : \E i \in 1 .. m : TheKey(i) = k
  BY DEF KeysAreAt
<1>3. ASSUME NEW i \in 1 .. count
      PROVE  /\ text[begin + 4 * i - 2] = Open
             /\ TheKey(i) \in DOMAIN more /\ text[begin + 4 * i] = more[TheKey(i)]
  <2>1. CASE i = m + 1
    <3>1. begin + 4 * (m + 1) - 2 = begin + 4 * m + 2
      BY <1>1
    <3>2. begin + 4 * (m + 1) - 1 = begin + 4 * m + 3
      BY <1>1
    <3>3. begin + 4 * (m + 1) = begin + 4 * m + 4
      BY <1>1
    <3> QED
      BY <2>1, <3>1, <3>2, <3>3
  <2>2. CASE i # m + 1
    <3>1. i \in 1 .. m
      BY <1>1, <2>2
    <3>2. /\ text[begin + 4 * i - 2] = Open
          /\ TheKey(i) \in DOMAIN read /\ text[begin + 4 * i] = read[TheKey(i)]
      BY <1>2, <3>1
    <3> HIDE DEF TheKey
    <3>3. TheKey(i) \in DOMAIN more /\ more[TheKey(i)] = read[TheKey(i)]
      BY <3>2
    <3> QED
      BY <3>2, <3>3
  <2> QED
    BY <2>1, <2>2
<1>4. ASSUME NEW k \in DOMAIN more
      PROVE  \E i \in 1 .. count : TheKey(i) = k
  <2>1. CASE k = key
    <3>1. m + 1 \in 1 .. count
      BY <1>1
    <3>2. begin + 4 * (m + 1) - 1 = begin + 4 * m + 3
      BY <1>1
    <3>3. TheKey(m + 1) = key
      BY <3>2
    <3> HIDE DEF TheKey, count
    <3> QED
      BY <2>1, <3>1, <3>3
  <2>2. CASE k # key
    <3>1. PICK i \in 1 .. m : TheKey(i) = k
      BY <1>1, <1>2, <2>2
    <3> QED
      BY <1>1, <3>1
  <2> QED
    BY <2>1, <2>2
<1>5. begin + 4 * count <= Len(text)
  BY <1>1
<1> QED
  BY <1>2, <1>3, <1>4, <1>5 DEF KeysAreAt

LEMMA OneMoreIsClosed ==
  ASSUME NEW text, NEW begin, NEW read, NEW m \in Nat,
         KeysAreAt(text, begin, read, m), text[begin + 4 * (m + 1) + 1] = Close
  PROVE  KeysAreAt(text, begin, read, m + 1)
<1>1. \A i \in 1 .. m + 1 : i \in 1 .. m \/ i = m + 1
  OBVIOUS
<1>2. \A i \in 1 .. m : text[begin + 4 * i + 1] = Close
  BY DEF KeysAreAt
<1>3. \A i \in 1 .. m + 1 : text[begin + 4 * i + 1] = Close
  BY <1>1, <1>2
<1> QED
  BY <1>3 DEF KeysAreAt

LEMMA AllAreANode ==
  ASSUME NEW text, NEW begin \in Nat, Len(text) \in Nat, NEW read \in SomeKeys,
         KeysAreAt(text, begin, read, Cardinality(DOMAIN read)),
         begin + 4 * Cardinality(DOMAIN read) < Len(text)
  PROVE  IsNodeAt(text, begin, read)
BY SomeKeysAre DEF KeysAreAt, IsNodeAt

\* What was read of a node that is written there, with a slash or the end of
\* the text behind it.
LEMMA NodeIsFollowed ==
  ASSUME NEW text, NEW begin \in Nat, Len(text) \in Nat,
         NEW read \in SomeKeys, NEW assigned \in SomeKeys, NEW closed,
         KeysAreAt(text, begin, read, closed), IsNodeAt(text, begin, assigned),
         NEW m, m = Cardinality(DOMAIN read), NEW s, s = Cardinality(DOMAIN assigned),
         begin + 4 * s + 2 <= Len(text) => text[begin + 4 * s + 2] = Slash
  PROVE  /\ m \in Nat /\ s \in Nat /\ m <= s
         /\ begin + 4 * m + 2 <= Len(text) /\ text[begin + 4 * m + 2] = Open => m < s
         /\ m < s => text[begin + 4 * m + 2] = Open
         /\ m = s => read = assigned
<1> DEFINE TheKey(i) == text[begin + 4 * i - 1]
<1>1. m \in Nat /\ s \in Nat
  BY SomeKeysAre
<1>2. /\ begin + 4 * m <= Len(text)
      /\ \A i \in 1 .. m :
           /\ text[begin + 4 * i - 2] = Open
           /\ TheKey(i) \in DOMAIN read /\ text[begin + 4 * i] = read[TheKey(i)]
      /\ \A key \in DOMAIN read : \E i \in 1 .. m : TheKey(i) = key
  BY DEF KeysAreAt
<1>3. \A i \in 1 .. s :
         /\ text[begin + 4 * i - 2] = Open
         /\ TheKey(i) \in DOMAIN assigned /\ text[begin + 4 * i] = assigned[TheKey(i)]
  BY DEF IsNodeAt
<1>4. \A key \in DOMAIN assigned : \E i \in 1 .. s : TheKey(i) = key
  BY DEF IsNodeAt
<1>5. m <= s
  <2> SUFFICES ASSUME s < m PROVE FALSE
    BY <1>1
  <2> DEFINE i == s + 1
  <2>1. i \in 1 .. m /\ begin + 4 * i - 2 = begin + 4 * s + 2 /\ begin + 4 * s + 2 <= Len(text)
    BY <1>1, <1>2
  <2> HIDE DEF i
  <2>2. text[begin + 4 * i - 2] = Open
    BY <1>2, <2>1
  <2> QED
    BY <2>1, <2>2, TokensDiffer
<1>6. ASSUME begin + 4 * m + 2 <= Len(text), text[begin + 4 * m + 2] = Open
      PROVE  m < s
  BY <1>1, <1>5, <1>6, TokensDiffer
<1>7. ASSUME m < s
      PROVE  text[begin + 4 * m + 2] = Open
  <2> DEFINE i == m + 1
  <2>1. i \in 1 .. s /\ begin + 4 * i - 2 = begin + 4 * m + 2
    BY <1>1, <1>7
  <2> HIDE DEF i
  <2> QED
    BY <1>3, <2>1
<1>8. ASSUME m = s
      PROVE  read = assigned
  <2>1. DOMAIN read \subseteq DOMAIN assigned
    BY <1>2, <1>3, <1>8
  <2>2. DOMAIN assigned \subseteq DOMAIN read
    BY <1>2, <1>4, <1>8
  <2>3. ASSUME NEW key \in DOMAIN read
        PROVE  read[key] = assigned[key]
    <3>1. PICK i \in 1 .. m : TheKey(i) = key
      BY <1>2
    <3> QED
      BY <1>2, <1>3, <1>8, <3>1
  <2> QED
    BY <2>1, <2>2, <2>3, SomeKeysAre
<1> QED
  BY <1>1, <1>5, <1>6, <1>7, <1>8

\* The keys of a node are different ones.
LEMMA KeysAreDistinct ==
  ASSUME NEW text, NEW begin \in Nat, NEW assigned \in SomeKeys, IsNodeAt(text, begin, assigned),
         NEW i \in 1 .. Cardinality(DOMAIN assigned), NEW j \in 1 .. Cardinality(DOMAIN assigned),
         text[begin + 4 * i - 1] = text[begin + 4 * j - 1]
  PROVE  i = j
<1> DEFINE s == Cardinality(DOMAIN assigned)
           f == [n \in 1 .. s |-> text[begin + 4 * n - 1]]
<1>1. s \in Nat
  BY SomeKeysAre
<1>2. \A n \in 1 .. s : f[n] \in DOMAIN assigned
  BY DEF IsNodeAt
<1>3. \A key \in DOMAIN assigned : \E n \in 1 .. s : f[n] = key
  BY DEF IsNodeAt
<1>4. f \in Surjection(1 .. s, DOMAIN assigned)
  BY <1>2, <1>3 DEF Surjection
<1>5. IsFiniteSet(1 .. s) /\ Cardinality(1 .. s) = s
  <2> HIDE DEF s
  <2>1. 1 \in Int /\ s \in Int /\ (1 > s => s = 0)
    BY <1>1
  <2>2. IsFiniteSet(1 .. s) /\ Cardinality(1 .. s) = IF 1 > s THEN 0 ELSE s - 1 + 1
    BY <2>1, FS_Interval
  <2> QED
    BY <1>1, <2>1, <2>2
<1>6. f \in Injection(1 .. s, DOMAIN assigned)
  <2> HIDE DEF f
  <2> QED
    BY <1>4, <1>5, FS_SurjSameCardinalityImpliesInj
<1>7. f[i] = f[j]
  OBVIOUS
<1> HIDE DEF f
<1> QED
  BY <1>6, <1>7 DEF Injection, IsInjective

-----------------------------------------------------------------------------
(***************************************************************************)
(* A path and its text                                                     *)
(***************************************************************************)
LEMMA WrittenPathsAre ==
  ASSUME NEW path
  PROVE  path \in WrittenPaths <=>
           /\ path \in Seq(SomeKeys) /\ Len(path) <= Depth
           /\ \A n \in 1 .. Len(path) : \/ DOMAIN path[n] = KeysOf[n]
                                        \/ n = Len(path) /\ path[n] = NoKeys
<1>1. Depth \in Nat
  BY ListsHaveKeys
<1>2. ASSUME path \in WrittenPaths
      PROVE  /\ path \in Seq(SomeKeys) /\ Len(path) <= Depth
             /\ \A n \in 1 .. Len(path) : \/ DOMAIN path[n] = KeysOf[n]
                                          \/ n = Len(path) /\ path[n] = NoKeys
  <2>1. PICK depth \in 0 .. Depth :
          /\ path \in [1 .. depth -> SomeKeys]
          /\ \A n \in 1 .. depth : \/ DOMAIN path[n] = KeysOf[n]
                                   \/ n = depth /\ path[n] = NoKeys
    BY <1>2 DEF WrittenPaths
  <2>2. depth \in Nat /\ path \in Seq(SomeKeys) /\ Len(path) = depth
    BY <1>1, <2>1
  <2> QED
    BY <1>1, <2>1, <2>2
<1>3. ASSUME /\ path \in Seq(SomeKeys) /\ Len(path) <= Depth
             /\ \A n \in 1 .. Len(path) : \/ DOMAIN path[n] = KeysOf[n]
                                          \/ n = Len(path) /\ path[n] = NoKeys
      PROVE  path \in WrittenPaths
  <2> DEFINE depth == Len(path)
  <2>1. depth \in 0 .. Depth /\ path \in [1 .. depth -> SomeKeys]
    BY <1>1, <1>3
  <2>2. \A n \in 1 .. depth : \/ DOMAIN path[n] = KeysOf[n]
                              \/ n = depth /\ path[n] = NoKeys
    BY <1>3
  <2> HIDE DEF depth
  <2>3. path \in {p \in [1 .. depth -> SomeKeys] :
                    \A n \in 1 .. depth : \/ DOMAIN p[n] = KeysOf[n]
                                          \/ n = depth /\ p[n] = NoKeys}
    BY <2>1, <2>2
  <2> QED
    BY <2>1, <2>3 DEF WrittenPaths
<1> QED
  BY <1>2, <1>3

\* What a path's text has behind the first of its nodes.
LEMMA TextGoesOn ==
  ASSUME NEW path \in WrittenPaths, NEW text \in Seq(Token), IsTextOf(text, path),
         NEW front \in Seq(SomeKeys), IsPrefix(front, path),
         NEW begin, begin = Begins(front)[Len(front) + 1],
         NEW P, P = Len(front)
  PROVE  /\ begin \in Nat
         /\ P < Len(path) =>
              /\ IsNodeAt(text, begin, path[P + 1])
              /\ path[P + 1] \in SomeKeys /\ P + 1 <= Depth
              /\ begin + 4 * Cardinality(DOMAIN path[P + 1]) + 2 <= Len(text) =>
                   text[begin + 4 * Cardinality(DOMAIN path[P + 1]) + 2] = Slash
              /\ \/ DOMAIN path[P + 1] = KeysOf[P + 1]
                 \/ EndsInList(path) /\ Len(path) = P + 1 /\ path[P + 1] = NoKeys
         /\ P >= Len(path) =>
              /\ P = Len(path) /\ Len(text) \in {begin - 1, begin}
              /\ P > 0 /\ begin <= Len(text) => text[begin] = Slash
<1>1. /\ path \in Seq(SomeKeys) /\ Len(path) \in Nat /\ Len(path) <= Depth
      /\ \A n \in 1 .. Len(path) : \/ DOMAIN path[n] = KeysOf[n]
                                   \/ n = Len(path) /\ path[n] = NoKeys
  BY WrittenPathsAre
<1>2. P \in Nat /\ P <= Len(path) /\ \A n \in 1 .. P : front[n] = path[n]
  BY <1>1, PrefixIs
<1>3. begin = Begins(path)[P + 1]
  <2>1. \A n \in 1 .. P + 1 : Begins(front)[n] = Begins(path)[n]
    <3>1. P <= Len(front)
      BY <1>2
    <3>2. path \in Seq(SomeKeys)
      BY <1>1
    <3> QED
      BY <1>2, <3>1, <3>2, BeginsAgree
  <2>2. P + 1 \in 1 .. P + 1
    BY <1>2
  <2> QED
    BY <2>1, <2>2
<1>4. begin \in Nat
  <2>1. P + 1 \in 1 .. P + 1
    BY <1>2
  <2> QED
    BY <2>1, BeginsAre
<1>5. /\ \A n \in 1 .. Len(path) : IsNodeAt(text, Begins(path)[n], path[n])
      /\ \A n \in 1 .. Len(path) :
           Begins(path)[n + 1] <= Len(text) => text[Begins(path)[n + 1]] = Slash
      /\ Len(text) \in {Begins(path)[Len(path) + 1] - 1, Begins(path)[Len(path) + 1]}
  <2>1. DOMAIN path = 1 .. Len(path)
    BY <1>1
  <2> QED
    BY <2>1 DEF IsTextOf
<1>6. ASSUME P < Len(path)
      PROVE  /\ IsNodeAt(text, begin, path[P + 1])
             /\ path[P + 1] \in SomeKeys /\ P + 1 <= Depth
             /\ begin + 4 * Cardinality(DOMAIN path[P + 1]) + 2 <= Len(text) =>
                  text[begin + 4 * Cardinality(DOMAIN path[P + 1]) + 2] = Slash
             /\ \/ DOMAIN path[P + 1] = KeysOf[P + 1]
                \/ EndsInList(path) /\ Len(path) = P + 1 /\ path[P + 1] = NoKeys
  <2> DEFINE n == P + 1
  <2>0. n \in 1 .. Len(path) /\ n = P + 1
    BY <1>1, <1>2, <1>6
  <2>1. IsNodeAt(text, begin, path[n])
    BY <1>3, <1>5, <2>0
  <2>2. path[n] \in SomeKeys /\ n <= Depth
    BY <1>1, <1>2, <2>0, ListsHaveKeys
  <2>3. Begins(path)[n + 1] = begin + 4 * Cardinality(DOMAIN path[n]) + 2
    BY <1>1, <1>3, <2>0, BeginsAre
  <2>4. begin + 4 * Cardinality(DOMAIN path[n]) + 2 <= Len(text) =>
          text[begin + 4 * Cardinality(DOMAIN path[n]) + 2] = Slash
    BY <1>5, <2>0, <2>3
  <2>5. DOMAIN path[n] = KeysOf[n] \/ (EndsInList(path) /\ Len(path) = n /\ path[n] = NoKeys)
    <3>1. Len(path) = n => path # << >>
      BY <1>1, <2>0
    <3> QED
      BY <1>1, <2>0, <3>1 DEF EndsInList
  <2> QED
    BY <2>1, <2>2, <2>4, <2>5
<1>7. ASSUME P >= Len(path)
      PROVE  /\ P = Len(path) /\ Len(text) \in {begin - 1, begin}
             /\ P > 0 /\ begin <= Len(text) => text[begin] = Slash
  <2>1. P = Len(path)
    BY <1>1, <1>2, <1>7
  <2>2. P > 0 => P \in 1 .. Len(path)
    BY <1>2, <2>1
  <2> QED
    BY <1>3, <1>5, <2>1, <2>2
<1> QED
  BY <1>4, <1>6, <1>7

-----------------------------------------------------------------------------
(***************************************************************************)
(* The types, and what TypeOK says                                         *)
(***************************************************************************)
Suggestions == [value : Seq(Token), more : Seq(Token)]

LEMMA SuggestIs ==
  ASSUME NEW c \in Context, NEW from \in Nat, NEW suggestions, suggestions \subseteq Suggestions
  PROVE  /\ Suggest(c, from, suggestions) \in Context
         /\ Suggest(c, from, suggestions).from = from
         /\ Suggest(c, from, suggestions).suggestions = suggestions
         /\ Suggest(c, from, suggestions).path = c.path
         /\ Suggest(c, from, suggestions).tmpListKeys = c.tmpListKeys
         /\ Suggest(c, from, suggestions).key = c.key
         /\ Suggest(c, from, suggestions).error = c.error
BY DEF Suggest, Context, Suggestions

LEMMA OneToken ==
  ASSUME NEW token \in Token
  PROVE  Always(<<token>>) \in Suggestions
BY DEF Always, Suggestions

LEMMA LongerIs ==
  ASSUME NEW S, NEW s \in Seq(S), NEW t \in Seq(S)
  PROVE  s \o t \in Seq(S) /\ Len(s \o t) >= Len(s)
OBVIOUS

LEMMA CompletionsAreLonger ==
  ASSUME line \in Seq(Token), NEW c \in Context, c.from \in 0 .. Len(line)
  PROVE  \A o \in Completions(c) : o \in Seq(Token) /\ Len(o) >= Len(line)
<1> DEFINE typed == SubSeq(line, c.from + 1, Len(line))
           before == SubSeq(line, 1, c.from)
<1>1. /\ Len(line) \in Nat
      /\ \A i \in 1 .. Len(line) : line[i] \in Token
  OBVIOUS
<1>2. typed \in Seq(Token) /\ Len(typed) = Len(line) - c.from
  <2>1. \A i \in c.from + 1 .. Len(line) : line[i] \in Token
    BY <1>1
  <2>2. typed \in Seq(Token)
        /\ Len(typed) = IF c.from + 1 <= Len(line) THEN Len(line) - (c.from + 1) + 1 ELSE 0
    BY <1>1, <2>1, SubSeqProperties
  <2> QED
    BY <1>1, <2>2
<1>3. before \in Seq(Token) /\ Len(before) = c.from
  <2>1. \A i \in 1 .. c.from : line[i] \in Token
    BY <1>1
  <2>2. before \in Seq(Token) /\ Len(before) = IF 1 <= c.from THEN c.from - 1 + 1 ELSE 0
    BY <1>1, <2>1, SubSeqProperties
  <2> QED
    BY <1>1, <2>2
<1> HIDE DEF typed, before
<1>4. ASSUME NEW s \in c.suggestions, IsPrefix(typed, s.value), NEW text,
             text = s.value \/ text = s.value \o s.more
      PROVE  before \o text \in Seq(Token) /\ Len(before \o text) >= Len(line)
  <2>1. s.value \in Seq(Token) /\ s.more \in Seq(Token)
    BY DEF Context
  <2>2. Len(typed) <= Len(s.value)
    BY <1>4 DEF IsPrefix
  <2>3. s.value \o s.more \in Seq(Token) /\ Len(s.value \o s.more) >= Len(s.value)
    BY <2>1, LongerIs
  <2>4. text \in Seq(Token) /\ Len(text) >= Len(s.value)
    <3>1. Len(s.value) \in Nat
      BY <2>1
    <3>2. CASE text = s.value
      BY <2>1, <3>1, <3>2
    <3>3. CASE text = s.value \o s.more
      BY <2>3, <3>3
    <3> QED
      BY <1>4, <3>2, <3>3
  <2>5. before \o text \in Seq(Token) /\ Len(before \o text) = Len(before) + Len(text)
    BY <1>3, <2>4, ConcatProperties
  <2> QED
    BY <1>1, <1>2, <1>3, <2>1, <2>2, <2>4, <2>5
<1> QED
  BY <1>4 DEF Completions, FilterByPrefix, typed, before

\* The parse ends with this context.
LEMMA EndsTyped ==
  ASSUME line \in Seq(Token), NEW c \in Context, c.from \in 0 .. Len(line), Ends(c), line' = line
  PROVE  OffersAreLonger'
<1>1. CASE completing
  BY <1>1, CompletionsAreLonger DEF Ends, OffersAreLonger
<1>2. CASE ~completing
  BY <1>2 DEF Ends, OffersAreLonger
<1> QED
  BY <1>1, <1>2

\* The keys remembered are keys of the list the parser is at.
Remembered(c) ==
  DOMAIN c.tmpListKeys \subseteq
    (IF Len(c.path) + 1 <= Depth THEN KeysOf[Len(c.path) + 1] ELSE {})

LEMMA NodeFailsTyped ==
  ASSUME Typed, phase = "parsing", NEW c \in Context, c.from \in 0 .. Len(line), Remembered(c),
         NodeFails(c)
  PROVE  Typed'
<1> USE DEF Typed, Types, TypeOK, Step, Goes, user
<1>1. /\ at' = saveIter /\ saveIter' = saveIter /\ ctx' = c /\ keys' = NoKeys
      /\ line' = line /\ parserMode' = parserMode
      /\ seen' = IF at + 1 > seen THEN at + 1 ELSE seen
  BY DEF NodeFails, Ends
<1>2. \/ /\ phase' = "parsing" /\ rule' = "node" /\ parserMode = "DataPathListEnd" /\ listEnd' = TRUE
         /\ offered' = offered
      \/ phase' = "parsed" /\ rule' \in {"accepted", "refused"} /\ listEnd' = listEnd /\ Ends(c)
  BY DEF NodeFails, Ends
<1>3. NoKeys \in SomeKeys
  BY NoKeysAreEmpty
<1>4. Types'
  <2>1. seen' \in Nat /\ at' \in Nat /\ saveIter' \in Nat
    BY <1>1
  <2>2. listEnd' \in BOOLEAN /\ (listEnd' => parserMode' = "DataPathListEnd")
    <3>1. (listEnd' = TRUE /\ parserMode = "DataPathListEnd") \/ listEnd' = listEnd
      BY <1>2
    <3>2. parserMode' = parserMode /\ listEnd \in BOOLEAN
          /\ (listEnd => parserMode = "DataPathListEnd")
      BY <1>1
    <3>3. CASE listEnd' = TRUE /\ parserMode = "DataPathListEnd"
      BY <3>2, <3>3
    <3>4. CASE listEnd' = listEnd
      BY <3>2, <3>4
    <3> QED
      BY <3>1, <3>3, <3>4
  <2>3. /\ rule' \in {"node", "suffix", "key", "value", "close", "after", "accepted", "refused"}
        /\ phase' \in {"typing", "parsing", "parsed"}
        /\ phase' = "parsing" => rule' \notin {"accepted", "refused"}
        /\ phase' = "parsed" => rule' \in {"accepted", "refused"}
    BY <1>2
  <2> QED
    BY <1>1, <1>3, <2>1, <2>2, <2>3
<1>5. TypeOK'
  <2>1. \A n \in DOMAIN c.path : c.path[n] \in SomeKeys
    BY DEF Context
  <2>2. at' \in 0 .. Len(line) /\ saveIter' \in 0 .. at' /\ seen' \in 0 .. Len(line) + 1
    BY <1>1
  <2> QED
    BY <1>1, <2>1, <2>2 DEF Remembered, Level
<1>6. OffersAreLonger'
  BY <1>1, <1>2, EndsTyped DEF OffersAreLonger
<1> QED
  BY <1>4, <1>5, <1>6

LEMMA ThrowsTyped ==
  ASSUME Typed, phase = "parsing", NEW message \in Messages, Throws(message)
  PROVE  Typed'
<1> USE DEF Typed, Types, TypeOK, Step, user
<1> DEFINE c == [ctx EXCEPT !.error = message]
<1>1. /\ at' = at /\ saveIter' = saveIter /\ ctx' = c /\ keys' = keys /\ listEnd' = listEnd
      /\ line' = line /\ parserMode' = parserMode /\ phase' = "parsed" /\ rule' = "refused"
      /\ seen' = IF at + 1 > seen THEN at + 1 ELSE seen
  BY DEF Throws, Ends
<1>2. /\ c \in Context /\ c.from = ctx.from /\ c.path = ctx.path
      /\ c.tmpListKeys = ctx.tmpListKeys /\ Ends(c)
  BY DEF Throws, Context
<1>3. Types'
  BY <1>1, <1>2
<1>4. TypeOK'
  <2>1. seen' \in 0 .. Len(line) + 1
    BY <1>1
  <2> QED
    BY <1>1, <1>2, <2>1 DEF Level
<1>5. OffersAreLonger'
  BY <1>1, <1>2, EndsTyped
<1> QED
  BY <1>3, <1>4, <1>5

\* The parse goes on behind a token that is there.
LEMMA GoesTyped ==
  ASSUME Typed, phase = "parsing", NEW next, Step(next), Goes,
         next \in {"node", "suffix", "key", "value", "close", "after"},
         at' \in 0 .. Len(line), saveIter' \in 0 .. at', listEnd' = listEnd,
         keys' \in SomeKeys, ctx' \in Context, ctx'.from \in 0 .. Len(line), Remembered(ctx')
  PROVE  Typed'
<1> USE DEF Typed, Types, TypeOK, Step, Goes, user
<1>1. seen' \in 0 .. Len(line) + 1
  OBVIOUS
<1>2. Types'
  BY <1>1
<1>3. TypeOK'
  <2>1. \A n \in DOMAIN ctx'.path : ctx'.path[n] \in SomeKeys
    BY DEF Context
  <2> QED
    BY <1>1, <2>1 DEF Remembered, Level
<1>4. OffersAreLonger'
  BY DEF OffersAreLonger
<1> QED
  BY <1>2, <1>3, <1>4

LEMMA LooksAt ==
  ASSUME Typed
  PROVE  /\ Look # End => at < Len(line) /\ Look = line[at + 1] /\ Look \in Token
         /\ Look = End => at = Len(line)
         /\ at \in Nat /\ at <= Len(line) /\ Len(line) \in Nat
         /\ saveIter \in Nat /\ saveIter <= at
<1>1. /\ line \in Seq(Token) /\ Len(line) \in Nat /\ at \in Nat /\ at <= Len(line)
      /\ saveIter \in Nat /\ saveIter <= at
  BY DEF Typed, Types, TypeOK
<1>2. ASSUME at < Len(line)
      PROVE  Look = line[at + 1] /\ Look \in Token /\ Look # End
  <2>1. at + 1 \in 1 .. Len(line)
    BY <1>1, <1>2
  <2> QED
    BY <1>1, <1>2, <2>1, TokensDiffer DEF Look
<1>3. ASSUME ~(at < Len(line))
      PROVE  Look = End /\ at = Len(line)
  BY <1>1, <1>3 DEF Look
<1> QED
  BY <1>1, <1>2, <1>3

\* Tokens are of one kind.
LEMMA LooksAtKeys ==
  ASSUME Typed, Look \in Key \cup Value \cup {Name, Open, Close, Slash}
  PROVE  at < Len(line) /\ Look = line[at + 1] /\ Look \in Token
<1>1. Look # End
  BY TokensDiffer
<1> QED
  BY <1>1, LooksAt

LEMMA LevelIs ==
  ASSUME Typed
  PROVE  /\ Len(ctx.path) \in Nat /\ ctx.path \in Seq(SomeKeys)
         /\ Level \in Nat \ {0} /\ Level = Len(ctx.path) + 1 /\ Depth \in Nat
         /\ Level <= Depth =>
              Level \in 1 .. Depth /\ KeysOf[Level] \subseteq Key /\ IsFiniteSet(KeysOf[Level])
         /\ ctx.tmpListKeys \in SomeKeys /\ ctx.from \in 0 .. Len(line) /\ Remembered(ctx)
         /\ keys \in SomeKeys /\ Count \in Nat /\ ctx.suggestions \subseteq Suggestions
         /\ ctx.error \in Messages
<1>1. ctx.path \in Seq(SomeKeys) /\ ctx.tmpListKeys \in SomeKeys /\ ctx.error \in Messages
      /\ ctx.suggestions \subseteq Suggestions
  BY DEF Typed, Types, Context, Suggestions
<1>2. Len(ctx.path) \in Nat
  BY <1>1
<1>3. Level \in Nat \ {0} /\ Level = Len(ctx.path) + 1
  BY <1>2 DEF Level
<1>4. keys \in SomeKeys /\ Count \in Nat
  BY SomeKeysAre DEF Typed, Types, Count
<1>5. ctx.from \in 0 .. Len(line) /\ Remembered(ctx)
  BY <1>3 DEF Typed, TypeOK, Remembered
<1>6. Level <= Depth =>
        Level \in 1 .. Depth /\ KeysOf[Level] \subseteq Key /\ IsFiniteSet(KeysOf[Level])
  BY <1>3, ListsHaveKeys
<1> QED
  BY <1>1, <1>2, <1>3, <1>4, <1>5, <1>6, ListsHaveKeys

LEMMA ValuesAreValues ==
  ASSUME Typed, Level <= Depth, NEW key \in KeysOf[Level]
  PROVE  ValuesOf(key) \subseteq Value
<1>1. ASSUME NEW complete \in ListInstances
      PROVE  complete[key] \in Value
  <2>1. PICK i \in Instance : Len(i) = Level /\ complete = i[Level]
    BY <1>1 DEF ListInstances
  <2>2. i \in Seq(SomeKeys) /\ \A n \in DOMAIN i : i[n] \in [KeysOf[n] -> Value]
    BY InstanceAssumption
  <2>3. Level \in DOMAIN i
    BY <2>1, <2>2, LevelIs
  <2> QED
    BY <2>1, <2>2, <2>3
<1> QED
  BY <1>1 DEF ValuesOf

LEMMA NodeTyped ==
  ASSUME Typed, phase = "parsing", Node
  PROVE  Typed'
<1> DEFINE here == [value |-> <<Name>>, more |-> <<Open>>]
           S == IF Level <= Depth THEN {here} ELSE {}
           c == Suggest(ctx, at, S)
<1>1. S \subseteq Suggestions
  <2>1. <<Name>> \in Seq(Token) /\ <<Open>> \in Seq(Token)
    BY DEF Token
  <2>2. here \in Suggestions
    BY <2>1 DEF Suggestions
  <2> HIDE DEF here
  <2> QED
    BY <2>2
<1>2. ctx \in Context /\ at \in Nat /\ at \in 0 .. Len(line)
  BY LooksAt DEF Typed, Types
<1>3. /\ c \in Context /\ c.from = at /\ c.path = ctx.path /\ c.tmpListKeys = ctx.tmpListKeys
  <2> HIDE DEF S
  <2> QED
    BY <1>1, <1>2, SuggestIs
<1>4. Remembered(c)
  BY <1>3, LevelIs DEF Remembered
<1>5. CASE Look = Name /\ Level <= Depth
  <2>1. Step("suffix") /\ saveIter' = at /\ at' = at + 1 /\ keys' = NoKeys /\ ctx' = c
        /\ Goes /\ listEnd' = listEnd
    BY <1>5 DEF Node
  <2>2. at < Len(line)
    BY <1>5, LooksAtKeys
  <2>3. at' \in 0 .. Len(line) /\ saveIter' \in 0 .. at'
    BY <2>1, <2>2, LooksAt
  <2> HIDE DEF c
  <2> QED
    BY <1>2, <1>3, <1>4, <2>1, <2>3, GoesTyped, NoKeysAreEmpty
<1>6. CASE ~(Look = Name /\ Level <= Depth)
  <2>1. NodeFails(c)
    BY <1>6 DEF Node
  <2> HIDE DEF c
  <2> QED
    BY <1>2, <1>3, <1>4, <2>1, NodeFailsTyped
<1> QED
  BY <1>5, <1>6

LEMMA OpenKeyTyped ==
  ASSUME Typed, phase = "parsing", NodeIsRead, OpenKey
  PROVE  Typed'
<1> DEFINE S == {Always(<<key>>) : key \in Missing(ctx)}
           c == Suggest(ctx, at + 1, S)
<1>1. Level <= Depth
  BY DEF OpenKey, NodeIsRead, Within
<1>2. S \subseteq Suggestions
  <2>1. Missing(ctx) \subseteq Token
    BY <1>1, LevelIs DEF Missing, Token
  <2> QED
    BY <2>1, OneToken
<1>3. at < Len(line)
  BY LooksAtKeys DEF OpenKey
<1>4. /\ Step("key") /\ at' = at + 1 /\ ctx' = c /\ Goes
      /\ saveIter' = saveIter /\ listEnd' = listEnd /\ keys' = keys
  BY DEF OpenKey
<1>5. /\ c \in Context /\ c.from = at + 1 /\ c.path = ctx.path
      /\ c.tmpListKeys = ctx.tmpListKeys
  <2>1. ctx \in Context /\ at + 1 \in Nat
    BY LooksAt DEF Typed, Types
  <2> HIDE DEF S
  <2> QED
    BY <1>2, <2>1, SuggestIs
<1> HIDE DEF c
<1>6. Remembered(c)
  BY <1>5, LevelIs DEF Remembered
<1>7. at' \in 0 .. Len(line) /\ saveIter' \in 0 .. at' /\ c.from \in 0 .. Len(line)
  BY <1>3, <1>4, <1>5, LooksAt
<1>8. keys' \in SomeKeys
  BY <1>4, LevelIs
<1> QED
  BY <1>4, <1>5, <1>6, <1>7, <1>8, GoesTyped

LEMMA KeyNameTyped ==
  ASSUME Typed, phase = "parsing", NodeIsRead, KeyName
  PROVE  /\ Typed'
         /\ ctx'.path = ctx.path /\ ctx'.tmpListKeys = ctx.tmpListKeys
         /\ ctx'.key = Look /\ ctx'.error = ctx.error
<1> DEFINE b == CreateValueSuggestions(ctx, Look)
           c == CreateSetSuggestions(b, Look)
<1>1. Level <= Depth /\ Look \in KeysOf[Level] /\ KeysOf[Level] \subseteq Key
  <2>1. Level <= Depth
    BY DEF KeyName, NodeIsRead, Within
  <2> QED
    BY <2>1, LevelIs DEF KeyName
<1>2. at < Len(line) /\ Look \in Token
  BY <1>1, LooksAtKeys
<1>3. /\ Step("value") /\ at' = at + 1 /\ ctx' = [c EXCEPT !.key = Look] /\ Goes
      /\ saveIter' = saveIter /\ listEnd' = listEnd /\ keys' = keys
  BY DEF KeyName
<1>4. ctx \in Context /\ at + 1 \in Nat /\ ctx.from \in 0 .. Len(line) /\ at + 1 \in 0 .. Len(line)
  BY <1>2, LooksAt, LevelIs DEF Typed, Types
<1>5. /\ b \in Context /\ b.from \in 0 .. Len(line) /\ b.path = ctx.path
      /\ b.tmpListKeys = ctx.tmpListKeys /\ b.error = ctx.error
  <2> DEFINE S == {Always(<<value>>) : value \in ValuesOf(Look)}
  <2>1. S \subseteq Suggestions
    <3>1. ValuesOf(Look) \subseteq Token
      BY <1>1, ValuesAreValues DEF Token
    <3> QED
      BY <3>1, OneToken
  <2>2. b = IF completing THEN Suggest(ctx, at + 1, S) ELSE ctx
    BY DEF CreateValueSuggestions
  <2> HIDE DEF S, b
  <2>3. CASE completing
    <3>1. b = Suggest(ctx, at + 1, S)
      BY <2>2, <2>3
    <3> QED
      BY <1>4, <2>1, <3>1, SuggestIs
  <2>4. CASE ~completing
    BY <1>4, <2>2, <2>4
  <2> QED
    BY <2>3, <2>4
<1> HIDE DEF b
<1>6. /\ c \in Context /\ c.from \in 0 .. Len(line) /\ c.path = ctx.path
      /\ c.tmpListKeys = ctx.tmpListKeys /\ c.error = ctx.error
  <2> DEFINE S == {Always(<<value>>) : value \in Value}
  <2>1. S \subseteq Suggestions
    BY OneToken DEF Token
  <2>2. c = IF Look \in enums THEN Suggest(b, at + 1, S) ELSE b
    BY DEF CreateSetSuggestions
  <2> HIDE DEF S, c
  <2>3. CASE Look \in enums
    <3>1. c = Suggest(b, at + 1, S)
      BY <2>2, <2>3
    <3> QED
      BY <1>4, <1>5, <2>1, <3>1, SuggestIs
  <2>4. CASE Look \notin enums
    BY <1>5, <2>2, <2>4
  <2> QED
    BY <2>3, <2>4
<1> HIDE DEF c
<1>7. /\ ctx' \in Context /\ ctx'.from \in 0 .. Len(line) /\ ctx'.path = ctx.path
      /\ ctx'.tmpListKeys = ctx.tmpListKeys /\ ctx'.error = ctx.error /\ ctx'.key = Look
  BY <1>2, <1>3, <1>6 DEF Context
<1>8. Remembered(ctx')
  BY <1>7, LevelIs DEF Remembered
<1>9. at' \in 0 .. Len(line) /\ saveIter' \in 0 .. at' /\ keys' \in SomeKeys
  BY <1>2, <1>3, LooksAt, LevelIs
<1>10. Typed'
  BY <1>3, <1>7, <1>8, <1>9, GoesTyped
<1> QED
  BY <1>7, <1>10

LEMMA KeyValueTyped ==
  ASSUME Typed, phase = "parsing", NodeIsRead, KeyValue
  PROVE  /\ Typed'
         /\ ctx'.path = ctx.path /\ ctx'.error = ctx.error
         /\ ctx'.tmpListKeys = Given(ctx.tmpListKeys, ctx.key, Look)
<1> DEFINE b == [ctx EXCEPT !.tmpListKeys = Given(@, ctx.key, Look)]
           end == IF Missing(b) = {} THEN Slash ELSE Open
           S == {Always(<<Close, end>>)}
           c == Suggest(b, at + 1, S)
<1>1. Level <= Depth /\ ctx.key \in KeysOf[Level] /\ KeysOf[Level] \subseteq Key /\ ctx.key \in Key
  <2>1. Level <= Depth /\ ctx.key \in KeysOf[Level]
    BY DEF KeyValue, NodeIsRead, Within
  <2> QED
    BY <2>1, LevelIs
<1>2. Look \in Value /\ at < Len(line)
  BY LooksAtKeys DEF KeyValue
<1>3. /\ Step("close") /\ at' = at + 1 /\ ctx' = c /\ Goes
      /\ saveIter' = saveIter /\ listEnd' = listEnd /\ keys' = Given(keys, ctx.key, Look)
  BY DEF KeyValue, SuggestKeysEnd
<1>4. /\ Given(ctx.tmpListKeys, ctx.key, Look) \in SomeKeys
      /\ DOMAIN Given(ctx.tmpListKeys, ctx.key, Look) = DOMAIN ctx.tmpListKeys \cup {ctx.key}
  <2>1. ctx.tmpListKeys \in SomeKeys
    BY LevelIs
  <2>2. Given(ctx.tmpListKeys, ctx.key, Look) \in SomeKeys
    BY <1>1, <1>2, <2>1, GivenAddsAKey
  <2>3. DOMAIN Given(ctx.tmpListKeys, ctx.key, Look) = DOMAIN ctx.tmpListKeys \cup {ctx.key}
    BY DEF Given
  <2> QED
    BY <2>2, <2>3
<1>5. Given(keys, ctx.key, Look) \in SomeKeys
  BY <1>1, <1>2, LevelIs, GivenAddsAKey
<1>6. /\ b \in Context /\ b.path = ctx.path /\ b.error = ctx.error
      /\ b.tmpListKeys = Given(ctx.tmpListKeys, ctx.key, Look)
  <2>1. ctx \in Context
    BY DEF Typed, Types
  <2> QED
    BY <1>4, <2>1 DEF Context
<1>7. S \subseteq Suggestions
  <2>1. end \in Token /\ Close \in Token
    BY DEF Token
  <2> HIDE DEF end
  <2>2. <<Close, end>> \in Seq(Token)
    BY <2>1
  <2> QED
    BY <2>2 DEF Always, Suggestions
<1>8. /\ c \in Context /\ c.from = at + 1 /\ c.path = ctx.path /\ c.error = ctx.error
      /\ c.tmpListKeys = Given(ctx.tmpListKeys, ctx.key, Look)
  <2>1. at + 1 \in Nat
    BY LooksAt
  <2> HIDE DEF b, S
  <2> QED
    BY <1>6, <1>7, <2>1, SuggestIs
<1> HIDE DEF c
<1>9. Remembered(c)
  BY <1>1, <1>4, <1>8, LevelIs DEF Remembered
<1>10. at' \in 0 .. Len(line) /\ saveIter' \in 0 .. at' /\ c.from \in 0 .. Len(line)
  BY <1>2, <1>3, <1>8, LooksAt
<1> QED
  BY <1>3, <1>5, <1>8, <1>9, <1>10, GoesTyped

LEMMA CloseKeyTyped ==
  ASSUME Typed, phase = "parsing", CloseKey
  PROVE  Typed'
<1>1. at < Len(line)
  BY LooksAtKeys DEF CloseKey
<1>2. /\ Step("suffix") /\ at' = at + 1 /\ ctx' = ctx /\ Goes
      /\ saveIter' = saveIter /\ listEnd' = listEnd /\ keys' = keys
  BY DEF CloseKey
<1>3. at' \in 0 .. Len(line) /\ saveIter' \in 0 .. at'
  BY <1>1, <1>2, LooksAt
<1>4. ctx \in Context
  BY DEF Typed, Types
<1> QED
  BY <1>2, <1>3, <1>4, LevelIs, GoesTyped

\* The token behind the node's end lets the path go on or end.
MayEnd(end) == (IF end < Len(line) THEN line[end + 1] ELSE End) \in {Slash, End}

LEMMA NodeEndsIs ==
  ASSUME NEW c, NEW end, NEW assigned, NodeEnds(c, end, assigned)
  PROVE  \/ /\ MayEnd(end) /\ Step("after") /\ at' = end /\ ctx' = PushPathFragment(c, assigned)
            /\ Goes /\ saveIter' = saveIter /\ listEnd' = listEnd /\ keys' = keys
         \/ ~MayEnd(end) /\ NodeFails(c)
BY DEF NodeEnds, MayEnd

LEMMA PushedIs ==
  ASSUME NEW c \in Context, NEW assigned \in SomeKeys
  PROVE  /\ PushPathFragment(c, assigned) \in Context
         /\ PushPathFragment(c, assigned).path = Append(c.path, assigned)
         /\ PushPathFragment(c, assigned).tmpListKeys = c.tmpListKeys
         /\ PushPathFragment(c, assigned).from = c.from
         /\ PushPathFragment(c, assigned).error = c.error
         /\ Append(c.path, assigned) \in Seq(SomeKeys)
<1>1. c.path \in Seq(SomeKeys)
  BY DEF Context
<1>2. Append(c.path, assigned) \in Seq(SomeKeys)
  BY <1>1, AppendProperties
<1> QED
  BY <1>2 DEF Context, PushPathFragment

LEMMA NodeEndsTyped ==
  ASSUME Typed, phase = "parsing", NEW c \in Context, c.from \in 0 .. Len(line), Remembered(c),
         NEW end \in saveIter .. Len(line), NEW assigned \in SomeKeys, NodeEnds(c, end, assigned),
         MayEnd(end) => c.tmpListKeys = NoKeys
  PROVE  Typed'
<1>1. CASE MayEnd(end)
  <2> DEFINE pushed == PushPathFragment(c, assigned)
  <2>1. /\ Step("after") /\ at' = end /\ ctx' = pushed /\ Goes
        /\ saveIter' = saveIter /\ listEnd' = listEnd /\ keys' = keys
    BY <1>1, NodeEndsIs
  <2>2. pushed \in Context /\ pushed.tmpListKeys = NoKeys /\ pushed.from = c.from
    BY <1>1, PushedIs
  <2> HIDE DEF pushed
  <2>3. Remembered(pushed)
    BY <2>2, NoKeysAreEmpty DEF Remembered
  <2>4. at' \in 0 .. Len(line) /\ saveIter' \in 0 .. at'
    BY <2>1, LooksAt
  <2> QED
    BY <2>1, <2>2, <2>3, <2>4, LevelIs, GoesTyped
<1>2. CASE ~MayEnd(end)
  BY <1>2, NodeEndsIs, NodeFailsTyped
<1> QED
  BY <1>1, <1>2

LEMMA SuffixSucceedsTyped ==
  ASSUME Typed, phase = "parsing", SuffixSucceeds
  PROVE  Typed'
<1> DEFINE c == [ctx EXCEPT !.tmpListKeys = NoKeys]
<1>1. c \in Context /\ c.tmpListKeys = NoKeys /\ c.from = ctx.from
  BY NoKeysAreEmpty DEF Typed, Types, Context
<1>2. NodeEnds(c, at, keys)
  BY DEF SuffixSucceeds
<1> HIDE DEF c
<1>3. Remembered(c)
  BY <1>1, NoKeysAreEmpty DEF Remembered
<1>4. at \in saveIter .. Len(line)
  BY LooksAt
<1> QED
  BY <1>1, <1>2, <1>3, <1>4, LevelIs, NodeEndsTyped

\* A list without keys ends behind its name: no key was read.
LEMMA ListItself ==
  ASSUME Typed, NodeIsRead, KeysAreRemembered, rule = "suffix", Look # Open, MayEnd(saveIter + 1)
  PROVE  keys = NoKeys /\ ctx.tmpListKeys = NoKeys /\ at = saveIter + 1
<1>1. KeysAreRead(Count) /\ at = saveIter + 4 * Count + 1
  BY DEF NodeIsRead, Within
<1>2. Count \in Nat
  BY LevelIs
<1>3. Count = 0
  <2> SUFFICES ASSUME Count # 0 PROVE FALSE
    OBVIOUS
  <2>1. 1 \in 1 .. Count /\ saveIter + 4 * 1 - 2 = saveIter + 2 /\ saveIter + 2 <= Len(line)
    BY <1>1, <1>2, LooksAt
  <2>2. line[saveIter + 4 * 1 - 2] = Open
    BY <1>1, <2>1 DEF KeysAreRead, KeysAreAt, Count
  <2>3. line[saveIter + 2] = Open
    BY <2>1, <2>2
  <2>4. (saveIter + 1) + 1 = saveIter + 2 /\ saveIter + 1 < Len(line)
    BY <2>1, LooksAt
  <2>5. line[(saveIter + 1) + 1] \in {Slash, End}
    BY <2>4 DEF MayEnd
  <2> QED
    BY <2>3, <2>4, <2>5, TokensDiffer
<1>4. keys = NoKeys /\ at = saveIter + 1
  BY <1>1, <1>3, LevelIs, LooksAt, NoKeysAreEmpty DEF Count
<1>5. ~Carried
  <2> SUFFICES ASSUME Carried PROVE FALSE
    OBVIOUS
  <2>1. line[saveIter + 2] = Open /\ saveIter + 3 <= Len(line)
    BY LooksAt DEF Carried
  <2>2. at + 1 = saveIter + 2 /\ at < Len(line)
    BY <1>4, <2>1, LooksAt
  <2> QED
    BY <2>1, <2>2 DEF Look
<1>6. ctx.tmpListKeys = keys
  BY <1>5 DEF KeysAreRemembered, Within
<1> QED
  BY <1>4, <1>6

LEMMA SuffixFailsTyped ==
  ASSUME Typed, phase = "parsing", NodeIsRead, KeysAreRemembered, SuffixFails
  PROVE  Typed'
<1> DEFINE c == [ctx EXCEPT !.error = "not enough"]
<1>1. /\ c \in Context /\ c.tmpListKeys = ctx.tmpListKeys /\ c.from = ctx.from
      /\ c.path = ctx.path
  BY DEF Typed, Types, Context, Messages
<1>2. /\ rule = "suffix" /\ Look # Open
      /\ IF listEnd THEN NodeEnds(c, saveIter + 1, NoKeys) ELSE NodeFails(c)
  BY DEF SuffixFails
<1> HIDE DEF c
<1>3. Remembered(c)
  BY <1>1, LevelIs DEF Remembered
<1>4. CASE listEnd
  <2>1. saveIter + 1 \in saveIter .. Len(line)
    <3>1. at = saveIter + 4 * Count + 1
      BY <1>2 DEF NodeIsRead, Within
    <3>2. saveIter \in Nat /\ at \in Nat /\ at <= Len(line) /\ Len(line) \in Nat /\ Count \in Nat
      BY LooksAt, LevelIs
    <3> QED
      BY <3>1, <3>2
  <2>2. MayEnd(saveIter + 1) => c.tmpListKeys = NoKeys
    BY <1>1, <1>2, ListItself
  <2> QED
    BY <1>1, <1>2, <1>3, <1>4, <2>1, <2>2, LevelIs, NoKeysAreEmpty, NodeEndsTyped
<1>5. CASE ~listEnd
  BY <1>1, <1>2, <1>3, <1>5, LevelIs, NodeFailsTyped
<1> QED
  BY <1>4, <1>5

LEMMA NodeGoesOnTyped ==
  ASSUME Typed, phase = "parsing", NodeGoesOn
  PROVE  Typed'
<1>1. at < Len(line)
  BY LooksAtKeys DEF NodeGoesOn
<1>2. /\ Step("node") /\ at' = at + 1 /\ saveIter' = at + 1 /\ ctx' = ctx /\ Goes
      /\ listEnd' = listEnd /\ keys' = keys
  BY DEF NodeGoesOn
<1>3. at' \in 0 .. Len(line) /\ saveIter' \in 0 .. at'
  BY <1>1, <1>2, LooksAt
<1>4. ctx \in Context
  BY DEF Typed, Types
<1> QED
  BY <1>2, <1>3, <1>4, LevelIs, GoesTyped

LEMMA PathEndsTyped ==
  ASSUME Typed, phase = "parsing", PathEnds
  PROVE  Typed'
<1> USE DEF Typed, Types, TypeOK, Step, user
<1>1. /\ at' = Len(line) /\ saveIter' = saveIter /\ ctx' = ctx /\ keys' = keys
      /\ listEnd' = listEnd /\ line' = line /\ parserMode' = parserMode /\ phase' = "parsed"
      /\ rule' \in {"accepted", "refused"}
      /\ seen' = IF at + 1 > seen THEN at + 1 ELSE seen
  BY DEF PathEnds, Ends
<1>2. Ends(ctx)
  BY DEF PathEnds
<1>3. Types'
  BY <1>1
<1>4. TypeOK'
  <2>1. seen' \in 0 .. Len(line) + 1 /\ at' \in 0 .. Len(line) /\ saveIter' \in 0 .. at'
    BY <1>1
  <2> QED
    BY <1>1, <2>1 DEF Level
<1>5. OffersAreLonger'
  BY <1>1, <1>2, EndsTyped
<1> QED
  BY <1>3, <1>4, <1>5

LEMMA NewContextIs ==
  /\ NewContext \in Context /\ NewContext.from = 0 /\ NewContext.path = << >>
  /\ NewContext.tmpListKeys = NoKeys /\ NewContext.error = "none"
<1>1. << >> \in Seq(SomeKeys)
  BY EmptySeq
<1>2. NoKeys \in SomeKeys
  BY NoKeysAreEmpty
<1> QED
  BY <1>1, <1>2 DEF NewContext, Context, Messages

LEMMA LongerByOne ==
  ASSUME NEW S, NEW s \in Seq(S), NEW x \in S
  PROVE  Append(s, x) \in Seq(S) /\ Len(Append(s, x)) >= Len(s)
OBVIOUS

LEMMA LineGrowsTyped ==
  ASSUME Typed, line' \in Seq(Token), Len(line') >= Len(line), phase' = "typing",
         parserMode' = parserMode, rule' = rule, at' = at, seen' = seen,
         saveIter' = saveIter, listEnd' = listEnd, keys' = keys, ctx' = ctx
  PROVE  Typed'
<1> USE DEF Typed, Types, TypeOK
<1>1. Types'
  OBVIOUS
<1>2. TypeOK'
  <2>1. Len(line) \in Nat /\ Len(line') \in Nat /\ ctx.from \in Nat
    OBVIOUS
  <2>2. at \in 0 .. Len(line') /\ seen \in 0 .. Len(line') + 1 /\ ctx.from \in 0 .. Len(line')
    BY <2>1
  <2> QED
    BY <2>2 DEF Level
<1> QED
  BY <1>1, <1>2 DEF OffersAreLonger

\* The user's steps.
LEMMA UserTyped ==
  ASSUME Typed,
         \/ \E tab \in BOOLEAN : Press(tab)
         \/ \E token \in Token : Type(token)
         \/ \E completed \in offered : Take(completed)
  PROVE  Typed'
<1> USE DEF Typed, Types, TypeOK, user, parser
<1>1. ASSUME NEW tab \in BOOLEAN, Press(tab)
      PROVE  Typed'
  <2>1. /\ phase' = "parsing" /\ offered' = {} /\ line' = line /\ parserMode' = parserMode
        /\ rule' = "node" /\ at' = 0 /\ seen' = 0 /\ saveIter' = 0 /\ listEnd' = FALSE
        /\ keys' = NoKeys /\ ctx' = NewContext
    BY <1>1 DEF Press, NewParser
  <2>2. /\ NewContext \in Context /\ NewContext.from = 0 /\ NewContext.path = << >>
        /\ NewContext.tmpListKeys = NoKeys
    BY NewContextIs
  <2>3. Types'
    BY <2>1, <2>2, NoKeysAreEmpty
  <2>4. TypeOK'
    <3>1. DOMAIN ctx'.path = {} /\ DOMAIN ctx'.tmpListKeys = {}
      BY <2>1, <2>2, NoKeysAreEmpty
    <3>2. Len(line') \in Nat
      BY <2>1
    <3> QED
      BY <2>1, <2>2, <3>1, <3>2
  <2> QED
    BY <2>1, <2>3, <2>4 DEF OffersAreLonger
<1>2. ASSUME NEW token \in Token, Type(token)
      PROVE  Typed'
  <2>1. /\ line' = Append(line, token) /\ phase' = "typing"
        /\ parserMode' = parserMode /\ rule' = rule /\ at' = at /\ seen' = seen
        /\ saveIter' = saveIter /\ listEnd' = listEnd /\ keys' = keys /\ ctx' = ctx
    BY <1>2 DEF Type
  <2>2. line' \in Seq(Token) /\ Len(line') >= Len(line)
    BY <2>1, LongerByOne
  <2> QED
    BY <2>1, <2>2, LineGrowsTyped
<1>3. ASSUME NEW completed \in offered, Take(completed)
      PROVE  Typed'
  <2>1. /\ line' = completed /\ phase = "parsed" /\ phase' = "typing"
        /\ parserMode' = parserMode /\ rule' = rule /\ at' = at /\ seen' = seen
        /\ saveIter' = saveIter /\ listEnd' = listEnd /\ keys' = keys /\ ctx' = ctx
    BY <1>3 DEF Take
  <2>2. line' \in Seq(Token) /\ Len(line') >= Len(line)
    BY <2>1 DEF OffersAreLonger
  <2> QED
    BY <2>1, <2>2, LineGrowsTyped
<1> QED
  BY <1>1, <1>2, <1>3

-----------------------------------------------------------------------------
(***************************************************************************)
(* What is behind the iterator, step by step: the steps within a node      *)
(***************************************************************************)
LEMMA PathStays ==
  ASSUME PathIsRead, rule # "after", line' = line, ctx'.path = ctx.path, saveIter' = saveIter,
         rule' # "after", rule' = "node" => at' = saveIter'
  PROVE  PathIsRead'
BY DEF PathIsRead

LEMMA PathStaysFollowed ==
  ASSUME PathIsFollowed, rule # "after", line' = line, parserMode' = parserMode,
         ctx'.path = ctx.path, listEnd' = listEnd, rule' # "after",
         Within' => \A path \in WrittenPaths : Acceptable(path) => Len(ctx.path) < Len(path)
  PROVE  PathIsFollowed'
<1>1. ASSUME NEW path \in WrittenPaths
      PROVE  Acceptable(path)' = Acceptable(path)
  BY DEF Acceptable, Writes
<1> QED
  BY <1>1 DEF PathIsFollowed

LEMMA StepIs ==
  ASSUME NEW next, Step(next)
  PROVE  /\ rule' = next /\ line' = line /\ parserMode' = parserMode /\ completing' = completing
         /\ seen' = IF at + 1 > seen THEN at + 1 ELSE seen
BY DEF Step, user

LEMMA SeenNext ==
  ASSUME Typed, NEW next, Step(next), at' = at + 1 \/ at' = at, seen <= at + 1
  PROVE  seen' <= at' + 1
BY DEF Typed, Types, Step

LEMMA NodeKeeps ==
  ASSUME Typed, Reads, Node, Look = Name, Level <= Depth
  PROVE  Reads'
<1> DEFINE c == Suggest(ctx, at, {[value |-> <<Name>>, more |-> <<Open>>]})
<1>0. ctx' = c
  BY DEF Node
<1>1. /\ rule = "node" /\ Step("suffix") /\ saveIter' = at /\ at' = at + 1 /\ keys' = NoKeys
      /\ listEnd' = listEnd
  BY DEF Node
<1>2. /\ ctx'.path = ctx.path /\ ctx'.tmpListKeys = ctx.tmpListKeys /\ ctx'.error = ctx.error
  BY <1>0 DEF Suggest, Typed, Types, Context
<1> HIDE DEF c
<1>3. rule' = "suffix" /\ line' = line /\ parserMode' = parserMode
  BY <1>1, StepIs
<1>4. at = saveIter /\ saveIter' = saveIter
  BY <1>1 DEF Reads, PathIsRead
<1>5. /\ at < Len(line) /\ line[at + 1] = Name /\ at \in Nat /\ Len(line) \in Nat
  BY LooksAtKeys, LooksAt
<1>6. PathIsRead'
  BY <1>1, <1>2, <1>3, <1>4, PathStays DEF Reads
<1>7. NodeIsRead'
  <2>1. KeysAreAt(line, saveIter, NoKeys, 0)
    BY <1>4, <1>5, NoneAreAt
  <2>2. Count' = 0 /\ KeysAreRead(Count)'
    BY <1>1, <1>3, <1>4, <2>1, NoKeysAreEmpty DEF Count, KeysAreRead
  <2>3. Level' = Level /\ DOMAIN keys' = {}
    BY <1>1, <1>2, NoKeysAreEmpty DEF Level
  <2>4. at' = saveIter' + 4 * Count' + 1
    BY <1>1, <1>4, <1>5, <2>2
  <2> QED
    BY <1>3, <2>2, <2>3, <2>4 DEF NodeIsRead
<1>8. KeysAreRemembered'
  <2>1. Carried \/ ctx.tmpListKeys = NoKeys
    BY <1>1 DEF Reads, KeysAreRemembered, Within
  <2> QED
    BY <1>1, <1>2, <1>3, <1>4, <2>1 DEF Carried, KeysAreRemembered, Within
<1>9. NothingElse'
  <2> SUFFICES ASSUME parserMode = "DataPath"
               PROVE  NothingElse'
    BY <1>3 DEF NothingElse
  <2>1. /\ ctx.error = "none" /\ seen <= at + 1
        /\ Cardinality({n \in 1 .. saveIter : line[n] = Name}) = Len(ctx.path)
    BY <1>1 DEF Reads, NothingElse
  <2>2. seen' <= at' + 1
    BY <1>1, <2>1, SeenNext
  <2>3. saveIter' + 2 .. at' = {} /\ saveIter' + 3 .. at' = {}
    BY <1>1, <1>4, <1>5
  <2> QED
    BY <1>2, <1>3, <1>4, <2>1, <2>2, <2>3 DEF NothingElse
<1>10. PathIsFollowed'
  <2>1. ASSUME NEW path \in WrittenPaths, Acceptable(path)
        PROVE  Len(ctx.path) < Len(path)
    <3> DEFINE begin == Begins(ctx.path)[Len(ctx.path) + 1]
               P == Len(ctx.path)
    <3>1. IsTextOf(line, path) /\ IsPrefix(ctx.path, path) /\ line \in Seq(Token)
      BY <2>1 DEF Reads, PathIsFollowed, Acceptable, Writes, Typed, Types
    <3>2. saveIter = begin
      BY <1>1 DEF Reads, PathIsRead
    <3>3. P \in Nat /\ Len(path) \in Nat
      BY LevelIs, WrittenPathsAre
    <3> HIDE DEF begin, P
    <3>4. P >= Len(path) => Len(line) \in {begin - 1, begin}
      BY <3>1, LevelIs, TextGoesOn DEF begin, P
    <3>5. ~(P >= Len(path))
      BY <1>4, <1>5, <3>2, <3>4
    <3> QED
      BY <3>3, <3>5 DEF P
  <2> QED
    BY <1>1, <1>2, <1>3, <2>1, PathStaysFollowed DEF Reads
<1> QED
  BY <1>6, <1>7, <1>8, <1>9, <1>10 DEF Reads

\* The steps within a node leave the path and where the node begins.
LEMMA WithinKeeps ==
  ASSUME Reads, Within, NEW next, Step(next), next \in {"suffix", "key", "value", "close"},
         saveIter' = saveIter, listEnd' = listEnd, ctx'.path = ctx.path
  PROVE  /\ PathIsRead' /\ PathIsFollowed'
         /\ Level' = Level /\ Level <= Depth /\ Within'
         /\ rule' = next /\ line' = line /\ parserMode' = parserMode
<1>1. rule' = next /\ line' = line /\ parserMode' = parserMode
  BY StepIs
<1>2. rule # "after" /\ rule' # "after" /\ rule' # "node"
  BY <1>1 DEF Within
<1>3. PathIsRead'
  BY <1>1, <1>2, PathStays DEF Reads
<1>4. PathIsFollowed'
  <2>1. \A path \in WrittenPaths : Acceptable(path) => Len(ctx.path) < Len(path)
    BY DEF Reads, PathIsFollowed
  <2> QED
    BY <1>1, <1>2, <2>1, PathStaysFollowed DEF Reads
<1>5. Level' = Level /\ Level <= Depth /\ Within'
  BY <1>1 DEF Reads, NodeIsRead, Within, Level
<1> QED
  BY <1>1, <1>3, <1>4, <1>5

\* So do they leave what is not said of the token they consume.
LEMMA NothingElseWithin ==
  ASSUME Typed, Reads, Within, NEW next, Step(next), next \in {"suffix", "key", "value", "close"},
         saveIter' = saveIter, at' = at + 1, ctx'.path = ctx.path, ctx'.error = ctx.error,
         DOMAIN keys \subseteq DOMAIN keys', saveIter < at,
         line[at + 1] # Name,
         at > saveIter + 1 /\ line[at] = Open => rule' = "value",
         rule = "value" => line[at] \in DOMAIN keys'
  PROVE  NothingElse'
<1>1. rule' = next /\ line' = line /\ parserMode' = parserMode /\ Within'
  BY StepIs DEF Within
<1> SUFFICES ASSUME parserMode = "DataPath"
             PROVE  NothingElse'
  BY <1>1 DEF NothingElse
<1>2. /\ ctx.error = "none" /\ seen <= at + 1
      /\ Cardinality({n \in 1 .. saveIter : line[n] = Name}) = Len(ctx.path)
      /\ \A n \in saveIter + 2 .. at : line[n] # Name
      /\ \A j \in saveIter + 3 .. at :
           line[j - 1] = Open => line[j] \in DOMAIN keys \/ (rule = "value" /\ j = at)
  BY DEF Reads, NothingElse, Within
<1>3. saveIter \in Nat /\ at \in Nat
  BY LooksAt
<1>4. seen' <= at' + 1
  BY <1>2, SeenNext
<1>5. \A n \in saveIter + 2 .. at' : line[n] # Name
  <2>1. \A n \in saveIter + 2 .. at + 1 : n \in saveIter + 2 .. at \/ n = at + 1
    BY <1>3
  <2> QED
    BY <1>2, <2>1
<1>6. ASSUME NEW j \in saveIter + 3 .. at', line[j - 1] = Open
      PROVE  line[j] \in DOMAIN keys' \/ (rule' = "value" /\ j = at')
  <2>1. CASE j = at + 1
    <3>1. line[at] = Open /\ at > saveIter + 1
      BY <1>3, <1>6, <2>1
    <3> QED
      BY <2>1, <3>1
  <2>2. CASE j # at + 1
    <3>1. j \in saveIter + 3 .. at
      BY <1>3, <2>2
    <3> QED
      BY <1>2, <1>6, <3>1
  <2> QED
    BY <2>1, <2>2
<1> QED
  BY <1>1, <1>2, <1>4, <1>5, <1>6 DEF NothingElse, Within

LEMMA OpenKeyKeeps ==
  ASSUME Typed, Reads, OpenKey
  PROVE  Reads'
<1> DEFINE c == Suggest(ctx, at + 1, {Always(<<key>>) : key \in Missing(ctx)})
<1>1. /\ rule = "suffix" /\ Look = Open /\ Step("key") /\ at' = at + 1 /\ ctx' = c
      /\ saveIter' = saveIter /\ listEnd' = listEnd /\ keys' = keys
  BY DEF OpenKey
<1>2. /\ ctx'.path = ctx.path /\ ctx'.tmpListKeys = ctx.tmpListKeys /\ ctx'.error = ctx.error
  BY <1>1 DEF Suggest, Typed, Types, Context
<1> HIDE DEF c
<1>3. Within
  BY <1>1 DEF Within
<1>4. /\ PathIsRead' /\ PathIsFollowed' /\ Level' = Level /\ Level <= Depth /\ Within'
      /\ rule' = "key" /\ line' = line
  BY <1>1, <1>2, <1>3, WithinKeeps
<1>5. at < Len(line) /\ line[at + 1] = Open
  BY <1>1, LooksAtKeys
<1>6. KeysAreRead(Count) /\ at = saveIter + 4 * Count + 1 /\ DOMAIN keys \subseteq KeysOf[Level]
  BY <1>1, <1>3 DEF Reads, NodeIsRead
<1>7. Count' = Count /\ Count \in Nat /\ saveIter \in Nat
  BY <1>1, LevelIs, LooksAt DEF Count
<1>8. NodeIsRead'
  <2>1. KeysAreRead(Count)'
    BY <1>1, <1>4, <1>6 DEF KeysAreRead, Count
  <2>2. at' = saveIter' + 4 * Count' + 2
    BY <1>1, <1>6, <1>7
  <2>3. line'[at'] = Open
    BY <1>1, <1>4, <1>5
  <2> QED
    BY <1>1, <1>4, <1>6, <2>1, <2>2, <2>3 DEF NodeIsRead
<1>9. KeysAreRemembered'
  BY <1>1, <1>2, <1>3, <1>4 DEF Reads, KeysAreRemembered, Carried
<1>10. NothingElse'
  <2>1. at > saveIter + 1 => line[at] = Close
    <3> SUFFICES ASSUME at > saveIter + 1 PROVE line[at] = Close
      OBVIOUS
    <3>1. Count \in 1 .. Count
      BY <1>6, <1>7
    <3> QED
      BY <1>6, <3>1 DEF KeysAreRead, KeysAreAt
  <2>2. saveIter < at
    BY <1>6, <1>7
  <2> QED
    BY <1>1, <1>2, <1>3, <1>5, <2>1, <2>2, NothingElseWithin, TokensDiffer
<1> QED
  BY <1>4, <1>8, <1>9, <1>10 DEF Reads

LEMMA KeyNameKeeps ==
  ASSUME Typed, phase = "parsing", Reads, KeyName
  PROVE  Reads'
<1>1. /\ rule = "key" /\ Look \in KeysOf[Level] /\ Step("value") /\ at' = at + 1
      /\ saveIter' = saveIter /\ listEnd' = listEnd /\ keys' = keys
  BY DEF KeyName
<1>2. /\ ctx'.path = ctx.path /\ ctx'.tmpListKeys = ctx.tmpListKeys /\ ctx'.error = ctx.error
      /\ ctx'.key = Look
  BY KeyNameTyped DEF Reads
<1>3. Within
  BY <1>1 DEF Within
<1>4. /\ PathIsRead' /\ PathIsFollowed' /\ Level' = Level /\ Level <= Depth /\ Within'
      /\ rule' = "value" /\ line' = line
  BY <1>1, <1>2, <1>3, WithinKeeps
<1>5. at < Len(line) /\ line[at + 1] = Look /\ Look \in Key
  <2>1. Look \in Key
    BY <1>1, <1>4, LevelIs
  <2> QED
    BY <2>1, LooksAtKeys
<1>6. /\ KeysAreRead(Count) /\ at = saveIter + 4 * Count + 2 /\ line[at] = Open
      /\ DOMAIN keys \subseteq KeysOf[Level]
  BY <1>1, <1>3 DEF Reads, NodeIsRead
<1>7. Count' = Count /\ Count \in Nat /\ saveIter \in Nat
  BY <1>1, LevelIs, LooksAt DEF Count
<1>8. NodeIsRead'
  <2>1. KeysAreRead(Count)'
    BY <1>1, <1>4, <1>6 DEF KeysAreRead, Count
  <2>2. at' = saveIter' + 4 * Count' + 3 /\ at' - 1 = at
    BY <1>1, <1>6, <1>7
  <2>3. line'[at' - 1] = Open /\ line'[at'] = ctx'.key /\ ctx'.key \in KeysOf[Level']
    BY <1>1, <1>2, <1>4, <1>5, <1>6, <2>2
  <2> QED
    BY <1>1, <1>4, <1>6, <2>1, <2>2, <2>3 DEF NodeIsRead
<1>9. KeysAreRemembered'
  BY <1>1, <1>2, <1>3, <1>4 DEF Reads, KeysAreRemembered, Carried
<1>10. NothingElse'
  <2>1. saveIter < at
    BY <1>6, <1>7
  <2> QED
    BY <1>1, <1>2, <1>3, <1>4, <1>5, <2>1, NothingElseWithin, TokensDiffer
<1> QED
  BY <1>4, <1>8, <1>9, <1>10 DEF Reads

LEMMA KeyValueKeeps ==
  ASSUME Typed, phase = "parsing", Reads, KeyValue
  PROVE  Reads'
<1>1. /\ rule = "value" /\ Look \in Value /\ ctx.key \notin DOMAIN ctx.tmpListKeys
      /\ Step("close") /\ at' = at + 1
      /\ saveIter' = saveIter /\ listEnd' = listEnd /\ keys' = Given(keys, ctx.key, Look)
  BY DEF KeyValue, Again
<1>2. /\ ctx'.path = ctx.path /\ ctx'.tmpListKeys = Given(ctx.tmpListKeys, ctx.key, Look)
      /\ ctx'.error = ctx.error
  BY KeyValueTyped DEF Reads
<1>3. Within
  BY <1>1 DEF Within
<1>4. /\ PathIsRead' /\ PathIsFollowed' /\ Level' = Level /\ Level <= Depth /\ Within'
      /\ rule' = "close" /\ line' = line
  BY <1>1, <1>2, <1>3, WithinKeeps
<1>5. at < Len(line) /\ line[at + 1] = Look
  BY <1>1, LooksAtKeys
<1>6. /\ KeysAreRead(Count) /\ at = saveIter + 4 * Count + 3 /\ DOMAIN keys \subseteq KeysOf[Level]
      /\ line[at - 1] = Open /\ line[at] = ctx.key /\ ctx.key \in KeysOf[Level]
  BY <1>1, <1>3 DEF Reads, NodeIsRead
<1>7. Count \in Nat /\ saveIter \in Nat /\ Len(line) \in Nat /\ ctx.key \in Key /\ keys \in SomeKeys
  BY <1>4, <1>6, LevelIs, LooksAt
<1>8. ctx.tmpListKeys = keys
  <2>1. ~Carried
    <3> SUFFICES ASSUME Carried PROVE FALSE
      OBVIOUS
    <3>1. Count = 0
      BY NoKeysAreEmpty DEF Carried, Count
    <3>2. at = saveIter + 3
      BY <1>6, <1>7, <3>1
    <3> QED
      BY <1>1, <1>6, <3>2 DEF Carried
  <2> QED
    BY <1>3, <2>1 DEF Reads, KeysAreRemembered
<1>9. /\ DOMAIN keys' = DOMAIN keys \cup {ctx.key}
      /\ keys'[ctx.key] = Look
      /\ \A k \in DOMAIN keys \ {ctx.key} : keys'[k] = keys[k]
  BY <1>1 DEF Given
<1>10. Count' = Count + 1
  <2>1. ctx.key \notin DOMAIN keys
    BY <1>1, <1>8
  <2> QED
    BY <1>1, <1>7, <2>1, GivenAddsAKey DEF Count
<1>11. NodeIsRead'
  <2>1. KeysAreAt(line, saveIter, keys', Count)
    <3>1. KeysAreAt(line, saveIter, keys, Count)
      BY <1>6 DEF KeysAreRead
    <3>2. saveIter + 4 * Count + 4 <= Len(line)
      BY <1>5, <1>6, <1>7
    <3>3. saveIter + 4 * Count + 2 = at - 1 /\ saveIter + 4 * Count + 3 = at
          /\ saveIter + 4 * Count + 4 = at + 1
      BY <1>6, <1>7
    <3>4. /\ line[saveIter + 4 * Count + 2] = Open /\ line[saveIter + 4 * Count + 3] = ctx.key
          /\ line[saveIter + 4 * Count + 4] = Look
      BY <1>5, <1>6, <3>3
    <3>5. ctx.key \notin DOMAIN keys
      BY <1>1, <1>8
    <3>6. Cardinality(DOMAIN keys') = Count + 1 /\ Count = Cardinality(DOMAIN keys)
      BY <1>10 DEF Count
    <3> QED
      BY <1>1, <1>7, <1>9, <3>1, <3>2, <3>4, <3>5, <3>6, OneMoreIsAt
  <2>2. KeysAreRead(Count - 1)'
    <3>1. Count' - 1 = Count
      BY <1>7, <1>10
    <3> QED
      BY <1>1, <1>4, <2>1, <3>1 DEF KeysAreRead
  <2>3. at' = saveIter' + 4 * Count' /\ Count' > 0
    BY <1>1, <1>6, <1>7, <1>10
  <2>4. DOMAIN keys' \subseteq KeysOf[Level']
    BY <1>4, <1>6, <1>9
  <2> QED
    BY <1>4, <2>2, <2>3, <2>4 DEF NodeIsRead
<1>12. KeysAreRemembered'
  BY <1>1, <1>2, <1>4, <1>8 DEF KeysAreRemembered
<1>13. NothingElse'
  <2>1. saveIter < at
    BY <1>6, <1>7
  <2>2. line[at] # Open /\ line[at + 1] # Name
    BY <1>1, <1>5, <1>6, <1>7, TokensDiffer
  <2>3. line[at] \in DOMAIN keys' /\ DOMAIN keys \subseteq DOMAIN keys'
    BY <1>6, <1>9
  <2> QED
    BY <1>1, <1>2, <1>3, <2>1, <2>2, <2>3, NothingElseWithin
<1> QED
  BY <1>4, <1>11, <1>12, <1>13 DEF Reads

LEMMA CloseKeyKeeps ==
  ASSUME Typed, Reads, CloseKey
  PROVE  Reads'
<1>1. /\ rule = "close" /\ Look = Close /\ Step("suffix") /\ at' = at + 1
      /\ saveIter' = saveIter /\ listEnd' = listEnd /\ keys' = keys /\ ctx' = ctx
  BY DEF CloseKey
<1>3. Within
  BY <1>1 DEF Within
<1>4. /\ PathIsRead' /\ PathIsFollowed' /\ Level' = Level /\ Level <= Depth /\ Within'
      /\ rule' = "suffix" /\ line' = line
  BY <1>1, <1>3, WithinKeeps
<1>5. at < Len(line) /\ line[at + 1] = Close
  BY <1>1, LooksAtKeys
<1>6. /\ KeysAreRead(Count - 1) /\ at = saveIter + 4 * Count /\ Count > 0
      /\ DOMAIN keys \subseteq KeysOf[Level]
  BY <1>1, <1>3 DEF Reads, NodeIsRead
<1>7. Count' = Count /\ Count \in Nat /\ saveIter \in Nat /\ keys \in SomeKeys
  BY <1>1, LevelIs, LooksAt DEF Count
<1>8. NodeIsRead'
  <2>1. KeysAreAt(line, saveIter, keys, Count)
    <3> DEFINE m == Count - 1
    <3>1. m \in Nat /\ m + 1 = Count /\ saveIter + 4 * (m + 1) + 1 = at + 1
      BY <1>6, <1>7
    <3>2. KeysAreAt(line, saveIter, keys, m)
      BY <1>6 DEF KeysAreRead
    <3> HIDE DEF m
    <3>3. line[saveIter + 4 * (m + 1) + 1] = Close
      BY <1>5, <3>1
    <3>4. KeysAreAt(line, saveIter, keys, m + 1)
      BY <3>1, <3>2, <3>3, OneMoreIsClosed
    <3> QED
      BY <3>1, <3>4
  <2>2. KeysAreRead(Count)'
    BY <1>1, <1>4, <1>7, <2>1 DEF KeysAreRead
  <2>3. at' = saveIter' + 4 * Count' + 1
    BY <1>1, <1>6, <1>7
  <2> QED
    BY <1>1, <1>4, <1>6, <2>2, <2>3 DEF NodeIsRead
<1>9. KeysAreRemembered'
  BY <1>1, <1>3, <1>4 DEF Reads, KeysAreRemembered, Carried
<1>10. NothingElse'
  <2>1. saveIter < at
    BY <1>6, <1>7
  <2>2. line[at] # Open
    <3>1. Count \in 1 .. Count
      BY <1>6, <1>7
    <3>2. line[saveIter + 4 * Count - 1] \in DOMAIN keys
          /\ line[saveIter + 4 * Count] = keys[line[saveIter + 4 * Count - 1]]
      BY <1>6, <3>1 DEF KeysAreRead, KeysAreAt, Count
    <3>3. line[at] \in Value
      BY <1>6, <1>7, <3>2, SomeKeysAre
    <3> QED
      BY <3>3, TokensDiffer
  <2> QED
    BY <1>1, <1>3, <1>5, <2>1, <2>2, NothingElseWithin, TokensDiffer
<1> QED
  BY <1>4, <1>8, <1>9, <1>10 DEF Reads

-----------------------------------------------------------------------------
(***************************************************************************)
(* What is behind the iterator: the steps to another node                  *)
(***************************************************************************)

\* The node that an acceptable path has where the parser is in one.
LEMMA NodeOfThePath ==
  ASSUME Typed, Reads, Within, NEW path \in WrittenPaths, Acceptable(path), NEW closed,
         KeysAreRead(closed), NEW s, s = Cardinality(DOMAIN path[Level])
  PROVE  /\ Level <= Len(path) /\ path[Level] \in SomeKeys /\ s \in Nat
         /\ IsNodeAt(line, saveIter, path[Level]) /\ saveIter + 4 * s < Len(line)
         /\ saveIter + 4 * s + 2 <= Len(line) => line[saveIter + 4 * s + 2] = Slash
         /\ \/ DOMAIN path[Level] = KeysOf[Level]
            \/ EndsInList(path) /\ Len(path) = Level /\ path[Level] = NoKeys
         /\ Count <= s
         /\ saveIter + 4 * Count + 2 <= Len(line) /\ line[saveIter + 4 * Count + 2] = Open =>
              Count < s
         /\ Count < s => line[saveIter + 4 * Count + 2] = Open
         /\ Count = s => keys = path[Level]
<1>1. /\ IsTextOf(line, path) /\ IsPrefix(ctx.path, path) /\ line \in Seq(Token)
      /\ Len(ctx.path) < Len(path)
  BY DEF Reads, PathIsFollowed, Acceptable, Writes, Typed, Types
<1>2. saveIter = Begins(ctx.path)[Len(ctx.path) + 1]
  BY DEF Reads, PathIsRead, Within
<1>3. ctx.path \in Seq(SomeKeys) /\ Level = Len(ctx.path) + 1 /\ Len(ctx.path) \in Nat
  BY LevelIs
<1>4. /\ IsNodeAt(line, saveIter, path[Level]) /\ path[Level] \in SomeKeys
      /\ saveIter + 4 * s + 2 <= Len(line) => line[saveIter + 4 * s + 2] = Slash
      /\ \/ DOMAIN path[Level] = KeysOf[Level]
         \/ EndsInList(path) /\ Len(path) = Level /\ path[Level] = NoKeys
  <2>1. PICK P : P = Len(ctx.path)
    OBVIOUS
  <2>2. Level = P + 1 /\ P < Len(path) /\ ctx.path \in Seq(SomeKeys) /\ IsPrefix(ctx.path, path)
        /\ saveIter = Begins(ctx.path)[Len(ctx.path) + 1]
    BY <1>1, <1>2, <1>3, <2>1
  <2>3. /\ IsNodeAt(line, saveIter, path[P + 1]) /\ path[P + 1] \in SomeKeys
        /\ saveIter + 4 * Cardinality(DOMAIN path[P + 1]) + 2 <= Len(line) =>
             line[saveIter + 4 * Cardinality(DOMAIN path[P + 1]) + 2] = Slash
        /\ \/ DOMAIN path[P + 1] = KeysOf[P + 1]
           \/ EndsInList(path) /\ Len(path) = P + 1 /\ path[P + 1] = NoKeys
    BY <1>1, <2>1, <2>2, TextGoesOn
  <2> QED
    BY <2>2, <2>3
<1>5. KeysAreAt(line, saveIter, keys, closed) /\ keys \in SomeKeys
      /\ Count = Cardinality(DOMAIN keys)
  BY LevelIs DEF KeysAreRead, Count
<1>6. saveIter \in Nat /\ Len(line) \in Nat
  BY LooksAt
<1>7. s \in Nat
  BY <1>4, SomeKeysAre
<1>8. saveIter + 4 * s < Len(line)
  BY <1>4 DEF IsNodeAt
<1>9. /\ Count <= s
      /\ saveIter + 4 * Count + 2 <= Len(line) /\ line[saveIter + 4 * Count + 2] = Open =>
           Count < s
      /\ Count < s => line[saveIter + 4 * Count + 2] = Open
      /\ Count = s => keys = path[Level]
  BY <1>4, <1>5, <1>6, NodeIsFollowed
<1>10. Level <= Len(path)
  <2>1. Len(path) \in Nat
    BY WrittenPathsAre
  <2> QED
    BY <1>1, <1>3, <2>1
<1> QED
  BY <1>4, <1>7, <1>8, <1>9, <1>10

\* Where no other key follows, the keys of the path's node were read.
LEMMA NodeOfThePathIsRead ==
  ASSUME Typed, Reads, rule = "suffix", Look # Open, NEW path \in WrittenPaths, Acceptable(path)
  PROVE  /\ keys = path[Level] /\ Level <= Len(path) /\ MayEnd(at)
         /\ \/ DOMAIN keys = KeysOf[Level]
            \/ EndsInList(path) /\ Len(path) = Level /\ keys = NoKeys
<1> DEFINE s == Cardinality(DOMAIN path[Level])
<1>1. KeysAreRead(Count) /\ at = saveIter + 4 * Count + 1
  BY DEF Reads, NodeIsRead, Within
<1>2. Within
  BY DEF Within
<1>3. s = Cardinality(DOMAIN path[Level])
  OBVIOUS
<1> HIDE DEF s
<1>4. /\ Level <= Len(path) /\ s \in Nat /\ saveIter + 4 * s < Len(line)
      /\ saveIter + 4 * s + 2 <= Len(line) => line[saveIter + 4 * s + 2] = Slash
      /\ \/ DOMAIN path[Level] = KeysOf[Level]
         \/ EndsInList(path) /\ Len(path) = Level /\ path[Level] = NoKeys
      /\ Count <= s
      /\ Count < s => line[saveIter + 4 * Count + 2] = Open
      /\ Count = s => keys = path[Level]
  BY <1>1, <1>2, <1>3, NodeOfThePath
<1>5. Count \in Nat /\ saveIter \in Nat /\ Len(line) \in Nat
  BY LevelIs, LooksAt
<1>6. ~(Count < s)
  <2> SUFFICES ASSUME Count < s PROVE FALSE
    OBVIOUS
  <2>1. line[saveIter + 4 * Count + 2] = Open
    BY <1>4
  <2>2. saveIter + 4 * s < Len(line) /\ s \in Nat
    BY <1>4
  <2>3. at + 1 = saveIter + 4 * Count + 2 /\ at < Len(line)
    BY <1>1, <1>5, <2>2
  <2>4. line[at + 1] = Open
    BY <2>1, <2>3
  <2> QED
    BY <2>3, <2>4 DEF Look
<1>7. Count = s
  BY <1>4, <1>5, <1>6
<1>8. MayEnd(at)
  <2>1. CASE at < Len(line)
    <3>1. line[at + 1] = Slash
      BY <1>1, <1>4, <1>5, <1>7, <2>1
    <3> QED
      BY <2>1, <3>1 DEF MayEnd
  <2>2. CASE ~(at < Len(line))
    BY <2>2 DEF MayEnd
  <2> QED
    BY <2>1, <2>2
<1> QED
  BY <1>4, <1>7, <1>8

LEMMA PushedPathIsRead ==
  ASSUME Typed, Reads, rule = "suffix", NEW assigned \in SomeKeys,
         DOMAIN assigned = KeysOf[Level] \/ (assigned = NoKeys /\ listEnd),
         IsNodeAt(line, saveIter, assigned), Step("after"),
         at' = saveIter + 4 * Cardinality(DOMAIN assigned) + 1, listEnd' = listEnd,
         ctx'.path = Append(ctx.path, assigned)
  PROVE  PathIsRead'
<1> DEFINE P == Len(ctx.path)
           begin == Begins(ctx.path)
           path == Append(ctx.path, assigned)
           after == Begins(path)
           size == Cardinality(DOMAIN assigned)
<1>0. rule' = "after" /\ line' = line /\ saveIter \in Nat /\ size \in Nat
  BY StepIs, LooksAt, SomeKeysAre
<1>1. /\ ctx.path \in Seq(SomeKeys) /\ P \in Nat /\ Level = P + 1 /\ Level <= Depth
  BY LevelIs DEF Reads, NodeIsRead, Within
<1>2. /\ path \in Seq(SomeKeys) /\ Len(path) = P + 1 /\ path[P + 1] = assigned
      /\ \A n \in 1 .. P : path[n] = ctx.path[n]
  BY <1>1, AppendProperties
<1>3. /\ \A n \in 1 .. P : /\ IsNodeAt(line, begin[n], ctx.path[n])
                           /\ DOMAIN ctx.path[n] = KeysOf[n]
      /\ \A n \in 1 .. P - 1 : line[begin[n + 1]] = Slash
      /\ saveIter = begin[P + 1] /\ (P > 0 => line[saveIter] = Slash)
  BY DEF Reads, PathIsRead
<1> HIDE DEF path, P, begin, after
<1>4. \A n \in 1 .. P + 1 : after[n] = begin[n]
  <2>1. P <= Len(path) /\ P <= Len(ctx.path)
    BY <1>1, <1>2 DEF P
  <2> QED
    BY <1>1, <1>2, <2>1, BeginsAgree DEF after, begin
<1>5. after[P + 1] = saveIter /\ after[P + 2] = saveIter + 4 * size + 2
  <2> DEFINE n == P + 1
  <2>1. n \in 1 .. Len(path) /\ n + 1 = P + 2 /\ n \in 1 .. P + 1 /\ n = P + 1
    BY <1>1, <1>2
  <2> HIDE DEF n
  <2>2. after[n + 1] = after[n] + 4 * Cardinality(DOMAIN path[n]) + 2
    BY <1>2, <2>1, BeginsAre DEF after
  <2>3. after[n] = saveIter /\ path[n] = assigned
    BY <1>2, <1>3, <1>4, <2>1
  <2> QED
    BY <2>1, <2>2, <2>3
<1>6. ASSUME NEW n \in 1 .. P + 1
      PROVE  /\ IsNodeAt(line, after[n], path[n])
             /\ DOMAIN path[n] = KeysOf[n] \/ (n = P + 1 /\ path[n] = NoKeys /\ listEnd)
  <2>1. CASE n = P + 1
    BY <1>1, <1>2, <1>5, <2>1
  <2>2. CASE n # P + 1
    <3>1. n \in 1 .. P
      BY <1>1, <2>2
    <3> QED
      BY <1>2, <1>3, <1>4, <3>1
  <2> QED
    BY <2>1, <2>2
<1>7. ASSUME NEW n \in 1 .. P
      PROVE  line[after[n + 1]] = Slash
  <2>0. n + 1 \in 1 .. P + 1
    BY <1>1
  <2>1. after[n + 1] = begin[n + 1]
    BY <1>4, <2>0
  <2>2. CASE n = P
    <3>1. P > 0 /\ n + 1 = P + 1
      BY <1>1, <2>2
    <3> QED
      BY <1>3, <2>1, <3>1
  <2>3. CASE n # P
    <3>1. n \in 1 .. P - 1
      BY <1>1, <2>3
    <3> QED
      BY <1>3, <2>1, <3>1
  <2> QED
    BY <2>2, <2>3
<1>8. P + 1 <= Depth /\ (P + 1) - 1 = P /\ (P + 1) + 1 = P + 2 /\ P + 1 > 0
      /\ at' = after[P + 2] - 1
  BY <1>0, <1>1, <1>5
<1>9. ctx'.path = path
  BY DEF path
<1> QED
  BY <1>0, <1>2, <1>6, <1>7, <1>8, <1>9 DEF PathIsRead, after

LEMMA PushedNothingElse ==
  ASSUME Typed, Reads, rule = "suffix", line[saveIter + 1] = Name, Step("after"),
         NEW assigned \in SomeKeys, ctx'.path = Append(ctx.path, assigned),
         parserMode = "DataPath" => at' = at /\ ctx'.error = "none"
  PROVE  NothingElse'
<1>1. rule' = "after" /\ line' = line /\ parserMode' = parserMode /\ ~Within'
  BY StepIs DEF Within
<1> SUFFICES ASSUME parserMode = "DataPath"
             PROVE  NothingElse'
  BY <1>1 DEF NothingElse
<1> DEFINE S == {n \in 1 .. saveIter : line[n] = Name}
           T == {n \in 1 .. at : line[n] = Name}
<1>2. /\ seen <= at + 1 /\ Cardinality(S) = Len(ctx.path)
      /\ \A n \in saveIter + 2 .. at : line[n] # Name
  BY DEF Reads, NothingElse, Within
<1>3. at = saveIter + 4 * Count + 1 /\ Count \in Nat /\ saveIter \in Nat /\ at \in Nat
  BY LevelIs, LooksAt DEF Reads, NodeIsRead, Within
<1>4. T = S \cup {saveIter + 1}
  <2>1. T \subseteq S \cup {saveIter + 1}
    <3> SUFFICES ASSUME NEW n \in T PROVE n \in S \cup {saveIter + 1}
      OBVIOUS
    <3>1. n \in 1 .. at /\ line[n] = Name
      OBVIOUS
    <3>2. n \notin saveIter + 2 .. at
      BY <1>2, <3>1
    <3>3. n \in 1 .. saveIter \/ n = saveIter + 1
      BY <1>3, <3>1, <3>2
    <3> QED
      BY <3>1, <3>3
  <2>2. S \subseteq T /\ saveIter + 1 \in T
    BY <1>3
  <2> QED
    BY <2>1, <2>2
<1>5. IsFiniteSet(S)
  <2>1. IsFiniteSet(1 .. saveIter)
    BY <1>3, FS_Interval
  <2>2. S \in SUBSET (1 .. saveIter)
    OBVIOUS
  <2> HIDE DEF S
  <2> QED
    BY <2>1, <2>2, FS_Subset
<1>6. saveIter + 1 \notin S
  BY <1>3
<1> HIDE DEF S
<1>7. Cardinality(T) = Len(ctx.path) + 1
  BY <1>2, <1>4, <1>5, <1>6, FS_AddElement
<1>8. Len(ctx'.path) = Len(ctx.path) + 1
  BY LevelIs, AppendProperties
<1>9. seen' <= at' + 1
  BY <1>2, SeenNext
<1> QED
  BY <1>1, <1>7, <1>8, <1>9 DEF NothingElse

LEMMA PushKeeps ==
  ASSUME Typed, Reads, rule = "suffix", NEW assigned \in SomeKeys,
         DOMAIN assigned = KeysOf[Level] \/ (assigned = NoKeys /\ listEnd),
         IsNodeAt(line, saveIter, assigned), Step("after"),
         at' = saveIter + 4 * Cardinality(DOMAIN assigned) + 1, listEnd' = listEnd,
         ctx'.path = Append(ctx.path, assigned), ctx'.tmpListKeys = NoKeys,
         parserMode = "DataPath" => at' = at /\ ctx'.error = "none",
         \A path \in WrittenPaths : Acceptable(path) => path[Level] = assigned
  PROVE  Reads'
<1>1. rule' = "after" /\ line' = line /\ parserMode' = parserMode /\ ~Within'
  BY StepIs DEF Within
<1>2. PathIsRead'
  BY PushedPathIsRead
<1>3. NodeIsRead'
  BY <1>1 DEF NodeIsRead
<1>4. KeysAreRemembered'
  BY <1>1 DEF KeysAreRemembered
<1>5. NothingElse'
  <2>1. line[saveIter + 1] = Name
    BY DEF IsNodeAt
  <2> QED
    BY <2>1, PushedNothingElse
<1>6. PathIsFollowed'
  <2>1. ASSUME NEW path \in WrittenPaths, Acceptable(path)
        PROVE  /\ IsPrefix(ctx'.path, path)
               /\ listEnd => EndsInList(path) /\ Len(path) = Len(ctx'.path)
    <3>1. /\ IsPrefix(ctx.path, path) /\ Len(ctx.path) < Len(path) /\ path[Level] = assigned
          /\ listEnd => EndsInList(path) /\ Len(path) = Len(ctx.path) + 1
      BY <2>1 DEF Reads, PathIsFollowed, Within
    <3>2. ctx.path \in Seq(SomeKeys) /\ Len(ctx.path) \in Nat /\ Level = Len(ctx.path) + 1
      BY LevelIs
    <3>3. path \in Seq(SomeKeys) /\ Len(path) \in Nat
      BY WrittenPathsAre
    <3>4. \A n \in 1 .. Len(ctx.path) : ctx.path[n] = path[n]
      BY <3>1, <3>2, <3>3, PrefixIs
    <3>5. /\ ctx'.path \in Seq(SomeKeys) /\ Len(ctx'.path) = Len(ctx.path) + 1
          /\ \A n \in 1 .. Len(ctx.path) : ctx'.path[n] = ctx.path[n]
          /\ ctx'.path[Level] = assigned
      BY <3>2, AppendProperties
    <3>6. \A n \in 1 .. Len(ctx'.path) : ctx'.path[n] = path[n]
      <4> TAKE n \in 1 .. Len(ctx'.path)
      <4>1. n \in 1 .. Len(ctx.path) \/ n = Level
        BY <3>2, <3>5
      <4> QED
        BY <3>1, <3>4, <3>5, <4>1
    <3>7. IsPrefix(ctx'.path, path)
      <4>1. Len(ctx'.path) <= Len(path)
        BY <3>1, <3>2, <3>3, <3>5
      <4> QED
        BY <3>3, <3>5, <3>6, <4>1, PrefixIs
    <3> QED
      BY <3>1, <3>5, <3>7
  <2>2. \A path \in WrittenPaths : Acceptable(path)' = Acceptable(path)
    BY <1>1 DEF Acceptable, Writes
  <2> QED
    BY <1>1, <2>1, <2>2 DEF PathIsFollowed
<1> QED
  BY <1>2, <1>3, <1>4, <1>5, <1>6 DEF Reads

LEMMA NodeFailsIs ==
  ASSUME Typed, NEW c, NodeFails(c)
  PROVE  /\ at' = saveIter /\ saveIter' = saveIter /\ keys' = NoKeys /\ ctx' = c
         /\ line' = line /\ parserMode' = parserMode
         /\ \/ /\ phase' = "parsing" /\ rule' = "node" /\ listEnd' = TRUE
               /\ parserMode = "DataPathListEnd" /\ ~listEnd
            \/ /\ phase' = "parsed" /\ listEnd' = listEnd
               /\ IF saveIter < Len(line)
                  THEN rule' = "refused" /\ (listEnd \/ parserMode # "DataPathListEnd")
                  ELSE rule' = "accepted"
<1>1. (IF saveIter < Len(line) THEN line[saveIter + 1] ELSE End) = End <=> ~(saveIter < Len(line))
  <2>1. saveIter < Len(line) => line[saveIter + 1] \in Token
    BY LooksAt DEF Typed, Types
  <2> QED
    BY <2>1, TokensDiffer
<1>2. listEnd \in BOOLEAN
  BY DEF Typed, Types
<1> QED
  BY <1>1, <1>2, Zenon DEF NodeFails, Ends, Goes, Step, user

\* A list allowed at the end: the node is tried once more.
LEMMA RetryKeeps ==
  ASSUME Typed, Reads, rule \in {"node", "suffix"}, NEW c, NodeFails(c), phase' = "parsing",
         c.path = ctx.path,
         \/ c.tmpListKeys = NoKeys
         \/ /\ saveIter + 4 <= Len(line) /\ line[saveIter + 2] = Open
            /\ line[saveIter + 3] \in DOMAIN c.tmpListKeys,
         \A path \in WrittenPaths :
           Acceptable(path) => EndsInList(path) /\ Len(path) = Len(ctx.path) + 1
  PROVE  Reads'
<1>1. /\ at' = saveIter /\ saveIter' = saveIter /\ keys' = NoKeys /\ ctx' = c
      /\ line' = line /\ parserMode' = parserMode
      /\ rule' = "node" /\ listEnd' = TRUE /\ parserMode = "DataPathListEnd"
  BY NodeFailsIs
<1>2. PathIsRead'
  BY <1>1, PathStays DEF Reads
<1>3. NodeIsRead'
  BY <1>1 DEF NodeIsRead, Within
<1>4. KeysAreRemembered'
  BY <1>1 DEF KeysAreRemembered, Carried, Within
<1>5. NothingElse'
  BY <1>1 DEF NothingElse
<1>6. PathIsFollowed'
  <2>1. \A path \in WrittenPaths : Acceptable(path)' = Acceptable(path)
    BY <1>1 DEF Acceptable, Writes
  <2>2. ~Within' /\ rule' # "after" /\ ctx'.path = ctx.path
    BY <1>1 DEF Within
  <2> QED
    BY <2>1, <2>2 DEF PathIsFollowed, Reads
<1> QED
  BY <1>2, <1>3, <1>4, <1>5, <1>6 DEF Reads

\* Where a node does not parse, there is none in an acceptable path.
LEMMA NoNodeOfThePath ==
  ASSUME Typed, Reads, rule = "node", ~(Look = Name /\ Level <= Depth), Look # End,
         NEW path \in WrittenPaths
  PROVE  ~Acceptable(path)
<1> SUFFICES ASSUME Acceptable(path) PROVE FALSE
  OBVIOUS
<1> DEFINE P == Len(ctx.path)
           begin == Begins(ctx.path)[P + 1]
<1>1. IsTextOf(line, path) /\ IsPrefix(ctx.path, path) /\ line \in Seq(Token)
  BY DEF Reads, PathIsFollowed, Acceptable, Writes, Typed, Types
<1>2. saveIter = begin /\ at = saveIter
  BY DEF Reads, PathIsRead
<1>3. /\ ctx.path \in Seq(SomeKeys) /\ P \in Nat /\ Level = P + 1 /\ Len(path) \in Nat
  BY LevelIs, WrittenPathsAre
<1>4. at < Len(line) /\ Look = line[at + 1] /\ at \in Nat /\ Len(line) \in Nat
  BY LooksAt
<1>5. CASE P < Len(path)
  <2>1. IsNodeAt(line, begin, path[P + 1]) /\ P + 1 <= Depth
    BY <1>1, <1>3, <1>5, TextGoesOn
  <2>2. line[begin + 1] = Name
    BY <2>1 DEF IsNodeAt
  <2> QED
    BY <1>2, <1>3, <1>4, <2>1, <2>2
<1>6. CASE P >= Len(path)
  <2>1. Len(line) \in {begin - 1, begin}
    BY <1>1, <1>3, <1>6, TextGoesOn
  <2> QED
    BY <1>2, <1>4, <2>1
<1> QED
  BY <1>3, <1>5, <1>6

LEMMA NodeRetryKeeps ==
  ASSUME Typed, Reads, Node, ~(Look = Name /\ Level <= Depth), phase' = "parsing"
  PROVE  Reads'
<1> DEFINE c == Suggest(ctx, at, IF Level <= Depth THEN {[value |-> <<Name>>, more |-> <<Open>>]} ELSE {})
<1>1. NodeFails(c) /\ rule = "node"
  BY DEF Node
<1>2. c.path = ctx.path /\ c.tmpListKeys = ctx.tmpListKeys
  BY DEF Suggest, Typed, Types, Context
<1> HIDE DEF c
<1>3. ~listEnd /\ saveIter < Len(line)
  <2>1. ~listEnd
    BY <1>1, NodeFailsIs
  <2>2. (IF saveIter < Len(line) THEN line[saveIter + 1] ELSE End) # End
    BY <1>1 DEF NodeFails, Ends
  <2> QED
    BY <2>1, <2>2
<1>4. Look # End
  <2>1. at = saveIter
    BY <1>1 DEF Reads, PathIsRead
  <2>2. Look \in Token
    BY <1>3, <2>1, LooksAt DEF Look
  <2> QED
    BY <2>2, TokensDiffer
<1>5. c.tmpListKeys = NoKeys
  BY <1>1, <1>2, <1>3 DEF Reads, KeysAreRemembered, Carried, Within
<1>6. \A path \in WrittenPaths : ~Acceptable(path)
  BY <1>1, <1>4, NoNodeOfThePath
<1> QED
  BY <1>1, <1>2, <1>5, <1>6, RetryKeeps

LEMMA SuffixSucceedsKeepsReads ==
  ASSUME Typed, Reads, SuffixSucceeds, phase' = "parsing"
  PROVE  Reads'
<1> DEFINE c == [ctx EXCEPT !.tmpListKeys = NoKeys]
<1>1. /\ c \in Context /\ c.tmpListKeys = NoKeys /\ c.path = ctx.path /\ c.error = ctx.error
  BY NoKeysAreEmpty DEF Typed, Types, Context
<1>2. NodeEnds(c, at, keys) /\ rule = "suffix" /\ Look # Open /\ DOMAIN keys = KeysOf[Level]
  BY DEF SuffixSucceeds
<1> HIDE DEF c
<1>3. \A path \in WrittenPaths : Acceptable(path) => keys = path[Level] /\ MayEnd(at)
  BY <1>2, NodeOfThePathIsRead
<1>4. CASE MayEnd(at)
  <2>1. /\ Step("after") /\ at' = at /\ ctx' = PushPathFragment(c, keys) /\ listEnd' = listEnd
    BY <1>2, <1>4, NodeEndsIs
  <2>2. keys \in SomeKeys
    BY LevelIs
  <2>3. /\ ctx'.path = Append(ctx.path, keys) /\ ctx'.tmpListKeys = NoKeys
        /\ ctx'.error = ctx.error
    BY <1>1, <2>1, <2>2, PushedIs
  <2>4. KeysAreRead(Count) /\ at = saveIter + 4 * Count + 1
    BY <1>2 DEF Reads, NodeIsRead, Within
  <2>5. IsNodeAt(line, saveIter, keys)
    <3>1. saveIter + 4 * Count < Len(line) /\ saveIter \in Nat /\ Len(line) \in Nat
      BY <2>4, LooksAt, LevelIs
    <3> QED
      BY <2>2, <2>4, <3>1, AllAreANode DEF KeysAreRead, Count
  <2>6. at' = saveIter + 4 * Cardinality(DOMAIN keys) + 1
    BY <2>1, <2>4 DEF Count
  <2>7. parserMode = "DataPath" => at' = at /\ ctx'.error = "none"
    BY <2>1, <2>3 DEF Reads, NothingElse
  <2> QED
    BY <1>2, <1>3, <2>1, <2>2, <2>3, <2>5, <2>6, <2>7, PushKeeps
<1>5. CASE ~MayEnd(at)
  <2>1. NodeFails(c)
    BY <1>2, <1>5, NodeEndsIs
  <2> QED
    BY <1>1, <1>2, <1>3, <1>5, <2>1, RetryKeeps
<1> QED
  BY <1>4, <1>5

LEMMA SuffixFailsKeepsReads ==
  ASSUME Typed, Reads, SuffixFails, phase' = "parsing"
  PROVE  Reads'
<1> DEFINE c == [ctx EXCEPT !.error = "not enough"]
<1>1. /\ c \in Context /\ c.tmpListKeys = ctx.tmpListKeys /\ c.path = ctx.path
  BY DEF Typed, Types, Context, Messages
<1>2. /\ rule = "suffix" /\ Look # Open /\ DOMAIN keys # KeysOf[Level]
      /\ IF listEnd THEN NodeEnds(c, saveIter + 1, NoKeys) ELSE NodeFails(c)
  BY DEF SuffixFails
<1> HIDE DEF c
<1>3. \A path \in WrittenPaths : Acceptable(path) =>
         EndsInList(path) /\ Len(path) = Level /\ keys = NoKeys /\ keys = path[Level] /\ MayEnd(at)
  BY <1>2, NodeOfThePathIsRead
<1>4. /\ KeysAreRead(Count) /\ at = saveIter + 4 * Count + 1 /\ Count \in Nat
      /\ saveIter \in Nat /\ Len(line) \in Nat /\ at <= Len(line) /\ Level = Len(ctx.path) + 1
  BY <1>2, LevelIs, LooksAt DEF Reads, NodeIsRead, Within
<1>5. CASE listEnd /\ MayEnd(saveIter + 1)
  <2>1. /\ Step("after") /\ at' = saveIter + 1 /\ ctx' = PushPathFragment(c, NoKeys)
        /\ listEnd' = listEnd
    BY <1>2, <1>5, NodeEndsIs
  <2>2. NoKeys \in SomeKeys /\ Cardinality(DOMAIN NoKeys) = 0
    BY NoKeysAreEmpty
  <2>3. keys = NoKeys /\ ctx.tmpListKeys = NoKeys
    BY <1>2, <1>5, ListItself DEF Reads
  <2>4. ctx'.path = Append(ctx.path, NoKeys) /\ ctx'.tmpListKeys = NoKeys
    <3>1. /\ PushPathFragment(c, NoKeys).path = Append(c.path, NoKeys)
          /\ PushPathFragment(c, NoKeys).tmpListKeys = c.tmpListKeys
      BY <1>1, <2>2, PushedIs
    <3> QED
      BY <1>1, <2>1, <2>3, <3>1
  <2>5. IsNodeAt(line, saveIter, NoKeys)
    <3>1. KeysAreAt(line, saveIter, NoKeys, Cardinality(DOMAIN NoKeys))
      BY <1>4, <2>3 DEF KeysAreRead, Count
    <3>2. saveIter + 4 * Cardinality(DOMAIN NoKeys) < Len(line)
      BY <1>4, <2>2
    <3> QED
      BY <1>4, <2>2, <3>1, <3>2, AllAreANode
  <2>6. at' = saveIter + 4 * Cardinality(DOMAIN NoKeys) + 1
    BY <1>4, <2>1, <2>2
  <2>7. parserMode # "DataPath"
    BY <1>5 DEF Typed, Types
  <2>8. \A path \in WrittenPaths : Acceptable(path) => path[Level] = NoKeys
    BY <1>3
  <2> QED
    BY <1>2, <1>5, <2>1, <2>2, <2>4, <2>5, <2>6, <2>7, <2>8, PushKeeps
<1>6. CASE ~(listEnd /\ MayEnd(saveIter + 1))
  <2>1. NodeFails(c)
    BY <1>2, <1>6, NodeEndsIs
  <2>2. ~listEnd
    BY <2>1, NodeFailsIs
  <2>3. ctx.tmpListKeys = keys
    BY <1>2, <2>2 DEF Reads, KeysAreRemembered, Within, Carried
  <2>4. \/ c.tmpListKeys = NoKeys
        \/ /\ saveIter + 4 <= Len(line) /\ line[saveIter + 2] = Open
           /\ line[saveIter + 3] \in DOMAIN c.tmpListKeys
    <3>1. CASE Count = 0
      BY <1>1, <2>3, <3>1, LevelIs, NoKeysAreEmpty DEF Count
    <3>2. CASE Count # 0
      <4>1. 1 \in 1 .. Count /\ saveIter + 4 * 1 - 2 = saveIter + 2
            /\ saveIter + 4 * 1 - 1 = saveIter + 3 /\ saveIter + 4 <= Len(line)
        BY <1>4, <3>2
      <4>2. line[saveIter + 4 * 1 - 2] = Open /\ line[saveIter + 4 * 1 - 1] \in DOMAIN keys
        BY <1>4, <4>1 DEF KeysAreRead, KeysAreAt, Count
      <4> QED
        BY <1>1, <2>3, <4>1, <4>2
    <3> QED
      BY <3>1, <3>2
  <2>5. \A path \in WrittenPaths :
          Acceptable(path) => EndsInList(path) /\ Len(path) = Len(ctx.path) + 1
    BY <1>3, <1>4
  <2> QED
    BY <1>1, <1>2, <2>1, <2>4, <2>5, RetryKeeps
<1> QED
  BY <1>5, <1>6

LEMMA NodeGoesOnKeeps ==
  ASSUME Typed, Reads, NodeGoesOn
  PROVE  Reads'
<1> DEFINE P == Len(ctx.path)
           begin == Begins(ctx.path)
<1>1. /\ rule = "after" /\ Look = Slash /\ ~listEnd /\ Step("node") /\ at' = at + 1
      /\ saveIter' = at + 1 /\ listEnd' = listEnd /\ keys' = keys /\ ctx' = ctx
  BY DEF NodeGoesOn
<1>2. rule' = "node" /\ line' = line /\ parserMode' = parserMode /\ ~Within' /\ ~Within
  BY <1>1, StepIs DEF Within
<1>3. at < Len(line) /\ line[at + 1] = Slash /\ at \in Nat
  BY <1>1, LooksAtKeys, LooksAt
<1>4. PathIsRead'
  <2>1. P > 0 /\ at = begin[P + 1] - 1 /\ begin[P + 1] \in Nat
    <3>1. ctx.path \in Seq(SomeKeys) /\ P \in Nat
      BY LevelIs
    <3>2. P + 1 \in 1 .. P + 1
      BY <3>1
    <3> QED
      BY <1>1, <3>1, <3>2, BeginsAre DEF Reads, PathIsRead
  <2>2. saveIter' = begin[P + 1] /\ line[saveIter'] = Slash /\ at' = saveIter'
    BY <1>1, <1>3, <2>1
  <2>3. /\ P <= Depth
        /\ \A n \in 1 .. P : IsNodeAt(line, begin[n], ctx.path[n]) /\ DOMAIN ctx.path[n] = KeysOf[n]
        /\ \A n \in 1 .. P - 1 : line[begin[n + 1]] = Slash
    BY <1>1 DEF Reads, PathIsRead
  <2> HIDE DEF P, begin
  <2>4. ctx' = ctx
    BY <1>1
  <2> QED
    BY <1>2, <2>2, <2>3, <2>4 DEF PathIsRead, P, begin
<1>5. NodeIsRead'
  BY <1>2 DEF NodeIsRead
<1>6. KeysAreRemembered'
  BY <1>1, <1>2 DEF Reads, KeysAreRemembered
<1>7. NothingElse'
  <2> SUFFICES ASSUME parserMode = "DataPath"
               PROVE  NothingElse'
    BY <1>2 DEF NothingElse
  <2> DEFINE S == {n \in 1 .. at : line[n] = Name}
             T == {n \in 1 .. at + 1 : line[n] = Name}
  <2>1. ctx.error = "none" /\ seen <= at + 1 /\ Cardinality(S) = Len(ctx.path)
    BY <1>1 DEF Reads, NothingElse
  <2>2. S = T
    <3>1. \A n \in 1 .. at + 1 : n \in 1 .. at \/ n = at + 1
      BY <1>3
    <3>2. 1 .. at \subseteq 1 .. at + 1
      BY <1>3
    <3> QED
      BY <1>3, <3>1, <3>2, TokensDiffer
  <2>3. seen' <= at' + 1
    BY <1>1, <2>1, SeenNext
  <2>4. Cardinality({n \in 1 .. (IF rule' = "after" THEN at' ELSE saveIter') : line'[n] = Name})
          = Len(ctx'.path)
    BY <1>1, <1>2, <2>1, <2>2
  <2> QED
    BY <1>1, <1>2, <2>1, <2>3, <2>4 DEF NothingElse
<1>8. PathIsFollowed'
  <2>1. \A path \in WrittenPaths : Acceptable(path)' = Acceptable(path)
    BY <1>2 DEF Acceptable, Writes
  <2> QED
    BY <1>1, <1>2, <2>1 DEF PathIsFollowed, Reads
<1> QED
  BY <1>4, <1>5, <1>6, <1>7, <1>8 DEF Reads

LEMMA PressKeeps ==
  ASSUME Typed, NEW tab \in BOOLEAN, Press(tab)
  PROVE  Reads'
<1>1. /\ line' = line /\ parserMode' = parserMode
      /\ rule' = "node" /\ at' = 0 /\ seen' = 0 /\ saveIter' = 0 /\ listEnd' = FALSE
      /\ keys' = NoKeys /\ ctx' = NewContext
  BY DEF Press, NewParser, user
<1>2. /\ ctx'.path = << >> /\ ctx'.tmpListKeys = NoKeys /\ ctx'.error = "none"
      /\ Len(ctx'.path) = 0 /\ ctx'.path \in Seq(SomeKeys)
  BY <1>1, NewContextIs, EmptySeq
<1>3. ~Within'
  BY <1>1 DEF Within
<1>4. PathIsRead'
  <2>1. Begins(ctx'.path)[1] = 0
    BY <1>2, BeginsAre
  <2> QED
    BY <1>1, <1>2, <2>1, ListsHaveKeys DEF PathIsRead
<1>5. NodeIsRead' /\ KeysAreRemembered'
  BY <1>1, <1>2, <1>3 DEF NodeIsRead, KeysAreRemembered
<1>6. NothingElse'
  <2>1. {n \in 1 .. 0 : line'[n] = Name} = {}
    OBVIOUS
  <2> QED
    BY <1>1, <1>2, <1>3, <2>1, FS_EmptySet DEF NothingElse
<1>7. PathIsFollowed'
  <2>1. ASSUME NEW path \in WrittenPaths
        PROVE  IsPrefix(ctx'.path, path)
    <3>1. path \in Seq(SomeKeys) /\ Len(path) \in Nat
      BY WrittenPathsAre
    <3>2. SubSeq(<< >>, 1, 0) = << >> /\ SubSeq(path, 1, 0) = << >> /\ Len(<< >>) = 0
      BY SubSeqEmpty
    <3>3. IsPrefix(<< >>, path)
      BY <3>1, <3>2 DEF IsPrefix
    <3> QED
      BY <1>2, <3>3
  <2> QED
    BY <1>1, <1>3, <2>1 DEF PathIsFollowed
<1> QED
  BY <1>4, <1>5, <1>6, <1>7 DEF Reads

LEMMA ParsingKept ==
  ASSUME Typed, Parsing, [Next]_vars
  PROVE  Typed' /\ Parsing'
<1> USE DEF Parsing
<1>1. CASE UNCHANGED vars
  <2>1. Typed'
    BY <1>1 DEF vars, user, parser, Typed, Types, TypeOK, OffersAreLonger, Level
  <2>2. Reads' = Reads /\ phase' = phase
    BY <1>1 DEF vars, user, parser, Reads, PathIsRead, NodeIsRead, KeysAreRead, Count, Level,
                Carried, KeysAreRemembered, NothingElse, PathIsFollowed, Acceptable, Writes, Within
  <2> QED
    BY <2>1, <2>2
<1>2. ASSUME NEW tab \in BOOLEAN, Press(tab)
      PROVE  Typed' /\ Parsing'
  BY <1>2, PressKeeps, UserTyped
<1>3. ASSUME NEW token \in Token, Type(token)
      PROVE  Typed' /\ Parsing'
  BY <1>3, UserTyped DEF Type
<1>4. ASSUME NEW completed \in offered, Take(completed)
      PROVE  Typed' /\ Parsing'
  BY <1>4, UserTyped DEF Take
<1>5. ASSUME Parses
      PROVE  Typed' /\ Parsing'
  <2>0. phase = "parsing" /\ Reads /\ NodeIsRead /\ KeysAreRemembered
    BY <1>5 DEF Parses, Node, NodeFails, OpenKey, KeyName, NoKeyName, KeyValue, KeyAgain,
                NoKeyValue, CloseKey, NoCloseKey, SuffixSucceeds, SuffixFails, NodeEnds,
                NodeGoesOn, PathEnds, Throws, Step, Reads
  <2>1. CASE Node
    BY <2>0, <2>1, NodeTyped, NodeKeeps, NodeRetryKeeps
  <2>2. CASE OpenKey
    BY <2>0, <2>2, OpenKeyTyped, OpenKeyKeeps
  <2>3. CASE KeyName
    BY <2>0, <2>3, KeyNameTyped, KeyNameKeeps
  <2>4. CASE NoKeyName
    <3>1. PICK message \in Messages : Throws(message)
      <4>1. ctx.error \in Messages
        BY LevelIs
      <4> QED
        BY <2>4, <4>1 DEF NoKeyName, Messages
    <3>2. phase' = "parsed"
      BY <3>1 DEF Throws, Ends
    <3> QED
      BY <2>0, <3>1, <3>2, ThrowsTyped
  <2>5. CASE KeyValue
    BY <2>0, <2>5, KeyValueTyped, KeyValueKeeps
  <2>6. CASE KeyAgain
    <3>1. PICK message \in Messages : Throws(message)
      BY <2>6 DEF KeyAgain, Messages
    <3>2. phase' = "parsed"
      BY <3>1 DEF Throws, Ends
    <3> QED
      BY <2>0, <3>1, <3>2, ThrowsTyped
  <2>7. CASE NoKeyValue
    <3>1. PICK message \in Messages : Throws(message)
      BY <2>7 DEF NoKeyValue, Messages
    <3>2. phase' = "parsed"
      BY <3>1 DEF Throws, Ends
    <3> QED
      BY <2>0, <3>1, <3>2, ThrowsTyped
  <2>8. CASE CloseKey
    BY <2>0, <2>8, CloseKeyTyped, CloseKeyKeeps
  <2>9. CASE NoCloseKey
    <3>1. PICK message \in Messages : Throws(message)
      <4>1. ctx.error \in Messages
        BY LevelIs
      <4> QED
        BY <2>9, <4>1 DEF NoCloseKey, Messages
    <3>2. phase' = "parsed"
      BY <3>1 DEF Throws, Ends
    <3> QED
      BY <2>0, <3>1, <3>2, ThrowsTyped
  <2>10. CASE SuffixSucceeds
    BY <2>0, <2>10, SuffixSucceedsTyped, SuffixSucceedsKeepsReads
  <2>11. CASE SuffixFails
    BY <2>0, <2>11, SuffixFailsTyped, SuffixFailsKeepsReads
  <2>12. CASE NodeGoesOn
    BY <2>0, <2>12, NodeGoesOnTyped, NodeGoesOnKeeps
  <2>13. CASE PathEnds
    <3>1. phase' = "parsed"
      BY <2>13 DEF PathEnds, Ends
    <3> QED
      BY <2>0, <2>13, <3>1, PathEndsTyped
  <2> QED
    BY <1>5, <2>1, <2>2, <2>3, <2>4, <2>5, <2>6, <2>7, <2>8, <2>9, <2>10, <2>11, <2>12, <2>13
       DEF Parses
<1> QED
  BY <1>1, <1>2, <1>3, <1>4, <1>5 DEF Next

-----------------------------------------------------------------------------
(***************************************************************************)
(* The end of the parse: what is accepted, and what is refused             *)
(***************************************************************************)
LEMMA WhatIsRefused ==
  ASSUME Typed, line' = line, parserMode' = parserMode, rule' = "refused",
         \A path \in WrittenPaths : ~Acceptable(path)
  PROVE  ReadsWhatIsWritten'
<1>1. parserMode \in {"DataPath", "DataPathListEnd"}
  BY DEF Typed, Types
<1>2. ASSUME NEW path \in WrittenPaths, Writes(path)
      PROVE  EndsInList(path) /\ parserMode = "DataPath"
  BY <1>1, <1>2 DEF Acceptable
<1>3. ASSUME NEW path \in WrittenPaths
      PROVE  Writes(path)' = Writes(path)
  BY DEF Writes
<1> QED
  BY <1>2, <1>3 DEF ReadsWhatIsWritten

LEMMA WhatIsAccepted ==
  ASSUME Typed, Reads, rule \in {"node", "after"},
         line' = line, parserMode' = parserMode, rule' = "accepted", ctx'.path = ctx.path,
         rule = "node" => saveIter = Len(line),
         rule = "after" => \/ Len(line) = at
                           \/ Len(line) = at + 1 /\ line[at + 1] = Slash
  PROVE  ReadsWhatIsWritten'
<1> DEFINE P == Len(ctx.path)
           begin == Begins(ctx.path)
<1>1. /\ ctx.path \in Seq(SomeKeys) /\ P \in Nat /\ Len(line) \in Nat /\ at \in Nat
      /\ DOMAIN ctx.path = 1 .. P
  BY LevelIs, LooksAt
<1>2. begin[P + 1] \in Nat
  <2>1. P + 1 \in 1 .. P + 1
    BY <1>1
  <2> QED
    BY <1>1, <2>1, BeginsAre
<1>3. /\ P <= Depth
      /\ \A n \in 1 .. P :
           /\ IsNodeAt(line, begin[n], ctx.path[n])
           /\ DOMAIN ctx.path[n] = KeysOf[n] \/ (n = P /\ ctx.path[n] = NoKeys /\ listEnd)
      /\ \A n \in 1 .. P - 1 : line[begin[n + 1]] = Slash
      /\ rule = "after" => P > 0 /\ at = begin[P + 1] - 1
      /\ rule = "node" => saveIter = begin[P + 1] /\ (P > 0 => line[saveIter] = Slash)
  BY DEF Reads, PathIsRead
<1>4. /\ Len(line) \in {begin[P + 1] - 1, begin[P + 1]}
      /\ P > 0 /\ begin[P + 1] <= Len(line) => line[begin[P + 1]] = Slash
  <2>1. CASE rule = "node"
    BY <1>1, <1>2, <1>3, <2>1
  <2>2. CASE rule = "after"
    <3>1. at + 1 = begin[P + 1]
      BY <1>1, <1>2, <1>3, <2>2
    <3> QED
      BY <1>1, <1>2, <1>3, <2>2, <3>1
  <2> QED
    BY <2>1, <2>2
<1>5. \A n \in 1 .. P : begin[n + 1] <= Len(line) => line[begin[n + 1]] = Slash
  <2> TAKE n \in 1 .. P
  <2>1. CASE n = P
    BY <1>1, <1>4, <2>1
  <2>2. CASE n # P
    <3>1. n \in 1 .. P - 1
      BY <1>1, <2>2
    <3> QED
      BY <1>3, <3>1
  <2> QED
    BY <2>1, <2>2
<1>6. IsTextOf(line, ctx.path)
  BY <1>1, <1>3, <1>4, <1>5 DEF IsTextOf
<1>7. ctx.path \in WrittenPaths
  BY <1>1, <1>3, WrittenPathsAre
<1>8. EndsInList(ctx.path) => parserMode = "DataPathListEnd"
  <2> SUFFICES ASSUME EndsInList(ctx.path) PROVE parserMode = "DataPathListEnd"
    OBVIOUS
  <2>1. P # 0 /\ ctx.path[P] = NoKeys
    BY <1>1 DEF EndsInList
  <2>2. P \in 1 .. P
    BY <1>1, <2>1
  <2>3. KeysOf[P] # {}
    BY <1>1, <1>3, <2>2, ListsHaveKeys
  <2>4. listEnd
    BY <1>3, <2>1, <2>2, <2>3, NoKeysAreEmpty
  <2> QED
    BY <2>4 DEF Typed, Types
<1> QED
  BY <1>6, <1>7, <1>8 DEF ReadsWhatIsWritten, Writes

\* A key follows: the path's node has more keys than were read.
LEMMA AnotherKey ==
  ASSUME Typed, Reads, rule \in {"key", "value"}, NEW path \in WrittenPaths, Acceptable(path)
  PROVE  LET i == Count + 1
         IN  /\ i \in 1 .. Cardinality(DOMAIN path[Level])
             /\ IsNodeAt(line, saveIter, path[Level]) /\ path[Level] \in SomeKeys
             /\ line[saveIter + 4 * i - 1] \in DOMAIN path[Level]
             /\ line[saveIter + 4 * i] = path[Level][line[saveIter + 4 * i - 1]]
             /\ saveIter + 4 * i < Len(line)
             /\ DOMAIN path[Level] = KeysOf[Level] /\ ~listEnd
<1> DEFINE s == Cardinality(DOMAIN path[Level])
           i == Count + 1
<1>1. Within
  BY DEF Within
<1>2. /\ KeysAreRead(Count) /\ saveIter + 4 * Count + 2 <= at
      /\ line[saveIter + 4 * Count + 2] = Open
  <2>1. saveIter \in Nat /\ at \in Nat /\ Count \in Nat
    BY LooksAt, LevelIs
  <2>2. CASE rule = "key"
    BY <1>1, <2>1, <2>2 DEF Reads, NodeIsRead
  <2>3. CASE rule = "value"
    <3>1. at = saveIter + 4 * Count + 3 /\ line[at - 1] = Open /\ KeysAreRead(Count)
      BY <1>1, <2>3 DEF Reads, NodeIsRead
    <3>2. at - 1 = saveIter + 4 * Count + 2
      BY <2>1, <3>1
    <3> QED
      BY <2>1, <3>1, <3>2
  <2> QED
    BY <2>2, <2>3
<1>3. saveIter \in Nat /\ Count \in Nat /\ Len(line) \in Nat /\ at \in Nat /\ at <= Len(line)
  BY LooksAt, LevelIs
<1>4. s = Cardinality(DOMAIN path[Level])
  OBVIOUS
<1> HIDE DEF s
<1>5. /\ path[Level] \in SomeKeys /\ s \in Nat
      /\ IsNodeAt(line, saveIter, path[Level]) /\ saveIter + 4 * s < Len(line)
      /\ \/ DOMAIN path[Level] = KeysOf[Level]
         \/ EndsInList(path) /\ Len(path) = Level /\ path[Level] = NoKeys
      /\ saveIter + 4 * Count + 2 <= Len(line) /\ line[saveIter + 4 * Count + 2] = Open =>
           Count < s
  BY <1>1, <1>2, <1>4, NodeOfThePath
<1>6. Count < s
  BY <1>2, <1>3, <1>5
<1>7. i \in 1 .. s /\ saveIter + 4 * i < Len(line)
  BY <1>3, <1>5, <1>6
<1>8. path[Level] # NoKeys
  BY <1>3, <1>4, <1>5, <1>6, NoKeysAreEmpty
<1>9. ~listEnd
  <2>1. rule # "after" /\ Level = Len(ctx.path) + 1
    BY LevelIs
  <2>2. listEnd => EndsInList(path) /\ Len(path) = Level
    BY <2>1 DEF Reads, PathIsFollowed
  <2> QED
    BY <1>8, <2>2 DEF EndsInList
<1>10. /\ line[saveIter + 4 * i - 1] \in DOMAIN path[Level]
       /\ line[saveIter + 4 * i] = path[Level][line[saveIter + 4 * i - 1]]
  <2> HIDE DEF i
  <2> QED
    BY <1>4, <1>5, <1>7 DEF IsNodeAt
<1> QED
  BY <1>4, <1>5, <1>7, <1>8, <1>9, <1>10

LEMMA NoKeyNameRefuses ==
  ASSUME Typed, Reads, NoKeyName, NEW path \in WrittenPaths
  PROVE  ~Acceptable(path)
<1> SUFFICES ASSUME Acceptable(path) PROVE FALSE
  OBVIOUS
<1>1. rule = "key" /\ Look \notin KeysOf[Level]
  BY DEF NoKeyName
<1>2. at = saveIter + 4 * Count + 2
  BY <1>1 DEF Reads, NodeIsRead, Within
<1>3. /\ line[saveIter + 4 * (Count + 1) - 1] \in KeysOf[Level]
      /\ saveIter + 4 * (Count + 1) < Len(line)
  BY <1>1, AnotherKey
<1>4. saveIter \in Nat /\ Count \in Nat /\ Len(line) \in Nat
  BY LooksAt, LevelIs
<1>5. saveIter + 4 * (Count + 1) - 1 = at + 1 /\ at < Len(line)
  BY <1>2, <1>3, <1>4
<1> QED
  BY <1>1, <1>3, <1>5 DEF Look

LEMMA NoKeyValueRefuses ==
  ASSUME Typed, Reads, NoKeyValue, NEW path \in WrittenPaths
  PROVE  ~Acceptable(path)
<1> SUFFICES ASSUME Acceptable(path) PROVE FALSE
  OBVIOUS
<1>1. rule = "value" /\ Look \notin Value
  BY DEF NoKeyValue
<1>2. at = saveIter + 4 * Count + 3
  BY <1>1 DEF Reads, NodeIsRead, Within
<1>3. /\ line[saveIter + 4 * (Count + 1)] \in Value
      /\ saveIter + 4 * (Count + 1) < Len(line)
  BY <1>1, AnotherKey, SomeKeysAre
<1>4. saveIter \in Nat /\ Count \in Nat /\ Len(line) \in Nat
  BY LooksAt, LevelIs
<1>5. saveIter + 4 * (Count + 1) = at + 1 /\ at < Len(line)
  BY <1>2, <1>3, <1>4
<1> QED
  BY <1>1, <1>3, <1>5 DEF Look

\* keyValue's complaint, without keys carried from a first try: the key is one
\* of those read.
LEMMA KeyAgainIsRead ==
  ASSUME Typed, Reads, KeyAgain, ~listEnd
  PROVE  /\ at = saveIter + 4 * Count + 3 /\ line[at - 1] = Open
         /\ \E j \in 1 .. Count : /\ line[saveIter + 4 * j - 1] = line[at]
                                  /\ line[saveIter + 4 * j - 2] = Open
<1>1. rule = "value" /\ ctx.key \in DOMAIN ctx.tmpListKeys
  BY DEF KeyAgain, Again
<1>2. /\ at = saveIter + 4 * Count + 3 /\ line[at - 1] = Open /\ line[at] = ctx.key
      /\ KeysAreRead(Count)
  BY <1>1 DEF Reads, NodeIsRead, Within
<1>3. ctx.tmpListKeys = keys
  BY <1>1 DEF Reads, KeysAreRemembered, Carried, Within
<1>4. PICK j \in 1 .. Count : line[saveIter + 4 * j - 1] = ctx.key
  BY <1>1, <1>2, <1>3 DEF KeysAreRead, KeysAreAt, Count
<1>5. line[saveIter + 4 * j - 2] = Open
  BY <1>2 DEF KeysAreRead, KeysAreAt, Count
<1> QED
  BY <1>2, <1>4, <1>5

LEMMA KeyAgainRefuses ==
  ASSUME Typed, Reads, KeyAgain, NEW path \in WrittenPaths
  PROVE  ~Acceptable(path)
<1> SUFFICES ASSUME Acceptable(path) PROVE FALSE
  OBVIOUS
<1> DEFINE i == Count + 1
<1>1. rule = "value"
  BY DEF KeyAgain
<1>2. /\ i \in 1 .. Cardinality(DOMAIN path[Level]) /\ ~listEnd
      /\ IsNodeAt(line, saveIter, path[Level]) /\ path[Level] \in SomeKeys
  BY <1>1, AnotherKey
<1>3. at = saveIter + 4 * Count + 3
  BY <1>2, KeyAgainIsRead
<1>4. PICK j \in 1 .. Count : line[saveIter + 4 * j - 1] = line[at]
  BY <1>2, KeyAgainIsRead
<1>5. saveIter \in Nat /\ Count \in Nat /\ saveIter + 4 * i - 1 = at
  BY <1>3, LooksAt, LevelIs
<1>6. j \in 1 .. Cardinality(DOMAIN path[Level]) /\ j # i
  <2>1. Cardinality(DOMAIN path[Level]) \in Nat
    BY <1>2, SomeKeysAre
  <2> QED
    BY <1>2, <1>5, <2>1
<1>7. line[saveIter + 4 * j - 1] = line[saveIter + 4 * i - 1]
  BY <1>4, <1>5
<1> HIDE DEF i
<1> QED
  BY <1>2, <1>5, <1>6, <1>7, KeysAreDistinct

LEMMA NoCloseKeyRefuses ==
  ASSUME Typed, Reads, NoCloseKey, NEW path \in WrittenPaths
  PROVE  ~Acceptable(path)
<1> SUFFICES ASSUME Acceptable(path) PROVE FALSE
  OBVIOUS
<1> DEFINE s == Cardinality(DOMAIN path[Level])
<1>1. rule = "close" /\ Look # Close
  BY DEF NoCloseKey
<1>2. /\ KeysAreRead(Count - 1) /\ at = saveIter + 4 * Count /\ Count > 0 /\ Within
  BY <1>1 DEF Reads, NodeIsRead, Within
<1>3. s = Cardinality(DOMAIN path[Level])
  OBVIOUS
<1> HIDE DEF s
<1>4. /\ IsNodeAt(line, saveIter, path[Level]) /\ saveIter + 4 * s < Len(line)
      /\ Count <= s /\ s \in Nat
  BY <1>2, <1>3, NodeOfThePath
<1>5. saveIter \in Nat /\ Count \in Nat /\ Len(line) \in Nat
  BY LooksAt, LevelIs
<1>6. Count \in 1 .. s
  BY <1>2, <1>4, <1>5
<1>7. line[saveIter + 4 * Count + 1] = Close
  BY <1>3, <1>4, <1>6 DEF IsNodeAt
<1>8. at < Len(line) /\ line[at + 1] = Close
  BY <1>2, <1>4, <1>5, <1>7
<1> QED
  BY <1>1, <1>8 DEF Look

\* Every parse that ends.
LEMMA ReadsWhatIsWrittenKept ==
  ASSUME Typed, phase = "parsing", Reads, Parses, phase' = "parsed"
  PROVE  ReadsWhatIsWritten'
<1>0. line' = line /\ parserMode' = parserMode
  BY DEF Parses, Node, NodeFails, OpenKey, KeyName, NoKeyName, KeyValue, KeyAgain,
         NoKeyValue, CloseKey, NoCloseKey, SuffixSucceeds, SuffixFails, NodeEnds,
         NodeGoesOn, PathEnds, Throws, Step, user
<1>1. CASE Node
  <2> DEFINE c == Suggest(ctx, at, IF Level <= Depth THEN {[value |-> <<Name>>, more |-> <<Open>>]} ELSE {})
  <2>1. rule = "node" /\ NodeFails(c) /\ ~(Look = Name /\ Level <= Depth)
    BY <1>1 DEF Node, Goes
  <2>2. c.path = ctx.path
    BY DEF Suggest, Typed, Types, Context
  <2> HIDE DEF c
  <2>3. at = saveIter
    BY <2>1 DEF Reads, PathIsRead
  <2>4. ctx'.path = ctx.path
    BY <2>1, <2>2, NodeFailsIs
  <2>5. CASE saveIter < Len(line)
    <3>1. Look # End
      BY <2>3, <2>5, LooksAt
    <3>2. rule' = "refused"
      BY <2>1, <2>5, NodeFailsIs
    <3> QED
      BY <1>0, <2>1, <3>1, <3>2, NoNodeOfThePath, WhatIsRefused
  <2>6. CASE ~(saveIter < Len(line))
    <3>1. rule' = "accepted"
      BY <2>1, <2>6, NodeFailsIs
    <3>2. saveIter = Len(line)
      BY <2>3, <2>6, LooksAt
    <3> QED
      BY <1>0, <2>1, <2>4, <3>1, <3>2, WhatIsAccepted
  <2> QED
    BY <2>5, <2>6
<1>2. CASE OpenKey \/ KeyName \/ KeyValue \/ CloseKey \/ NodeGoesOn
  BY <1>2 DEF OpenKey, KeyName, KeyValue, CloseKey, NodeGoesOn, Goes
<1>3. ASSUME NEW message, Throws(message)
      PROVE  rule' = "refused"
  BY <1>3 DEF Throws, Step
<1>4. CASE NoKeyName
  <2>1. rule' = "refused"
    BY <1>3, <1>4 DEF NoKeyName
  <2> QED
    BY <1>0, <1>4, <2>1, NoKeyNameRefuses, WhatIsRefused
<1>5. CASE KeyAgain
  <2>1. rule' = "refused"
    BY <1>3, <1>5 DEF KeyAgain
  <2> QED
    BY <1>0, <1>5, <2>1, KeyAgainRefuses, WhatIsRefused
<1>6. CASE NoKeyValue
  <2>1. rule' = "refused"
    BY <1>3, <1>6 DEF NoKeyValue
  <2> QED
    BY <1>0, <1>6, <2>1, NoKeyValueRefuses, WhatIsRefused
<1>7. CASE NoCloseKey
  <2>1. rule' = "refused"
    BY <1>3, <1>7 DEF NoCloseKey
  <2> QED
    BY <1>0, <1>7, <2>1, NoCloseKeyRefuses, WhatIsRefused
<1>8. ASSUME rule = "suffix" PROVE saveIter < Len(line)
  <2>1. at = saveIter + 4 * Count + 1
    BY <1>8 DEF Reads, NodeIsRead, Within
  <2> QED
    BY <2>1, LooksAt, LevelIs
<1>9. CASE SuffixSucceeds
  <2> DEFINE c == [ctx EXCEPT !.tmpListKeys = NoKeys]
  <2>1. NodeEnds(c, at, keys) /\ rule = "suffix" /\ Look # Open
    BY <1>9 DEF SuffixSucceeds
  <2> HIDE DEF c
  <2>2. ~MayEnd(at) /\ NodeFails(c)
    BY <2>1, NodeEndsIs DEF Goes
  <2>3. rule' = "refused"
    BY <1>8, <2>1, <2>2, NodeFailsIs
  <2>4. \A path \in WrittenPaths : ~Acceptable(path)
    BY <2>1, <2>2, NodeOfThePathIsRead
  <2> QED
    BY <1>0, <2>3, <2>4, WhatIsRefused
<1>10. CASE SuffixFails
  <2> DEFINE c == [ctx EXCEPT !.error = "not enough"]
  <2>1. /\ rule = "suffix" /\ Look # Open /\ DOMAIN keys # KeysOf[Level]
        /\ IF listEnd THEN NodeEnds(c, saveIter + 1, NoKeys) ELSE NodeFails(c)
    BY <1>10 DEF SuffixFails
  <2> HIDE DEF c
  <2>2. NodeFails(c) /\ (listEnd => ~MayEnd(saveIter + 1))
    <3>1. CASE listEnd
      BY <2>1, <3>1, NodeEndsIs DEF Goes
    <3>2. CASE ~listEnd
      BY <2>1, <3>2
    <3> QED
      BY <3>1, <3>2
  <2>3. rule' = "refused" /\ (listEnd \/ parserMode # "DataPathListEnd")
    BY <1>8, <2>1, <2>2, NodeFailsIs
  <2>4. ASSUME NEW path \in WrittenPaths, Acceptable(path)
        PROVE  FALSE
    <3>1. EndsInList(path) /\ keys = NoKeys /\ MayEnd(at)
      BY <2>1, <2>4, NodeOfThePathIsRead
    <3>2. parserMode = "DataPathListEnd"
      BY <2>4, <3>1 DEF Acceptable
    <3>3. at = saveIter + 4 * Count + 1 /\ Count = 0
      BY <2>1, <3>1, NoKeysAreEmpty DEF Reads, NodeIsRead, Within, Count
    <3>4. at = saveIter + 1
      BY <3>3, LooksAt
    <3> QED
      BY <2>2, <2>3, <3>1, <3>2, <3>4
  <2> QED
    BY <1>0, <2>3, <2>4, WhatIsRefused
<1>11. CASE PathEnds
  <2> DEFINE rest == SubSeq(line, at + 1, Len(line))
  <2>1. /\ rule = "after" /\ (listEnd \/ Look = End) /\ ctx' = ctx
        /\ rule' = IF rest \in {<< >>, <<Slash>>} THEN "accepted" ELSE "refused"
    BY <1>11 DEF PathEnds, Ends, Step
  <2>2. /\ at \in Nat /\ Len(line) \in Nat /\ at <= Len(line) /\ line \in Seq(Token)
        /\ Look = End => at = Len(line)
    BY LooksAt DEF Typed, Types
  <2>3. /\ rest \in Seq(Token)
        /\ Len(rest) = IF at + 1 <= Len(line) THEN Len(line) - (at + 1) + 1 ELSE 0
        /\ \A n \in 1 .. Len(line) - (at + 1) + 1 : rest[n] = line[(at + 1) + n - 1]
    <3>1. \A n \in at + 1 .. Len(line) : line[n] \in Token
      BY <2>2
    <3> QED
      BY <2>2, <3>1, SubSeqProperties
  <2> HIDE DEF rest
  <2>4. rest = << >> <=> Len(line) = at
    <3>1. rest = << >> <=> Len(rest) = 0
      BY <2>3, EmptySeq
    <3> QED
      BY <2>2, <2>3, <3>1
  <2>5. rest = <<Slash>> <=> Len(line) = at + 1 /\ line[at + 1] = Slash
    <3>1. ASSUME rest = <<Slash>>
          PROVE  Len(line) = at + 1 /\ line[at + 1] = Slash
      <4>1. Len(rest) = 1 /\ rest[1] = Slash
        BY <3>1
      <4>2. Len(line) = at + 1
        <5>1. at + 1 <= Len(line)
          BY <2>3, <4>1
        <5>2. Len(rest) = Len(line) - (at + 1) + 1
          BY <2>3, <5>1
        <5>3. PICK n \in Nat : n = Len(line)
          BY <2>2
        <5>4. 1 = n - (at + 1) + 1
          BY <4>1, <5>2, <5>3
        <5>5. n = at + 1
          BY <2>2, <5>3, <5>4
        <5> QED
          BY <5>3, <5>5
      <4>3. 1 \in 1 .. Len(line) - (at + 1) + 1 /\ (at + 1) + 1 - 1 = at + 1
        BY <2>2, <4>2
      <4> QED
        BY <2>3, <4>1, <4>2, <4>3
    <3>2. ASSUME Len(line) = at + 1, line[at + 1] = Slash
          PROVE  rest = <<Slash>>
      <4>1. Len(rest) = 1 /\ 1 \in 1 .. Len(line) - (at + 1) + 1 /\ (at + 1) + 1 - 1 = at + 1
        BY <2>2, <2>3, <3>2
      <4>2. rest[1] = Slash
        BY <2>3, <3>2, <4>1
      <4>3. Slash \in Token
        BY DEF Token
      <4> QED
        BY <2>3, <4>1, <4>2, <4>3, SeqEqual
    <3> QED
      BY <3>1, <3>2
  <2>6. CASE rest \in {<< >>, <<Slash>>}
    <3>1. Len(line) = at \/ (Len(line) = at + 1 /\ line[at + 1] = Slash)
      BY <2>4, <2>5, <2>6
    <3> QED
      BY <1>0, <2>1, <2>6, <3>1, WhatIsAccepted
  <2>7. CASE rest \notin {<< >>, <<Slash>>}
    <3>1. ~(Len(line) = at) /\ ~(Len(line) = at + 1 /\ line[at + 1] = Slash)
      BY <2>4, <2>5, <2>7
    <3>2. listEnd
      BY <2>1, <2>2, <3>1
    <3>3. ASSUME NEW path \in WrittenPaths, Acceptable(path)
          PROVE  FALSE
      <4>1. IsTextOf(line, path) /\ IsPrefix(ctx.path, path) /\ Len(path) = Len(ctx.path)
        BY <2>1, <3>2, <3>3 DEF Reads, PathIsFollowed, Acceptable, Writes
      <4> DEFINE P == Len(ctx.path)
                 begin == Begins(ctx.path)[P + 1]
      <4>2. P \in Nat /\ ctx.path \in Seq(SomeKeys) /\ P > 0 /\ at = begin - 1
        BY <2>1, LevelIs DEF Reads, PathIsRead
      <4>3. /\ begin \in Nat /\ Len(line) \in {begin - 1, begin}
            /\ P > 0 /\ begin <= Len(line) => line[begin] = Slash
        <5>1. P >= Len(path)
          BY <4>1, <4>2
        <5> QED
          BY <2>2, <4>1, <4>2, <5>1, TextGoesOn
      <4> HIDE DEF P, begin
      <4> QED
        BY <2>2, <3>1, <4>2, <4>3
    <3> QED
      BY <1>0, <2>1, <2>7, <3>3, WhatIsRefused
  <2> QED
    BY <2>6, <2>7
<1> QED
  BY <1>1, <1>2, <1>4, <1>5, <1>6, <1>7, <1>9, <1>10, <1>11 DEF Parses

-----------------------------------------------------------------------------
(***************************************************************************)
(* The messages                                                            *)
(***************************************************************************)
LEMMA IsEntered ==
  ASSUME line \in Seq(Token), line' = line, NEW i \in Nat, NEW j \in 2 .. Len(line),
         j <= seen', i <= j, \A n \in i + 1 .. j : line[n] # Name, line[j - 1] = Open
  PROVE  j \in KeysEntered(i)'
<1>1. j \in DOMAIN line \ {1}
  OBVIOUS
<1> QED
  BY <1>1 DEF KeysEntered, SameNode

\* The key was read before, and is the one at the iterator.
LEMMA KeyAgainIsTrue ==
  ASSUME Typed, Reads, KeyAgain, parserMode = "DataPath"
  PROVE  MessageIsTrue'
<1>1. rule = "value" /\ Throws("more than once") /\ Within
  BY DEF KeyAgain, Within
<1>2. line' = line /\ rule' = "refused" /\ ctx'.error = "more than once"
  BY <1>1 DEF Throws, Ends, Step, user, Typed, Types, Context
<1>3. ~listEnd
  BY DEF Typed, Types
<1>4. at = saveIter + 4 * Count + 3 /\ line[at - 1] = Open
  BY <1>3, KeyAgainIsRead
<1>5. PICK m \in 1 .. Count : /\ line[saveIter + 4 * m - 1] = line[at]
                              /\ line[saveIter + 4 * m - 2] = Open
  BY <1>3, KeyAgainIsRead
<1>6. /\ saveIter \in Nat /\ Count \in Nat /\ at \in Nat /\ Len(line) \in Nat /\ at <= Len(line)
      /\ line \in Seq(Token)
  BY LooksAt, LevelIs DEF Typed, Types
<1>7. \A n \in saveIter + 2 .. at : line[n] # Name
  BY <1>1 DEF Reads, NothingElse
<1>8. line[saveIter + 1] = Name
  BY <1>1 DEF Reads, NodeIsRead, KeysAreRead, KeysAreAt
<1> PICK i \in Nat, j \in Nat : i = saveIter + 1 /\ j = saveIter + 4 * m - 1
  BY <1>6
<1>9. /\ i \in Nat /\ i \in 1 .. Len(line) /\ i + 1 = saveIter + 2
      /\ j \in 2 .. Len(line) /\ j <= at /\ i <= j /\ j - 1 = saveIter + 4 * m - 2
      /\ at \in 2 .. Len(line) /\ i <= at /\ j # at /\ j \in Nat
  BY <1>4, <1>6
<1>10. line[i] = Name /\ line[j] = line[at] /\ line[j - 1] = Open
  BY <1>5, <1>8, <1>9
<1>11. at <= seen' /\ j <= seen'
  <2>1. seen \in Nat /\ seen' = IF at + 1 > seen THEN at + 1 ELSE seen
    BY <1>1 DEF Throws, Step, Typed, Types
  <2> QED
    BY <1>6, <1>9, <2>1
<1>12. at \in KeysEntered(i)'
  <2>1. \A n \in i + 1 .. at : line[n] # Name
    BY <1>7, <1>9
  <2> QED
    BY <1>2, <1>4, <1>6, <1>9, <1>11, <2>1, IsEntered
<1>13. j \in KeysEntered(i)'
  <2>1. \A n \in i + 1 .. j : line[n] # Name
    <3>1. \A n \in i + 1 .. j : n \in i + 1 .. at
      BY <1>6, <1>9
    <3> QED
      BY <1>7, <1>9, <3>1
  <2> QED
    BY <1>2, <1>6, <1>9, <1>10, <1>11, <2>1, IsEntered
<1>14. i \in DOMAIN line' /\ line'[i] = Name /\ line'[j] = line'[at]
  <2>1. DOMAIN line = 1 .. Len(line)
    BY <1>6
  <2>2. i \in DOMAIN line
    BY <1>9, <2>1
  <2> QED
    BY <1>2, <1>10, <2>2
<1> QED
  BY <1>2, <1>9, <1>12, <1>13, <1>14 DEF MessageIsTrue

\* The list lacks a key: what was entered are the keys that were read.
LEMMA NotEnoughIsTrue ==
  ASSUME Typed, Reads, SuffixFails, parserMode = "DataPath"
  PROVE  MessageIsTrue'
<1> DEFINE c == [ctx EXCEPT !.error = "not enough"]
<1> PICK i \in Nat : i = saveIter + 1
  BY LooksAt
<1>1. ~listEnd
  BY DEF Typed, Types
<1>2. /\ rule = "suffix" /\ Look # Open /\ DOMAIN keys # KeysOf[Level] /\ NodeFails(c)
  BY <1>1 DEF SuffixFails
<1>3. c.error = "not enough"
  BY DEF Typed, Types, Context
<1> HIDE DEF c
<1>4. /\ line' = line /\ ctx'.error = "not enough"
  BY <1>2, <1>3, NodeFailsIs
<1>5. seen' <= at + 1
  <2>1. seen <= at + 1
    BY DEF Reads, NothingElse
  <2>2. PICK next : Step(next)
    BY <1>2 DEF NodeFails
  <2> QED
    BY <2>1, <2>2 DEF Step, Typed, Types
<1>6. /\ KeysAreRead(Count) /\ at = saveIter + 4 * Count + 1 /\ DOMAIN keys \subseteq KeysOf[Level]
      /\ Level <= Depth
  BY <1>2 DEF Reads, NodeIsRead, Within
<1>7. /\ saveIter \in Nat /\ Count \in Nat /\ at \in Nat /\ Len(line) \in Nat /\ at <= Len(line)
      /\ line \in Seq(Token) /\ keys \in SomeKeys /\ Len(ctx.path) \in Nat
      /\ Level = Len(ctx.path) + 1
  BY LooksAt, LevelIs DEF Typed, Types
<1>8. line[i] = Name /\ i \in 1 .. Len(line) /\ i \in Nat
  BY <1>6, <1>7 DEF KeysAreRead, KeysAreAt
<1>9. /\ Cardinality({n \in 1 .. saveIter : line[n] = Name}) = Len(ctx.path)
      /\ \A j \in saveIter + 3 .. at : line[j - 1] = Open => line[j] \in DOMAIN keys
  BY <1>2 DEF Reads, NothingElse, Within
<1>10. Cardinality({n \in 1 .. i : line[n] = Name}) = Level
  <2> DEFINE S == {n \in 1 .. saveIter : line[n] = Name}
             T == {n \in 1 .. i : line[n] = Name}
  <2>1. T = S \cup {i}
    <3>1. \A n \in 1 .. i : n \in 1 .. saveIter \/ n = i
      BY <1>7
    <3>2. T \subseteq S \cup {i}
      BY <3>1
    <3>3. S \cup {i} \subseteq T
      BY <1>7, <1>8
    <3> QED
      BY <3>2, <3>3
  <2>2. IsFiniteSet(S) /\ i \notin S
    <3>1. IsFiniteSet(1 .. saveIter)
      BY <1>7, FS_Interval
    <3>2. S \in SUBSET (1 .. saveIter) /\ i \notin S
      BY <1>7
    <3> HIDE DEF S
    <3> QED
      BY <3>1, <3>2, FS_Subset
  <2>3. Cardinality(S) = Len(ctx.path)
    BY <1>9
  <2> HIDE DEF S
  <2>4. Cardinality(T) = Len(ctx.path) + 1
    BY <2>1, <2>2, <2>3, FS_AddElement
  <2> QED
    BY <1>7, <2>4
<1>11. line[at] # Open
  <2>1. CASE Count = 0
    <3>1. at = i
      BY <1>6, <1>7, <2>1
    <3> QED
      BY <1>8, <3>1, TokensDiffer
  <2>2. CASE Count # 0
    <3>1. Count \in 1 .. Count
      BY <1>7, <2>2
    <3>2. line[saveIter + 4 * Count + 1] = Close
      BY <1>6, <3>1 DEF KeysAreRead, KeysAreAt
    <3> QED
      BY <1>6, <3>2, TokensDiffer
  <2> QED
    BY <2>1, <2>2
<1>12. ASSUME NEW j \in KeysEntered(i)'
       PROVE  line'[j] \in DOMAIN keys
  <2>1. /\ j \in DOMAIN line /\ j <= seen' /\ i <= j /\ line[j - 1] = Open
    BY <1>4, <1>12 DEF KeysEntered, SameNode
  <2>2. j \in Nat /\ j <= at + 1
    <3>1. seen' \in Nat
      <4>1. PICK next : Step(next)
        BY <1>2 DEF NodeFails
      <4> QED
        BY <4>1 DEF Step, Typed, Types
    <3> QED
      BY <1>5, <1>7, <2>1, <3>1
  <2>3. j # at + 1
    <3>1. j = at + 1 => j - 1 = at
      BY <1>7
    <3> QED
      BY <1>11, <2>1, <3>1
  <2>4. j # i
    <3> SUFFICES ASSUME j = i PROVE FALSE
      OBVIOUS
    <3>1. j # 1 /\ j - 1 = saveIter
      BY <1>7, <1>12 DEF KeysEntered
    <3>2. line[saveIter] = Slash
      <4>1. /\ saveIter = Begins(ctx.path)[Len(ctx.path) + 1]
            /\ Len(ctx.path) > 0 => line[saveIter] = Slash
        BY <1>2 DEF Reads, PathIsRead
      <4>2. ASSUME Len(ctx.path) = 0 PROVE saveIter = 0
        BY <4>1, <4>2, LevelIs, BeginsAre
      <4> QED
        BY <1>7, <3>1, <4>1, <4>2
    <3> QED
      BY <2>1, <3>1, <3>2, TokensDiffer
  <2>5. j # saveIter + 2
    <3>1. j = saveIter + 2 => j - 1 = i
      BY <1>7
    <3> QED
      BY <1>8, <2>1, <3>1, TokensDiffer
  <2>6. j \in saveIter + 3 .. at
    BY <1>7, <2>1, <2>2, <2>3, <2>4, <2>5
  <2> QED
    BY <1>4, <1>9, <2>1, <2>6
<1>13. KeysOf[Level] \ {line'[j] : j \in KeysEntered(i)'} # {}
  <2>1. KeysOf[Level] \ DOMAIN keys # {}
    BY <1>2, <1>6
  <2> QED
    BY <1>12, <2>1
<1>14. i \in DOMAIN line' /\ line'[i] = Name
  <2>1. DOMAIN line = 1 .. Len(line)
    BY <1>7
  <2>2. i \in DOMAIN line
    BY <1>8, <2>1
  <2> QED
    BY <1>4, <1>8, <2>2
<1>15. Cardinality({n \in 1 .. i : line'[n] = Name}) = Level
  BY <1>4, <1>10
<1>16. ctx'.error # "more than once"
  BY <1>4
<1> QED
  BY <1>13, <1>14, <1>15, <1>16 DEF MessageIsTrue

\* Only these two refuse with one of the two messages.
LEMMA MessageKept ==
  ASSUME Typed, phase = "parsing", Reads, Parses, phase' = "parsed"
  PROVE  MessageIsTrueOfDataPaths'
<1>1. parserMode' = parserMode
  <2>1. ASSUME NEW c, NodeFails(c) PROVE parserMode' = parserMode
    BY <2>1 DEF NodeFails, Step, user
  <2>2. ASSUME NEW c, NEW end, NEW assigned, NodeEnds(c, end, assigned)
        PROVE  parserMode' = parserMode
    BY <2>1, <2>2 DEF NodeEnds, Step, user
  <2> QED
    BY <2>1, <2>2 DEF Parses, Node, OpenKey, KeyName, NoKeyName, KeyValue, KeyAgain, NoKeyValue,
                      CloseKey, NoCloseKey, SuffixSucceeds, SuffixFails, NodeGoesOn, PathEnds,
                      Throws, Step, user
<1> SUFFICES ASSUME parserMode = "DataPath"
             PROVE  MessageIsTrue'
  BY <1>1 DEF MessageIsTrueOfDataPaths
<1>2. ~listEnd /\ ctx.error = "none" /\ ctx \in Context
  BY DEF Typed, Types, Reads, NothingElse
<1>3. ASSUME NEW message, ctx'.error = message, message \notin {"more than once", "not enough"}
      PROVE  MessageIsTrue'
  BY <1>3 DEF MessageIsTrue
<1>4. ASSUME NEW message, Throws(message)
      PROVE  ctx'.error = message
  BY <1>2, <1>4 DEF Throws, Ends, Context
<1>5. ASSUME NEW c, c.error = "none", NodeFails(c)
      PROVE  MessageIsTrue'
  <2>1. ctx'.error = "none"
    BY <1>5 DEF NodeFails, Ends
  <2> QED
    BY <1>3, <2>1
<1>6. CASE Node
  <2> DEFINE here == [value |-> <<Name>>, more |-> <<Open>>]
             c == Suggest(ctx, at, IF Level <= Depth THEN {here} ELSE {})
  <2>1. c.error = "none"
    BY <1>2 DEF Suggest, Context
  <2>2. NodeFails(c)
    BY <1>6 DEF Node, Goes
  <2> HIDE DEF c
  <2> QED
    BY <1>5, <2>1, <2>2
<1>7. CASE NoKeyName
  <2>1. PICK message \in {"not a key", "expected"} : Throws(message)
    BY <1>2, <1>7 DEF NoKeyName
  <2> QED
    BY <1>3, <1>4, <2>1
<1>8. CASE NoKeyValue
  <2>1. Throws("bad value")
    BY <1>8 DEF NoKeyValue
  <2> QED
    BY <1>3, <1>4, <2>1
<1>9. CASE NoCloseKey
  <2>1. Throws("expected")
    BY <1>2, <1>9 DEF NoCloseKey
  <2> QED
    BY <1>3, <1>4, <2>1
<1>10. CASE SuffixSucceeds
  <2> DEFINE c == [ctx EXCEPT !.tmpListKeys = NoKeys]
  <2>1. c.error = "none"
    BY <1>2 DEF Context
  <2>2. NodeEnds(c, at, keys)
    BY <1>10 DEF SuffixSucceeds
  <2> HIDE DEF c
  <2>3. NodeFails(c)
    BY <2>2 DEF NodeEnds, Goes
  <2> QED
    BY <1>5, <2>1, <2>3
<1>11. CASE PathEnds
  <2>1. ctx' = ctx
    BY <1>11 DEF PathEnds, Ends
  <2> QED
    BY <1>2, <1>3, <2>1
<1>12. CASE KeyAgain
  BY <1>12, KeyAgainIsTrue
<1>13. CASE SuffixFails
  BY <1>13, NotEnoughIsTrue
<1>14. CASE OpenKey \/ KeyName \/ KeyValue \/ CloseKey \/ NodeGoesOn
  BY <1>14 DEF OpenKey, KeyName, KeyValue, CloseKey, NodeGoesOn, Goes
<1> QED
  BY <1>6, <1>7, <1>8, <1>9, <1>10, <1>11, <1>12, <1>13, <1>14 DEF Parses

-----------------------------------------------------------------------------
(***************************************************************************)
(* What is read: the theorems                                              *)
(***************************************************************************)
LEMMA KInvInit ==
  ASSUME Init
  PROVE  KInv
<1>1. NoKeys \in SomeKeys
  BY NoKeysAreEmpty
<1>2. NewContext \in Context
  <2>1. << >> \in Seq(SomeKeys)
    OBVIOUS
  <2> QED
    BY <1>1, <2>1 DEF NewContext, Context, Messages
<1>3. Types
  <2>1. /\ parserMode \in {"DataPath", "DataPathListEnd"} /\ line = << >>
        /\ phase = "typing" /\ rule = "node" /\ at = 0 /\ saveIter = 0 /\ seen = 0
        /\ listEnd = FALSE /\ keys = NoKeys /\ ctx = NewContext
    BY DEF Init
  <2>2. line \in Seq(Token)
    BY <2>1
  <2>3. keys \in SomeKeys /\ ctx \in Context
    BY <1>1, <1>2, <2>1
  <2> QED
    BY <2>1, <2>2, <2>3 DEF Types
<1>4. TypeOK
  <2>1. DOMAIN ctx.tmpListKeys = {}
    BY NoKeysAreEmpty DEF Init, NewContext
  <2>2. ctx.path = << >> /\ ctx.from = 0 /\ Len(line) = 0
    BY DEF Init, NewContext
  <2>3. at \in 0 .. Len(line) /\ saveIter \in 0 .. at /\ seen \in 0 .. Len(line) + 1
    BY <2>2 DEF Init
  <2>4. \A n \in DOMAIN ctx.path : ctx.path[n] \in SomeKeys
    BY <2>2
  <2> QED
    BY <2>1, <2>2, <2>3, <2>4 DEF TypeOK
<1> QED
  BY <1>3, <1>4 DEF Init, KInv, Typed, OffersAreLonger, Parsing, ReadsWhatIsWritten,
                    MessageIsTrueOfDataPaths, MessageIsTrue

LEMMA KInvKept ==
  ASSUME KInv, [Next]_vars
  PROVE  KInv'
<1>1. Typed /\ Parsing
  BY DEF KInv
<1>2. Typed' /\ Parsing'
  BY <1>1, ParsingKept
<1>3. CASE phase' = "parsed"
  <2>1. CASE UNCHANGED vars
    <3>1. KInv
      OBVIOUS
    <3>2. /\ phase' = phase /\ rule' = rule /\ ctx' = ctx /\ line' = line /\ seen' = seen
          /\ parserMode' = parserMode
      BY <2>1 DEF vars, user, parser
    <3>3. ReadsWhatIsWritten'
      BY <3>1, <3>2 DEF KInv, ReadsWhatIsWritten, Writes
    <3>4. \A i : KeysEntered(i)' = KeysEntered(i)
      BY <3>2 DEF KeysEntered, SameNode
    <3>5. MessageIsTrueOfDataPaths'
      <4> SUFFICES ASSUME parserMode = "DataPath", phase = "parsed", rule = "refused",
                          ctx.error \in {"more than once", "not enough"}
                   PROVE  MessageIsTrue'
        BY <3>2 DEF MessageIsTrueOfDataPaths, MessageIsTrue
      <4>1. MessageIsTrue
        BY <3>1 DEF KInv, MessageIsTrueOfDataPaths
      <4>2. PICK i \in DOMAIN line :
              /\ line[i] = Name
              /\ IF ctx.error = "more than once"
                 THEN \E j, k \in KeysEntered(i) : j # k /\ line[j] = line[k]
                 ELSE KeysOf[Cardinality({n \in 1 .. i : line[n] = Name})]
                        \ {line[j] : j \in KeysEntered(i)} # {}
        BY <4>1 DEF MessageIsTrue
      <4>3. KeysEntered(i)' = KeysEntered(i)
        BY <3>4
      <4>4. CASE ctx.error = "more than once"
        <5>1. \E j, k \in KeysEntered(i)' : j # k /\ line'[j] = line'[k]
          BY <3>2, <4>2, <4>3, <4>4
        <5> QED
          BY <3>2, <4>2, <4>4, <5>1 DEF MessageIsTrue
      <4>5. CASE ctx.error # "more than once"
        <5>1. KeysOf[Cardinality({n \in 1 .. i : line'[n] = Name})]
                \ {line'[j] : j \in KeysEntered(i)'} # {}
          BY <3>2, <4>2, <4>3, <4>5
        <5> QED
          BY <3>2, <4>2, <4>5, <5>1 DEF MessageIsTrue
      <4> QED
        BY <4>4, <4>5
    <3> QED
      BY <1>2, <3>3, <3>5 DEF KInv
  <2>2. CASE Parses
    <3>1. phase = "parsing"
      <4>1. ASSUME NEW c, NodeFails(c) PROVE phase = "parsing"
        BY <4>1 DEF NodeFails, Step
      <4>2. ASSUME NEW c, NEW end, NEW assigned, NodeEnds(c, end, assigned)
            PROVE  phase = "parsing"
        BY <4>1, <4>2 DEF NodeEnds, Step
      <4> QED
        BY <2>2, <4>1, <4>2 DEF Parses, Node, OpenKey, KeyName, NoKeyName, KeyValue, KeyAgain,
                      NoKeyValue, CloseKey, NoCloseKey, SuffixSucceeds, SuffixFails, NodeGoesOn,
                      PathEnds, Throws, Step
    <3>2. Reads
      BY <1>1, <3>1 DEF Parsing
    <3>3. ReadsWhatIsWritten'
      BY <1>1, <1>3, <2>2, <3>1, <3>2, ReadsWhatIsWrittenKept
    <3>4. MessageIsTrueOfDataPaths'
      BY <1>1, <1>3, <2>2, <3>1, <3>2, MessageKept
    <3> QED
      BY <1>2, <3>3, <3>4 DEF KInv
  <2>3. CASE \/ \E tab \in BOOLEAN : Press(tab)
             \/ \E token \in Token : Type(token)
             \/ \E completed \in offered : Take(completed)
    BY <1>3, <2>3 DEF Press, Type, Take
  <2> QED
    BY <2>1, <2>2, <2>3 DEF Next
<1>4. CASE phase' # "parsed"
  BY <1>2, <1>4 DEF KInv, ReadsWhatIsWritten, MessageIsTrueOfDataPaths, MessageIsTrue
<1> QED
  BY <1>3, <1>4

LEMMA SpecKeepsKInv == Spec => []KInv
<1>1. Init => KInv
  BY KInvInit
<1>2. KInv /\ [Next]_vars => KInv'
  BY KInvKept
<1> QED
  BY <1>1, <1>2, PTL DEF Spec

\* However a line is typed, completed and parsed, the iterators stay within
\* it, and the keys remembered between the handlers of a list are keys of the
\* list being parsed.
THEOREM ListKeysTypeOK == Spec => []TypeOK
<1>1. KInv => TypeOK
  BY DEF KInv, Typed
<1> QED
  BY <1>1, SpecKeepsKInv, PTL

\* The path grammar with the handlers of listSuffix: a line is accepted
\* exactly when it is the text of a path whose lists have all of their keys
\* (the last one of a `get` may have none), and the path read is this path.
THEOREM ListKeysReadsWhatIsWritten == Spec => []ReadsWhatIsWritten
<1>1. KInv => ReadsWhatIsWritten
  BY DEF KInv
<1> QED
  BY <1>1, SpecKeepsKInv, PTL

\* keyValue's and listSuffix's handlers complain of a key entered twice only
\* where the line has one, and of missing keys only where keys are missing.
THEOREM ListKeysMessageIsTrueOfDataPaths == Spec => []MessageIsTrueOfDataPaths
<1>1. KInv => MessageIsTrueOfDataPaths
  BY DEF KInv
<1> QED
  BY <1>1, SpecKeepsKInv, PTL

-----------------------------------------------------------------------------
(***************************************************************************)
(* Lines of which every token was suggested                                *)
(***************************************************************************)
\* The nodes of the path are written on the text, with a slash after each.
NodesAreAt(text, path) ==
  \A n \in 1 .. Len(path) :
    IsNodeAt(text, Begins(path)[n], path[n]) /\ text[Begins(path)[n + 1]] = Slash

\* Below them, some keys of the list that comes next.
BeginsWith(text, path, some) ==
  /\ NodesAreAt(text, path)
  /\ KeysAreAt(text, Begins(path)[Len(path) + 1], some, Cardinality(DOMAIN some) - 1)

\* There is an instance of this list with these keys.
Exists(path, some) ==
  \E i \in Instance : /\ Len(i) = Len(path) + 1
                      /\ SubSeq(i, 1, Len(path)) = path
                      /\ \A key \in DOMAIN some : i[Len(path) + 1][key] = some[key]

\* Whatever the text begins with exists.
KeysExist(text) ==
  \A path \in WrittenPaths :
    ~EndsInList(path) /\ Len(path) < Depth =>
      \A some \in SomeKeys :
        /\ some # NoKeys /\ DOMAIN some \subseteq KeysOf[Len(path) + 1]
        /\ BeginsWith(text, path, some)
        => Exists(path, some)

NoValues(c) ==
  \A s \in c.suggestions : \A n \in 1 .. Len(s.value \o s.more) : (s.value \o s.more)[n] \notin Value

\* Values are suggested where one is expected, and they are those of instances.
ValuesAreOfInstances ==
  \/ NoValues(ctx)
  \/ /\ rule = "value" /\ ctx.from = at
     /\ \A s \in ctx.suggestions : \E value \in ValuesOf(ctx.key) : s = Always(<<value>>)

PathExists ==
  (IF EndsInList(ctx.path) THEN Front(ctx.path) ELSE ctx.path) \in Instance \cup {<< >>}

\* Of a line on which nothing was typed but what was offered.
Guided ==
  guided /\ enums = {} =>
    /\ KeysExist(line)
    /\ phase = "parsing" => ValuesAreOfInstances
    /\ phase # "typing" => PathExists
    /\ phase = "parsed" => \A o \in offered : KeysExist(o)

GInv == KInv /\ Guided

-----------------------------------------------------------------------------
(***************************************************************************)
(* Texts that begin alike                                                  *)
(***************************************************************************)
LEMMA KeysAreAtToo ==
  ASSUME NEW text, NEW other, NEW end \in Nat, end <= Len(other), Len(other) \in Nat,
         \A n \in 1 .. end : other[n] = text[n],
         NEW begin \in Nat, NEW some \in SomeKeys, NEW closed \in Int,
         NEW count \in Nat, Cardinality(DOMAIN some) = count,
         begin + 1 <= end, begin + 4 * count <= end,
         closed <= count, closed = count => begin + 4 * count + 1 <= end,
         KeysAreAt(text, begin, some, closed)
  PROVE  KeysAreAt(other, begin, some, closed)
<1>1. begin + 4 * count <= Len(other)
  OBVIOUS
<1>2. begin + 4 * count <= Len(other) /\ other[begin + 1] = Name
  BY <1>1 DEF KeysAreAt
<1>3. ASSUME NEW i \in 1 .. count
      PROVE  /\ other[begin + 4 * i - 2] = text[begin + 4 * i - 2]
             /\ other[begin + 4 * i - 1] = text[begin + 4 * i - 1]
             /\ other[begin + 4 * i] = text[begin + 4 * i]
  <2>1. begin + 4 * i - 2 \in 1 .. end
    OBVIOUS
  <2>2. begin + 4 * i - 1 \in 1 .. end
    OBVIOUS
  <2>3. begin + 4 * i \in 1 .. end
    OBVIOUS
  <2> QED
    BY <2>1, <2>2, <2>3
<1>4. ASSUME NEW i \in 1 .. closed
      PROVE  other[begin + 4 * i + 1] = Close
  <2>1. begin + 4 * i + 1 \in 1 .. end
    BY <1>1
  <2>2. text[begin + 4 * i + 1] = Close
    BY DEF KeysAreAt
  <2> QED
    BY <2>1, <2>2
<1>5. ASSUME NEW i \in 1 .. count
      PROVE  /\ other[begin + 4 * i - 2] = Open
             /\ other[begin + 4 * i - 1] \in DOMAIN some
             /\ other[begin + 4 * i] = some[other[begin + 4 * i - 1]]
  BY <1>3 DEF KeysAreAt
<1>6. ASSUME NEW key \in DOMAIN some
      PROVE  \E i \in 1 .. count : other[begin + 4 * i - 1] = key
  <2>1. PICK i \in 1 .. count : text[begin + 4 * i - 1] = key
    BY DEF KeysAreAt
  <2>2. other[begin + 4 * i - 1] = text[begin + 4 * i - 1]
    BY <1>3
  <2> QED
    BY <2>1, <2>2
<1> QED
  BY <1>2, <1>4, <1>5, <1>6 DEF KeysAreAt

LEMMA NodeIsAtToo ==
  ASSUME NEW text, NEW other, NEW end \in Nat, end <= Len(other), Len(other) \in Nat,
         \A n \in 1 .. end : other[n] = text[n],
         NEW begin \in Nat, NEW assigned \in SomeKeys,
         begin + 4 * Cardinality(DOMAIN assigned) + 1 <= end, IsNodeAt(text, begin, assigned)
  PROVE  IsNodeAt(other, begin, assigned)
<1> DEFINE size == Cardinality(DOMAIN assigned)
<1>1. size \in Nat
  BY SomeKeysAre
<1>2. begin + 4 * size < Len(other) /\ other[begin + 1] = Name
  BY <1>1 DEF IsNodeAt
<1>3. ASSUME NEW i \in 1 .. size
      PROVE  /\ other[begin + 4 * i - 2] = text[begin + 4 * i - 2]
             /\ other[begin + 4 * i - 1] = text[begin + 4 * i - 1]
             /\ other[begin + 4 * i] = text[begin + 4 * i]
             /\ other[begin + 4 * i + 1] = text[begin + 4 * i + 1]
  BY <1>1
<1>4. ASSUME NEW i \in 1 .. size
      PROVE  /\ other[begin + 4 * i - 2] = Open
             /\ other[begin + 4 * i - 1] \in DOMAIN assigned
             /\ other[begin + 4 * i] = assigned[other[begin + 4 * i - 1]]
             /\ other[begin + 4 * i + 1] = Close
  BY <1>3 DEF IsNodeAt
<1>5. ASSUME NEW key \in DOMAIN assigned
      PROVE  \E i \in 1 .. size : other[begin + 4 * i - 1] = key
  <2>1. PICK i \in 1 .. size : text[begin + 4 * i - 1] = key
    BY DEF IsNodeAt
  <2>2. other[begin + 4 * i - 1] = text[begin + 4 * i - 1]
    BY <1>3
  <2> QED
    BY <2>1, <2>2
<1> QED
  BY <1>2, <1>4, <1>5 DEF IsNodeAt

LEMMA NodeIsKeys ==
  ASSUME NEW text, NEW begin \in Nat, Len(text) \in Nat, NEW assigned \in SomeKeys,
         IsNodeAt(text, begin, assigned)
  PROVE  KeysAreAt(text, begin, assigned, Cardinality(DOMAIN assigned))
<1>1. Cardinality(DOMAIN assigned) \in Nat
  BY SomeKeysAre
<1> QED
  BY <1>1 DEF IsNodeAt, KeysAreAt

LEMMA BeginsGrow ==
  ASSUME NEW path \in Seq(SomeKeys), NEW n \in 1 .. Len(path) + 1, NEW m \in n .. Len(path) + 1
  PROVE  Begins(path)[n] <= Begins(path)[m]
<1> DEFINE g == Begins(path)
           T == {k \in n .. Len(path) + 1 : ~(g[n] <= g[k])}
<1>0. Len(path) \in Nat /\ n \in Nat
  OBVIOUS
<1>1. /\ \A k \in 1 .. Len(path) + 1 : g[k] \in Nat
      /\ \A k \in 1 .. Len(path) : g[k + 1] = g[k] + 4 * Cardinality(DOMAIN path[k]) + 2
  BY BeginsAre
<1>2. \A k \in 1 .. Len(path) : Cardinality(DOMAIN path[k]) \in Nat
  BY SomeKeysAre
<1> HIDE DEF g
<1> SUFFICES ASSUME T # {} PROVE FALSE
  BY DEF g
<1>3. T \subseteq Nat
  BY <1>0
<1>4. PICK k \in T : \A j \in T : ~(j < k)
  BY <1>3, LeastExists
<1>5. k # n /\ k \in 1 .. Len(path) + 1 /\ n \in 1 .. Len(path) + 1
  BY <1>0, <1>1, <1>4
<1>6. k - 1 \in 1 .. Len(path) /\ k - 1 \in n .. Len(path) + 1 /\ k - 1 < k /\ (k - 1) + 1 = k
  BY <1>0, <1>4, <1>5
<1>7. g[n] <= g[k - 1]
  BY <1>4, <1>6
<1>8. g[k] = g[k - 1] + 4 * Cardinality(DOMAIN path[k - 1]) + 2
      /\ Cardinality(DOMAIN path[k - 1]) \in Nat
  BY <1>1, <1>2, <1>6
<1>9. g[k] \in Nat /\ g[k - 1] \in Nat /\ g[n] \in Nat
  <2>1. k - 1 \in 1 .. Len(path) + 1
    BY <1>0, <1>6
  <2> QED
    BY <1>1, <1>5, <2>1
<1> QED
  BY <1>4, <1>7, <1>8, <1>9

\* What stands before a position of the text stands on any text that begins alike.
LEMMA NodesAreAtToo ==
  ASSUME NEW text, NEW other, NEW end \in Nat, end <= Len(other), Len(other) \in Nat,
         \A n \in 1 .. end : other[n] = text[n],
         NEW path \in Seq(SomeKeys), Begins(path)[Len(path) + 1] <= end, NodesAreAt(text, path)
  PROVE  NodesAreAt(other, path)
<1> SUFFICES ASSUME NEW n \in 1 .. Len(path)
             PROVE  /\ IsNodeAt(other, Begins(path)[n], path[n])
                    /\ other[Begins(path)[n + 1]] = Slash
  BY DEF NodesAreAt
<1>1. /\ n \in 1 .. Len(path) + 1 /\ n + 1 \in 1 .. Len(path) + 1
      /\ Len(path) + 1 \in 1 .. Len(path) + 1 /\ Len(path) + 1 \in n + 1 .. Len(path) + 1
      /\ path[n] \in SomeKeys
  OBVIOUS
<1>2. /\ Begins(path)[n] \in Nat /\ Begins(path)[n + 1] \in Nat
      /\ Begins(path)[Len(path) + 1] \in Nat
      /\ Begins(path)[n + 1] = Begins(path)[n] + 4 * Cardinality(DOMAIN path[n]) + 2
  BY <1>1, BeginsAre
<1>3. Begins(path)[n + 1] <= Begins(path)[Len(path) + 1]
  BY <1>1, BeginsGrow
<1>4. Cardinality(DOMAIN path[n]) \in Nat
  BY <1>1, SomeKeysAre
<1>5. IsNodeAt(text, Begins(path)[n], path[n]) /\ text[Begins(path)[n + 1]] = Slash
  BY DEF NodesAreAt
<1>6. Begins(path)[n + 1] \in 1 .. end
      /\ Begins(path)[n] + 4 * Cardinality(DOMAIN path[n]) + 1 <= end
  <2>1. PICK b \in Nat : Begins(path)[n] = b
    BY <1>2
  <2>2. PICK d \in Nat : Begins(path)[n + 1] = d
    BY <1>2
  <2>3. PICK s \in Nat : Cardinality(DOMAIN path[n]) = s
    BY <1>4
  <2>4. b + 4 * s + 2 = d
    BY <1>2, <2>1, <2>2, <2>3
  <2>5. d <= end
    <3>1. PICK e \in Nat : Begins(path)[Len(path) + 1] = e
      BY <1>2
    <3>2. d <= e /\ e <= end
      BY <1>3, <2>2, <3>1
    <3> QED
      BY <3>2
  <2>6. d \in 1 .. end /\ b + 4 * s + 1 <= end
    BY <2>4, <2>5
  <2> QED
    BY <2>1, <2>2, <2>3, <2>6
<1> QED
  BY <1>1, <1>2, <1>5, <1>6, NodeIsAtToo

\* A text has only one way to be read.
LEMMA NodesAreTheSame ==
  ASSUME NEW text, Len(text) \in Nat, NEW path \in Seq(SomeKeys), NEW other \in Seq(SomeKeys),
         NodesAreAt(text, path), NodesAreAt(text, other),
         NEW nodes \in Nat, nodes <= Len(path), nodes <= Len(other)
  PROVE  /\ \A n \in 1 .. nodes : path[n] = other[n]
         /\ \A n \in 1 .. nodes + 1 : Begins(path)[n] = Begins(other)[n]
<1> DEFINE T == {n \in 1 .. nodes : path[n] # other[n]}
<1>1. T = {}
  <2> SUFFICES ASSUME T # {} PROVE FALSE
    OBVIOUS
  <2>0. T \subseteq Nat
    OBVIOUS
  <2>1. PICK n \in T : \A k \in T : ~(k < n)
    BY <2>0, LeastExists
  <2>2. /\ n \in 1 .. Len(path) /\ n \in 1 .. Len(other) /\ n \in 1 .. Len(path) + 1
        /\ path[n] \in SomeKeys /\ other[n] \in SomeKeys /\ (n - 1) + 1 = n
        /\ n - 1 \in Nat /\ n - 1 <= Len(path) /\ n - 1 <= Len(other)
    OBVIOUS
  <2>3. \A k \in 1 .. n - 1 : path[k] = other[k]
    BY <2>1
  <2> DEFINE begin == Begins(path)[n]
  <2>4. begin = Begins(other)[n]
    <3>1. \A k \in 1 .. (n - 1) + 1 : Begins(path)[k] = Begins(other)[k]
      BY <2>2, <2>3, BeginsAgree
    <3>2. n \in 1 .. (n - 1) + 1
      BY <2>2
    <3> QED
      BY <3>1, <3>2
  <2>5. begin \in Nat
    BY <2>2, BeginsAre
  <2>6. /\ IsNodeAt(text, begin, path[n]) /\ IsNodeAt(text, begin, other[n])
        /\ text[Begins(path)[n + 1]] = Slash /\ text[Begins(other)[n + 1]] = Slash
    BY <2>2, <2>4 DEF NodesAreAt
  <2>7. /\ Begins(path)[n + 1] = begin + 4 * Cardinality(DOMAIN path[n]) + 2
        /\ Begins(other)[n + 1] = begin + 4 * Cardinality(DOMAIN other[n]) + 2
    BY <2>2, <2>4, BeginsAre
  <2> DEFINE one == path[n]
             two == other[n]
             s == Cardinality(DOMAIN one)
             t == Cardinality(DOMAIN two)
  <2>8. s \in Nat /\ t \in Nat /\ one \in SomeKeys /\ two \in SomeKeys
    BY <2>2, SomeKeysAre
  <2>9. /\ IsNodeAt(text, begin, one) /\ IsNodeAt(text, begin, two)
        /\ KeysAreAt(text, begin, one, s) /\ KeysAreAt(text, begin, two, t)
    BY <2>2, <2>5, <2>6, NodeIsKeys
  <2>10. /\ begin + 4 * t + 2 <= Len(text) => text[begin + 4 * t + 2] = Slash
         /\ begin + 4 * s + 2 <= Len(text) => text[begin + 4 * s + 2] = Slash
    BY <2>6, <2>7
  <2>11. s = Cardinality(DOMAIN one) /\ t = Cardinality(DOMAIN two)
    OBVIOUS
  <2>12. one # two
    BY <2>1
  <2> HIDE DEF begin, one, two, s, t
  <2>13. s <= t /\ (s = t => one = two)
    BY <2>5, <2>8, <2>9, <2>10, <2>11, NodeIsFollowed
  <2>14. t <= s
    BY <2>5, <2>8, <2>9, <2>10, <2>11, NodeIsFollowed
  <2> QED
    BY <2>8, <2>12, <2>13, <2>14
<1>2. \A n \in 1 .. nodes : path[n] = other[n]
  BY <1>1
<1> QED
  BY <1>2, BeginsAgree

\* A text on which one more value, the last token, is that of a further key.
ExpectsValue(text, path, read) ==
  LET begin == Begins(path)[Len(path) + 1]
      count == Cardinality(DOMAIN read)
  IN  /\ NodesAreAt(text, path) /\ KeysAreAt(text, begin, read, count)
      /\ text[begin + 4 * count + 2] = Open
      /\ Len(text) = begin + 4 * count + 4

\* A text that ends with the last value of these keys.
EndsWith(text, path, some) ==
  /\ BeginsWith(text, path, some)
  /\ Len(text) = Begins(path)[Len(path) + 1] + 4 * Cardinality(DOMAIN some)

\* There is only one path that value is below.
LEMMA ContextIsTheSame ==
  ASSUME NEW text, Len(text) \in Nat, NEW path \in Seq(SomeKeys), NEW other \in Seq(SomeKeys),
         NEW read \in SomeKeys, NEW some \in SomeKeys,
         ExpectsValue(text, path, read), EndsWith(text, other, some)
  PROVE  path = other
<1> DEFINE P == Len(path)
           Q == Len(other)
           begin == Begins(path)[Len(path) + 1]
           start == Begins(other)[Len(other) + 1]
           count == Cardinality(DOMAIN read)
           more == Cardinality(DOMAIN some)
           closed == more - 1
<1>0. /\ NodesAreAt(text, path) /\ NodesAreAt(text, other)
      /\ Begins(path)[Len(path) + 1] = begin /\ Begins(other)[Len(other) + 1] = start
      /\ Cardinality(DOMAIN read) = count /\ Cardinality(DOMAIN some) = more
      /\ KeysAreAt(text, begin, read, count) /\ KeysAreAt(text, start, some, closed)
      /\ text[begin + 4 * count + 2] = Open
      /\ Len(text) = begin + 4 * count + 4 /\ Len(text) = start + 4 * more
  BY DEF ExpectsValue, EndsWith, BeginsWith
<1>1. P \in Nat /\ Q \in Nat /\ count \in Nat /\ more \in Nat
  BY SomeKeysAre
<1>2. begin \in Nat /\ start \in Nat
  BY <1>1, BeginsAre
<1> USE <1>0
<1> HIDE DEF begin, start, count, more, closed
<1>3. CASE P = Q
  <2>1. \A n \in 1 .. P : path[n] = other[n]
    BY <1>1, <1>3, NodesAreTheSame
  <2>2. begin = start
    <3>1. \A n \in 1 .. P + 1 : Begins(path)[n] = Begins(other)[n]
      BY <1>1, <1>3, NodesAreTheSame
    <3> QED
      BY <1>1, <1>3, <3>1
  <2> QED
    BY <1>3, <2>1, <2>2, SeqEqual
<1>4. CASE P < Q
  <2> DEFINE node == other[P + 1]
             s == Cardinality(DOMAIN node)
  <2>1. /\ P + 1 \in 1 .. Q /\ node \in SomeKeys /\ P + 2 \in 1 .. Q + 1
        /\ Q + 1 \in P + 2 .. Q + 1 /\ (P + 1) + 1 = P + 2
    BY <1>1, <1>4
  <2>2. Begins(other)[P + 1] = begin
    <3>1. P <= P /\ P <= Q
      BY <1>1, <1>4
    <3>2. \A n \in 1 .. P + 1 : Begins(path)[n] = Begins(other)[n]
      BY <1>1, <3>1, NodesAreTheSame
    <3> QED
      BY <1>1, <3>2
  <2>3. IsNodeAt(text, begin, node) /\ text[Begins(other)[P + 2]] = Slash
    BY <2>1, <2>2 DEF NodesAreAt
  <2>4. Begins(other)[P + 2] = begin + 4 * s + 2
    BY <2>1, <2>2, BeginsAre
  <2>5. Begins(other)[P + 2] <= start
    BY <2>1, BeginsGrow
  <2>6. s = Cardinality(DOMAIN node) /\ s \in Nat
    BY <2>1, SomeKeysAre
  <2> HIDE DEF node, s
  <2>7. count < s
    <3>1. begin + 4 * s + 2 <= Len(text) => text[begin + 4 * s + 2] = Slash
      BY <2>3, <2>4
    <3>2. begin + 4 * count + 2 <= Len(text)
      BY <1>1, <1>2
    <3>3. begin + 4 * count + 2 <= Len(text) /\ text[begin + 4 * count + 2] = Open => count < s
      <4>1. KeysAreAt(text, begin, read, count) /\ count = Cardinality(DOMAIN read) /\ begin \in Nat
        BY <1>2
      <4>2. node \in SomeKeys /\ IsNodeAt(text, begin, node) /\ s = Cardinality(DOMAIN node)
        BY <2>1, <2>3, <2>6
      <4> HIDE DEF begin, count
      <4> QED
        BY <3>1, <4>1, <4>2, NodeIsFollowed
    <3> QED
      BY <3>2, <3>3
  <2>8. begin + 4 * s + 2 <= start /\ start <= Len(text)
    BY <1>1, <1>2, <2>4, <2>5
  <2>9. /\ begin \in Nat /\ start \in Nat /\ count \in Nat /\ s \in Nat
        /\ begin + 4 * count + 4 = Len(text)
    BY <1>1, <1>2, <2>6
  <2> HIDE DEF begin, start, count
  <2>10. FALSE
    BY <2>7, <2>8, <2>9
  <2> QED
    BY <2>10
<1>5. CASE Q < P
  <2> DEFINE node == path[Q + 1]
             s == Cardinality(DOMAIN node)
  <2>1. /\ Q + 1 \in 1 .. P /\ node \in SomeKeys /\ Q + 2 \in 1 .. P + 1
        /\ P + 1 \in Q + 2 .. P + 1 /\ (Q + 1) + 1 = Q + 2
    BY <1>1, <1>5
  <2>2. Begins(path)[Q + 1] = start
    <3>1. Q <= P /\ Q <= Q
      BY <1>1, <1>5
    <3>2. \A n \in 1 .. Q + 1 : Begins(path)[n] = Begins(other)[n]
      BY <1>1, <3>1, NodesAreTheSame
    <3> QED
      BY <1>1, <3>2
  <2>3. IsNodeAt(text, start, node) /\ text[Begins(path)[Q + 2]] = Slash
    BY <2>1, <2>2 DEF NodesAreAt
  <2>4. Begins(path)[Q + 2] = start + 4 * s + 2
    BY <2>1, <2>2, BeginsAre
  <2>5. Begins(path)[Q + 2] <= begin
    BY <2>1, BeginsGrow
  <2>6. s = Cardinality(DOMAIN node) /\ s \in Nat
    BY <2>1, SomeKeysAre
  <2> HIDE DEF node, s
  <2>7. more <= s
    <3>1. start + 4 * s + 2 <= Len(text) => text[start + 4 * s + 2] = Slash
      BY <2>3, <2>4
    <3> QED
      BY <1>2, <2>1, <2>3, <2>6, <3>1, NodeIsFollowed
  <2>8. start + 4 * s + 2 <= begin /\ begin <= Len(text)
    BY <1>1, <1>2, <2>4, <2>5
  <2>9. /\ begin \in Nat /\ start \in Nat /\ more \in Nat /\ s \in Nat
        /\ start + 4 * more = Len(text)
    BY <1>1, <1>2, <2>6
  <2> HIDE DEF begin, start, more
  <2>10. FALSE
    BY <2>7, <2>8, <2>9
  <2> QED
    BY <2>10
<1> QED
  BY <1>1, <1>3, <1>4, <1>5

-----------------------------------------------------------------------------
(***************************************************************************)
(* What is offered                                                         *)
(***************************************************************************)
Whole(s) == s.value \o s.more

\* The line and then what is suggested after the place where suggestions begin.
LEMMA CompletionIs ==
  ASSUME line \in Seq(Token), NEW c \in Context, c.from \in 0 .. Len(line),
         NEW o \in Completions(c)
  PROVE  /\ o \in Seq(Token) /\ Len(o) >= Len(line)
         /\ \A n \in 1 .. Len(line) : o[n] = line[n]
         /\ \E s \in c.suggestions :
              /\ Len(o) \in {c.from + Len(s.value), c.from + Len(Whole(s))}
              /\ \A n \in c.from + 1 .. Len(o) :
                   n - c.from \in 1 .. Len(Whole(s)) /\ o[n] = Whole(s)[n - c.from]
<1> DEFINE typed == SubSeq(line, c.from + 1, Len(line))
           before == SubSeq(line, 1, c.from)
           from == c.from
<1>1. /\ Len(line) \in Nat /\ from \in Nat /\ from <= Len(line)
      /\ \A i \in 1 .. Len(line) : line[i] \in Token
  OBVIOUS
<1>2. /\ typed \in Seq(Token) /\ Len(typed) = Len(line) - from
      /\ \A i \in 1 .. Len(line) - from : typed[i] = line[from + i]
  <2>1. \A i \in from + 1 .. Len(line) : line[i] \in Token
    BY <1>1
  <2>2. /\ typed \in Seq(Token)
        /\ Len(typed) = IF from + 1 <= Len(line) THEN Len(line) - (from + 1) + 1 ELSE 0
        /\ \A i \in 1 .. Len(line) - (from + 1) + 1 : typed[i] = line[from + 1 + i - 1]
    BY <1>1, <2>1, SubSeqProperties
  <2> QED
    BY <1>1, <2>2
<1>3. before \in Seq(Token) /\ Len(before) = from /\ \A i \in 1 .. from : before[i] = line[i]
  <2>1. \A i \in 1 .. from : line[i] \in Token
    BY <1>1
  <2>2. /\ before \in Seq(Token) /\ Len(before) = IF 1 <= from THEN from - 1 + 1 ELSE 0
        /\ \A i \in 1 .. from - 1 + 1 : before[i] = line[1 + i - 1]
    BY <1>1, <2>1, SubSeqProperties
  <2> QED
    BY <1>1, <2>2
<1>4. o \in Seq(Token) /\ Len(o) >= Len(line)
  BY CompletionsAreLonger
<1> HIDE DEF typed, before
<1>5. PICK s \in c.suggestions :
        /\ IsPrefix(typed, s.value)
        /\ o = before \o s.value \/ o = before \o Whole(s)
  BY DEF Completions, FilterByPrefix, typed, before, Whole
<1>6. s.value \in Seq(Token) /\ s.more \in Seq(Token)
  BY DEF Context
<1>7. /\ Whole(s) \in Seq(Token) /\ Len(Whole(s)) >= Len(s.value) /\ Len(Whole(s)) \in Nat
      /\ \A i \in 1 .. Len(s.value) : Whole(s)[i] = s.value[i]
      /\ Len(s.value) \in Nat
  <2> DEFINE v == s.value
             m == s.more
  <2>1. v \in Seq(Token) /\ m \in Seq(Token) /\ Whole(s) = v \o m
    BY <1>6 DEF Whole
  <2> HIDE DEF v, m
  <2>2. /\ Whole(s) \in Seq(Token) /\ Len(Whole(s)) = Len(v) + Len(m)
        /\ \A i \in 1 .. Len(v) + Len(m) : Whole(s)[i] = IF i <= Len(v) THEN v[i] ELSE m[i - Len(v)]
    BY <2>1, ConcatProperties
  <2>3. Len(v) \in Nat /\ Len(m) \in Nat
    BY <2>1
  <2>4. \A i \in 1 .. Len(v) : Whole(s)[i] = v[i]
    BY <2>2, <2>3
  <2> QED
    BY <2>2, <2>3, <2>4 DEF v
<1>8. Len(typed) <= Len(s.value) /\ \A i \in 1 .. Len(typed) : typed[i] = s.value[i]
  <2>1. Len(typed) <= Len(s.value)
        /\ SubSeq(typed, 1, Len(typed)) = SubSeq(s.value, 1, Len(typed))
    BY <1>5 DEF IsPrefix
  <2>2. \A i \in 1 .. Len(typed) : SubSeq(typed, 1, Len(typed))[i] = typed[i]
    BY <1>2
  <2>3. \A i \in 1 .. Len(typed) : SubSeq(s.value, 1, Len(typed))[i] = s.value[i]
    BY <1>1, <1>2, <1>6, <2>1
  <2> QED
    BY <2>1, <2>2, <2>3
<1> DEFINE w == Whole(s)
           v == s.value
<1>9. /\ Len(o) = from + Len(v) \/ Len(o) = from + Len(w)
      /\ \A n \in from + 1 .. Len(o) :
           n - from \in 1 .. Len(w) /\ o[n] = w[n - from]
      /\ \A n \in 1 .. from : o[n] = line[n]
  <2>1. v \in Seq(Token) /\ w \in Seq(Token)
    BY <1>6, <1>7
  <2>2. ASSUME NEW text \in Seq(Token), o = before \o text, Len(text) <= Len(w),
               \A i \in 1 .. Len(text) : text[i] = w[i]
        PROVE  /\ Len(o) = from + Len(text)
               /\ \A n \in from + 1 .. Len(o) : n - from \in 1 .. Len(w) /\ o[n] = w[n - from]
               /\ \A n \in 1 .. from : o[n] = line[n]
    <3> HIDE DEF from, w, v
    <3>1. /\ Len(o) = from + Len(text)
          /\ \A n \in 1 .. from + Len(text) : o[n] = IF n <= from THEN before[n] ELSE text[n - from]
      BY <1>3, <2>2, ConcatProperties
    <3>2. Len(text) \in Nat /\ Len(w) \in Nat
      BY <2>1
    <3>3. ASSUME NEW n \in from + 1 .. Len(o)
          PROVE  n - from \in 1 .. Len(w) /\ o[n] = w[n - from]
      <4>1. n - from \in 1 .. Len(text) /\ n \in 1 .. from + Len(text) /\ ~(n <= from)
        BY <1>1, <3>1, <3>2
      <4>2. o[n] = text[n - from] /\ text[n - from] = w[n - from]
        BY <2>2, <3>1, <4>1
      <4> QED
        BY <2>2, <3>2, <4>1, <4>2
    <3>4. ASSUME NEW n \in 1 .. from
          PROVE  o[n] = line[n]
      <4>1. n \in 1 .. from + Len(text) /\ n <= from
        BY <1>1, <3>2
      <4> QED
        BY <1>3, <3>1, <4>1
    <3> QED
      BY <3>1, <3>3, <3>4
  <2>3. CASE o = before \o v
    BY <1>7, <2>1, <2>2, <2>3
  <2>4. CASE o = before \o w
    <3>1. Len(w) <= Len(w)
      BY <1>7
    <3> QED
      BY <2>1, <2>2, <2>4, <3>1
  <2> QED
    BY <1>5, <2>3, <2>4
<1>10. ASSUME NEW n \in 1 .. Len(line)
       PROVE  o[n] = line[n]
  <2>0. Len(v) \in Nat /\ \A i \in 1 .. Len(typed) : typed[i] = v[i] /\ w[i] = v[i]
    BY <1>2, <1>7, <1>8
  <2> HIDE DEF from, w, v
  <2>1. CASE n <= from
    BY <1>9, <2>1
  <2>2. CASE n > from
    <3>1. n - from \in 1 .. Len(line) - from /\ n \in from + 1 .. Len(o)
      BY <1>1, <1>4, <2>2
    <3>2. o[n] = w[n - from] /\ typed[n - from] = line[from + (n - from)]
      BY <1>2, <1>9, <3>1
    <3>3. w[n - from] = v[n - from] /\ typed[n - from] = v[n - from]
      BY <1>2, <2>0, <3>1
    <3>4. from + (n - from) = n
      BY <1>1
    <3> QED
      BY <3>2, <3>3, <3>4
  <2> QED
    BY <1>1, <2>1, <2>2
<1> QED
  BY <1>4, <1>9, <1>10

LEMMA PathIsAt ==
  ASSUME Typed, Reads, rule # "after"
  PROVE  NodesAreAt(line, ctx.path) /\ saveIter = Begins(ctx.path)[Len(ctx.path) + 1]
<1> DEFINE P == Len(ctx.path)
           begin == Begins(ctx.path)
<1>1. P \in Nat
  BY LevelIs
<1>2. /\ \A n \in 1 .. P : IsNodeAt(line, begin[n], ctx.path[n])
      /\ \A n \in 1 .. P - 1 : line[begin[n + 1]] = Slash
      /\ saveIter = begin[P + 1] /\ (P > 0 => line[saveIter] = Slash)
  BY DEF Reads, PathIsRead
<1>3. ASSUME NEW n \in 1 .. P
      PROVE  line[begin[n + 1]] = Slash
  <2>1. CASE n = P
    BY <1>1, <1>2, <2>1
  <2>2. CASE n # P
    <3>1. n \in 1 .. P - 1
      BY <1>1, <2>2
    <3> QED
      BY <1>2, <3>1
  <2> QED
    BY <2>1, <2>2
<1> QED
  BY <1>2, <1>3 DEF NodesAreAt

\* A suggested value is one of an instance with the keys before it.
LEMMA SuggestedValueExists ==
  ASSUME Typed, Reads, rule = "value", Len(line) = at,
         NEW o, Len(o) \in Nat, Len(o) = at + 1, \A n \in 1 .. Len(line) : o[n] = line[n],
         o[Len(o)] \in ValuesOf(ctx.key),
         NEW path \in Seq(SomeKeys), NEW some \in SomeKeys, BeginsWith(o, path, some),
         NEW start \in Nat, Begins(path)[Len(path) + 1] = start,
         NEW more \in Nat, Cardinality(DOMAIN some) = more, Len(o) = start + 4 * more
  PROVE  Exists(path, some)
<1>1. /\ KeysAreAt(line, saveIter, keys, Count) /\ Cardinality(DOMAIN keys) = Count
      /\ saveIter + 4 * Count + 3 = at /\ line[at - 1] = Open /\ line[at] = ctx.key
  BY DEF Reads, NodeIsRead, Within, KeysAreRead, Count
<1>2. Count \in Nat /\ saveIter \in Nat /\ Len(line) \in Nat /\ at \in Nat /\ keys \in SomeKeys
      /\ ctx.path \in Seq(SomeKeys)
  BY LevelIs, LooksAt
<1>3. ctx.tmpListKeys = keys
  <2>1. ~Carried
    <3> SUFFICES ASSUME Carried PROVE FALSE
      OBVIOUS
    <3>1. saveIter + 4 <= Len(line) /\ keys = NoKeys
      BY DEF Carried
    <3>2. Count = 0
      BY <1>1, <3>1, NoKeysAreEmpty
    <3> QED
      BY <1>1, <1>2, <3>1, <3>2
  <2> QED
    BY <2>1 DEF Reads, KeysAreRemembered, Within
<1>4. NodesAreAt(line, ctx.path) /\ Begins(ctx.path)[Len(ctx.path) + 1] = saveIter
  <2>1. rule # "after"
    OBVIOUS
  <2> QED
    BY <2>1, PathIsAt
<1>5. NodesAreAt(o, ctx.path)
  <2>1. Begins(ctx.path)[Len(ctx.path) + 1] <= Len(line) /\ Len(line) <= Len(o)
    BY <1>1, <1>2, <1>4
  <2> QED
    BY <1>2, <1>4, <2>1, NodesAreAtToo
<1>6. KeysAreAt(o, saveIter, keys, Count)
  <2>1. saveIter + 1 <= Len(line) /\ saveIter + 4 * Count + 1 <= Len(line) /\ Len(line) <= Len(o)
    BY <1>1, <1>2
  <2>2. Cardinality(DOMAIN keys) = Count /\ saveIter + 4 * Count <= Len(line) /\ Count <= Count
    BY <1>1, <1>2
  <2>3. Count \in Int /\ Len(o) \in Nat /\ Len(line) \in Nat /\ saveIter \in Nat /\ Count \in Nat
    BY <1>2
  <2>4. KeysAreAt(line, saveIter, keys, Count) /\ keys \in SomeKeys
    BY <1>1, <1>2
  <2> QED
    BY <2>1, <2>2, <2>3, <2>4, KeysAreAtToo
<1>7. o[saveIter + 4 * Count + 2] = Open /\ o[at] = ctx.key
  <2>1. saveIter + 4 * Count + 2 = at - 1 /\ at - 1 \in 1 .. Len(line) /\ at \in 1 .. Len(line)
    BY <1>1, <1>2
  <2> QED
    BY <1>1, <2>1
<1>8. NodesAreAt(o, path) /\ KeysAreAt(o, start, some, more - 1)
  BY DEF BeginsWith
<1>9. Len(o) = saveIter + 4 * Count + 4 /\ Cardinality(DOMAIN keys) = Count
  BY <1>1, <1>2
<1>10. ctx.path = path /\ saveIter = start
  <2>1. ExpectsValue(o, ctx.path, keys)
    BY <1>4, <1>5, <1>6, <1>7, <1>9 DEF ExpectsValue
  <2>2. EndsWith(o, path, some)
    BY DEF EndsWith
  <2>3. ctx.path = path
    BY <1>2, <2>1, <2>2, ContextIsTheSame
  <2> QED
    BY <1>4, <2>3
<1>11. Count + 1 = more
  <2>1. Len(o) = saveIter + 4 * Count + 4 /\ Len(o) = saveIter + 4 * more
    BY <1>9, <1>10
  <2> QED
    BY <1>2, <2>1
<1>12. PICK i \in Instance :
         /\ Len(i) = Level /\ SubSeq(i, 1, Level - 1) = ctx.path
         /\ \A key \in DOMAIN keys : i[Level][key] = keys[key]
         /\ i[Level][ctx.key] = o[Len(o)]
  BY <1>3 DEF ValuesOf, ListInstances, PartialFitsComplete
<1>13. ASSUME NEW key \in DOMAIN some
       PROVE  i[Level][key] = some[key]
  <2>0. PICK j \in 1 .. more : o[start + 4 * j - 1] = key
    BY <1>8 DEF KeysAreAt
  <2>1. o[start + 4 * j - 1] = key /\ o[start + 4 * j] = some[key]
    BY <1>8, <2>0 DEF KeysAreAt
  <2>2. CASE j = more
    <3>1. start + 4 * j - 1 = at /\ start + 4 * j = Len(o)
      <4>1. start + 4 * more = Len(o) /\ Len(o) = at + 1 /\ at \in Nat /\ start \in Nat /\ more \in Nat
        BY <1>2
      <4>2. start + 4 * more - 1 = at
        BY <4>1
      <4> QED
        BY <2>2, <4>1, <4>2
    <3> QED
      BY <1>7, <1>12, <2>1, <3>1
  <2>3. CASE j # more
    <3>1. /\ j \in 1 .. Count /\ o[saveIter + 4 * j - 1] = key /\ o[saveIter + 4 * j] = some[key]
      BY <1>2, <1>10, <1>11, <2>1, <2>3
    <3>2. /\ o[saveIter + 4 * j - 1] \in DOMAIN keys
          /\ o[saveIter + 4 * j] = keys[o[saveIter + 4 * j - 1]]
      BY <1>6, <1>9, <3>1 DEF KeysAreAt
    <3> QED
      BY <1>12, <3>1, <3>2
  <2> QED
    BY <2>2, <2>3
<1>14. Level = Len(path) + 1 /\ Level - 1 = Len(path)
  BY <1>10, LevelIs
<1> QED
  BY <1>10, <1>12, <1>13, <1>14 DEF Exists

\* The parse ends with this context.
LEMMA OffersExist ==
  ASSUME Typed, Reads, KeysExist(line), ValuesAreOfInstances,
         NEW c \in Context, c.from \in 0 .. Len(line),
         NoValues(c) \/ (c.suggestions = ctx.suggestions /\ c.from = ctx.from),
         NEW o \in Completions(c)
  PROVE  KeysExist(o)
<1> SUFFICES ASSUME NEW path \in WrittenPaths, ~EndsInList(path), Len(path) < Depth,
                    NEW some \in SomeKeys, some # NoKeys,
                    DOMAIN some \subseteq KeysOf[Len(path) + 1], BeginsWith(o, path, some)
             PROVE  Exists(path, some)
  BY DEF KeysExist
<1> DEFINE start == Begins(path)[Len(path) + 1]
           more == Cardinality(DOMAIN some)
           last == start + 4 * more
<1>1. line \in Seq(Token) /\ Len(line) \in Nat
  BY LooksAt DEF Typed, Types
<1>2. /\ o \in Seq(Token) /\ Len(o) >= Len(line) /\ Len(o) \in Nat
      /\ \A n \in 1 .. Len(line) : o[n] = line[n]
  <2>1. o \in Seq(Token) /\ Len(o) >= Len(line) /\ \A n \in 1 .. Len(line) : o[n] = line[n]
    BY <1>1, CompletionIs
  <2> QED
    BY <2>1
<1>3. PICK s \in c.suggestions :
        /\ Len(o) \in {c.from + Len(s.value), c.from + Len(Whole(s))}
        /\ \A n \in c.from + 1 .. Len(o) :
             n - c.from \in 1 .. Len(Whole(s)) /\ o[n] = Whole(s)[n - c.from]
  BY <1>1, CompletionIs
<1>4. path \in Seq(SomeKeys) /\ Len(path) \in Nat /\ start \in Nat /\ more \in Nat \ {0}
  <2>1. path \in Seq(SomeKeys) /\ Len(path) \in Nat
    BY WrittenPathsAre
  <2>2. more \in Nat /\ more # 0
    BY SomeKeysAre, NoKeysAreEmpty
  <2> QED
    BY <2>1, <2>2, BeginsAre
<1>5. KeysAreAt(o, start, some, more - 1) /\ NodesAreAt(o, path)
  BY DEF BeginsWith
<1>6. last <= Len(o) /\ o[last] \in Value
  <2>1. more \in 1 .. more
    BY <1>4
  <2>2. last <= Len(o) /\ o[start + 4 * more - 1] \in DOMAIN some
        /\ o[start + 4 * more] = some[o[start + 4 * more - 1]]
    BY <1>5, <2>1 DEF KeysAreAt
  <2> QED
    BY <2>2, SomeKeysAre
<1>7. start + 1 <= last /\ last \in Nat
  BY <1>4
<1>8. CASE last <= Len(line)
  <2> HIDE DEF start, more
  <2>1. start <= Len(line) /\ start + 1 <= Len(line) /\ start + 4 * more <= Len(line)
    BY <1>1, <1>4, <1>7, <1>8
  <2>2. NodesAreAt(line, path)
    <3>1. \A n \in 1 .. Len(line) : line[n] = o[n]
      BY <1>2
    <3>2. Len(line) \in Nat /\ Len(line) <= Len(line)
      BY <1>1
    <3>3. path \in Seq(SomeKeys) /\ NodesAreAt(o, path)
      BY <1>4, <1>5
    <3>4. Begins(path)[Len(path) + 1] <= Len(line)
      BY <2>1 DEF start
    <3> QED
      BY <3>1, <3>2, <3>3, <3>4, NodesAreAtToo
  <2>3. KeysAreAt(line, start, some, more - 1)
    <3>1. \A n \in 1 .. Len(line) : line[n] = o[n]
      BY <1>2
    <3>2. Cardinality(DOMAIN some) = more
      BY DEF more
    <3>3. Len(line) <= Len(o) /\ more - 1 \in Int /\ more - 1 <= more /\ more - 1 # more
          /\ Len(line) <= Len(line)
      BY <1>1, <1>2, <1>4
    <3> QED
      BY <1>1, <1>4, <1>5, <2>1, <3>1, <3>2, <3>3, KeysAreAtToo
  <2>4. BeginsWith(line, path, some)
    BY <2>2, <2>3 DEF BeginsWith, start, more
  <2> QED
    BY <2>4 DEF KeysExist
<1>9. CASE last > Len(line)
  <2>1. last \in c.from + 1 .. Len(o)
    BY <1>1, <1>2, <1>6, <1>7, <1>9
  <2>2. last - c.from \in 1 .. Len(Whole(s)) /\ Whole(s)[last - c.from] \in Value
    BY <1>3, <1>6, <2>1
  <2>3. ~NoValues(c)
    BY <2>2 DEF NoValues, Whole
  <2>4. c.suggestions = ctx.suggestions /\ c.from = ctx.from /\ ~NoValues(ctx)
    BY <2>3 DEF NoValues
  <2>5. rule = "value" /\ ctx.from = at
        /\ \A t \in ctx.suggestions : \E value \in ValuesOf(ctx.key) : t = Always(<<value>>)
    BY <2>4 DEF ValuesAreOfInstances
  <2>6. PICK value \in ValuesOf(ctx.key) : s = Always(<<value>>)
    BY <2>4, <2>5
  <2>7. s.value = <<value>> /\ Whole(s) = <<value>>
    <3>1. s.value = <<value>> /\ s.more = << >>
      BY <2>6 DEF Always
    <3>2. <<value>> \in Seq({value})
      OBVIOUS
    <3> QED
      BY <3>1, <3>2, ConcatEmptySeq DEF Whole
  <2>8. Len(o) = at + 1 /\ at \in Nat /\ at <= Len(line)
    <3>1. Len(<<value>>) = 1
      OBVIOUS
    <3> QED
      BY <1>3, <2>4, <2>5, <2>7, <3>1, LooksAt
  <2> HIDE DEF start, more
  <2>9. at = Len(line) /\ Len(o) = last
    BY <1>1, <1>6, <1>7, <1>9, <2>8
  <2>10. o[Len(o)] = value
    <3>1. Len(o) \in c.from + 1 .. Len(o) /\ Len(o) - c.from = 1
      BY <2>1, <2>4, <2>5, <2>8, <2>9
    <3>2. o[Len(o)] = Whole(s)[1]
      BY <1>3, <3>1
    <3> QED
      BY <2>7, <3>2
  <2>11. /\ Begins(path)[Len(path) + 1] = start /\ Cardinality(DOMAIN some) = more
         /\ Len(o) = start + 4 * more
    BY <2>9 DEF start, more
  <2> QED
    BY <1>2, <1>4, <2>5, <2>6, <2>8, <2>9, <2>10, <2>11, SuggestedValueExists
<1> QED
  BY <1>1, <1>7, <1>8, <1>9

-----------------------------------------------------------------------------
(***************************************************************************)
(* The steps: what is read of a guided line exists                         *)
(***************************************************************************)
\* No key is left out of the nodes read before another one.
LEMMA PathIsWritten ==
  ASSUME Typed, Reads, rule # "after"
  PROVE  ctx.path \in WrittenPaths /\ ~EndsInList(ctx.path)
<1>1. ctx.path \in Seq(SomeKeys) /\ Len(ctx.path) \in Nat /\ Len(ctx.path) <= Depth
  BY LevelIs DEF Reads, PathIsRead
<1>2. \A n \in 1 .. Len(ctx.path) : DOMAIN ctx.path[n] = KeysOf[n]
  BY DEF Reads, PathIsRead
<1>3. ASSUME EndsInList(ctx.path)
      PROVE  FALSE
  <2>1. Len(ctx.path) \in 1 .. Len(ctx.path) /\ Len(ctx.path) \in 1 .. Depth
    BY <1>1, <1>3, ListsHaveKeys, EmptySeq DEF EndsInList
  <2>2. ctx.path[Len(ctx.path)] = NoKeys
    BY <1>3 DEF EndsInList
  <2> QED
    BY <1>2, <2>1, <2>2, ListsHaveKeys, NoKeysAreEmpty
<1> QED
  BY <1>1, <1>2, <1>3, WrittenPathsAre

\* All keys of the list are read: there is such an instance.
LEMMA ReadInstanceExists ==
  ASSUME Typed, Reads, KeysExist(line), rule = "suffix", DOMAIN keys = KeysOf[Level]
  PROVE  Append(ctx.path, keys) \in Instance /\ ~EndsInList(Append(ctx.path, keys))
<1> DEFINE P == Len(ctx.path)
           pushed == Append(ctx.path, keys)
<1>1. /\ P \in Nat /\ ctx.path \in Seq(SomeKeys) /\ keys \in SomeKeys /\ Count \in Nat
      /\ Level = P + 1
  BY LevelIs
<1>2. Level \in 1 .. Depth /\ KeysAreRead(Count) /\ P < Depth
  <2>1. Level <= Depth /\ KeysAreRead(Count)
    BY DEF Reads, NodeIsRead, Within
  <2> QED
    BY <1>1, <2>1, LevelIs
<1>3. keys # NoKeys
  BY <1>2, ListsHaveKeys, NoKeysAreEmpty
<1>4. NodesAreAt(line, ctx.path) /\ saveIter = Begins(ctx.path)[P + 1]
  <2>1. rule # "after"
    OBVIOUS
  <2> QED
    BY <2>1, PathIsAt
<1>5. BeginsWith(line, ctx.path, keys)
  <2>1. KeysAreAt(line, saveIter, keys, Count - 1)
    <3>1. \A i \in 1 .. Count - 1 : i \in 1 .. Count
      BY <1>1
    <3> QED
      BY <1>2, <3>1 DEF KeysAreRead, KeysAreAt
  <2> QED
    BY <1>4, <2>1 DEF BeginsWith, Count
<1>6. ctx.path \in WrittenPaths /\ ~EndsInList(ctx.path)
  <2>1. rule # "after"
    OBVIOUS
  <2> QED
    BY <2>1, PathIsWritten
<1>7. Exists(ctx.path, keys)
  <2>1. DOMAIN keys \subseteq KeysOf[P + 1]
    BY <1>1
  <2> QED
    BY <1>1, <1>2, <1>3, <1>5, <1>6, <2>1 DEF KeysExist
<1>8. PICK i \in Instance : /\ Len(i) = P + 1 /\ SubSeq(i, 1, P) = ctx.path
                            /\ \A key \in DOMAIN keys : i[P + 1][key] = keys[key]
  BY <1>7 DEF Exists
<1>9. i \in Seq(SomeKeys) /\ i[P + 1] \in [KeysOf[P + 1] -> Value]
  <2>1. i \in Seq(SomeKeys) /\ \A n \in DOMAIN i : i[n] \in [KeysOf[n] -> Value]
    BY InstanceAssumption
  <2>2. P + 1 \in DOMAIN i
    BY <1>1, <1>8, <2>1
  <2> QED
    BY <2>1, <2>2
<1>10. i[P + 1] = keys
  <2>1. keys = [key \in KeysOf[P + 1] |-> keys[key]]
    BY <1>1, SomeKeysAre
  <2> QED
    BY <1>1, <1>8, <1>9, <2>1
<1>11. /\ pushed \in Seq(SomeKeys) /\ Len(pushed) = P + 1 /\ pushed # << >>
       /\ \A n \in 1 .. P : pushed[n] = ctx.path[n]
       /\ pushed[P + 1] = keys
  BY <1>1, AppendProperties
<1> HIDE DEF pushed
<1>12. i = pushed
  <2>1. ASSUME NEW n \in 1 .. P + 1
        PROVE  i[n] = pushed[n]
    <3>1. CASE n = P + 1
      BY <1>10, <1>11, <3>1
    <3>2. CASE n # P + 1
      <4>1. n \in 1 .. P
        BY <1>1, <3>2
      <4>2. SubSeq(i, 1, P)[n] = i[n]
        BY <1>1, <1>8, <1>9, <4>1
      <4> QED
        BY <1>8, <1>11, <4>1, <4>2
    <3> QED
      BY <3>1, <3>2
  <2> QED
    BY <1>8, <1>9, <1>11, <2>1, SeqEqual
<1>13. ~EndsInList(pushed)
  BY <1>3, <1>11 DEF EndsInList
<1> QED
  BY <1>12, <1>13 DEF pushed

\* The list itself: the path to its parent exists.
LEMMA ListIsBelow ==
  ASSUME NEW path \in Seq(SomeKeys)
  PROVE  EndsInList(Append(path, NoKeys)) /\ Front(Append(path, NoKeys)) = path
<1> DEFINE pushed == Append(path, NoKeys)
<1>1. /\ pushed \in Seq(SomeKeys) /\ Len(pushed) = Len(path) + 1 /\ pushed # << >>
      /\ \A n \in 1 .. Len(path) : pushed[n] = path[n]
      /\ pushed[Len(path) + 1] = NoKeys
  BY NoKeysAreEmpty, AppendProperties
<1>2. Len(path) \in Nat
  OBVIOUS
<1> HIDE DEF pushed
<1>3. EndsInList(pushed)
  BY <1>1 DEF EndsInList
<1>4. Front(pushed) = path
  <2>1. Front(pushed) = SubSeq(pushed, 1, Len(path))
    BY <1>1, <1>2 DEF Front
  <2>2. \A n \in 1 .. Len(path) : pushed[n] \in SomeKeys
    BY <1>1
  <2>3. /\ Front(pushed) \in Seq(SomeKeys) /\ Len(Front(pushed)) = Len(path)
        /\ \A n \in 1 .. Len(path) : Front(pushed)[n] = pushed[n]
    BY <1>1, <1>2, <2>1, <2>2, SubSeqProperties
  <2> QED
    BY <1>1, <2>3, SeqEqual
<1> QED
  BY <1>3, <1>4 DEF pushed

\* What a step may rely on while everything on the line was offered.
Sure == Reads /\ KeysExist(line) /\ ValuesAreOfInstances /\ PathExists

LEMMA GoesGuided ==
  ASSUME KeysExist(line), NEW next, Step(next), Goes, ValuesAreOfInstances', PathExists'
  PROVE  Guided'
BY DEF Guided, Step, Goes, user

LEMMA EndsGuided ==
  ASSUME Typed, Sure, NEW next, Step(next), NEW c \in Context, Ends(c), c.from \in 0 .. Len(line),
         NoValues(c) \/ (c.suggestions = ctx.suggestions /\ c.from = ctx.from),
         c.path = ctx.path
  PROVE  Guided'
<1>1. line' = line /\ ctx' = c /\ phase' = "parsed" /\ \A o \in offered' : o \in Completions(c)
  BY DEF Step, Ends, user
<1>2. \A o \in offered' : KeysExist(o)
  BY <1>1, OffersExist DEF Sure
<1>3. PathExists'
  BY <1>1 DEF Sure, PathExists
<1> QED
  BY <1>1, <1>2, <1>3 DEF Guided, Sure

LEMMA NodeFailsGuided ==
  ASSUME Typed, Sure, NEW c \in Context, NodeFails(c), c.from \in 0 .. Len(line),
         NoValues(c), c.path = ctx.path
  PROVE  Guided'
<1>1. CASE Step("node") /\ ctx' = c /\ Goes
  <2>1. ValuesAreOfInstances' /\ PathExists'
    BY <1>1 DEF ValuesAreOfInstances, PathExists, Sure, NoValues
  <2> QED
    BY <1>1, <2>1, GoesGuided DEF Sure
<1>2. CASE (Step("accepted") \/ Step("refused")) /\ Ends(c)
  BY <1>2, EndsGuided
<1> QED
  BY <1>1, <1>2 DEF NodeFails

LEMMA ThrowsGuided ==
  ASSUME Typed, Sure, NEW message \in Messages, Throws(message)
  PROVE  Guided'
<1> DEFINE c == [ctx EXCEPT !.error = message]
<1>1. /\ c \in Context /\ c.from = ctx.from /\ c.path = ctx.path
      /\ c.suggestions = ctx.suggestions /\ c.from \in 0 .. Len(line)
  BY LevelIs DEF Typed, Types, Context
<1>2. Step("refused") /\ Ends(c)
  BY DEF Throws
<1> HIDE DEF c
<1> QED
  BY <1>1, <1>2, EndsGuided

\* A node ends, or it was none.
LEMMA NodeEndsGuided ==
  ASSUME Typed, Sure, rule = "suffix", NEW c \in Context, c.path = ctx.path,
         c.suggestions = ctx.suggestions, c.from = ctx.from,
         NEW end, NEW assigned \in SomeKeys, NodeEnds(c, end, assigned),
         \/ DOMAIN keys = KeysOf[Level] /\ assigned = keys
         \/ assigned = NoKeys
  PROVE  Guided'
<1>1. NoValues(c) /\ c.from \in 0 .. Len(line) /\ ctx.path \in Seq(SomeKeys)
  BY LevelIs DEF Sure, ValuesAreOfInstances, NoValues
<1>2. CASE MayEnd(end)
  <2> DEFINE pushed == PushPathFragment(c, assigned)
  <2>1. Step("after") /\ ctx' = pushed /\ Goes
    BY <1>2, NodeEndsIs
  <2>2. pushed.path = Append(ctx.path, assigned) /\ pushed.suggestions = c.suggestions
    BY DEF PushPathFragment, Context
  <2> HIDE DEF pushed
  <2>3. ValuesAreOfInstances'
    BY <1>1, <2>1, <2>2 DEF ValuesAreOfInstances, NoValues
  <2>4. PathExists'
    <3>1. CASE DOMAIN keys = KeysOf[Level] /\ assigned = keys
      BY <2>1, <2>2, <3>1, ReadInstanceExists DEF Sure, PathExists
    <3>2. CASE assigned = NoKeys
      <4>1. ~EndsInList(ctx.path)
        <5>1. rule # "after"
          OBVIOUS
        <5> QED
          BY <5>1, PathIsWritten DEF Sure
      <4>2. ctx.path \in Instance \cup {<< >>}
        BY <4>1 DEF Sure, PathExists
      <4>3. EndsInList(ctx'.path) /\ Front(ctx'.path) = ctx.path
        BY <1>1, <2>1, <2>2, <3>2, ListIsBelow
      <4> QED
        BY <4>2, <4>3 DEF PathExists
    <3> QED
      BY <3>1, <3>2
  <2> QED
    BY <2>1, <2>3, <2>4, GoesGuided DEF Sure
<1>3. CASE ~MayEnd(end)
  BY <1>1, <1>3, NodeEndsIs, NodeFailsGuided
<1> QED
  BY <1>2, <1>3

\* A token that is no value.
LEMMA NoValueIn ==
  ASSUME NEW token, token \notin Value
  PROVE  \A n \in 1 .. Len(<<token>> \o << >>) : (<<token>> \o << >>)[n] \notin Value
<1>1. <<token>> \in Seq({token}) /\ Len(<<token>>) = 1 /\ <<token>>[1] = token
  OBVIOUS
<1>2. <<token>> \o << >> = <<token>>
  BY <1>1, ConcatEmptySeq
<1> QED
  BY <1>1, <1>2

LEMMA NodeGuided ==
  ASSUME Typed, Sure, phase = "parsing", Node
  PROVE  Guided'
<1> DEFINE here == [value |-> <<Name>>, more |-> <<Open>>]
           S == IF Level <= Depth THEN {here} ELSE {}
           c == Suggest(ctx, at, S)
<1>1. S \subseteq Suggestions
  <2>1. <<Name>> \in Seq(Token) /\ <<Open>> \in Seq(Token)
    BY DEF Token
  <2>2. here \in Suggestions
    BY <2>1 DEF Suggestions
  <2> HIDE DEF here
  <2> QED
    BY <2>2
<1>2. ctx \in Context /\ at \in Nat /\ at \in 0 .. Len(line)
  BY LooksAt DEF Typed, Types
<1>3. \A s \in S : \A n \in 1 .. Len(s.value \o s.more) : (s.value \o s.more)[n] \notin Value
  <2>1. <<Name>> \in Seq({Name, Open}) /\ <<Open>> \in Seq({Name, Open})
    OBVIOUS
  <2>2. <<Name>> \o <<Open>> \in Seq({Name, Open})
    BY <2>1, LongerIs
  <2>3. Name \notin Value /\ Open \notin Value
    BY TokensDiffer
  <2>4. here.value \o here.more \in Seq({Name, Open})
    BY <2>2
  <2>5. \A w \in Seq({Name, Open}) : \A n \in 1 .. Len(w) : w[n] \notin Value
    <3>1. \A w \in Seq({Name, Open}) : \A n \in 1 .. Len(w) : w[n] \in {Name, Open}
      OBVIOUS
    <3> QED
      BY <2>3, <3>1
  <2> HIDE DEF here
  <2>6. \A n \in 1 .. Len(here.value \o here.more) : (here.value \o here.more)[n] \notin Value
    BY <2>4, <2>5
  <2> QED
    BY <2>6
<1>4. IF Look = Name /\ Level <= Depth THEN Step("suffix") /\ ctx' = c /\ Goes ELSE NodeFails(c)
  BY DEF Node
<1> HIDE DEF S
<1>5. c \in Context /\ c.from = at /\ c.path = ctx.path /\ c.suggestions = S
  BY <1>1, <1>2, SuggestIs
<1> HIDE DEF c
<1>6. NoValues(c)
  BY <1>3, <1>5 DEF NoValues
<1>7. CASE Look = Name /\ Level <= Depth
  <2>1. ValuesAreOfInstances' /\ PathExists'
    BY <1>4, <1>5, <1>6, <1>7 DEF ValuesAreOfInstances, PathExists, Sure, NoValues
  <2> QED
    BY <1>4, <1>7, <2>1, GoesGuided DEF Sure
<1>8. CASE ~(Look = Name /\ Level <= Depth)
  BY <1>2, <1>4, <1>5, <1>6, <1>8, NodeFailsGuided
<1> QED
  BY <1>7, <1>8

LEMMA OpenKeyGuided ==
  ASSUME Typed, Sure, OpenKey
  PROVE  Guided'
<1> DEFINE S == {Always(<<key>>) : key \in Missing(ctx)}
<1>1. Level <= Depth
  BY DEF OpenKey, Sure, Reads, NodeIsRead, Within
<1>2. Step("key") /\ Goes /\ ctx' = Suggest(ctx, at', S)
  BY DEF OpenKey
<1>3. ctx'.suggestions = S /\ ctx'.path = ctx.path
  BY <1>2 DEF Suggest, Typed, Types, Context
<1>4. NoValues(ctx')
  <2>1. ASSUME NEW s \in S
        PROVE  \A n \in 1 .. Len(s.value \o s.more) : (s.value \o s.more)[n] \notin Value
    <3>1. PICK key \in Missing(ctx) : s = Always(<<key>>)
      OBVIOUS
    <3>2. key \notin Value
      BY <1>1, LevelIs, TokensDiffer DEF Missing
    <3>3. s.value = <<key>> /\ s.more = << >>
      BY <3>1 DEF Always
    <3> QED
      BY <3>2, <3>3, NoValueIn
  <2> HIDE DEF S
  <2> QED
    BY <1>3, <2>1 DEF NoValues
<1>5. ValuesAreOfInstances' /\ PathExists'
  BY <1>3, <1>4 DEF ValuesAreOfInstances, PathExists, Sure, NoValues
<1> QED
  BY <1>2, <1>5, GoesGuided DEF Sure

\* createValueSuggestions finds the values among those of the instances.
LEMMA KeyNameGuided ==
  ASSUME Typed, Sure, enums = {}, phase = "parsing", KeyName
  PROVE  Guided'
<1> DEFINE S == {Always(<<value>>) : value \in ValuesOf(Look)}
           c == IF completing THEN Suggest(ctx, at + 1, S) ELSE ctx
<1>1. /\ Step("value") /\ Goes /\ at' = at + 1 /\ ctx' = [c EXCEPT !.key = Look]
      /\ rule = "key" /\ rule' = "value"
  BY DEF KeyName, CreateSetSuggestions, CreateValueSuggestions, Step
<1>2. ctx'.path = ctx.path /\ ctx'.tmpListKeys = ctx.tmpListKeys /\ ctx'.key = Look
  <2>1. NodeIsRead
    BY DEF Sure, Reads
  <2> QED
    BY <2>1, KeyNameTyped
<1>3. ctx \in Context
  BY DEF Typed, Types
<1>4. ValuesOf(ctx.key)' = ValuesOf(Look)
  BY <1>2 DEF ValuesOf, ListInstances, PartialFitsComplete, Level
<1>5. ValuesAreOfInstances'
  <2>1. CASE completing
    <3>1. ctx'.suggestions = S /\ ctx'.from = at + 1
      <4>1. ctx' = [Suggest(ctx, at + 1, S) EXCEPT !.key = Look]
        BY <1>1, <2>1
      <4> HIDE DEF S
      <4> QED
        BY <1>3, <4>1 DEF Suggest, Context
    <3>2. ASSUME NEW s \in ctx'.suggestions
          PROVE  \E value \in ValuesOf(ctx.key)' : s = Always(<<value>>)
      BY <1>4, <3>1
    <3> HIDE DEF S
    <3> QED
      BY <1>1, <3>1, <3>2 DEF ValuesAreOfInstances
  <2>2. CASE ~completing
    <3>1. ctx'.suggestions = ctx.suggestions
      BY <1>1, <1>3, <2>2 DEF Context
    <3>2. NoValues(ctx)
      BY <1>1 DEF Sure, ValuesAreOfInstances
    <3> QED
      BY <3>1, <3>2 DEF ValuesAreOfInstances, NoValues
  <2> QED
    BY <2>1, <2>2
<1>6. PathExists'
  BY <1>2 DEF Sure, PathExists
<1> QED
  BY <1>1, <1>5, <1>6, GoesGuided DEF Sure

LEMMA KeyValueGuided ==
  ASSUME Typed, Sure, KeyValue
  PROVE  Guided'
<1> DEFINE b == [ctx EXCEPT !.tmpListKeys = Given(@, ctx.key, Look)]
           end == IF Missing(b) = {} THEN Slash ELSE Open
           S == {Always(<<Close, end>>)}
<1>1. Step("close") /\ Goes /\ ctx' = Suggest(b, at + 1, S)
  BY DEF KeyValue, SuggestKeysEnd
<1>2. ctx'.suggestions = S /\ ctx'.path = ctx.path
  BY <1>1 DEF Suggest, Typed, Types, Context
<1>3. NoValues(ctx')
  <2>1. Close \notin Value /\ end \notin Value
    BY TokensDiffer
  <2> HIDE DEF end
  <2>2. <<Close, end>> \o << >> = <<Close, end>> /\ Len(<<Close, end>>) = 2
    OBVIOUS
  <2>3. \A n \in 1 .. 2 : <<Close, end>>[n] \in {Close, end}
    OBVIOUS
  <2>4. ASSUME NEW s \in S
        PROVE  \A n \in 1 .. Len(s.value \o s.more) : (s.value \o s.more)[n] \notin Value
    <3>1. s.value = <<Close, end>> /\ s.more = << >>
      BY DEF Always
    <3> QED
      BY <2>1, <2>2, <2>3, <3>1
  <2> HIDE DEF S
  <2> QED
    BY <1>2, <2>4 DEF NoValues
<1>4. ValuesAreOfInstances' /\ PathExists'
  BY <1>2, <1>3 DEF ValuesAreOfInstances, PathExists, Sure, NoValues
<1> QED
  BY <1>1, <1>4, GoesGuided DEF Sure

\* The handlers that leave the suggestions alone.
LEMMA ContextStaysGuided ==
  ASSUME Sure, rule # "value", NEW next, Step(next), Goes, ctx' = ctx
  PROVE  Guided'
<1>1. ValuesAreOfInstances' /\ PathExists'
  BY DEF Sure, ValuesAreOfInstances, NoValues, PathExists
<1> QED
  BY <1>1, GoesGuided DEF Sure

LEMMA SuffixGuided ==
  ASSUME Typed, Sure, phase = "parsing", SuffixSucceeds \/ SuffixFails
  PROVE  Guided'
<1>1. ctx \in Context /\ keys \in SomeKeys /\ NoKeys \in SomeKeys /\ ctx.from \in 0 .. Len(line)
  BY NoKeysAreEmpty, LevelIs DEF Typed, Types
<1>2. CASE SuffixSucceeds
  <2> DEFINE c == [ctx EXCEPT !.tmpListKeys = NoKeys]
  <2>1. c \in Context /\ c.path = ctx.path /\ c.suggestions = ctx.suggestions /\ c.from = ctx.from
    BY <1>1 DEF Context
  <2>2. rule = "suffix" /\ DOMAIN keys = KeysOf[Level] /\ NodeEnds(c, at, keys)
    BY <1>2 DEF SuffixSucceeds
  <2> HIDE DEF c
  <2> QED
    BY <1>1, <2>1, <2>2, NodeEndsGuided
<1>3. CASE SuffixFails
  <2> DEFINE c == [ctx EXCEPT !.error = "not enough"]
  <2>1. c \in Context /\ c.path = ctx.path /\ c.suggestions = ctx.suggestions /\ c.from = ctx.from
    BY <1>1 DEF Context, Messages
  <2>2. /\ rule = "suffix"
        /\ IF listEnd THEN NodeEnds(c, saveIter + 1, NoKeys) ELSE NodeFails(c)
    BY <1>3 DEF SuffixFails
  <2> HIDE DEF c
  <2>3. CASE listEnd
    BY <1>1, <2>1, <2>2, <2>3, NodeEndsGuided
  <2>4. CASE ~listEnd
    <3>1. NoValues(c)
      BY <2>1, <2>2 DEF Sure, ValuesAreOfInstances, NoValues
    <3> QED
      BY <1>1, <2>1, <2>2, <2>4, <3>1, NodeFailsGuided
  <2> QED
    BY <2>3, <2>4
<1> QED
  BY <1>2, <1>3

LEMMA PathEndsGuided ==
  ASSUME Typed, Sure, PathEnds
  PROVE  Guided'
<1>1. (Step("accepted") \/ Step("refused")) /\ Ends(ctx)
  BY DEF PathEnds
<1>2. ctx \in Context /\ ctx.from \in 0 .. Len(line)
  BY LevelIs DEF Typed, Types
<1> QED
  BY <1>1, <1>2, EndsGuided

\* The user's steps: what is taken was offered.
LEMMA UserGuided ==
  ASSUME Guided,
         \/ \E tab \in BOOLEAN : Press(tab)
         \/ \E token \in Token : Type(token)
         \/ \E completed \in offered : Take(completed)
  PROVE  Guided'
<1>1. ASSUME NEW tab \in BOOLEAN, Press(tab)
      PROVE  Guided'
  <2>1. /\ phase' = "parsing" /\ ctx' = NewContext /\ line' = line /\ guided' = guided
        /\ enums' = enums
    BY <1>1 DEF Press, NewParser, user
  <2>2. ValuesAreOfInstances'
    BY <2>1 DEF ValuesAreOfInstances, NoValues, NewContext
  <2>3. PathExists'
    <3>1. ctx'.path = << >>
      BY <2>1, NewContextIs
    <3>2. ~EndsInList(<< >>)
      BY DEF EndsInList
    <3> QED
      BY <3>1, <3>2 DEF PathExists
  <2> QED
    BY <2>1, <2>2, <2>3 DEF Guided
<1>2. ASSUME NEW token \in Token, Type(token)
      PROVE  Guided'
  BY <1>2 DEF Type, Guided
<1>3. ASSUME NEW completed \in offered, Take(completed)
      PROVE  Guided'
  <2>1. /\ phase = "parsed" /\ line' = completed /\ phase' = "typing" /\ guided' = guided
        /\ enums' = enums
    BY <1>3 DEF Take
  <2> QED
    BY <2>1 DEF Guided
<1> QED
  BY <1>1, <1>2, <1>3

LEMMA GInvInit ==
  ASSUME Init
  PROVE  GInv
<1>1. line = << >> /\ phase = "typing"
  BY DEF Init
<1>2. ASSUME NEW path \in WrittenPaths, NEW some \in SomeKeys, some # NoKeys,
             BeginsWith(line, path, some)
      PROVE  FALSE
  <2>1. path \in Seq(SomeKeys)
    BY WrittenPathsAre
  <2>2. Begins(path)[Len(path) + 1] \in Nat /\ Cardinality(DOMAIN some) \in Nat
    BY <2>1, BeginsAre, SomeKeysAre
  <2>3. Begins(path)[Len(path) + 1] + 4 * Cardinality(DOMAIN some) <= Len(line)
        /\ line[Begins(path)[Len(path) + 1] + 1] = Name
    BY <1>2 DEF BeginsWith, KeysAreAt
  <2>4. Cardinality(DOMAIN some) = 0
    BY <1>1, <2>2, <2>3
  <2> QED
    BY <1>2, <2>4, NoKeysAreEmpty
<1> QED
  BY <1>1, <1>2, KInvInit DEF GInv, Guided, KeysExist

LEMMA GInvKept ==
  ASSUME GInv, [Next]_vars
  PROVE  GInv'
<1>1. KInv' /\ Typed
  BY KInvKept DEF GInv, KInv
<1> SUFFICES Guided'
  BY <1>1 DEF GInv
<1>2. CASE UNCHANGED vars
  <2>1. /\ ctx' = ctx /\ line' = line /\ phase' = phase /\ offered' = offered /\ rule' = rule
        /\ at' = at /\ guided' = guided /\ enums' = enums
    BY <1>2 DEF vars, user, parser
  <2>2. ValuesOf(ctx.key)' = ValuesOf(ctx.key)
    BY <2>1 DEF ValuesOf, ListInstances, PartialFitsComplete, Level
  <2>3. ValuesAreOfInstances => ValuesAreOfInstances'
    BY <2>1, <2>2 DEF ValuesAreOfInstances, NoValues
  <2>4. PathExists => PathExists'
    BY <2>1 DEF PathExists
  <2> QED
    BY <2>1, <2>3, <2>4 DEF GInv, Guided
<1>3. CASE \/ \E tab \in BOOLEAN : Press(tab)
           \/ \E token \in Token : Type(token)
           \/ \E completed \in offered : Take(completed)
  BY <1>3, UserGuided DEF GInv
<1>4. CASE Parses
  <2>1. phase = "parsing" /\ guided' = guided /\ enums' = enums
    BY <1>4 DEF Parses, Node, NodeFails, OpenKey, KeyName, NoKeyName, KeyValue, KeyAgain,
                NoKeyValue, CloseKey, NoCloseKey, SuffixSucceeds, SuffixFails, NodeEnds,
                NodeGoesOn, PathEnds, Throws, Step, user
  <2>2. CASE ~(guided /\ enums = {})
    BY <2>1, <2>2 DEF Guided
  <2>3. CASE guided /\ enums = {}
    <3>1. Sure /\ enums = {}
      BY <2>1, <2>3 DEF GInv, KInv, Parsing, Guided, Sure
    <3>2. ctx.error \in Messages
      BY <1>1, LevelIs
    <3>3. CASE NoKeyName \/ KeyAgain \/ NoKeyValue \/ NoCloseKey
      <4>1. PICK message \in Messages : Throws(message)
        BY <3>2, <3>3 DEF NoKeyName, KeyAgain, NoKeyValue, NoCloseKey, Messages
      <4> QED
        BY <1>1, <3>1, <4>1, ThrowsGuided
    <3>4. CASE CloseKey \/ NodeGoesOn
      <4>1. rule # "value" /\ ctx' = ctx /\ Goes /\ \E next : Step(next)
        BY <3>4 DEF CloseKey, NodeGoesOn
      <4> QED
        BY <3>1, <4>1, ContextStaysGuided
    <3>5. CASE Node
      BY <1>1, <2>1, <3>1, <3>5, NodeGuided
    <3>6. CASE OpenKey
      BY <1>1, <3>1, <3>6, OpenKeyGuided
    <3>7. CASE KeyName
      BY <1>1, <2>1, <3>1, <3>7, KeyNameGuided
    <3>8. CASE KeyValue
      BY <1>1, <3>1, <3>8, KeyValueGuided
    <3>9. CASE SuffixSucceeds \/ SuffixFails
      BY <1>1, <2>1, <3>1, <3>9, SuffixGuided
    <3>10. CASE PathEnds
      BY <1>1, <3>1, <3>10, PathEndsGuided
    <3> QED
      BY <1>4, <3>3, <3>4, <3>5, <3>6, <3>7, <3>8, <3>9, <3>10 DEF Parses
  <2> QED
    BY <2>2, <2>3
<1> QED
  BY <1>2, <1>3, <1>4 DEF Next

LEMMA SpecKeepsGInv == Spec => []GInv
<1>1. Init => GInv
  BY GInvInit
<1>2. GInv /\ [Next]_vars => GInv'
  BY GInvKept
<1> QED
  BY <1>1, <1>2, PTL DEF Spec

\* createValueSuggestions: however the line was completed and parsed, and
\* however often, who only takes what is offered never comes to the path of an
\* instance that is not there (where no key has suggestions of its own).
THEOREM ListKeysSuggestedInstancesExist == Spec => []SuggestedInstancesExist
<1>1. GInv => SuggestedInstancesExist
  BY DEF GInv, Guided, SuggestedInstancesExist, PathExists
<1> QED
  BY <1>1, SpecKeepsGInv, PTL

-----------------------------------------------------------------------------
(***************************************************************************)
(* The texts of an instance's path                                         *)
(***************************************************************************)
\* The function FlattenSeq is defined by, its values up to n.
Flattens(g, n, seqs) ==
  g = [i \in 1 .. n |-> IF i = 1 THEN seqs[i] ELSE g[i - 1] \o seqs[i]]

LEMMA FlattensExists ==
  ASSUME NEW seqs, NEW n \in Nat
  PROVE  \E g : Flattens(g, n, seqs)
<1> DEFINE T == {m \in Nat : ~ \E g : Flattens(g, m, seqs)}
<1> SUFFICES ASSUME T # {} PROVE FALSE
  OBVIOUS
<1>1. PICK m \in T : \A k \in T : ~(k < m)
  BY LeastExists
<1>2. CASE m = 0
  <2>1. Flattens([i \in 1 .. 0 |-> << >>], 0, seqs)
    BY DEF Flattens
  <2> QED
    BY <1>2, <2>1
<1>3. CASE m # 0
  <2>1. m - 1 \in Nat /\ m - 1 < m /\ m \in Nat
    BY <1>3
  <2>2. PICK g : Flattens(g, m - 1, seqs)
    BY <1>1, <2>1
  <2> DEFINE h == [i \in 1 .. m |-> IF i < m THEN g[i]
                                    ELSE IF i = 1 THEN seqs[i] ELSE g[i - 1] \o seqs[i]]
  <2>3. ASSUME NEW i \in 1 .. m
        PROVE  h[i] = IF i = 1 THEN seqs[i] ELSE h[i - 1] \o seqs[i]
    <3>1. CASE i = m
      <4>1. i # 1 => h[i - 1] = g[i - 1]
        BY <2>1, <3>1
      <4> QED
        BY <2>1, <3>1, <4>1
    <3>2. CASE i # m
      <4>1. i \in 1 .. m - 1 /\ (i # 1 => i - 1 \in 1 .. m - 1)
        BY <2>1, <3>2
      <4>2. g[i] = IF i = 1 THEN seqs[i] ELSE g[i - 1] \o seqs[i]
        BY <2>2, <4>1 DEF Flattens
      <4>3. h[i] = g[i] /\ (i # 1 => h[i - 1] = g[i - 1])
        BY <2>1, <4>1
      <4> QED
        BY <4>2, <4>3
    <3> QED
      BY <3>1, <3>2
  <2>4. h = [i \in 1 .. m |-> h[i]]
    OBVIOUS
  <2> HIDE DEF h
  <2>5. Flattens(h, m, seqs)
    BY <2>3, <2>4 DEF Flattens
  <2> QED
    BY <1>1, <2>5
<1> QED
  BY <1>2, <1>3

\* What one sequence contributes to the whole, with the places where each ends.
Holds(whole, seqs, ends, n) ==
  /\ Len(whole) = ends[n]
  /\ \A i \in 1 .. n : ends[i] <= ends[n]
  /\ \A i \in 1 .. n : \A k \in 1 .. Len(seqs[i]) : whole[ends[i - 1] + k] = seqs[i][k]

LEMMA Places ==
  /\ \A e, l \in Nat : \A k \in 1 .. l : e + k \in 1 .. e + l /\ ~(e + k <= e) /\ (e + k) - e = k
  /\ \A d, e \in Nat : \A k \in 1 .. d : d <= e => k \in 1 .. e
OBVIOUS

LEMMA ConcatIs ==
  ASSUME NEW S, NEW s \in Seq(S), NEW t \in Seq(S)
  PROVE  /\ s \o t \in Seq(S) /\ Len(s \o t) = Len(s) + Len(t)
         /\ \A k \in 1 .. Len(s) : (s \o t)[k] = s[k]
         /\ \A k \in 1 .. Len(t) : (s \o t)[Len(s) + k] = t[k]
<1>1. /\ s \o t \in Seq(S) /\ Len(s \o t) = Len(s) + Len(t)
      /\ \A k \in 1 .. Len(s) + Len(t) : (s \o t)[k] = IF k <= Len(s) THEN s[k] ELSE t[k - Len(s)]
  BY ConcatProperties
<1>2. Len(s) \in Nat /\ Len(t) \in Nat
  OBVIOUS
<1>3. ASSUME NEW k \in 1 .. Len(s)
      PROVE  (s \o t)[k] = s[k]
  <2>1. k \in 1 .. Len(s) + Len(t) /\ k <= Len(s)
    BY <1>2
  <2> QED
    BY <1>1, <2>1
<1>4. ASSUME NEW k \in 1 .. Len(t)
      PROVE  (s \o t)[Len(s) + k] = t[k]
  <2> DEFINE place == Len(s) + k
  <2>1. place \in 1 .. Len(s) + Len(t) /\ ~(place <= Len(s)) /\ place - Len(s) = k
    BY <1>2
  <2> HIDE DEF place
  <2>2. (s \o t)[place] = t[k]
    BY <1>1, <2>1
  <2> QED
    BY <2>2 DEF place
<1> QED
  BY <1>1, <1>3, <1>4

\* One token before or after the others.
LEMMA FirstThen ==
  ASSUME NEW S, NEW x \in S, NEW t \in Seq(S)
  PROVE  /\ <<x>> \o t \in Seq(S) /\ Len(<<x>> \o t) = 1 + Len(t) /\ (<<x>> \o t)[1] = x
         /\ \A k \in 1 .. Len(t) : (<<x>> \o t)[1 + k] = t[k]
<1>1. <<x>> \in Seq(S) /\ Len(<<x>>) = 1 /\ <<x>>[1] = x /\ 1 \in 1 .. 1
  OBVIOUS
<1>2. PICK first : <<x>> = first
  OBVIOUS
<1>3. first \in Seq(S) /\ Len(first) = 1 /\ first[1] = x
  BY <1>1, <1>2
<1>4. /\ first \o t \in Seq(S) /\ Len(first \o t) = Len(first) + Len(t)
      /\ \A k \in 1 .. Len(first) : (first \o t)[k] = first[k]
      /\ \A k \in 1 .. Len(t) : (first \o t)[Len(first) + k] = t[k]
  BY <1>3, ConcatIs
<1> QED
  BY <1>1, <1>2, <1>3, <1>4

LEMMA ThenLast ==
  ASSUME NEW S, NEW t \in Seq(S), NEW x \in S
  PROVE  /\ t \o <<x>> \in Seq(S) /\ Len(t \o <<x>>) = Len(t) + 1 /\ (t \o <<x>>)[Len(t) + 1] = x
         /\ \A k \in 1 .. Len(t) : (t \o <<x>>)[k] = t[k]
<1>1. <<x>> \in Seq(S) /\ Len(<<x>>) = 1 /\ <<x>>[1] = x /\ 1 \in 1 .. 1
  OBVIOUS
<1>2. PICK last : <<x>> = last
  OBVIOUS
<1>3. last \in Seq(S)
  BY <1>1, <1>2
<1>4. /\ t \o last \in Seq(S) /\ Len(t \o last) = Len(t) + Len(last)
      /\ \A k \in 1 .. Len(t) : (t \o last)[k] = t[k]
      /\ \A k \in 1 .. Len(last) : (t \o last)[Len(t) + k] = last[k]
  BY <1>3, ConcatIs
<1>5. Len(last) = 1 /\ last[1] = x
  BY <1>1, <1>2
<1> QED
  BY <1>1, <1>2, <1>4, <1>5

LEMMA FlattenIs ==
  ASSUME NEW S, NEW n \in Nat, NEW seqs \in [1 .. n -> Seq(S)], NEW ends \in [0 .. n -> Nat],
         ends[0] = 0, \A i \in 1 .. n : ends[i] = ends[i - 1] + Len(seqs[i])
  PROVE  FlattenSeq(seqs) \in Seq(S) /\ Holds(FlattenSeq(seqs), seqs, ends, n)
<1>1. Len(seqs) = n
  OBVIOUS
<1>0. ASSUME NEW i \in 1 .. n
      PROVE  /\ seqs[i] \in Seq(S) /\ Len(seqs[i]) \in Nat /\ ends[i] \in Nat /\ ends[i - 1] \in Nat
             /\ ends[i] = ends[i - 1] + Len(seqs[i])
  <2>1. i \in 0 .. n /\ i - 1 \in 0 .. n
    OBVIOUS
  <2>2. seqs[i] \in Seq(S)
    OBVIOUS
  <2>3. Len(seqs[i]) \in Nat
    BY <2>2
  <2> QED
    BY <2>1, <2>2, <2>3
<1>2. CASE n = 0
  <2>1. FlattenSeq(seqs) = seqs /\ seqs \in Seq(S)
    BY <1>1, <1>2 DEF FlattenSeq
  <2> QED
    BY <1>1, <1>2, <2>1 DEF Holds
<1>3. CASE n # 0
  <2> DEFINE g == CHOOSE g : Flattens(g, n, seqs)
             T == {m \in 1 .. n : ~(g[m] \in Seq(S) /\ Holds(g[m], seqs, ends, m))}
  <2>1. Flattens(g, n, seqs)
    BY FlattensExists
  <2>2. FlattenSeq(seqs) = g[n]
    BY <1>1, <1>3 DEF FlattenSeq, Flattens
  <2> HIDE DEF g
  <2>3. \A m \in 1 .. n : g[m] = IF m = 1 THEN seqs[m] ELSE g[m - 1] \o seqs[m]
    BY <2>1 DEF Flattens
  <2>4. T = {}
    <3> SUFFICES ASSUME T # {} PROVE FALSE
      OBVIOUS
    <3>0. T \subseteq Nat
      OBVIOUS
    <3>1. PICK m \in T : \A k \in T : ~(k < m)
      BY <3>0, LeastExists
    <3>2. /\ m \in 1 .. n /\ seqs[m] \in Seq(S) /\ Len(seqs[m]) \in Nat /\ ends[m] \in Nat
          /\ ends[m - 1] \in Nat /\ ends[m] = ends[m - 1] + Len(seqs[m])
      BY <1>0
    <3>3. CASE m = 1
      <4>1. g[m] = seqs[m] /\ ends[m] = Len(seqs[m])
        BY <2>3, <3>2, <3>3
      <4>2. \A k \in 1 .. Len(seqs[1]) : g[m][ends[0] + k] = seqs[1][k]
        BY <3>3, <4>1
      <4> QED
        BY <3>1, <3>2, <3>3, <4>1, <4>2 DEF Holds
    <3>4. CASE m # 1
      <4>1. m - 1 \in 1 .. n /\ m - 1 < m
        BY <3>2, <3>4
      <4>2. g[m - 1] \in Seq(S) /\ Holds(g[m - 1], seqs, ends, m - 1)
        BY <3>1, <4>1
      <4>3. g[m] = g[m - 1] \o seqs[m]
        BY <2>3, <3>2, <3>4
      <4>4. PICK s : g[m - 1] = s
        OBVIOUS
      <4>5. PICK t : seqs[m] = t
        OBVIOUS
      <4>6. s \in Seq(S) /\ t \in Seq(S) /\ g[m] = s \o t /\ Len(s) = ends[m - 1]
            /\ Len(t) \in Nat /\ Len(t) = Len(seqs[m])
        <5>1. s \in Seq(S) /\ Len(s) = ends[m - 1]
          BY <4>2, <4>4 DEF Holds
        <5>2. t \in Seq(S) /\ Len(t) \in Nat /\ Len(t) = Len(seqs[m])
          BY <3>2, <4>5
        <5>3. g[m] = s \o t
          BY <4>3, <4>4, <4>5
        <5> QED
          BY <5>1, <5>2, <5>3
      <4>7. /\ g[m] \in Seq(S) /\ Len(g[m]) = Len(s) + Len(t)
            /\ \A k \in 1 .. Len(s) : g[m][k] = s[k]
            /\ \A k \in 1 .. Len(t) : g[m][Len(s) + k] = t[k]
        <5>1. s \in Seq(S) /\ t \in Seq(S)
          BY <4>6
        <5>2. /\ s \o t \in Seq(S) /\ Len(s \o t) = Len(s) + Len(t)
              /\ \A k \in 1 .. Len(s) : (s \o t)[k] = s[k]
              /\ \A k \in 1 .. Len(t) : (s \o t)[Len(s) + k] = t[k]
          BY <5>1, ConcatIs
        <5>3. g[m] = s \o t
          BY <4>6
        <5> QED
          BY <5>2, <5>3
      <4>8. Len(g[m]) = ends[m]
        BY <3>2, <4>6, <4>7
      <4>9. \A i \in 1 .. m : ends[i] <= ends[m]
        <5> TAKE i \in 1 .. m
        <5>1. CASE i = m
          BY <3>2, <5>1
        <5>2. CASE i # m
          <6>1. i \in 1 .. m - 1 /\ ends[i] \in Nat
            <7>1. i \in 1 .. n /\ i \in 1 .. m - 1
              BY <3>2, <5>2
            <7> QED
              BY <1>0, <7>1
          <6>2. ends[i] <= ends[m - 1]
            BY <4>2, <6>1 DEF Holds
          <6> QED
            BY <3>2, <6>1, <6>2
        <5> QED
          BY <5>1, <5>2
      <4>10. ASSUME NEW i \in 1 .. m, NEW k \in 1 .. Len(seqs[i])
             PROVE  g[m][ends[i - 1] + k] = seqs[i][k]
        <5>1. /\ i \in 1 .. n /\ ends[i] \in Nat /\ ends[i - 1] \in Nat
              /\ ends[i] = ends[i - 1] + Len(seqs[i]) /\ Len(seqs[i]) \in Nat
          <6>1. i \in 1 .. n
            BY <3>2
          <6> QED
            BY <1>0, <6>1
        <5>2. ends[i - 1] + k \in 1 .. ends[i]
          BY <5>1, Places
        <5>3. CASE i = m
          <6>1. k \in 1 .. Len(t) /\ ends[i - 1] = Len(s) /\ t[k] = seqs[i][k]
            BY <4>5, <4>6, <5>3
          <6> QED
            BY <4>7, <6>1
        <5>4. CASE i # m
          <6>1. i \in 1 .. m - 1
            BY <3>2, <5>4
          <6>2. ends[i] <= ends[m - 1] /\ s[ends[i - 1] + k] = seqs[i][k]
            BY <4>2, <4>4, <6>1 DEF Holds
          <6>3. ends[i - 1] + k \in 1 .. ends[m - 1]
            BY <3>2, <5>1, <5>2, <6>2, Places
          <6>4. ends[i - 1] + k \in 1 .. Len(s)
            BY <4>6, <6>3
          <6>5. g[m][ends[i - 1] + k] = s[ends[i - 1] + k]
            BY <4>7, <6>4
          <6> QED
            BY <6>2, <6>5
        <5> QED
          BY <5>3, <5>4
      <4>11. Holds(g[m], seqs, ends, m)
        BY <4>8, <4>9, <4>10 DEF Holds
      <4> QED
        BY <3>1, <4>7, <4>11
    <3> QED
      BY <3>3, <3>4
  <2>5. n \in 1 .. n
    BY <1>3
  <2> QED
    BY <2>2, <2>4, <2>5
<1> QED
  BY <1>2, <1>3

LEMMA NodeTextIs ==
  ASSUME NEW assigned \in SomeKeys, NEW t \in NodeTexts(assigned)
  PROVE  /\ t \in Seq(Token) /\ Len(t) = 4 * Cardinality(DOMAIN assigned) + 1
         /\ IsNodeAt(t, 0, assigned)
<1> DEFINE D == DOMAIN assigned
           size == Cardinality(D)
<1>1. size \in Nat /\ IsFiniteSet(D) /\ D \subseteq Key /\ \A key \in D : assigned[key] \in Value
  BY SomeKeysAre
<1> DEFINE Part(key) == <<Open, key, assigned[key], Close>>
<1>2. PICK order \in SetToSeqs(D) :
        t = <<Name>> \o FlattenSeq([n \in DOMAIN order |-> Part(order[n])])
  BY DEF NodeTexts
<1>3. order \in [1 .. size -> D] /\ \A i, j \in 1 .. size : i # j => order[i] # order[j]
  BY <1>2 DEF SetToSeqs
<1>4. ASSUME NEW key \in D
      PROVE  \E i \in 1 .. size : order[i] = key
  <2>1. order \in Injection(1 .. size, D)
    BY <1>3 DEF Injection, IsInjective
  <2>2. Cardinality(1 .. size) = size
    <3> HIDE DEF size
    <3>1. 1 \in Int /\ size \in Int /\ (1 > size => size = 0)
      BY <1>1
    <3>2. Cardinality(1 .. size) = IF 1 > size THEN 0 ELSE size - 1 + 1
      BY <3>1, FS_Interval
    <3> QED
      BY <1>1, <3>1, <3>2
  <2>3. order \in Surjection(1 .. size, D)
    BY <1>1, <2>1, <2>2, FS_Injection
  <2> QED
    BY <2>3 DEF Surjection
<1> DEFINE seqs == [n \in 1 .. size |-> Part(order[n])]
           ends == [i \in 0 .. size |-> 4 * i]
           rest == FlattenSeq(seqs)
<1>5. t = <<Name>> \o rest
  BY <1>2, <1>3
<1>6. ASSUME NEW key \in D
      PROVE  /\ Part(key) \in Seq(Token) /\ Len(Part(key)) = 4
             /\ Part(key)[1] = Open /\ Part(key)[2] = key
             /\ Part(key)[3] = assigned[key] /\ Part(key)[4] = Close
  <2>1. PICK value : assigned[key] = value
    OBVIOUS
  <2>2. value \in Token /\ key \in Token /\ Open \in Token /\ Close \in Token
    BY <1>1, <2>1 DEF Token
  <2>3. Part(key) = <<Open, key, value, Close>>
    BY <2>1
  <2>4. <<Open, key, value, Close>> \in Seq(Token)
    BY <2>2
  <2> QED
    BY <2>1, <2>3, <2>4
<1> HIDE DEF Part
<1>7. /\ \A n \in 1 .. size : seqs[n] = Part(order[n]) /\ seqs[n] \in Seq(Token) /\ Len(seqs[n]) = 4
      /\ seqs \in [1 .. size -> Seq(Token)]
  BY <1>3, <1>6
<1> HIDE DEF size
<1>8. /\ ends \in [0 .. size -> Nat] /\ ends[0] = 0
      /\ \A i \in 1 .. size : ends[i] = ends[i - 1] + 4 /\ ends[i - 1] = 4 * i - 4
      /\ ends[size] = 4 * size
  BY <1>1
<1> HIDE DEF seqs, ends
<1>9. rest \in Seq(Token) /\ Holds(rest, seqs, ends, size)
  <2>1. \A i \in 1 .. size : ends[i] = ends[i - 1] + Len(seqs[i])
    BY <1>7, <1>8
  <2> QED
    BY <1>1, <1>7, <1>8, <2>1, FlattenIs
<1> HIDE DEF rest
<1>10. /\ t \in Seq(Token) /\ Len(t) = 1 + Len(rest) /\ t[1] = Name
       /\ \A k \in 1 .. Len(rest) : t[1 + k] = rest[k]
  <2>1. Name \in Token /\ rest \in Seq(Token)
    BY <1>9 DEF Token
  <2>2. /\ <<Name>> \o rest \in Seq(Token) /\ Len(<<Name>> \o rest) = 1 + Len(rest)
        /\ (<<Name>> \o rest)[1] = Name
        /\ \A k \in 1 .. Len(rest) : (<<Name>> \o rest)[1 + k] = rest[k]
    BY <2>1, FirstThen
  <2> QED
    BY <1>5, <2>2
<1>11. Len(rest) = 4 * size /\ Len(t) = 4 * size + 1
  BY <1>1, <1>8, <1>9, <1>10 DEF Holds
<1>12. ASSUME NEW i \in 1 .. size
       PROVE  /\ t[0 + 4 * i - 2] = Open /\ t[0 + 4 * i - 1] = order[i]
              /\ t[0 + 4 * i] = assigned[order[i]] /\ t[0 + 4 * i + 1] = Close
  <2>1. \A k \in 1 .. 4 : rest[4 * i - 4 + k] = seqs[i][k]
    BY <1>7, <1>8, <1>9 DEF Holds
  <2>2. /\ seqs[i][1] = Open /\ seqs[i][2] = order[i]
        /\ seqs[i][3] = assigned[order[i]] /\ seqs[i][4] = Close
    BY <1>3, <1>6, <1>7
  <2>3. /\ 4 * i - 4 + 1 \in 1 .. Len(rest) /\ 4 * i - 4 + 2 \in 1 .. Len(rest)
        /\ 4 * i - 4 + 3 \in 1 .. Len(rest) /\ 4 * i - 4 + 4 \in 1 .. Len(rest)
    BY <1>1, <1>11
  <2>4. /\ t[1 + (4 * i - 4 + 1)] = Open /\ t[1 + (4 * i - 4 + 2)] = order[i]
        /\ t[1 + (4 * i - 4 + 3)] = assigned[order[i]] /\ t[1 + (4 * i - 4 + 4)] = Close
    <3>1. 1 \in 1 .. 4 /\ 2 \in 1 .. 4 /\ 3 \in 1 .. 4 /\ 4 \in 1 .. 4
      OBVIOUS
    <3>2. /\ rest[4 * i - 4 + 1] = Open /\ rest[4 * i - 4 + 2] = order[i]
          /\ rest[4 * i - 4 + 3] = assigned[order[i]] /\ rest[4 * i - 4 + 4] = Close
      BY <2>1, <2>2, <3>1
    <3>3. PICK a, b, c, d : /\ 4 * i - 4 + 1 = a /\ 4 * i - 4 + 2 = b
                            /\ 4 * i - 4 + 3 = c /\ 4 * i - 4 + 4 = d
      OBVIOUS
    <3>4. a \in 1 .. Len(rest) /\ b \in 1 .. Len(rest) /\ c \in 1 .. Len(rest) /\ d \in 1 .. Len(rest)
      BY <2>3, <3>3
    <3>5. t[1 + a] = rest[a] /\ t[1 + b] = rest[b] /\ t[1 + c] = rest[c] /\ t[1 + d] = rest[d]
      BY <1>10, <3>4
    <3> QED
      BY <3>2, <3>3, <3>5
  <2>5. /\ 1 + (4 * i - 4 + 1) = 0 + 4 * i - 2 /\ 1 + (4 * i - 4 + 2) = 0 + 4 * i - 1
        /\ 1 + (4 * i - 4 + 3) = 0 + 4 * i /\ 1 + (4 * i - 4 + 4) = 0 + 4 * i + 1
    OBVIOUS
  <2> QED
    BY <2>4, <2>5
<1>13. IsNodeAt(t, 0, assigned)
  <2>1. 0 + 4 * size < Len(t) /\ t[0 + 1] = Name
    BY <1>1, <1>10, <1>11
  <2>2. \A key \in D : \E i \in 1 .. size : t[0 + 4 * i - 1] = key
    BY <1>4, <1>12
  <2>3. \A i \in 1 .. size : order[i] \in D
    BY <1>3
  <2> QED
    BY <1>12, <2>1, <2>2, <2>3 DEF IsNodeAt, size
<1> QED
  BY <1>10, <1>11, <1>13 DEF size

LEMMA NodeMoves ==
  ASSUME NEW t, NEW text, NEW begin \in Nat, Len(text) \in Nat, NEW assigned \in SomeKeys,
         IsNodeAt(t, 0, assigned), NEW size \in Nat, Cardinality(DOMAIN assigned) = size,
         begin + 4 * size + 1 <= Len(text),
         \A k \in 1 .. 4 * size + 1 : text[begin + k] = t[k]
  PROVE  IsNodeAt(text, begin, assigned)
<1>1. t[1] = Name
  BY DEF IsNodeAt
<1>2. ASSUME NEW i \in 1 .. size
      PROVE  /\ t[4 * i - 2] = Open /\ t[4 * i - 1] \in DOMAIN assigned
             /\ t[4 * i] = assigned[t[4 * i - 1]] /\ t[4 * i + 1] = Close
  <2>1. /\ t[0 + 4 * i - 2] = Open /\ t[0 + 4 * i - 1] \in DOMAIN assigned
        /\ t[0 + 4 * i] = assigned[t[0 + 4 * i - 1]] /\ t[0 + 4 * i + 1] = Close
    BY DEF IsNodeAt
  <2>2. 0 + 4 * i - 2 = 4 * i - 2 /\ 0 + 4 * i - 1 = 4 * i - 1 /\ 0 + 4 * i = 4 * i
    OBVIOUS
  <2> QED
    BY <2>1, <2>2
<1>3. ASSUME NEW key \in DOMAIN assigned
      PROVE  \E i \in 1 .. size : t[4 * i - 1] = key
  <2>1. PICK i \in 1 .. size : t[0 + 4 * i - 1] = key
    BY DEF IsNodeAt
  <2>2. 0 + 4 * i - 1 = 4 * i - 1
    OBVIOUS
  <2> QED
    BY <2>1, <2>2
<1>4. ASSUME NEW i \in 1 .. size
      PROVE  /\ text[begin + 4 * i - 2] = t[4 * i - 2] /\ text[begin + 4 * i - 1] = t[4 * i - 1]
             /\ text[begin + 4 * i] = t[4 * i] /\ text[begin + 4 * i + 1] = t[4 * i + 1]
  <2>1. /\ 4 * i - 2 \in 1 .. 4 * size + 1 /\ 4 * i - 1 \in 1 .. 4 * size + 1
        /\ 4 * i \in 1 .. 4 * size + 1 /\ 4 * i + 1 \in 1 .. 4 * size + 1
    OBVIOUS
  <2>2. /\ text[begin + (4 * i - 2)] = t[4 * i - 2] /\ text[begin + (4 * i - 1)] = t[4 * i - 1]
        /\ text[begin + 4 * i] = t[4 * i] /\ text[begin + (4 * i + 1)] = t[4 * i + 1]
    BY <2>1
  <2>3. /\ begin + (4 * i - 2) = begin + 4 * i - 2 /\ begin + (4 * i - 1) = begin + 4 * i - 1
        /\ begin + (4 * i + 1) = begin + 4 * i + 1
    OBVIOUS
  <2> QED
    BY <2>2, <2>3
<1>5. text[begin + 1] = Name /\ begin + 4 * size < Len(text)
  <2>1. 1 \in 1 .. 4 * size + 1
    OBVIOUS
  <2> QED
    BY <1>1, <2>1
<1>6. \A i \in 1 .. size :
        /\ text[begin + 4 * i - 2] = Open /\ text[begin + 4 * i - 1] \in DOMAIN assigned
        /\ text[begin + 4 * i] = assigned[text[begin + 4 * i - 1]]
        /\ text[begin + 4 * i + 1] = Close
  BY <1>2, <1>4
<1>7. \A key \in DOMAIN assigned : \E i \in 1 .. size : text[begin + 4 * i - 1] = key
  BY <1>3, <1>4
<1> QED
  BY <1>5, <1>6, <1>7 DEF IsNodeAt

LEMMA InstanceIs ==
  ASSUME NEW path \in Instance
  PROVE  /\ path \in WrittenPaths /\ path \in Seq(SomeKeys) /\ ~EndsInList(path)
         /\ Len(path) \in Nat /\ Len(path) > 0 /\ Len(path) <= Depth
         /\ \A n \in 1 .. Len(path) : DOMAIN path[n] = KeysOf[n] /\ path[n] \in SomeKeys
<1>1. /\ path \in Seq(SomeKeys) /\ path # << >> /\ Len(path) <= Depth
      /\ \A n \in DOMAIN path : path[n] \in [KeysOf[n] -> Value]
  BY InstanceAssumption
<1>2. Len(path) \in Nat /\ Len(path) > 0
  BY <1>1, EmptySeq
<1>3. ASSUME NEW n \in 1 .. Len(path)
      PROVE  DOMAIN path[n] = KeysOf[n] /\ path[n] \in SomeKeys
  <2>1. n \in DOMAIN path
    BY <1>1
  <2> QED
    BY <1>1, <2>1
<1>4. ~EndsInList(path)
  <2>1. Len(path) \in 1 .. Len(path) /\ Len(path) \in 1 .. Depth
    BY <1>1, <1>2, ListsHaveKeys
  <2>2. KeysOf[Len(path)] # {} /\ DOMAIN path[Len(path)] = KeysOf[Len(path)]
    BY <1>3, <2>1, ListsHaveKeys
  <2> QED
    BY <2>2, NoKeysAreEmpty DEF EndsInList
<1> QED
  BY <1>1, <1>2, <1>3, <1>4, WrittenPathsAre


\* Where the nodes of a path end on its text.
LEMMA NodesEnd ==
  ASSUME NEW path \in Seq(SomeKeys)
  PROVE  LET ends == [i \in 0 .. Len(path) |-> IF i = 0 THEN 0 ELSE Begins(path)[i + 1] - 1]
         IN  /\ ends \in [0 .. Len(path) -> Nat]
             /\ ends[0] = 0
             /\ \A i \in 1 .. Len(path) :
                  /\ ends[i] + 1 = Begins(path)[i + 1]
                  /\ i = 1 => Begins(path)[i] = 0
                  /\ i # 1 => ends[i - 1] + 1 = Begins(path)[i]
                  /\ Cardinality(DOMAIN path[i]) \in Nat
                  /\ Begins(path)[i] + 4 * Cardinality(DOMAIN path[i]) + 2 = Begins(path)[i + 1]
<1> DEFINE b == Begins(path)
           ends == [i \in 0 .. Len(path) |-> IF i = 0 THEN 0 ELSE b[i + 1] - 1]
<1>1. /\ b[1] = 0 /\ \A n \in 1 .. Len(path) + 1 : b[n] \in Nat
      /\ \A n \in 1 .. Len(path) : b[n + 1] = b[n] + 4 * Cardinality(DOMAIN path[n]) + 2
  BY BeginsAre
<1>2. Len(path) \in Nat
  OBVIOUS
<1> HIDE DEF b
<1>3. ASSUME NEW i \in 1 .. Len(path)
      PROVE  /\ Cardinality(DOMAIN path[i]) \in Nat
             /\ b[i] + 4 * Cardinality(DOMAIN path[i]) + 2 = b[i + 1]
             /\ ends[i] \in Nat /\ ends[i] + 1 = b[i + 1]
             /\ i # 1 => ends[i - 1] + 1 = b[i]
  <2>1. PICK s : Cardinality(DOMAIN path[i]) = s
    OBVIOUS
  <2>2. s \in Nat
    BY <2>1, SomeKeysAre
  <2>3. /\ b[i] \in Nat /\ b[i + 1] \in Nat /\ b[i] + 4 * s + 2 = b[i + 1]
    BY <1>1, <1>2, <2>1
  <2>4. i \in 0 .. Len(path) /\ i # 0 /\ (i # 1 => i - 1 \in 0 .. Len(path) /\ i - 1 # 0 /\ i - 1 + 1 = i)
    BY <1>2
  <2>5. ends[i] = b[i + 1] - 1 /\ (i # 1 => ends[i - 1] = b[i] - 1)
    BY <2>4
  <2> HIDE DEF ends
  <2>6. /\ b[i + 1] - 1 \in Nat /\ (b[i + 1] - 1) + 1 = b[i + 1] /\ (b[i] - 1) + 1 = b[i]
    BY <2>2, <2>3
  <2>7. ends[i] \in Nat /\ ends[i] + 1 = b[i + 1]
    BY <2>5, <2>6
  <2>8. i # 1 => ends[i - 1] + 1 = b[i]
    BY <2>5, <2>6
  <2> QED
    BY <2>1, <2>2, <2>3, <2>7, <2>8
<1>4. \A i \in 0 .. Len(path) : i = 0 \/ i \in 1 .. Len(path)
  BY <1>2
<1>5. 0 \in 0 .. Len(path) /\ ends[0] = 0
  BY <1>2
<1>6. ends \in [0 .. Len(path) -> Nat]
  BY <1>3, <1>4
<1> QED
  BY <1>1, <1>3, <1>5, <1>6 DEF b

\* What is written of a path to an instance are its nodes with a slash between.
LEMMA PathTextIs ==
  ASSUME NEW path \in Instance, NEW text \in Texts[path]
  PROVE  /\ text \in Seq(Token) /\ IsTextOf(text, path)
         /\ Len(text) + 1 = Begins(path)[Len(path) + 1]
<1>1. /\ path \in WrittenPaths /\ path \in Seq(SomeKeys) /\ Len(path) \in Nat /\ Len(path) > 0
      /\ \A n \in 1 .. Len(path) : path[n] \in SomeKeys
  BY InstanceIs
<1> DEFINE P == Len(path)
           b == Begins(path)
           size(n) == Cardinality(DOMAIN path[n])
           ends == [i \in 0 .. Len(path) |-> IF i = 0 THEN 0 ELSE Begins(path)[i + 1] - 1]
<1>2. DOMAIN path = 1 .. P
  BY <1>1
<1>3. PICK t : /\ \A n \in 1 .. P : t[n] \in NodeTexts(path[n])
               /\ text = FlattenSeq([n \in DOMAIN path |-> IF n = 1 THEN t[n] ELSE <<Slash>> \o t[n]])
  BY <1>1, <1>2 DEF Texts
<1> DEFINE seqs == [n \in 1 .. P |-> IF n = 1 THEN t[n] ELSE <<Slash>> \o t[n]]
<1>4. text = FlattenSeq(seqs)
  BY <1>2, <1>3
<1>5. /\ ends \in [0 .. P -> Nat] /\ ends[0] = 0
      /\ \A i \in 1 .. P :
           /\ ends[i] + 1 = b[i + 1] /\ (i = 1 => b[i] = 0) /\ (i # 1 => ends[i - 1] + 1 = b[i])
           /\ size(i) \in Nat /\ b[i] + 4 * size(i) + 2 = b[i + 1]
  BY <1>1, NodesEnd
<1>6. ASSUME NEW n \in 1 .. P
      PROVE  /\ t[n] \in Seq(Token) /\ Len(t[n]) = 4 * size(n) + 1 /\ IsNodeAt(t[n], 0, path[n])
  BY <1>1, <1>3, NodeTextIs
<1> HIDE DEF ends
<1>7. ASSUME NEW n \in 1 .. P
      PROVE  /\ ends[n] \in Nat /\ ends[n - 1] \in Nat /\ b[n] \in Nat
             /\ n \in 0 .. P /\ n - 1 \in 0 .. P /\ (n # 1 => n - 1 \in 1 .. P)
  <2>1. n \in 0 .. P /\ n - 1 \in 0 .. P /\ (n # 1 => n - 1 \in 1 .. P)
    BY <1>1
  <2>2. ends[n] \in Nat /\ ends[n - 1] \in Nat
    BY <1>5, <2>1
  <2>3. n = 1 => b[n] = 0
    BY <1>5
  <2>4. n # 1 => ends[n - 1] + 1 = b[n]
    BY <1>5
  <2> QED
    BY <2>1, <2>2, <2>3, <2>4
<1>8. ASSUME NEW n \in 1 .. P
      PROVE  /\ seqs[n] \in Seq(Token)
             /\ n = 1 => Len(seqs[n]) = 4 * size(n) + 1 /\ \A k \in 1 .. 4 * size(n) + 1 : seqs[n][k] = t[n][k]
             /\ n # 1 => /\ Len(seqs[n]) = 4 * size(n) + 2 /\ seqs[n][1] = Slash
                         /\ \A k \in 1 .. 4 * size(n) + 1 : seqs[n][1 + k] = t[n][k]
  <2>1. CASE n = 1
    BY <1>6, <2>1
  <2>2. CASE n # 1
    <3>1. PICK word, s : t[n] = word /\ size(n) = s
      OBVIOUS
    <3>2. Slash \in Token /\ s \in Nat /\ word \in Seq(Token) /\ Len(word) = 4 * s + 1
      BY <1>5, <1>6, <3>1 DEF Token
    <3>3. seqs[n] = <<Slash>> \o word
      BY <2>2, <3>1
    <3>4. /\ <<Slash>> \o word \in Seq(Token) /\ Len(<<Slash>> \o word) = 1 + Len(word)
          /\ (<<Slash>> \o word)[1] = Slash
          /\ \A k \in 1 .. Len(word) : (<<Slash>> \o word)[1 + k] = word[k]
      BY <3>2, FirstThen
    <3>5. 1 + Len(word) = 4 * s + 2
      BY <3>2
    <3> HIDE DEF seqs, size
    <3>6. /\ seqs[n] \in Seq(Token) /\ Len(seqs[n]) = 4 * s + 2 /\ seqs[n][1] = Slash
          /\ \A k \in 1 .. 4 * s + 1 : seqs[n][1 + k] = word[k]
      BY <3>2, <3>3, <3>4, <3>5
    <3> QED
      BY <2>2, <3>1, <3>6
  <2> QED
    BY <2>1, <2>2
<1>9. seqs \in [1 .. P -> Seq(Token)]
  BY <1>8
<1>10. ASSUME NEW i \in 1 .. P
       PROVE  ends[i] = ends[i - 1] + Len(seqs[i])
  <2> HIDE DEF seqs, b, size
  <2>0. PICK s, e, d : size(i) = s /\ ends[i] = e /\ ends[i - 1] = d
    OBVIOUS
  <2>1. s \in Nat /\ e \in Nat /\ d \in Nat
    BY <1>5, <1>7, <2>0
  <2>2. e + 1 = b[i] + 4 * s + 2 /\ b[i] \in Nat
    BY <1>5, <1>7, <2>0
  <2>3. CASE i = 1
    <3>1. d = 0 /\ Len(seqs[i]) = 4 * s + 1 /\ b[i] = 0
      BY <1>5, <1>8, <2>0, <2>3
    <3>2. e = d + (4 * s + 1)
      BY <2>1, <2>2, <3>1
    <3> QED
      BY <2>0, <3>1, <3>2
  <2>4. CASE i # 1
    <3>1. d + 1 = b[i] /\ Len(seqs[i]) = 4 * s + 2
      BY <1>5, <1>8, <2>0, <2>4
    <3>2. e = d + (4 * s + 2)
      BY <2>1, <2>2, <3>1
    <3> QED
      BY <2>0, <3>1, <3>2
  <2> QED
    BY <2>3, <2>4
<1> HIDE DEF seqs
<1>11. text \in Seq(Token) /\ Holds(text, seqs, ends, P)
  BY <1>1, <1>4, <1>5, <1>9, <1>10, FlattenIs
<1>12. Len(text) \in Nat /\ Len(text) + 1 = b[P + 1] /\ Len(text) = ends[P]
  BY <1>1, <1>5, <1>11 DEF Holds
<1>13. ASSUME NEW n \in 1 .. P
       PROVE  IsNodeAt(text, b[n], path[n])
  <2> HIDE DEF b
  <2>1. PICK s : size(n) = s
    OBVIOUS
  <2>2. s \in Nat /\ Cardinality(DOMAIN path[n]) = s /\ b[n] \in Nat /\ ends[n] \in Nat
    BY <1>5, <1>7, <2>1
  <2>3. ends[n] <= Len(text) /\ \A k \in 1 .. Len(seqs[n]) : text[ends[n - 1] + k] = seqs[n][k]
    BY <1>11, <1>12 DEF Holds
  <2>4. b[n] + 4 * s + 1 <= Len(text)
    <3>1. ends[n] + 1 = b[n + 1] /\ b[n] + 4 * s + 2 = b[n + 1]
      BY <1>5, <2>1
    <3>2. ends[n] <= Len(text) /\ Len(text) \in Nat
      BY <1>12, <2>3
    <3>3. PICK e, d : ends[n] = e /\ b[n] = d
      OBVIOUS
    <3>4. e \in Nat /\ d \in Nat /\ e <= Len(text) /\ d + 4 * s + 2 = e + 1
      BY <2>2, <3>1, <3>2, <3>3
    <3>5. d + 4 * s + 1 <= Len(text)
      BY <2>2, <3>2, <3>4
    <3> QED
      BY <3>3, <3>5
  <2>5. ASSUME NEW k \in 1 .. 4 * s + 1
        PROVE  text[b[n] + k] = t[n][k]
    <3>1. CASE n = 1
      <4>1. Len(seqs[n]) = 4 * s + 1 /\ seqs[n][k] = t[n][k] /\ ends[n - 1] = 0 /\ b[n] = 0
        BY <1>5, <1>8, <2>1, <3>1
      <4> QED
        BY <2>3, <4>1
    <3>2. CASE n # 1
      <4>1. Len(seqs[n]) = 4 * s + 2 /\ seqs[n][1 + k] = t[n][k] /\ ends[n - 1] + 1 = b[n]
        BY <1>5, <1>8, <2>1, <3>2
      <4>2. PICK place, before : 1 + k = place /\ ends[n - 1] = before
        OBVIOUS
      <4>3. place \in 1 .. Len(seqs[n])
        BY <2>2, <4>1, <4>2
      <4>4. text[before + place] = seqs[n][place] /\ seqs[n][place] = t[n][k]
        BY <2>3, <4>1, <4>2, <4>3
      <4>5. before \in Nat /\ before + 1 = b[n]
        BY <1>7, <4>1, <4>2
      <4>6. before + place = b[n] + k
        <5>1. k \in Nat
          BY <2>2
        <5> QED
          BY <4>2, <4>5, <5>1
      <4> QED
        BY <4>4, <4>6
    <3> QED
      BY <3>1, <3>2
  <2>6. path[n] \in SomeKeys
    BY <1>1
  <2> QED
    BY <1>6, <1>12, <2>2, <2>4, <2>5, <2>6, NodeMoves
<1>14. ASSUME NEW n \in 1 .. P, b[n + 1] <= Len(text)
       PROVE  text[b[n + 1]] = Slash
  <2> HIDE DEF b
  <2>1. n # P
    BY <1>12, <1>14
  <2>2. n + 1 \in 1 .. P /\ n + 1 # 1 /\ n + 1 - 1 = n
    BY <1>1, <2>1
  <2>3. PICK m : n + 1 = m
    OBVIOUS
  <2>4. m \in 1 .. P /\ m # 1 /\ m - 1 = n
    BY <2>2, <2>3
  <2>5. Len(seqs[m]) = 4 * size(m) + 2 /\ seqs[m][1] = Slash /\ size(m) \in Nat
    BY <1>5, <1>8, <2>4
  <2>6. 1 \in 1 .. Len(seqs[m])
    <3> HIDE DEF size
    <3> QED
      BY <2>5
  <2>7. text[ends[m - 1] + 1] = Slash
    BY <1>11, <2>4, <2>5, <2>6 DEF Holds
  <2> QED
    BY <1>5, <2>3, <2>4, <2>7
<1>15. IsTextOf(text, path)
  BY <1>2, <1>12, <1>13, <1>14 DEF IsTextOf
<1> QED
  BY <1>11, <1>12, <1>15

-----------------------------------------------------------------------------
(***************************************************************************)
(* The way to an instance                                                  *)
(***************************************************************************)
\* The line is the beginning of the text of the path to an instance.
Towards(path, text) ==
  /\ path \in Instance
  /\ text \in Seq(Token) /\ IsTextOf(text, path)
  /\ Len(text) + 1 = Begins(path)[Len(path) + 1]
  /\ Len(line) < Len(text)
  /\ \A n \in 1 .. Len(line) : text[n] = line[n]

\* The line goes on like this on the text, or on the text with a slash.
Leads(longer, text) ==
  /\ Len(longer) \in Nat /\ Len(line) < Len(longer) /\ Len(longer) <= Len(text) + 1
  /\ \A n \in 1 .. Len(longer) : longer[n] = IF n <= Len(text) THEN text[n] ELSE Slash

GoesOn(c, text) == \E o \in Completions(c) : Leads(o, text)

\* Where `get` takes the list itself when its keys are not all there.
MayEndInList ==
  parserMode = "DataPathListEnd" /\ line # << >> /\ line[Len(line)] = Close

\* The parser is on the way: what it has read is of the path, a node is only
\* tried again when its name is the last token, and at the end of the line
\* the suggestions go on.
Way(path, text) ==
  /\ listEnd => /\ rule \in {"node", "suffix", "after"}
                /\ IF rule = "after" THEN Len(line) = at ELSE Len(line) = saveIter + 1
  /\ (listEnd /\ rule = "after") \/ IsPrefix(ctx.path, path)
  /\ rule # "after" => Len(ctx.path) < Len(path)
  /\ rule \in {"suffix", "key", "value", "after"} /\ Len(line) = at => GoesOn(ctx, text)
  /\ rule = "close" =>
       /\ ctx.suggestions = {Always(<<Close, IF Missing(ctx) = {} THEN Slash ELSE Open>>)}
       /\ ctx.from = at

OnTheWay ==
  phase = "parsing" /\ completing /\ ~MayEndInList =>
    \A path \in Instance : \A text \in Seq(Token) : Towards(path, text) => Way(path, text)

\* What is ahead: the node of the path below what was read.
NodeAhead(path, text, s) ==
  /\ Level \in 1 .. Len(path) /\ Level <= Depth
  /\ path[Level] \in SomeKeys /\ DOMAIN path[Level] = KeysOf[Level]
  /\ Cardinality(DOMAIN path[Level]) = s /\ s \in Nat /\ s > 0
  /\ saveIter + 4 * s + 1 <= Len(text)
  /\ IsNodeAt(text, saveIter, path[Level])
  /\ saveIter + 4 * s + 2 <= Len(text) => text[saveIter + 4 * s + 2] = Slash

LEMMA NodeIsAhead ==
  ASSUME Typed, Reads, rule # "after", NEW path, NEW text, Towards(path, text),
         IsPrefix(ctx.path, path), Len(ctx.path) < Len(path)
  PROVE  /\ NodeAhead(path, text, Cardinality(DOMAIN path[Level]))
         /\ text[saveIter + 1] = Name /\ text[saveIter + 2] = Open
<1>1. /\ path \in WrittenPaths /\ path \in Seq(SomeKeys) /\ ~EndsInList(path) /\ Len(path) \in Nat
      /\ \A n \in 1 .. Len(path) : DOMAIN path[n] = KeysOf[n] /\ path[n] \in SomeKeys
  BY InstanceIs DEF Towards
<1>2. /\ text \in Seq(Token) /\ IsTextOf(text, path) /\ Len(text) \in Nat
  BY DEF Towards
<1>3. /\ ctx.path \in Seq(SomeKeys) /\ Len(ctx.path) \in Nat /\ Level = Len(ctx.path) + 1
      /\ saveIter \in Nat
  BY LevelIs, LooksAt
<1>4. Begins(ctx.path)[Len(ctx.path) + 1] = saveIter
  BY PathIsAt
<1>5. /\ IsNodeAt(text, saveIter, path[Level]) /\ path[Level] \in SomeKeys /\ Level <= Depth
      /\ saveIter + 4 * Cardinality(DOMAIN path[Level]) + 2 <= Len(text) =>
           text[saveIter + 4 * Cardinality(DOMAIN path[Level]) + 2] = Slash
  <2>1. PICK begin : Begins(ctx.path)[Len(ctx.path) + 1] = begin
    OBVIOUS
  <2>2. PICK P : Len(ctx.path) = P
    OBVIOUS
  <2>3. begin = saveIter /\ Level = P + 1
    BY <1>3, <1>4, <2>1, <2>2
  <2>4. /\ P < Len(path) =>
              /\ IsNodeAt(text, begin, path[P + 1])
              /\ path[P + 1] \in SomeKeys /\ P + 1 <= Depth
              /\ begin + 4 * Cardinality(DOMAIN path[P + 1]) + 2 <= Len(text) =>
                   text[begin + 4 * Cardinality(DOMAIN path[P + 1]) + 2] = Slash
    BY <1>1, <1>2, <1>3, <2>1, <2>2, TextGoesOn
  <2> QED
    BY <2>2, <2>3, <2>4
<1>6. Level \in 1 .. Len(path) /\ DOMAIN path[Level] = KeysOf[Level]
  <2>1. Level \in 1 .. Len(path)
    BY <1>1, <1>3
  <2> QED
    BY <1>1, <2>1
<1>7. PICK s : Cardinality(DOMAIN path[Level]) = s
  OBVIOUS
<1>8. s \in Nat /\ s > 0
  <2>1. s \in Nat
    BY <1>5, <1>7, SomeKeysAre
  <2>2. s # 0
    <3>1. KeysOf[Level] # {}
      <4>1. Level \in 1 .. Depth
        BY <1>3, <1>5, LevelIs
      <4> QED
        BY <4>1, ListsHaveKeys
    <3>2. DOMAIN NoKeys = {}
      BY NoKeysAreEmpty
    <3> QED
      BY <1>5, <1>6, <1>7, <3>1, <3>2, NoKeysAreEmpty
  <2> QED
    BY <2>1, <2>2
<1>9. saveIter + 4 * s < Len(text) /\ text[saveIter + 1] = Name
  BY <1>5, <1>7 DEF IsNodeAt
<1>10. saveIter + 4 * s + 1 <= Len(text)
  BY <1>2, <1>3, <1>8, <1>9
<1>11. text[saveIter + 2] = Open
  <2>1. 1 \in 1 .. s /\ saveIter + 4 * 1 - 2 = saveIter + 2
    BY <1>3, <1>8
  <2>2. text[saveIter + 4 * 1 - 2] = Open
    BY <1>5, <1>7, <2>1 DEF IsNodeAt
  <2> QED
    BY <2>1, <2>2
<1> QED
  BY <1>5, <1>6, <1>7, <1>8, <1>9, <1>10, <1>11 DEF NodeAhead

\* What is ahead within it: the keys that were read are those of the node, and
\* the next one, if there is one, is another.
KeysAhead(path, text, s) ==
  /\ Count <= s
  /\ \A key \in DOMAIN keys : key \in DOMAIN path[Level] /\ path[Level][key] = keys[key]
  /\ s = Count => keys = path[Level]
  /\ Count < s =>
       /\ text[saveIter + 4 * Count + 2] = Open
       /\ text[saveIter + 4 * Count + 3] \in KeysOf[Level] \ DOMAIN keys
       /\ text[saveIter + 4 * Count + 4] = path[Level][text[saveIter + 4 * Count + 3]]
       /\ text[saveIter + 4 * Count + 5] = Close
  /\ 0 < Count => text[saveIter + 4 * Count + 1] = Close

LEMMA KeysAreAhead ==
  ASSUME Typed, Reads, Within, NEW path, NEW text, Towards(path, text),
         NEW s, NodeAhead(path, text, s)
  PROVE  KeysAhead(path, text, s)
<1>1. /\ keys \in SomeKeys /\ Count \in Nat /\ saveIter \in Nat /\ at \in Nat /\ Len(line) \in Nat
      /\ at <= Len(line) /\ Cardinality(DOMAIN keys) = Count
  BY LevelIs, LooksAt DEF Count
<1>2. /\ Len(text) \in Nat /\ Len(line) < Len(text) /\ \A n \in 1 .. Len(line) : text[n] = line[n]
  BY DEF Towards
<1>3. PICK closed \in {Count, Count - 1} :
        /\ KeysAreAt(line, saveIter, keys, closed)
        /\ saveIter + 1 <= Len(line) /\ saveIter + 4 * Count <= Len(line)
        /\ closed = Count => saveIter + 4 * Count + 1 <= Len(line)
  <2>1. CASE rule = "close"
    <3>1. KeysAreRead(Count - 1) /\ at = saveIter + 4 * Count /\ Count > 0
      BY <2>1 DEF Reads, NodeIsRead, Within
    <3> QED
      BY <1>1, <3>1 DEF KeysAreRead
  <2>2. CASE rule # "close"
    <3>1. KeysAreRead(Count) /\ at >= saveIter + 4 * Count + 1
      BY <1>1, <2>2 DEF Reads, NodeIsRead, Within
    <3> QED
      BY <1>1, <3>1 DEF KeysAreRead
  <2> QED
    BY <2>1, <2>2
<1>4. closed \in Int /\ closed <= Count
  BY <1>1
<1>5. KeysAreAt(text, saveIter, keys, closed)
  <2>1. Len(line) <= Len(text)
    BY <1>1, <1>2
  <2> QED
    BY <1>1, <1>2, <1>3, <1>4, <2>1, KeysAreAtToo
<1>6. /\ path[Level] \in SomeKeys /\ DOMAIN path[Level] = KeysOf[Level]
      /\ Cardinality(DOMAIN path[Level]) = s /\ s \in Nat
      /\ IsNodeAt(text, saveIter, path[Level])
      /\ saveIter + 4 * s + 2 <= Len(text) => text[saveIter + 4 * s + 2] = Slash
  BY DEF NodeAhead
<1>7. /\ Count <= s
      /\ Count < s => text[saveIter + 4 * Count + 2] = Open
      /\ Count = s => keys = path[Level]
  <2> DEFINE m == Cardinality(DOMAIN keys)
             assigned == path[Level]
             size == Cardinality(DOMAIN assigned)
  <2>1. m = Cardinality(DOMAIN keys) /\ size = Cardinality(DOMAIN assigned) /\ m = Count /\ size = s
    BY <1>1, <1>6
  <2>2. /\ assigned \in SomeKeys /\ IsNodeAt(text, saveIter, assigned)
        /\ saveIter + 4 * size + 2 <= Len(text) => text[saveIter + 4 * size + 2] = Slash
    BY <1>6
  <2> HIDE DEF m, size, assigned
  <2>3. /\ m <= size /\ (m < size => text[saveIter + 4 * m + 2] = Open)
        /\ m = size => keys = assigned
    <3>1. saveIter \in Nat /\ Len(text) \in Nat /\ keys \in SomeKeys
      BY <1>1, <1>2
    <3>2. m = Cardinality(DOMAIN keys) /\ size = Cardinality(DOMAIN assigned)
      BY <2>1
    <3> QED
      BY <1>5, <2>2, <3>1, <3>2, NodeIsFollowed
  <2>4. m = Count /\ size = s
    BY <2>1
  <2>5. Count <= s /\ (Count < s => text[saveIter + 4 * Count + 2] = Open) /\ (Count = s => keys = assigned)
    BY <2>3, <2>4
  <2> QED
    BY <2>5 DEF assigned
<1>8. \A i \in 1 .. s :
        /\ text[saveIter + 4 * i - 2] = Open /\ text[saveIter + 4 * i - 1] \in KeysOf[Level]
        /\ text[saveIter + 4 * i] = path[Level][text[saveIter + 4 * i - 1]]
        /\ text[saveIter + 4 * i + 1] = Close
  BY <1>6 DEF IsNodeAt
<1>9. ASSUME NEW key \in DOMAIN keys
      PROVE  \E i \in 1 .. Count : /\ text[saveIter + 4 * i - 1] = key
                                   /\ text[saveIter + 4 * i] = keys[key]
  <2> DEFINE TheKey(i) == text[saveIter + 4 * i - 1]
  <2>1. /\ \A i \in 1 .. Count : text[saveIter + 4 * i] = keys[TheKey(i)]
        /\ \E i \in 1 .. Count : TheKey(i) = key
    BY <1>1, <1>5 DEF KeysAreAt
  <2> QED
    BY <2>1
<1>10. \A i \in 1 .. Count : i \in 1 .. s
  BY <1>1, <1>6, <1>7
<1>11. ASSUME NEW key \in DOMAIN keys
       PROVE  key \in DOMAIN path[Level] /\ path[Level][key] = keys[key]
  <2>1. PICK i \in 1 .. Count : text[saveIter + 4 * i - 1] = key /\ text[saveIter + 4 * i] = keys[key]
    BY <1>9
  <2>2. i \in 1 .. s
    BY <1>10
  <2> QED
    BY <1>6, <1>8, <2>1, <2>2
<1>12. ASSUME Count < s
       PROVE  /\ text[saveIter + 4 * Count + 3] \in KeysOf[Level] \ DOMAIN keys
              /\ text[saveIter + 4 * Count + 4] = path[Level][text[saveIter + 4 * Count + 3]]
              /\ text[saveIter + 4 * Count + 5] = Close
  <2>0. Count \in Nat /\ s \in Nat /\ saveIter \in Nat
    BY <1>1, <1>6
  <2>1. PICK j \in Nat : Count + 1 = j
    BY <2>0
  <2>2. /\ j \in 1 .. s /\ saveIter + 4 * j - 1 = saveIter + 4 * Count + 3
        /\ saveIter + 4 * j = saveIter + 4 * Count + 4 /\ saveIter + 4 * j + 1 = saveIter + 4 * Count + 5
    <3>1. j \in 1 .. s
      BY <1>12, <2>0, <2>1
    <3>2. saveIter + 4 * j - 1 = saveIter + 4 * Count + 3
      BY <2>0, <2>1
    <3>3. saveIter + 4 * j = saveIter + 4 * Count + 4
      BY <2>0, <2>1
    <3>4. saveIter + 4 * j + 1 = saveIter + 4 * Count + 5
      BY <2>0, <2>1
    <3> QED
      BY <3>1, <3>2, <3>3, <3>4
  <2>3. /\ text[saveIter + 4 * j - 1] \in KeysOf[Level]
        /\ text[saveIter + 4 * j] = path[Level][text[saveIter + 4 * j - 1]]
        /\ text[saveIter + 4 * j + 1] = Close
    BY <1>8, <2>2
  <2>4. text[saveIter + 4 * j - 1] \notin DOMAIN keys
    <3> SUFFICES ASSUME text[saveIter + 4 * j - 1] \in DOMAIN keys PROVE FALSE
      OBVIOUS
    <3>1. PICK i \in 1 .. Count : text[saveIter + 4 * i - 1] = text[saveIter + 4 * j - 1]
      BY <1>9
    <3>2. i \in 1 .. s /\ i # j
      BY <1>1, <1>10, <2>1
    <3>3. PICK assigned : path[Level] = assigned
      OBVIOUS
    <3>4. /\ assigned \in SomeKeys /\ IsNodeAt(text, saveIter, assigned) /\ saveIter \in Nat
          /\ i \in 1 .. Cardinality(DOMAIN assigned) /\ j \in 1 .. Cardinality(DOMAIN assigned)
      BY <1>1, <1>6, <2>2, <3>2, <3>3
    <3> QED
      BY <3>1, <3>2, <3>4, KeysAreDistinct
  <2> QED
    BY <2>2, <2>3, <2>4
<1>13. ASSUME 0 < Count
       PROVE  text[saveIter + 4 * Count + 1] = Close
  <2>1. Count \in 1 .. s
    BY <1>1, <1>6, <1>7, <1>13
  <2> QED
    BY <1>8, <2>1
<1> QED
  BY <1>7, <1>11, <1>12, <1>13 DEF KeysAhead

-----------------------------------------------------------------------------
(***************************************************************************)
(* Suggestions that lead on                                                *)
(***************************************************************************)
LEMMA TokensPrefixIs ==
  ASSUME NEW s \in Seq(Token), NEW t \in Seq(Token)
  PROVE  IsPrefix(s, t) <=> Len(s) <= Len(t) /\ \A n \in 1 .. Len(s) : s[n] = t[n]
<1> DEFINE P == Len(s)
           front == SubSeq(s, 1, P)
           other == SubSeq(t, 1, P)
<1>0. P \in Nat /\ Len(t) \in Nat
  OBVIOUS
<1>1. front \in Seq(Token) /\ Len(front) = P /\ \A n \in 1 .. P : front[n] = s[n]
  OBVIOUS
<1>2. ASSUME P <= Len(t)
      PROVE  other \in Seq(Token) /\ Len(other) = P /\ \A n \in 1 .. P : other[n] = t[n]
  BY <1>2
<1>3. IsPrefix(s, t) <=> P <= Len(t) /\ front = other
  BY DEF IsPrefix
<1> HIDE DEF P, front, other
<1>4. ASSUME P <= Len(t), \A n \in 1 .. P : s[n] = t[n]
      PROVE  front = other
  BY <1>1, <1>2, <1>4, SeqEqual
<1> QED
  BY <1>1, <1>2, <1>3, <1>4 DEF P

\* The line is cut in two where the suggestions begin.
LEMMA LineIsCut ==
  ASSUME line \in Seq(Token), NEW from \in 0 .. Len(line)
  PROVE  /\ SubSeq(line, from + 1, Len(line)) \in Seq(Token)
         /\ Len(SubSeq(line, from + 1, Len(line))) = Len(line) - from
         /\ \A i \in 1 .. Len(line) - from : SubSeq(line, from + 1, Len(line))[i] = line[from + i]
         /\ SubSeq(line, 1, from) \in Seq(Token) /\ Len(SubSeq(line, 1, from)) = from
         /\ \A i \in 1 .. from : SubSeq(line, 1, from)[i] = line[i]
<1>1. /\ Len(line) \in Nat /\ from \in Nat /\ from <= Len(line)
      /\ \A i \in 1 .. Len(line) : line[i] \in Token
  OBVIOUS
<1>2. \A i \in from + 1 .. Len(line) : line[i] \in Token
  BY <1>1
<1>3. /\ SubSeq(line, from + 1, Len(line)) \in Seq(Token)
      /\ Len(SubSeq(line, from + 1, Len(line))) =
           IF from + 1 <= Len(line) THEN Len(line) - (from + 1) + 1 ELSE 0
      /\ \A i \in 1 .. Len(line) - (from + 1) + 1 :
           SubSeq(line, from + 1, Len(line))[i] = line[from + 1 + i - 1]
  BY <1>1, <1>2, SubSeqProperties
<1>4. \A i \in 1 .. from : line[i] \in Token
  BY <1>1
<1>5. /\ SubSeq(line, 1, from) \in Seq(Token)
      /\ Len(SubSeq(line, 1, from)) = IF 1 <= from THEN from - 1 + 1 ELSE 0
      /\ \A i \in 1 .. from - 1 + 1 : SubSeq(line, 1, from)[i] = line[1 + i - 1]
  BY <1>1, <1>4, SubSeqProperties
<1> QED
  BY <1>1, <1>3, <1>5

\* The text has this after so many of its tokens, or a slash where it ends.
IsNext(value, from, text) ==
  /\ from + Len(value) <= Len(text) + 1
  /\ \A k \in 1 .. Len(value) : value[k] = IF from + k <= Len(text) THEN text[from + k] ELSE Slash

LEMMA JoinedLeads ==
  ASSUME line \in Seq(Token), NEW path, NEW text, Towards(path, text),
         NEW from \in 0 .. Len(line), NEW value \in Seq(Token), IsNext(value, from, text),
         Len(line) < from + Len(value)
  PROVE  Leads(SubSeq(line, 1, from) \o value, text)
<1> DEFINE before == SubSeq(line, 1, from)
           o == before \o value
<1>1. before \in Seq(Token) /\ Len(before) = from /\ \A i \in 1 .. from : before[i] = line[i]
  BY LineIsCut
<1>2. /\ text \in Seq(Token) /\ Len(text) \in Nat /\ Len(line) < Len(text) /\ Len(line) \in Nat
      /\ \A n \in 1 .. Len(line) : text[n] = line[n]
  BY DEF Towards
<1>3. from \in Nat /\ from <= Len(line) /\ Len(value) \in Nat
  OBVIOUS
<1> HIDE DEF before
<1>4. /\ Len(o) = from + Len(value)
      /\ \A k \in 1 .. from : o[k] = before[k]
      /\ \A k \in 1 .. Len(value) : o[from + k] = value[k]
  <2>1. PICK first : before = first
    OBVIOUS
  <2>2. first \in Seq(Token)
    BY <1>1, <2>1
  <2>3. /\ Len(first \o value) = Len(first) + Len(value)
        /\ \A k \in 1 .. Len(first) : (first \o value)[k] = first[k]
        /\ \A k \in 1 .. Len(value) : (first \o value)[Len(first) + k] = value[k]
    BY <2>2, ConcatIs
  <2>4. Len(first) = from
    BY <1>1, <2>1
  <2> QED
    BY <2>1, <2>3, <2>4
<1> HIDE DEF o
<1>5. ASSUME NEW n \in 1 .. Len(o)
      PROVE  o[n] = IF n <= Len(text) THEN text[n] ELSE Slash
  <2>1. CASE n <= from
    <3>1. n \in 1 .. from /\ n \in 1 .. Len(line) /\ n <= Len(text)
      BY <1>2, <1>3, <2>1
    <3> QED
      BY <1>1, <1>2, <1>4, <3>1
  <2>2. CASE ~(n <= from)
    <3>1. PICK k : n - from = k
      OBVIOUS
    <3>2. k \in 1 .. Len(value) /\ from + k = n
      BY <1>3, <1>4, <2>2, <3>1
    <3> QED
      BY <1>4, <3>2 DEF IsNext
  <2> QED
    BY <2>1, <2>2
<1>6. Len(o) \in Nat /\ Len(line) < Len(o) /\ Len(o) <= Len(text) + 1
  BY <1>3, <1>4 DEF IsNext
<1> QED
  BY <1>5, <1>6 DEF Leads, o, before

\* A suggestion that the text goes on with, and the line does not have yet.
LEMMA SuggestionLeads ==
  ASSUME line \in Seq(Token), NEW path, NEW text, Towards(path, text),
         NEW c, NEW from \in 0 .. Len(line), c.from = from,
         NEW s \in c.suggestions, NEW value \in Seq(Token), s.value = value,
         IsNext(value, from, text), Len(line) < from + Len(value)
  PROVE  GoesOn(c, text)
<1> DEFINE typed == SubSeq(line, from + 1, Len(line))
<1>1. /\ typed \in Seq(Token) /\ Len(typed) = Len(line) - from
      /\ \A i \in 1 .. Len(line) - from : typed[i] = line[from + i]
  BY LineIsCut
<1>2. /\ text \in Seq(Token) /\ Len(text) \in Nat /\ Len(line) < Len(text) /\ Len(line) \in Nat
      /\ \A n \in 1 .. Len(line) : text[n] = line[n]
  BY DEF Towards
<1>3. from \in Nat /\ from <= Len(line) /\ Len(value) \in Nat
  OBVIOUS
<1> HIDE DEF typed
<1>4. Len(typed) <= Len(value) /\ typed # value
  BY <1>1, <1>2, <1>3
<1>5. ASSUME NEW i \in 1 .. Len(typed)
      PROVE  typed[i] = value[i]
  <2>1. i \in 1 .. Len(line) - from /\ i \in 1 .. Len(value) /\ from + i \in 1 .. Len(line)
        /\ from + i <= Len(text)
    BY <1>1, <1>2, <1>3, <1>4
  <2>2. typed[i] = line[from + i] /\ text[from + i] = line[from + i]
    BY <1>1, <1>2, <2>1
  <2>3. value[i] = text[from + i]
    BY <2>1 DEF IsNext
  <2> QED
    BY <2>2, <2>3
<1>6. IsPrefix(typed, value)
  BY <1>1, <1>4, <1>5, TokensPrefixIs
<1>7. SubSeq(line, 1, from) \o value \in Completions(c)
  BY <1>4, <1>6 DEF Completions, FilterByPrefix, typed
<1>8. Leads(SubSeq(line, 1, from) \o value, text)
  BY JoinedLeads
<1> QED
  BY <1>7, <1>8 DEF GoesOn

LEMMA OneIs ==
  ASSUME NEW S, NEW x \in S
  PROVE  <<x>> \in Seq(S) /\ Len(<<x>>) = 1 /\ <<x>>[1] = x
OBVIOUS

LEMMA TwoAre ==
  ASSUME NEW S, NEW x \in S, NEW y \in S
  PROVE  <<x, y>> \in Seq(S) /\ Len(<<x, y>>) = 2 /\ <<x, y>>[1] = x /\ <<x, y>>[2] = y
OBVIOUS

\* The next token of the text is suggested.
LEMMA NextTokenLeads ==
  ASSUME line \in Seq(Token), NEW path, NEW text, Towards(path, text),
         NEW c, c.from = Len(line), NEW token \in Token, text[Len(line) + 1] = token,
         NEW s \in c.suggestions, s.value = <<token>>
  PROVE  GoesOn(c, text)
<1>1. /\ Len(text) \in Nat /\ Len(line) < Len(text) /\ Len(line) \in Nat
  BY DEF Towards
<1>2. PICK value : <<token>> = value
  OBVIOUS
<1>3. value \in Seq(Token) /\ Len(value) = 1 /\ value[1] = token
  BY <1>2, OneIs
<1>4. PICK from : Len(line) = from
  OBVIOUS
<1>5. /\ from \in 0 .. Len(line) /\ from + Len(value) <= Len(text) + 1 /\ Len(line) < from + Len(value)
  BY <1>1, <1>3, <1>4
<1>6. \A k \in 1 .. Len(value) : k = 1
  BY <1>3
<1>7. from + 1 <= Len(text) /\ text[from + 1] = token
  BY <1>1, <1>4
<1>8. IsNext(value, from, text)
  BY <1>3, <1>5, <1>6, <1>7 DEF IsNext
<1>9. s.value = value /\ c.from = from
  BY <1>2, <1>4
<1> QED
  BY <1>3, <1>5, <1>8, <1>9, SuggestionLeads

\* The end of a key, or what is left of it.
LEMMA KeysEndLeads ==
  ASSUME line \in Seq(Token), NEW path, NEW text, Towards(path, text),
         NEW c, NEW from \in Nat, c.from = from, from \in {Len(line), Len(line) - 1},
         NEW x \in Token, Always(<<Close, x>>) \in c.suggestions,
         from + 1 <= Len(text), text[from + 1] = Close,
         x = IF from + 2 <= Len(text) THEN text[from + 2] ELSE Slash
  PROVE  GoesOn(c, text)
<1>1. Len(text) \in Nat /\ Len(line) < Len(text) /\ Len(line) \in Nat
  BY DEF Towards
<1>2. PICK value : <<Close, x>> = value
  OBVIOUS
<1>3. value \in Seq(Token) /\ Len(value) = 2 /\ value[1] = Close /\ value[2] = x
  <2>1. Close \in Token
    BY DEF Token
  <2> QED
    BY <1>2, <2>1, TwoAre
<1>4. /\ from \in 0 .. Len(line) /\ from + Len(value) <= Len(text) + 1 /\ Len(line) < from + Len(value)
  BY <1>1, <1>3
<1>5. \A k \in 1 .. Len(value) : k = 1 \/ k = 2
  BY <1>3
<1>6. IsNext(value, from, text)
  BY <1>3, <1>4, <1>5 DEF IsNext
<1>7. PICK s \in c.suggestions : Always(<<Close, x>>) = s
  OBVIOUS
<1>8. s.value = value
  BY <1>2, <1>7 DEF Always
<1> QED
  BY <1>3, <1>4, <1>6, <1>8, SuggestionLeads

\* A name that is all there gets the bracket after it.
LEMMA NameLeads ==
  ASSUME line \in Seq(Token), NEW path, NEW text, Towards(path, text),
         NEW c, NEW from \in Nat, c.from = from, from + 1 = Len(line),
         c.suggestions = {[value |-> <<Name>>, more |-> <<Open>>]},
         line[from + 1] = Name, text[from + 2] = Open
  PROVE  GoesOn(c, text)
<1> DEFINE typed == SubSeq(line, from + 1, Len(line))
           here == [value |-> <<Name>>, more |-> <<Open>>]
<1>1. /\ Len(text) \in Nat /\ Len(line) < Len(text) /\ Len(line) \in Nat
      /\ \A n \in 1 .. Len(line) : text[n] = line[n]
  BY DEF Towards
<1>2. from \in 0 .. Len(line) /\ Len(line) - from = 1 /\ 1 \in 1 .. 1
  BY <1>1
<1>3. typed \in Seq(Token) /\ Len(typed) = 1 /\ typed[1] = Name
  BY <1>2, LineIsCut
<1> HIDE DEF typed
<1>4. <<Name>> \in Seq(Token) /\ Len(<<Name>>) = 1 /\ <<Name>>[1] = Name
  BY DEF Token
<1>5. typed = <<Name>>
  BY <1>3, <1>4, SeqEqual
<1>6. IsPrefix(typed, typed)
  BY <1>3, TokensPrefixIs
<1>7. here \in FilterByPrefix(c.suggestions, typed) /\ FilterByPrefix(c.suggestions, typed) = {here}
  BY <1>5, <1>6 DEF FilterByPrefix
<1>8. Cardinality({here}) = 1
  <2>1. PICK h : here = h
    OBVIOUS
  <2> QED
    BY <2>1, FS_Singleton
<1>9. SubSeq(line, 1, from) \o (<<Name>> \o <<Open>>) \in Completions(c)
  <2>1. PICK h : here = h
    OBVIOUS
  <2>2. h.value = <<Name>> /\ h.more = <<Open>>
    BY <2>1
  <2>3. FilterByPrefix(c.suggestions, typed) = {h} /\ Cardinality({h}) = 1
    BY <1>7, <1>8, <2>1
  <2> HIDE DEF here
  <2>4. SubSeq(line, 1, from) \o (h.value \o h.more) \in Completions(c)
    BY <1>5, <2>2, <2>3 DEF Completions, typed
  <2> QED
    BY <2>2, <2>4
<1>10. PICK first : <<Name>> = first
  OBVIOUS
<1>11. first \in Seq(Token) /\ Len(first) = 1 /\ first[1] = Name
  BY <1>4, <1>10
<1>12. PICK value : first \o <<Open>> = value
  OBVIOUS
<1>13. /\ value \in Seq(Token) /\ Len(value) = 2 /\ value[1] = Name /\ value[2] = Open
  <2>1. /\ first \o <<Open>> \in Seq(Token) /\ Len(first \o <<Open>>) = Len(first) + 1
        /\ (first \o <<Open>>)[Len(first) + 1] = Open
        /\ \A k \in 1 .. Len(first) : (first \o <<Open>>)[k] = first[k]
    <3>1. Open \in Token
      BY DEF Token
    <3>2. first \in Seq(Token)
      BY <1>11
    <3> QED
      BY <3>1, <3>2, ThenLast
  <2>2. Len(first) + 1 = 2 /\ 1 \in 1 .. Len(first)
    BY <1>11
  <2> QED
    BY <1>11, <1>12, <2>1, <2>2
<1>14. IsNext(value, from, text)
  <2>1. \A k \in 1 .. Len(value) : k = 1 \/ k = 2
    BY <1>13
  <2>2. from + 1 <= Len(text) /\ from + 2 <= Len(text) /\ from + Len(value) <= Len(text) + 1
    BY <1>1, <1>13
  <2>3. text[from + 1] = Name
    <3>1. from + 1 \in 1 .. Len(line)
      BY <1>1
    <3> QED
      BY <1>1, <3>1
  <2> QED
    BY <1>13, <2>1, <2>2, <2>3 DEF IsNext
<1>15. Len(line) < from + Len(value)
  BY <1>1, <1>13
<1>16. Leads(SubSeq(line, 1, from) \o value, text)
  BY <1>2, <1>13, <1>14, <1>15, JoinedLeads
<1> QED
  BY <1>9, <1>10, <1>12, <1>16 DEF GoesOn

\* Only the suggestions and where they begin count.
LEMMA SameSuggestionsLead ==
  ASSUME NEW c, NEW d, NEW text, d.from = c.from, d.suggestions = c.suggestions, GoesOn(c, text)
  PROVE  GoesOn(d, text)
BY DEF GoesOn, Completions

-----------------------------------------------------------------------------
(***************************************************************************)
(* Every step of the parser stays on the way                               *)
(***************************************************************************)
Reached(text) == \E o \in offered : Leads(o, text)

Stays(path, text) ==
  \/ phase' = "parsing" /\ Way(path, text)'
  \/ phase' = "parsed" /\ Reached(text)'

LEMMA EndsReached ==
  ASSUME completing, line' = line, NEW c, NEW text, Ends(c), GoesOn(c, text)
  PROVE  phase' = "parsed" /\ Reached(text)'
BY DEF Ends, GoesOn, Reached, Leads

LEMMA GoesOnNext ==
  ASSUME line' = line, NEW c, NEW text, ctx'.from = c.from, ctx'.suggestions = c.suggestions,
         GoesOn(c, text)
  PROVE  GoesOn(ctx, text)'
BY DEF GoesOn, Completions, Leads

\* A parse that fails at the end of the line keeps the suggestions.
LEMMA ThrowsReached ==
  ASSUME Typed, completing, NEW path, NEW text, GoesOn(ctx, text), NEW message, Throws(message)
  PROVE  Stays(path, text)
<1>1. /\ [ctx EXCEPT !.error = message].from = ctx.from
      /\ [ctx EXCEPT !.error = message].suggestions = ctx.suggestions
  BY DEF Typed, Types, Context
<1>2. GoesOn([ctx EXCEPT !.error = message], text)
  BY <1>1, SameSuggestionsLead
<1>3. line' = line /\ Ends([ctx EXCEPT !.error = message])
  BY DEF Throws, Step, user
<1> QED
  BY <1>2, <1>3, EndsReached DEF Stays

LEMMA NodeStays ==
  ASSUME Typed, Reads, completing, NEW path, NEW text, Towards(path, text), Way(path, text), Node
  PROVE  Stays(path, text)
<1> DEFINE here == [value |-> <<Name>>, more |-> <<Open>>]
           c == Suggest(ctx, at, IF Level <= Depth THEN {here} ELSE {})
<1>1. /\ rule = "node" /\ rule # "after"
      /\ \/ /\ Look = Name /\ Level <= Depth /\ Step("suffix")
            /\ saveIter' = at /\ at' = at + 1 /\ ctx' = c /\ Goes /\ listEnd' = listEnd
         \/ ~(Look = Name /\ Level <= Depth) /\ NodeFails(c)
  BY DEF Node
<1>2. /\ IsPrefix(ctx.path, path) /\ Len(ctx.path) < Len(path)
      /\ listEnd => Len(line) = saveIter + 1
  BY <1>1 DEF Way
<1>3. Level <= Depth /\ text[saveIter + 1] = Name /\ text[saveIter + 2] = Open
  BY <1>1, <1>2, NodeIsAhead DEF NodeAhead
<1>4. at = saveIter
  BY <1>1 DEF Reads, PathIsRead
<1>5. /\ at \in Nat /\ Len(line) \in Nat /\ at <= Len(line) /\ line \in Seq(Token)
      /\ \A n \in 1 .. Len(line) : text[n] = line[n]
  BY LooksAt DEF Typed, Types, Towards
<1>6. here \in Suggestions
  BY DEF Suggestions, Token
<1>7. c.from = at /\ c.suggestions = {here} /\ c.path = ctx.path
  <2>1. ctx \in Context /\ {here} \subseteq Suggestions
    BY <1>6 DEF Typed, Types
  <2> QED
    BY <1>3, <1>5, <2>1, SuggestIs
<1> HIDE DEF c
<1>8. CASE at < Len(line)
  <2>1. Look = Name
    <3>1. at + 1 \in 1 .. Len(line)
      BY <1>5, <1>8
    <3> QED
      BY <1>3, <1>4, <1>5, <1>8, <3>1 DEF Look
  <2>2. /\ rule' = "suffix" /\ saveIter' = at /\ at' = at + 1 /\ ctx' = c /\ listEnd' = listEnd
        /\ phase' = "parsing" /\ line' = line
    BY <1>1, <1>3, <2>1, StepIs DEF Goes
  <2>3. ASSUME Len(line) = at + 1
        PROVE  GoesOn(ctx, text)'
    <3>1. GoesOn(c, text)
      <4>1. line[at + 1] = Name /\ text[at + 2] = Open
        BY <1>3, <1>4, <1>5, <1>8, <2>1 DEF Look
      <4>2. at + 1 = Len(line)
        BY <2>3
      <4> QED
        BY <1>5, <1>7, <4>1, <4>2, NameLeads
    <3> QED
      BY <2>2, <3>1, GoesOnNext
  <2>4. Way(path, text)'
    BY <1>2, <1>4, <1>7, <2>2, <2>3 DEF Way
  <2> QED
    BY <2>2, <2>4 DEF Stays
<1>9. CASE ~(at < Len(line))
  <2>1. Look = End /\ at = Len(line)
    BY <1>5, <1>9 DEF Look
  <2>2. NodeFails(c)
    BY <1>1, <2>1, TokensDiffer
  <2>3. Ends(c) /\ line' = line
    <3>1. ~(saveIter < Len(line))
      BY <1>4, <1>5, <2>1
    <3>2. /\ Ends(c) /\ Step("accepted")
      BY <2>2, <3>1 DEF NodeFails
    <3> QED
      BY <3>2 DEF Step, user
  <2>4. GoesOn(c, text)
    <3>1. Name \in Token
      BY DEF Token
    <3>2. here \in c.suggestions /\ here.value = <<Name>>
      BY <1>7
    <3>3. c.from = Len(line) /\ text[Len(line) + 1] = Name
      BY <1>3, <1>4, <1>7, <2>1
    <3> QED
      BY <1>5, <3>1, <3>2, <3>3, NextTokenLeads
  <2> QED
    BY <2>3, <2>4, EndsReached DEF Stays
<1> QED
  BY <1>8, <1>9

\* The parser is within a node of the path.
Ahead(path, text, s) ==
  /\ NodeAhead(path, text, s) /\ KeysAhead(path, text, s)
  /\ listEnd => rule = "suffix" /\ at = Len(line) /\ Count = 0
  /\ ~listEnd => ctx.tmpListKeys = keys
  /\ at < Len(line) => Look = text[at + 1] /\ Look \in Token
  /\ at = Len(line) => Look = End

LEMMA IsAhead ==
  ASSUME Typed, Reads, Within, NEW path, NEW text, Towards(path, text), Way(path, text)
  PROVE  \E s \in Nat : Ahead(path, text, s)
<1>1. /\ at \in Nat /\ Len(line) \in Nat /\ at <= Len(line) /\ line \in Seq(Token)
      /\ saveIter \in Nat /\ Count \in Nat
      /\ \A n \in 1 .. Len(line) : text[n] = line[n]
  BY LooksAt, LevelIs DEF Typed, Types, Towards
<1>2. rule # "after" /\ rule # "node"
  BY DEF Within
<1>3. IsPrefix(ctx.path, path) /\ Len(ctx.path) < Len(path)
  BY <1>2 DEF Way
<1>4. PICK s : NodeAhead(path, text, s)
  BY <1>2, <1>3, NodeIsAhead
<1>5. s \in Nat /\ KeysAhead(path, text, s)
  BY <1>4, KeysAreAhead DEF NodeAhead
<1>6. ASSUME listEnd
      PROVE  rule = "suffix" /\ at = Len(line) /\ Count = 0
  <2>1. rule = "suffix" /\ Len(line) = saveIter + 1
    BY <1>2, <1>6 DEF Way, Within
  <2>2. at = saveIter + 4 * Count + 1
    BY <2>1 DEF Reads, NodeIsRead, Within
  <2> QED
    BY <1>1, <2>1, <2>2
<1>7. ~listEnd => ctx.tmpListKeys = keys
  BY DEF Reads, KeysAreRemembered, Carried
<1>8. ASSUME at < Len(line)
      PROVE  Look = text[at + 1] /\ Look \in Token
  <2>1. at + 1 \in 1 .. Len(line)
    BY <1>1, <1>8
  <2> QED
    BY <1>1, <1>8, <2>1 DEF Look
<1>9. at = Len(line) => Look = End
  BY <1>1 DEF Look
<1> QED
  BY <1>4, <1>5, <1>6, <1>7, <1>8, <1>9 DEF Ahead

LEMMA OpenKeyStays ==
  ASSUME Typed, Reads, completing, NEW path, NEW text, Towards(path, text), Way(path, text), OpenKey
  PROVE  Stays(path, text)
<1> DEFINE c == Suggest(ctx, at + 1, {Always(<<key>>) : key \in Missing(ctx)})
<1>1. /\ rule = "suffix" /\ Look = Open /\ Step("key") /\ at' = at + 1 /\ ctx' = c
      /\ phase' = "parsing" /\ saveIter' = saveIter /\ listEnd' = listEnd /\ Within
  BY DEF OpenKey, Goes, Within
<1>2. PICK s \in Nat : Ahead(path, text, s)
  BY <1>1, IsAhead
<1>3. /\ at < Len(line) /\ at \in Nat /\ Len(line) \in Nat /\ saveIter \in Nat /\ Count \in Nat
      /\ line \in Seq(Token) /\ line' = line /\ rule' = "key"
  BY <1>1, LooksAt, LevelIs, TokensDiffer, StepIs DEF Typed, Types
<1>4. ~listEnd /\ ctx.tmpListKeys = keys /\ text[at + 1] = Open
  BY <1>1, <1>2, <1>3 DEF Ahead
<1>5. at = saveIter + 4 * Count + 1
  BY <1>1 DEF Reads, NodeIsRead, Within
<1>6. Count < s
  <2> SUFFICES ASSUME ~(Count < s) PROVE FALSE
    OBVIOUS
  <2>1. Count = s
    BY <1>2, <1>3 DEF Ahead, KeysAhead
  <2>2. at + 1 = saveIter + 4 * s + 2 /\ saveIter + 4 * s + 2 <= Len(text)
    <3>1. Len(text) \in Nat /\ Len(line) < Len(text)
      BY DEF Towards
    <3> QED
      BY <1>3, <1>5, <2>1, <3>1
  <2>3. text[saveIter + 4 * s + 2] = Slash
    BY <1>2, <2>2 DEF Ahead, NodeAhead
  <2> QED
    BY <1>4, <2>2, <2>3, TokensDiffer
<1>7. c.from = at + 1 /\ c.suggestions = {Always(<<key>>) : key \in Missing(ctx)} /\ c.path = ctx.path
  BY DEF Suggest, Typed, Types, Context
<1> HIDE DEF c
<1>8. ASSUME Len(line) = at + 1
      PROVE  GoesOn(ctx, text)'
  <2>1. saveIter + 4 * Count + 3 = at + 2
    BY <1>3, <1>5
  <2>2. text[at + 2] \in KeysOf[Level] \ DOMAIN keys
    BY <1>2, <1>6, <2>1 DEF Ahead, KeysAhead
  <2>3. PICK key : text[at + 2] = key
    OBVIOUS
  <2>4. key \in Missing(ctx) /\ key \in Token
    <3>1. KeysOf[Level] \subseteq Key
      BY <1>2, LevelIs DEF Ahead, NodeAhead
    <3> QED
      BY <1>4, <2>2, <2>3, <3>1 DEF Missing, Token
  <2>5. Always(<<key>>) \in c.suggestions /\ Always(<<key>>).value = <<key>>
    BY <1>7, <2>4 DEF Always
  <2>6. c.from = Len(line) /\ text[Len(line) + 1] = key
    <3>1. Len(line) + 1 = at + 2
      BY <1>3, <1>8
    <3> QED
      BY <1>7, <1>8, <2>3, <3>1
  <2>7. GoesOn(c, text)
    BY <1>3, <2>4, <2>5, <2>6, NextTokenLeads
  <2> QED
    BY <1>1, <1>3, <2>7, GoesOnNext
<1>9. Way(path, text)'
  BY <1>1, <1>3, <1>4, <1>7, <1>8 DEF Way
<1> QED
  BY <1>1, <1>9 DEF Stays

LEMMA BeginningIs ==
  ASSUME NEW S, NEW s \in Seq(S), NEW n \in 0 .. Len(s)
  PROVE  /\ SubSeq(s, 1, n) \in Seq(S) /\ Len(SubSeq(s, 1, n)) = n
         /\ \A i \in 1 .. n : SubSeq(s, 1, n)[i] = s[i]
<1>1. Len(s) \in Nat /\ n \in Nat /\ n <= Len(s) /\ \A i \in 1 .. n : s[i] \in S
  OBVIOUS
<1>2. /\ SubSeq(s, 1, n) \in Seq(S)
      /\ Len(SubSeq(s, 1, n)) = IF 1 <= n THEN n - 1 + 1 ELSE 0
      /\ \A i \in 1 .. n - 1 + 1 : SubSeq(s, 1, n)[i] = s[1 + i - 1]
  BY <1>1, SubSeqProperties
<1> QED
  BY <1>1, <1>2

\* The beginnings of an instance's path are instances.
LEMMA FrontsAreInstances ==
  ASSUME NEW path \in Instance, NEW n \in 1 .. Len(path)
  PROVE  SubSeq(path, 1, n) \in Instance
<1>1. path \in Seq(SomeKeys) /\ Len(path) \in Nat
  BY InstanceIs
<1> DEFINE T == {k \in Nat : k < Len(path) /\ SubSeq(path, 1, Len(path) - k) \notin Instance}
<1>2. T = {}
  <2> SUFFICES ASSUME T # {} PROVE FALSE
    OBVIOUS
  <2>1. T \subseteq Nat
    OBVIOUS
  <2>2. PICK m \in T : \A k \in T : ~(k < m)
    BY <2>1, LeastExists
  <2>3. m \in Nat /\ m < Len(path)
    OBVIOUS
  <2>4. CASE m = 0
    <3>1. PICK q : SubSeq(path, 1, Len(path)) = q
      OBVIOUS
    <3>2. Len(path) \in 0 .. Len(path)
      BY <1>1
    <3>3. q \in Seq(SomeKeys) /\ Len(q) = Len(path) /\ \A i \in 1 .. Len(path) : q[i] = path[i]
      BY <1>1, <3>1, <3>2, BeginningIs
    <3>4. q = path
      BY <1>1, <3>3, SeqEqual
    <3>5. Len(path) - m = Len(path)
      BY <1>1, <2>4
    <3> QED
      BY <3>1, <3>4, <3>5
  <2>5. CASE m # 0
    <3>1. m - 1 \in Nat /\ m - 1 < Len(path) /\ m - 1 < m
      BY <1>1, <2>3, <2>5
    <3>2. PICK q : SubSeq(path, 1, Len(path) - (m - 1)) = q
      OBVIOUS
    <3>3. q \in Instance
      BY <2>2, <3>1, <3>2
    <3>4. PICK l : Len(path) - m = l
      OBVIOUS
    <3>5. PICK r : Len(path) - (m - 1) = r
      OBVIOUS
    <3>6. /\ l \in Nat /\ r \in Nat /\ l + 1 = r /\ r - 1 = l /\ r > 1
          /\ l \in 0 .. Len(path) /\ r \in 0 .. Len(path) /\ l \in 0 .. r
          /\ \A i \in 1 .. l : i \in 1 .. r
      BY <1>1, <2>3, <2>5, <3>4, <3>5
    <3>7. q \in Seq(SomeKeys) /\ Len(q) = r /\ \A i \in 1 .. r : q[i] = path[i]
      BY <1>1, <3>2, <3>5, <3>6, BeginningIs
    <3>8. Len(q) > 1 /\ Front(q) \in Instance
      BY <3>3, <3>6, <3>7, InstanceAssumption
    <3>9. Front(q) = SubSeq(path, 1, l)
      <4>1. Front(q) = SubSeq(q, 1, l)
        BY <3>6, <3>7 DEF Front
      <4>2. PICK f : SubSeq(q, 1, l) = f
        OBVIOUS
      <4>3. PICK g : SubSeq(path, 1, l) = g
        OBVIOUS
      <4>4. l \in 0 .. Len(q)
        BY <3>6, <3>7
      <4>5. f \in Seq(SomeKeys) /\ Len(f) = l /\ \A i \in 1 .. l : f[i] = q[i]
        BY <3>7, <4>2, <4>4, BeginningIs
      <4>6. g \in Seq(SomeKeys) /\ Len(g) = l /\ \A i \in 1 .. l : g[i] = path[i]
        BY <1>1, <3>6, <4>3, BeginningIs
      <4>7. \A i \in 1 .. l : f[i] = g[i]
        BY <3>6, <3>7, <4>5, <4>6
      <4>8. f = g
        BY <4>5, <4>6, <4>7, SeqEqual
      <4> QED
        BY <4>1, <4>2, <4>3, <4>8
    <3> QED
      BY <3>4, <3>8, <3>9
  <2> QED
    BY <2>4, <2>5
<1>3. PICK k : Len(path) - n = k
  OBVIOUS
<1>4. k \in Nat /\ k < Len(path) /\ Len(path) - k = n
  BY <1>1, <1>3
<1> QED
  BY <1>2, <1>4

\* The value of the path is one of those of the instances that fit.
LEMMA ValueIsSuggested ==
  ASSUME Typed, Reads, Within, NEW path, NEW text, Towards(path, text), Way(path, text),
         NEW s, Ahead(path, text, s), ~listEnd, NEW key
  PROVE  path[Level][key] \in ValuesOf(key)
<1>1. /\ path \in Instance /\ path \in Seq(SomeKeys) /\ Len(path) \in Nat
      /\ Level \in 1 .. Len(path)
  BY InstanceIs DEF Towards, Ahead, NodeAhead
<1>2. /\ ctx.path \in Seq(SomeKeys) /\ Len(ctx.path) \in Nat /\ Level = Len(ctx.path) + 1
  BY LevelIs
<1>3. IsPrefix(ctx.path, path)
  BY DEF Way, Within
<1>4. \A n \in 1 .. Len(ctx.path) : ctx.path[n] = path[n]
  BY <1>1, <1>2, <1>3, PrefixIs
<1>5. PICK i : SubSeq(path, 1, Level) = i
  OBVIOUS
<1>6. i \in Instance
  BY <1>1, <1>5, FrontsAreInstances
<1>7. /\ i \in Seq(SomeKeys) /\ Len(i) = Level
      /\ \A n \in 1 .. Level : i[n] = path[n]
  BY <1>1, <1>5
<1>8. SubSeq(i, 1, Level - 1) = ctx.path
  <2>1. PICK f : SubSeq(i, 1, Level - 1) = f
    OBVIOUS
  <2>2. /\ f \in Seq(SomeKeys) /\ Len(f) = Level - 1 /\ \A n \in 1 .. Level - 1 : f[n] = i[n]
    <3>1. Level - 1 \in 0 .. Len(i)
      BY <1>2, <1>7
    <3> QED
      BY <1>7, <2>1, <3>1, BeginningIs
  <2>3. Level - 1 = Len(ctx.path) /\ \A n \in 1 .. Level - 1 : n \in 1 .. Level
    BY <1>2
  <2>4. f = ctx.path
    BY <1>2, <1>4, <1>7, <2>2, <2>3, SeqEqual
  <2> QED
    BY <2>1, <2>4
<1>9. i[Level] = path[Level]
  BY <1>1, <1>7
<1>10. path[Level] \in ListInstances
  BY <1>6, <1>7, <1>8, <1>9 DEF ListInstances
<1>11. PartialFitsComplete(path[Level])
  BY DEF Ahead, KeysAhead, PartialFitsComplete
<1> QED
  BY <1>10, <1>11 DEF ValuesOf

LEMMA KeyNameStays ==
  ASSUME Typed, Reads, completing, NEW path, NEW text, Towards(path, text), Way(path, text), KeyName
  PROVE  Stays(path, text)
<1> DEFINE key == Look
           values == IF key \in enums THEN Value ELSE ValuesOf(key)
           c == CreateSetSuggestions(CreateValueSuggestions(ctx, key), key)
<1>1. /\ rule = "key" /\ key \in KeysOf[Level] /\ Step("value") /\ at' = at + 1
      /\ ctx' = [c EXCEPT !.key = key]
      /\ phase' = "parsing" /\ saveIter' = saveIter /\ listEnd' = listEnd /\ Within
  BY DEF KeyName, Goes, Within
<1>2. PICK s \in Nat : Ahead(path, text, s)
  BY <1>1, IsAhead
<1>3. /\ at \in Nat /\ Len(line) \in Nat /\ saveIter \in Nat /\ Count \in Nat /\ at <= Len(line)
      /\ line \in Seq(Token) /\ line' = line /\ rule' = "value"
  BY <1>1, LooksAt, LevelIs, StepIs DEF Typed, Types
<1>4. at < Len(line) /\ ~listEnd /\ text[at + 1] = key
  <2>1. Level \in 1 .. Depth /\ KeysOf[Level] \subseteq Key
    BY <1>2, LevelIs DEF Ahead, NodeAhead
  <2>2. Look # End
    BY <1>1, <2>1, TokensDiffer
  <2>3. at < Len(line)
    BY <2>2, LooksAt
  <2> QED
    BY <1>1, <1>2, <2>3 DEF Ahead
<1>5. at = saveIter + 4 * Count + 2
  BY <1>1 DEF Reads, NodeIsRead, Within
<1>6. Count < s
  <2> SUFFICES ASSUME ~(Count < s) PROVE FALSE
    OBVIOUS
  <2>1. Count = s
    BY <1>2, <1>3 DEF Ahead, KeysAhead
  <2>2. at = saveIter + 4 * s + 2 /\ saveIter + 4 * s + 2 <= Len(text) /\ at \in 1 .. Len(line)
    <3>1. Len(text) \in Nat /\ Len(line) < Len(text)
      BY DEF Towards
    <3> QED
      BY <1>3, <1>5, <2>1, <3>1
  <2>3. text[at] = Slash
    BY <1>2, <2>2 DEF Ahead, NodeAhead
  <2>4. text[at] = line[at] /\ line[at] = Open
    BY <1>1, <2>2 DEF Towards, Reads, NodeIsRead, Within
  <2> QED
    BY <2>3, <2>4, TokensDiffer
<1>7. /\ c.from = at + 1 /\ c.suggestions = {Always(<<value>>) : value \in values} /\ c.path = ctx.path
      /\ [c EXCEPT !.key = key].from = c.from /\ [c EXCEPT !.key = key].suggestions = c.suggestions
      /\ [c EXCEPT !.key = key].path = c.path
  BY DEF CreateSetSuggestions, CreateValueSuggestions, Suggest, Typed, Types, Context
<1> HIDE DEF c
<1>8. ASSUME Len(line) = at + 1
      PROVE  GoesOn(ctx, text)'
  <2>1. saveIter + 4 * Count + 3 = at + 1 /\ saveIter + 4 * Count + 4 = at + 2
    BY <1>3, <1>5
  <2>2. text[at + 2] = path[Level][key]
    BY <1>2, <1>4, <1>6, <2>1 DEF Ahead, KeysAhead
  <2>3. PICK value : path[Level][key] = value
    OBVIOUS
  <2>4. value \in Value /\ value \in Token
    <3>1. path[Level] \in SomeKeys /\ key \in DOMAIN path[Level]
      BY <1>1, <1>2 DEF Ahead, NodeAhead
    <3> QED
      BY <2>3, <3>1, SomeKeysAre DEF Token
  <2>5. value \in ValuesOf(key)
    BY <1>1, <1>2, <1>4, <2>3, ValueIsSuggested
  <2>6. Always(<<value>>) \in c.suggestions /\ Always(<<value>>).value = <<value>>
    BY <1>7, <2>4, <2>5 DEF Always
  <2>7. c.from = Len(line) /\ text[Len(line) + 1] = value
    <3>1. Len(line) + 1 = at + 2
      BY <1>3, <1>8
    <3> QED
      BY <1>7, <1>8, <2>2, <2>3, <3>1
  <2>8. GoesOn(c, text)
    BY <1>3, <2>4, <2>6, <2>7, NextTokenLeads
  <2> QED
    BY <1>1, <1>3, <1>7, <2>8, GoesOnNext
<1>9. Way(path, text)'
  BY <1>1, <1>3, <1>4, <1>7, <1>8 DEF Way
<1> QED
  BY <1>1, <1>9 DEF Stays

\* Where a key or its value is expected, one is ahead.
LEMMA AKeyIsAhead ==
  ASSUME Typed, Reads, rule \in {"key", "value"}, NEW path, NEW text, Towards(path, text),
         NEW s \in Nat, Ahead(path, text, s)
  PROVE  Count < s
<1> SUFFICES ASSUME ~(Count < s) PROVE FALSE
  OBVIOUS
<1>1. /\ at \in Nat /\ Len(line) \in Nat /\ saveIter \in Nat /\ Count \in Nat /\ at <= Len(line)
  BY LooksAt, LevelIs
<1>2. Count = s
  BY <1>1 DEF Ahead, KeysAhead
<1>3. /\ at = IF rule = "key" THEN saveIter + 4 * Count + 2 ELSE saveIter + 4 * Count + 3
      /\ line[IF rule = "key" THEN at ELSE at - 1] = Open
  BY DEF Reads, NodeIsRead, Within
<1>4. PICK i : saveIter + 4 * s + 2 = i
  OBVIOUS
<1>5. i \in 1 .. Len(line) /\ line[i] = Open
  BY <1>1, <1>2, <1>3, <1>4
<1>6. Len(text) \in Nat /\ Len(line) < Len(text) /\ text[i] = line[i]
  BY <1>5 DEF Towards
<1>7. i <= Len(text)
  BY <1>1, <1>5, <1>6
<1>8. text[i] = Slash
  BY <1>4, <1>7 DEF Ahead, NodeAhead
<1> QED
  BY <1>5, <1>6, <1>8, TokensDiffer

LEMMA NoKeyNameStays ==
  ASSUME Typed, Reads, completing, NEW path, NEW text, Towards(path, text), Way(path, text),
         NoKeyName
  PROVE  Stays(path, text)
<1>1. rule = "key" /\ Look \notin KeysOf[Level] /\ Within
  BY DEF NoKeyName, Within
<1>2. PICK s \in Nat : Ahead(path, text, s)
  BY <1>1, IsAhead
<1>3. Count < s
  BY <1>1, <1>2, AKeyIsAhead
<1>4. /\ at \in Nat /\ Len(line) \in Nat /\ at <= Len(line) /\ saveIter \in Nat /\ Count \in Nat
  BY LooksAt, LevelIs
<1>5. Len(line) = at
  <2> SUFFICES ASSUME at < Len(line) PROVE FALSE
    BY <1>4
  <2>1. Look = text[at + 1]
    BY <1>2 DEF Ahead
  <2>2. saveIter + 4 * Count + 3 = at + 1
    <3>1. at = saveIter + 4 * Count + 2
      BY <1>1 DEF Reads, NodeIsRead, Within
    <3> QED
      BY <1>4, <3>1
  <2>3. text[at + 1] \in KeysOf[Level]
    BY <1>2, <1>3, <2>2 DEF Ahead, KeysAhead
  <2> QED
    BY <1>1, <2>1, <2>3
<1>6. GoesOn(ctx, text)
  BY <1>1, <1>5 DEF Way
<1>7. PICK message : Throws(message)
  BY DEF NoKeyName
<1> QED
  BY <1>6, <1>7, ThrowsReached

\* Where a value is expected: that of the key just read, which is another one
\* than those read before.
LEMMA AValueIsAhead ==
  ASSUME Typed, Reads, rule = "value", NEW path, NEW text, Towards(path, text), Way(path, text)
  PROVE  /\ ~listEnd /\ ~Again
         /\ at < Len(line) => Look \in Value
<1>1. Within
  BY DEF Within
<1>2. PICK s \in Nat : Ahead(path, text, s)
  BY <1>1, IsAhead
<1>3. Count < s
  BY <1>2, AKeyIsAhead
<1>4. /\ at \in Nat /\ Len(line) \in Nat /\ at <= Len(line) /\ saveIter \in Nat /\ Count \in Nat
  BY LooksAt, LevelIs
<1>5. ~listEnd /\ ctx.tmpListKeys = keys
  BY <1>2 DEF Ahead
<1>6. at = saveIter + 4 * Count + 3 /\ line[at] = ctx.key
  BY <1>1 DEF Reads, NodeIsRead
<1>7. saveIter + 4 * Count + 3 = at /\ saveIter + 4 * Count + 4 = at + 1 /\ at \in 1 .. Len(line)
  BY <1>4, <1>6
<1>8. text[at] = ctx.key
  BY <1>6, <1>7 DEF Towards
<1>9. ctx.key \in KeysOf[Level] \ DOMAIN keys /\ text[at + 1] = path[Level][ctx.key]
  BY <1>2, <1>3, <1>7, <1>8 DEF Ahead, KeysAhead
<1>10. path[Level][ctx.key] \in Value
  <2>1. path[Level] \in SomeKeys /\ ctx.key \in DOMAIN path[Level]
    BY <1>2, <1>9 DEF Ahead, NodeAhead
  <2> QED
    BY <2>1, SomeKeysAre
<1>11. at < Len(line) => Look = text[at + 1]
  BY <1>2 DEF Ahead
<1> QED
  BY <1>5, <1>9, <1>10, <1>11 DEF Again

LEMMA KeyValueStays ==
  ASSUME Typed, Reads, NEW path, NEW text, Towards(path, text), Way(path, text), KeyValue
  PROVE  Stays(path, text)
<1> DEFINE c == [ctx EXCEPT !.tmpListKeys = Given(@, ctx.key, Look)]
<1>1. /\ rule = "value" /\ Step("close") /\ at' = at + 1 /\ ctx' = SuggestKeysEnd(c)
      /\ phase' = "parsing" /\ saveIter' = saveIter /\ listEnd' = listEnd /\ rule' = "close"
  BY StepIs DEF KeyValue, Goes
<1>2. ~listEnd
  BY <1>1, AValueIsAhead
<1>3. /\ ctx'.from = at + 1 /\ ctx'.path = ctx.path /\ ctx'.tmpListKeys = c.tmpListKeys
      /\ ctx'.suggestions = {Always(<<Close, IF Missing(c) = {} THEN Slash ELSE Open>>)}
  BY <1>1 DEF SuggestKeysEnd, Suggest, Typed, Types, Context
<1>4. Missing(c) = Missing(ctx)'
  BY <1>3 DEF Missing, Level
<1>5. Way(path, text)'
  BY <1>1, <1>2, <1>3, <1>4 DEF Way
<1> QED
  BY <1>1, <1>5 DEF Stays

LEMMA KeyAgainStays ==
  ASSUME Typed, Reads, NEW path, NEW text, Towards(path, text), Way(path, text), KeyAgain
  PROVE  Stays(path, text)
BY AValueIsAhead DEF KeyAgain

LEMMA NoKeyValueStays ==
  ASSUME Typed, Reads, completing, NEW path, NEW text, Towards(path, text), Way(path, text),
         NoKeyValue
  PROVE  Stays(path, text)
<1>1. rule = "value" /\ Look \notin Value
  BY DEF NoKeyValue
<1>2. Len(line) = at
  BY <1>1, AValueIsAhead, LooksAt
<1>3. GoesOn(ctx, text)
  BY <1>1, <1>2 DEF Way
<1>4. PICK message : Throws(message)
  BY DEF NoKeyValue
<1> QED
  BY <1>3, <1>4, ThrowsReached

\* After a value the suggestions are what ends the key.
LEMMA KeysEndGoesOn ==
  ASSUME Typed, Reads, rule = "close", NEW path, NEW text, Towards(path, text), Way(path, text)
  PROVE  /\ ~listEnd
         /\ at < Len(line) => Look = Close
         /\ at \in {Len(line), Len(line) - 1} => GoesOn(ctx, text)
<1>1. Within /\ rule # "suffix"
  BY DEF Within
<1>2. PICK s \in Nat : Ahead(path, text, s)
  BY <1>1, IsAhead
<1>3. /\ at \in Nat /\ Len(line) \in Nat /\ at <= Len(line) /\ saveIter \in Nat /\ Count \in Nat
      /\ line \in Seq(Token)
  BY LooksAt, LevelIs DEF Typed, Types
<1>4. ~listEnd /\ ctx.tmpListKeys = keys
  BY <1>1, <1>2 DEF Ahead
<1>5. at = saveIter + 4 * Count /\ Count > 0
  BY <1>1 DEF Reads, NodeIsRead
<1>6. /\ saveIter + 4 * Count + 1 = at + 1 /\ saveIter + 4 * Count + 2 = at + 2
  BY <1>3, <1>5
<1>7. text[at + 1] = Close
  BY <1>2, <1>3, <1>5, <1>6 DEF Ahead, KeysAhead
<1>8. /\ Len(text) \in Nat /\ Len(line) < Len(text)
  BY DEF Towards
<1>9. at + 1 <= Len(text)
  BY <1>3, <1>8
<1> DEFINE x == IF Missing(ctx) = {} THEN Slash ELSE Open
<1>10. x = IF at + 2 <= Len(text) THEN text[at + 2] ELSE Slash
  <2>1. CASE Count = s
    <3>1. Missing(ctx) = {}
      <4>1. keys = path[Level] /\ DOMAIN path[Level] = KeysOf[Level]
        BY <1>2, <2>1 DEF Ahead, KeysAhead, NodeAhead
      <4> QED
        BY <1>4, <4>1 DEF Missing
    <3>2. saveIter + 4 * s + 2 = at + 2
      BY <1>6, <2>1
    <3>3. at + 2 <= Len(text) => text[at + 2] = Slash
      BY <1>2, <3>2 DEF Ahead, NodeAhead
    <3> QED
      BY <3>1, <3>3
  <2>2. CASE Count # s
    <3>1. Count < s
      BY <1>2, <1>3, <2>2 DEF Ahead, KeysAhead
    <3>2. text[at + 2] = Open /\ KeysOf[Level] \ DOMAIN keys # {}
      BY <1>2, <1>6, <3>1 DEF Ahead, KeysAhead
    <3>3. at + 2 <= Len(text)
      <4>1. saveIter + 4 * s + 1 <= Len(text)
        BY <1>2 DEF Ahead, NodeAhead
      <4> QED
        BY <1>3, <1>5, <1>8, <3>1, <4>1
    <3>4. Missing(ctx) # {}
      BY <1>4, <3>2 DEF Missing
    <3> QED
      BY <3>2, <3>3, <3>4
  <2> QED
    BY <2>1, <2>2
<1>11. Always(<<Close, x>>) \in ctx.suggestions /\ ctx.from = at
  BY DEF Way
<1>12. x \in Token
  BY DEF Token
<1> HIDE DEF x
<1>13. ASSUME at \in {Len(line), Len(line) - 1}
       PROVE  GoesOn(ctx, text)
  BY <1>3, <1>7, <1>9, <1>10, <1>11, <1>12, <1>13, KeysEndLeads
<1> QED
  BY <1>2, <1>4, <1>7, <1>13 DEF Ahead

LEMMA CloseKeyStays ==
  ASSUME Typed, Reads, NEW path, NEW text, Towards(path, text), Way(path, text), CloseKey
  PROVE  Stays(path, text)
<1>1. /\ rule = "close" /\ Look = Close /\ at' = at + 1 /\ ctx' = ctx /\ rule' = "suffix"
      /\ phase' = "parsing" /\ saveIter' = saveIter /\ listEnd' = listEnd /\ line' = line
  BY StepIs DEF CloseKey, Goes
<1>2. ~listEnd /\ (at = Len(line) - 1 => GoesOn(ctx, text))
  BY <1>1, KeysEndGoesOn
<1>3. at \in Nat /\ Len(line) \in Nat
  BY LooksAt
<1>4. ASSUME Len(line) = at + 1
      PROVE  GoesOn(ctx, text)'
  <2>1. GoesOn(ctx, text)
    BY <1>2, <1>3, <1>4
  <2> QED
    BY <1>1, <2>1, GoesOnNext
<1>5. Way(path, text)'
  BY <1>1, <1>2, <1>4 DEF Way
<1> QED
  BY <1>1, <1>5 DEF Stays

LEMMA NoCloseKeyStays ==
  ASSUME Typed, Reads, completing, NEW path, NEW text, Towards(path, text), Way(path, text),
         NoCloseKey
  PROVE  Stays(path, text)
<1>1. rule = "close" /\ Look # Close
  BY DEF NoCloseKey
<1>2. at = Len(line) /\ GoesOn(ctx, text)
  BY <1>1, KeysEndGoesOn, LooksAt
<1>3. PICK message : Throws(message)
  BY DEF NoCloseKey
<1> QED
  BY <1>2, <1>3, ThrowsReached

LEMMA SuffixSucceedsStays ==
  ASSUME Typed, Reads, completing, NEW path, NEW text, Towards(path, text), Way(path, text),
         SuffixSucceeds
  PROVE  Stays(path, text)
<1> DEFINE c == [ctx EXCEPT !.tmpListKeys = NoKeys]
<1>1. rule = "suffix" /\ Look # Open /\ DOMAIN keys = KeysOf[Level] /\ NodeEnds(c, at, keys) /\ Within
  BY DEF SuffixSucceeds, Within
<1>2. PICK s \in Nat : Ahead(path, text, s)
  BY <1>1, IsAhead
<1>3. /\ at \in Nat /\ Len(line) \in Nat /\ at <= Len(line) /\ saveIter \in Nat /\ Count \in Nat
      /\ keys \in SomeKeys /\ ctx.path \in Seq(SomeKeys) /\ Level = Len(ctx.path) + 1
      /\ Len(ctx.path) \in Nat
  BY LooksAt, LevelIs
<1>4. Count = s /\ s > 0
  BY <1>1, <1>2 DEF Ahead, NodeAhead, Count
<1>5. keys = path[Level] /\ ~listEnd
  BY <1>2, <1>4 DEF Ahead, KeysAhead
<1>6. Look \in {Slash, End}
  <2>1. CASE at < Len(line)
    <3>1. Look = text[at + 1]
      BY <1>2, <2>1 DEF Ahead
    <3>2. at = saveIter + 4 * Count + 1
      BY <1>1 DEF Reads, NodeIsRead
    <3>3. saveIter + 4 * s + 2 = at + 1
      BY <1>3, <1>4, <3>2
    <3>4. Len(text) \in Nat /\ Len(line) < Len(text)
      BY DEF Towards
    <3>5. at + 1 <= Len(text)
      BY <1>3, <2>1, <3>4
    <3>6. text[at + 1] = Slash
      BY <1>2, <3>3, <3>5 DEF Ahead, NodeAhead
    <3> QED
      BY <3>1, <3>6
  <2>2. CASE ~(at < Len(line))
    BY <2>2 DEF Look
  <2> QED
    BY <2>1, <2>2
<1>7. MayEnd(at)
  BY <1>6 DEF MayEnd, Look
<1>8. /\ Step("after") /\ at' = at /\ ctx' = PushPathFragment(c, keys) /\ Goes
      /\ saveIter' = saveIter /\ listEnd' = listEnd
  BY <1>1, <1>7, NodeEndsIs
<1>9. /\ rule' = "after" /\ line' = line /\ phase' = "parsing"
  BY <1>8, StepIs DEF Goes
<1>10. /\ ctx'.path = Append(ctx.path, keys) /\ ctx'.from = ctx.from
       /\ ctx'.suggestions = ctx.suggestions
  BY <1>8 DEF PushPathFragment, Typed, Types, Context
<1>11. IsPrefix(ctx'.path, path)
  <2>1. path \in Seq(SomeKeys) /\ Len(path) \in Nat
    BY InstanceIs DEF Towards
  <2>2. IsPrefix(ctx.path, path) /\ Level \in 1 .. Len(path)
    BY <1>1, <1>2 DEF Way, Ahead, NodeAhead
  <2>3. Len(ctx.path) <= Len(path) /\ \A n \in 1 .. Len(ctx.path) : ctx.path[n] = path[n]
    BY <1>3, <2>1, <2>2, PrefixIs
  <2>4. PICK q : Append(ctx.path, keys) = q
    OBVIOUS
  <2>5. /\ q \in Seq(SomeKeys) /\ Len(q) = Level /\ q[Level] = keys
        /\ \A n \in 1 .. Len(ctx.path) : q[n] = ctx.path[n]
    BY <1>3, <2>4
  <2>6. Len(q) <= Len(path)
    BY <2>1, <2>2, <2>5
  <2>7. \A n \in 1 .. Len(q) : n \in 1 .. Len(ctx.path) \/ n = Level
    BY <1>3, <2>5
  <2>8. \A n \in 1 .. Len(q) : q[n] = path[n]
    BY <1>5, <2>3, <2>5, <2>7
  <2>9. IsPrefix(q, path)
    BY <2>1, <2>5, <2>6, <2>8, PrefixIs
  <2> QED
    BY <1>10, <2>4, <2>9
<1>12. ASSUME Len(line) = at
       PROVE  GoesOn(ctx, text)'
  <2>1. GoesOn(ctx, text)
    BY <1>1, <1>12 DEF Way
  <2> QED
    BY <1>9, <1>10, <2>1, GoesOnNext
<1>13. Way(path, text)'
  BY <1>5, <1>8, <1>9, <1>11, <1>12 DEF Way
<1> QED
  BY <1>9, <1>13 DEF Stays

LEMMA SuffixFailsStays ==
  ASSUME Typed, Reads, completing, ~MayEndInList,
         NEW path, NEW text, Towards(path, text), Way(path, text), SuffixFails
  PROVE  Stays(path, text)
<1> DEFINE c == [ctx EXCEPT !.error = "not enough"]
<1>1. /\ rule = "suffix" /\ Look # Open /\ DOMAIN keys # KeysOf[Level] /\ Within
      /\ IF listEnd THEN NodeEnds(c, saveIter + 1, NoKeys) ELSE NodeFails(c)
  BY DEF SuffixFails, Within
<1>2. PICK s \in Nat : Ahead(path, text, s)
  BY <1>1, IsAhead
<1>3. /\ at \in Nat /\ Len(line) \in Nat /\ at <= Len(line) /\ saveIter \in Nat /\ Count \in Nat
  BY LooksAt, LevelIs
<1>4. Count < s
  <2>1. /\ Count <= s /\ (Count = s => keys = path[Level]) /\ s \in Nat
        /\ DOMAIN path[Level] = KeysOf[Level]
    BY <1>2 DEF Ahead, KeysAhead, NodeAhead
  <2>2. Count # s
    BY <1>1, <2>1
  <2> QED
    BY <1>3, <2>1, <2>2
<1>5. at = saveIter + 4 * Count + 1
  BY <1>1 DEF Reads, NodeIsRead
<1>6. at = Len(line)
  <2> SUFFICES ASSUME at < Len(line) PROVE FALSE
    BY <1>3
  <2>1. Look = text[at + 1]
    BY <1>2 DEF Ahead
  <2>2. saveIter + 4 * Count + 2 = at + 1
    BY <1>3, <1>5
  <2>3. text[at + 1] = Open
    BY <1>2, <1>4, <2>2 DEF Ahead, KeysAhead
  <2> QED
    BY <1>1, <2>1, <2>3
<1>7. GoesOn(ctx, text)
  BY <1>1, <1>6 DEF Way
<1>8. c.path = ctx.path /\ c.from = ctx.from /\ c.suggestions = ctx.suggestions
  BY DEF Typed, Types, Context
<1>9. GoesOn(c, text)
  BY <1>7, <1>8, SameSuggestionsLead
<1>10. CASE listEnd
  <2>1. Count = 0 /\ Len(line) = saveIter + 1
    BY <1>2, <1>3, <1>5, <1>6, <1>10 DEF Ahead
  <2>2. MayEnd(saveIter + 1)
    BY <1>3, <2>1 DEF MayEnd
  <2>3. NodeEnds(c, saveIter + 1, NoKeys)
    BY <1>1, <1>10
  <2>4. /\ Step("after") /\ at' = saveIter + 1 /\ ctx' = PushPathFragment(c, NoKeys) /\ Goes
        /\ listEnd' = listEnd
    BY <2>2, <2>3, NodeEndsIs
  <2>5. rule' = "after" /\ line' = line /\ phase' = "parsing"
    BY <2>4, StepIs DEF Goes
  <2>6. ctx'.from = ctx.from /\ ctx'.suggestions = ctx.suggestions
    BY <2>4 DEF PushPathFragment, Typed, Types, Context
  <2>7. GoesOn(ctx, text)'
    BY <1>7, <2>5, <2>6, GoesOnNext
  <2>8. Way(path, text)'
    BY <1>10, <2>1, <2>4, <2>5, <2>7 DEF Way
  <2> QED
    BY <2>5, <2>8 DEF Stays
<1>11. CASE ~listEnd
  <2>1. NodeFails(c) /\ saveIter < Len(line) /\ line' = line
    <3>1. NodeFails(c)
      BY <1>1, <1>11
    <3>2. saveIter + 4 * Count + 1 = Len(line)
      BY <1>5, <1>6
    <3>3. saveIter < Len(line)
      BY <1>3, <3>2
    <3> HIDE DEF c
    <3>4. line' = line
      BY <3>1, NodeFailsIs
    <3> QED
      BY <3>1, <3>3, <3>4
  <2>2. CASE phase' = "parsing"
    <3>1. /\ rule' = "node" /\ listEnd' = TRUE /\ saveIter' = saveIter /\ ctx' = c
          /\ parserMode = "DataPathListEnd"
      BY <2>1, <2>2, NodeFailsIs
    <3>2. Count = 0
      <4> SUFFICES ASSUME Count # 0 PROVE FALSE
        OBVIOUS
      <4>1. Count > 0 /\ saveIter + 4 * Count + 1 = Len(line) /\ Len(line) \in 1 .. Len(line)
        BY <1>3, <1>5, <1>6
      <4>2. text[Len(line)] = Close
        BY <1>2, <4>1 DEF Ahead, KeysAhead
      <4>3. line[Len(line)] = Close
        BY <4>1, <4>2 DEF Towards
      <4>4. line # << >>
        BY <4>1
      <4> QED
        BY <3>1, <4>3, <4>4 DEF MayEndInList
    <3>3. Len(line) = saveIter + 1
      BY <1>3, <1>5, <1>6, <3>2
    <3>4. IsPrefix(ctx.path, path) /\ Len(ctx.path) < Len(path)
      BY <1>1 DEF Way
    <3>5. Way(path, text)'
      BY <1>8, <2>1, <3>1, <3>3, <3>4 DEF Way, Within
    <3> QED
      BY <2>2, <3>5 DEF Stays
  <2>3. CASE phase' # "parsing"
    <3>1. Ends(c)
      BY <2>1, <2>3 DEF NodeFails, Goes
    <3> QED
      BY <1>9, <2>1, <3>1, EndsReached DEF Stays
  <2> QED
    BY <2>2, <2>3
<1> QED
  BY <1>10, <1>11

LEMMA NodeGoesOnStays ==
  ASSUME Typed, Reads, NEW path, NEW text, Towards(path, text), Way(path, text), NodeGoesOn
  PROVE  Stays(path, text)
<1>1. /\ rule = "after" /\ Look = Slash /\ ~listEnd /\ rule' = "node" /\ line' = line
      /\ listEnd' = listEnd /\ ctx' = ctx /\ phase' = "parsing"
  BY StepIs DEF NodeGoesOn, Goes
<1>2. IsPrefix(ctx.path, path)
  BY <1>1 DEF Way
<1>3. /\ ctx.path \in Seq(SomeKeys) /\ Len(ctx.path) \in Nat /\ path \in Seq(SomeKeys)
      /\ Len(path) \in Nat /\ at \in Nat /\ at <= Len(line) /\ Len(line) \in Nat
  BY LevelIs, LooksAt, InstanceIs DEF Towards
<1>4. Len(ctx.path) <= Len(path) /\ \A n \in 1 .. Len(ctx.path) : ctx.path[n] = path[n]
  BY <1>2, <1>3, PrefixIs
<1>5. Len(ctx.path) < Len(path)
  <2> SUFFICES ASSUME Len(ctx.path) = Len(path) PROVE FALSE
    BY <1>3, <1>4
  <2>1. ctx.path = path
    BY <1>3, <1>4, SeqEqual
  <2>2. at = Begins(path)[Len(path) + 1] - 1
    BY <1>1, <2>1 DEF Reads, PathIsRead
  <2>3. Len(text) + 1 = Begins(path)[Len(path) + 1] /\ Len(text) \in Nat /\ Len(line) < Len(text)
    BY DEF Towards
  <2> QED
    BY <1>3, <2>2, <2>3
<1>6. Way(path, text)'
  BY <1>1, <1>2, <1>5 DEF Way, Within
<1> QED
  BY <1>1, <1>6 DEF Stays

LEMMA PathEndsStays ==
  ASSUME Typed, Reads, completing, NEW path, NEW text, Towards(path, text), Way(path, text),
         PathEnds
  PROVE  Stays(path, text)
<1>1. rule = "after" /\ (listEnd \/ Look = End) /\ Ends(ctx) /\ line' = line
  BY DEF PathEnds, Step, user
<1>2. Len(line) = at
  BY <1>1, LooksAt DEF Way
<1>3. GoesOn(ctx, text)
  BY <1>1, <1>2 DEF Way
<1> QED
  BY <1>1, <1>3, EndsReached DEF Stays

LEMMA ParserStays ==
  ASSUME Typed, Reads, completing, ~MayEndInList,
         NEW path, NEW text, Towards(path, text), Way(path, text), Parses
  PROVE  Stays(path, text)
BY NodeStays, OpenKeyStays, KeyNameStays, NoKeyNameStays, KeyValueStays, KeyAgainStays,
   NoKeyValueStays, CloseKeyStays, NoCloseKeyStays, SuffixSucceedsStays, SuffixFailsStays,
   NodeGoesOnStays, PathEndsStays DEF Parses

-----------------------------------------------------------------------------
(***************************************************************************)
(* Every instance is offered                                               *)
(***************************************************************************)
\* Of a line that was completed: whatever path it is the beginning of goes on.
Offers ==
  phase = "parsed" /\ completing /\ ~MayEndInList =>
    \A path \in Instance : \A text \in Seq(Token) : Towards(path, text) => Reached(text)

EInv == KInv /\ OnTheWay /\ Offers

LEMMA OffersSuffice ==
  ASSUME Typed, Offers
  PROVE  EveryInstanceIsOffered
<1> SUFFICES ASSUME phase = "parsed", completing, ~MayEndInList,
                    NEW path \in Instance, NEW text \in Texts[path], IsStrictPrefix(line, text)
             PROVE  \E longer \in offered :
                      IsStrictPrefix(line, longer) /\ IsPrefix(longer, text \o <<Slash>>)
  BY DEF EveryInstanceIsOffered, MayEndInList
<1>1. /\ text \in Seq(Token) /\ IsTextOf(text, path)
      /\ Len(text) + 1 = Begins(path)[Len(path) + 1]
  BY PathTextIs
<1>2. line \in Seq(Token) /\ Len(line) \in Nat /\ Len(text) \in Nat
  BY <1>1 DEF Typed, Types
<1>3. Len(line) <= Len(text) /\ (\A n \in 1 .. Len(line) : line[n] = text[n]) /\ line # text
  BY <1>1, <1>2, TokensPrefixIs DEF IsStrictPrefix
<1>4. Len(line) < Len(text)
  <2>1. Len(line) = Len(text) => line = text
    BY <1>1, <1>2, <1>3, SeqEqual
  <2> QED
    BY <1>2, <1>3, <2>1
<1>5. Towards(path, text)
  <2>1. \A n \in 1 .. Len(line) : text[n] = line[n]
    BY <1>3
  <2> QED
    BY <1>1, <1>4, <2>1 DEF Towards
<1>6. PICK o \in offered : Leads(o, text)
  BY <1>1, <1>5 DEF Offers, Reached
<1>7. o \in Seq(Token)
  BY DEF Typed, OffersAreLonger
<1>8. /\ Len(o) \in Nat /\ Len(line) < Len(o) /\ Len(o) <= Len(text) + 1
      /\ \A n \in 1 .. Len(o) : o[n] = IF n <= Len(text) THEN text[n] ELSE Slash
  BY <1>6 DEF Leads
<1>9. IsStrictPrefix(line, o)
  <2>1. ASSUME NEW n \in 1 .. Len(line)
        PROVE  line[n] = o[n]
    <3>1. n \in 1 .. Len(o) /\ n <= Len(text)
      BY <1>2, <1>4, <1>8
    <3> QED
      BY <1>3, <1>8, <3>1
  <2>2. Len(line) <= Len(o) /\ line # o
    BY <1>2, <1>8
  <2> QED
    BY <1>2, <1>7, <2>1, <2>2, TokensPrefixIs DEF IsStrictPrefix
<1>10. PICK whole : text \o <<Slash>> = whole
  OBVIOUS
<1>11. text \in Seq(Token) /\ Slash \in Token
  BY <1>1 DEF Token
<1>12. /\ text \o <<Slash>> \in Seq(Token) /\ Len(text \o <<Slash>>) = Len(text) + 1
       /\ (text \o <<Slash>>)[Len(text) + 1] = Slash
       /\ \A n \in 1 .. Len(text) : (text \o <<Slash>>)[n] = text[n]
  BY <1>11, ThenLast
<1>13. /\ whole \in Seq(Token) /\ Len(whole) = Len(text) + 1 /\ whole[Len(text) + 1] = Slash
       /\ \A n \in 1 .. Len(text) : whole[n] = text[n]
  BY <1>10, <1>12
<1>14. ASSUME NEW n \in 1 .. Len(o)
       PROVE  o[n] = whole[n]
  <2>1. CASE n <= Len(text)
    <3>1. n \in 1 .. Len(text)
      BY <1>2, <1>8, <2>1
    <3> QED
      BY <1>8, <1>13, <2>1, <3>1
  <2>2. CASE ~(n <= Len(text))
    <3>1. n = Len(text) + 1
      BY <1>2, <1>8, <2>2
    <3> QED
      BY <1>8, <1>13, <2>2, <3>1
  <2> QED
    BY <2>1, <2>2
<1>15. IsPrefix(o, whole)
  BY <1>7, <1>8, <1>13, <1>14, TokensPrefixIs
<1> QED
  BY <1>9, <1>10, <1>15

\* Tab and Enter begin a parse, at the beginning of every path.
LEMMA PressIsOnTheWay ==
  ASSUME NEW tab \in BOOLEAN, Press(tab)
  PROVE  OnTheWay' /\ Offers'
<1>1. /\ phase' = "parsing" /\ rule' = "node" /\ listEnd' = FALSE /\ ctx' = NewContext
  BY DEF Press, NewParser
<1>2. ctx'.path = << >> /\ << >> \in Seq(SomeKeys) /\ Len(<< >>) = 0
  BY <1>1, NewContextIs
<1>3. ASSUME NEW path \in Instance, NEW text
      PROVE  Way(path, text)'
  <2>1. path \in Seq(SomeKeys) /\ Len(path) \in Nat /\ Len(path) > 0
    BY InstanceIs
  <2>2. PICK none \in Seq(SomeKeys) : << >> = none
    BY <1>2
  <2>3. IsPrefix(none, path)
    <3>1. Len(none) = 0 /\ Len(none) <= Len(path)
      BY <1>2, <2>1, <2>2
    <3>2. \A n \in 1 .. Len(none) : none[n] = path[n]
      BY <3>1
    <3> QED
      BY <2>1, <3>1, <3>2, PrefixIs
  <2>4. IsPrefix(ctx'.path, path) /\ Len(ctx'.path) < Len(path)
    BY <1>2, <2>1, <2>2, <2>3
  <2> QED
    BY <1>1, <2>4 DEF Way
<1> QED
  BY <1>1, <1>3 DEF OnTheWay, Offers

LEMMA EInvKept ==
  ASSUME EInv, [Next]_vars
  PROVE  EInv'
<1>1. KInv' /\ Typed
  BY KInvKept DEF EInv, KInv
<1> SUFFICES OnTheWay' /\ Offers'
  BY <1>1 DEF EInv
<1>2. CASE UNCHANGED vars
  <2>1. /\ parserMode' = parserMode /\ line' = line /\ phase' = phase /\ completing' = completing
        /\ offered' = offered /\ rule' = rule /\ at' = at /\ saveIter' = saveIter
        /\ listEnd' = listEnd /\ ctx' = ctx
    BY <1>2 DEF vars, user, parser
  <2>2. ASSUME NEW path, NEW text
        PROVE  /\ Towards(path, text)' <=> Towards(path, text)
               /\ Way(path, text) => Way(path, text)'
               /\ Reached(text) => Reached(text)'
    <3>1. Towards(path, text)' <=> Towards(path, text)
      BY <2>1 DEF Towards
    <3>2. GoesOn(ctx, text) => GoesOn(ctx, text)'
      BY <2>1 DEF GoesOn, Completions, Leads
    <3>3. Missing(ctx)' = Missing(ctx)
      BY <2>1 DEF Missing, Level
    <3>4. Way(path, text) => Way(path, text)'
      BY <2>1, <3>2, <3>3 DEF Way
    <3>5. Reached(text) => Reached(text)'
      BY <2>1 DEF Reached, Leads
    <3> QED
      BY <3>1, <3>4, <3>5
  <2>3. MayEndInList' <=> MayEndInList
    BY <2>1 DEF MayEndInList
  <2> QED
    BY <2>1, <2>2, <2>3 DEF EInv, OnTheWay, Offers
<1>3. ASSUME NEW tab \in BOOLEAN, Press(tab)
      PROVE  OnTheWay' /\ Offers'
  BY <1>3, PressIsOnTheWay
<1>4. CASE \/ \E token \in Token : Type(token)
           \/ \E completed \in offered : Take(completed)
  <2>1. phase' = "typing"
    BY <1>4 DEF Type, Take
  <2> QED
    BY <2>1 DEF OnTheWay, Offers
<1>5. CASE Parses
  <2>1. /\ phase = "parsing" /\ line' = line /\ completing' = completing
        /\ parserMode' = parserMode
    BY <1>5 DEF Parses, Node, NodeFails, OpenKey, KeyName, NoKeyName, KeyValue, KeyAgain,
                NoKeyValue, CloseKey, NoCloseKey, SuffixSucceeds, SuffixFails, NodeEnds,
                NodeGoesOn, PathEnds, Throws, Step, user
  <2>2. Reads
    BY <2>1 DEF EInv, KInv, Parsing
  <2>3. MayEndInList' <=> MayEndInList
    BY <2>1 DEF MayEndInList
  <2>4. ASSUME completing, ~MayEndInList, NEW path \in Instance, NEW text \in Seq(Token),
               Towards(path, text)'
        PROVE  Stays(path, text)
    <3>1. Towards(path, text)
      BY <2>1, <2>4 DEF Towards
    <3>2. Way(path, text)
      BY <2>1, <2>4, <3>1 DEF EInv, OnTheWay
    <3> QED
      BY <1>1, <1>5, <2>2, <2>4, <3>1, <3>2, ParserStays
  <2> QED
    BY <2>1, <2>3, <2>4 DEF Stays, OnTheWay, Offers
<1> QED
  BY <1>2, <1>3, <1>4, <1>5 DEF Next

LEMMA SpecKeepsEInv == Spec => []EInv
<1>1. Init => EInv
  BY KInvInit DEF EInv, Init, OnTheWay, Offers
<1>2. EInv /\ [Next]_vars => EInv'
  BY EInvKept
<1> QED
  BY <1>1, <1>2, PTL DEF Spec

\* createKeySuggestions, createValueSuggestions and suggestKeysEnd: whatever
\* beginning of an instance's path was typed, in whatever order its keys, Tab
\* offers a way on to it (but for a list of `get` that lacks keys after a "]").
THEOREM ListKeysEveryInstanceIsOffered == Spec => []EveryInstanceIsOffered
<1>1. EInv => EveryInstanceIsOffered
  BY OffersSuffice DEF EInv, KInv
<1> QED
  BY <1>1, SpecKeepsEInv, PTL

=============================================================================
