----------------------------- MODULE LeafValues -----------------------------
(***************************************************************************)
(* Values of leaves: the parsers of leaf_data.hpp, the types YangSchema    *)
(* gives them, and the rendering of what they read (utils.cpp).            *)
(*                                                                         *)
(* A text is a sequence of pieces, the smallest parts that types tell      *)
(* apart: words, numbers, punctuation marks, and whole absolute paths.     *)
(* The longest enum value, identifier or run of base64 characters is that  *)
(* many pieces.  A parser gives the set of what it reads, at most one      *)
(* reading: how many pieces it used and the value.                         *)
(***************************************************************************)
EXTENDS Integers, Sequences, SequencesExt, FiniteSetsExt

CONSTANTS
  Word,       \* pieces of letters
  Number,     \* pieces of digits
  ValueOf,    \* the number each of them is
  SixDigits,  \* the digits std::to_string prints for the fraction it is
  NodePath,   \* absolute data paths that name a node
  NoPath,     \* pieces that begin like an absolute path and name no node
  Module,     \* the implemented modules
  Unprefixed, \* boost::none for an identity's module
  Type,       \* the names of types
  TypeInfo    \* yang::TypeInfo of each of them

Space == " "
Quotes == {"'", "\""}
Signs == {"+", "-"}
Piece == Word \cup Number \cup NodePath \cup NoPath \cup Quotes \cup Signs \cup {Space, ":", ".", "=", "/"}
Bases == {"unsigned", "signed", "decimal", "bool", "string", "binary", "enum", "identityref",
          "leafref", "bits", "empty", "instance-identifier", "union"}

Base(type) == TypeInfo[type].base

\* The members of a union, the target of a reference.
Parts(type) ==
  CASE Base(type) = "union" -> ToSet(TypeInfo[type].members)
    [] Base(type) = "leafref" -> {TypeInfo[type].target}
    [] OTHER -> {}

ASSUME PieceAssumption ==
  /\ (Word \cup Number) \cap (Quotes \cup Signs \cup {Space, ":", ".", "=", "/"}) = {}
  /\ "0" \in Number /\ \A number \in Number : ValueOf[number] \in Nat
  /\ Module \subseteq Word /\ Unprefixed \notin Module
ASSUME TypeAssumption ==
  /\ DOMAIN TypeInfo = Type
  /\ \A type \in Type :
       /\ Base(type) \in Bases
       /\ Base(type) \in {"unsigned", "signed"} => TypeInfo[type].max \in Nat
       /\ Base(type) \in {"enum", "bits"} => TypeInfo[type].names \subseteq Seq(Piece)
       /\ Base(type) = "union" => TypeInfo[type].members \in Seq(Type) \ {<< >>}
       /\ Base(type) = "leafref" => TypeInfo[type].target \in Type
\* No type is a part of itself, however indirectly.
ASSUME PartsAssumption ==
  \A types \in SUBSET Type : types # {} => \E type \in types : Parts(type) \cap types = {}

\* A leaf_data_: its alternative, the module of an identity, and its text.
Data(kind, prefix, text) == [kind |-> kind, prefix |-> prefix, text |-> text]
Reading(used, data) == [used |-> used, data |-> data]
Undefined == Data("undefined", Unprefixed, << >>)

\* How many pieces a text has from the first one on that are all among these.
Run(text, pieces) ==
  Max({n \in 0 .. Len(text) : \A i \in 1 .. n : text[i] \in pieces})

From(text, n) == SubSeq(text, n, Len(text))
Starts(text, pieces) == text # << >> /\ text[1] \in pieces

-----------------------------------------------------------------------------
(***************************************************************************)
(* Numbers: x3::uint8 to x3::int64 refuse what their type cannot hold.     *)
(***************************************************************************)

ReadUnsigned(max, text) ==
  IF Starts(text, Number) /\ ValueOf[text[1]] <= max
  THEN {Reading(1, Data("integer", Unprefixed, <<text[1]>>))} ELSE {}

\* The text after a sign, and the sign that is kept.
Unsigned(text) == IF Starts(text, Signs) THEN Tail(text) ELSE text
Sign(text) == IF Starts(text, {"-"}) THEN <<"-">> ELSE << >>

ReadSigned(max, text) ==
  {Reading(Len(text) - Len(Unsigned(text)) + 1,
           Data("integer", Unprefixed, Sign(text) \o digits.data.text)) :
     digits \in ReadUnsigned(max + Len(Sign(text)), Unsigned(text))}

\* The number a text begins with, if it does.
Digits(text) == IF Starts(text, Number) THEN <<text[1]>> ELSE << >>
OrZero(digits) == IF digits = << >> THEN "0" ELSE digits[1]

\* x3::double_ takes "5", "5.", "5.3" and ".3".
DecimalOf(sign, whole, point, fraction) ==
  IF whole \o fraction = << >> THEN {}
  ELSE {Reading(Len(sign \o whole \o point \o fraction),
          Data("decimal", Unprefixed,
               Sign(sign) \o <<OrZero(whole), ".", SixDigits[OrZero(fraction)]>>))}

AfterWhole(sign, whole, rest) ==
  IF Starts(rest, {"."}) THEN DecimalOf(sign, whole, <<".">>, Digits(Tail(rest)))
  ELSE DecimalOf(sign, whole, << >>, << >>)

ReadDecimal(text) ==
  LET sign == SubSeq(text, 1, Len(text) - Len(Unsigned(text)))
  IN  AfterWhole(sign, Digits(Unsigned(text)),
                 From(text, Len(sign) + Len(Digits(Unsigned(text))) + 1))

-----------------------------------------------------------------------------
(***************************************************************************)
(* Other values that need no context                                       *)
(***************************************************************************)

\* The longest of some names that the text begins with.
LongestOf(names, text) ==
  LET matching == {name \in names : IsPrefix(name, text)}
  IN  {name \in matching : \A other \in matching : Len(other) <= Len(name)}

ReadName(kind, names, text) ==
  {Reading(Len(name), Data(kind, Unprefixed, name)) : name \in LongestOf(names, text)}

ReadBool(text) == ReadName("bool", {<<"true">>, <<"false">>}, text)

\* A mistake to be caught: the first value that fits is taken.
ShortestEnum(type, text) ==
  LET fitting == {name \in TypeInfo[type].names : IsPrefix(name, text)}
  IN  {Reading(Len(name), Data("enum", Unprefixed, name)) :
         name \in {name \in fitting : \A other \in fitting : Len(name) <= Len(other)}}

ReadEnum(type, text) == ReadName("enum", TypeInfo[type].names, text)

\* What is between a quotation mark and the next one of its kind.
ReadString(text) ==
  {Reading(close, Data("string", Unprefixed, SubSeq(text, 2, close - 1))) :
     close \in {n \in 2 .. Len(text) : /\ text[1] \in Quotes /\ text[n] = text[1]
                                       /\ \A i \in 2 .. n - 1 : text[i] # text[1]}}

ReadBinary(text) ==
  LET characters == Run(text, Word \cup Number \cup {"+", "/"})
      padding == Min({2, Run(From(text, characters + 1), {"="})})
  IN  IF characters = 0 THEN {}
      ELSE {Reading(characters + padding,
                    Data("binary", Unprefixed, SubSeq(text, 1, characters + padding)))}

\* x3::attr takes nothing and always passes.
ReadEmpty == {Reading(0, Data("empty", Unprefixed, << >>))}

(***************************************************************************)
(* Bits: a bit, then after each space another one that was not read yet;   *)
(* it always passes, if with none.                                         *)
(***************************************************************************)
Spaced(names) ==
  FlattenSeq([i \in DOMAIN names |-> IF i = 1 THEN names[i] ELSE <<Space>> \o names[i]])

\* The bits read, and the number of pieces they took: after the spaces that follow
\* this bit (or none) goes on what is found among those left.
Bits(type, text) ==
  LET read[at \in 1 .. Len(text) + 1] ==
        [left \in SUBSET TypeInfo[type].names |->
           LET Then(bit, spaces) ==
                 IF spaces = 0 THEN [used |-> at - 1 + Len(FlattenSeq(bit)), bits |-> bit]
                 ELSE [read[at + Len(FlattenSeq(bit)) + spaces][left \ ToSet(bit)]
                         EXCEPT !.bits = bit \o @]
               After(bit) == Then(bit, Run(From(text, at + Len(FlattenSeq(bit))), {Space}))
           IN  After(SetToSeq(LongestOf(left, From(text, at))))]
  IN  read[1][TypeInfo[type].names]

ReadBits(type, text) ==
  {Reading(read.used, Data("bits", Unprefixed, Spaced(read.bits))) : read \in {Bits(type, text)}}

-----------------------------------------------------------------------------
(***************************************************************************)
(* Values that depend on where they are typed                              *)
(***************************************************************************)
InIdentifier == Word \cup Number \cup {"_", "-", "."}
IdentifierLength(text) ==
  IF Starts(text, Word \cup {"_"}) THEN Run(text, InIdentifier) ELSE 0

\* module: the name of a module, ":", and no space after it.
ModuleLength(text) ==
  IF /\ IdentifierLength(text) = 1 /\ text[1] \in Module
     /\ Len(text) > 1 /\ text[2] = ":"
     /\ Len(text) > 2 => text[3] # Space
  THEN 2 ELSE 0

(***************************************************************************)
(* -module >> node_identifier.  An identity without a module is looked up  *)
(* in the module of the first node of the parser's path; front is that, or *)
(* Unprefixed when the path is empty and has no front().                   *)
(***************************************************************************)
IdentityOf(type, prefix, meant, name, used) ==
  CASE name = << >> -> {}
    [] name # << >> /\ meant = Unprefixed -> {Reading(used, Undefined)}
    [] OTHER -> {Reading(used, Data("identityref", prefix, id[2])) :
                   id \in TypeInfo[type].identities \cap {<<meant, name>>}}

Identifier(text) == SubSeq(text, 1, IdentifierLength(text))

ReadIdentity(type, text, front) ==
  IF ModuleLength(text) = 0
  THEN IdentityOf(type, Unprefixed, front, Identifier(text), IdentifierLength(text))
  ELSE IdentityOf(type, text[1], text[1], Identifier(From(text, 3)), 2 + IdentifierLength(From(text, 3)))

\* An absolute data path.
ReadInstance(text) ==
  IF Starts(text, NodePath)
  THEN {Reading(1, Data("instance-identifier", Unprefixed, <<text[1]>>))} ELSE {}

Read(type, text, front) ==
  CASE Base(type) = "unsigned" -> ReadUnsigned(TypeInfo[type].max, text)
    [] Base(type) = "signed" -> ReadSigned(TypeInfo[type].max, text)
    [] Base(type) = "decimal" -> ReadDecimal(text)
    [] Base(type) = "bool" -> ReadBool(text)
    [] Base(type) = "string" -> ReadString(text)
    [] Base(type) = "binary" -> ReadBinary(text)
    [] Base(type) = "enum" -> ReadEnum(type, text)
    [] Base(type) = "identityref" -> ReadIdentity(type, text, front)
    [] Base(type) = "bits" -> ReadBits(type, text)
    [] Base(type) = "empty" -> ReadEmpty
    [] Base(type) = "instance-identifier" -> ReadInstance(text)

-----------------------------------------------------------------------------
(***************************************************************************)
(* Unions and references                                                   *)
(***************************************************************************)

\* The types that are tried, in the order of the union they are members of; a
\* reference to a leaf stands for that leaf's type.
Alternatives[type \in Type] ==
  CASE Base(type) = "union" ->
         FlattenSeq([i \in DOMAIN TypeInfo[type].members |-> Alternatives[TypeInfo[type].members[i]]])
    [] Base(type) = "leafref" -> Alternatives[TypeInfo[type].target]
    [] OTHER -> <<type>>

\* Where the parser's path stands, as far as values depend on it: the module of
\* its first node, and the one it has once it is reset to the working directory.
Context(front, cwdFront) == [front |-> front, cwdFront |-> cwdFront]

\* Trying an instance-identifier resets the path, if it fails too.
ResetBefore(type, i) ==
  \E j \in 1 .. i - 1 : Base(Alternatives[type][j]) = "instance-identifier"

ReadAs(type, i, text, ctx) ==
  Read(Alternatives[type][i], text, IF ResetBefore(type, i) THEN ctx.cwdFront ELSE ctx.front)

\* std::any_of stops at the first member that passes.
FirstPassing(readings) ==
  Min({i \in DOMAIN readings : readings[i] # {}} \cup {Len(readings)})

Readings(type, text, ctx) ==
  [i \in DOMAIN Alternatives[type] |-> ReadAs(type, i, text, ctx)]

\* How many members are tried.
Tried(type, text, ctx) == FirstPassing(Readings(type, text, ctx))

\* LeafData::parse
LastTried(readings) == readings[FirstPassing(readings)]
ReadLeafData(type, text, ctx) == LastTried(Readings(type, text, ctx))

\* LeafData::parse has reset the path of the parser, with all it knew of a list.
Resets(type, text, ctx) == ResetBefore(type, Tried(type, text, ctx) + 1)

(***************************************************************************)
(* m_suggestions after the value: those of the last member tried that has  *)
(* any.  The values of an enum and the identities are offered whole; of    *)
(* the bits those not read, until a space was.                             *)
(***************************************************************************)
SuggestedBy(type, text) ==
  CASE Base(type) = "enum" -> TypeInfo[type].names
    [] Base(type) = "identityref" -> {<<id[1], ":">> \o id[2] : id \in TypeInfo[type].identities}
    [] Base(type) = "bits" ->
         UNION {IF Space \in ToSet(SubSeq(text, 1, read.used)) THEN {}
                ELSE TypeInfo[type].names \ ToSet(read.bits) : read \in {Bits(type, text)}}

SuggestedAmong(type, text, tried) ==
  LET Suggests(i) == Base(Alternatives[type][i]) \in {"enum", "identityref", "bits"}
      last == {i \in 1 .. tried : Suggests(i) /\ \A j \in i + 1 .. tried : ~Suggests(j)}
  IN  {value \in UNION {SuggestedBy(Alternatives[type][i], text) : i \in last} : IsPrefix(text, value)}

SuggestedValues(type, text, ctx) == SuggestedAmong(type, text, Tried(type, text, ctx))

-----------------------------------------------------------------------------
\* leafDataToString, except that setLeaf gives an empty leaf no value at all.
LeafDataToString(data) ==
  IF data.prefix = Unprefixed THEN data.text ELSE <<data.prefix, ":">> \o data.text

-----------------------------------------------------------------------------
(***************************************************************************)
(* What a text is by the rules of YANG, to compare the parsers with.       *)
(***************************************************************************)
WithinOf(type, text) ==
  IF Base(type) = "signed" /\ text # << >> /\ text[1] = "-"
  THEN Len(text) = 2 /\ text[2] \in Number /\ ValueOf[text[2]] <= TypeInfo[type].max + 1
  ELSE Len(text) = 1 /\ text[1] \in Number /\ ValueOf[text[1]] <= TypeInfo[type].max

IsDecimal(text) ==
  \E sign \in {<< >>, <<"-">>}, whole \in Number :
    \/ text = Append(sign, whole)
    \/ \E fraction \in Number \cup {SixDigits[n] : n \in Number} :
         text = sign \o <<whole, ".", fraction>>

\* The value of a leaf whose type is neither a union nor a reference.
IsValue(type, text) ==
  CASE Base(type) \in {"unsigned", "signed"} -> WithinOf(type, text)
    [] Base(type) = "decimal" -> IsDecimal(text)
    [] Base(type) = "bool" -> text \in {<<"true">>, <<"false">>}
    [] Base(type) = "string" -> TRUE
    [] Base(type) = "binary" -> ReadBinary(text) # {} /\ \A r \in ReadBinary(text) : r.used = Len(text)
    [] Base(type) = "enum" -> text \in TypeInfo[type].names
    [] Base(type) = "identityref" ->
         \E id \in TypeInfo[type].identities : text = <<id[1], ":">> \o id[2]
    [] Base(type) = "bits" -> text \in {Spaced(bits) : bits \in SetToAllKPermutations(TypeInfo[type].names)}
    [] Base(type) = "empty" -> text = << >>
    [] Base(type) = "instance-identifier" -> Len(text) = 1 /\ text[1] \in NodePath

IsOfType(type, text) == \E member \in ToSet(Alternatives[type]) : IsValue(member, text)

\* The same, as the user has to write it: strings have quotes.
IsWritten(type, text) ==
  IF Base(type) # "string" THEN IsValue(type, text)
  ELSE /\ Len(text) > 1 /\ text[1] \in Quotes
       /\ {i \in DOMAIN text : text[i] = text[1]} = {1, Len(text)}

\* The members of a type that have the text as a value all come after one that has
\* the beginning of it.
IsShadowed(type, text) ==
  LET members == Alternatives[type]
  IN  \A j \in DOMAIN members : IsWritten(members[j], text) =>
        \E i \in 1 .. j - 1, n \in 0 .. Len(text) - 1 : IsWritten(members[i], SubSeq(text, 1, n))

=============================================================================
