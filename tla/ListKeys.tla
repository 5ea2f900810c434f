------------------------------ MODULE ListKeys ------------------------------
(***************************************************************************)
(* Typing a path to the instance of a list: the parser of path_parser.hpp  *)
(* with the handlers of ast_handlers.hpp, the context they share, and the  *)
(* completions computed from what that context holds when a parse ends.    *)
(*                                                                         *)
(* The schema is a chain of lists, each the child of the one before it.  A *)
(* line is a sequence of tokens: the name of a list, "[", a key with its   *)
(* "=", a value, "]", "/", or something else.  A line is parsed from its   *)
(* beginning whenever Tab or Enter is pressed.                             *)
(***************************************************************************)
EXTENDS Naturals, Sequences, SequencesExt, FiniteSets

CONSTANTS
  Key,       \* the names of keys
  Value,     \* the values of keys
  KeysOf,    \* the keys of each list, the outermost one first
  Instance,  \* the instances in the datastore, each a sequence of key assignments
  MaxLine    \* how many tokens the user types

Depth == Len(KeysOf)

Name == "name"
Open == "["
Close == "]"
Slash == "/"
Junk == "junk"
End == "end"   \* end of the line
Token == {Name, Open, Close, Slash, Junk} \cup Key \cup Value

\* The keys of one instance, as they are typed: a function from some keys.
SomeKeys == UNION {[keys -> Value] : keys \in SUBSET Key}
NoKeys == << >>

ASSUME ListsAssumption ==
  /\ Key \cap Value = {}
  /\ {Name, Open, Close, Slash, Junk, End} \cap (Key \cup Value) = {}
  /\ IsFiniteSet(Key)
  /\ KeysOf \in Seq((SUBSET Key) \ {{}})
  /\ MaxLine \in Nat
ASSUME InstanceAssumption ==
  \A path \in Instance : /\ path \in Seq(SomeKeys) /\ path # << >> /\ Len(path) <= Depth
                         /\ \A n \in DOMAIN path : path[n] \in [KeysOf[n] -> Value]
                         /\ Len(path) > 1 => Front(path) \in Instance

VARIABLES
  parserMode,  \* PathParserMode of the command being typed
  enums,       \* the keys whose type has its own suggestions (an enum)
  line,        \* what the user typed
  guided,      \* history: every token of the line was suggested
  phase,       \* "typing", "parsing", "parsed"
  completing,  \* m_completing: the parse was started by Tab
  offered,     \* the lines completeCommand offers
  rule,        \* the rule that parses next, or how the parse ended
  at,          \* the iterator: how many tokens are consumed
  seen,        \* history: the furthest token the parser looked at
  saveIter,    \* NodeParser's saveIter
  listEnd,     \* the node is parsed by incompleteDataNode
  keys,        \* the attribute of the listSuffix being parsed
  ctx          \* ParserContext

user == <<parserMode, enums, line, guided>>
parser == <<rule, at, seen, saveIter, listEnd, keys, ctx>>
vars == <<user, phase, completing, offered, parser>>

\* A Completion: its value, and what is added once the value is all there.
Always(value) == [value |-> value, more |-> << >>]

\* m_completionIterator # none: where the suggestions begin.
Suggest(c, from, suggestions) == [c EXCEPT !.from = from, !.suggestions = suggestions]

\* A new ParserContext after initializePath and absoluteStart.
NewContext ==
  [path |-> << >>, tmpListKeys |-> NoKeys, key |-> End, error |-> "none",
   from |-> 0, suggestions |-> {}]

NewParser ==
  /\ rule' = "node"
  /\ at' = 0 /\ seen' = 0 /\ saveIter' = 0
  /\ listEnd' = FALSE
  /\ keys' = NoKeys
  /\ ctx' = NewContext

Init ==
  /\ parserMode \in {"DataPath", "DataPathListEnd"}
  /\ enums \in SUBSET Key
  /\ line = << >> /\ guided = TRUE
  /\ phase = "typing" /\ completing = FALSE /\ offered = {}
  /\ rule = "node"
  /\ at = 0 /\ seen = 0 /\ saveIter = 0
  /\ listEnd = FALSE
  /\ keys = NoKeys
  /\ ctx = NewContext

-----------------------------------------------------------------------------
(***************************************************************************)
(* The user                                                                *)
(***************************************************************************)

\* Tab and Enter parse the line anew: completeCommand, parseCommand.
Press(tab) ==
  /\ phase = "typing" \/ (phase = "parsed" /\ completing)
  /\ phase' = "parsing"
  /\ completing' = tab
  /\ offered' = {}
  /\ NewParser
  /\ UNCHANGED user

\* Another token, as long as what is typed could be the beginning of a path.
Type(token) ==
  /\ phase = "parsed" /\ completing
  /\ seen > Len(line) /\ Len(line) < MaxLine
  /\ line' = Append(line, token)
  /\ guided' = FALSE
  /\ phase' = "typing"
  /\ UNCHANGED <<parserMode, enums, completing, offered, parser>>

\* One of the completions replaces what was typed of it.
Take(completed) ==
  /\ phase = "parsed" /\ completing
  /\ completed \in offered /\ Len(completed) <= MaxLine
  /\ line' = completed
  /\ phase' = "typing"
  /\ UNCHANGED <<parserMode, enums, guided, completing, offered, parser>>

-----------------------------------------------------------------------------
(***************************************************************************)
(* The parser                                                              *)
(***************************************************************************)
\* The list being parsed, by the path the parser has come to.
Level == Len(ctx.path) + 1

PushPathFragment(c, assigned) == [c EXCEPT !.path = Append(@, assigned)]

\* The token the parser looks at.
Look == IF at < Len(line) THEN line[at + 1] ELSE End

Step(next) ==
  /\ phase = "parsing"
  /\ rule' = next
  /\ seen' = IF at + 1 > seen THEN at + 1 ELSE seen
  /\ UNCHANGED <<user, completing>>

Goes == phase' = "parsing" /\ UNCHANGED offered

FilterByPrefix(suggestions, prefix) == {s \in suggestions : IsPrefix(prefix, s.value)}

(***************************************************************************)
(* completeCommand, for the context c at the end of the parse: the         *)
(* suggestions that begin with what was typed since they were made.  A     *)
(* single one gets its suffix.                                             *)
(***************************************************************************)
Completions(c) ==
  LET typed == SubSeq(line, c.from + 1, Len(line))
      fits == FilterByPrefix(c.suggestions, typed)
      Text(s) == IF Cardinality(fits) = 1 /\ s.value = typed THEN s.value \o s.more ELSE s.value
  IN  {SubSeq(line, 1, c.from) \o Text(s) : s \in fits}

\* The end of the parse, "accepted" or "refused".
Ends(c) ==
  /\ ctx' = c
  /\ phase' = "parsed"
  /\ offered' = IF completing THEN Completions(c) ELSE {}

\* An expectation failure: no alternative is tried.  The first handler it
\* passes may replace the message.
Throws(message) ==
  /\ Step("refused")
  /\ Ends([ctx EXCEPT !.error = message])
  /\ UNCHANGED <<at, saveIter, listEnd, keys>>

\* generateMissingKeyCompletionSet
Missing(c) == KeysOf[Level] \ DOMAIN c.tmpListKeys

(***************************************************************************)
(* A node that does not parse.  What was parsed before it stays, with the  *)
(* slash after it; with a list allowed at the end the node is tried again, *)
(* in the context the first try left.                                      *)
(***************************************************************************)
NodeFails(c) ==
  LET token == IF saveIter < Len(line) THEN line[saveIter + 1] ELSE End
      again == token # End /\ parserMode = "DataPathListEnd" /\ ~listEnd
  IN  /\ at' = saveIter
      /\ UNCHANGED saveIter
      /\ keys' = NoKeys
      /\ IF again
         THEN Step("node") /\ listEnd' = TRUE /\ ctx' = c /\ Goes
         ELSE /\ Step(IF token = End THEN "accepted" ELSE "refused")
              /\ UNCHANGED listEnd /\ Ends(c)

\* NodeParser: the name of the child list, if there is one.
Node ==
  LET here == [value |-> <<Name>>, more |-> <<Open>>]
      c == Suggest(ctx, at, IF Level <= Depth THEN {here} ELSE {})
  IN  /\ rule = "node"
      /\ IF Look = Name /\ Level <= Depth
         THEN /\ Step("suffix")
              /\ saveIter' = at /\ at' = at + 1
              /\ keys' = NoKeys
              /\ ctx' = c
              /\ Goes /\ UNCHANGED listEnd
         ELSE NodeFails(c)

\* '[' > createKeySuggestions
OpenKey ==
  /\ rule = "suffix" /\ Look = Open
  /\ Step("key")
  /\ at' = at + 1
  /\ ctx' = Suggest(ctx, at', {Always(<<key>>) : key \in Missing(ctx)})
  /\ Goes /\ UNCHANGED <<saveIter, listEnd, keys>>

\* The keys of the instances of the list, those under the parent's instance.
ListInstances ==
  {i[Level] : i \in {j \in Instance : Len(j) = Level /\ SubSeq(j, 1, Level - 1) = ctx.path}}

\* A mistake to be caught: the keys typed so far are not looked at.
AnythingFits(complete) == TRUE

\* The keys typed so far are those of the instance.
PartialFitsComplete(complete) ==
  \A key \in DOMAIN ctx.tmpListKeys : complete[key] = ctx.tmpListKeys[key]

ValuesOf(key) == {complete[key] : complete \in {i \in ListInstances : PartialFitsComplete(i)}}

CreateValueSuggestions(c, key) ==
  IF completing THEN Suggest(c, at + 1, {Always(<<value>>) : value \in ValuesOf(key)}) ELSE c

\* The values an enum allows replace those found in the datastore.
CreateSetSuggestions(c, key) ==
  IF key \in enums THEN Suggest(c, at + 1, {Always(<<value>>) : value \in Value}) ELSE c

\* key_identifier > '=' > createValueSuggestions, and what leaf_data does
\* before it looks at the value.
KeyName ==
  LET key == Look
      c == CreateSetSuggestions(CreateValueSuggestions(ctx, key), key)
  IN  /\ rule = "key" /\ key \in KeysOf[Level]
      /\ Step("value")
      /\ at' = at + 1
      /\ ctx' = [c EXCEPT !.key = key]
      /\ Goes /\ UNCHANGED <<saveIter, listEnd, keys>>

NoKeyName ==
  /\ rule = "key" /\ Look \notin KeysOf[Level]
  /\ Throws(IF Look \in Key THEN "not a key"
            ELSE IF ctx.error = "none" THEN "expected" ELSE ctx.error)

\* A mistake to be caught: the end is suggested after the first key.
SuggestCloseOnly(c) == Suggest(c, at + 1, {Always(<<Close, Slash>>)})

\* suggestKeysEnd
SuggestKeysEnd(c) ==
  Suggest(c, at + 1, {Always(<<Close, IF Missing(c) = {} THEN Slash ELSE Open>>)})

Given(assigned, key, value) ==
  [k \in DOMAIN assigned \cup {key} |-> IF k = key THEN value ELSE assigned[k]]

\* A mistake to be caught: a key may be entered again.
NeverAgain == FALSE

\* A mistake to be caught: only one key can be entered.
AfterAnyKey == ctx.tmpListKeys # NoKeys

\* keyValue's handler: the key was entered before.
Again == ctx.key \in DOMAIN ctx.tmpListKeys

\* leaf_data, and keyValue's handler.
KeyValue ==
  /\ rule = "value" /\ Look \in Value /\ ~Again
  /\ Step("close")
  /\ at' = at + 1
  /\ keys' = Given(keys, ctx.key, Look)
  /\ ctx' = SuggestKeysEnd([ctx EXCEPT !.tmpListKeys = Given(@, ctx.key, Look)])
  /\ Goes /\ UNCHANGED <<saveIter, listEnd>>

KeyAgain ==
  /\ rule = "value" /\ Look \in Value /\ Again
  /\ Throws("more than once")

NoKeyValue ==
  /\ rule = "value" /\ Look \notin Value
  /\ Throws("bad value")

CloseKey ==
  /\ rule = "close" /\ Look = Close
  /\ Step("suffix")
  /\ at' = at + 1
  /\ Goes /\ UNCHANGED <<saveIter, listEnd, keys, ctx>>

NoCloseKey ==
  /\ rule = "close" /\ Look # Close
  /\ Throws(IF ctx.error = "none" THEN "expected" ELSE ctx.error)

\* After a node there can be only a slash or the end of the path.
NodeEnds(c, end, assigned) ==
  LET token == IF end < Len(line) THEN line[end + 1] ELSE End
  IN  IF token \in {Slash, End}
      THEN /\ Step("after")
           /\ at' = end
           /\ ctx' = PushPathFragment(c, assigned)
           /\ Goes /\ UNCHANGED <<saveIter, listEnd, keys>>
      ELSE NodeFails(c)

\* A mistake to be caught: the keys of the list are kept for the next one.
SuffixSucceedsKeeps ==
  /\ rule = "suffix" /\ Look # Open /\ DOMAIN keys = KeysOf[Level]
  /\ NodeEnds(ctx, at, keys)

\* listSuffix's handler: all keys are there.
SuffixSucceeds ==
  /\ rule = "suffix" /\ Look # Open /\ DOMAIN keys = KeysOf[Level]
  /\ NodeEnds([ctx EXCEPT !.tmpListKeys = NoKeys], at, keys)

\* Some are not: a node that need not be complete is the list itself.
SuffixFails ==
  LET c == [ctx EXCEPT !.error = "not enough"]
  IN  /\ rule = "suffix" /\ Look # Open /\ DOMAIN keys # KeysOf[Level]
      /\ IF listEnd THEN NodeEnds(c, saveIter + 1, NoKeys) ELSE NodeFails(c)

\* dataNode % '/', or the trailing slash after the list at the end.
NodeGoesOn ==
  /\ rule = "after" /\ Look = Slash /\ ~listEnd
  /\ Step("node")
  /\ at' = at + 1 /\ saveIter' = at + 1
  /\ Goes /\ UNCHANGED <<listEnd, keys, ctx>>

PathEnds ==
  LET rest == SubSeq(line, at + 1, Len(line))
  IN  /\ rule = "after" /\ (listEnd \/ Look = End)
      /\ Step(IF rest \in {<< >>, <<Slash>>} THEN "accepted" ELSE "refused")
      /\ Ends(ctx)
      /\ at' = Len(line)
      /\ UNCHANGED <<saveIter, listEnd, keys>>

Parses == \/ Node \/ OpenKey \/ KeyName \/ NoKeyName
          \/ KeyValue \/ KeyAgain \/ NoKeyValue \/ CloseKey \/ NoCloseKey
          \/ SuffixSucceeds \/ SuffixFails \/ NodeGoesOn \/ PathEnds

Next ==
  \/ \E tab \in BOOLEAN : Press(tab)
  \/ \E token \in Token : Type(token)
  \/ \E completed \in offered : Take(completed)
  \/ Parses

Spec == Init /\ [][Next]_vars

-----------------------------------------------------------------------------
(***************************************************************************)
(* How paths are written: a slash between two nodes, the keys of a list in *)
(* any order.  Where a list is allowed at the end it has no keys.          *)
(***************************************************************************)
NodeTexts(assigned) ==
  {<<Name>> \o FlattenSeq([n \in DOMAIN order |-> <<Open, order[n], assigned[order[n]], Close>>]) :
     order \in SetToSeqs(DOMAIN assigned)}

WrittenPaths ==
  UNION {{path \in [1 .. depth -> SomeKeys] :
            \A n \in 1 .. depth : \/ DOMAIN path[n] = KeysOf[n]
                                  \/ n = depth /\ path[n] = NoKeys} : depth \in 0 .. Depth}

Texts ==
  [path \in WrittenPaths |->
     {FlattenSeq([n \in DOMAIN path |-> IF n = 1 THEN text[n] ELSE <<Slash>> \o text[n]]) :
        text \in {t \in [DOMAIN path -> UNION {NodeTexts(path[n]) : n \in DOMAIN path}] :
                    \A n \in DOMAIN path : t[n] \in NodeTexts(path[n])}}]

EndsInList(path) == path # << >> /\ path[Len(path)] = NoKeys

\* Where the nodes of a path begin: each has a name, and four tokens for each key.
Begins(path) ==
  LET begin[n \in 1 .. Len(path) + 1] ==
        IF n = 1 THEN 0 ELSE begin[n - 1] + 4 * Cardinality(DOMAIN path[n - 1]) + 2
  IN  begin

\* The node is written on the text from the token after "begin".
IsNodeAt(text, begin, assigned) ==
  LET size == Cardinality(DOMAIN assigned)
      TheKey(i) == text[begin + 4 * i - 1]
  IN  /\ begin + 4 * size < Len(text)
      /\ text[begin + 1] = Name
      /\ \A i \in 1 .. size :
           /\ text[begin + 4 * i - 2] = Open
           /\ TheKey(i) \in DOMAIN assigned /\ text[begin + 4 * i] = assigned[TheKey(i)]
           /\ text[begin + 4 * i + 1] = Close
      /\ \A key \in DOMAIN assigned : \E i \in 1 .. size : TheKey(i) = key

\* The text is the path's, with or without a trailing slash.
IsTextOf(text, path) ==
  LET begin == Begins(path)
  IN  /\ \A n \in DOMAIN path : IsNodeAt(text, begin[n], path[n])
      /\ \A n \in DOMAIN path : begin[n + 1] <= Len(text) => text[begin[n + 1]] = Slash
      /\ Len(text) \in {begin[Len(path) + 1] - 1, begin[Len(path) + 1]}

Writes(path) == IsTextOf(line, path)

(***************************************************************************)
(* Properties                                                              *)
(***************************************************************************)

\* The keys remembered while a list is parsed are keys of this list, and the
\* suggestions begin within the line.
TypeOK ==
  /\ at \in 0 .. Len(line) /\ saveIter \in 0 .. at
  /\ seen \in 0 .. Len(line) + 1
  /\ ctx.from \in 0 .. Len(line)
  /\ DOMAIN ctx.tmpListKeys \subseteq (IF Level <= Depth THEN KeysOf[Level] ELSE {})
  /\ \A n \in DOMAIN ctx.path : ctx.path[n] \in SomeKeys

\* listSuffix and its handlers: a path is accepted exactly when each of its
\* lists has all of its keys, each of them once and in any order (the last
\* list of a `get` may have none), and what is read is what was written.
ReadsWhatIsWritten ==
  phase = "parsed" =>
    IF rule = "accepted"
    THEN /\ ctx.path \in WrittenPaths /\ Writes(ctx.path)
         /\ (EndsInList(ctx.path) => parserMode = "DataPathListEnd")
    ELSE \A path \in WrittenPaths : Writes(path) => EndsInList(path) /\ parserMode = "DataPath"

\* createValueSuggestions: who only takes what is offered never names an
\* instance that is not there (an enum's own suggestions hide the instances).
SuggestedInstancesExist ==
  phase = "parsed" /\ guided /\ enums = {} =>
    (IF EndsInList(ctx.path) THEN Front(ctx.path) ELSE ctx.path) \in Instance \cup {<< >>}

\* createKeySuggestions, createValueSuggestions and suggestKeysEnd: from any
\* beginning of an instance's path, however it was typed, Tab offers a way on
\* to this instance (but for a list of `get` that lacks keys after a "]").
EveryInstanceIsOffered ==
  phase = "parsed" /\ completing
  /\ ~(parserMode = "DataPathListEnd" /\ line # << >> /\ line[Len(line)] = Close) =>
    \A path \in Instance : \A text \in Texts[path] :
      IsStrictPrefix(line, text) =>
        \E longer \in offered : IsStrictPrefix(line, longer) /\ IsPrefix(longer, text \o <<Slash>>)

\* The tokens of one node: from its name to the next one.
SameNode(i, j) == i <= j /\ \A n \in i + 1 .. j : line[n] # Name

\* The keys entered for the node whose name is token i, of those the parser saw.
KeysEntered(i) ==
  {j \in DOMAIN line \ {1} : j <= seen /\ SameNode(i, j) /\ line[j - 1] = Open}

\* The messages of keyValue's and listSuffix's handlers are true of the line:
\* a key was entered more than once, or a list lacks keys.
MessageIsTrue ==
  phase = "parsed" /\ rule = "refused" /\ ctx.error \in {"more than once", "not enough"} =>
    \E i \in DOMAIN line :
      /\ line[i] = Name
      /\ IF ctx.error = "more than once"
         THEN \E j, k \in KeysEntered(i) : j # k /\ line[j] = line[k]
         ELSE KeysOf[Cardinality({n \in 1 .. i : line[n] = Name})]
                \ {line[j] : j \in KeysEntered(i)} # {}

\* The same where no list is allowed at the end: a node is tried only once there.
MessageIsTrueOfDataPaths == parserMode = "DataPath" => MessageIsTrue

=============================================================================
