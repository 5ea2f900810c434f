----------------------------- MODULE YangAccess -----------------------------
(***************************************************************************)
(* The in-memory datastore, yang_access.cpp: the datastore of yang-cli and *)
(* the temporary datastore that collects an RPC's input.                   *)
(*                                                                         *)
(* m_datastore points to one of the top-level nodes of a libyang tree; the *)
(* others are found as its siblings, and what it does not reach is freed.  *)
(* The tree here has two levels: top-level nodes, among them the entries   *)
(* of a list ordered by the user, and in each entry the items of a nested  *)
(* list ordered by the user.  External, modelled from how they are used:   *)
(* newPath, unlink, insertBefore and insertAfter, findXPath, validateAll.  *)
(***************************************************************************)
EXTENDS Naturals, Sequences, SequencesExt, FiniteSets

CONSTANTS
  Plain,     \* top-level nodes that are not entries of a list
  Entry,     \* the entries of the top-level list
  Item,      \* the keys of the nested list
  Library,   \* top-level nodes of ietf-yang-library, which validation may add
  None,      \* std::nullopt
  MaxItems   \* a bound on the number of items, in all the nested lists together

ASSUME NodesAssumption ==
  /\ Plain \cap Entry = {} /\ Plain \cap Library = {} /\ Entry \cap Library = {}
  /\ None \notin Plain \cup Entry \cup Library
  /\ MaxItems \in Nat \ {0}

Top == Plain \cup Entry \cup Library
Ends == {"begin", "end"}
Sides == {"before", "after"}

VARIABLES
  root,    \* m_datastore
  tops,    \* the siblings that m_datastore reaches, in their order
  items,   \* the nested list of each entry
  given,   \* history: the nodes that were entered and not taken away since
  status   \* "undefined" after an empty optional was dereferenced

vars == <<root, tops, items, given, status>>

\* The path of a node: its top-level node, then perhaps an item's key.
Here == ToSet(tops)
Present == {<<top>> : top \in Here} \cup
           UNION {{<<entry, item>> : item \in ToSet(items[entry])} : entry \in Here \cap Entry}

Init ==
  /\ root = None
  /\ tops = << >>
  /\ items = [entry \in Entry |-> << >>]
  /\ given = {}
  /\ status = "ok"

-----------------------------------------------------------------------------
(***************************************************************************)
(* impl_newPath, for setLeaf and createItem                                *)
(***************************************************************************)

\* Where libyang puts a new top-level node: an entry after the other entries,
\* otherwise as the schema has it.
WithTop(top) ==
  IF top \in Here THEN {tops}
  ELSE {InsertAt(tops, k, top) : k \in {k \in 1 .. Len(tops) + 1 :
          top \in Entry => \A n \in k .. Len(tops) : tops[n] \notin Entry}}

NewTop(top) ==
  /\ tops' \in WithTop(top)
  /\ root' = IF root = None THEN top ELSE root
  /\ given' = given \cup {<<top>>}
  /\ UNCHANGED <<items, status>>

NumberOfItems == Cardinality(UNION {{entry} \X DOMAIN items[entry] : entry \in Entry})

\* A path to an item creates the entry above it too.
NewItem(entry, item) ==
  /\ item \in ToSet(items[entry]) \/ NumberOfItems < MaxItems
  /\ tops' \in WithTop(entry)
  /\ root' = IF root = None THEN entry ELSE root
  /\ items' = IF item \in ToSet(items[entry]) THEN items
              ELSE [items EXCEPT ![entry] = Append(@, item)]
  /\ given' = given \cup {<<entry>>, <<entry, item>>}
  /\ UNCHANGED status

-----------------------------------------------------------------------------
(***************************************************************************)
(* impl_removeNode and impl_unlink                                         *)
(***************************************************************************)
IndexOf(seq, x) == Min({k \in DOMAIN seq : seq[k] = x})

\* A mistake to be caught: the search does not notice that it is back where it began.
SiblingOrItself(top) ==
  LET others == {k \in DOMAIN tops : tops[k] # top /\ tops[k] \notin Library}
  IN  IF others = {} THEN top ELSE tops[CHOOSE k \in others : TRUE]

(***************************************************************************)
(* The sibling m_datastore is left with when its own node is unlinked: the *)
(* nearest one going back, from the first to the last, that is not of      *)
(* ietf-yang-library.                                                      *)
(***************************************************************************)
SiblingBefore(top) ==
  LET at == IndexOf(tops, top)
      Steps(k) == IF k < at THEN at - k ELSE at + Len(tops) - k
      others == {k \in DOMAIN tops : k # at /\ tops[k] \notin Library}
  IN  IF others = {} THEN None
      ELSE tops[CHOOSE k \in others : \A n \in others : Steps(k) <= Steps(n)]

\* A mistake to be caught: m_datastore keeps pointing to the unlinked node.
UnlinkOnly(top) ==
  /\ root' = root
  /\ tops' = IF root = top THEN <<top>> ELSE RemoveFirst(tops, top)
  /\ items' = [items EXCEPT ![top] = << >>]

Unlink(top) ==
  LET left == IF root = top THEN SiblingBefore(top) ELSE root IN
  /\ root' = left
  /\ tops' = IF left = None THEN << >> ELSE RemoveFirst(tops, top)
  /\ items' = [entry \in Entry |-> IF entry = top \/ left = None THEN << >> ELSE items[entry]]

RemoveTop(top) ==
  /\ top \in Here
  /\ Unlink(top)
  /\ given' = {path \in given : path[1] # top}
  /\ UNCHANGED status

\* The entry stays when its last item goes.
RemoveItem(entry, item) ==
  /\ <<entry, item>> \in Present
  /\ items' = [items EXCEPT ![entry] = RemoveFirst(@, item)]
  /\ given' = given \ {<<entry, item>>}
  /\ UNCHANGED <<root, tops, status>>

\* "Datastore is empty", "Data node doesn't exist"
RemoveThrows(path) == path \notin Present /\ UNCHANGED vars

-----------------------------------------------------------------------------
(***************************************************************************)
(* moveItem                                                                *)
(***************************************************************************)
AtEnd(seq, x, end) == IF end = "begin" THEN <<x>> \o seq ELSE Append(seq, x)

\* A mistake to be caught: source and destination are swapped.
NextToSwapped(seq, x, y, side) ==
  LET rest == RemoveFirst(seq, y)
      at == IndexOf(rest, x)
  IN  InsertAt(rest, IF side = "before" THEN at ELSE at + 1, y)

NextTo(seq, x, y, side) ==
  LET rest == RemoveFirst(seq, x)
      at == IndexOf(rest, y)
  IN  InsertAt(rest, IF side = "before" THEN at ELSE at + 1, x)

EntriesAt == {k \in DOMAIN tops : tops[k] \in Entry}

EndOf(at, end) == tops[IF end = "begin" THEN Min(at) ELSE Max(at)]

\* Absolute: next to the first or the last of all the instances of the list,
\* which is found in the tree by the path of the schema.
MoveEntryToEnd(entry, end) ==
  /\ entry \in Here
  /\ IF EndOf(EntriesAt, end) = entry THEN UNCHANGED <<root, tops>>
     ELSE /\ tops' = NextTo(tops, entry, EndOf(EntriesAt, end),
                            IF end = "begin" THEN "before" ELSE "after")
          /\ root' = tops'[1]
  /\ UNCHANGED <<items, given, status>>

\* The entries that have items.
OwnersAt == {k \in EntriesAt : items[tops[k]] # << >>}

\* The instances of the nested list are those of every entry.
MoveItemToEnd(entry, item, end) ==
  LET owner == EndOf(OwnersAt, end)
      at == IndexOf(items[entry], item)
      rest == [items EXCEPT ![entry] = RemoveAt(@, at)]
  IN
  /\ <<entry, item>> \in Present
  /\ IF owner = entry /\ at = (IF end = "begin" THEN 1 ELSE Len(items[entry]))
     THEN UNCHANGED <<root, items, given>>
     ELSE /\ items' = [rest EXCEPT ![owner] = AtEnd(@, item, end)]
          /\ root' = tops[1]
          /\ given' = (given \ {<<entry, item>>}) \cup {<<owner, item>>}
  /\ UNCHANGED <<tops, status>>

\* Relative: an instance among the siblings.
MoveEntryNextTo(entry, other, side) ==
  /\ entry \in Here /\ other \in Here \ {entry}
  /\ tops' = NextTo(tops, entry, other, side)
  /\ UNCHANGED <<root, items, given, status>>

MoveItemNextTo(entry, item, other, side) ==
  /\ <<entry, item>> \in Present /\ <<entry, other>> \in Present /\ other # item
  /\ items' = [items EXCEPT ![entry] = NextTo(@, item, other, side)]
  /\ UNCHANGED <<root, tops, given, status>>

Moves(entry) ==
  \/ \E end \in Ends : MoveEntryToEnd(entry, end)
  \/ \E other \in Entry, side \in Sides : MoveEntryNextTo(entry, other, side)

\* "Datastore is empty", "Data node doesn't exist", and libyang's refusal to
\* put a node next to itself.
MoveThrows(path, other) == (path \notin Present \/ path = other) /\ UNCHANGED vars

\* The other instance is not there: an empty optional is dereferenced.
MoveNextToNothing(path, other) ==
  /\ path \in Present /\ other \notin Present
  /\ status' = "undefined"
  /\ UNCHANGED <<root, tops, items, given>>

-----------------------------------------------------------------------------
(***************************************************************************)
(* Whole-datastore operations                                              *)
(***************************************************************************)

\* commitChanges: validation may add library nodes, and leaves m_datastore at
\* one of the top-level nodes, whether it succeeds or throws.
CommitChanges ==
  /\ IF root = None THEN UNCHANGED <<root, tops>>
     ELSE /\ tops' \in {tops} \cup UNION {WithTop(top) : top \in Library}
          /\ root' \in ToSet(tops')
  /\ UNCHANGED <<items, given, status>>

DiscardChanges == UNCHANGED vars

\* Only copying startup to running does anything: it empties the datastore.
CopyConfig(source, destination) ==
  /\ IF source = "startup" /\ destination = "running"
     THEN /\ root' = None
          /\ tops' = << >>
          /\ items' = [entry \in Entry |-> << >>]
          /\ given' = {}
     ELSE UNCHANGED <<root, tops, items, given>>
  /\ UNCHANGED status

-----------------------------------------------------------------------------
Paths == {<<top>> : top \in Top} \cup (Entry \X Item)

OnEntries ==
  \E entry \in Entry :
    \/ Moves(entry)
    \/ \E other \in Entry : MoveNextToNothing(<<entry>>, <<other>>)

OnItems ==
  \E entry \in Entry, item \in Item :
    \/ NewItem(entry, item)
    \/ RemoveItem(entry, item)
    \/ \E end \in Ends : MoveItemToEnd(entry, item, end)
    \/ \E other \in Item :
         \/ \E side \in Sides : MoveItemNextTo(entry, item, other, side)
         \/ MoveNextToNothing(<<entry, item>>, <<entry, other>>)

Next ==
  /\ status = "ok"
  /\ \/ \E top \in Plain \cup Entry : NewTop(top)
     \/ \E top \in Top : RemoveTop(top)
     \/ \E path \in Paths : RemoveThrows(path) \/ MoveThrows(path, path)
     \/ OnEntries
     \/ OnItems
     \/ CommitChanges
     \/ DiscardChanges
     \/ \E source, destination \in {"startup", "running"} : CopyConfig(source, destination)

Spec == Init /\ [][Next]_vars

-----------------------------------------------------------------------------
(***************************************************************************)
(* Properties                                                              *)
(***************************************************************************)

\* impl_unlink, impl_newPath and the three ways m_datastore is set: it points to a
\* node of the tree, and is empty only when the tree is; a top-level node that is
\* entered again is not there twice, and what is below an entry goes with it.
RootReachesTheTree ==
  /\ IsInjective(tops)
  /\ IF tops = << >> THEN root = None ELSE root \in Here
  /\ \A entry \in Entry \ Here : items[entry] = << >>

\* Whatever is deleted, moved and validated, what was entered is still reached
\* from m_datastore: it is printed, sent with an RPC, and found by a path.  (That
\* nothing else is there is not said: of two items with one key, only one is removed.)
NothingIsLost == given \subseteq Present

Precedes(seq, x, y) == \E j, k \in DOMAIN seq : j < k /\ seq[j] = x /\ seq[k] = y

\* moveItem: what is moved leaves the order of the other entries alone, no other
\* operation changes the order of any, and an entry moved to an end is the first or
\* the last of its list, wherever nodes of other kinds stand among the siblings.
OrderIsKept ==
  [][/\ \A x, y \in Entry :
          Precedes(tops, x, y) /\ {x, y} \subseteq ToSet(tops') =>
            Moves(x) \/ Moves(y) \/ Precedes(tops', x, y)
     /\ \A entry \in Entry, end \in Ends, other \in Entry :
          MoveEntryToEnd(entry, end) /\ other \in ToSet(tops') \ {entry} =>
            IF end = "begin" THEN Precedes(tops', entry, other)
            ELSE Precedes(tops', other, entry)]_vars

=============================================================================
