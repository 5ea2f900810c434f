----------------------------- MODULE MCListKeys -----------------------------
(***************************************************************************)
(* A list with two keys, and in each of its instances a list with one of   *)
(* the same name.                                                          *)
(***************************************************************************)
EXTENDS ListKeys

CONSTANTS k1, k2, a, b

Keys == <<{k1, k2}, {k1}>>

Outer(first, second) == (k1 :> first) @@ (k2 :> second)
Inner(only) == k1 :> only

\* Three outer instances, one of them with two inner ones and one with none.
Instances ==
  { <<Outer(a, a)>>, <<Outer(a, b)>>, <<Outer(b, a)>>,
    <<Outer(a, a), Inner(a)>>, <<Outer(a, a), Inner(b)>>, <<Outer(a, b), Inner(b)>> }

\* The texts that are generated and those that are recognised are the same.
ASSUME TextsAssumption ==
  \A path \in WrittenPaths :
    /\ \A text \in Texts[path] : IsTextOf(text, path)
    /\ \A other \in WrittenPaths \ {path} : \A text \in Texts[other] : ~IsTextOf(text, path)

=============================================================================
