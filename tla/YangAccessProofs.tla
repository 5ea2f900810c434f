-------------------------- MODULE YangAccessProofs --------------------------
(***************************************************************************)
(* Of the in-memory datastore, whatever its nodes are and however many:    *)
(* m_datastore reaches everything that was entered, and moves keep the     *)
(* order of what is not moved.  TInv, the inductive invariant, adds to the *)
(* two invariants the types of the variables, and that no node of          *)
(* ietf-yang-library was entered: those are the nodes impl_unlink skips.   *)
(***************************************************************************)
EXTENDS YangAccess, WellFoundedInduction, SequenceTheorems, TLAPS

TypeOK ==
  /\ root \in Top \cup {None}
  /\ tops \in Seq(Top)
  /\ items \in [Entry -> Seq(Item)]
  /\ given \subseteq {<<top>> : top \in Plain \cup Entry} \cup (Entry \X Item)

TInv == TypeOK /\ RootReachesTheTree /\ NothingIsLost

-----------------------------------------------------------------------------
(***************************************************************************)
(* The ends of a set of positions                                          *)
(***************************************************************************)
LEMMA LeastExists ==
  ASSUME NEW T, T \subseteq Nat, T # {}
  PROVE  \E m \in T : \A k \in T : ~(k < m)
<1> DEFINE R == OpToRel(<, Nat)
<1>1. PICK m \in T : \A k \in T : <<k, m>> \notin R
  <2> HIDE DEF R
  <2>1. IsWellFoundedOn(R, Nat)
    BY NatLessThanWellFounded DEF R
  <2> QED
    BY <2>1, WFMin
<1>2. \A k \in T : ~(k < m)
  BY <1>1 DEF OpToRel
<1> QED
  BY <1>2

LEMMA MinIsLeast ==
  ASSUME NEW n \in Nat, NEW S, S \subseteq 1 .. n, S # {}
  PROVE  Min(S) \in S /\ \A y \in S : Min(S) <= y
<1>1. S \subseteq Nat
  OBVIOUS
<1>2. PICK x \in S : \A y \in S : ~(y < x)
  BY <1>1, LeastExists
<1>3. \A y \in S : x <= y
  BY <1>2
<1> QED
  BY <1>3 DEF Min

\* The greatest of some positions is the least when they are counted from the end.
LEMMA MaxIsGreatest ==
  ASSUME NEW n \in Nat, NEW S, S \subseteq 1 .. n, S # {}
  PROVE  Max(S) \in S /\ \A y \in S : Max(S) >= y
<1> DEFINE T == {n - x : x \in S}
<1>1. T \subseteq Nat /\ T # {}
  <2>1. \A y \in S : n - y \in Nat
    OBVIOUS
  <2>2. PICK x \in S : TRUE
    OBVIOUS
  <2>3. n - x \in T
    OBVIOUS
  <2> QED
    BY <2>1, <2>3
<1>2. PICK t \in T : \A u \in T : ~(u < t)
  <2> HIDE DEF T
  <2> QED
    BY <1>1, LeastExists
<1>3. PICK x \in S : t = n - x
  OBVIOUS
<1>4. \A y \in S : x >= y
  <2> TAKE y \in S
  <2>1. ~(n - y < n - x)
    BY <1>2, <1>3
  <2>2. x \in 1 .. n /\ y \in 1 .. n
    BY <1>3
  <2> QED
    BY <2>1, <2>2
<1> QED
  BY <1>4 DEF Max

-----------------------------------------------------------------------------
(***************************************************************************)
(* Sequences with an element inserted, removed or moved                    *)
(***************************************************************************)
LEMMA Inserted ==
  ASSUME NEW T, NEW s \in Seq(T), NEW k \in 1 .. Len(s) + 1, NEW x \in T
  PROVE  /\ InsertAt(s, k, x) \in Seq(T)
         /\ Len(InsertAt(s, k, x)) = Len(s) + 1
         /\ \A j \in 1 .. Len(s) + 1 :
              InsertAt(s, k, x)[j] = IF j < k THEN s[j] ELSE IF j = k THEN x ELSE s[j - 1]
<1> DEFINE a == SubSeq(s, 1, k - 1)
           b == SubSeq(s, k, Len(s))
<1>1. Len(s) \in Nat /\ k \in Nat /\ \A i \in 1 .. Len(s) : s[i] \in T
  OBVIOUS
<1>2. a \in Seq(T) /\ Len(a) = k - 1 /\ \A i \in 1 .. k - 1 : a[i] = s[i]
  <2>1. \A i \in 1 .. k - 1 : s[i] \in T
    BY <1>1
  <2>2. /\ a \in Seq(T)
        /\ Len(a) = IF 1 <= k - 1 THEN k - 1 - 1 + 1 ELSE 0
        /\ \A i \in 1 .. k - 1 - 1 + 1 : a[i] = s[1 + i - 1]
    BY <1>1, <2>1, SubSeqProperties
  <2> HIDE DEF a
  <2> QED
    BY <1>1, <2>2
<1>3. b \in Seq(T) /\ Len(b) = Len(s) - k + 1 /\ \A i \in 1 .. Len(s) - k + 1 : b[i] = s[k + i - 1]
  <2>1. \A i \in k .. Len(s) : s[i] \in T
    BY <1>1
  <2>2. /\ b \in Seq(T)
        /\ Len(b) = IF k <= Len(s) THEN Len(s) - k + 1 ELSE 0
        /\ \A i \in 1 .. Len(s) - k + 1 : b[i] = s[k + i - 1]
    BY <1>1, <2>1, SubSeqProperties
  <2> HIDE DEF b
  <2> QED
    BY <1>1, <2>2
<1>4. <<x>> \in Seq(T) /\ Len(<<x>>) = 1 /\ <<x>>[1] = x
  OBVIOUS
<1>5. InsertAt(s, k, x) = (a \o <<x>>) \o b
  BY DEF InsertAt
<1> HIDE DEF a, b
<1>6. /\ a \o <<x>> \in Seq(T) /\ Len(a \o <<x>>) = k
      /\ \A i \in 1 .. k : (a \o <<x>>)[i] = IF i <= k - 1 THEN a[i] ELSE <<x>>[i - (k - 1)]
  BY <1>1, <1>2, <1>4, ConcatProperties
<1> DEFINE c == a \o <<x>>
<1>7. c \in Seq(T) /\ Len(c) = k /\ \A i \in 1 .. k : c[i] = IF i < k THEN s[i] ELSE x
  BY <1>1, <1>2, <1>4, <1>6
<1> HIDE DEF c
<1>8. /\ c \o b \in Seq(T) /\ Len(c \o b) = Len(s) + 1
      /\ \A i \in 1 .. Len(s) + 1 : (c \o b)[i] = IF i <= k THEN c[i] ELSE b[i - k]
  <2>1. /\ c \o b \in Seq(T) /\ Len(c \o b) = Len(c) + Len(b)
        /\ \A i \in 1 .. Len(c) + Len(b) : (c \o b)[i] = IF i <= Len(c) THEN c[i] ELSE b[i - Len(c)]
    BY <1>3, <1>7, ConcatProperties
  <2> QED
    BY <1>1, <1>3, <1>7, <2>1
<1>9. InsertAt(s, k, x) = c \o b
  BY <1>5 DEF c
<1> QED
  BY <1>1, <1>3, <1>7, <1>8, <1>9

LEMMA Removed ==
  ASSUME NEW T, NEW s \in Seq(T), NEW k \in 1 .. Len(s)
  PROVE  /\ RemoveAt(s, k) \in Seq(T)
         /\ Len(RemoveAt(s, k)) = Len(s) - 1
         /\ \A j \in 1 .. Len(s) - 1 : RemoveAt(s, k)[j] = IF j < k THEN s[j] ELSE s[j + 1]
<1> DEFINE a == SubSeq(s, 1, k - 1)
           b == SubSeq(s, k + 1, Len(s))
<1>1. Len(s) \in Nat /\ k \in Nat /\ \A i \in 1 .. Len(s) : s[i] \in T
  OBVIOUS
<1>2. a \in Seq(T) /\ Len(a) = k - 1 /\ \A i \in 1 .. k - 1 : a[i] = s[i]
  <2>1. \A i \in 1 .. k - 1 : s[i] \in T
    BY <1>1
  <2>2. /\ a \in Seq(T)
        /\ Len(a) = IF 1 <= k - 1 THEN k - 1 - 1 + 1 ELSE 0
        /\ \A i \in 1 .. k - 1 - 1 + 1 : a[i] = s[1 + i - 1]
    BY <1>1, <2>1, SubSeqProperties
  <2>3. k - 1 - 1 + 1 = k - 1 /\ \A i \in 1 .. k - 1 : 1 + i - 1 = i
    BY <1>1
  <2> HIDE DEF a
  <2> QED
    BY <1>1, <2>2, <2>3
<1>3. b \in Seq(T) /\ Len(b) = Len(s) - k /\ \A i \in 1 .. Len(s) - k : b[i] = s[k + i]
  <2>1. \A i \in k + 1 .. Len(s) : s[i] \in T
    BY <1>1
  <2>2. /\ b \in Seq(T)
        /\ Len(b) = IF k + 1 <= Len(s) THEN Len(s) - (k + 1) + 1 ELSE 0
        /\ \A i \in 1 .. Len(s) - (k + 1) + 1 : b[i] = s[k + 1 + i - 1]
    BY <1>1, <2>1, SubSeqProperties
  <2> HIDE DEF b
  <2> QED
    BY <1>1, <2>2
<1>4. RemoveAt(s, k) = a \o b
  BY DEF RemoveAt
<1> HIDE DEF a, b
<1>5. /\ a \o b \in Seq(T) /\ Len(a \o b) = Len(s) - 1
      /\ \A i \in 1 .. Len(s) - 1 : (a \o b)[i] = IF i <= k - 1 THEN a[i] ELSE b[i - (k - 1)]
  <2>1. /\ a \o b \in Seq(T) /\ Len(a \o b) = Len(a) + Len(b)
        /\ \A i \in 1 .. Len(a) + Len(b) : (a \o b)[i] = IF i <= Len(a) THEN a[i] ELSE b[i - Len(a)]
    BY <1>2, <1>3, ConcatProperties
  <2> QED
    BY <1>1, <1>2, <1>3, <2>1
<1> QED
  BY <1>1, <1>2, <1>3, <1>4, <1>5

\* A sequence with an element inserted, place by place.
IsInserted(t, s, n, k, x) ==
  /\ Len(t) = n + 1
  /\ \A j \in 1 .. n + 1 : t[j] = IF j < k THEN s[j] ELSE IF j = k THEN x ELSE s[j - 1]

LEMMA InsertedIs ==
  ASSUME NEW T, NEW s \in Seq(T), NEW n, n = Len(s), NEW k \in 1 .. n + 1, NEW x \in T,
         NEW t, t = InsertAt(s, k, x)
  PROVE  n \in Nat /\ t \in Seq(T) /\ IsInserted(t, s, n, k, x)
<1>1. n \in Nat /\ k \in 1 .. Len(s) + 1
  OBVIOUS
<1>2. InsertAt(s, k, x) \in Seq(T)
  BY <1>1, Inserted
<1>3. Len(InsertAt(s, k, x)) = Len(s) + 1
  BY <1>1, Inserted
<1>4. \A j \in 1 .. Len(s) + 1 : InsertAt(s, k, x)[j] = IF j < k THEN s[j] ELSE IF j = k THEN x ELSE s[j - 1]
  BY <1>1, Inserted
<1>5. /\ Len(t) = n + 1
      /\ \A j \in 1 .. n + 1 : t[j] = IF j < k THEN s[j] ELSE IF j = k THEN x ELSE s[j - 1]
  BY <1>3, <1>4, Zenon
<1> QED
  BY <1>1, <1>2, <1>5, Zenon DEF IsInserted

\* The positions of a sequence hold its elements, and only those.
LEMMA InToSet ==
  ASSUME NEW T, NEW s \in Seq(T)
  PROVE  /\ DOMAIN s = 1 .. Len(s) /\ Len(s) \in Nat
         /\ ToSet(s) \subseteq T
         /\ \A x : x \in ToSet(s) <=> \E j \in 1 .. Len(s) : s[j] = x
BY DEF ToSet

LEMMA InsertedKeeps ==
  ASSUME NEW T, NEW s \in Seq(T), NEW k \in 1 .. Len(s) + 1, NEW x \in T
  PROVE  /\ ToSet(InsertAt(s, k, x)) = ToSet(s) \cup {x}
         /\ IsInjective(s) /\ x \notin ToSet(s) => IsInjective(InsertAt(s, k, x))
         /\ \A y, z : Precedes(s, y, z) => Precedes(InsertAt(s, k, x), y, z)
<1> DEFINE t == InsertAt(s, k, x)
           n == Len(s)
<1>1. /\ t \in Seq(T) /\ Len(t) = n + 1 /\ n \in Nat
      /\ \A j \in 1 .. n + 1 : t[j] = IF j < k THEN s[j] ELSE IF j = k THEN x ELSE s[j - 1]
  <2>1. t = InsertAt(s, k, x) /\ n = Len(s) /\ k \in 1 .. n + 1
    OBVIOUS
  <2> HIDE DEF t, n
  <2>2. n \in Nat /\ t \in Seq(T) /\ IsInserted(t, s, n, k, x)
    BY <2>1, InsertedIs
  <2> QED
    BY <2>2, Zenon DEF IsInserted
<1>2. /\ DOMAIN s = 1 .. n /\ DOMAIN t = 1 .. n + 1
      /\ \A y : y \in ToSet(s) <=> \E j \in 1 .. n : s[j] = y
      /\ \A y : y \in ToSet(t) <=> \E j \in 1 .. n + 1 : t[j] = y
  BY <1>1, InToSet
<1> HIDE DEF t
<1>3. \A j \in 1 .. n : t[IF j < k THEN j ELSE j + 1] = s[j]
  BY <1>1
<1>4. t[k] = x
  BY <1>1
<1>5. ToSet(t) = ToSet(s) \cup {x}
  <2>1. \A y \in ToSet(s) : y \in ToSet(t)
    BY <1>1, <1>2, <1>3
  <2>2. x \in ToSet(t)
    BY <1>1, <1>2, <1>4
  <2>3. \A y \in ToSet(t) : y = x \/ y \in ToSet(s)
    <3> TAKE y \in ToSet(t)
    <3>1. PICK j \in 1 .. n + 1 : t[j] = y
      BY <1>2
    <3>2. CASE j < k
      <4>1. j \in 1 .. n /\ s[j] = y
        BY <1>1, <3>1, <3>2
      <4> QED
        BY <1>2, <4>1
    <3>3. CASE j > k
      <4>1. j - 1 \in 1 .. n /\ s[j - 1] = y
        BY <1>1, <3>1, <3>3
      <4> QED
        BY <1>2, <4>1
    <3>4. CASE j = k
      BY <1>4, <3>1, <3>4
    <3> QED
      BY <1>1, <3>2, <3>3, <3>4
  <2> QED
    BY <2>1, <2>2, <2>3
<1>6. ASSUME IsInjective(s), x \notin ToSet(s) PROVE IsInjective(t)
  <2>1. \A i, j \in 1 .. n : s[i] = s[j] => i = j
    BY <1>2, <1>6 DEF IsInjective
  <2>2. \A j \in 1 .. n : s[j] # x
    BY <1>2, <1>6
  <2>3. \A i, j \in 1 .. n + 1 : t[i] = t[j] => i = j
    <3> SUFFICES ASSUME NEW i \in 1 .. n + 1, NEW j \in 1 .. n + 1, t[i] = t[j] PROVE i = j
      OBVIOUS
    <3> DEFINE From(m) == IF m < k THEN m ELSE m - 1
    <3>1. \A m \in 1 .. n + 1 : m = k \/ (From(m) \in 1 .. n /\ t[m] = s[From(m)])
      BY <1>1
    <3>2. i = k <=> j = k
      BY <1>4, <2>2, <3>1
    <3>3. CASE i # k
      <4>1. From(i) = From(j)
        BY <2>1, <3>1, <3>2, <3>3
      <4> QED
        BY <1>1, <3>2, <3>3, <4>1
    <3> QED
      BY <3>2, <3>3
  <2> QED
    BY <1>2, <2>3 DEF IsInjective
<1>7. \A y, z : Precedes(s, y, z) => Precedes(t, y, z)
  <2> SUFFICES ASSUME NEW y, NEW z, Precedes(s, y, z) PROVE Precedes(t, y, z)
    OBVIOUS
  <2>1. PICK i, j \in 1 .. n : i < j /\ s[i] = y /\ s[j] = z
    BY <1>2 DEF Precedes
  <2> DEFINE At(m) == IF m < k THEN m ELSE m + 1
  <2>2. At(i) \in 1 .. n + 1 /\ At(j) \in 1 .. n + 1 /\ At(i) < At(j)
    BY <1>1, <2>1
  <2>3. t[At(i)] = y /\ t[At(j)] = z
    BY <1>3, <2>1
  <2> QED
    BY <1>2, <2>2, <2>3 DEF Precedes
<1> QED
  BY <1>5, <1>6, <1>7 DEF t

LEMMA RemovedKeeps ==
  ASSUME NEW T, NEW s \in Seq(T), NEW k \in 1 .. Len(s)
  PROVE  /\ ToSet(RemoveAt(s, k)) \subseteq ToSet(s)
         /\ ToSet(s) \ {s[k]} \subseteq ToSet(RemoveAt(s, k))
         /\ IsInjective(s) => IsInjective(RemoveAt(s, k)) /\ s[k] \notin ToSet(RemoveAt(s, k))
         /\ \A y, z : Precedes(s, y, z) /\ s[k] \notin {y, z} => Precedes(RemoveAt(s, k), y, z)
<1> DEFINE t == RemoveAt(s, k)
           n == Len(s)
           From(m) == IF m < k THEN m ELSE m + 1
           At(m) == IF m < k THEN m ELSE m - 1
<1>1. /\ t \in Seq(T) /\ Len(t) = n - 1 /\ n \in Nat
      /\ \A j \in 1 .. n - 1 : t[j] = IF j < k THEN s[j] ELSE s[j + 1]
  BY Removed
<1>2. /\ DOMAIN s = 1 .. n /\ DOMAIN t = 1 .. n - 1
      /\ \A y : y \in ToSet(s) <=> \E j \in 1 .. n : s[j] = y
      /\ \A y : y \in ToSet(t) <=> \E j \in 1 .. n - 1 : t[j] = y
  BY <1>1, InToSet
<1> HIDE DEF t
<1>3. \A j \in 1 .. n - 1 : From(j) \in 1 .. n /\ From(j) # k /\ t[j] = s[From(j)]
  BY <1>1
<1>4. \A j \in 1 .. n : j # k => At(j) \in 1 .. n - 1 /\ t[At(j)] = s[j]
  BY <1>1
<1>5. ToSet(t) \subseteq ToSet(s)
  BY <1>2, <1>3
<1>6. ToSet(s) \ {s[k]} \subseteq ToSet(t)
  <2> SUFFICES ASSUME NEW y \in ToSet(s), y # s[k] PROVE y \in ToSet(t)
    OBVIOUS
  <2>1. PICK j \in 1 .. n : s[j] = y /\ j # k
    BY <1>2
  <2> QED
    BY <1>2, <1>4, <2>1
<1>7. ASSUME IsInjective(s) PROVE IsInjective(t) /\ s[k] \notin ToSet(t)
  <2>1. \A i, j \in 1 .. n : s[i] = s[j] => i = j
    BY <1>2, <1>7 DEF IsInjective
  <2>2. \A i, j \in 1 .. n - 1 : t[i] = t[j] => i = j
    <3> SUFFICES ASSUME NEW i \in 1 .. n - 1, NEW j \in 1 .. n - 1, t[i] = t[j] PROVE i = j
      OBVIOUS
    <3>1. From(i) = From(j)
      BY <1>3, <2>1
    <3> QED
      BY <1>1, <3>1
  <2>3. \A j \in 1 .. n - 1 : t[j] # s[k]
    BY <1>3, <2>1
  <2> QED
    BY <1>2, <2>2, <2>3 DEF IsInjective
<1>8. \A y, z : Precedes(s, y, z) /\ s[k] \notin {y, z} => Precedes(t, y, z)
  <2> SUFFICES ASSUME NEW y, NEW z, Precedes(s, y, z), s[k] # y, s[k] # z PROVE Precedes(t, y, z)
    OBVIOUS
  <2>1. PICK i, j \in 1 .. n : i < j /\ s[i] = y /\ s[j] = z
    BY <1>2 DEF Precedes
  <2>2. i # k /\ j # k
    BY <2>1
  <2>3. At(i) \in 1 .. n - 1 /\ At(j) \in 1 .. n - 1 /\ t[At(i)] = y /\ t[At(j)] = z
    BY <1>4, <2>1, <2>2
  <2>4. At(i) < At(j)
    BY <1>1, <2>1, <2>2
  <2> QED
    BY <1>2, <2>3, <2>4 DEF Precedes
<1> QED
  BY <1>5, <1>6, <1>7, <1>8 DEF t

LEMMA IndexIsFirst ==
  ASSUME NEW T, NEW s \in Seq(T), NEW x \in ToSet(s)
  PROVE  /\ IndexOf(s, x) \in 1 .. Len(s) /\ s[IndexOf(s, x)] = x
         /\ \A j \in 1 .. Len(s) : s[j] = x => IndexOf(s, x) <= j
         /\ RemoveFirst(s, x) = RemoveAt(s, IndexOf(s, x))
<1> DEFINE S == {k \in 1 .. Len(s) : s[k] = x}
<1>1. DOMAIN s = 1 .. Len(s) /\ Len(s) \in Nat /\ \E j \in 1 .. Len(s) : s[j] = x
  BY InToSet
<1>2. IndexOf(s, x) = Min(S)
  BY <1>1 DEF IndexOf
<1>3. SelectInSeq(s, LAMBDA v : v = x) = Min(S)
  BY <1>1 DEF SelectInSeq
<1>4. RemoveFirst(s, x) = RemoveAt(s, Min(S))
  BY <1>1, <1>3 DEF RemoveFirst
<1>5. S \subseteq 1 .. Len(s) /\ S # {}
  BY <1>1
<1>6. Min(S) \in S /\ \A y \in S : Min(S) <= y
  <2> HIDE DEF S
  <2> QED
    BY <1>1, <1>5, MinIsLeast
<1> QED
  BY <1>2, <1>4, <1>6

\* Where x goes when it is moved next to y.
LEMMA NextToKeeps ==
  ASSUME NEW T, NEW s \in Seq(T), NEW x \in ToSet(s), NEW y \in ToSet(s), x # y, NEW side \in Sides
  PROVE  /\ NextTo(s, x, y, side) \in Seq(T)
         /\ ToSet(NextTo(s, x, y, side)) = ToSet(s)
         /\ IsInjective(s) => IsInjective(NextTo(s, x, y, side))
         /\ \A v, w : Precedes(s, v, w) /\ x \notin {v, w} => Precedes(NextTo(s, x, y, side), v, w)
         /\ side = "before" =>
              \A z : (z = y \/ Precedes(s, y, z)) /\ z # x => Precedes(NextTo(s, x, y, side), x, z)
         /\ side = "after" /\ IsInjective(s) =>
              \A z : (z = y \/ Precedes(s, z, y)) /\ z # x => Precedes(NextTo(s, x, y, side), z, x)
<1> DEFINE r == RemoveFirst(s, x)
           at == IndexOf(r, y)
           k == IF side = "before" THEN at ELSE at + 1
           t == InsertAt(r, k, x)
           n == Len(r)
<1>1. x \in T /\ IndexOf(s, x) \in 1 .. Len(s) /\ s[IndexOf(s, x)] = x /\ r = RemoveAt(s, IndexOf(s, x))
  BY InToSet, IndexIsFirst
<1>2. /\ r \in Seq(T) /\ ToSet(r) \subseteq ToSet(s) /\ ToSet(s) \ {x} \subseteq ToSet(r)
      /\ IsInjective(s) => IsInjective(r) /\ x \notin ToSet(r)
      /\ \A v, w : Precedes(s, v, w) /\ x \notin {v, w} => Precedes(r, v, w)
  <2> HIDE DEF r
  <2> QED
    BY <1>1, Removed, RemovedKeeps
<1>3. NextTo(s, x, y, side) = t
  BY DEF NextTo
<1> HIDE DEF r
<1>4. DOMAIN r = 1 .. n /\ n \in Nat /\ y \in ToSet(r)
  BY <1>2, InToSet
<1>5. at \in 1 .. n /\ r[at] = y /\ \A j \in 1 .. n : r[j] = y => at <= j
  BY <1>2, <1>4, IndexIsFirst
<1> HIDE DEF at
<1>6. k \in 1 .. n + 1
  BY <1>4, <1>5
<1>7. side = "before" => k = at
  OBVIOUS
<1>8. side = "after" => k = at + 1
  OBVIOUS
<1> HIDE DEF k
<1>9. /\ t \in Seq(T) /\ Len(t) = n + 1
      /\ \A j \in 1 .. n + 1 : t[j] = IF j < k THEN r[j] ELSE IF j = k THEN x ELSE r[j - 1]
  <2>1. t = InsertAt(r, k, x) /\ n = Len(r) /\ r \in Seq(T) /\ k \in 1 .. n + 1 /\ x \in T
    BY <1>1, <1>2, <1>6
  <2> HIDE DEF n, t
  <2>2. n \in Nat /\ t \in Seq(T) /\ IsInserted(t, r, n, k, x)
    BY <2>1, InsertedIs
  <2> QED
    BY <2>2, Zenon DEF IsInserted
<1>10. /\ ToSet(t) = ToSet(r) \cup {x}
       /\ IsInjective(r) /\ x \notin ToSet(r) => IsInjective(t)
       /\ \A v, w : Precedes(r, v, w) => Precedes(t, v, w)
  BY <1>1, <1>2, <1>6, InsertedKeeps
<1> HIDE DEF t
<1>11. DOMAIN t = 1 .. n + 1
  BY <1>4, <1>9, InToSet
<1>12. ASSUME side = "before", NEW z, z = y \/ Precedes(s, y, z), z # x PROVE Precedes(t, x, z)
  <2>1. PICK j \in 1 .. n : r[j] = z /\ at <= j
    <3>1. CASE z = y
      BY <1>5, <3>1
    <3>2. CASE Precedes(s, y, z)
      <4>1. Precedes(r, y, z)
        BY <1>2, <1>12, <3>2
      <4>2. PICK i, j \in 1 .. n : i < j /\ r[i] = y /\ r[j] = z
        BY <1>4, <4>1 DEF Precedes
      <4>3. at <= j
        BY <1>4, <1>5, <4>2
      <4> QED
        BY <4>2, <4>3
    <3> QED
      BY <1>12, <3>1, <3>2
  <2>2. k \in 1 .. n + 1 /\ j + 1 \in 1 .. n + 1 /\ k < j + 1
    BY <1>4, <1>5, <1>6, <1>7, <1>12, <2>1
  <2>3. t[k] = x /\ t[j + 1] = z
    BY <1>4, <1>9, <2>1, <2>2
  <2> QED
    BY <1>11, <2>2, <2>3 DEF Precedes
<1>13. ASSUME side = "after", IsInjective(s), NEW z, z = y \/ Precedes(s, z, y), z # x
       PROVE  Precedes(t, z, x)
  <2>1. PICK j \in 1 .. n : r[j] = z /\ j <= at
    <3>1. CASE z = y
      BY <1>4, <1>5, <3>1
    <3>2. CASE Precedes(s, z, y)
      <4>1. Precedes(r, z, y)
        BY <1>2, <1>13, <3>2
      <4>2. PICK j, i \in 1 .. n : j < i /\ r[j] = z /\ r[i] = y
        BY <1>4, <4>1 DEF Precedes
      <4>3. i = at
        BY <1>2, <1>4, <1>5, <1>13, <4>2 DEF IsInjective
      <4> QED
        BY <1>4, <4>2, <4>3
    <3> QED
      BY <1>13, <3>1, <3>2
  <2>2. k \in 1 .. n + 1 /\ j \in 1 .. n + 1 /\ j < k
    BY <1>4, <1>5, <1>6, <1>8, <1>13, <2>1
  <2>3. t[k] = x /\ t[j] = z
    BY <1>4, <1>9, <2>1, <2>2
  <2> QED
    BY <1>11, <2>2, <2>3 DEF Precedes
<1>14. ToSet(t) = ToSet(s)
  BY <1>2, <1>10
<1> QED
  BY <1>2, <1>3, <1>9, <1>10, <1>12, <1>13, <1>14

LEMMA EndedKeeps ==
  ASSUME NEW T, NEW s \in Seq(T), NEW x \in T, NEW end \in Ends
  PROVE  /\ AtEnd(s, x, end) \in Seq(T)
         /\ ToSet(AtEnd(s, x, end)) = ToSet(s) \cup {x}
<1>1. Len(s) \in Nat /\ 1 \in 1 .. Len(s) + 1 /\ Len(s) + 1 \in 1 .. Len(s) + 1
  OBVIOUS
<1>2. CASE end = "begin"
  <2>1. AtEnd(s, x, end) = <<x>> \o s
    BY <1>2 DEF AtEnd
  <2>2. /\ <<x>> \o s \in Seq(T) /\ Len(<<x>> \o s) = Len(s) + 1
        /\ \A i \in 1 .. Len(s) + 1 : (<<x>> \o s)[i] = IF i <= 1 THEN <<x>>[i] ELSE s[i - 1]
    <3>1. <<x>> \in Seq(T) /\ Len(<<x>>) = 1
      OBVIOUS
    <3>2. 1 + Len(s) = Len(s) + 1
      BY <1>1
    <3> QED
      BY <3>1, <3>2, ConcatProperties
  <2> DEFINE t == <<x>> \o s
  <2>3. t[1] = x /\ \A i \in 1 .. Len(s) : i + 1 \in 1 .. Len(s) + 1 /\ t[i + 1] = s[i]
    BY <1>1, <2>2
  <2> HIDE DEF t
  <2>4. \A i \in 1 .. Len(s) + 1 : i = 1 \/ (i - 1 \in 1 .. Len(s) /\ t[i] = s[i - 1])
    BY <1>1, <2>2 DEF t
  <2>5. t \in Seq(T) /\ Len(t) = Len(s) + 1
    BY <2>2 DEF t
  <2>6. ToSet(t) = ToSet(s) \cup {x}
    <3>1. \A y \in ToSet(s) : y \in ToSet(t)
      <4> TAKE y \in ToSet(s)
      <4>1. PICK i \in 1 .. Len(s) : s[i] = y
        BY InToSet
      <4>2. i + 1 \in 1 .. Len(t) /\ t[i + 1] = y
        BY <2>3, <2>5, <4>1
      <4> QED
        BY <2>5, <4>2, InToSet
    <3>2. x \in ToSet(t)
      BY <1>1, <2>3, <2>5, InToSet
    <3>3. \A y \in ToSet(t) : y = x \/ y \in ToSet(s)
      <4> TAKE y \in ToSet(t)
      <4>1. PICK i \in 1 .. Len(s) + 1 : t[i] = y
        BY <2>5, InToSet
      <4>2. i = 1 \/ (i - 1 \in 1 .. Len(s) /\ y = s[i - 1])
        BY <2>4, <4>1
      <4> QED
        BY <2>3, <4>1, <4>2, InToSet
    <3> QED
      BY <3>1, <3>2, <3>3
  <2> QED
    BY <2>1, <2>2, <2>6 DEF t
<1>3. CASE end = "end"
  <2> DEFINE t == Append(s, x)
  <2>1. AtEnd(s, x, end) = t
    BY <1>3 DEF AtEnd
  <2>2. /\ t \in Seq(T) /\ Len(t) = Len(s) + 1
        /\ \A i \in 1 .. Len(s) : t[i] = s[i]
        /\ t[Len(s) + 1] = x
    BY AppendProperties
  <2> HIDE DEF t
  <2>3. \A i \in 1 .. Len(s) + 1 : i \in 1 .. Len(s) \/ i = Len(s) + 1
    BY <1>1
  <2>4. \A i \in 1 .. Len(s) : i \in 1 .. Len(s) + 1
    BY <1>1
  <2>5. ToSet(t) = ToSet(s) \cup {x}
    BY <1>1, <2>2, <2>3, <2>4, InToSet
  <2> QED
    BY <2>1, <2>2, <2>5
<1> QED
  BY <1>2, <1>3 DEF Ends

-----------------------------------------------------------------------------
(***************************************************************************)
(* Each operation keeps TInv                                               *)
(***************************************************************************)
\* What NothingIsLost says of each node: entered is a subset of what is there.
Held(entered, here, nested) ==
  /\ \A top : <<top>> \in entered => top \in here
  /\ \A entry, item : <<entry, item>> \in entered =>
       entry \in here /\ item \in ToSet(nested[entry])

Entered == {<<top>> : top \in Plain \cup Entry} \cup (Entry \X Item)

LEMMA HeldIsReached ==
  ASSUME NEW entered, entered \subseteq Entered, NEW here, NEW nested
  PROVE  Held(entered, here, nested) <=>
           entered \subseteq {<<top>> : top \in here} \cup
             UNION {{<<entry, item>> : item \in ToSet(nested[entry])} : entry \in here \cap Entry}
<1> DEFINE Tops == {<<top>> : top \in here}
           Under(entry) == {<<entry, item>> : item \in ToSet(nested[entry])}
           Items == UNION {Under(entry) : entry \in here \cap Entry}
<1>1. ASSUME Held(entered, here, nested) PROVE entered \subseteq Tops \cup Items
  <2> SUFFICES ASSUME NEW path \in entered PROVE path \in Tops \cup Items
    OBVIOUS
  <2>1. CASE \E top \in Plain \cup Entry : path = <<top>>
    BY <1>1, <2>1 DEF Held
  <2>2. CASE path \in Entry \X Item
    <3>1. PICK entry \in Entry, item \in Item : path = <<entry, item>>
      BY <2>2
    <3>2. entry \in here /\ item \in ToSet(nested[entry])
      BY <1>1, <3>1 DEF Held
    <3>3. path \in Under(entry)
      BY <3>1, <3>2
    <3> QED
      BY <3>2, <3>3
  <2> QED
    BY <2>1, <2>2 DEF Entered
<1>2. ASSUME entered \subseteq Tops \cup Items PROVE Held(entered, here, nested)
  <2>1. ASSUME NEW top, <<top>> \in entered PROVE top \in here
    BY <1>2, <2>1
  <2>2. ASSUME NEW entry, NEW item, <<entry, item>> \in entered
        PROVE  entry \in here /\ item \in ToSet(nested[entry])
    BY <1>2, <2>2
  <2> QED
    BY <2>1, <2>2 DEF Held
<1> QED
  BY <1>1, <1>2

LEMMA NothingIsLostHeld ==
  /\ TypeOK => (NothingIsLost <=> Held(given, Here, items))
  /\ TypeOK' => (NothingIsLost' <=> Held(given', Here', items'))
BY HeldIsReached DEF TypeOK, NothingIsLost, Present, Entered

LEMMA InitTInv == Init => TInv
<1> SUFFICES ASSUME Init PROVE TInv
  OBVIOUS
<1>1. TypeOK
  BY DEF Init, TypeOK
<1>2. Here = {}
  BY DEF Init, Here, ToSet
<1>3. RootReachesTheTree
  BY DEF Init, RootReachesTheTree, IsInjective
<1>4. NothingIsLost
  BY DEF Init, NothingIsLost
<1> QED
  BY <1>1, <1>3, <1>4 DEF TInv

LEMMA TopsHere ==
  ASSUME TypeOK
  PROVE  /\ DOMAIN tops = 1 .. Len(tops) /\ Len(tops) \in Nat
         /\ Here \subseteq Top
         /\ \A top : top \in Here <=> \E k \in 1 .. Len(tops) : tops[k] = top
         /\ tops = << >> <=> Here = {}
<1>1. tops \in Seq(Top)
  BY DEF TypeOK
<1>2. tops = << >> => Here = {}
  BY DEF Here, ToSet
<1>3. tops # << >> => 1 \in 1 .. Len(tops)
  BY <1>1
<1> QED
  BY <1>1, <1>2, <1>3, InToSet DEF Here

\* A new node leaves the order of the others alone.
LEMMA WithTopKeeps ==
  ASSUME TypeOK, IsInjective(tops), NEW top \in Top, NEW seq \in WithTop(top)
  PROVE  /\ seq \in Seq(Top) /\ IsInjective(seq)
         /\ ToSet(seq) = Here \cup {top}
         /\ \A x, y : Precedes(tops, x, y) => Precedes(seq, x, y)
<1>1. CASE top \in Here
  BY <1>1 DEF WithTop, Here, TypeOK
<1>2. CASE top \notin Here
  <2>1. PICK k \in 1 .. Len(tops) + 1 : seq = InsertAt(tops, k, top)
    BY <1>2 DEF WithTop
  <2>2. tops \in Seq(Top)
    BY DEF TypeOK
  <2> QED
    BY <1>2, <2>1, <2>2, Inserted, InsertedKeeps DEF Here
<1> QED
  BY <1>1, <1>2

LEMMA NewTopKeepsTInv ==
  ASSUME TInv, NEW top \in Plain \cup Entry, NewTop(top)
  PROVE  TInv'
<1>1. TypeOK /\ IsInjective(tops) /\ top \in Top /\ tops' \in WithTop(top)
  BY DEF TInv, RootReachesTheTree, NewTop, Top
<1>2. tops' \in Seq(Top) /\ IsInjective(tops') /\ Here' = Here \cup {top}
  BY <1>1, WithTopKeeps DEF Here
<1>3. TypeOK'
  BY <1>1, <1>2 DEF TypeOK, NewTop
<1>4. tops' # << >> /\ root' \in Here'
  <2>1. ToSet(<< >>) = {}
    BY DEF ToSet
  <2>2. root = None \/ root \in Here
    BY DEF TInv, RootReachesTheTree
  <2> QED
    BY <1>2, <2>1, <2>2 DEF NewTop, Here
<1>5. RootReachesTheTree'
  BY <1>2, <1>4 DEF TInv, RootReachesTheTree, NewTop
<1>6. Held(given', Here', items')
  BY <1>1, <1>2, NothingIsLostHeld DEF TInv, NewTop, Held
<1> QED
  BY <1>3, <1>5, <1>6, NothingIsLostHeld DEF TInv

LEMMA NewItemKeepsTInv ==
  ASSUME TInv, NEW entry \in Entry, NEW item \in Item, NewItem(entry, item)
  PROVE  TInv'
<1>1. TypeOK /\ IsInjective(tops) /\ entry \in Top /\ tops' \in WithTop(entry)
  BY DEF TInv, RootReachesTheTree, NewItem, Top
<1>2. tops' \in Seq(Top) /\ IsInjective(tops') /\ Here' = Here \cup {entry}
  BY <1>1, WithTopKeeps DEF Here
<1>3. /\ items' \in [Entry -> Seq(Item)]
      /\ \A e \in Entry \ {entry} : items'[e] = items[e]
      /\ ToSet(items'[entry]) = ToSet(items[entry]) \cup {item}
  <2>1. CASE item \in ToSet(items[entry])
    BY <1>1, <2>1 DEF NewItem, TypeOK
  <2>2. CASE item \notin ToSet(items[entry])
    <3>1. items' = [items EXCEPT ![entry] = Append(@, item)]
      BY <2>2 DEF NewItem
    <3>2. items[entry] \in Seq(Item)
      BY <1>1 DEF TypeOK
    <3>3. /\ Append(items[entry], item) \in Seq(Item)
          /\ ToSet(Append(items[entry], item)) = ToSet(items[entry]) \cup {item}
      <4>1. AtEnd(items[entry], item, "end") = Append(items[entry], item)
        BY DEF AtEnd
      <4>2. "end" \in Ends
        BY DEF Ends
      <4>3. /\ AtEnd(items[entry], item, "end") \in Seq(Item)
            /\ ToSet(AtEnd(items[entry], item, "end")) = ToSet(items[entry]) \cup {item}
        BY <3>2, <4>2, EndedKeeps
      <4> QED
        BY <4>1, <4>3
    <3> QED
      BY <1>1, <3>1, <3>3 DEF TypeOK
  <2> QED
    BY <2>1, <2>2
<1>4. TypeOK'
  BY <1>1, <1>2, <1>3 DEF TypeOK, NewItem
<1>5. tops' # << >> /\ root' \in Here'
  <2>1. ToSet(<< >>) = {}
    BY DEF ToSet
  <2>2. root = None \/ root \in Here
    BY DEF TInv, RootReachesTheTree
  <2> QED
    BY <1>2, <2>1, <2>2 DEF NewItem, Here
<1>6. RootReachesTheTree'
  BY <1>2, <1>3, <1>5 DEF TInv, RootReachesTheTree
<1>7. Held(given', Here', items')
  BY <1>1, <1>2, <1>3, NothingIsLostHeld DEF TInv, NewItem, Held, TypeOK
<1> QED
  BY <1>4, <1>6, <1>7, NothingIsLostHeld DEF TInv

\* impl_unlink finds a node that is not of ietf-yang-library, if there is one.
LEMMA SiblingIsFound ==
  ASSUME TypeOK, IsInjective(tops), NEW top \in Here
  PROVE  IF Here \ {top} \subseteq Library THEN SiblingBefore(top) = None
         ELSE SiblingBefore(top) \in Here \ {top}
<1> DEFINE n == Len(tops)
           at == IndexOf(tops, top)
           Steps(k) == IF k < at THEN at - k ELSE at + n - k
           others == {k \in 1 .. n : k # at /\ tops[k] \notin Library}
<1>1. n \in Nat /\ DOMAIN tops = 1 .. n /\ \A x : x \in Here <=> \E k \in 1 .. n : tops[k] = x
  BY TopsHere
<1>2. at \in 1 .. n /\ tops[at] = top
  BY IndexIsFirst DEF TypeOK, Here
<1>3. \A k \in 1 .. n : tops[k] = top => k = at
  BY <1>1, <1>2 DEF IsInjective
<1>4. others = {} <=> Here \ {top} \subseteq Library
  BY <1>1, <1>2, <1>3
<1>5. SiblingBefore(top) = IF others = {} THEN None
                           ELSE tops[CHOOSE k \in others : \A m \in others : Steps(k) <= Steps(m)]
  BY <1>1 DEF SiblingBefore
<1>6. ASSUME others # {} PROVE \E k \in others : \A m \in others : Steps(k) <= Steps(m)
  <2> DEFINE T == {Steps(k) : k \in others}
  <2>1. \A k \in 1 .. n : Steps(k) \in Nat
    BY <1>1, <1>2
  <2>2. T \subseteq Nat /\ T # {}
    BY <1>6, <2>1
  <2>3. PICK t \in T : \A u \in T : ~(u < t)
    <3> HIDE DEF T
    <3> QED
      BY <2>2, LeastExists
  <2>4. PICK k \in others : t = Steps(k)
    BY <2>3
  <2>5. \A m \in others : Steps(k) <= Steps(m)
    <3> TAKE m \in others
    <3>1. ~(Steps(m) < Steps(k))
      BY <2>3, <2>4
    <3>2. Steps(m) \in Nat /\ Steps(k) \in Nat
      BY <2>1
    <3> HIDE DEF Steps
    <3> QED
      BY <3>1, <3>2
  <2> QED
    BY <2>5
<1>7. ASSUME others # {} PROVE SiblingBefore(top) \in Here \ {top}
  <2> DEFINE near == CHOOSE k \in others : \A m \in others : Steps(k) <= Steps(m)
  <2>1. near \in others
    BY <1>6, <1>7
  <2>2. SiblingBefore(top) = tops[near]
    BY <1>5, <1>7
  <2> HIDE DEF near
  <2> QED
    BY <1>1, <1>3, <2>1, <2>2
<1> HIDE DEF others
<1> QED
  BY <1>4, <1>5, <1>7

LEMMA RemoveTopKeepsTInv ==
  ASSUME TInv, NEW top \in Top, RemoveTop(top)
  PROVE  TInv'
<1> DEFINE left == IF root = top THEN SiblingBefore(top) ELSE root
<1>1. TypeOK /\ IsInjective(tops) /\ top \in Here /\ tops \in Seq(Top)
  BY DEF TInv, RootReachesTheTree, RemoveTop, TypeOK
<1>2. root \in Here
  BY <1>1, TopsHere DEF TInv, RootReachesTheTree
<1>3. /\ root' = left
      /\ tops' = IF left = None THEN << >> ELSE RemoveFirst(tops, top)
      /\ items' = [entry \in Entry |-> IF entry = top \/ left = None THEN << >> ELSE items[entry]]
      /\ given' = {path \in given : path[1] # top}
  BY DEF RemoveTop, Unlink
<1>4. None \notin Top
  BY NodesAssumption DEF Top
<1>5. \A path \in given' : path \in given /\ path[1] # top
  BY <1>3
<1>6. Held(given, Here, items)
  BY <1>1, NothingIsLostHeld DEF TInv
<1>7. CASE left = None
  <2>1. Here \ {top} \subseteq Library
    BY <1>1, <1>2, <1>4, <1>7, SiblingIsFound, TopsHere
  <2>2. tops' = << >> /\ root' = None /\ items' = [entry \in Entry |-> << >>]
    BY <1>3, <1>7
  <2>3. given' = {}
    <3> SUFFICES ASSUME NEW path \in given' PROVE FALSE
      OBVIOUS
    <3>1. path \in Entered
      BY <1>1, <1>5 DEF TypeOK, Entered
    <3>2. path[1] \in Here
      BY <1>5, <1>6, <3>1 DEF Held, Entered
    <3>3. path[1] \in Plain \cup Entry
      BY <3>1 DEF Entered
    <3> QED
      BY <1>5, <2>1, <3>2, <3>3, NodesAssumption
  <2>4. TypeOK'
    BY <2>2, <2>3 DEF TypeOK
  <2>5. RootReachesTheTree'
    BY <2>2 DEF RootReachesTheTree, IsInjective
  <2> QED
    BY <2>3, <2>4, <2>5 DEF TInv, NothingIsLost
<1>8. CASE left # None
  <2>1. left \in Here \ {top}
    BY <1>1, <1>2, <1>8, SiblingIsFound
  <2> DEFINE at == IndexOf(tops, top)
  <2>2. at \in 1 .. Len(tops) /\ tops[at] = top /\ tops' = RemoveAt(tops, at)
    BY <1>1, <1>3, <1>8, IndexIsFirst DEF Here
  <2> HIDE DEF at
  <2>3. tops' \in Seq(Top) /\ IsInjective(tops') /\ Here' = Here \ {top}
    <3>1. tops' \in Seq(Top)
      BY <1>1, <2>2, Removed
    <3>2. /\ Here' \subseteq Here /\ Here \ {top} \subseteq Here'
          /\ IsInjective(tops') /\ top \notin Here'
      BY <1>1, <2>2, RemovedKeeps DEF Here
    <3> QED
      BY <3>1, <3>2
  <2>4. items' = [entry \in Entry |-> IF entry = top THEN << >> ELSE items[entry]]
    BY <1>3, <1>8
  <2>5. TypeOK'
    <3>1. items' \in [Entry -> Seq(Item)]
      BY <1>1, <2>4 DEF TypeOK
    <3>2. root' \in Top
      BY <1>1, <1>3, <2>1, TopsHere
    <3> QED
      BY <1>1, <1>3, <2>3, <3>1, <3>2 DEF TypeOK
  <2>6. tops' # << >> /\ root' \in Here'
    <3>1. ToSet(<< >>) = {}
      BY DEF ToSet
    <3> QED
      BY <1>3, <2>1, <2>3, <3>1 DEF Here
  <2>7. RootReachesTheTree'
    BY <2>3, <2>4, <2>6 DEF TInv, RootReachesTheTree
  <2>8. Held(given', Here', items')
    <3>1. ASSUME NEW x, <<x>> \in given' PROVE x \in Here'
      <4>1. <<x>>[1] = x
        OBVIOUS
      <4> QED
        BY <1>5, <1>6, <2>3, <3>1, <4>1 DEF Held
    <3>2. ASSUME NEW entry, NEW item, <<entry, item>> \in given'
          PROVE  entry \in Here' /\ item \in ToSet(items'[entry])
      <4>1. <<entry, item>>[1] = entry /\ entry \in Entry
        BY <1>1, <1>5, <3>2 DEF TypeOK
      <4> QED
        BY <1>5, <1>6, <2>3, <2>4, <3>2, <4>1 DEF Held
    <3> QED
      BY <3>1, <3>2 DEF Held
  <2> QED
    BY <2>5, <2>7, <2>8, NothingIsLostHeld DEF TInv
<1> QED
  BY <1>7, <1>8

LEMMA RemoveItemKeepsTInv ==
  ASSUME TInv, NEW entry \in Entry, NEW item \in Item, RemoveItem(entry, item)
  PROVE  TInv'
<1>1. TypeOK /\ Held(given, Here, items) /\ Here' = Here /\ UNCHANGED <<root, tops>>
  BY NothingIsLostHeld DEF TInv, RemoveItem, Here
<1>2. items[entry] \in Seq(Item) /\ entry \in Here /\ item \in ToSet(items[entry])
  <2>1. <<entry, item>> \in Present
    BY DEF RemoveItem
  <2> QED
    BY <1>1, <2>1 DEF Present, TypeOK
<1> DEFINE rest == RemoveFirst(items[entry], item)
<1>3. rest \in Seq(Item) /\ ToSet(items[entry]) \ {item} \subseteq ToSet(rest)
  BY <1>2, IndexIsFirst, Removed, RemovedKeeps
<1>4. items' = [items EXCEPT ![entry] = rest] /\ given' = given \ {<<entry, item>>}
  BY DEF RemoveItem
<1> HIDE DEF rest
<1>5. TypeOK'
  BY <1>1, <1>3, <1>4 DEF TypeOK
<1>6. RootReachesTheTree'
  BY <1>1, <1>2, <1>4 DEF TInv, RootReachesTheTree, TypeOK
<1>7. Held(given', Here', items')
  BY <1>1, <1>3, <1>4 DEF Held, TypeOK
<1> QED
  BY <1>5, <1>6, <1>7, NothingIsLostHeld DEF TInv

\* Where the instances of a list begin and end.
LEMMA EndIsThere ==
  ASSUME TypeOK, NEW at, at \subseteq 1 .. Len(tops), at # {}, NEW end \in Ends
  PROVE  \E k \in at : /\ EndOf(at, end) = tops[k]
                       /\ \A j \in at : IF end = "begin" THEN k <= j ELSE j <= k
<1>1. Len(tops) \in Nat
  BY TopsHere
<1>2. Min(at) \in at /\ \A j \in at : Min(at) <= j
  BY <1>1, MinIsLeast
<1>3. Max(at) \in at /\ \A j \in at : j <= Max(at)
  BY <1>1, MaxIsGreatest
<1> QED
  BY <1>2, <1>3 DEF EndOf, Ends

LEMMA EntryAtEnd ==
  ASSUME TypeOK, NEW entry \in Entry \cap Here, NEW end \in Ends
  PROVE  /\ EndOf(EntriesAt, end) \in Entry \cap Here
         /\ \A other \in (Entry \cap Here) \ {EndOf(EntriesAt, end)} :
              IF end = "begin" THEN Precedes(tops, EndOf(EntriesAt, end), other)
              ELSE Precedes(tops, other, EndOf(EntriesAt, end))
<1>1. /\ EntriesAt \subseteq 1 .. Len(tops)
      /\ \A k \in EntriesAt : tops[k] \in Entry \cap Here
      /\ \A other \in Entry \cap Here : \E k \in EntriesAt : tops[k] = other
  BY TopsHere DEF EntriesAt
<1>2. PICK k \in EntriesAt : /\ EndOf(EntriesAt, end) = tops[k]
                            /\ \A j \in EntriesAt : IF end = "begin" THEN k <= j ELSE j <= k
  BY <1>1, EndIsThere
<1>3. ASSUME NEW other \in (Entry \cap Here) \ {EndOf(EntriesAt, end)}
      PROVE  IF end = "begin" THEN Precedes(tops, EndOf(EntriesAt, end), other)
             ELSE Precedes(tops, other, EndOf(EntriesAt, end))
  <2>1. PICK j \in EntriesAt : tops[j] = other
    BY <1>1, <1>3
  <2>2. j # k
    BY <1>2, <1>3, <2>1
  <2>3. j \in 1 .. Len(tops) /\ k \in 1 .. Len(tops) /\ Len(tops) \in Nat /\ DOMAIN tops = 1 .. Len(tops)
    BY <1>1, TopsHere
  <2>4. IF end = "begin" THEN k < j ELSE j < k
    BY <1>2, <2>2, <2>3
  <2> QED
    BY <1>2, <2>1, <2>3, <2>4 DEF Precedes
<1> QED
  BY <1>1, <1>2, <1>3

LEMMA OwnerAtEnd ==
  ASSUME TypeOK, NEW entry \in Entry \cap Here, items[entry] # << >>, NEW end \in Ends
  PROVE  EndOf(OwnersAt, end) \in Entry \cap Here
<1>1. OwnersAt \subseteq 1 .. Len(tops) /\ \A k \in OwnersAt : tops[k] \in Entry \cap Here
  BY TopsHere DEF OwnersAt, EntriesAt
<1>2. OwnersAt # {}
  BY TopsHere DEF OwnersAt, EntriesAt
<1>3. PICK k \in OwnersAt : EndOf(OwnersAt, end) = tops[k]
  BY <1>1, <1>2, EndIsThere
<1> QED
  BY <1>1, <1>3

LEMMA FirstIsHere ==
  ASSUME NEW seq \in Seq(Top), NEW top \in ToSet(seq)
  PROVE  seq[1] \in ToSet(seq)
BY InToSet

\* Next to another one or to an end of the list.
LEMMA MovedKeepsTInv ==
  ASSUME TInv, NEW x \in Here, NEW y \in Here, x # y, NEW side \in Sides,
         tops' = NextTo(tops, x, y, side), root' \in {root, tops'[1]}, UNCHANGED <<items, given>>
  PROVE  TInv'
<1>1. /\ TypeOK /\ IsInjective(tops) /\ Held(given, Here, items) /\ tops \in Seq(Top)
      /\ root \in Here
  BY NothingIsLostHeld, TopsHere DEF TInv, RootReachesTheTree, TypeOK
<1>2. tops' \in Seq(Top) /\ Here' = Here /\ IsInjective(tops')
  BY <1>1, NextToKeeps DEF Here
<1>3. root' \in Here'
  BY <1>1, <1>2, FirstIsHere DEF Here
<1>4. TypeOK'
  BY <1>1, <1>2, <1>3, TopsHere DEF TypeOK
<1>5. tops' # << >>
  <2>1. ToSet(<< >>) = {}
    BY DEF ToSet
  <2> QED
    BY <1>2, <2>1 DEF Here
<1>6. RootReachesTheTree'
  BY <1>2, <1>3, <1>5 DEF TInv, RootReachesTheTree
<1>7. Held(given', Here', items')
  BY <1>1, <1>2
<1> QED
  BY <1>4, <1>6, <1>7, NothingIsLostHeld DEF TInv

LEMMA SidesOfEnds ==
  \A end : (IF end = "begin" THEN "before" ELSE "after") \in Sides
BY DEF Sides

LEMMA MovesKeepTInv ==
  ASSUME TInv, NEW entry \in Entry, Moves(entry)
  PROVE  TInv'
<1>1. ASSUME NEW end \in Ends, MoveEntryToEnd(entry, end) PROVE TInv'
  <2> DEFINE other == EndOf(EntriesAt, end)
             side == IF end = "begin" THEN "before" ELSE "after"
  <2>1. TypeOK /\ entry \in Here /\ UNCHANGED <<items, given>>
    BY <1>1 DEF TInv, MoveEntryToEnd
  <2>2. other \in Here /\ side \in Sides
    BY <2>1, EntryAtEnd, SidesOfEnds
  <2>3. CASE other = entry
    <3>1. UNCHANGED <<root, tops>>
      BY <1>1, <2>3 DEF MoveEntryToEnd
    <3> QED
      BY <2>1, <3>1 DEF TInv, TypeOK, RootReachesTheTree, NothingIsLost, Present, Here
  <2>4. CASE other # entry
    <3>1. tops' = NextTo(tops, entry, other, side) /\ root' = tops'[1]
      BY <1>1, <2>4 DEF MoveEntryToEnd
    <3> HIDE DEF other, side
    <3> QED
      BY <2>1, <2>2, <2>4, <3>1, MovedKeepsTInv
  <2> QED
    BY <2>3, <2>4
<1>2. ASSUME NEW other \in Entry, NEW side \in Sides, MoveEntryNextTo(entry, other, side) PROVE TInv'
  BY <1>2, MovedKeepsTInv DEF MoveEntryNextTo
<1> QED
  BY <1>1, <1>2 DEF Moves

LEMMA MoveItemToEndKeepsTInv ==
  ASSUME TInv, NEW entry \in Entry, NEW item \in Item, NEW end \in Ends,
         MoveItemToEnd(entry, item, end)
  PROVE  TInv'
<1> DEFINE owner == EndOf(OwnersAt, end)
           at == IndexOf(items[entry], item)
           less == RemoveAt(items[entry], at)
           rest == [items EXCEPT ![entry] = less]
           more == AtEnd(rest[owner], item, end)
<1>1. TypeOK /\ Held(given, Here, items) /\ Here' = Here /\ UNCHANGED <<tops, status>>
  BY NothingIsLostHeld DEF TInv, MoveItemToEnd, Here
<1>2. items[entry] \in Seq(Item) /\ entry \in Here /\ item \in ToSet(items[entry])
  <2>1. <<entry, item>> \in Present
    BY DEF MoveItemToEnd
  <2> QED
    BY <1>1, <2>1 DEF Present, TypeOK
<1>3. owner \in Entry \cap Here
  <2>1. items[entry] # << >>
    BY <1>2 DEF ToSet
  <2> QED
    BY <1>1, <1>2, <2>1, OwnerAtEnd
<1>4. less \in Seq(Item) /\ ToSet(items[entry]) \ {item} \subseteq ToSet(less)
  <2>1. at \in 1 .. Len(items[entry]) /\ items[entry][at] = item
    BY <1>2, IndexIsFirst
  <2> HIDE DEF at
  <2> QED
    BY <1>2, <2>1, Removed, RemovedKeeps
<1>5. \/ UNCHANGED <<root, items, given>>
      \/ /\ items' = [rest EXCEPT ![owner] = more]
         /\ root' = tops[1]
         /\ given' = (given \ {<<entry, item>>}) \cup {<<owner, item>>}
  BY DEF MoveItemToEnd
<1>6. CASE UNCHANGED <<root, items, given>>
  BY <1>1, <1>6 DEF TInv, TypeOK, RootReachesTheTree, NothingIsLost, Present, Here
<1>7. CASE /\ items' = [rest EXCEPT ![owner] = more]
           /\ root' = tops[1]
           /\ given' = (given \ {<<entry, item>>}) \cup {<<owner, item>>}
  <2> HIDE DEF owner, less
  <2>1. rest \in [Entry -> Seq(Item)] /\ rest[entry] = less /\ \A e \in Entry \ {entry} : rest[e] = items[e]
    BY <1>1, <1>4 DEF TypeOK
  <2> HIDE DEF rest
  <2>2. more \in Seq(Item) /\ ToSet(more) = ToSet(rest[owner]) \cup {item}
    BY <1>3, <2>1, EndedKeeps
  <2> HIDE DEF more
  <2>3. /\ items' \in [Entry -> Seq(Item)] /\ items'[owner] = more
        /\ \A e \in Entry \ {owner} : items'[e] = rest[e]
    BY <1>3, <1>7, <2>1, <2>2
  <2>4. \A e \in Entry : \A i \in ToSet(items[e]) : <<e, i>> = <<entry, item>> \/ i \in ToSet(items'[e])
    BY <1>3, <1>4, <2>1, <2>2, <2>3
  <2>5. root' \in Here /\ tops # << >> /\ Here \subseteq Top
    BY <1>1, <1>2, <1>7, FirstIsHere, TopsHere DEF Here, TypeOK
  <2>6. TypeOK'
    BY <1>1, <1>3, <1>7, <2>3, <2>5 DEF TypeOK
  <2>7. RootReachesTheTree'
    <3>1. \A e \in Entry \ Here : items'[e] = << >>
      BY <1>2, <1>3, <2>1, <2>3 DEF TInv, RootReachesTheTree
    <3> QED
      BY <1>1, <2>5, <3>1 DEF TInv, RootReachesTheTree
  <2>8. Held(given', Here', items')
    <3>1. ASSUME NEW x, <<x>> \in given' PROVE x \in Here'
      <4>1. <<x>> # <<owner, item>>
        OBVIOUS
      <4> QED
        BY <1>1, <1>7, <3>1, <4>1 DEF Held
    <3>2. ASSUME NEW e, NEW i, <<e, i>> \in given' PROVE e \in Here' /\ i \in ToSet(items'[e])
      <4>1. CASE <<e, i>> = <<owner, item>>
        BY <1>1, <1>3, <2>2, <2>3, <4>1
      <4>2. CASE <<e, i>> # <<owner, item>>
        <5>1. <<e, i>> \in given /\ <<e, i>> # <<entry, item>>
          BY <1>7, <3>2, <4>2
        <5>2. e \in Entry /\ e \in Here /\ i \in ToSet(items[e])
          BY <1>1, <5>1 DEF Held, TypeOK
        <5> QED
          BY <1>1, <2>4, <5>1, <5>2
      <4> QED
        BY <4>1, <4>2
    <3> QED
      BY <3>1, <3>2 DEF Held
  <2> QED
    BY <2>6, <2>7, <2>8, NothingIsLostHeld DEF TInv
<1> QED
  BY <1>5, <1>6, <1>7

LEMMA MoveItemNextToKeepsTInv ==
  ASSUME TInv, NEW entry \in Entry, NEW item \in Item, NEW other \in Item, NEW side \in Sides,
         MoveItemNextTo(entry, item, other, side)
  PROVE  TInv'
<1> DEFINE moved == NextTo(items[entry], item, other, side)
<1>1. TypeOK /\ Held(given, Here, items) /\ Here' = Here /\ UNCHANGED <<root, tops, given>>
  BY NothingIsLostHeld DEF TInv, MoveItemNextTo, Here
<1>2. /\ items[entry] \in Seq(Item) /\ entry \in Here
      /\ item \in ToSet(items[entry]) /\ other \in ToSet(items[entry]) /\ item # other
  <2>1. <<entry, item>> \in Present /\ <<entry, other>> \in Present
    BY DEF MoveItemNextTo
  <2> QED
    BY <1>1, <2>1 DEF Present, TypeOK, MoveItemNextTo
<1>3. moved \in Seq(Item) /\ ToSet(moved) = ToSet(items[entry])
  BY <1>2, NextToKeeps
<1>4. items' = [items EXCEPT ![entry] = moved]
  BY DEF MoveItemNextTo
<1> HIDE DEF moved
<1>5. TypeOK'
  BY <1>1, <1>3, <1>4 DEF TypeOK
<1>6. RootReachesTheTree'
  BY <1>1, <1>2, <1>4 DEF TInv, RootReachesTheTree, TypeOK
<1>7. Held(given', Here', items')
  BY <1>1, <1>3, <1>4 DEF Held, TypeOK
<1> QED
  BY <1>5, <1>6, <1>7, NothingIsLostHeld DEF TInv

LEMMA CommitKeepsTInv ==
  ASSUME TInv, CommitChanges
  PROVE  TInv'
<1>1. /\ TypeOK /\ IsInjective(tops) /\ Held(given, Here, items) /\ UNCHANGED <<items, given>>
  BY NothingIsLostHeld DEF TInv, RootReachesTheTree, CommitChanges
<1>2. CASE root = None
  BY <1>1, <1>2 DEF CommitChanges, TInv, TypeOK, RootReachesTheTree, NothingIsLost, Present, Here
<1>3. CASE root # None
  <2>1. /\ tops' = tops \/ \E top \in Library : tops' \in WithTop(top)
        /\ root' \in ToSet(tops')
    BY <1>3 DEF CommitChanges
  <2>2. tops' \in Seq(Top) /\ IsInjective(tops') /\ Here \subseteq Here'
    <3>1. ASSUME NEW top \in Library, tops' \in WithTop(top)
          PROVE  tops' \in Seq(Top) /\ IsInjective(tops') /\ Here \subseteq Here'
      BY <1>1, <3>1, WithTopKeeps DEF Here, Top
    <3> QED
      BY <1>1, <2>1, <3>1 DEF Here, TypeOK
  <2>3. tops' # << >> /\ root' \in Here'
    BY <2>1 DEF Here, ToSet
  <2>4. TypeOK'
    BY <1>1, <2>2, <2>3, InToSet DEF TypeOK, Here
  <2>5. RootReachesTheTree'
    BY <1>1, <2>2, <2>3 DEF TInv, RootReachesTheTree
  <2>6. Held(given', Here', items')
    BY <1>1, <2>2 DEF Held
  <2> QED
    BY <2>4, <2>5, <2>6, NothingIsLostHeld DEF TInv
<1> QED
  BY <1>2, <1>3

LEMMA CopyKeepsTInv ==
  ASSUME TInv, NEW source, NEW destination, CopyConfig(source, destination)
  PROVE  TInv'
<1>1. CASE UNCHANGED <<root, tops, items, given>>
  BY <1>1 DEF TInv, TypeOK, RootReachesTheTree, NothingIsLost, Present, Here
<1>2. CASE root' = None /\ tops' = << >> /\ items' = [entry \in Entry |-> << >>] /\ given' = {}
  BY <1>2 DEF TInv, TypeOK, RootReachesTheTree, NothingIsLost, IsInjective
<1> QED
  BY <1>1, <1>2 DEF CopyConfig

LEMMA SameTreeKeepsTInv ==
  TInv /\ UNCHANGED <<root, tops, items, given>> => TInv'
BY DEF TInv, TypeOK, RootReachesTheTree, NothingIsLost, Present, Here

\* What a step of the datastore is, but for those that leave the tree as it is.
LEMMA StepsOfNext ==
  ASSUME Next
  PROVE  \/ \E top \in Plain \cup Entry : NewTop(top)
         \/ \E top \in Top : RemoveTop(top)
         \/ \E entry \in Entry : Moves(entry)
         \/ \E entry \in Entry, item \in Item :
              \/ NewItem(entry, item)
              \/ RemoveItem(entry, item)
              \/ \E end \in Ends : MoveItemToEnd(entry, item, end)
              \/ \E other \in Item, side \in Sides : MoveItemNextTo(entry, item, other, side)
         \/ CommitChanges
         \/ \E source, destination : CopyConfig(source, destination)
         \/ UNCHANGED <<root, tops, items, given>>
<1>1. CASE OnEntries
  BY <1>1 DEF OnEntries, MoveNextToNothing
<1>2. CASE OnItems
  BY <1>2 DEF OnItems, MoveNextToNothing
<1>3. CASE \E path \in Paths : RemoveThrows(path) \/ MoveThrows(path, path)
  BY <1>3 DEF RemoveThrows, MoveThrows, vars
<1>4. CASE DiscardChanges
  BY <1>4 DEF DiscardChanges, vars
<1> QED
  BY <1>1, <1>2, <1>3, <1>4 DEF Next

LEMMA StepKeepsTInv == TInv /\ [Next]_vars => TInv'
<1> SUFFICES ASSUME TInv, [Next]_vars PROVE TInv'
  OBVIOUS
<1>1. CASE UNCHANGED vars
  BY <1>1, SameTreeKeepsTInv DEF vars
<1>2. CASE Next
  <2>1. ASSUME NEW entry \in Entry, NEW item \in Item,
               \/ NewItem(entry, item)
               \/ RemoveItem(entry, item)
               \/ \E end \in Ends : MoveItemToEnd(entry, item, end)
               \/ \E other \in Item, side \in Sides : MoveItemNextTo(entry, item, other, side)
        PROVE  TInv'
    BY <2>1, NewItemKeepsTInv, RemoveItemKeepsTInv, MoveItemToEndKeepsTInv, MoveItemNextToKeepsTInv
  <2> QED
    BY <1>2, <2>1, StepsOfNext, NewTopKeepsTInv, RemoveTopKeepsTInv, MovesKeepTInv,
       CommitKeepsTInv, CopyKeepsTInv, SameTreeKeepsTInv
<1> QED
  BY <1>1, <1>2

LEMMA SpecKeepsTInv == Spec => []TInv
BY InitTInv, StepKeepsTInv, PTL DEF Spec

-----------------------------------------------------------------------------
(***************************************************************************)
(* The properties                                                          *)
(***************************************************************************)

\* impl_newPath, impl_unlink and moveItem: m_datastore points to a node of the tree, and
\* is empty only when the tree is, for every list of every length.
THEOREM DatastoreRootReachesTheTree == Spec => []RootReachesTheTree
<1>1. TInv => RootReachesTheTree
  BY DEF TInv
<1> QED
  BY <1>1, SpecKeepsTInv, PTL

\* Whatever is removed, moved and validated, nothing that was entered is freed: the
\* sibling impl_unlink leaves m_datastore at, or its giving up, loses no one else's node.
THEOREM DatastoreNothingIsLost == Spec => []NothingIsLost
<1>1. TInv => NothingIsLost
  BY DEF TInv
<1> QED
  BY <1>1, SpecKeepsTInv, PTL

\* Operations that add or remove top-level nodes.
LEMMA OthersKeepOrder ==
  ASSUME TInv, NEW x \in Entry, NEW y \in Entry, Precedes(tops, x, y),
         x \in ToSet(tops'), y \in ToSet(tops'),
         \/ \E top \in Top : tops' \in WithTop(top)
         \/ \E top \in Top : RemoveTop(top)
         \/ tops' = << >>
         \/ tops' = tops
  PROVE  Precedes(tops', x, y)
<1>1. TypeOK /\ IsInjective(tops) /\ tops \in Seq(Top)
  BY DEF TInv, RootReachesTheTree, TypeOK
<1>2. tops' # << >>
  BY DEF ToSet
<1>3. ASSUME NEW top \in Top, RemoveTop(top) PROVE Precedes(tops', x, y)
  <2>1. top \in ToSet(tops) /\ tops' = RemoveFirst(tops, top)
    BY <1>2, <1>3 DEF RemoveTop, Unlink, Here
  <2> DEFINE at == IndexOf(tops, top)
  <2>2. at \in 1 .. Len(tops) /\ tops[at] = top /\ tops' = RemoveAt(tops, at)
    BY <1>1, <2>1, IndexIsFirst
  <2> HIDE DEF at
  <2>3. top \notin ToSet(tops')
    BY <1>1, <2>2, RemovedKeeps
  <2> QED
    BY <1>1, <2>2, <2>3, RemovedKeeps
<1> QED
  BY <1>1, <1>2, <1>3, WithTopKeeps

LEMMA MovesKeepOrder ==
  ASSUME TInv, NEW entry \in Entry, Moves(entry),
         NEW x, NEW y, Precedes(tops, x, y), entry # x, entry # y
  PROVE  Precedes(tops', x, y)
<1>1. TypeOK /\ IsInjective(tops) /\ tops \in Seq(Top)
  BY DEF TInv, RootReachesTheTree, TypeOK
<1>2. ASSUME NEW end \in Ends, MoveEntryToEnd(entry, end) PROVE Precedes(tops', x, y)
  <2> DEFINE other == EndOf(EntriesAt, end)
             side == IF end = "begin" THEN "before" ELSE "after"
  <2>1. entry \in Here /\ (tops' = tops \/ (entry # other /\ tops' = NextTo(tops, entry, other, side)))
    BY <1>2 DEF MoveEntryToEnd
  <2>2. other \in Here /\ side \in Sides
    BY <1>1, <2>1, EntryAtEnd, SidesOfEnds
  <2> HIDE DEF other, side
  <2> QED
    BY <1>1, <2>1, <2>2, NextToKeeps DEF Here
<1>3. ASSUME NEW other \in Entry, NEW side \in Sides, MoveEntryNextTo(entry, other, side)
      PROVE  Precedes(tops', x, y)
  BY <1>1, <1>3, NextToKeeps DEF MoveEntryNextTo, Here
<1> QED
  BY <1>2, <1>3 DEF Moves

\* An entry moved to an end stands before, or after, all the others.
LEMMA EndIsReached ==
  ASSUME TInv, NEW entry \in Entry, NEW end \in Ends, NEW other \in Entry,
         MoveEntryToEnd(entry, end), other \in ToSet(tops') \ {entry}
  PROVE  IF end = "begin" THEN Precedes(tops', entry, other) ELSE Precedes(tops', other, entry)
<1> DEFINE edge == EndOf(EntriesAt, end)
           side == IF end = "begin" THEN "before" ELSE "after"
<1>1. TypeOK /\ IsInjective(tops) /\ tops \in Seq(Top) /\ entry \in Here
  BY DEF TInv, RootReachesTheTree, TypeOK, MoveEntryToEnd
<1>2. /\ edge \in Entry \cap Here
      /\ \A z \in (Entry \cap Here) \ {edge} :
           IF end = "begin" THEN Precedes(tops, edge, z) ELSE Precedes(tops, z, edge)
  BY <1>1, EntryAtEnd
<1>3. CASE edge = entry
  <2>1. tops' = tops
    BY <1>3 DEF MoveEntryToEnd
  <2> QED
    BY <1>2, <1>3, <2>1 DEF Here
<1>4. CASE edge # entry
  <2>1. tops' = NextTo(tops, entry, edge, side) /\ side \in Sides
    BY <1>4, SidesOfEnds DEF MoveEntryToEnd
  <2>2. (end = "begin" /\ side = "before") \/ (end = "end" /\ side = "after")
    BY DEF Ends
  <2> HIDE DEF edge, side
  <2>3. ToSet(tops') = Here
    BY <1>1, <1>2, <1>4, <2>1, NextToKeeps DEF Here
  <2>4. other = edge \/ IF end = "begin" THEN Precedes(tops, edge, other) ELSE Precedes(tops, other, edge)
    BY <1>2, <2>3
  <2>5. CASE end = "begin" /\ side = "before"
    BY <1>1, <1>2, <1>4, <2>1, <2>4, <2>5, NextToKeeps DEF Here
  <2>6. CASE end = "end" /\ side = "after"
    BY <1>1, <1>2, <1>4, <2>1, <2>4, <2>6, NextToKeeps DEF Here
  <2> QED
    BY <2>2, <2>5, <2>6
<1> QED
  BY <1>3, <1>4

\* moveItem, for lists of every length among nodes of every kind: only what is moved
\* changes its place among the entries, and an end is an end.
THEOREM DatastoreOrderIsKept == Spec => OrderIsKept
<1> DEFINE Kept ==
      /\ \A x, y \in Entry :
           Precedes(tops, x, y) /\ {x, y} \subseteq ToSet(tops') =>
             Moves(x) \/ Moves(y) \/ Precedes(tops', x, y)
      /\ \A entry \in Entry, end \in Ends, other \in Entry :
           MoveEntryToEnd(entry, end) /\ other \in ToSet(tops') \ {entry} =>
             IF end = "begin" THEN Precedes(tops', entry, other)
             ELSE Precedes(tops', other, entry)
<1>1. TInv /\ [Next]_vars => [Kept]_vars
  <2> SUFFICES ASSUME TInv, Next PROVE Kept
    OBVIOUS
  <2>1. ASSUME NEW x \in Entry, NEW y \in Entry, Precedes(tops, x, y), {x, y} \subseteq ToSet(tops')
        PROVE  Moves(x) \/ Moves(y) \/ Precedes(tops', x, y)
    <3>1. CASE \E entry \in Entry : Moves(entry)
      BY <2>1, <3>1, MovesKeepOrder
    <3>2. CASE \/ \E top \in Top : tops' \in WithTop(top)
               \/ \E top \in Top : RemoveTop(top)
               \/ tops' = << >>
               \/ tops' = tops
      BY <2>1, <3>2, OthersKeepOrder
    <3>3. \A entry \in Entry, item \in Item :
            /\ NewItem(entry, item) => entry \in Top /\ tops' \in WithTop(entry)
            /\ RemoveItem(entry, item) => tops' = tops
            /\ \A end : MoveItemToEnd(entry, item, end) => tops' = tops
            /\ \A other, side : MoveItemNextTo(entry, item, other, side) => tops' = tops
      BY DEF NewItem, RemoveItem, MoveItemToEnd, MoveItemNextTo, Top
    <3>4. \A top \in Plain \cup Entry : NewTop(top) => top \in Top /\ tops' \in WithTop(top)
      BY DEF NewTop, Top
    <3>5. CommitChanges => tops' = tops \/ \E top \in Top : tops' \in WithTop(top)
      BY DEF CommitChanges, Top
    <3>6. \A source, destination : CopyConfig(source, destination) => tops' = tops \/ tops' = << >>
      BY DEF CopyConfig
    <3> QED
      BY <3>1, <3>2, <3>3, <3>4, <3>5, <3>6, StepsOfNext
  <2> QED
    BY <2>1, EndIsReached
<1> QED
  BY <1>1, SpecKeepsTInv, PTL DEF Spec, OrderIsKept

=============================================================================
