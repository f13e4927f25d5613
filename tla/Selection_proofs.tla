---------------------------- MODULE Selection_proofs ----------------------------
(***************************************************************************)
(* What Select returns, for every list.                                    *)
(*                                                                         *)
(* The library's rules of induction take the property as an operator,      *)
(* which no prover here can instantiate.  The rules below take it as the   *)
(* set of what has it, and rest on the well-foundedness of < alone.        *)
(***************************************************************************)
EXTENDS Selection, TLAPS, SequenceTheorems, FiniteSets, FiniteSetTheorems,
        WellFoundedInduction

-------------------------------------------------------------------------------
(* Induction *)

LEMMA NatInduction1 ==
    ASSUME NEW T, T \subseteq Nat, 0 \in T, \A n \in T : n + 1 \in T
    PROVE  T = Nat
<1> DEFINE Rest == Nat \ T
           Below == OpToRel(<, Nat)
<1> SUFFICES ASSUME Rest # {} PROVE FALSE
  OBVIOUS
<1>1. \A x, y \in Nat : x < y => <<x, y>> \in Below
  BY DEF OpToRel
<1>2. IsWellFoundedOn(Below, Nat)
  BY NatLessThanWellFounded
<1>3. Rest \subseteq Nat
  OBVIOUS
<1> HIDE DEF Below, Rest
<1>4. PICK x \in Rest : \A y \in Rest : ~(<<y, x>> \in Below)
  BY <1>2, <1>3, WFMin
<1>5. x \in Nat /\ x # 0
  BY DEF Rest
<1>6. x - 1 \in Rest
  BY <1>5 DEF Rest
<1>7. <<x - 1, x>> \in Below
  BY <1>1, <1>5
<1> QED
  BY <1>4, <1>6, <1>7

\* A list is empty, or a shorter one with an element appended.
LEMMA ListInduction ==
    ASSUME NEW S, NEW T, T \subseteq Seq(S),
           <<>> \in T,
           \A s \in T, e \in S : Append(s, e) \in T
    PROVE  T = Seq(S)
<1> DEFINE Done == {n \in Nat : \A s \in Seq(S) : Len(s) = n => s \in T}
<1>1. 0 \in Done
  BY EmptySeq
<1>2. ASSUME NEW n \in Done
      PROVE  n + 1 \in Done
  <2> SUFFICES ASSUME NEW s \in Seq(S), Len(s) = n + 1
               PROVE  s \in T
    OBVIOUS
  <2>1. s # <<>>
    OBVIOUS
  <2>2. PICK front \in Seq(S), e \in S : s = Append(front, e)
    BY <2>1, SequenceEmptyOrAppend
  <2>3. Len(front) = n
    BY <2>2, AppendProperties
  <2> QED
    BY <2>2, <2>3
<1>3. Done = Nat
  <2> HIDE DEF Done
  <2>1. Done \subseteq Nat
    BY DEF Done
  <2> QED
    BY <1>1, <1>2, <2>1, NatInduction1
<1> QED
  BY <1>3, LenProperties

-------------------------------------------------------------------------------
(* Finite sets of numbers *)

LEMMA FiniteSetHasMax ==
    ASSUME NEW S, S \subseteq Nat, IsFiniteSet(S), S # {}
    PROVE  \E m \in S : \A x \in S : x <= m
<1> DEFINE HasMax(R) == R # {} => \E m \in R : \A x \in R : x <= m
           Done == {n \in Nat : \A R \in SUBSET Nat :
                                  IsFiniteSet(R) /\ Cardinality(R) = n => HasMax(R)}
<1>1. 0 \in Done
  BY FS_EmptySet
<1>2. ASSUME NEW n \in Done
      PROVE  n + 1 \in Done
  <2> SUFFICES ASSUME NEW R \in SUBSET Nat, IsFiniteSet(R), Cardinality(R) = n + 1, R # {}
               PROVE  \E m \in R : \A x \in R : x <= m
    OBVIOUS
  <2>1. PICK e : e \in R
    OBVIOUS
  <2> DEFINE Rest == R \ {e}
  <2>2. IsFiniteSet(Rest) /\ Cardinality(Rest) = n /\ Rest \in SUBSET Nat
    <3>1. IsFiniteSet(Rest) /\ Cardinality(Rest) = Cardinality(R) - 1
      BY <2>1, FS_RemoveElement
    <3>2. n \in Nat
      OBVIOUS
    <3>3. Cardinality(Rest) = n
      BY <3>1, <3>2
    <3> QED
      BY <3>1, <3>3
  <2> HIDE DEF Rest
  <2>3. HasMax(Rest)
    BY <2>2
  <2>4. CASE Rest = {}
    <3>1. R = {e}
      BY <2>1, <2>4 DEF Rest
    <3> QED
      BY <2>1, <3>1
  <2>5. CASE Rest # {}
    <3>1. PICK m \in Rest : \A x \in Rest : x <= m
      BY <2>3, <2>5
    <3>2. m \in Nat /\ e \in Nat /\ m \in R
      BY <2>1, <2>2, <3>1 DEF Rest
    <3>3. \A x \in R : x \in Nat /\ (x = e \/ x <= m)
      BY <3>1 DEF Rest
    <3>4. CASE e <= m
      BY <3>2, <3>3, <3>4
    <3>5. CASE ~(e <= m)
      BY <2>1, <3>2, <3>3, <3>5
    <3> QED
      BY <3>4, <3>5
  <2> QED
    BY <2>4, <2>5
<1>3. Done = Nat
  <2>1. Done \subseteq Nat
    OBVIOUS
  <2> HIDE DEF Done
  <2> QED
    BY <1>1, <1>2, <2>1, NatInduction1
<1>4. Cardinality(S) \in Nat
  BY FS_CardinalityType
<1> QED
  BY <1>3, <1>4

-------------------------------------------------------------------------------
(* The recursion is well defined *)

\* f[n] is what Select makes of the first n elements.
IsSelection(f, list, kept) ==
    f = [n \in 0..Len(list) |->
            IF n = 0 THEN <<>>
            ELSE IF list[n] \in kept THEN Append(f[n - 1], list[n]) ELSE f[n - 1]]

LEMMA SelectionStep ==
    ASSUME NEW S, NEW list \in Seq(S), NEW kept, NEW f, IsSelection(f, list, kept)
    PROVE  /\ f[0] = <<>>
           /\ \A n \in 1..Len(list) :
                f[n] = IF list[n] \in kept THEN Append(f[n - 1], list[n]) ELSE f[n - 1]
<1> DEFINE body(n) == IF n = 0 THEN <<>>
                      ELSE IF list[n] \in kept THEN Append(f[n - 1], list[n]) ELSE f[n - 1]
<1>1. f = [n \in 0..Len(list) |-> body(n)]
  BY DEF IsSelection
<1> HIDE DEF body
<1>2. \A n \in 0..Len(list) : f[n] = body(n)
  BY <1>1, Zenon
<1>3. f[0] = body(0)
  BY <1>2
<1>4. \A n \in 1..Len(list) : f[n] = body(n)
  BY <1>2
<1> QED
  BY <1>3, <1>4 DEF body

LEMMA SelectionStart ==
    ASSUME NEW S, NEW list \in Seq(S), NEW kept, NEW f, IsSelection(f, list, kept)
    PROVE  f[0] = <<>>
BY SelectionStep

\* A selection of a list is the start of each selection of a longer one.
LEMMA SelectionsAgree ==
    ASSUME NEW S, NEW list \in Seq(S), NEW long \in Seq(S), NEW kept,
           Len(long) = Len(list) + 1, \A n \in 1..Len(list) : long[n] = list[n],
           NEW f, IsSelection(f, list, kept),
           NEW g, IsSelection(g, long, kept)
    PROVE  \A n \in 0..Len(list) : g[n] = f[n]
<1> DEFINE Same == {n \in Nat : n <= Len(list) => g[n] = f[n]}
<1>1. Len(list) \in Nat
  OBVIOUS
<1>2. /\ f[0] = <<>>
      /\ \A n \in 1..Len(list) :
           f[n] = IF list[n] \in kept THEN Append(f[n - 1], list[n]) ELSE f[n - 1]
  BY SelectionStep
<1>3. /\ g[0] = <<>>
      /\ \A n \in 1..Len(long) :
           g[n] = IF long[n] \in kept THEN Append(g[n - 1], long[n]) ELSE g[n - 1]
  BY SelectionStep
<1>4. ASSUME NEW n \in Same
      PROVE  n + 1 \in Same
  <2> SUFFICES ASSUME n + 1 <= Len(list)
               PROVE  g[n + 1] = f[n + 1]
    OBVIOUS
  <2>1. n \in Nat /\ g[n] = f[n]
    BY <1>1
  <2>2. n + 1 \in 1..Len(list) /\ n + 1 \in 1..Len(long) /\ (n + 1) - 1 = n
    BY <1>1, <2>1
  <2>3. f[n + 1] = IF list[n + 1] \in kept THEN Append(f[n], list[n + 1]) ELSE f[n]
    BY <1>2, <2>2
  <2>4. g[n + 1] = IF list[n + 1] \in kept THEN Append(g[n], list[n + 1]) ELSE g[n]
    BY <1>3, <2>2
  <2> QED
    BY <2>1, <2>3, <2>4
<1>5. Same = Nat
  <2>1. 0 \in Same /\ Same \subseteq Nat
    BY <1>2, <1>3
  <2> HIDE DEF Same
  <2> QED
    BY <1>4, <2>1, NatInduction1
<1> QED
  BY <1>1, <1>5

LEMMA SelectionExists ==
    ASSUME NEW S, NEW list \in Seq(S), NEW kept
    PROVE  \E f : IsSelection(f, list, kept)
<1> DEFINE Good == {s \in Seq(S) : \E f : IsSelection(f, s, kept)}
<1>1. <<>> \in Good
  <2>1. IsSelection([n \in 0..0 |-> <<>>], <<>>, kept)
    BY EmptySeq DEF IsSelection
  <2> QED
    BY <2>1, EmptySeq
<1>2. ASSUME NEW s \in Good, NEW e \in S
      PROVE  Append(s, e) \in Good
  <2>1. PICK f : IsSelection(f, s, kept)
    OBVIOUS
  <2>2. /\ Len(s) \in Nat /\ Append(s, e) \in Seq(S) /\ Len(Append(s, e)) = Len(s) + 1
        /\ \A n \in 1..Len(s) : Append(s, e)[n] = s[n]
        /\ Append(s, e)[Len(s) + 1] = e
    BY AppendProperties, LenProperties
  <2>3. /\ f[0] = <<>>
        /\ \A n \in 1..Len(s) :
             f[n] = IF s[n] \in kept THEN Append(f[n - 1], s[n]) ELSE f[n - 1]
    BY <2>1, <2>2, SelectionStep
  <2> DEFINE g == [n \in 0..(Len(s) + 1) |->
                     IF n <= Len(s) THEN f[n]
                     ELSE IF e \in kept THEN Append(f[Len(s)], e) ELSE f[Len(s)]]
             body(n) == IF n = 0 THEN <<>>
                        ELSE IF Append(s, e)[n] \in kept
                             THEN Append(g[n - 1], Append(s, e)[n]) ELSE g[n - 1]
  <2>4. ASSUME NEW n \in 0..(Len(s) + 1)
        PROVE  g[n] = body(n)
    <3>1. CASE n = 0
      BY <2>2, <2>3, <3>1
    <3>2. CASE n \in 1..Len(s)
      BY <2>2, <2>3, <3>2
    <3>3. CASE n = Len(s) + 1
      BY <2>2, <3>3
    <3> QED
      BY <2>2, <3>1, <3>2, <3>3
  <2>5. g = [n \in 0..(Len(s) + 1) |-> body(n)]
    BY <2>4
  <2>6. IsSelection(g, Append(s, e), kept)
    BY <2>2, <2>5 DEF IsSelection
  <2> QED
    BY <2>2, <2>6
<1>3. Good = Seq(S)
  <2>1. Good \subseteq Seq(S)
    OBVIOUS
  <2> HIDE DEF Good
  <2> QED
    BY <1>1, <1>2, <2>1, ListInduction
<1> QED
  BY <1>3

LEMMA SelectDef ==
    ASSUME NEW S, NEW list \in Seq(S), NEW kept
    PROVE  \E f : IsSelection(f, list, kept) /\ Select(list, kept) = f[Len(list)]
<1>1. Select(list, kept) = (CHOOSE f : IsSelection(f, list, kept))[Len(list)]
  BY DEF Select, IsSelection
<1>2. IsSelection(CHOOSE f : IsSelection(f, list, kept), list, kept)
  BY SelectionExists
<1> QED
  BY <1>1, <1>2

-------------------------------------------------------------------------------
(* The two equations *)

LEMMA SelectEmpty ==
    ASSUME NEW kept
    PROVE  Select(<<>>, kept) = <<>>
<1> DEFINE none == <<>>
           Any == {}
<1>1. none \in Seq(Any) /\ Len(none) = 0
  BY EmptySeq
<1> HIDE DEF none, Any
<1>2. PICK f : IsSelection(f, none, kept) /\ Select(none, kept) = f[Len(none)]
  BY <1>1, SelectDef
<1>3. IsSelection(f, none, kept)
  BY <1>2
<1>4. f[0] = <<>>
  BY <1>1, <1>3, SelectionStart
<1> QED
  BY <1>1, <1>2, <1>4 DEF none

LEMMA SelectAppend ==
    ASSUME NEW S, NEW list \in Seq(S), NEW e \in S, NEW kept
    PROVE  Select(Append(list, e), kept) =
             IF e \in kept THEN Append(Select(list, kept), e) ELSE Select(list, kept)
<1>1. /\ Len(list) \in Nat /\ Append(list, e) \in Seq(S)
      /\ Len(Append(list, e)) = Len(list) + 1
      /\ Append(list, e)[Len(list) + 1] = e
  BY AppendProperties, LenProperties
<1>2. PICK f : IsSelection(f, list, kept) /\ Select(list, kept) = f[Len(list)]
  BY SelectDef
<1>3. PICK g : /\ IsSelection(g, Append(list, e), kept)
               /\ Select(Append(list, e), kept) = g[Len(Append(list, e))]
  BY <1>1, SelectDef
<1> DEFINE long == Append(list, e)
<1> HIDE DEF long
<1>4. /\ long \in Seq(S) /\ Len(long) = Len(list) + 1 /\ long[Len(list) + 1] = e
      /\ IsSelection(g, long, kept)
  BY <1>1, <1>3 DEF long
<1>5. g[Len(list)] = f[Len(list)]
  <2>1. \A n \in 1..Len(list) : long[n] = list[n]
    BY AppendProperties DEF long
  <2>2. IsSelection(f, list, kept) /\ IsSelection(g, long, kept)
    BY <1>2, <1>4
  <2>3. long \in Seq(S) /\ Len(long) = Len(list) + 1
    BY <1>4
  <2>4. \A n \in 0..Len(list) : g[n] = f[n]
    BY <2>1, <2>2, <2>3, SelectionsAgree
  <2> QED
    BY <1>1, <2>4
<1>6. g[Len(list) + 1] = IF e \in kept THEN Append(g[Len(list)], e) ELSE g[Len(list)]
  <2>1. \A n \in 1..Len(long) :
           g[n] = IF long[n] \in kept THEN Append(g[n - 1], long[n]) ELSE g[n - 1]
    BY <1>4, SelectionStep
  <2>2. Len(list) + 1 \in 1..Len(long) /\ (Len(list) + 1) - 1 = Len(list)
    BY <1>1, <1>4
  <2> QED
    BY <1>4, <2>1, <2>2
<1> QED
  BY <1>1, <1>2, <1>3, <1>5, <1>6

-------------------------------------------------------------------------------
(* What is selected *)

LEMMA ElementsEmpty == Elements(<<>>) = {}
BY DEF Elements

LEMMA ElementsAppend ==
    ASSUME NEW S, NEW list \in Seq(S), NEW e \in S
    PROVE  Elements(Append(list, e)) = Elements(list) \union {e}
<1> DEFINE long == Append(list, e)
<1>1. /\ DOMAIN long = 1..(Len(list) + 1) /\ DOMAIN list = 1..Len(list) /\ Len(list) \in Nat
      /\ \A i \in 1..Len(list) : long[i] = list[i]
      /\ long[Len(list) + 1] = e
  BY AppendProperties, LenProperties
<1> HIDE DEF long
<1>2. Elements(long) = Elements(list) \union {e}
  <2>1. ASSUME NEW x \in Elements(long)
        PROVE  x \in Elements(list) \union {e}
    <3>1. PICK i \in 1..(Len(list) + 1) : x = long[i]
      BY <1>1 DEF Elements
    <3>2. CASE i = Len(list) + 1
      BY <1>1, <3>1, <3>2
    <3>3. CASE i \in 1..Len(list)
      BY <1>1, <3>1, <3>3 DEF Elements
    <3> QED
      BY <1>1, <3>2, <3>3
  <2>2. ASSUME NEW x \in Elements(list)
        PROVE  x \in Elements(long)
    <3>1. PICK i \in 1..Len(list) : x = list[i]
      BY <1>1 DEF Elements
    <3>2. i \in 1..(Len(list) + 1) /\ long[i] = x
      BY <1>1, <3>1
    <3> QED
      BY <1>1, <3>2 DEF Elements
  <2>3. e \in Elements(long)
    <3>1. Len(list) + 1 \in DOMAIN long
      BY <1>1
    <3> QED
      BY <1>1, <3>1 DEF Elements
  <2> QED
    BY <2>1, <2>2, <2>3
<1> QED
  BY <1>2 DEF long

LEMMA ElementsType ==
    ASSUME NEW S, NEW list \in Seq(S)
    PROVE  Elements(list) \subseteq S
BY DEF Elements

\* It is a list of what passes the test, and no longer than the one it is from.
LEMMA SelectType ==
    ASSUME NEW S, NEW list \in Seq(S), NEW kept
    PROVE  /\ Select(list, kept) \in Seq(S \intersect kept)
           /\ Select(list, kept) \in Seq(S)
           /\ Len(Select(list, kept)) <= Len(list)
<1> DEFINE Good == {s \in Seq(S) : /\ Select(s, kept) \in Seq(S \intersect kept)
                                   /\ Len(Select(s, kept)) <= Len(s)}
<1>1. <<>> \in Good
  <2>1. <<>> \in Seq(S) /\ <<>> \in Seq(S \intersect kept) /\ Len(<<>>) = 0
    BY EmptySeq
  <2>2. Select(<<>>, kept) = <<>>
    BY SelectEmpty
  <2>3. Len(Select(<<>>, kept)) <= Len(<<>>)
    BY <2>1, <2>2
  <2>4. Select(<<>>, kept) \in Seq(S \intersect kept)
    BY <2>1, <2>2
  <2> QED
    BY <2>1, <2>3, <2>4, Zenon
<1>2. ASSUME NEW s \in Good, NEW e \in S
      PROVE  Append(s, e) \in Good
  <2>1. /\ Append(s, e) \in Seq(S) /\ Len(Append(s, e)) = Len(s) + 1
        /\ Len(s) \in Nat /\ Len(Select(s, kept)) \in Nat
    BY AppendProperties, LenProperties
  <2>2. CASE e \in kept
    <3>1. Select(Append(s, e), kept) = Append(Select(s, kept), e)
      BY <2>2, SelectAppend
    <3>2. /\ Append(Select(s, kept), e) \in Seq(S \intersect kept)
          /\ Len(Append(Select(s, kept), e)) = Len(Select(s, kept)) + 1
      BY <2>2, AppendProperties
    <3> QED
      BY <2>1, <3>1, <3>2
  <2>3. CASE e \notin kept
    BY <2>1, <2>3, SelectAppend
  <2> QED
    BY <2>2, <2>3
<1>3. Good = Seq(S)
  <2>1. Good \subseteq Seq(S)
    OBVIOUS
  <2> HIDE DEF Good
  <2> QED
    BY <1>1, <1>2, <2>1, ListInduction
<1>4. Select(list, kept) \in Seq(S \intersect kept) /\ Len(Select(list, kept)) <= Len(list)
  BY <1>3
<1>5. Select(list, kept) \in Seq(S)
  BY <1>4, SeqMonotonic
<1> QED
  BY <1>4, <1>5

\* It holds exactly what passes the test.
LEMMA SelectElements ==
    ASSUME NEW S, NEW list \in Seq(S), NEW kept
    PROVE  Elements(Select(list, kept)) = Elements(list) \intersect kept
<1> DEFINE Good == {s \in Seq(S) : Elements(Select(s, kept)) = Elements(s) \intersect kept}
<1>1. <<>> \in Good
  BY SelectEmpty, ElementsEmpty, EmptySeq
<1>2. ASSUME NEW s \in Good, NEW e \in S
      PROVE  Append(s, e) \in Good
  <2>1. Elements(Append(s, e)) = Elements(s) \union {e} /\ Append(s, e) \in Seq(S)
    BY ElementsAppend, AppendProperties
  <2>2. CASE e \in kept
    <3>1. Select(Append(s, e), kept) = Append(Select(s, kept), e)
      BY <2>2, SelectAppend
    <3>2. Select(s, kept) \in Seq(S)
      BY SelectType
    <3>3. Elements(Append(Select(s, kept), e)) = Elements(Select(s, kept)) \union {e}
      BY <3>2, ElementsAppend
    <3> QED
      BY <2>1, <2>2, <3>1, <3>3
  <2>3. CASE e \notin kept
    BY <2>1, <2>3, SelectAppend
  <2> QED
    BY <2>2, <2>3
<1>3. Good = Seq(S)
  <2>1. Good \subseteq Seq(S)
    OBVIOUS
  <2> HIDE DEF Good
  <2> QED
    BY <1>1, <1>2, <2>1, ListInduction
<1> QED
  BY <1>3

\* Nothing is left out of a list that passes as a whole.
LEMMA SelectAll ==
    ASSUME NEW S, NEW list \in Seq(S), NEW kept, Elements(list) \subseteq kept
    PROVE  Select(list, kept) = list
<1> DEFINE Good == {s \in Seq(S) : Elements(s) \subseteq kept => Select(s, kept) = s}
<1>1. <<>> \in Good
  BY SelectEmpty, EmptySeq
<1>2. ASSUME NEW s \in Good, NEW e \in S
      PROVE  Append(s, e) \in Good
  BY SelectAppend, ElementsAppend, AppendProperties
<1>3. Good = Seq(S)
  <2>1. Good \subseteq Seq(S)
    OBVIOUS
  <2> HIDE DEF Good
  <2> QED
    BY <1>1, <1>2, <2>1, ListInduction
<1> QED
  BY <1>3

LEMMA SelectNone ==
    ASSUME NEW S, NEW list \in Seq(S), NEW kept, Elements(list) \intersect kept = {}
    PROVE  Select(list, kept) = <<>>
<1>1. Select(list, kept) \in Seq(S \intersect kept) /\ Elements(Select(list, kept)) = {}
  BY SelectType, SelectElements
<1>2. ASSUME Select(list, kept) # <<>>
      PROVE  FALSE
  <2>1. 1 \in DOMAIN Select(list, kept)
    BY <1>1, <1>2, EmptySeq, LenProperties
  <2> QED
    BY <1>1, <2>1 DEF Elements
<1> QED
  BY <1>2

\* The end of the list stays its end when it passes.
LEMMA SelectLast ==
    ASSUME NEW S, NEW list \in Seq(S), NEW kept, list # <<>>, list[Len(list)] \in kept
    PROVE  /\ Select(list, kept) # <<>>
           /\ Select(list, kept)[Len(Select(list, kept))] = list[Len(list)]
<1>1. PICK s \in Seq(S), e \in S : list = Append(s, e)
  BY SequenceEmptyOrAppend
<1>2. list[Len(list)] = e
  BY <1>1, AppendProperties
<1>3. Select(list, kept) = Append(Select(s, kept), e)
  BY <1>1, <1>2, SelectAppend
<1>4. Select(s, kept) \in Seq(S)
  BY SelectType
<1> QED
  BY <1>2, <1>3, <1>4, AppendProperties

\* What is selected of two lists in a row.
LEMMA SelectConcat ==
    ASSUME NEW S, NEW front \in Seq(S), NEW tail \in Seq(S), NEW kept
    PROVE  Select(front \o tail, kept) = Select(front, kept) \o Select(tail, kept)
<1> DEFINE Good == {s \in Seq(S) :
                      Select(front \o s, kept) = Select(front, kept) \o Select(s, kept)}
<1>1. Select(front, kept) \in Seq(S)
  BY SelectType
<1>2. <<>> \in Good
  <2>1. front \o <<>> = front /\ Select(front, kept) \o <<>> = Select(front, kept)
    BY <1>1, ConcatEmptySeq
  <2> QED
    BY <2>1, SelectEmpty, EmptySeq
<1>3. ASSUME NEW s \in Good, NEW e \in S
      PROVE  Append(s, e) \in Good
  <2> DEFINE joined == front \o s
             chosen == Select(front, kept)
             more == Select(s, kept)
             both == chosen \o more
  <2>1. /\ s \in Seq(S) /\ Append(s, e) \in Seq(S)
        /\ joined \in Seq(S) /\ more \in Seq(S)
        /\ Select(joined, kept) = both
    BY SelectType, AppendProperties, ConcatProperties
  <2>2. front \o Append(s, e) = Append(joined, e)
    BY <2>1
  <2>3. chosen \o Append(more, e) = Append(both, e)
    BY <1>1, <2>1
  <2> HIDE DEF joined, chosen, more, both
  <2>4. CASE e \in kept
    <3>1. Select(Append(joined, e), kept) = Append(both, e)
      <4>1. Select(Append(joined, e), kept) = Append(Select(joined, kept), e)
        BY <2>1, <2>4, SelectAppend
      <4> QED
        BY <2>1, <4>1
    <3>2. Select(Append(s, e), kept) = Append(more, e)
      BY <2>1, <2>4, SelectAppend DEF more
    <3> QED
      BY <2>1, <2>2, <2>3, <3>1, <3>2 DEF chosen
  <2>5. CASE e \notin kept
    <3>1. Select(Append(joined, e), kept) = both
      BY <2>1, <2>5, SelectAppend
    <3>2. Select(Append(s, e), kept) = more
      BY <2>1, <2>5, SelectAppend DEF more
    <3> QED
      BY <2>1, <2>2, <3>1, <3>2 DEF chosen, both
  <2> QED
    BY <2>4, <2>5
<1>4. Good = Seq(S)
  <2>1. Good \subseteq Seq(S)
    OBVIOUS
  <2> HIDE DEF Good
  <2> QED
    BY <1>2, <1>3, <2>1, ListInduction
<1> QED
  BY <1>4

-------------------------------------------------------------------------------
(* Order *)

\* Of two elements the earlier one stands in the relation `before' to the later.
Ordered(list, before) ==
    \A i, j \in DOMAIN list : i < j => <<list[i], list[j]>> \in before

LEMMA OrderedAppend ==
    ASSUME NEW S, NEW list \in Seq(S), NEW e \in S, NEW before
    PROVE  Ordered(Append(list, e), before) <=>
             /\ Ordered(list, before)
             /\ \A x \in Elements(list) : <<x, e>> \in before
<1> DEFINE long == Append(list, e)
<1>1. /\ DOMAIN long = 1..(Len(list) + 1) /\ DOMAIN list = 1..Len(list) /\ Len(list) \in Nat
      /\ \A i \in 1..Len(list) : long[i] = list[i]
      /\ long[Len(list) + 1] = e
  BY AppendProperties, LenProperties
<1> HIDE DEF long
<1>2. ASSUME Ordered(long, before)
      PROVE  Ordered(list, before) /\ \A x \in Elements(list) : <<x, e>> \in before
  <2>1. \A i, j \in 1..Len(list) : i < j => <<list[i], list[j]>> \in before
    BY <1>1, <1>2 DEF Ordered
  <2>2. \A i \in 1..Len(list) : <<list[i], e>> \in before
    BY <1>1, <1>2 DEF Ordered
  <2> QED
    BY <1>1, <2>1, <2>2 DEF Ordered, Elements
<1>3. ASSUME Ordered(list, before), \A x \in Elements(list) : <<x, e>> \in before
      PROVE  Ordered(long, before)
  <2> SUFFICES ASSUME NEW i \in 1..(Len(list) + 1), NEW j \in 1..(Len(list) + 1), i < j
               PROVE  <<long[i], long[j]>> \in before
    BY <1>1 DEF Ordered
  <2>1. i \in 1..Len(list) /\ long[i] = list[i]
    BY <1>1
  <2>2. CASE j = Len(list) + 1
    BY <1>1, <1>3, <2>1, <2>2 DEF Elements
  <2>3. CASE j \in 1..Len(list)
    BY <1>1, <1>3, <2>1, <2>3 DEF Ordered
  <2> QED
    BY <1>1, <2>2, <2>3
<1> QED
  BY <1>2, <1>3 DEF long

\* Selecting keeps the order of the list.
LEMMA SelectOrdered ==
    ASSUME NEW S, NEW list \in Seq(S), NEW kept, NEW before, Ordered(list, before)
    PROVE  Ordered(Select(list, kept), before)
<1> DEFINE Good == {s \in Seq(S) : Ordered(s, before) => Ordered(Select(s, kept), before)}
<1>1. <<>> \in Good
  BY SelectEmpty, EmptySeq
<1>2. ASSUME NEW s \in Good, NEW e \in S
      PROVE  Append(s, e) \in Good
  <2> SUFFICES ASSUME Ordered(Append(s, e), before)
               PROVE  Ordered(Select(Append(s, e), kept), before)
    BY AppendProperties
  <2>1. Ordered(s, before) /\ \A x \in Elements(s) : <<x, e>> \in before
    BY OrderedAppend
  <2>2. CASE e \in kept
    <3>1. Select(Append(s, e), kept) = Append(Select(s, kept), e)
      BY <2>2, SelectAppend
    <3>2. /\ Select(s, kept) \in Seq(S)
          /\ Elements(Select(s, kept)) \subseteq Elements(s)
      BY SelectType, SelectElements
    <3> QED
      BY <2>1, <3>1, <3>2, OrderedAppend
  <2>3. CASE e \notin kept
    BY <2>1, <2>3, SelectAppend
  <2> QED
    BY <2>2, <2>3
<1>3. Good = Seq(S)
  <2>1. Good \subseteq Seq(S)
    OBVIOUS
  <2> HIDE DEF Good
  <2> QED
    BY <1>1, <1>2, <2>1, ListInduction
<1> QED
  BY <1>3

Less == {pair \in Nat \X Nat : pair[1] < pair[2]}

\* The numbers from 1 on, in their order.
LEMMA CountingUp ==
    ASSUME NEW n \in Nat
    PROVE  LET numbers == [i \in 1..n |-> i]
           IN  /\ numbers \in Seq(1..n)
               /\ Elements(numbers) = 1..n
               /\ Ordered(numbers, Less)
<1> DEFINE numbers == [i \in 1..n |-> i]
<1>1. numbers \in Seq(1..n)
  OBVIOUS
<1>2. Elements(numbers) = 1..n
  BY DEF Elements
<1>3. \A i, j \in DOMAIN numbers : i < j => <<numbers[i], numbers[j]>> \in Less
  BY DEF Less
<1>4. Ordered(numbers, Less)
  BY <1>3 DEF Ordered
<1> QED
  BY <1>1, <1>2, <1>4

-------------------------------------------------------------------------------
(* Orders of a set *)

LEMMA OrdersType ==
    ASSUME NEW set, IsFiniteSet(set), NEW list \in Orders(set)
    PROVE  /\ list \in Seq(set)
           /\ Elements(list) = set
           /\ \A i, j \in DOMAIN list : list[i] = list[j] => i = j
<1> DEFINE n == Cardinality(set)
           D == 1..n
<1>1. n \in Nat /\ list \in [D -> set] /\ Elements(list) = set
  BY FS_CardinalityType DEF Orders
<1>2. IsFiniteSet(D) /\ Cardinality(D) = n
  BY <1>1, FS_Interval
<1>3. list \in Surjection(D, set)
  BY <1>1 DEF Surjection, Elements
<1> HIDE DEF D
<1>4. list \in Injection(D, set)
  BY <1>2, <1>3, FS_SurjSameCardinalityImpliesInj
<1>5. \A i, j \in DOMAIN list : list[i] = list[j] => i = j
  BY <1>1, <1>4 DEF Injection, IsInjective
<1>6. list \in Seq(set)
  BY <1>1 DEF D
<1> QED
  BY <1>1, <1>5, <1>6

===============================================================================
