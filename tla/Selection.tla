-------------------------------- MODULE Selection --------------------------------
(***************************************************************************)
(* Lists.  The list comprehension [x for x in list if x in kept] that the  *)
(* code filters them with: hits by their age, messages by their role or    *)
(* text, migrations by their version.                                      *)
(*                                                                         *)
(* The test is the set of what passes it, and the recursion is that of a   *)
(* function, so that Selection_proofs can say what the result holds; the   *)
(* SelectSeq of Sequences has no definition that a proof could expand.     *)
(***************************************************************************)
EXTENDS Naturals, Sequences, FiniteSets

\* The elements of the list that are in `kept', in their order.
Select(list, kept) ==
    LET upTo[n \in 0..Len(list)] ==
            IF n = 0 THEN <<>>
            ELSE IF list[n] \in kept THEN Append(upTo[n - 1], list[n]) ELSE upTo[n - 1]
    IN  upTo[Len(list)]

Elements(list) == {list[i] : i \in DOMAIN list}

\* The lists that hold each element of a finite set once, in whatever order.
Orders(set) == {list \in [1..Cardinality(set) -> set] : Elements(list) = set}

===============================================================================
