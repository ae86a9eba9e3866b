------------------------------ MODULE Ordering ------------------------------
(***************************************************************************)
(* Sorting and filtering of lists (slice::sort_by_key, Iterator::filter,   *)
(* ORDER BY, WHERE).  An order is a set of pairs; a stable sort is one by  *)
(* an order that tells places of equal keys apart by their number.         *)
(***************************************************************************)
EXTENDS Integers, Sequences, FiniteSets

\* The elements of S that R puts before x.
Preceding(S, R, x) == {y \in S : <<y, x>> \in R}

\* The elements of S in the order R.
InOrder(S, R) ==
  [n \in 1 .. Cardinality(S) |-> CHOOSE x \in S : Cardinality(Preceding(S, R, x)) = n - 1]

\* The elements of list at the given places, in the order R of these.
Arranged(list, places, R) ==
  LET order == InOrder(places, R)
  IN  [n \in 1 .. Cardinality(places) |-> list[order[n]]]

\* The order of numbers.
Ascending(S) == {p \in S \X S : p[1] < p[2]}

\* The elements of list at the given places, as they come.
Filtered(list, places) ==
  LET kept[n \in 0 .. Len(list)] ==
        IF n = 0 THEN <<>>
        ELSE IF n \in places THEN Append(kept[n - 1], list[n]) ELSE kept[n - 1]
  IN  kept[Len(list)]

\* R orders S strictly and leaves no two elements apart.
Orders(R, S) ==
  /\ \A x \in S : <<x, x>> \notin R
  /\ \A x, y, z \in S : <<x, y>> \in R /\ <<y, z>> \in R => <<x, z>> \in R
  /\ \A x, y \in S : x = y \/ <<x, y>> \in R \/ <<y, x>> \in R
=============================================================================
