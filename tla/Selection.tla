------------------------------ MODULE Selection ------------------------------
(* What a list comprehension with a condition keeps of a list.  (SelectSeq  *)
(* is the same sequence; it has no definition that a proof can expand.)     *)
EXTENDS Integers, Sequences, FiniteSets

\* The elements of a sequence at some of its places, in order.
Rank(i, places) == Cardinality(places \cap 0..i)
Taken(s, places) ==
  [k \in 1..Cardinality(places) |-> s[CHOOSE i \in places : Rank(i, places) = k]]

Places(s, Test(_)) == {i \in 1..Len(s) : Test(s[i])}
Chosen(s, Test(_)) == Taken(s, Places(s, Test))
=============================================================================
