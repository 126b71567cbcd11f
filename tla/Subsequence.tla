----------------------------- MODULE Subsequence -----------------------------
(***************************************************************************)
(* Unlinking entries from a list: those that stay keep their order.  This  *)
(* is what the C code does with the prev and next pointers of its lists.   *)
(* SelectSeq means the same, but is recursive; here the list that is left  *)
(* is given by the positions that stay, so that it can be reasoned about.  *)
(***************************************************************************)
EXTENDS Integers, Sequences, FiniteSets

\* The place of the position p among those of S.
Rank(S, p) == Cardinality({q \in S : q <= p})

\* The position of S that has place i.
Nth(S, i) == CHOOSE p \in S : Rank(S, p) = i

\* The entries of the list at the positions of S, in their order.
At(list, S) == [i \in 1..Cardinality(S) |-> list[Nth(S, i)]]

\* The entries that pass the test.
Where(list, Test(_)) == At(list, {i \in DOMAIN list : Test(list[i])})
=============================================================================
