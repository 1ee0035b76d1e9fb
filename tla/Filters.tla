------------------------------- MODULE Filters -------------------------------
(***************************************************************************)
(* Swift's filter, on which the two lists of the dashboard and the two     *)
(* sections of the task table rest: the elements of a list that are in a   *)
(* set, in the order of the list.  It is SelectSeq of the Sequences        *)
(* module, defined by positions instead of by recursion so that the        *)
(* provers can expand it; MCTaskTable compares the two.                    *)
(***************************************************************************)
EXTENDS Naturals, Sequences, FiniteSets

Kept(list, S) == {k \in DOMAIN list : list[k] \in S}

\* How many positions of K come up to k.
Rank(K, k) == Cardinality({j \in K : j <= k})

\* The n-th position of K.
Position(K, n) == CHOOSE k \in K : Rank(K, k) = n

Filter(list, S) ==
    [n \in 1..Cardinality(Kept(list, S)) |-> list[Position(Kept(list, S), n)]]
=============================================================================
