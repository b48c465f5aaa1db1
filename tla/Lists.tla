--------------------------------- MODULE Lists ---------------------------------
(***************************************************************************)
(* The list operations that the form and the API share.  Sorting is by     *)
(* rank: the community modules' SetToSortSeq rests on an operator of TLC   *)
(* of which nothing can be proved.                                         *)
(***************************************************************************)
EXTENDS Naturals, SequencesExt

\* The elements of a finite set, each after those that come before it.
Sorted(S, Before(_, _)) ==
    [i \in 1 .. Cardinality(S) |->
        CHOOSE x \in S : Cardinality({ y \in S : Before(y, x) }) = i - 1]

Ascending(S) == Sorted(S, <)

\* The elements of a list at some of its positions, in order.
At(list, positions) ==
    LET kept == Ascending(positions) IN [i \in DOMAIN kept |-> list[kept[i]]]

\* The first of equal elements, in order.
Distinct(list) ==
    At(list, { i \in DOMAIN list : \A j \in 1 .. i - 1 : list[j] # list[i] })

\* filter: the elements that are not in a set.
Without(list, S) == At(list, { i \in DOMAIN list : list[i] \notin S })
===============================================================================
