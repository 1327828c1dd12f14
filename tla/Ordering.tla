------------------------------ MODULE Ordering ------------------------------
(* The order in which a loop over a range, or a list, meets what it keeps. *)
EXTENDS Integers, FiniteSets

\* The elements of a finite set of integers, from the least to the greatest.
InOrder(S) ==
    CHOOSE q \in [1..Cardinality(S) -> S] : \A m, n \in 1..Cardinality(S) : m < n => q[m] < q[n]
=============================================================================
