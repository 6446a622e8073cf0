------------------------------ MODULE Enumeration ------------------------------
(* The members of a finite set, listed by a number each of them has. *)
EXTENDS Naturals, FiniteSets

\* The members of S by increasing w, from the one that has none below it.
Listed(S, w) ==
    [n \in 1 .. Cardinality(S) |-> CHOOSE x \in S : Cardinality({y \in S : w[y] < w[x]}) = n - 1]
===============================================================================
