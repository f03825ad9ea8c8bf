-------------------------------- MODULE Ranks --------------------------------
(* Finite sets of integers read in ascending order: how an index vector, a    *)
(* mask or a filtered list of the code numbers the elements it selects.       *)
EXTENDS Integers, FiniteSets

\* The number of elements of S below i, and the element with k below it.
Rank(S, i) == Cardinality({j \in S : j < i})
Nth(S, k)  == CHOOSE i \in S : Rank(S, i) = k
=============================================================================
