-------------------------------- MODULE Sorting --------------------------------
(***************************************************************************)
(* Numbers in their order: names of chunks, times of buckets.              *)
(***************************************************************************)
EXTENDS Naturals, FiniteSets

\* The numbers of a set from the smallest on.
Sorted(S) == [k \in 1..Cardinality(S) |-> CHOOSE t \in S : Cardinality({u \in S : u < t}) = k - 1]

=================================================================================
