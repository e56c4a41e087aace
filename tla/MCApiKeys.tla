----------------------------- MODULE MCApiKeys -----------------------------
(* ApiKeys for TLC: operations are alike, and so are the keys there from   *)
(* the start.  Only safety is checked with the symmetry.                   *)
EXTENDS ApiKeys, TLC

Interchangeable == Permutations(Ops) \cup Permutations(Initial)
=============================================================================
