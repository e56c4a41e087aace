---------------------------- MODULE MCTokenPool ----------------------------
(* TokenPool for TLC: fetches are alike, and so are requests.  Only safety *)
(* is checked with the symmetry.                                           *)
EXTENDS TokenPool, TLC

Interchangeable == Permutations(Calls) \cup Permutations(Admins)
=============================================================================
