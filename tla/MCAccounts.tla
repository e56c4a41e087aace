----------------------------- MODULE MCAccounts ----------------------------
(* Accounts for TLC: operations are alike, and so are the users, all of    *)
(* whom are admins.  Only safety is checked with the symmetry.             *)
EXTENDS Accounts, TLC

Interchangeable == Permutations(Ops) \cup Permutations(Users)
=============================================================================
