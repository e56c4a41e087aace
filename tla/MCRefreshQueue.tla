--------------------------- MODULE MCRefreshQueue ---------------------------
(* TLC instances of RefreshQueue. *)
EXTENDS RefreshQueue, TLC

\* Job rows and refreshOne calls are interchangeable (safety runs only).
Symmetry == Permutations(Jobs) \cup Permutations(Workers)

=============================================================================
