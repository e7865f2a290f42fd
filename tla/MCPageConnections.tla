------------------------- MODULE MCPageConnections -------------------------
(***************************************************************************)
(* PageConnections for TLC: two workspaces that want the same two Pages.   *)
(***************************************************************************)
EXTENDS PageConnections, TLC

CONSTANTS w1, w2, p1, p2, a1, r1, r2

TwoWorkspaces == {w1, w2}
TwoPages == {p1, p2}
OneAttempt == {a1}
TwoRequests == {r1, r2}
OneOrTwo == {1, 2}
Interchangeable == Permutations({w1, w2}) \cup Permutations({p1, p2}) \cup Permutations({r1, r2})
=============================================================================
