------------------------------- MODULE MCTeam -------------------------------
(***************************************************************************)
(* Team for TLC: two people, one with two workspaces.                      *)
(***************************************************************************)
EXTENDS Team, TLC

CONSTANTS u1, u2, w1, w2, w3, i1, i2, r1, r2

TwoUsers == {u1, u2}
ThreeWorkspaces == {w1, w2, w3}
Founded == w1 :> u1 @@ w2 :> u2 @@ w3 :> u2
OneSandbox == {w1}
TwoInvitations == {i1, i2}
OneSuspended == {w3}
TwoRequests == {r1, r2}

Interchangeable == Permutations({i1, i2}) \cup Permutations({r1, r2})
=============================================================================
