--------------------------- MODULE MCAdministration ---------------------------
(***************************************************************************)
(* Administration for TLC: two administrators, three sessions.             *)
(***************************************************************************)
EXTENDS Administration, TLC

CONSTANTS a1, a2, s1, s2, s3

TwoAdmins == {a1, a2}
ThreeSessions == {s1, s2, s3}

Interchangeable == Permutations(TwoAdmins) \cup Permutations(ThreeSessions)
=============================================================================
