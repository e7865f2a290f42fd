---------------------------- MODULE MCAutoReply ----------------------------
(***************************************************************************)
(* AutoReply for TLC: two overlapping syncs of a Page with two comments.   *)
(***************************************************************************)
EXTENDS AutoReply, TLC

CONSTANTS c1, c2, r1, r2, s1, s2

TwoComments == {c1, c2}
OneOfThePage == {c2}
OneRule == {r1}
TwoRules == {r1, r2}
OneSync == {s1}
TwoSyncs == {s1, s2}

Interchangeable == Permutations({s1, s2}) \cup Permutations({c1, c2})
=============================================================================
