---------------------------- MODULE MCOnboarding ----------------------------
(***************************************************************************)
(* Onboarding for TLC: two people, and two requests to be in the way of    *)
(* one another.                                                            *)
(***************************************************************************)
EXTENDS Onboarding, TLC

CONSTANTS e1, e2, a1, a2, r1, r2

TwoEmails == {e1, e2}
TwoApplications == {a1, a2}
TwoRequests == {r1, r2}

Interchangeable ==
  Permutations({a1, a2}) \cup Permutations({r1, r2}) \cup Permutations({e1, e2})
=============================================================================
