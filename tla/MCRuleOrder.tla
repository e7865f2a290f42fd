------------------------------ MODULE MCRuleOrder ------------------------------
(***************************************************************************)
(* RuleOrder for TLC: two rules to begin with and two more to create, and  *)
(* three requests.                                                         *)
(***************************************************************************)
EXTENDS RuleOrder

FourRules == {1, 2, 3, 4}
ThreeRequests == {11, 12, 13}
TwoRulesFirst == <<1, 2>>

\* Every order of up to three of them, and one that names a rule twice.
AnyOrder ==
  {s \in UNION {[1..n -> 1..3] : n \in 0..3} :
     \A i, j \in DOMAIN s : s[i] = s[j] => i = j} \cup {<<1, 2, 2>>}
=============================================================================
