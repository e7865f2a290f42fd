---------------------------- MODULE MCModeration ----------------------------
(* Instances of Moderation, with its work list, for TLC.                    *)
EXTENDS WorkList, TLC

\* Both delays, with and without hiding of OFFENSIVE comments.
BothDelays == {[delay |-> "now", hideOffensive |-> FALSE],
               [delay |-> "later", hideOffensive |-> TRUE]}

QuarantineAndHide == {[delay |-> "later", hideOffensive |-> TRUE]}

QuarantineOnly == {[delay |-> "later", hideOffensive |-> FALSE]}

\* What may happen to the first comment of an instance, and to the others.
OnlyFirst(first, others) ==
  [c \in Comments |-> IF c = CHOOSE d \in Comments : TRUE THEN first ELSE others]

AnyVerdict        == OnlyFirst(Severity, {"SAFE"})
HarmThenOffence   == OnlyFirst({"HARMFUL"}, {"OFFENSIVE"})
HarmAlways        == OnlyFirst({"HARMFUL"}, {"HARMFUL"})
HideOrLeave       == OnlyFirst({"HIDE", "LEAVE"}, {})
HideFirst         == OnlyFirst({"HIDE"}, {})
AnyChoice         == OnlyFirst(Kind, {})

\* Sync requests are interchangeable, and so are sweeps.
SameTasks == Permutations(Syncs) \cup Permutations(Sweepers)
=============================================================================
