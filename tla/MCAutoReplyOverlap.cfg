CONSTANTS
  c1 = c1
  c2 = c2
  r1 = r1
  r2 = r2
  s1 = s1
  s2 = s2
  None = None
  Comments <- TwoComments
  PageComments = {}
  Rules <- OneRule
  Syncs <- TwoSyncs
  MaxCrashes = 1
  MaxEdits = 4
SPECIFICATION Spec
SYMMETRY Interchangeable
INVARIANTS
  AtMostOneReply
  OnlyClearedAnswered
  OldQueueSilent
  NoReplyAbandoned
PROPERTIES
  RepliesOnce
  NonePassedOver
