CONSTANTS
  e1 = e1
  e2 = e2
  a1 = a1
  a2 = a2
  r1 = r1
  r2 = r2
  None = None
  Emails <- TwoEmails
  Applications <- TwoApplications
  Requests <- TwoRequests
  MaxCrashes = 1
SPECIFICATION Spec
SYMMETRY Interchangeable
INVARIANTS
  OneAccountPerEmail
  OneOpenRequest
  SpentWithOwner
  DecisionCarriedThrough
  DeliveryOfDecision
PROPERTIES
  EachCase
CHECK_DEADLOCK FALSE
