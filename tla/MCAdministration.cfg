CONSTANTS
  a1 = a1
  a2 = a2
  s1 = s1
  s2 = s2
  s3 = s3
  None = None
  Admins <- TwoAdmins
  Sessions <- ThreeSessions
  MaxRequests = 3
  MaxCrashes = 1
SPECIFICATION Spec
SYMMETRY Interchangeable
INVARIANTS
  AuditAccounts
  RevocationsAccounted
PROPERTY
  ExpiredTrialStays
CHECK_DEADLOCK FALSE
