CONSTANTS
  e1 = e1
  s1 = s1
  g1 = g1
  r1 = r1
  r2 = r2
  None = None
  Emails <- OneEmail
  Subjects <- OneSubject
  Telegrams <- OneTelegram
  PrimaryEmail <- AnyPrimary
  MaxAccounts = 2
  MaxSessions = 2
  MaxKeys = 2
  Requests <- TwoRequests
SPECIFICATION Spec
INVARIANTS
  EveryAccountReachable
  CurrentKeyAccepted
PROPERTIES
  RemovalTakesTheRole
