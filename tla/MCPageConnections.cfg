CONSTANTS
  w1 = w1
  w2 = w2
  p1 = p1
  p2 = p2
  a1 = a1
  r1 = r1
  r2 = r2
  None = None
  Workspaces <- TwoWorkspaces
  Pages <- TwoPages
  Limits <- OneOrTwo
  Attempts <- OneAttempt
  Requests <- TwoRequests
SPECIFICATION Spec
SYMMETRY Interchangeable
INVARIANTS
  OneWorkspacePerPage
  WithinPlanUnlessRaced
  OnePickUnlessRaced
PROPERTY
  SpentWithConnection
