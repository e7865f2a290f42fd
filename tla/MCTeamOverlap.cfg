CONSTANTS
  u1 = u1
  u2 = u2
  w1 = w1
  w2 = w2
  w3 = w3
  i1 = i1
  i2 = i2
  r1 = r1
  r2 = r2
  None = None
  Users <- TwoUsers
  Workspaces <- ThreeWorkspaces
  Founder <- Founded
  Sandboxes <- OneSandbox
  Requests <- TwoRequests
  Invitations <- TwoInvitations
  Suspendable <- OneSuspended
SPECIFICATION Spec
SYMMETRY Interchangeable
INVARIANTS
  SingleUse
  RoleAsInvited
  AdministeredUnlessRaced
PROPERTIES
  LandsInTeam
CHECK_DEADLOCK FALSE
