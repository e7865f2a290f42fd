CONSTANTS
  Comments = {c1, c2}
  Syncs = {s1, s2}
  Moderators = {m1}
  Sweepers = {w1}
  Policies <- BothDelays
  AutoRemovalEnabled = TRUE
  Severities <- AnyVerdict
  Choices <- HideOrLeave
  MaxBusy = 2
  MaxVerdicts = 1
  MaxRows = 2
  MaxFaults = 1
  Faults = {"connection", "crash"}
  None = None
SYMMETRY SameTasks
SPECIFICATION Spec
CHECK_DEADLOCK FALSE
INVARIANTS
  AutomationOnlyForHarm
  AutomationExplained
  DecisionCancelsCountdown
  AppliedMeansAccepted
  AutomationInSight
PROPERTIES
  EachLife
