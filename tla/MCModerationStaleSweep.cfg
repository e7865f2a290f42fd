CONSTANTS
  Comments = {c1}
  Syncs = {s1}
  Moderators = {m1}
  Sweepers = {w1}
  Policies <- QuarantineOnly
  AutoRemovalEnabled = TRUE
  Severities <- HarmAlways
  Choices <- AnyChoice
  MaxBusy = 3
  MaxVerdicts = 1
  MaxRows = 2
  MaxFaults = 0
  Faults = {}
  None = None
SPECIFICATION Spec
CHECK_DEADLOCK FALSE
PROPERTIES
  SweepNeedsCountdown
