CONSTANTS
  Comments = {c1, c2}
  Syncs = {s1}
  Moderators = {m1, m2}
  Sweepers = {w1}
  Policies <- QuarantineAndHide
  AutoRemovalEnabled = TRUE
  Severities <- HarmThenOffence
  Choices <- HideFirst
  MaxBusy = 2
  MaxVerdicts = 1
  MaxRows = 2
  MaxFaults = 1
  Faults = {"crash", "connection", "licence", "author"}
  None = None
SPECIFICATION FairSpec
CHECK_DEADLOCK FALSE
PROPERTIES
  CountdownOutlivesCrash
  CountdownResolved
  RequestsFinish
