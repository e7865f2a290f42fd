CONSTANTS
  RuleIds <- FourRules
  Requests <- ThreeRequests
  Orders <- AnyOrder
  First <- TwoRulesFirst
SPECIFICATION OrderSpec
INVARIANTS
  ArrangedOrderStands
PROPERTY
  RequestsEnd
CHECK_DEADLOCK FALSE
