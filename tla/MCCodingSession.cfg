SPECIFICATION Spec
CONSTANTS
  p1 = p1
  p2 = p2
  c1 = c1
  s1 = s1
  PriorityTargets = {p1}
  CloseTargets = {c1}
  ServiceTargets = {s1}
  Priorities = {"normal", "high"}
  TargetPriority <- MCTargetPriority
  Plans <- AllKinds
  HelperAnomalies = {}
  Strangers = {"other", "protected"}
  MaxSessions = 1
  MaxFaults = 2
  MaxPriorityEdits = 1
  MaxServiceEdits = 1
INVARIANTS
  TypeOK
  Covered
  ReportsComplete
  CloseNeverRepeated
  SuccessIsHonest
PROPERTIES
  PromiseSpec
  StrangersUntouched
CHECK_DEADLOCK FALSE
