SPECIFICATION Spec
CONSTANTS
  p1 = p1
  p2 = p2
  c1 = c1
  s1 = s1
  PriorityTargets = {p1, p2}
  CloseTargets = {c1}
  ServiceTargets = {s1}
  Priorities = {"normal", "high"}
  TargetPriority <- MCTargetPriority
  Plans <- MixedPlans
  HelperAnomalies = {"late", "misreported"}
  Strangers = {"other"}
  MaxSessions = 2
  MaxFaults = 1
  MaxPriorityEdits = 0
  MaxServiceEdits = 1
INVARIANTS
  SavedSessionLoads
PROPERTIES
  NothingAfterUncertain
  FinalStatesFinal
  GivesBackExactly
CHECK_DEADLOCK FALSE
