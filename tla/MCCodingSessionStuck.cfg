SPECIFICATION FairSpec
CONSTANTS
  p1 = p1
  p2 = p2
  c1 = c1
  s1 = s1
  PriorityTargets = {p1}
  CloseTargets = {c1}
  ServiceTargets = {s1}
  Priorities = {"normal", "high"}
  TargetPriority <- MCTargetPriority
  Plans <- ShortPlans
  HelperAnomalies = {}
  Strangers = {"other"}
  MaxSessions = 1
  MaxFaults = 0
  MaxPriorityEdits = 0
  MaxServiceEdits = 1
PROPERTIES
  EventuallyClosed
CHECK_DEADLOCK FALSE
