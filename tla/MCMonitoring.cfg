SPECIFICATION Spec
CONSTANTS
  Pids = {1}
  Background = {"sync"}
  Development = {"editor"}
  Conditions <- MCConditions
  Capacity = 3
  MaxTime = 4
  MaxStarts = 2
  MaxFaults = 1
  ObservedPids = {1, 2}
  MaxBegun = 4
  MaxPolls = 2
  MaxDenied = 1
INVARIANTS
  RatesAreTrue
  EvidenceIsTrue
  ObservedIsNew
CHECK_DEADLOCK FALSE
