SPECIFICATION FairSpec
CONSTANTS
  MaxRequests = 2
  MaxFaults = 1
  MaxEdits = 1
  Anomalies = {"write", "control"}
INVARIANTS GivenBackRuns RefusalIsFinal
PROPERTIES PromiseSpec BothEnd
CHECK_DEADLOCK FALSE
