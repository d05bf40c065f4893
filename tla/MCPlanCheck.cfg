SPECIFICATION Spec
CONSTANTS
  Absent = Absent
  Bad = Bad
  BuiltInRules <- MCBuiltInRules
  DefaultRules <- MCDefaultRules
  BuiltInServices <- MCBuiltInServices
  DefaultRaise <- MCDefaultRaise
  DefaultProtect <- MCDefaultProtect
  Directories <- MCDirectories
  Snapshots <- MCSnapshots
INVARIANTS
  TakesOnlyTheUnprotected
  StopsOnlyTheUnprotected
  PlanPasses
  StoppedCanBeRestored
  BaselineKept
CHECK_DEADLOCK FALSE
