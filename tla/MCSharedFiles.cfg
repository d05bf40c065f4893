SPECIFICATION Spec
CONSTANTS
  u1 = u1
  u2 = u2
  u3 = u3
  Users = {u1, u2, u3}
  Tasks <- MCTasks
  Lengths <- MCLengths
  Saves = 2
  MaxFaults = 1
  Processes = {u1, u2}
  Limit = 3
  MaxStarts = 4
  MaxEvents = 8
INVARIANTS
  WholeUnlessCrowded
  LogBounded
  NewestKept
PROPERTIES
  ReplacedByItsSuccessor
  SaveFailsOnlyByOthers
CHECK_DEADLOCK FALSE
