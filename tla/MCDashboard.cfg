SPECIFICATION FairSpec
CONSTANTS
  PipeCapacity = 1
  OutputLength = 2
  InitialSessions = {"none"}
  NoModel = NoModel
  MaxCommands = 2
  MaxDepth = 1
PROPERTIES
  ReportsWhatHappened
  CommandEnds
  CloseEnds
  ShowsTheTruth
INVARIANTS
  ClosedMeansIdle
  ProgressIsTrue
CHECK_DEADLOCK FALSE
