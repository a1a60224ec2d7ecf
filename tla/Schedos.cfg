SPECIFICATION FairSpec
CONSTANTS
  NPROCS = 4
  RUNCOUNT = 1
  Builds <- AllBuilds
  Clock = TRUE
INVARIANTS
  TypeOK
  RunsRunnable
  PriorityRespected
  ShareRespected
  ConsoleIntact
PROPERTY AllFinish
CHECK_DEADLOCK FALSE
