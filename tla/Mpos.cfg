SPECIFICATION FairSpec
CONSTANTS
  NPROCS = 4
  Statuses <- ExitCodes
  Threads = TRUE
  KillStates = {"RUNNABLE"}
  OneWaiter = TRUE
INVARIANTS
  TypeOK
  RunsRunnable
  WaitersRegistered
  SpinsWhenDone
PROPERTIES
  WaitTruth
  NoResurrection
  EveryWaitReturns
CHECK_DEADLOCK FALSE
