SPECIFICATION FairSpec
CONSTANTS
  Procs = {p1, p2}
  Files = {w1, w2}
  WFiles = {w1, w2}
  NoProc = NoProc
  NoFile = NoFile
  Preempt = FALSE
  Ops = {"ACQUIRE"}
  Polite = FALSE
  Signals = {}
  Shares = FALSE
  MaxTicket = 3
  MaxLeaks = 0
  MaxReads = 2
PROPERTY EveryRequestReturns
CHECK_DEADLOCK FALSE
