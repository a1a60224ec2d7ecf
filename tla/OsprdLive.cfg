SPECIFICATION FairSpec
CONSTANTS
  Procs = {p1, p2, p3}
  Files = {w1, w2, r1}
  WFiles = {w1, w2}
  NoProc = NoProc
  NoFile = NoFile
  Preempt = FALSE
  Ops = {"ACQUIRE"}
  Polite = TRUE
  Signals = {"caught"}
  Shares = FALSE
  MaxTicket = 4
  MaxLeaks = 0
  MaxReads = 2
INVARIANT QuiescentCounts
PROPERTIES EveryRequestReturns ImplementsRWLock
