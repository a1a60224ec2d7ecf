SPECIFICATION Spec
CONSTANTS
  Procs = {p1, p2, p3}
  Files = {w1, r1}
  WFiles = {w1}
  NoProc = NoProc
  NoFile = NoFile
  Preempt = FALSE
  Ops = {"ACQUIRE", "TRYACQUIRE", "RELEASE"}
  Polite = FALSE
  Signals = {"caught", "kill"}
  Shares = TRUE
  MaxTicket = 3
  MaxLeaks = 1
  MaxReads = 2
SYMMETRY Symmetry
INVARIANTS TypeOK LockExclusion LockAccounting TicketQueue TailLive LocksHaveHolders
PROPERTY ServedInOrder
