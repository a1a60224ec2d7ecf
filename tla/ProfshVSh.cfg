SPECIFICATION Spec
CONSTANTS
  Scripts <- PipeCondition
  Programs = {"a", "b", "c", "u"}
  Reads = {"a", "b"}
  Output <- MCOutput
  Ends <- MCEnds
  Present = {"f", "ro"}
  ReadOnly = {"ro"}
  Capacity = 2
  MaxRuns = 4
INVARIANT AsSh
