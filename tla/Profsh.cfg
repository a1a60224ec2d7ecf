SPECIFICATION Spec
CONSTANTS
  Scripts <- TestScripts
  Programs = {"a", "b", "c", "u"}
  Reads = {"a", "b"}
  Output <- MCOutput
  Ends <- MCEnds
  Present = {"f", "ro"}
  ReadOnly = {"ro"}
  Capacity = 2
  MaxRuns = 6
INVARIANTS TypeOK ParsesAsWritten  ProfileComplete
PROPERTY Finishes
