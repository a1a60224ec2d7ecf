SPECIFICATION Spec
CONSTANTS
  NBLOCKS = 12
  NINODES = 4
  FIRSTINOB = 3
  BLKSIZE = 2
  BLKBITSIZE = 4
  NDIRECT = 1
  NINDIRECT = 2
  Names = {"a", "b"}
  NoName = ""
  DirInodes = {1}
  Sizes = {0, 1, 7}
  Positions = {0, 1, 6}
  SymNames = {"short"}
  MayOpen = TRUE
  Careful = TRUE
  HostTrees <- Trees
  LinkContents = TRUE
VIEW View
INVARIANTS BlockOwnership SizesHaveBlocks LinkCounts ReaddirComplete Sound
CHECK_DEADLOCK FALSE
