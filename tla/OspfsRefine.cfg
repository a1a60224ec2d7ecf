SPECIFICATION Spec
CONSTANTS
  NBLOCKS = 15
  NINODES = 4
  FIRSTINOB = 3
  BLKSIZE = 1
  BLKBITSIZE = 2
  NDIRECT = 1
  NINDIRECT = 2
  Names = {"a", "b"}
  NoName = ""
  DirInodes = {1, 2}
  Sizes = {0, 3, 4}
  Positions = {0}
  SymNames = {"short", "cond"}
  MayOpen = FALSE
  Careful = TRUE
  HostTrees <- RefineTrees
  LinkContents = TRUE
VIEW View
PROPERTY ImplementsFileStore
CHECK_DEADLOCK FALSE
