SPECIFICATION Spec
CONSTANTS
  Args <- MCArgs
  PeerLists <- MCPeerLists
  Self = "self"
  Streams <- MCStreams
  Local <- MCLocal
  Conns = 3
  NAMES = 2
  TASKBUFSIZ = 2
  WORD = 4
  MAXFILESIZ = 3
  MAXPROC = 2
  MAXFD = 2
  MaxErrors = 2
INVARIANTS TypeOK BufferInOrder CompleteAtEnd OwnFiles DownloadsFirst
PROPERTY DownloadsSettle
CHECK_DEADLOCK FALSE
