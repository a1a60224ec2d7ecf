SPECIFICATION Spec
CONSTANTS
  Args <- MCArgs
  PeerLists <- MCPeerLists
  Self = "self"
  Streams <- MCStreams
  Local <- MCLocal
  Conns = 3
  NAMES = 2
  TASKBUFSIZ = 2
  WORD = 4
  MAXFILESIZ = 3
  MAXPROC = 2
  MAXFD = 2
  MaxErrors = 2
PROPERTY RequestsProcessed
CHECK_DEADLOCK FALSE
