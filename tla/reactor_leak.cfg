SPECIFICATION FairSpec
CONSTANTS
  Conns = {c1}
  Listener = Listener
  NoFd = NoFd
  EventSize = 2
  BufSize = 2
  MaxMsgs = 2
  MayFail = FALSE
\* The clients may have nothing more to do, and the server waits.
CHECK_DEADLOCK FALSE
PROPERTY ClosedIsReleased
