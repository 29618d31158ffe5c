SPECIFICATION FairSpec
CONSTANTS
  Conns = {c1, c2, c3}
  Listener = Listener
  NoFd = NoFd
  EventSize = 2
  BufSize = 2
  MaxMsgs = 2
  MayFail = TRUE
\* The clients may have nothing more to do, and the server waits.
CHECK_DEADLOCK FALSE
INVARIANTS TypeOK EventsReachOwners NeverBlocks
PROPERTIES OverflowWhenFull PatientServed
