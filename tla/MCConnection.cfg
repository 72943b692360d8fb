CONSTANTS
  Templates <- FromServer
  Owner = "CLIENT"
  SocketMayBlock = FALSE
  Faults = TRUE
  MaxSend = 3
SPECIFICATION FairSpec
INVARIANTS BodyOfItselfOrOlder QueueMoves FrameAligned
PROPERTIES ImplementsChannel CloseIsNoticed
CHECK_DEADLOCK FALSE
