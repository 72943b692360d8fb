CONSTANTS
  Callers <- MainThread
  Work <- RequestsToWork
  Priorities <- DefaultPriority
  NoCaller = "nobody"
  MaxPush = 2
  Clients = {a, b}
  nullptr = nullptr
  Requests <- EveryKind
  Users = {7}
  Disconnects = TRUE
  DatabaseFaults = TRUE
  mCriticalQueueSize = 1
  mNewThreadsCount = 1
  MaxThreads = 2
  MaxMessages = 2
SPECIFICATION FairSpec
INVARIANTS PopFindsRequest RunsOnce NoRequestForgotten AnswersPairUp RunsAsConnectionUser NullsPurged
PROPERTIES AwaitEnds StopEnds
CHECK_DEADLOCK FALSE
