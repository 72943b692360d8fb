CONSTANTS
  BaseNames = {0, 1}
  Outputs = {"CONSOLE", "FILE", "EVERYWHERE"}
  Platforms = {"windows", "posix"}
  LifeTime = 2
  Longest = 3
  DayLength = 2
  MaxLog = 4
  MaxRuns = 2
  MaxNow = 3
SPECIFICATION FairSpec
INVARIANTS LinesInOrder NewestKept
PROPERTIES EveryLineShown DestructorReturns
CHECK_DEADLOCK FALSE
