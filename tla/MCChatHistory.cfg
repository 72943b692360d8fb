\* Everything a chat does, with three messages.
CONSTANTS
  Ids = {1, 2, 3}
  SentAt <- ClockBehind
  MaxRows = 2
  MaxDeleted = 1
  MaxRequested = 2
  Viewports = {2, 8}
  Step = 100
  MessageHeight = 2
  DeletedHeight = 1
  ReplyHeight = 1
  Gap = 1
SPECIFICATION HistorySpec
INVARIANTS OneWidgetEach LeftIsAnIndex NothingCutOff VisibleFoundInPlace
\* Nothing is left to do once every id is given and every answer has come.
CHECK_DEADLOCK FALSE
