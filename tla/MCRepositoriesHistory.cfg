CONSTANTS
  People <- OnePerson
  Names <- OneName
  LongNames = {}
  Contents = {"text", "voice", "emptyVoice"}
  Reactions = {"likes"}
  Faults = FALSE
  MaxChannels = 1
  MaxMsgs = 2
  MaxReplies = 2
SPECIFICATION Spec
INVARIANTS HistoryReadable
CHECK_DEADLOCK FALSE
