CONSTANTS
  People <- TwoPeople
  Names <- TwoNames
  LongNames <- OneLongName
  Contents = {"text", "emptyVoice"}
  Reactions = {"likes"}
  Faults = TRUE
  MaxChannels = 1
  MaxMsgs = 2
  MaxReplies = 1
SPECIFICATION Spec
INVARIANTS RowsReferToRows AcknowledgedReadable ReactionOnce
PROPERTIES SuccessIsTrue JoinsAreAsked
VIEW tables
CHECK_DEADLOCK FALSE
