CONSTANTS
  FrontEnds <- Both
  Requests <- Others
  VoiceMessages = FALSE
  MaxRequests = 3
  MaxBroadcasts = 1
SPECIFICATION FairSpec
INVARIANTS ChatMeansLoggedIn AnswerFindsItsPage NoBadCast NoHandlerWithoutConnection
PROPERTIES SentResumes
CHECK_DEADLOCK FALSE
