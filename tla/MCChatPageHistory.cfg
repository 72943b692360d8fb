\* Is the history that a chat shows that of its channel?
CONSTANTS
  MaxChannels = 3
  MaxAsked = 3
  SecondDevice = FALSE
SPECIFICATION Spec
INVARIANT HistoryOfItsChannel
\* The channels are bounded, and so is what can be done about them.
CHECK_DEADLOCK FALSE
