\* One device; what it does with three channels.
CONSTANTS
  MaxChannels = 3
  MaxAsked = 3
  SecondDevice = FALSE
SPECIFICATION Spec
INVARIANTS EachListedOnce LookupsFindTheirChannel NoChatWithoutRow
\* The channels are bounded, and so is what can be done about them.
CHECK_DEADLOCK FALSE
