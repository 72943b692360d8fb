--------------------------- MODULE MCChatHistory ---------------------------
EXTENDS ChatHistory

\* The second message is sent by a clock that is behind that of the others,
\* which shows one time for them.
ClockBehind == [n \in Ids |-> IF n = 2 THEN 1 ELSE 2]
==============================================================================
