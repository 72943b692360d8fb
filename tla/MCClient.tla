------------------------------ MODULE MCClient ------------------------------
(* Both front ends.  Of the requests that no page waits for: those that the    *)
(* chat polls with, one of its changes, an echo and one without an answer.     *)
EXTENDS Client

Both == {"gui", "cli"}
Others == {"MessageHistoryRequest", "ReplyHistoryRequest", "MessageReactionRequest",
           "ServerPing", "MessageAll"}
=============================================================================
