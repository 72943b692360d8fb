---------------------------- MODULE MCConnection ----------------------------
(* The messages of a session, one of each kind that the pipeline tells apart. *)
EXTENDS Connection

Body(t, b, n) == [type |-> t, body |-> b, units |-> n]

\* What a server sends: a message without body, a body that the receiver
\* restores, one that it does not know (the answer to an edit), and a ServerPing
\* that it returns with the body its buffer happened to hold.
FromServer == {Body("ServerAccept", "none", 1), Body("MessageHistoryAnswer", "vector<MessageInfo>", 2),
               Body("MessageEditAnswer", "EditingMessageCodes", 1),
               Body("ServerPing", "LoginInfo", 1)}
==============================================================================
