------------------------------ MODULE MCServer ------------------------------
(* Small servers: a few clients, a message of each kind that onMessage tells  *)
(* apart, and the one priority that pushRequest is called with.               *)
EXTENDS Server

\* The requests that a repository may be asked to execute.
RequestsToWork == [type : Requests \cap DOMAIN Answer, client : Clients,
                   user : Users \cup {NoUser, 1}]
MainThread == {"main"}
DefaultPriority == {14}

\* What onMessage tells apart: an answer from a repository, the request whose
\* failure is caught, the login, an echo, a broadcast, an unknown command.
EveryKind == {"MessageStoreRequest", "MessageHistoryRequest", "LoginRequest", "ServerPing",
              "MessageAll", "ServerMessage"}
=============================================================================
