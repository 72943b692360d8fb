------------------------------- MODULE Client -------------------------------
(***************************************************************************)
(* Network::Client under its two front ends.  Two threads:                 *)
(*  - the owner of the Client: the event loop of the Qt application, with  *)
(*    its pages, or the main loop of the command line program;             *)
(*  - the context thread, which runs the handlers of the Connection, hands *)
(*    each message to loop(), and after the last handler calls             *)
(*    onDisconnect, which the Qt application overrides to destroy the      *)
(*    Connection.                                                          *)
(* Neither _connection nor _serverAccept nor loginState has a lock.  The   *)
(* Connection's own promise is MessageChannel; the server is the           *)
(* environment, and answers as Server.tla shows.                           *)
(***************************************************************************)
EXTENDS Protocol, Selections, SequencesExt, FiniteSets

CONSTANTS FrontEnds,     \* which programs: a subset of {"gui", "cli"}
          Requests,      \* requests that are made outside of a page that waits
          VoiceMessages, \* whether a channel holds one
          MaxRequests,   \* bound: requests that the user makes
          MaxBroadcasts  \* bound: ServerMessages on their way

ASSUME ClientAssumption ==
    /\ FrontEnds \subseteq {"gui", "cli"}
    /\ Requests \subseteq DOMAIN ClientRequest
                \ {"LoginRequest", "RegistrationRequest", "ChannelListRequest",
                   "ChannelSubscriptionListRequest"}
    /\ {MaxRequests, MaxBroadcasts} \subseteq Nat
ASSUME VoiceAssumption == VoiceMessages \in BOOLEAN

VARIABLES frontEnd,
          connection,      \* _connection: "null" or "alive"
          socket,          \* its socket; "failed": the connect failed, still open
          serverAccept,    \* _serverAccept
          stopped,         \* _context is stopped
          context,         \* where the context thread is
          posted,          \* functions posted to the context by the owner
          owner,           \* where the owner's thread is
          todo,            \* the sends left in the operation that it executes
          loginState, appState,
          paused,          \* per page: spins and is disabled
          signals,         \* queued for the slots of the pages, oldest first
          link,            \* the TCP connection: "none", "up", "down" (the server or a
                           \* reset has ended it), "silent" (nothing passes any more)
          toServer, toClient,
          requests,        \* history: how many requests the user has made
          fate,            \* history, per page: what came of its last request
          granted          \* history: the server has accepted a login

core == <<connection, socket, serverAccept, stopped>>
pages == <<loginState, appState, paused>>
network == <<link, toServer, toClient>>
history == <<requests, fate, granted>>
vars == <<frontEnd, core, context, posted, owner, todo, pages, signals, network, history>>

\* The pages that wait for an answer: the form that shows each, the request it
\* waits for and the signal that resumes it.
Pages == {"login", "registration", "channels"}
FormOf == [login |-> "LoginForm", registration |-> "RegistrationForm",
           channels |-> "ChatWindowForm"]
RequestOf == [login |-> "LoginRequest", registration |-> "RegistrationRequest",
              channels |-> "ChannelListRequest"]
SignalOf == [login |-> "LoginAnswer", registration |-> "RegistrationAnswer",
             channels |-> "ChannelListRequest"]

Init ==
    /\ frontEnd \in FrontEnds
    /\ connection = "null" /\ socket = "closed" /\ serverAccept = FALSE /\ stopped = FALSE
    /\ context = "none" /\ posted = <<>> /\ owner = "start" /\ todo = <<>>
    /\ loginState = "SUCCESS" /\ appState = "LoginForm" /\ paused = [p \in Pages |-> FALSE]
    /\ signals = <<>> /\ link = "none" /\ toServer = <<>> /\ toClient = <<>>
    /\ requests = 0 /\ fate = [p \in Pages |-> "none"] /\ granted = FALSE

IsConnected == connection = "alive" /\ socket # "closed" /\ serverAccept
Runs == owner # "crashed"

------------------------------------------------------------------------------
(* The owner's thread: connecting and sending.                             *)

\* The Connection starts to connect and the context thread runs; resolve()
\* may throw, and then there is a Connection and no thread.
ConnectToServer ==
    /\ owner = "start"
    /\ connection' = "alive"
    /\ \/ socket' = "connecting" /\ context' = "run"
       \/ UNCHANGED <<socket, context>>
    /\ owner' = IF frontEnd = "gui" THEN "idle" ELSE "wait"
    /\ UNCHANGED <<frontEnd, serverAccept, stopped, posted, todo, pages, signals, network, history>>

\* The command line program spins until it is connected.
SeesConnection ==
    /\ owner = "wait" /\ IsConnected
    /\ owner' = "idle"
    /\ UNCHANGED <<frontEnd, core, context, posted, todo, pages, signals, network, history>>

\* send(): isConnected() first ...
Unsent(type) == [p \in Pages |-> IF RequestOf[p] = type THEN "unsent" ELSE fate[p]]
AfterHead == IF Len(todo) = 1 THEN "idle" ELSE "check"
Check ==
    /\ owner = "check"
    /\ IF IsConnected
       THEN owner' = "use" /\ UNCHANGED <<todo, fate>>
       ELSE /\ fate' = Unsent(Head(todo))
            /\ todo' = Tail(todo)
            /\ owner' = AfterHead
    /\ UNCHANGED <<frontEnd, core, context, posted, pages, signals, network, requests, granted>>

\* ... and then _connection->send(), which posts.  If the context thread has
\* destroyed the Connection in between, the behaviour is undefined.
Use ==
    /\ owner = "use"
    /\ IF connection = "alive"
       THEN /\ posted' = Append(posted, Head(todo))
            /\ fate' = [p \in Pages |-> IF RequestOf[p] = Head(todo) THEN "sent" ELSE fate[p]]
            /\ todo' = Tail(todo)
            /\ owner' = AfterHead
       ELSE owner' = "crashed" /\ UNCHANGED <<posted, fate, todo>>
    /\ UNCHANGED <<frontEnd, core, context, pages, signals, network, requests, granted>>

\* Any other operation of the Client: one message, one send.
MakeRequest ==
    /\ owner = "idle" /\ requests < MaxRequests
    /\ frontEnd = "cli" \/ appState = "ChatWindowForm"
    /\ \E type \in Requests : todo' = <<type>>
    /\ owner' = "check" /\ requests' = requests + 1
    /\ UNCHANGED <<frontEnd, core, context, posted, pages, signals, network, fate, granted>>

------------------------------------------------------------------------------
(* The owner's thread: disconnectFromServer, from the command line.        *)

Disconnect ==
    /\ owner = "idle" /\ frontEnd = "cli"
    /\ posted' = IF IsConnected THEN Append(posted, "close") ELSE posted
    /\ owner' = "stop"
    /\ UNCHANGED <<frontEnd, core, context, todo, pages, signals, network, history>>

Stop ==
    /\ owner = "stop"
    /\ stopped' = TRUE /\ owner' = "join"
    /\ UNCHANGED <<frontEnd, connection, socket, serverAccept, context, posted, todo, pages,
                   signals, network, history>>

\* disconnectFromServer joins the context thread, unless it runs on it.
MustJoin_Always(thread) == TRUE
MustJoin_Never(thread) == FALSE
MustJoin(thread) == thread # "context"
Join ==
    /\ owner = "join" /\ (MustJoin("owner") => context \in {"none", "done"})
    /\ connection' = "null" /\ socket' = "closed" /\ owner' = "gone"
    /\ UNCHANGED <<frontEnd, serverAccept, stopped, context, posted, todo, pages, signals,
                   network, history>>

------------------------------------------------------------------------------
(* The owner's thread: the pages.                                          *)

\* LoadingSpinner::start and stop, which disable and enable the page.
Pause_Enabled(p) == paused' = paused
Pause(p) == paused' = [paused EXCEPT ![p] = TRUE]
Resume(p) == paused' = [paused EXCEPT ![p] = FALSE]

\* A button of an enabled page of the form that is shown.
Button(p) == /\ owner = "idle" /\ frontEnd = "gui"
             /\ appState = FormOf[p] /\ ~paused[p]

SignIn ==
    /\ Button("login") /\ requests < MaxRequests
    /\ Pause("login") /\ loginState' = "IN_PROGRESS"
    /\ todo' = <<"LoginRequest">> /\ owner' = "check"
    /\ requests' = requests + 1 /\ fate' = [fate EXCEPT !["login"] = "none"]
    /\ UNCHANGED <<frontEnd, core, context, posted, appState, signals, network, granted>>

\* The page is paused before the fields are validated, and stays paused when
\* one of them is not valid.
CreateAccount ==
    /\ Button("registration") /\ requests < MaxRequests
    /\ Pause("registration")
    /\ \/ todo' = <<"RegistrationRequest">> /\ owner' = "check"
          /\ fate' = [fate EXCEPT !["registration"] = "none"]
       \/ fate' = Unsent("RegistrationRequest") /\ UNCHANGED <<todo, owner>>
    /\ requests' = requests + 1
    /\ UNCHANGED <<frontEnd, core, context, posted, loginState, appState, signals, network, granted>>

SwitchForm ==
    /\ \/ Button("login") /\ appState' = "RegistrationForm"
       \/ Button("registration") /\ appState' = "LoginForm"
    /\ UNCHANGED <<frontEnd, core, context, posted, owner, todo, loginState, paused, signals,
                   network, history>>

\* requestChannels asks isConnected() itself before it asks for the two lists.
RequestChannels ==
    /\ Button("channels") /\ requests < MaxRequests
    /\ Pause("channels")
    /\ IF IsConnected
       THEN /\ todo' = <<"ChannelListRequest", "ChannelSubscriptionListRequest">>
            /\ owner' = "check" /\ fate' = [fate EXCEPT !["channels"] = "none"]
       ELSE fate' = Unsent("ChannelListRequest") /\ UNCHANGED <<todo, owner>>
    /\ requests' = requests + 1
    /\ UNCHANGED <<frontEnd, core, context, posted, loginState, appState, signals, network, granted>>

\* onLogin and onRegistration: resume, and change the form on success.
LoginSucceeded_Always(ok) == TRUE
LoginSucceeded(ok) == loginState = "SUCCESS"
OnLogin(s) ==
    /\ Resume("login")
    /\ appState' = IF LoginSucceeded(s.ok) THEN "ChatWindowForm" ELSE appState
OnRegistration(s) ==
    /\ Resume("registration")
    /\ appState' = IF s.ok THEN "LoginForm" ELSE appState

OnSignal ==
    /\ owner = "idle" /\ signals # <<>>
    /\ LET s == Head(signals) IN
       \/ s.name = "LoginAnswer" /\ OnLogin(s)
       \/ s.name = "RegistrationAnswer" /\ OnRegistration(s)
       \/ s.name = "ChannelListRequest" /\ Resume("channels") /\ UNCHANGED appState
       \/ s.name = "onDisconnect" /\ paused' = [p \in Pages |-> FALSE] /\ UNCHANGED appState
    /\ signals' = Tail(signals)
    /\ UNCHANGED <<frontEnd, core, context, posted, owner, todo, loginState, network, history>>

------------------------------------------------------------------------------
(* The context thread.                                                     *)

Handles == context = "run" /\ ~stopped /\ Runs

\* Client's own handlers print, and so do those that the command line program
\* overrides; the one for a history takes each message for a text, and throws
\* when it is not one.  The ConnectionManager's emit a signal.
Prints == frontEnd = "cli"
AppThrows(type) == Prints /\ VoiceMessages /\ type = "MessageHistoryAnswer"
Emit(name, ok) == signals' = IF Prints THEN signals
                             ELSE Append(signals, [name |-> name, ok |-> ok])

\* The handler of async_connect; the server accepts and says so.
Connected ==
    /\ Handles /\ socket = "connecting"
    /\ \/ /\ socket' = "open" /\ link' = "up"
          /\ toClient' = <<[type |-> "ServerAccept", body |-> "none", ok |-> TRUE]>>
       \/ socket' = "failed" /\ UNCHANGED <<link, toClient>>
    /\ UNCHANGED <<frontEnd, connection, serverAccept, stopped, context, posted, owner, todo, pages,
                   signals, toServer, history>>

\* A posted function: a message is written, the socket is closed.  A write
\* that fails closes the socket; what is written into a link that has gone need
\* not fail, and is lost.
RunPosted ==
    /\ Handles /\ posted # <<>>
    /\ posted' = Tail(posted)
    /\ \/ /\ Head(posted) # "close" /\ socket = "open"
          /\ toServer' = IF link = "up" THEN Append(toServer, Head(posted)) ELSE toServer
          /\ UNCHANGED socket
       \/ /\ Head(posted) = "close" \/ socket # "open" \/ link # "up"
          /\ socket' = "closed" /\ UNCHANGED toServer
    /\ UNCHANGED <<frontEnd, connection, serverAccept, stopped, context, owner, todo, pages, signals,
                   link, toClient, history>>

\* Reading fails once the peer has gone, whatever it had still sent, and may
\* fail some time after nothing passes any more.
ReadFails ==
    /\ Handles /\ socket = "open" /\ link \in {"down", "silent"}
    /\ socket' = "closed" /\ toClient' = <<>>
    /\ UNCHANGED <<frontEnd, connection, serverAccept, stopped, context, posted, owner, todo, pages,
                   signals, link, toServer, history>>

\* The other handlers of the ConnectionManager emit signals that resume no page.
Awaited(type) == \E p \in Pages : SignalOf[p] = type
OnAnswer(m) ==
    /\ loginState' = IF m.type # "LoginAnswer" \/ Prints THEN loginState
                     ELSE IF m.ok THEN "SUCCESS" ELSE "FAILED"
    /\ IF Awaited(m.type) THEN Emit(m.type, m.ok) ELSE UNCHANGED signals

\* loop() runs after every handler, so it finds the one message that was read.
\* An exception, of an any_cast or out of a handler, ends the process.
BadCast(m) == m.type \in DOMAIN LoopCast /\ LoopCast[m.type] \notin {"none", m.body}
Loop ==
    /\ Handles /\ socket = "open" /\ toClient # <<>>
    /\ toClient' = Tail(toClient)
    /\ LET m == Head(toClient) IN
       IF BadCast(m) \/ AppThrows(m.type)
       THEN context' = "threw" /\ owner' = "crashed" /\ UNCHANGED <<serverAccept, loginState, signals>>
       ELSE /\ serverAccept' = (serverAccept \/ m.type = "ServerAccept")
            /\ OnAnswer(m)
            /\ UNCHANGED <<context, owner>>
    /\ UNCHANGED <<frontEnd, connection, socket, stopped, posted, todo, appState, paused, link,
                   toServer, history>>

\* run_one() returns 0: the context was stopped, or it has nothing to wait for
\* and is stopped from now on.
NoWork == socket \notin {"connecting", "open"} /\ posted = <<>>
LoopEnds ==
    /\ context = "run" /\ Runs /\ (stopped \/ NoWork)
    /\ stopped' = TRUE /\ context' = "ended"
    /\ UNCHANGED <<frontEnd, connection, socket, serverAccept, posted, owner, todo, pages, signals,
                   network, history>>

ForgetAccept ==
    /\ context = "ended" /\ Runs
    /\ serverAccept' = FALSE /\ context' = "onDisconnect"
    /\ UNCHANGED <<frontEnd, connection, socket, stopped, posted, owner, todo, pages, signals,
                   network, history>>

\* Client::onDisconnect does nothing.  ConnectionManager::onDisconnect calls
\* disconnectFromServer, on this very thread: it is not joined, and the
\* Connection is destroyed.
OnDisconnect ==
    /\ context = "onDisconnect" /\ Runs
    /\ IF Prints
       THEN context' = "done" /\ UNCHANGED <<connection, socket>>
       ELSE /\ ~MustJoin("context")   \* it would wait for itself
            /\ connection' = "null" /\ socket' = "closed" /\ context' = "reset"
    /\ UNCHANGED <<frontEnd, serverAccept, stopped, posted, owner, todo, pages, signals, network,
                   history>>

Disconnected ==
    /\ context = "reset" /\ Runs
    /\ loginState' = "FAILED" /\ Emit("onDisconnect", FALSE)
    /\ context' = "done"
    /\ UNCHANGED <<frontEnd, core, posted, owner, todo, appState, paused, network, history>>

------------------------------------------------------------------------------
(* The environment: the server, and the network.                           *)

\* The server takes a request and answers it; a ping comes back, a MessageAll
\* is not answered.
ServerAnswers ==
    /\ link = "up" /\ toServer # <<>>
    /\ toServer' = Tail(toServer)
    /\ LET type == Head(toServer) IN
       \/ /\ type \in DOMAIN Answer
          /\ \E ok \in IF type \in {"LoginRequest", "RegistrationRequest"} THEN BOOLEAN ELSE {TRUE} :
               /\ toClient' = Append(toClient,
                    [type |-> Answer[type].type,
                     body |-> Arrives(Answer[type].type, Answer[type].body), ok |-> ok])
               /\ granted' = (granted \/ (type = "LoginRequest" /\ ok))
       \/ /\ type = "ServerPing"
          /\ toClient' = Append(toClient, [type |-> type, body |-> "none", ok |-> TRUE])
          /\ UNCHANGED granted
       \/ type = "MessageAll" /\ UNCHANGED <<toClient, granted>>
    /\ UNCHANGED <<frontEnd, core, context, posted, owner, todo, pages, signals, link, requests, fate>>

ServerBroadcasts ==
    /\ link = "up"
    /\ LET m == [type |-> "ServerMessage", body |-> "none", ok |-> TRUE]
       IN  /\ Len(SelectSeq(toClient, LAMBDA x : x = m)) < MaxBroadcasts
           /\ toClient' = Append(toClient, m)
    /\ UNCHANGED <<frontEnd, core, context, posted, owner, todo, pages, signals, link, toServer,
                   history>>

LinkFails ==
    /\ link = "up"
    /\ link' \in {"down", "silent"}
    /\ UNCHANGED <<frontEnd, core, context, posted, owner, todo, pages, signals, toServer, toClient,
                   history>>

\* What was on its way then need not come through, the last message first.
LoseLast ==
    /\ link \in {"down", "silent"} /\ toClient # <<>>
    /\ toClient' = Front(toClient)
    /\ UNCHANGED <<frontEnd, core, context, posted, owner, todo, pages, signals, link, toServer,
                   history>>

Owner == ConnectToServer \/ SeesConnection \/ Check \/ Use \/ Stop \/ Join
User == MakeRequest \/ Disconnect \/ SignIn \/ CreateAccount \/ SwitchForm \/ RequestChannels
ContextThread == Connected \/ RunPosted \/ ReadFails \/ Loop \/ LoopEnds \/ ForgetAccept
                 \/ OnDisconnect \/ Disconnected
Environment == ServerAnswers \/ ServerBroadcasts \/ LinkFails \/ LoseLast

Next == Owner \/ User \/ OnSignal \/ ContextThread \/ Environment

Spec == Init /\ [][Next]_vars

\* Both threads are scheduled, and the io_context runs every handler that is
\* ready: a read is told that the server has closed, never that the link is
\* silent.  The user, the server and the network owe nothing.
FairSpec == /\ Spec
            /\ WF_vars(Owner) /\ WF_vars(OnSignal)
            /\ WF_vars(Connected) /\ WF_vars(RunPosted) /\ WF_vars(Loop)
            /\ WF_vars(link = "down" /\ ReadFails)
            /\ WF_vars(LoopEnds) /\ WF_vars(ForgetAccept) /\ WF_vars(OnDisconnect)
            /\ WF_vars(Disconnected)

------------------------------------------------------------------------------
\* The types, and that an operation of the owner has sends left exactly while
\* its thread is in one.
TypeOK ==
    /\ frontEnd \in FrontEnds
    /\ connection \in {"null", "alive"} /\ socket \in {"closed", "connecting", "open", "failed"}
    /\ serverAccept \in BOOLEAN /\ stopped \in BOOLEAN
    /\ context \in {"none", "run", "ended", "onDisconnect", "reset", "done", "threw"}
    /\ owner \in {"start", "wait", "idle", "check", "use", "stop", "join", "gone", "crashed"}
    /\ posted \in Seq(DOMAIN ClientRequest \cup {"close"})
    /\ todo \in Seq(DOMAIN ClientRequest) /\ (owner \in {"check", "use"} => todo # <<>>)
    /\ loginState \in {"SUCCESS", "IN_PROGRESS", "FAILED"}
    /\ appState \in {FormOf[p] : p \in Pages} /\ paused \in [Pages -> BOOLEAN]
    /\ signals \in Seq([name : {SignalOf[p] : p \in Pages} \cup {"onDisconnect"}, ok : BOOLEAN])
    /\ link \in {"none", "up", "down", "silent"} /\ toServer \in Seq(DOMAIN ClientRequest)
    /\ toClient \in Seq([type : MessageType, ok : BOOLEAN,
                        body : {"none"} \cup {Answer[type].body : type \in DOMAIN Answer}])
    /\ requests \in Nat /\ fate \in [Pages -> {"none", "sent", "unsent"}] /\ granted \in BOOLEAN

\* The chat is shown only to a user whose login the server has accepted: the
\* slot of the login page reads loginState, which the context thread writes,
\* later than the answer it was called for.
ChatMeansLoggedIn == appState = "ChatWindowForm" => granted

\* How often the request of a page is under way, as request, answer or signal;
\* once the context thread has ended, what it left behind goes nowhere.
Times(s, x) == Len(Only(s, {x}))
TypesOf(messages) == [i \in DOMAIN messages |-> messages[i].type]
NamesOf(slots) == [i \in DOMAIN slots |-> slots[i].name]
UnderWay(p) ==
    Times(NamesOf(signals), SignalOf[p])
        + IF context = "done" THEN 0
          ELSE Times(posted, RequestOf[p]) + Times(toServer, RequestOf[p])
               + Times(TypesOf(toClient), SignalOf[p])

\* An answer finds the page that has asked: while it is under way, the page is
\* shown and paused, so that there is only one, and onRegistration cannot pull
\* a user out of the chat.
AnswerFindsItsPage == \A p \in Pages :
    UnderWay(p) > 0 => UnderWay(p) = 1 /\ paused[p] /\ appState = FormOf[p]

\* loop() casts every body without a handler for bad_any_cast, and the context
\* thread has none either: the three tables of the protocol agree.
NoBadCast == context # "threw"

\* The handlers of a Connection capture it: none runs once it is destroyed,
\* whichever thread destroys it.
NoHandlerWithoutConnection == connection = "null" => context # "run"

\* A page whose request was sent is enabled again as soon as there is anything
\* to enable it for: an answer has come through, or the connection has been
\* closed at either end; unless the program has crashed, or the link has gone
\* silent before the answer was through.  A page waits for ever for a server
\* that does not answer and behind a silent link: there is no timeout.
Answered(p) == SignalOf[p] \in ToSet(TypesOf(toClient)) \cup ToSet(NamesOf(signals))
Ended == link = "down" \/ socket = "closed"
Unanswerable(p) == link = "silent" /\ socket = "open" /\ ~Answered(p)
SentResumes == \A p \in Pages :
    (paused[p] /\ fate[p] = "sent" /\ (Answered(p) \/ Ended))
        ~> (~paused[p] \/ owner = "crashed" \/ Unanswerable(p))

==============================================================================
