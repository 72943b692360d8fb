------------------------------- MODULE Server -------------------------------
(***************************************************************************)
(* Server::Server and the main program around it.  Three kinds of threads: *)
(*  - io threads run the accept handler and the read handlers of the       *)
(*    Connections, which push into mIncomingMessagesQueue;                 *)
(*  - the main thread runs update(): waits for the queue, pops a message,  *)
(*    handles it with onMessage and BLOCKS on the future of the request;   *)
(*  - the handler thread of the PostgreRepositoryManager runs the request. *)
(* mConnectionsPointers is written by the accept handler and by            *)
(* messageAllClients on the main thread, without a lock.                   *)
(***************************************************************************)
EXTENDS RepositoryManager, Protocol, Selections, SequencesExt

CONSTANTS Clients,       \* client processes; each connects at most once
          nullptr,       \* a reset entry of mConnectionsPointers
          Requests,      \* the types of message that clients send
          Users,         \* the users that a login may return
          Disconnects,   \* may clients disconnect?
          DatabaseFaults,      \* may a repository call throw?
          mCriticalQueueSize,
          mNewThreadsCount,
          MaxThreads,    \* bound: io threads
          MaxMessages    \* bound: messages that clients send

ASSUME ServerAssumption ==
    /\ Callers = {"main"} /\ nullptr \notin Clients
    /\ Requests \subseteq MessageType
    /\ Users \subseteq Nat \ {0}
    /\ {Disconnects, DatabaseFaults} \subseteq BOOLEAN
    /\ {mCriticalQueueSize, mNewThreadsCount, MaxThreads} \subseteq Nat

VARIABLES mConnectionsPointers,
          mIDCounter,      \* ids handed out, from 1
          accepting,       \* the accept handler: where it is, and its newConnection
          socket,          \* per client: "none", "open" or "closed"
          reads,           \* per client: read operations started by its Connection
          connectionID,    \* per client: mConnectionID
          userID,          \* per client: userID
          mIncomingMessagesQueue,
          context,         \* mContext has not been stopped
          ioThreads,       \* threads in mContext.run()
          mainAt,          \* where the main thread is
          current,         \* the message in onMessage
          kept,            \* what erase(remove()) has computed
          asked, sent,     \* history, per client: requests queued, messages sent to it
          silent,          \* history: requests whose failure was caught and not answered
          granted          \* history: <<client, user>> of the successful logins

registry == <<mConnectionsPointers, mIDCounter, accepting, connectionID>>
network == <<socket, reads>>
history == <<asked, sent, silent, granted>>
serverVars == <<registry, network, userID, mIncomingMessagesQueue, context, ioThreads,
                mainAt, current, kept, history>>
vars == <<managerVars, serverVars>>

Nobody == [at |-> "idle", client |-> nullptr]
NoMessage == [client |-> nullptr, type |-> "none", body |-> "none", n |-> 0]

Init ==
    /\ ManagerInit
    /\ mConnectionsPointers = <<>> /\ mIDCounter = 1 /\ accepting = Nobody
    /\ socket = [c \in Clients |-> "none"] /\ reads = [c \in Clients |-> 0]
    /\ connectionID = [c \in Clients |-> 0] /\ userID = [c \in Clients |-> 1]
    /\ mIncomingMessagesQueue = <<>> /\ context = TRUE /\ ioThreads = 0
    /\ mainAt = "start" /\ current = NoMessage /\ kept = <<>>
    /\ asked = [c \in Clients |-> <<>>] /\ sent = [c \in Clients |-> <<>>]
    /\ silent = [c \in Clients |-> {}] /\ granted = {}

------------------------------------------------------------------------------
(* The tables of onMessage.                                                *)

\* The requests whose body is not looked at, and those that are executed
\* without the user of the connection.
BodyIgnored == {"ChannelListRequest", "ChannelSubscriptionListRequest"}
WithoutSender == {"ChannelListRequest", "MessageHistoryRequest", "ReplyHistoryRequest",
                  "RegistrationRequest", "LoginRequest"}

\* The any_cast of the body of a request: it throws when the body is another
\* one.  The body it asks for is the one that the sender has serialized.
CastSucceeds(m) == m.type \in BodyIgnored \/ m.body = OutBody(m.type)

NoUser == 0
WorkOf(m) == [type |-> m.type, client |-> m.client,
              user |-> IF m.type \in WithoutSender THEN NoUser ELSE userID[m.client]]

\* Any request that the main thread may push can be pushed.
ASSUME WorkAssumption ==
    [type : Requests \cap DOMAIN Answer, client : Clients, user : Users \cup {NoUser, 1}] \subseteq Work

------------------------------------------------------------------------------
(* The io threads.                                                         *)

IoRuns == context /\ ioThreads > 0
CanRead(c) == reads[c] > 0 /\ socket[c] = "open"

\* The accept handler, up to push_back: it asks the socket for its remote
\* endpoint, which throws if the client has gone again, and sends ServerAccept.
Accept(c) ==
    /\ IoRuns /\ mainAt # "crashed"
    /\ accepting = Nobody /\ socket[c] = "none"
    /\ socket' = [socket EXCEPT ![c] = "open"]
    /\ sent' = [sent EXCEPT ![c] = Append(@, [type |-> "ServerAccept", body |-> "none"])]
    /\ accepting' = [at |-> "push", client |-> c]
    /\ UNCHANGED <<managerVars, mConnectionsPointers, mIDCounter, connectionID, reads,
                   userID, mIncomingMessagesQueue, context, ioThreads, mainAt, current, kept,
                   asked, silent, granted>>

\* An exception in an io thread terminates the process.
AcceptThrows ==
    /\ IoRuns /\ Disconnects /\ mainAt # "crashed" /\ accepting = Nobody
    /\ \E c \in Clients : socket[c] = "none"
    /\ mainAt' = "crashed"
    /\ UNCHANGED <<managerVars, registry, network, userID, mIncomingMessagesQueue, context,
                   ioThreads, current, kept, history>>

PushConnection ==
    /\ accepting.at = "push" /\ mainAt # "crashed"
    /\ mConnectionsPointers' = Append(mConnectionsPointers, accepting.client)
    /\ accepting' = [accepting EXCEPT !.at = "connect"]
    /\ UNCHANGED <<managerVars, mIDCounter, connectionID, network, userID,
                   mIncomingMessagesQueue, context, ioThreads, mainAt, current, kept, history>>

\* A push_back that reallocates the vector under the loops of messageAllClients
\* is undefined behaviour: besides what the steps of the two threads in some
\* order do, the process may crash.
PushRaces ==
    /\ accepting.at = "push" /\ mainAt \in {"broadcast", "purge", "erase"}
    /\ mainAt' = "crashed"
    /\ UNCHANGED <<managerVars, registry, network, userID, mIncomingMessagesQueue, context,
                   ioThreads, current, kept, history>>

\* back()->connectToClient(mIDCounter++), with whatever is at the back now; a
\* null or missing back is dereferenced.
ConnectBack ==
    /\ accepting.at = "connect" /\ mainAt # "crashed"
    /\ mIDCounter' = mIDCounter + 1
    /\ accepting' = Nobody
    /\ IF mConnectionsPointers = <<>> \/ Last(mConnectionsPointers) = nullptr
       THEN mainAt' = "crashed" /\ UNCHANGED <<connectionID, reads>>
       ELSE LET back == Last(mConnectionsPointers)
            IN  /\ IF socket[back] = "open"
                   THEN /\ connectionID' = [connectionID EXCEPT ![back] = mIDCounter]
                        /\ reads' = [reads EXCEPT ![back] = @ + 1]
                   ELSE UNCHANGED <<connectionID, reads>>
                /\ UNCHANGED mainAt
    /\ UNCHANGED <<managerVars, mConnectionsPointers, socket, userID, mIncomingMessagesQueue,
                   context, ioThreads, current, kept, history>>

\* A read handler queues a message: addToIncomingMessageQueue, whose
\* push_back wakes the main thread if it is blocked.  The message is a copy of
\* the buffer, which holds the body of the last message of this connection that
\* came with one the switch knows; two reads at a time (a second
\* connectToClient) share the buffer, and it may hold any of them.
Restores(type) == type \in DOMAIN SharedBody \ BodyIgnored
Received(types) == LET full == Only(types, {type \in MessageType : Restores(type)})
                   IN  IF full = <<>> THEN "none" ELSE InBody(Last(full))
Bodies(types) == {"none"} \cup {InBody(type) : type \in {t \in ToSet(types) : Restores(t)}}
MessagesSent == FoldFunction(LAMBDA l, n : Len(l) + n, 0, asked)
QueueMessage(c) ==
    /\ IoRuns /\ mainAt # "crashed" /\ CanRead(c) /\ MessagesSent < MaxMessages
    /\ \E type \in Requests : LET types == Append(asked[c], type) IN
       \E body \in IF reads[c] > 1 THEN Bodies(types) ELSE {Received(types)} :
         /\ asked' = [asked EXCEPT ![c] = Append(@, type)]
         /\ mIncomingMessagesQueue' =
              Append(mIncomingMessagesQueue,
                     [client |-> c, type |-> type, body |-> body, n |-> Len(asked[c]) + 1])
    /\ mainAt' = IF mainAt = "blocked" THEN "test" ELSE mainAt
    /\ UNCHANGED <<managerVars, registry, network, userID, context, ioThreads, current, kept,
                   sent, silent, granted>>

\* A read or write of the Connection fails and its handler closes the socket.
SocketCloses(c) ==
    /\ IoRuns /\ Disconnects /\ mainAt # "crashed" /\ socket[c] = "open"
    /\ socket' = [socket EXCEPT ![c] = "closed"]
    /\ reads' = [reads EXCEPT ![c] = 0]
    /\ UNCHANGED <<managerVars, registry, userID, mIncomingMessagesQueue, context, ioThreads,
                   mainAt, current, kept, history>>

Io == \/ \E c \in Clients : Accept(c) \/ QueueMessage(c) \/ SocketCloses(c)
      \/ AcceptThrows \/ PushConnection \/ PushRaces \/ ConnectBack

------------------------------------------------------------------------------
(* The main thread: start(), then update() for ever.                       *)

unmoved == <<registry, network, kept, granted, silent, asked>>

Start ==
    /\ mainAt = "start"
    /\ ioThreads' = 1
    /\ HandleRequests
    /\ mainAt' = "test"
    /\ UNCHANGED <<unmoved, userID, mIncomingMessagesQueue, context, current, sent>>

\* mIncomingMessagesQueue.wait(): test, and block whatever has come since.
WaitTest ==
    /\ mainAt = "test"
    /\ mainAt' = IF mIncomingMessagesQueue = <<>> THEN "block" ELSE "spawn"
    /\ UNCHANGED <<managerVars, unmoved, userID, mIncomingMessagesQueue, context, ioThreads,
                   current, sent>>

WaitBlock ==
    /\ mainAt = "block"
    /\ mainAt' = "blocked"
    /\ UNCHANGED <<managerVars, unmoved, userID, mIncomingMessagesQueue, context, ioThreads,
                   current, sent>>

SpuriousWakeup ==
    /\ mainAt = "blocked"
    /\ mainAt' = "test"
    /\ UNCHANGED <<managerVars, unmoved, userID, mIncomingMessagesQueue, context, ioThreads,
                   current, sent>>

\* More threads for a long queue; they are only ever added.
SpawnThreads ==
    /\ mainAt = "spawn"
    /\ ioThreads' = IF Len(mIncomingMessagesQueue) > mCriticalQueueSize
                    THEN LET n == ioThreads + mNewThreadsCount
                         IN  IF n > MaxThreads THEN MaxThreads ELSE n
                    ELSE ioThreads
    /\ mainAt' = "drain"
    /\ UNCHANGED <<managerVars, unmoved, userID, mIncomingMessagesQueue, context, current, sent>>

Drained ==
    /\ mainAt = "drain" /\ mIncomingMessagesQueue = <<>>
    /\ mainAt' = "test"
    /\ UNCHANGED <<managerVars, unmoved, userID, mIncomingMessagesQueue, context, ioThreads,
                   current, sent>>

\* client->send(m), from onMessage
SendTo(c, m) == sent' = [sent EXCEPT ![c] = Append(@, m)]

\* pop_front and onMessage, up to the point where it blocks or returns.
Handle(m) ==
    \/ /\ m.type = "ServerPing"
       /\ SendTo(m.client, [type |-> "ServerPing", body |-> m.body])
       /\ UNCHANGED <<managerVars, mainAt>>
    \/ /\ m.type = "MessageAll"
       /\ mainAt' = "broadcast"
       /\ UNCHANGED <<managerVars, sent>>
    \/ /\ m.type \in DOMAIN Answer /\ CastSucceeds(m)
       /\ \E p \in Priorities : PushRequest("main", WorkOf(m), p)
       /\ mainAt' = "awaiting"
       /\ UNCHANGED sent
    \/ /\ m.type \in DOMAIN Answer /\ ~CastSucceeds(m)
       /\ mainAt' = "stopping"
       /\ UNCHANGED <<managerVars, sent>>
    \/ /\ m.type \notin DOMAIN Answer \cup {"ServerPing", "MessageAll"}
       /\ UNCHANGED <<managerVars, mainAt, sent>>

NextIndex_Back == Len(mIncomingMessagesQueue)
NextIndex == 1
Take ==
    /\ mainAt = "drain" /\ mIncomingMessagesQueue # <<>>
    /\ current' = mIncomingMessagesQueue[NextIndex]
    /\ mIncomingMessagesQueue' = RemoveAt(mIncomingMessagesQueue, NextIndex)
    /\ Handle(mIncomingMessagesQueue[NextIndex])
    /\ UNCHANGED <<unmoved, userID, context, ioThreads>>

\* mQueue.push of pushRequest, before the main thread blocks on the future.
MainPushes ==
    /\ mainAt = "awaiting" /\ QueuePush("main")
    /\ UNCHANGED serverVars

\* future.get() returns and the answer is sent; a login that has found its
\* user sets the user of the connection.
LoggedIn_Always(c, u) == /\ userID' = [userID EXCEPT ![c] = u]
                         /\ granted' = granted \cup ({<<c, u>>} \ {<<c, 0>>})
LoggedIn(c, u) == IF u # 0 THEN /\ userID' = [userID EXCEPT ![c] = u]
                                /\ granted' = granted \cup {<<c, u>>}
                  ELSE UNCHANGED <<userID, granted>>

AnswerMessage(m) == Answer[m.type]
SendAnswer ==
    /\ mainAt = "awaiting" /\ Get("main") /\ future[mine["main"].id] = "value"
    /\ SendTo(current.client, AnswerMessage(current))
    /\ IF current.type = "LoginRequest"
       THEN \E u \in Users \cup {0} : LoggedIn(current.client, u)
       ELSE UNCHANGED <<userID, granted>>
    /\ mainAt' = "drain"
    /\ UNCHANGED <<registry, network, mIncomingMessagesQueue, context, ioThreads, current, kept,
                   asked, silent>>

\* future.get() throws: only the message history catches it, without an answer;
\* any other exception leaves update() and the main function.
AnswerThrows ==
    /\ mainAt = "awaiting" /\ Get("main") /\ future[mine["main"].id] # "value"
    /\ IF current.type = "MessageHistoryRequest"
       THEN /\ mainAt' = "drain"
            /\ silent' = [silent EXCEPT ![current.client] = @ \cup {current.n}]
       ELSE mainAt' = "stopping" /\ UNCHANGED silent
    /\ UNCHANGED <<registry, network, userID, mIncomingMessagesQueue, context, ioThreads, current,
                   kept, asked, sent, granted>>

------------------------------------------------------------------------------
(* messageAllClients, for the client of the current message.               *)

Dead(c) == c = nullptr \/ socket[c] # "open"

\* The loop: live clients are sent the message, dead ones are reset.  A null
\* entry is logged with its id: onClientDisconnect dereferences it.
MessageAllClients ==
    /\ mainAt = "broadcast"
    /\ sent' = [c \in Clients |->
                  IF c \in ToSet(mConnectionsPointers) /\ ~Dead(c) /\ c # current.client
                  THEN Append(sent[c], [type |-> "ServerMessage", body |-> "none"]) ELSE sent[c]]
    /\ mConnectionsPointers' = [i \in DOMAIN mConnectionsPointers |->
                                  IF Dead(mConnectionsPointers[i]) THEN nullptr
                                  ELSE mConnectionsPointers[i]]
    /\ mainAt' = IF nullptr \in ToSet(mConnectionsPointers) THEN "crashed"
                 ELSE IF nullptr \in ToSet(mConnectionsPointers') THEN "purge" ELSE "drain"
    /\ UNCHANGED <<managerVars, mIDCounter, accepting, connectionID, network, userID,
                   mIncomingMessagesQueue, context, ioThreads, current, kept, asked, silent, granted>>

\* erase(remove(nullptr)), in two steps: remove moves what it keeps to the
\* front, so that the places behind it are null until they are erased.
Purge_NullsKept(s) == s
Purge(s) == Only(s, Clients)
RemoveNulls ==
    /\ mainAt = "purge"
    /\ LET keep == Purge(mConnectionsPointers)
           size == Len(mConnectionsPointers)
       IN  /\ kept' = [keep |-> keep, size |-> size]
           /\ mConnectionsPointers' = keep \o [i \in 1 .. size - Len(keep) |-> nullptr]
    /\ mainAt' = "erase"
    /\ UNCHANGED <<managerVars, mIDCounter, accepting, connectionID, network, userID,
                   mIncomingMessagesQueue, context, ioThreads, current, history>>

\* A push_back of the accept handler in between is moved along or overwritten.
Erase ==
    /\ mainAt = "erase"
    /\ \E late \in {<<>>, SubSeq(mConnectionsPointers, kept.size + 1, Len(mConnectionsPointers))} :
         mConnectionsPointers' = kept.keep \o late
    /\ kept' = <<>>
    /\ mainAt' = "drain"
    /\ UNCHANGED <<managerVars, mIDCounter, accepting, connectionID, network, userID,
                   mIncomingMessagesQueue, context, ioThreads, current, history>>

------------------------------------------------------------------------------
(* ~Server, when an exception has left update().                           *)

Stop_HandlerRuns ==
    /\ mainAt = "stopping"
    /\ context' = FALSE
    /\ mainAt' = "joining"
    /\ UNCHANGED <<managerVars, unmoved, userID, mIncomingMessagesQueue, ioThreads, current, sent>>
Stop ==
    /\ mainAt = "stopping"
    /\ context' = FALSE
    /\ StopHandler
    /\ mainAt' = "joining"
    /\ UNCHANGED <<unmoved, userID, mIncomingMessagesQueue, ioThreads, current, sent>>

\* run() returns in every io thread once the handler it was running has ended.
JoinThreads ==
    /\ mainAt = "joining" /\ accepting = Nobody
    /\ ioThreads' = 0
    /\ mainAt' = "destroying"
    /\ UNCHANGED <<managerVars, unmoved, userID, mIncomingMessagesQueue, context, current, sent>>

DestroyManager ==
    /\ mainAt = "destroying" /\ Destroy
    /\ mainAt' = "stopped"
    /\ UNCHANGED <<unmoved, userID, mIncomingMessagesQueue, context, ioThreads, current, sent>>

Main == \/ Start \/ WaitTest \/ WaitBlock \/ SpawnThreads \/ Drained \/ Take \/ MainPushes
        \/ SendAnswer \/ AnswerThrows \/ MessageAllClients \/ RemoveNulls \/ Erase
        \/ Stop \/ JoinThreads \/ DestroyManager

Handler == /\ mainAt # "crashed"
           /\ HandlerStep({"value"} \cup (IF DatabaseFaults THEN {"exception"} ELSE {}))
           /\ UNCHANGED serverVars

Next == Io \/ Main \/ SpuriousWakeup \/ Handler

Spec == Init /\ [][Next]_vars

\* The main thread, the handler thread and the handler of an accepted client
\* are scheduled; clients owe nothing.
FairSpec == Spec /\ WF_vars(Main) /\ WF_vars(Handler) /\ WF_vars(PushConnection \/ ConnectBack)

------------------------------------------------------------------------------

ReplyType(type) == IF type = "ServerPing" THEN "ServerPing" ELSE Answer[type].type

\* The type that answers the i-th of these requests: "none", if no code
\* answers it or its failure was caught silently.
Reply(requests, skipped, i) ==
    IF requests[i] \in DOMAIN Answer \cup {"ServerPing"} /\ i \notin skipped
    THEN ReplyType(requests[i]) ELSE "none"

\* The answers among these messages, and those to the first n requests.
Replies == MessageType \ {"ServerAccept", "ServerMessage"}
AnswersAmong(messages) == Only([i \in DOMAIN messages |-> messages[i].type], Replies)
AnswersTo(requests, skipped, n) == Only([i \in 1..n |-> Reply(requests, skipped, i)], Replies)

\* The protocol has no request ids: a client pairs answers with requests by
\* their order.  What it has been sent is, in order, the answers to the first
\* of its requests, leaving out those whose failure was caught silently.
AnswersPairUp == \A c \in Clients :
    \E n \in 0..Len(asked[c]) : AnswersAmong(sent[c]) = AnswersTo(asked[c], silent[c], n)

\* There is never more than one request in the priority queue, and only while
\* the main thread waits for it: the order that a heap does not keep among
\* equal priorities is never asked for.
OnePending == /\ Cardinality(mQueue) <= 1
              /\ mQueue # {} \/ handler = "run" => mainAt \in {"awaiting", "crashed"}

\* A request that the handler thread runs is run as the user of its connection
\* at that moment, and a connection has the user of a login of its own that
\* succeeded, or the initial one.
RunsAsConnectionUser ==
    /\ handler = "run" => running.work.user \in {NoUser, userID[running.work.client]}
    /\ \A c \in Clients : userID[c] = 1 \/ <<c, userID[c]>> \in granted

\* onClientDisconnect dereferences its client: a reset entry never survives
\* the messageAllClients that has reset it.
NullsPurged == nullptr \in ToSet(mConnectionsPointers) => mainAt \in {"purge", "erase", "crashed"}

\* The main thread blocks on a future: it is always answered.
AwaitEnds == mainAt = "awaiting" ~> mainAt # "awaiting"

\* Once an exception has left update(), the process ends: no thread is joined
\* for ever.
StopEnds == mainAt = "stopping" ~> mainAt \in {"stopped", "crashed"}
==============================================================================
