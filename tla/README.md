# A verification project for Unigram

Unigram is a messenger in C++: a server that keeps everything in PostgreSQL, a client core that
talks to it over TCP, and a Qt application on top. This directory holds TLA+ models of the parts
where the program can go wrong in ways a unit test would hardly reach, the TLC configurations that
check them on small instances, and theorems about them that TLAPS has checked for every size.

Paths are relative to `src/`. The repository has no tests; the reference is its code, and where the
models disagree with it, the code is right.

## 1. Inventory

| component | code | state it keeps | operations |
|---|---|---|---|
| SafeQueue | `Network/.../SafeQueue.hpp` | a deque, two mutexes, a condition variable | push at either end, pop at either end, `empty`, `wait` |
| Body pipeline | `SerializationHandler.hpp`, `CompressionHandler.hpp`, `EncryptionHandler.hpp` | none: a chain of handlers over a message | serialize outgoing bodies, restore incoming ones |
| Connection | `Network/.../Connection.hpp` | outgoing queue, one incoming message buffer, socket, two strands | `send`, write header and body, read header and body, `disconnect` |
| Server | `Server/.../Server.cpp` | registry of connections, incoming queue, io threads | accept, `update`, `onMessage`, broadcast, stop |
| Repository manager | `DataAccess.Postgre/PostgreRepositoryManager.hpp` | priority queue of tasks, a handler thread, futures | `pushRequest`, `privateHandleRequests`, `privatePopRequest`, `stopHandler` |
| Repositories | `PostgreRepositories.cpp`, `UsersAmountFinder.cpp`, `Utility/SQL/Database_Scheme.sql` | twelve tables | registration, login, channels, direct chats, messages, replies, reactions |
| Query builder | `QueryBuilder.hpp`, `SQLStatements.hpp` | a pending statement per table | select, insert, update, delete, `changeTable` |
| Client core | `Client.Core.Static/Client.cpp` | connection, context thread, incoming queue | connect, disconnect, one call per request, `loop` |
| Client application | `Client.Qt/ConnectionManager.cpp`, `Application.cpp` | login state, the form that is shown | signals to the pages, leaving the server |
| Chat widgets, pages | `Client.Qt/Widgets`, `Client.Qt/Pages` | lists of channels, a stack of chats, lists of messages and replies, a layout and a position in it | open, subscribe, press a row, add messages, add replies, delete, scroll, resize, log in, register |
| Logger | `Base/Logger` | a queue, a thread, the name of a file, a folder | `init`, `log`, `run`, `stop`, rotate (`fileSync`) |
| Command line client | `Client.CLI` | a menu | blocking input around the client core |
| Cryptography, Style | `Base/Crypto`, `Client.Qt/Style` | none | a hash; colours and sizes |

### How they interact

```
 client process                              server process
 pages -> Client -> Connection == TCP == Connection -> SafeQueue -> Server::update -> RepositoryManager
                                                (io threads)          (main thread)     (handler thread)
                                                                                            |
                                                                              Repositories -> PostgreSQL
```

- The io threads of a server push every message they read into one SafeQueue. The main thread waits
  for it, pops, and handles the message in `onMessage`.
- For most messages `onMessage` pushes a task to the repository manager and blocks on its future.
  The handler thread of the manager pops the task and runs the repository method.
- The answer is `send()`-ed on the connection of the client, which posts it to the write strand.
- On the client, the pages call the operations of `Client` on the Qt thread; `loop` runs on the
  context thread, between the handlers of the Connection, and hands each answer to
  `ConnectionManager`, which emits a signal that Qt queues for the slots of the pages. When the
  handlers run out, the same thread destroys the Connection. Nothing protects `_connection`,
  `_serverAccept` and `loginState`.
- A method of a repository builds its statements in the one table object of the adapter, clause by
  clause, and executes each. The query builder keeps the unfinished text from call to call.
- A chat asks for the messages and the replies of its channel once a second. Every `ChatWidget` gets
  every answer, and hands those that it takes to its `ChatHistory`, which lays them out on a surface
  of which a `ScrollArea` shows a part.
- The logger is a library that none of the programs links: any thread logs, one thread writes.
- The accept handler appends to `mConnectionsPointers` on an io thread. `messageAllClients` walks it
  and erases from it on the main thread. Nothing protects it.

### What is hard about them

- *Interleaving*: four kinds of threads share queues, a flag, futures and a vector, some under a
  mutex, some under the wrong one, some under none.
- *Failure in the middle*: a link that breaks inside a message, a database that is lost between the
  statements of one method, an exception that leaves one thread and is rethrown in another.
- *Order*: the protocol has no request numbers, so an answer belongs to a request by order alone.
- *Reused state*: the incoming buffer of a connection is never cleared, the outgoing header is a
  local variable, the user of a connection is set after the answer to the login, a statement that
  was not executed is still there for the next method, the name of a log file grows with every line.
- *Positions*: a chat is found by a row, a message by an index of an earlier layout, the messages in
  sight by a binary search over tops that replies have moved.

`PROJECT.json` lists each of these with its line, under `hazards`.

### What makes each component correct

- SafeQueue: what goes in comes out, once and in order; a pop never meets an empty deque; whoever
  waits is woken.
- Connection: at most one write at a time, of the front of the queue; a queue that is not empty
  moves; the reader never takes a header for a body; two connections are a FIFO channel.
- Server: answers pair up with requests; requests run as the user of their connection; the main
  thread never blocks for ever; a dead entry never survives in the registry.
- Manager: a task runs once, its future is answered after that and only then, no request gets lost.
- Repositories: an answer SUCCESS tells the truth; what was acknowledged keeps its rows, and is
  readable as long as no other message of its channel was refused half-way; no row points at nothing.
- Client core: no handler outlives its Connection, and whoever sends finds the one it has checked;
  the bodies that the server sends are those that `loop` casts to, because a cast that throws has
  no handler.
- Client application: the chat follows an accepted login only; an answer finds the page that has
  asked; a page that waits is enabled again once there is an answer or an end.
- Query builder: what is executed is what its own chain has asked for; a string that is written reads
  back as it was given.
- Chat pages: a channel is in one of the two lists, once; what is looked up is found, while one device
  is used and the database answers; a chat shows the messages of its channel only.
- Chat history: a message has one widget, in the order of the times; the surface has room for what is
  on it; the search for what is in sight finds all of it.
- Logger: what is logged is shown, once and in order, unless the logger is stopped or killed; the
  newest lines survive the rotation.

## 2. The modules

| module | models | extends |
|---|---|---|
| `SafeQueue` | the queue and the threads around it | |
| `Selections` | the elements of a sequence that are in a set, in their order, as pure operators | |
| `Selections_Proofs` | lemmas: induction, recursion, selections, concatenations | `Selections` |
| `Serialization` | the switches and the chain of handlers, as pure operators | |
| `Protocol` | the tables of requests, answers and casts, as pure operators | `Serialization` |
| `MessageChannel` | abstract: what two Connections promise to their owners | |
| `Connection` | one direction of a Connection, byte stream included | `Serialization`, `Selections`; instantiates `MessageChannel` |
| `Network_Proofs` | theorems of both parts of the network | `SafeQueue`, `Connection`, `Selections_Proofs` |
| `RepositoryManager` | the queue of requests, the handler thread, the futures | |
| `Server` | accepting, `update`, `onMessage`, broadcast, shutdown | `RepositoryManager`, `Protocol`, `Selections` |
| `Server_Proofs` | theorems of the manager; the server implements `ManagerSpec`; theorems of the server | `Server`, `Selections_Proofs` |
| `Repositories` | every repository method over the tables | `Selections` |
| `Repositories_Proofs` | theorems | `Repositories`, `Selections_Proofs` |
| `QueryBuilder` | the pending statement and the clauses of the four statements | |
| `QueryBuilder_Proofs` | theorems | `QueryBuilder`, `Selections_Proofs` |
| `Client` | the client core, the application and its waiting pages, and the command line program | `Protocol`, `Selections` |
| `Client_Proofs` | theorems | `Client`, `Selections_Proofs` |
| `ChatPage` | the two lists of channels, the stack of chats, the answers they wait for | |
| `ChatHistory` | the messages and replies of one chat, their layout and the scrolling | |
| `Chat_Proofs` | theorems of both | `ChatPage`, `ChatHistory`, `Selections_Proofs` |
| `FileLogger` | the queue, the thread, the files and their rotation, over several runs of a program | |
| `FileLogger_Proofs` | theorems | `FileLogger`, `Selections_Proofs` |
| `MC*` | instances for TLC | the module of that name |

Definitions keep the names of the code (`mRawQueue`, `mHandlerState`, `mConnectionsPointers`). An
operator `X_Y` (`Pop_Back`) before an operator `X` (`Pop`) is a faulty variant of it: the
properties are known to tell the two apart, because TLC finds each property violated when the
variant takes its place. `PROJECT.json` lists these pairs under `mutants`.

### SafeQueue

`push_*` holds `mScopedMutex` while it emplaces and then takes `mUniqueMutex` to notify: two actions,
`Emplace` and `Notify`. `wait` tests `empty()` under the first mutex (`TestEmpty`), takes the second
(`LockUnique`), blocks (`Block`) and returns from the condition variable (`Woken`, or
`SpuriousWakeup`). Then the loop of `Server::update` pops until the deque is empty (`Pop`,
`TestDrained`). `pc` says where each thread is. `clear`, `front`, `back` and `size` are not called
by the server beside its destructor and are left out.

### Serialization and Connection

A body is the name of the C++ type inside the `std::any`, because that is all the pipeline looks at.
`SharedBody` is the table of the two switches, in two parts (`ConversationBody`, `AccountBody`);
`EditBody` holds the two message types that only the
outgoing switch knows. `Malformed` are bodies that the archive function of a `MessageInfo` refuses with
an exception, which `YasSerializer::serialize` turns into FAILURE (`Archived`). `IncomingResult` is what the reader is told: `EncryptionHandler` and
`CompressionHandler` return SUCCESS whatever the handler behind them has returned.

A `Connection` writes *units*: one for a header, one or more for a body. Reading a header takes one
unit, whatever it is, so a stream that has lost its alignment is possible in the model.
`Decoded` compares bytes: those of another message than the header announces restore nothing.
`Enqueue` is the function that `send` posts, `HeaderWritten`, `BodyWritten` and `WriteFailed` are the
write handlers, `HeaderRead`, `BodyRead` and `ReadFailed` the read handlers. `LinkFails` is the
network; `Disconnect` and `Close` are the two halves of `disconnect()`. After `LinkFails` an idle read may
fail or wait for ever: the socket has no keepalive and no timer (`Connection.hpp:203`), so `CloseIsNoticed`
speaks of a link that works. With `SocketMayBlock` the
header that `async_write` transmits may be anything, because `writeHeader` has returned by then; the
run assumes a socket whose buffer has room for a header, `SocketMayBlock = FALSE`.

The refinement mapping to `MessageChannel` (`Between`) lists the messages that are on their way,
oldest first: the one whose body is being read, the headers on the wire, the rest of the outgoing
queue, and the posted sends.

### RepositoryManager and Server

`PushRequest` and `QueuePush` are one critical section of `pushRequest`, cut in two because the
handler thread polls `mQueue.empty()` without the mutex: a read that falls between them is a data
race, and `EmptyReads` lets it return either value. A request is known by an id, and `future` and
`runs` follow the id through its life.

`Server` composes the manager with the main thread and the io threads. `mainAt` is where the main
thread is: `wait()` takes two steps (`WaitTest`, `WaitBlock`), `Take` is `pop_front` and `onMessage`
up to the point where it blocks, `SendAnswer` and `AnswerThrows` are the two ways `future.get()`
returns, `MessageAllClients`, `RemoveNulls` and `Erase` are the broadcast and its two-part
erase-remove. `Answer`, in `Protocol`, is the table of `onMessage`: which request is answered by
which type and body. The accept handler is `Accept`, `PushConnection` and `ConnectBack`, three steps because it
shares the vector with the main thread; it crashes on a null, which is what `RemoveNulls` leaves in the
places behind those that are kept. The data race on the vector is modelled by the orders of the
steps, by an element that `Erase` may overwrite, and by `PushRaces`: undefined behaviour may also end
the process. `AcceptThrows` is `remote_endpoint()` on a client that has gone again.

`SafeQueue` is checked on its own, and the server model uses its queue as a sequence and its `wait`
as the two steps above. A lost wakeup therefore happens in the server too; liveness properties of
the server start after the wakeup.

The body that a message is queued with is the one restored last on its connection, which for a type
without a body, or one the switch does not know, is that of an earlier message (`Received`).
`messageClient` has no caller and is left out. A connection whose socket is closed can still be sent
to, as in the code.

### Client

Two threads share the state. `owner` says where the thread of the event loop is: `send()` tests
`isConnected()` (`Check`) and then uses `_connection` (`Use`), and `todo` holds the sends that its
operation has left, two for `requestChannels`. `context` says where the context thread is: it runs
the handlers (`Connected`, `RunPosted`, `ReadFails`), takes the message that was read through `loop`
(`Loop`), and after the last handler stops (`LoopEnds`), resets `_serverAccept` (`ForgetAccept`) and
calls `onDisconnect` (`OnDisconnect`, `Disconnected`). What `Connection` does inside is left to the
promise of `MessageChannel`: `posted` are the functions posted to the context, `toServer` and
`toClient` what is on its way. `socket` is "failed" when the connect has failed, because the socket
stays open then.

A link that fails is "down" when the context is told of it and "silent" when it is not; in both cases
what was on its way may be lost, the last message first (`LoseLast`).

An exception of a cast in `loop` (`BadCast`) or out of a handler of the program (`AppThrows`) leaves
the context thread and ends the process. The command line program prints an answer where the Qt
application signals it (`Prints`); it takes every message of a history for a text, so with
`VoiceMessages = TRUE` a channel with a voice message in it violates `NoBadCast`. The run says FALSE.

The two programs that use a `Client` are two values of `frontEnd`. The Qt application has three
forms (`appState`) with pages that pause themselves with a spinner (`paused`) until their answer or
`onDisconnect` is signalled; `signals` is the event queue of Qt. The command line program spins until
it is connected, makes requests, and is the one that calls `disconnectFromServer` on its own thread
(`Disconnect`, `Stop`, `Join`). `fate` and `granted` are history: what became of the last request of
a page, and whether the server has accepted a login.

The server is the environment: `ServerAnswers` answers with the types and bodies of `Protocol`,
which are those of the `Server` module, in the order of the requests, as `AnswersPairUp` shows there.

Three things in the model surprise, without a document that says otherwise: a page waits for ever for a
server that does not answer and behind a link that has gone silent, because there is no timeout; a
page whose request finds no connection is not resumed, because `onMessageSendFailed` only logs; and
the registration page pauses itself before it looks at its fields, and stays paused when one is not
valid. `fate` is "unsent" for the last two, and `SentResumes` is about the others: once an answer has
come through, or the connection is closed at either end, the page is enabled again. It asks nothing of
the server, which may stop answering at any time (a lost wakeup does that to it).

### Repositories

Every method is one action, but its statements are separate transactions and the connection may be
lost at any of them. The parameter `o = [at, applied]` says at which statement, if any, and whether
that statement was committed although nobody was told. `Answered(o, i)` and `Applied(o, i)` say of
the i-th statement whether its result arrives and whether it has taken effect. A method that throws
ends the server (`AnswerThrows` in `Server`), `Restart` starts it again.

Requests name what a client may have on its screen: users that have logged in, channels and messages
that exist or have existed. The sender of a message is always a registered user. Serial numbers have
no gaps here; that an insert which fails burns a number of a sequence changes nothing that a property
looks at. A hash is the pair of a tag and what is hashed: `ChatName` keeps the concatenation of
decimal digits, so names of direct chats collide here when they collide in the code. A name that a user
gives may be such a hash, too: `Names` holds pairs of both tags, since the code keeps all of them in one
column and looks none of them up by kind.

A stored message is readable when every row of its channel has a content, because `getMessageHistory`
throws at the first that has none. A `storeMessage` that is cut short may leave such a row behind, and
answers FAILED; `refused` remembers its channel. `AcknowledgedReadable` says that an acknowledged message
keeps all its own rows whatever happens, and that the history of its channel can be read unless a store
was refused there; what such a refusal does to the channel is shown by `HistoryReadable`.

`SuccessIsTrue` compares an answer SUCCESS with the tables at each statement that may be lost. It is as
strong as the code lets it be. What it does not say, since the code does not look at the result of its
last statement or calls nothing a success:

- `registerUser`, `subscribeToChannel`, `leaveChannel`, `deleteChannel` and the membership of the creator
  in `createChannel`: nothing is said of a call in which the connection was lost; and a registration whose
  email `varchar(32)` refuses is answered SUCCESS, too.
- `deleteChannel` answers SUCCESS and deletes nothing as long as the channel has a subscriber: the
  foreign key of `user_channels` would set a NOT NULL column to NULL. The creator is a subscriber. So a
  channel that is still there after a SUCCESS has one: that is what is checked.
- `updateMessageReactions` answers SUCCESS for a message that is gone.
- `editMessage` always answers FAILED: its select names a table that its query does not have.
- An answer FAILED, or an exception, for something that was done (a connection lost behind the commit)
  is no lie that these properties look at.

### QueryBuilder

A text is a sequence of lexemes, a word or a list of items with their commas; a condition is opaque,
because the builder copies it. `statement` is `_statement`, the text that has not been executed; `call`
is the clause that the caller has called last, and the guards of the clauses are the order in which
their descriptions allow them. `asked` is history: the same statement as SQL writes it, built beside
the text. `Begin` is `Select()` and its three sisters: a pending statement of the same type is
continued, one of another type is refused with an exception. `Execute` has the three outcomes of the
adapter and the one of a connection that is closed; in each the statement is gone afterwards.
`Abandon` is an exception that leaves a chain between two clauses, and `abandoned` remembers it until
the statement is cleared, by `changeTable` or by the next execution. `Literal` and `InnerQuotes` are
the quoting, character by character, since the search for the next quote is what may go wrong: items
and data are sequences of `Chars`, of which the quote is one.

An item that is equal to the last one loses its comma (`SQLStatements.hpp:99` and `:326` compare the
items and not their places). No caller repeats one, and `QueryBuilderAssumption` says so. A chain that
an exception has left continues in the next method only when that method does not change the table;
every method of the repositories does.

### ChatPage

`list` is the list of the window with all channels, `main` that of the user, `added` the map of those
that have been listed, and `known` the static list of the last answer. `asked` and `signals` are the
two queues between the pages and the server. `RequestChannels` asks for both lists, `SetChannels` and
`AddSubscribed` are the slots, `AddChannel` is the user who subscribes, `Press` the row that is opened.
`chats` is the stack of widgets, each with the channel it has now and, as history, the channels whose
messages it holds. `lookups` says whether each search in the static list has found its channel; the
code uses the result without a test. With `SecondDevice` the user may get a subscription between the
two answers, and the search runs off the end. `LoseDatabase` is the end of the connection that the
server has to PostgreSQL: from then on both lists are answered empty, a history may not be answered with
anything, and a subscription is acknowledged and not stored. An empty list replaces the one that the
client has, and the next row that is pressed or added finds nothing in it, with one device, too.
`LookupsFindTheirChannel` is therefore about the time before, and the run, and the theorem, are about one
device. `EachListedOnce` is about the channels that the client was told of (`added`) and survives both.

The bar over a chat has the buttons Leave and Delete and declares a signal for each
(`ChannelBar.hpp:29`); nothing is connected to either, so no row is ever taken from `main`.

### ChatHistory

The widgets of a chat have integer heights and positions. `Placed` is `updateLayout`, from the last
message up, with the replies taken by falling id: `Below` tells for each message what its loop has when
it comes to it, the room that is left and the replies that wait. `FindVisible` is the binary search
(`Halved`, by passes of `Narrowed`) and the two scans after it; `ScrolledTo`, `ScrolledToShow` and
`LayoutAfterResize` are the scrolling that the layout calls and that calls the layout. `AddMessage`,
`AddReply` and `Deleted` are the three operations. `RequestHistory` is the poll, `TakeMessages` and
`TakeReplies` are the slots that go through an answer (`MessagesAdded`, `RepliesAdded`), in any order
that a table may give its rows. `Settle` is the layout request that `setMinimumHeight` posts: the
surface grows at once and shrinks later. A second reply with one owner leaves a widget that is destroyed
and then used: `undefined` is set, and nothing is said of what follows. That happens when two users
reply at a time, since the server attaches a reply to the last message (`StoreReply`).

### FileLogger

`logger` is where the thread is. It holds `_mutex` from the pop to the end of the line, so `log()` and
`stop()` wait while it is "writing". `ToFile`, `OpenFails` and `SyncFails` are the three ways a line
goes to a file: the name grows by a date with every line, until it is too long to be opened; `fileSync`
deletes the oldest files, by a time that is rounded to seconds, and throws if the file that is open is
among them. `Kill` and `Restart` end a run and begin another one over the files that are left. Where a
backslash does not separate directories (`platform`), the files lie beside the folder that is tidied,
and nothing is deleted. A comment (`FileLogger.hpp:103`) gives the name as `Log-dd.mm.yy.txt`; that is
the first name of a run only.

## 3. What is checked

| run | question | result |
|---|---|---|
| `queue_fifo` | is the queue FIFO, does every pop find an item, does every push return, is a sleeper served? | holds |
| `queue_lost_wakeup` | is every message that is pushed taken in the end? | **violated** |
| `connection` | with failing links and disconnects: do two Connections keep the promise of a FIFO channel, no stalled queue, aligned frames, a body never that of a later message, and does the other side notice a close while the link works? | holds |
| `server` | do answers pair up with requests, do requests run as the right user, do waits end, does a stop end? | holds |
| `client` | does an answer find its page, the chat follow a login, a page resume once its answer or the end of the connection is there, no handler outlive its Connection, no cast throw? | holds |
| `repositories` | with outages at every statement: does SUCCESS tell the truth, does what was acknowledged stay and, with no store refused beside it, stay readable, does nobody join a channel unasked? | holds |
| `repositories_history` | can the history of a channel always be read? | **violated** |
| `query_builder` | is what is executed what its own chain has asked for, and do strings read back? | holds |
| `logger` | are lines shown once and in order, kept by the rotation, does the destructor return? | holds |
| `chat_history` | one widget for each message, an index that stays one, a surface that is high enough, a search that finds all in sight? | holds |
| `chat_page` | is each channel listed once, is each lookup found until the database is lost, is there no chat without a row? | holds |
| `chat_page_history` | does a chat show messages of its channel only? | **violated** |

### What the violated runs show

- *Lost wakeup.* `wait()` finds the deque empty and releases the mutex; a push emplaces and notifies
  nobody; `wait()` blocks. The message stays until another one is pushed.
- *History of a channel.* The four inserts of a message are four transactions. A voice message of 0
  seconds is refused by `CHECK (duration > 0)` in the last of them, and the rows of the first three
  stay: the next history of the channel runs into the assertion that every voice message has a
  duration. `TextEdit` sends 0 seconds for a recording shorter than a second.
- *History of a chat.* The stack of chats is indexed by the rows of the list. A row that is pressed
  before those above it gets a widget at the end of the stack, which is the place of another row; when
  that row is pressed, the widget is given its channel and keeps the messages it has.

### What the models contain and no property rules out

No document, comment or test says that these cannot happen, so no run calls them violations. The steps
are in the models, and the properties that hold do so with them, or up to them.

- *Header buffer* (`Connection.hpp:90`): `async_write` is given a buffer over a local variable of
  `writeHeader`. If the send buffer of the socket is full, asio reads it after the function has
  returned (`SocketMayBlock`, FALSE in the run).
- *Registry* (`Server.cpp:472`, `:527`): `messageAllClients` computes what it keeps, the accept handler
  appends a client, the erase removes it. No broadcast reaches that client again.
- *Accept* (`Server.cpp:465`): `remote_endpoint()` throws when the client has gone, and ends the server.
- *Send* (`Client.cpp:87`): `send()` calls `isConnected()` on the Qt thread and then goes through
  `_connection`, which the context thread may reset in between.
- *Silent link* (`Connection.hpp:203`): a read that waits when the link goes without a word waits for
  ever, since neither the socket nor the program has a timer. `CloseIsNoticed` and `SentResumes` leave
  this out.
- *Unserializable message* (`Connection.hpp:93`): it stays at the front of the outgoing queue for good.
  The templates of the run all serialize, and `QueueKeepsMoving` has that as its hypothesis.
- *Waiting pages* (`RegistrationPage.cpp:37`, `Client.cpp:89`): a page that pauses itself and whose
  request is not sent, or not answered, stays paused. `SentResumes` is about the others.
- *Answers nobody checks* (`PostgreRepositories.cpp:72`, `:351`): see the exceptions of `SuccessIsTrue`
  in the section on the repositories.
- *Direct chats* (`PostgreRepositories.cpp:533`): users 1 and 112 share the chat of users 11 and 12, users
  11 and 11 that of users 1 and 111, and a channel named like the hash of a chat is taken for it. The run
  has two users and no such name; the theorem has the hypothesis that no two pairs and no name meet.
- *Lost database* (`PostgreRepositories.cpp:7`, `ChannelListPage.cpp:61`): an empty list of channels
  replaces the one that is there, and the next lookup in it runs off its end.
- *Replies* (`ChatHistory.cpp:52`), *voice messages* (`Client.CLI/App.cpp:66`) and the *second device*
  (`ChannelListPage.cpp:81`): see `undefined`, `VoiceMessages` and `SecondDevice` above.

### Bounds, and why they are enough

- *Queue*: two producers, one consumer (the server has one), four pushes. The lost wakeup needs one
  producer and one push; the second producer is what contends for the mutexes, and four pushes let
  each of them push twice around a wait.
- *Connection*: three messages out of four templates: without a body, with a body of two units that both
  switches know, with one of one unit that only the outgoing switch knows (`MessageEditAnswer`), and a
  `ServerPing` with a body that its type does not take. Three messages put one on the wire, one at the
  front and one behind it; a stale body needs two.
- *Server*: two clients, two messages, two requests, up to two io threads, `mCriticalQueueSize` = 1
  so that two messages are a long queue. The types are one of each kind that `onMessage` tells apart:
  answered by a repository, answered and caught, login, echo, broadcast, unknown.
- *Client*: both programs, three requests and one broadcast at a time. Three requests log in, ask for
  the channels and ask again, or log in twice with a registration between. The requests outside of a
  waiting page are two of the polls, a change, an echo and one that is not answered.
- *Repositories*: two users, a channel, a name that fits and one that does not, two messages, one
  reply, an outage at any statement of any call, a reaction that there is and one that there is not. Two
  users have one chat, so no names collide. The `VIEW` leaves out `last`, the answer that the
  previous call gave: no action reads it, and the two action properties that do look at it are
  evaluated on every step. The run of the history has one user, who sends each kind of content.

- *Query builder*: two tables, so that `changeTable` has somewhere to go; lists of one and of two items,
  since a list has a last item and others; a string of quotes and a number; a clause is
  added to at most nine lexemes, enough for a condition behind a join and for three rows of an insert,
  and a chain is left in any place.
- *Logger*: two files are kept, a name has room for three dates, a run logs four lines, so that the
  rotation and the long name both happen; a day is two seconds and the clock stops at the third, so
  that lines fall into one second, one day and two; two runs, the second over the files of the first.
- *Chat history*: three messages, the second sent by a clock that is behind, two rows that are replies or
  reactions, one deletion, two requests under way. The window has room for one message, or for all three;
  the user scrolls to either end (`Step` is larger than the surface), the layout anywhere.
- *Chat page*: three channels and three requests or answers under way: two to be swapped and one
  between or behind them. One row above another is enough for the violation. The database is lost once,
  at any point.

Only these bounds are not in the code: `MaxPush`, `MaxSend`, `MaxMessages`, `MaxChannels`, `MaxMsgs`,
`MaxReplies`, `MaxThreads`, `MaxRequests`, `MaxBroadcasts`, `MaxLexemes`, `MaxLog`, `MaxRuns`, `MaxNow`,
`MaxRows`, `MaxDeleted`, `MaxAsked`, `MaxRequested`, and the grid `Step`. Where a run has `CHECK_DEADLOCK FALSE`,
the system may really stop: all messages are sent, a socket is closed, the program has ended, or the
bounds are used up.

### Fairness

- *Queue*: threads are scheduled. The steps that take a mutex are strongly fair, because a mutex may
  be free only now and then. Nobody has to push, and nothing has to wake spuriously.
- *Connection*: the posted functions and the handlers that are ready run, as long as the link works or
  the own socket has been closed: asio then completes what is pending. Of a link that has failed nothing
  is promised, neither a completion nor an error. Nobody has to send, and nothing has to fail.
- *Server*: the main thread, the handler thread and the two last steps of an accept handler that has
  started. Clients owe nothing, and the scheduler of the main thread is weak: it never blocks on a
  mutex in these steps.
- *Client*: both threads are scheduled and the context runs the handlers that are ready; a read fails
  when the server has closed the connection (`link = "down"`), and need not when the link is silent. The
  server owes nothing, not even an answer: a lost wakeup may keep it from one. The user and the network
  owe nothing, and nothing has to fail.
- *Logger*: the thread of the logger is scheduled, and so is the `join()` of the destructor. Nobody has
  to log, and nothing has to wake spuriously.
- *Repositories, query builder, chat history and chat page*: safety only. What the pages wait for is
  the question of `client`.

## 4. What is proved

Every safety property that a run checks is a theorem, but for those that the violated runs refute. The
theorems hold for every value of the constants under the named assumptions of the modules
(`QueueAssumption`, `ConnectionAssumption`, `ManagerAssumption`, `ServerAssumption`, `WorkAssumption`,
`ClientAssumption`, `VoiceAssumption`, `RepositoriesAssumption`, `QueryBuilderAssumption`,
`LoggerAssumption`, `PageAssumption`, `HistoryAssumption`), which TLC also evaluates on the instances.
Where a theorem has a hypothesis of its own, it is named below.

- **Selections_Proofs.** The lemmas that the others share. The induction theorems of the library take
  an operator as a parameter, which the provers here cannot instantiate; so a property is given as the
  *set* of the numbers, or of the sequences, that have it (`Induction`, `SequenceInduction`), and the
  start of it all is that a set of numbers has a least element (`Least`, from `WFMin`). `Recursion`
  gives the table of a function defined from `i - 1` to `i`. With it come the lemmas on `Only` (what an
  append, a tail and a concatenation do to the elements of one kind) and `Each`. The modules use `Only`
  where `SelectSeq` would do, because the prover has no definition of `SelectSeq` to expand.

- **Network_Proofs, the queue.** `SafeQueueTyped`, then on top of it `MutualExclusion` for any ends and
  threads, `FifoOrder` if only `push_back` and `pop_front` are used, and `SinglePopSafe` for one
  consumer. `Fifo` is inductive together with the type invariant: it names the deque and what was
  taken by the number of pushes and the length of the deque. `PopFindsItem` is inductive because a
  single consumer is the only one that shortens the deque.
- **Network_Proofs, the connection.** `QInv` is inductive by itself: the messages of the outgoing queue
  and the posted ones are the last of those sent, in their order (`Numbered`), and the one write in
  progress is that of the front of the queue (`OneWrite`). On top of it `QueueKeepsMoving` says that a
  queue that is not empty is being written, under the hypothesis that every message serializes:
  `writeHeader` returns without a write for one that does not, which then stays at the front.
  The other three need to know what is on the wire. `StreamInv` puts the stream of *all* units, headers
  and bodies of all messages in their order, beside the state: the wire is a stretch of that stream,
  from the place of the next read (`NextRead`, told by what the reader is at) to the place where the
  write in progress stands (`Tip`). `HeadersInv` adds that the headers on the wire are those of the
  messages behind the one in the buffer. From it follow `FramesStayAligned`; `BodiesMatchHeaders`, with
  `BodiesInv` about what the buffer has kept; and `ConnectionIsAChannel`, the refinement of
  `MessageChannel`: `SpansInv` shows that the messages on their way are the numbers from the last one
  delivered to the last one sent, so that a step adds one at the end, takes one from the front, or is
  not seen by the owners. These three are about `SocketMayBlock = FALSE`, as the run is: with a full
  send buffer a header may be anything, and nothing is left to prove.
- **Server_Proofs, the manager.** The invariants of the manager are not inductive: `RunsOnce` depends
  on no id being queued twice, which depends on ids being given out once, and so on. `IInv` follows
  an id through its life: given out in order (`InOrder`), being pushed by the holder of the mutex
  (`Mutex`, `Pushing`), queued once and pending (`Queue`), running and no longer queued (`Running`),
  and done exactly when it has run (`Ran`); whoever waits has a request in one of these places
  (`Waiting`). `PopFindsRequest` is part of it: a racing read of `empty()` can only be wrong while
  the mutex is held, and whoever holds it is about to push. From `LifeOfARequest` follow
  `PopIsSafe`, `EveryTaskRunsOnce` and `NothingIsForgotten`, for any number of callers, priorities
  and requests, more than the server uses.
- **Server_Proofs, the server.** `ServerUsesManager` shows that the server implements `ManagerSpec`,
  its variables mapped to themselves: each step of the server is a step of the manager or leaves it
  alone. The delicate step is `Destroy`, which the manager only allows when nobody is inside
  `pushRequest`; the invariant `SInv` ties the place of the main thread to its request. The theorems
  of the manager then hold of the server. `One` and `AsUser` are the invariants of the composition,
  inductive relative to `IInv`: the only request under way is that of the main thread, and the user
  of its connection does not change meanwhile. They give `ServerOnePending` and `ServerRunsAsUser`.
  `ServerPurgesNulls` rests on `NInv`: what `remove` has kept and what the accept handler has appended
  since are clients, so an erase leaves no null behind. `ServerAnswersPairUp` needs, for each client,
  the number `done` of its requests that have been dealt with, which no variable keeps: `PInv` says that
  there is one, with which the answers sent are those to the first `done` requests but the silent ones
  (`Paired`), the main thread is at the next (`Awaited`), and the incoming queue has the others in
  their order (`Backlog`).
- **Client_Proofs.** `ClientTyped` is `TypeOK` in named parts; its part about `todo` says that an
  operation which is being sent has a message left, so that `Head` is defined. `HandlersHaveConnection`
  is inductive as it stands: only `connectToServer` starts a context thread, and it makes a Connection
  first; the owner destroys it after it has joined, the context thread after its last handler.
  `ChatAfterLogin` needs `LoginInv`. The slot of the login page reads `loginState`, which is SUCCESS
  from the start, and may run long after the answer it was called for. What saves it is that the page
  sets `IN_PROGRESS` before it asks, and asks only while it is not paused: while a login is anywhere
  under way (`Pending`), SUCCESS means that the server has accepted one. Most steps are `Calm`: they
  start no login, answer none and decide nothing. Six are not, and are proved one by one.
  `CastsSucceed` needs that whatever is on its way to the client is castable (`CastInv`), for which
  the tables of `Protocol` are compared; for the command line program it has the hypothesis that there
  are no voice messages, without which it is false. `AnswersFindTheirPages` counts the copies of what a
  page waits for, over the sends of the operation, the posted functions, the link in both directions and
  the signals: there is at most one, and its page is shown and paused (`AskedOnce`). It is inductive with
  `LastSignal`, that nothing is signalled after `onDisconnect`, and `NotStarted`.
- **Repositories_Proofs.** `RInv` holds after every method, wherever it was cut short. `RowsReferToRows`
  is inductive but for the order of the statements: each lemma of a method shows that the statements
  that were applied are the first ones, so that rows come before those that refer to them and go after
  them. `Acknowledged` strengthens `AcknowledgedReadable`: an acknowledged message has its rows, and every
  row of a channel in which no store was refused has its content. `Lists` gives the reactions their type,
  `Registered` and `Serials` say where the ids come from, and `Chats` that a channel has a name that a
  user may give, or the hash of the pair it was created for. `AnswersTellTheTruth` and `NobodyIsJoined` are
  action properties: from a state of `RInv`, each method that answers SUCCESS has applied the statements
  it speaks of, with the exceptions listed under Repositories; and whoever is put into a channel has asked
  for it, or is one of the two that the chat was created for. The last is false when names meet, and has
  the hypothesis that they do not (`NamesDiffer`: no two pairs of users have one name, and no user gives
  the name of a chat to a channel).
- **QueryBuilder_Proofs.** `BuilderTyped` is the type invariant; each clause appends lexemes whose items
  come from the callers. `ChainsAreSeparate` speaks of the answer of the last call; what makes it
  inductive is `Alone`, about the statement that is pending: unless an exception has left one, its text
  is what the running chain has asked for, and between two chains there is none. `RowsKnown` is needed
  because `field()` tells the first row from the others by a search of the text. Two lemmas show that
  the two ways the code puts commas (a comparison with the last item, and erasing the last comma) write
  what SQL wants; the first uses the assumption that no item repeats the last one.
  `LiteralsAreReadBack` is about the loop of `innerQuotes`, for strings of any length. `Ends(arg, pos)`
  says in one step what the search from `pos` on comes to; it obeys the recursion (`EndsStep`), so the
  recursive function exists, and no other function obeys it, because each step comes nearer to the end
  of the text that has grown (`InnerQuotesEnds`, by induction on what is left). The rest is that
  doubling is a homomorphism (`DoubledConcat`) and that `field()` writes the row last (`RowWritten`).
- **FileLogger_Proofs.** `LinesInOrder` ties the lines shown, the one in hand and those queued together
  by their numbers. It is inductive with `HandInv`: the thread has a line in its hand while it writes,
  and keeps one otherwise only when its process has ended under it. `NewestAreKept` needs `FilesInv`:
  the clock does not go back over the lines shown and is not behind any file (`ClockInv`), the file name
  has a date for each line shown and one more (`Dated`), what is newer than the files of earlier runs is the file of a line of this
  run (`OwnFiles`), and the file that has one of the newest lines still has the time of that line
  (`NewestInPlace`), which holds because every line goes to a file whose name is one date longer. The
  files behind that of line `i`, in the order in which the clean-up deletes, are those of later lines;
  there are fewer than `LifeTime` of them, so the file is among those that are kept.
- **Chat_Proofs, the page.** `EachListedOnce` is inductive with the types of the lists, whatever becomes of
  the database. `NoChatWithoutRow` needs only that rows are never taken away. `LookupsFind` is about one
  device, and about the time in which the database answers. Until it is lost, whatever was listed is
  known, and the answers under way never know fewer channels than the last (`Grows`); and the two queues
  are in step (`QueueInv`): the subscriptions are asked for right behind the channels, so whatever an
  answer about subscriptions names, an answer before it, or the list already there, has told (`Told`).
- **Chat_Proofs, the history.** `HistoryInv` is inductive: what is stored is well formed (`StoredInv`)
  and the chat is `Kept`, which every operation hands on to the next one, since they call each other.
  `Matched` says that messages and widgets have the same ids and the widgets the order of the times, and
  gives `OneWidgetEach`; `LeftInList` is `LeftIsAnIndex`. `NothingCutOff` is not inductive alone: that
  the layout stays on the surface follows from `Roomy`, that the minimum height is the sum of the
  heights and gaps on it (`Heights`, a recursive function) and that the surface is not lower. On the way
  up the loop of `updateLayout` keeps at least the heights of what is still above and the room of the
  replies that wait (`BelowEach`), so it does not go above 0 even if a reply is met early or never. The
  reply of a message that is gone keeps its room and its old place. `VisibleFoundInPlace` follows from the
  order of the layout: both scans stop behind the last message that is seen, wherever the search ends
  (`ScansFind`), and it ends inside of the list (`MiddleIsAnIndex`). The loops over a list or an answer
  are recursive functions, and `Recursion` gives their tables. `Inserted` keeps the order of equal
  times, as `std::sort` does for up to sixteen widgets; the theorems are about the model, so a longer
  list with equal times is in their reach only as far as the sort keeps that order.

`SafeQueueTyped`, `MutualExclusion`, `LifeOfARequest`, `ServerUsesManager`, `ClientTyped`, `BuilderTyped`
and `ServerOnePending` are theorems whose formulas no run checks; `ConnectionIsAChannel` is the safety
part of `ImplementsChannel`, which the run checks with its liveness.

Only model-checked:

- every liveness property, and with it the fair half of `ImplementsChannel`: the prover has no support
  for fairness and `ENABLED` here;
- the properties of the three violated runs, which are false.

## 5. What is not modelled

Of the client, a second `connectToServer` has no caller (the reconnect of
`Application.cpp` is commented out), closing the window while the context thread runs is not
modelled, nor are the two debugging commands of the command line program that send a message without
a type; its menu is a choice of requests here. Of the chat, `clear()` and `deleteMessage()` have no
caller, painting, buttons, menus, the recorder and the look of the scroll bar are left out, and so is
a change of the width of the window. Nobody fills the reactions of a message on the server side of this
repository; the chat history takes them from the answer as `YasSerializer` carries them. Of the server,
`messageClient` has no caller. The layout of a log line is left out.
Cryptography wraps a library and its results are opaque
here. Style is painting. Reading and writing the files of voice messages is input and output.
Compression and encryption copy nothing in this version of the code. The contents of messages, names,
times and log lines are abstracted to what decides a branch.

## 6. What could follow

1. A run of `Repositories` with users 1, 11, 12 and 112, whose direct chats collide. It is large: four
   users and two channels multiply the states beyond what one run should cost.
2. The composition of `Client` and `ChatPage`: the first has the threads and the link, the second what
   the slots do with the answers. Their interface is the order of the answers, which `server` checks.
