---------------------------- MODULE Client_Proofs ----------------------------
(***************************************************************************)
(* Proofs about Client, for either front end, any requests and any bounds. *)
(*                                                                         *)
(* The type invariant; that no handler of a Connection runs once it has    *)
(* been destroyed; that the chat means an accepted login, although the     *)
(* slot that opens it reads a variable which another thread writes; that   *)
(* every cast of loop() succeeds; and that an answer finds the page that   *)
(* has asked.                                                              *)
(***************************************************************************)
EXTENDS Client, Selections_Proofs, TLAPS

USE ClientAssumption

------------------------------------------------------------------------------
(* The tables of the protocol, as sets.                                    *)

Type == DOMAIN ClientRequest
Message == [type : MessageType, ok : BOOLEAN,
            body : {"none"} \cup {Answer[type].body : type \in DOMAIN Answer}]
Signal == [name : {SignalOf[p] : p \in Pages} \cup {"onDisconnect"}, ok : BOOLEAN]

LEMMA RequestsOfPages ==
    /\ \A p \in Pages : RequestOf[p] \in Type
    /\ {"LoginRequest", "RegistrationRequest", "ChannelListRequest",
        "ChannelSubscriptionListRequest"} \subseteq Type
    /\ Requests \subseteq Type \ {"LoginRequest"}
BY DEF Pages, RequestOf, Type, ClientRequest, MessageRequest, ChannelRequest, AccountRequest,
       ClientAssumption

LEMMA AnswersTyped ==
    ASSUME NEW type \in DOMAIN Answer
    PROVE  /\ Answer[type].type \in MessageType
           /\ Answer[type].type = "LoginAnswer" <=> type = "LoginRequest"
<1>1. Answer[type].type \in
        {"ChannelListRequest", "MessageHistoryAnswer", "MessageStoreAnswer",
         "ReplyHistoryAnswer", "ReplyStoreAnswer", "MessageDeleteAnswer", "MessageEditAnswer",
         "MessageReactionAnswer", "RegistrationAnswer", "LoginAnswer", "ChannelLeaveAnswer",
         "ChannelSubscribeAnswer", "ChannelSubscriptionListAnswer", "ChannelDeleteAnswer",
         "ChannelCreateAnswer", "DirectMessageCreateAnswer"}
  BY DEF Answer, MessageAnswer, AccountAnswer, ChannelAnswer
<1>2. Answer[type].type \in MessageType
  BY <1>1 DEF MessageType, SharedBody, ConversationBody, AccountBody, EditBody
<1>3. Answer[type].type = "LoginAnswer" <=> type = "LoginRequest"
  BY DEF Answer, MessageAnswer, AccountAnswer, ChannelAnswer
<1> QED BY <1>2, <1>3

LEMMA SignalsTyped == ASSUME NEW p \in Pages, NEW ok \in BOOLEAN
                      PROVE  [name |-> SignalOf[p], ok |-> ok] \in Signal
BY DEF Signal

\* What the server sends: an accept, an answer, a ping or a broadcast.
LEMMA MessagesTyped ==
    /\ \A type \in {"ServerAccept", "ServerPing", "ServerMessage"}, ok \in BOOLEAN :
          [type |-> type, body |-> "none", ok |-> ok] \in Message
    /\ \A type \in DOMAIN Answer, ok \in BOOLEAN :
          [type |-> Answer[type].type,
           body |-> Arrives(Answer[type].type, Answer[type].body), ok |-> ok] \in Message
<1>1. \A type \in {"ServerAccept", "ServerPing", "ServerMessage"}, ok \in BOOLEAN :
          [type |-> type, body |-> "none", ok |-> ok] \in Message
  BY DEF Message, MessageType, Bodiless
<1>2. ASSUME NEW type \in DOMAIN Answer, NEW ok \in BOOLEAN
      PROVE  [type |-> Answer[type].type,
              body |-> Arrives(Answer[type].type, Answer[type].body), ok |-> ok] \in Message
  <2>1. Arrives(Answer[type].type, Answer[type].body) \in {"none", Answer[type].body}
    BY DEF Arrives
  <2> QED BY <2>1, AnswersTyped DEF Message
<1> QED BY <1>1, <1>2

------------------------------------------------------------------------------
(* The type invariant, with the tables folded.                             *)

Places ==
    /\ frontEnd \in FrontEnds /\ connection \in {"null", "alive"}
    /\ socket \in {"closed", "connecting", "open", "failed"}
    /\ context \in {"none", "run", "ended", "onDisconnect", "reset", "done", "threw"}
    /\ owner \in {"start", "wait", "idle", "check", "use", "stop", "join", "gone", "crashed"}
    /\ loginState \in {"SUCCESS", "IN_PROGRESS", "FAILED"}
    /\ appState \in {"LoginForm", "RegistrationForm", "ChatWindowForm"}
    /\ link \in {"none", "up", "down", "silent"} /\ requests \in Nat
Flags == serverAccept \in BOOLEAN /\ stopped \in BOOLEAN /\ granted \in BOOLEAN
PerPage == paused \in [Pages -> BOOLEAN] /\ fate \in [Pages -> {"none", "sent", "unsent"}]
Todo == todo \in Seq(Type) /\ (owner \in {"check", "use"} => todo # <<>>)
Queues == /\ posted \in Seq(Type \cup {"close"}) /\ toServer \in Seq(Type)
          /\ signals \in Seq(Signal) /\ toClient \in Seq(Message)

Typed == Places /\ Flags /\ PerPage /\ Todo /\ Queues

LEMMA TypedIsTypeOK == Typed <=> TypeOK
<1>1. {FormOf[p] : p \in Pages} = {"LoginForm", "RegistrationForm", "ChatWindowForm"}
  BY DEF FormOf, Pages
<1> QED
  BY <1>1 DEF Typed, Places, Flags, PerPage, Todo, Queues, TypeOK, Type, Message, Signal

LEMMA Appends == ASSUME NEW S, NEW s \in Seq(S), NEW e \in S PROVE Append(s, e) \in Seq(S)
OBVIOUS

LEMMA Tails == ASSUME NEW S, NEW s \in Seq(S), s # <<>>
               PROVE  Head(s) \in S /\ Tail(s) \in Seq(S) /\ (Len(s) # 1 => Tail(s) # <<>>)
<1>1. Len(s) \in Nat \ {0} /\ Len(Tail(s)) = Len(s) - 1 /\ Len(<<>>) = 0
  OBVIOUS
<1>2. Head(s) \in S /\ Tail(s) \in Seq(S)
  OBVIOUS
<1>3. ASSUME Len(s) # 1 PROVE Tail(s) # <<>>
  <2>1. Len(Tail(s)) # Len(<<>>)
    BY <1>1, <1>3
  <2> QED BY <2>1
<1> QED BY <1>2, <1>3

LEMMA Fronts == ASSUME NEW S, NEW s \in Seq(S), s # <<>>
                PROVE  /\ Front(s) \in Seq(S) /\ s[Len(s)] \in S
                       /\ s = Append(Front(s), s[Len(s)])
<1>1. Len(s) \in Nat \ {0}
  OBVIOUS
<1>2. Front(s) = SubSeq(s, 1, Len(s) - 1)
  BY DEF Front
<1>3. s[Len(s)] \in S
  BY <1>1
<1>4. SubSeq(s, 1, Len(s) - 1) \in Seq(S)
  BY <1>1
<1>5. s = Append(SubSeq(s, 1, Len(s) - 1), s[Len(s)])
  BY <1>1
<1> QED BY <1>2, <1>3, <1>4, <1>5

LEMMA TypedInit == ASSUME Init PROVE Typed
<1>1. Places /\ Flags
  BY DEF Init, Places, Flags
<1>2. PerPage /\ Todo /\ Queues
  BY DEF Init, PerPage, Todo, Queues
<1> QED BY <1>1, <1>2 DEF Typed

LEMMA TypedOwner == ASSUME Typed, Owner PROVE Typed'
<1> USE DEF Typed, core, pages, network, history
<1>1. CASE ConnectToServer
  BY <1>1 DEF ConnectToServer, Places, Flags, PerPage, Todo, Queues
<1>2. CASE SeesConnection
  BY <1>2 DEF SeesConnection, Places, Flags, PerPage, Todo, Queues
<1>3. CASE Check
  <2>1. Places' /\ Flags'
    BY <1>3, Tails DEF Check, AfterHead, Unsent, Todo, Places, Flags
  <2>2. PerPage'
    BY <1>3, Tails DEF Check, AfterHead, Unsent, PerPage
  <2>3. Todo'
    BY <1>3, Tails DEF Check, AfterHead, Unsent, Todo
  <2>4. Queues'
    BY <1>3, Tails DEF Check, AfterHead, Unsent, Todo, Queues
  <2> QED BY <2>1, <2>2, <2>3, <2>4
<1>4. CASE Use
  <2>1. Places'
    BY <1>4, Tails DEF Use, AfterHead, Todo, Places
  <2>2. Flags'
    BY <1>4, Tails DEF Use, AfterHead, Todo, Flags
  <2>3. PerPage'
    BY <1>4, Tails DEF Use, AfterHead, Todo, PerPage
  <2>4. Todo'
    <3>1. todo # <<>> /\ todo \in Seq(Type)
      BY <1>4 DEF Use, Todo
    <3>2. Tail(todo) \in Seq(Type) /\ (Len(todo) # 1 => Tail(todo) # <<>>)
      BY <3>1, Tails
    <3>3. CASE owner' = "crashed" /\ todo' = todo
      BY <3>3 DEF Todo
    <3>4. CASE owner' = AfterHead /\ todo' = Tail(todo)
      BY <3>2, <3>4 DEF AfterHead, Todo
    <3> QED BY <1>4, <3>3, <3>4 DEF Use
  <2>5. Queues'
    <3>1. Head(todo) \in Type
      BY <1>4, Tails DEF Use, Todo
    <3>2. Append(posted, Head(todo)) \in Seq(Type \cup {"close"})
      BY <3>1, Appends DEF Queues
    <3> QED BY <1>4, <3>2 DEF Use, Queues
  <2> QED BY <2>1, <2>2, <2>3, <2>4, <2>5
<1>5. CASE Stop
  BY <1>5 DEF Stop, Places, Flags, PerPage, Todo, Queues
<1>6. CASE Join
  BY <1>6 DEF Join, Places, Flags, PerPage, Todo, Queues
<1> QED BY <1>1, <1>2, <1>3, <1>4, <1>5, <1>6 DEF Owner

LEMMA TypedUser == ASSUME Typed, User PROVE Typed'
<1> USE DEF Typed, core, pages, network, history
<1>1. CASE MakeRequest
  BY <1>1, RequestsOfPages DEF MakeRequest, Places, Flags, PerPage, Todo, Queues
<1>2. CASE Disconnect
  BY <1>2 DEF Disconnect, Places, Flags, PerPage, Todo, Queues
<1>3. CASE SignIn
  <2>1. Places' /\ Flags'
    BY <1>3, RequestsOfPages DEF SignIn, Pause, Places, Flags
  <2>2. PerPage'
    BY <1>3, RequestsOfPages DEF SignIn, Pause, PerPage
  <2>3. Todo'
    BY <1>3, RequestsOfPages DEF SignIn, Pause, Todo
  <2>4. Queues'
    BY <1>3, RequestsOfPages DEF SignIn, Pause, Queues
  <2> QED BY <2>1, <2>2, <2>3, <2>4
<1>4. CASE CreateAccount
  <2>1. Places'
    BY <1>4, RequestsOfPages DEF CreateAccount, Pause, Unsent, Places
  <2>2. Flags'
    BY <1>4, RequestsOfPages DEF CreateAccount, Pause, Unsent, Flags
  <2>3. PerPage'
    BY <1>4, RequestsOfPages DEF CreateAccount, Pause, Unsent, PerPage
  <2>4. Todo'
    <3>1. CASE UNCHANGED <<todo, owner>>
      BY <3>1 DEF Todo
    <3>2. CASE todo' = <<"RegistrationRequest">>
      BY <3>2, RequestsOfPages DEF Todo
    <3> QED BY <1>4, <3>1, <3>2 DEF CreateAccount
  <2>5. Queues'
    BY <1>4, RequestsOfPages DEF CreateAccount, Pause, Unsent, Queues
  <2> QED BY <2>1, <2>2, <2>3, <2>4, <2>5
<1>5. CASE SwitchForm
  BY <1>5 DEF SwitchForm, Places, Flags, PerPage, Todo, Queues
<1>6. CASE RequestChannels
  <2>1. Places'
    BY <1>6, RequestsOfPages DEF RequestChannels, Pause, Unsent, Places
  <2>2. Flags'
    BY <1>6, RequestsOfPages DEF RequestChannels, Pause, Unsent, Flags
  <2>3. PerPage'
    BY <1>6, RequestsOfPages DEF RequestChannels, Pause, Unsent, PerPage
  <2>4. Todo'
    <3>1. CASE UNCHANGED <<todo, owner>>
      BY <3>1 DEF Todo
    <3>2. CASE todo' = <<"ChannelListRequest", "ChannelSubscriptionListRequest">>
      BY <3>2, RequestsOfPages DEF Todo
    <3> QED BY <1>6, <3>1, <3>2 DEF RequestChannels
  <2>5. Queues'
    BY <1>6, RequestsOfPages DEF RequestChannels, Pause, Unsent, Queues
  <2> QED BY <2>1, <2>2, <2>3, <2>4, <2>5
<1> QED BY <1>1, <1>2, <1>3, <1>4, <1>5, <1>6 DEF User

LEMMA TypedContext == ASSUME Typed, ContextThread PROVE Typed'
<1> USE DEF Typed, core, pages, network, history
<1>1. CASE Connected
  <2>1. Places'
    BY <1>1, MessagesTyped DEF Connected, Places
  <2>2. Flags'
    BY <1>1, MessagesTyped DEF Connected, Flags
  <2>3. PerPage'
    BY <1>1, MessagesTyped DEF Connected, PerPage
  <2>4. Todo'
    BY <1>1, MessagesTyped DEF Connected, Todo
  <2>5. Queues'
    <3>1. [type |-> "ServerAccept", body |-> "none", ok |-> TRUE] \in Message
      BY MessagesTyped
    <3>2. <<[type |-> "ServerAccept", body |-> "none", ok |-> TRUE]>> \in Seq(Message)
      BY <3>1
    <3> QED BY <1>1, <3>2 DEF Connected, Queues
  <2> QED BY <2>1, <2>2, <2>3, <2>4, <2>5
<1>2. CASE RunPosted
  <2>1. Places'
    BY <1>2, Tails DEF RunPosted, Places
  <2>2. Flags'
    BY <1>2, Tails DEF RunPosted, Flags
  <2>3. PerPage'
    BY <1>2, Tails DEF RunPosted, PerPage
  <2>4. Todo'
    BY <1>2, Tails DEF RunPosted, Todo
  <2>5. Queues'
    <3>1. Tail(posted) \in Seq(Type \cup {"close"}) /\ Head(posted) \in Type \cup {"close"}
      BY <1>2, Tails DEF RunPosted, Queues
    <3>2. Head(posted) # "close" => Append(toServer, Head(posted)) \in Seq(Type)
      BY <3>1, Appends DEF Queues
    <3> QED BY <1>2, <3>1, <3>2 DEF RunPosted, Queues
  <2> QED BY <2>1, <2>2, <2>3, <2>4, <2>5
<1>3. CASE ReadFails
  BY <1>3 DEF ReadFails, Places, Flags, PerPage, Todo, Queues
<1>4. CASE Loop
  <2>1. Places'
    BY <1>4, Tails, SignalsTyped DEF Loop, OnAnswer, Emit, Places
  <2>2. Flags'
    BY <1>4, Tails, SignalsTyped DEF Loop, OnAnswer, Emit, Flags
  <2>3. PerPage'
    BY <1>4, Tails, SignalsTyped DEF Loop, OnAnswer, Emit, PerPage
  <2>4. Todo'
    BY <1>4, Tails, SignalsTyped DEF Loop, OnAnswer, Emit, Todo
  <2>5. Queues'
    <3>1. Head(toClient) \in Message /\ toClient' \in Seq(Message)
      BY <1>4, Tails DEF Loop, Queues
    <3>2. \A p \in Pages, ok \in BOOLEAN :
             Append(signals, [name |-> SignalOf[p], ok |-> ok]) \in Seq(Signal)
      BY SignalsTyped DEF Queues
    <3>3. Head(toClient).ok \in BOOLEAN
      BY <3>1 DEF Message
    <3>4. signals' \in Seq(Signal)
      BY <1>4, <3>2, <3>3 DEF Loop, OnAnswer, Awaited, Emit, Queues
    <3> QED BY <1>4, <3>1, <3>4 DEF Loop, Queues
  <2> QED BY <2>1, <2>2, <2>3, <2>4, <2>5
<1>5. CASE LoopEnds
  BY <1>5 DEF LoopEnds, Places, Flags, PerPage, Todo, Queues
<1>6. CASE ForgetAccept
  <2>1. Places'
    BY <1>6 DEF ForgetAccept, Places
  <2>2. Flags'
    BY <1>6 DEF ForgetAccept, Flags
  <2>3. PerPage' /\ Todo'
    BY <1>6 DEF ForgetAccept, PerPage, Todo
  <2>4. Queues'
    BY <1>6 DEF ForgetAccept, Queues
  <2> QED BY <2>1, <2>2, <2>3, <2>4
<1>7. CASE OnDisconnect
  BY <1>7 DEF OnDisconnect, Places, Flags, PerPage, Todo, Queues
<1>8. CASE Disconnected
  <2>1. Places'
    BY <1>8, SignalsTyped DEF Disconnected, Emit, Places
  <2>2. Flags'
    BY <1>8, SignalsTyped DEF Disconnected, Emit, Flags
  <2>3. PerPage'
    BY <1>8, SignalsTyped DEF Disconnected, Emit, PerPage
  <2>4. Todo'
    BY <1>8, SignalsTyped DEF Disconnected, Emit, Todo
  <2>5. Queues'
    <3>1. [name |-> "onDisconnect", ok |-> FALSE] \in Signal
      BY DEF Signal
    <3>2. signals' \in Seq(Signal)
      BY <1>8, <3>1 DEF Disconnected, Emit, Queues
    <3> QED BY <1>8, <3>2 DEF Disconnected, Queues
  <2> QED BY <2>1, <2>2, <2>3, <2>4, <2>5
<1> QED BY <1>1, <1>2, <1>3, <1>4, <1>5, <1>6, <1>7, <1>8 DEF ContextThread

LEMMA TypedEnvironment == ASSUME Typed, Environment PROVE Typed'
<1> USE DEF Typed, core, pages, network, history
<1>1. CASE ServerAnswers
  <2>1. Places'
    BY <1>1, Tails, MessagesTyped DEF ServerAnswers, Places
  <2>2. Flags'
    BY <1>1, Tails, MessagesTyped DEF ServerAnswers, Flags
  <2>3. PerPage'
    BY <1>1, Tails, MessagesTyped DEF ServerAnswers, PerPage
  <2>4. Todo'
    BY <1>1, Tails, MessagesTyped DEF ServerAnswers, Todo
  <2>5. Queues'
    <3>1. toServer' \in Seq(Type)
      BY <1>1, Tails DEF ServerAnswers, Queues
    <3>2. toClient' = toClient \/ \E m \in Message : toClient' = Append(toClient, m)
      BY <1>1, MessagesTyped DEF ServerAnswers
    <3>3. toClient' \in Seq(Message)
      BY <3>2, Appends DEF Queues
    <3> QED BY <1>1, <3>1, <3>3 DEF ServerAnswers, Queues
  <2> QED BY <2>1, <2>2, <2>3, <2>4, <2>5
<1>2. CASE ServerBroadcasts
  <2>1. Places'
    BY <1>2, MessagesTyped DEF ServerBroadcasts, Places
  <2>2. Flags'
    BY <1>2, MessagesTyped DEF ServerBroadcasts, Flags
  <2>3. PerPage'
    BY <1>2, MessagesTyped DEF ServerBroadcasts, PerPage
  <2>4. Todo'
    BY <1>2, MessagesTyped DEF ServerBroadcasts, Todo
  <2>5. Queues'
    <3>1. [type |-> "ServerMessage", body |-> "none", ok |-> TRUE] \in Message
      BY MessagesTyped
    <3>2. toClient' \in Seq(Message)
      BY <1>2, <3>1 DEF ServerBroadcasts, Queues
    <3> QED BY <1>2, <3>2 DEF ServerBroadcasts, Queues
  <2> QED BY <2>1, <2>2, <2>3, <2>4, <2>5
<1>3. CASE LinkFails
  BY <1>3 DEF LinkFails, Places, Flags, PerPage, Todo, Queues
<1>4. CASE LoseLast
  <2>1. toClient' \in Seq(Message)
    BY <1>4, Fronts DEF LoseLast, Queues
  <2> QED BY <1>4, <2>1 DEF LoseLast, Places, Flags, PerPage, Todo, Queues
<1> QED BY <1>1, <1>2, <1>3, <1>4 DEF Environment

LEMMA TypedSignal == ASSUME Typed, OnSignal PROVE Typed'
<1> USE DEF Typed, core, pages, network, history
<1>1. CASE OnSignal
  <2>1. Places' /\ Flags'
    BY <1>1, Tails DEF OnSignal, OnLogin, OnRegistration, Resume, Places, Flags
  <2>2. PerPage'
    BY <1>1, Tails DEF OnSignal, OnLogin, OnRegistration, Resume, PerPage
  <2>3. Todo'
    BY <1>1, Tails DEF OnSignal, OnLogin, OnRegistration, Resume, Todo
  <2>4. Queues'
    BY <1>1, Tails DEF OnSignal, OnLogin, OnRegistration, Resume, Queues
  <2> QED BY <2>1, <2>2, <2>3, <2>4
<1> QED BY <1>1 DEF OnSignal

LEMMA TypedNext == ASSUME Typed, [Next]_vars PROVE Typed'
<1>1. CASE UNCHANGED vars
  BY <1>1 DEF Typed, Places, Flags, PerPage, Todo, Queues, vars, core, pages, network, history
<1> QED BY <1>1, TypedOwner, TypedUser, TypedSignal, TypedContext, TypedEnvironment DEF Next

\* Every state of the two threads, the pages, the queues between them and the
\* network has its type, and an operation that is being sent has a message left
\* to send (Client.cpp, ConnectionManager.cpp and the pages).
THEOREM ClientTyped == Spec => []TypeOK
<1>1. Typed /\ [Next]_vars => Typed'
  BY TypedNext
<1>2. Typed => TypeOK
  BY TypedIsTypeOK
<1> QED BY TypedInit, <1>1, <1>2, PTL DEF Spec

------------------------------------------------------------------------------
(* The life of the Connection.  It is destroyed by the owner after it has   *)
(* joined the context thread, or by the context thread after its last       *)
(* handler: NoHandlerWithoutConnection is inductive, because nothing but    *)
(* connectToServer starts a context thread.                                 *)

\* No handler of a Connection runs once it is destroyed, whichever thread
\* destroys it (disconnectFromServer, ConnectionManager::onDisconnect).
THEOREM HandlersHaveConnection == Spec => []NoHandlerWithoutConnection
<1> USE DEF NoHandlerWithoutConnection
<1>1. Init => NoHandlerWithoutConnection
  BY DEF Init
<1>2. ASSUME NoHandlerWithoutConnection, [Next]_vars PROVE NoHandlerWithoutConnection'
  <2> USE DEF core
  <2>1. CASE Owner
    BY <1>2, <2>1 DEF Owner, ConnectToServer, SeesConnection, Check, Use, Stop, Join, MustJoin
  <2>2. CASE User
    BY <1>2, <2>2 DEF User, MakeRequest, Disconnect, SignIn, CreateAccount, SwitchForm,
                      RequestChannels
  <2>3. CASE ContextThread
    BY <1>2, <2>3 DEF ContextThread, Connected, RunPosted, ReadFails, Loop, LoopEnds,
                      ForgetAccept, OnDisconnect, Disconnected
  <2>4. CASE Environment
    BY <1>2, <2>4 DEF Environment, ServerAnswers, ServerBroadcasts, LinkFails, LoseLast
  <2>5. CASE OnSignal
    BY <1>2, <2>5 DEF OnSignal
  <2>6. CASE UNCHANGED vars
    BY <1>2, <2>6 DEF vars
  <2> QED BY <1>2, <2>1, <2>2, <2>3, <2>4, <2>5, <2>6 DEF Next
<1> QED BY <1>1, <1>2, PTL DEF Spec

------------------------------------------------------------------------------
(* The chat and the login.  loginState is SUCCESS from the start, and the   *)
(* slot of the login page reads it when it runs.  What makes that safe is   *)
(* that the page leaves SUCCESS before it asks: while a login is anywhere   *)
(* under way, SUCCESS means that the server has accepted one.               *)

Asks == ToSet(todo) \cup ToSet(posted) \cup ToSet(toServer)
LoginAnswers == {m \in ToSet(toClient) : m.type = "LoginAnswer"}
LoginSignals == {s \in ToSet(signals) : s.name = "LoginAnswer"}
Pending == "LoginRequest" \in Asks \/ LoginAnswers # {} \/ LoginSignals # {}

LoginInv == /\ \A m \in LoginAnswers : m.ok => granted
            /\ Pending /\ loginState = "SUCCESS" => granted
            /\ ChatMeansLoggedIn

LEMMA Elements == ASSUME NEW S, NEW s \in Seq(S)
                  PROVE  /\ ToSet(s) \subseteq S
                         /\ \A e \in S : ToSet(Append(s, e)) = ToSet(s) \cup {e}
                         /\ s # <<>> => Head(s) \in ToSet(s) /\ ToSet(Tail(s)) \subseteq ToSet(s)
<1>1. ToSet(s) \subseteq S
  BY DEF ToSet
<1>2. ASSUME NEW e \in S PROVE ToSet(Append(s, e)) = ToSet(s) \cup {e}
  BY DEF ToSet
<1>3. ASSUME s # <<>> PROVE Head(s) \in ToSet(s) /\ ToSet(Tail(s)) \subseteq ToSet(s)
  BY <1>3 DEF ToSet
<1> QED BY <1>1, <1>2, <1>3

LEMMA FrontElements == ASSUME NEW S, NEW s \in Seq(S), s # <<>>
                       PROVE  ToSet(Front(s)) \subseteq ToSet(s)
<1> DEFINE f == Front(s)
           e == s[Len(s)]
<1>1. f \in Seq(S) /\ e \in S /\ s = Append(f, e)
  BY Fronts
<1> HIDE DEF f, e
<1>2. ToSet(s) = ToSet(f) \cup {e}
  BY <1>1, Elements
<1> QED BY <1>2 DEF f

LEMMA ShortElements == /\ ToSet(<<>>) = {}
                       /\ \A a : ToSet(<<a>>) = {a}
                       /\ \A a, b : ToSet(<<a, b>>) = {a, b}
BY DEF ToSet

\* A step that starts no login, answers none and decides nothing.
Calm == /\ UNCHANGED <<loginState, appState, granted>>
        /\ "LoginRequest" \in Asks' => "LoginRequest" \in Asks
        /\ LoginAnswers' \subseteq LoginAnswers /\ LoginSignals' \subseteq LoginSignals

LEMMA CalmStep == ASSUME LoginInv, Calm PROVE LoginInv'
BY DEF LoginInv, Calm, Pending, ChatMeansLoggedIn

LEMMA CalmSteps ==
  ASSUME Typed,
         \/ ConnectToServer \/ SeesConnection \/ Check \/ Use \/ Stop \/ Join
         \/ MakeRequest \/ Disconnect \/ CreateAccount \/ RequestChannels
         \/ Connected \/ RunPosted \/ ReadFails \/ LoopEnds \/ ForgetAccept \/ OnDisconnect
         \/ ServerBroadcasts \/ LinkFails \/ LoseLast
  PROVE  Calm
<1> USE DEF Calm, Asks, LoginAnswers, LoginSignals, core, pages, network, history
<1>1. CASE ConnectToServer
  BY <1>1 DEF ConnectToServer
<1>2. CASE SeesConnection
  BY <1>2 DEF SeesConnection
<1>3. CASE Stop
  BY <1>3 DEF Stop
<1>4. CASE Join
  BY <1>4 DEF Join
<1>5. CASE Check
  BY <1>5, Elements DEF Check, AfterHead, Typed, Todo, Queues
<1>6. CASE Use
  <2>1. todo \in Seq(Type) /\ todo # <<>> /\ posted \in Seq(Type \cup {"close"})
    BY <1>6 DEF Use, Typed, Todo, Queues
  <2>2. /\ Head(todo) \in Type /\ Head(todo) \in ToSet(todo)
        /\ ToSet(Tail(todo)) \subseteq ToSet(todo)
    BY <2>1, Elements
  <2>3. ToSet(Append(posted, Head(todo))) = ToSet(posted) \cup {Head(todo)}
    BY <2>1, <2>2, Elements
  <2> QED BY <1>6, <2>2, <2>3 DEF Use
<1>7. CASE MakeRequest
  BY <1>7, ShortElements, RequestsOfPages DEF MakeRequest
<1>8. CASE Disconnect
  <2>1. ToSet(Append(posted, "close")) = ToSet(posted) \cup {"close"}
    BY Elements DEF Typed, Queues
  <2> QED BY <1>8, <2>1 DEF Disconnect
<1>9. CASE CreateAccount
  BY <1>9, ShortElements DEF CreateAccount
<1>10. CASE RequestChannels
  BY <1>10, ShortElements DEF RequestChannels
<1>11. CASE Connected
  BY <1>11, ShortElements DEF Connected
<1>12. CASE RunPosted
  <2>1. posted \in Seq(Type \cup {"close"}) /\ posted # <<>> /\ toServer \in Seq(Type)
    BY <1>12 DEF RunPosted, Typed, Queues
  <2>2. /\ Head(posted) \in Type \cup {"close"} /\ Head(posted) \in ToSet(posted)
        /\ ToSet(Tail(posted)) \subseteq ToSet(posted)
    BY <2>1, Elements
  <2>3. Head(posted) # "close" =>
          ToSet(Append(toServer, Head(posted))) = ToSet(toServer) \cup {Head(posted)}
    BY <2>1, <2>2, Elements
  <2> QED BY <1>12, <2>2, <2>3 DEF RunPosted
<1>13. CASE ReadFails
  BY <1>13, ShortElements DEF ReadFails
<1>14. CASE LoopEnds
  BY <1>14 DEF LoopEnds
<1>15. CASE ForgetAccept
  BY <1>15 DEF ForgetAccept
<1>16. CASE OnDisconnect
  BY <1>16 DEF OnDisconnect
<1>17. CASE ServerBroadcasts
  <2>1. PICK m \in Message : m.type = "ServerMessage" /\ toClient' = Append(toClient, m)
    BY <1>17, MessagesTyped DEF ServerBroadcasts
  <2>2. ToSet(toClient') = ToSet(toClient) \cup {m}
    BY <2>1, Elements DEF Typed, Queues
  <2> QED BY <1>17, <2>1, <2>2 DEF ServerBroadcasts
<1>18. CASE LinkFails
  BY <1>18 DEF LinkFails
<1>19. CASE LoseLast
  <2>1. ToSet(toClient') \subseteq ToSet(toClient)
    BY <1>19, FrontElements DEF LoseLast, Typed, Queues
  <2> QED BY <1>19, <2>1 DEF LoseLast
<1> QED
  BY <1>1, <1>2, <1>3, <1>4, <1>5, <1>6, <1>7, <1>8, <1>9, <1>10, <1>11, <1>12, <1>13, <1>14,
     <1>15, <1>16, <1>17, <1>18, <1>19

LEMMA LoginSteps ==
  ASSUME Typed, LoginInv,
         SignIn \/ SwitchForm \/ OnSignal \/ Loop \/ Disconnected \/ ServerAnswers
  PROVE  LoginInv'
<1> USE DEF LoginInv, ChatMeansLoggedIn, core, pages, network, history
<1>1. CASE SignIn
  BY <1>1 DEF SignIn, LoginAnswers, Button
<1>2. CASE SwitchForm
  BY <1>2 DEF SwitchForm, Pending, Asks, LoginAnswers, LoginSignals
<1>3. CASE OnSignal
  <2>1. /\ signals \in Seq(Signal) /\ signals # <<>>
        /\ Head(signals) \in ToSet(signals) /\ ToSet(signals') \subseteq ToSet(signals)
    BY <1>3, Elements DEF OnSignal, Typed, Queues
  <2>2. Pending' => Pending
    BY <1>3, <2>1 DEF OnSignal, Pending, Asks, LoginAnswers, LoginSignals
  <2>3. appState' = "ChatWindowForm" => granted
    <3>1. CASE appState' = appState
      BY <3>1
    <3>2. CASE Head(signals).name = "LoginAnswer" /\ OnLogin(Head(signals))
      BY <3>2, <2>1 DEF OnLogin, LoginSucceeded, Pending, LoginSignals
    <3>3. CASE OnRegistration(Head(signals))
      BY <3>3 DEF OnRegistration
    <3> QED BY <1>3, <3>1, <3>2, <3>3 DEF OnSignal
  <2> QED BY <1>3, <2>2, <2>3 DEF OnSignal, LoginAnswers
<1>4. CASE Loop
  <2> DEFINE m == Head(toClient)
  <2>1. /\ m \in Message /\ m \in ToSet(toClient) /\ ToSet(toClient') \subseteq ToSet(toClient)
    BY <1>4, Elements DEF Loop, Typed, Queues
  <2>2. \A x \in LoginAnswers' : x.ok => granted
    BY <2>1 DEF LoginAnswers
  <2>3. CASE m.type = "LoginAnswer"
    <3>1. Pending /\ (m.ok => granted)
      BY <2>1, <2>3 DEF Pending, LoginAnswers
    <3>2. loginState' \in {loginState, "SUCCESS", "FAILED"} /\ (loginState' = "SUCCESS" => granted)
      BY <1>4, <2>3, <3>1 DEF Loop, OnAnswer
    <3> QED BY <1>4, <2>2, <3>2 DEF Loop
  <2>4. CASE m.type # "LoginAnswer"
    <3>1. loginState' = loginState
      BY <1>4, <2>4 DEF Loop, OnAnswer
    <3>2. signals' = signals \/ \E ok \in BOOLEAN, p \in Pages :
             /\ signals' = Append(signals, [name |-> m.type, ok |-> ok])
             /\ SignalOf[p] = m.type
      BY <1>4, <2>1 DEF Loop, OnAnswer, Awaited, Emit, Message
    <3>3. LoginSignals' \subseteq LoginSignals
      <4>1. CASE signals' = signals
        BY <4>1 DEF LoginSignals
      <4>2. ASSUME NEW ok \in BOOLEAN, NEW p \in Pages, SignalOf[p] = m.type,
                   signals' = Append(signals, [name |-> SignalOf[p], ok |-> ok])
            PROVE  LoginSignals' \subseteq LoginSignals
        <5>1. [name |-> SignalOf[p], ok |-> ok] \in Signal
          BY SignalsTyped
        <5>2. ToSet(signals') = ToSet(signals) \cup {[name |-> SignalOf[p], ok |-> ok]}
          BY <4>2, <5>1, Elements DEF Typed, Queues
        <5> QED BY <2>4, <4>2, <5>2 DEF LoginSignals
      <4> QED BY <3>2, <4>1, <4>2
    <3>4. Pending' => Pending
      BY <1>4, <2>1, <3>3 DEF Loop, Pending, Asks, LoginAnswers
    <3> QED BY <1>4, <2>2, <3>1, <3>4 DEF Loop
  <2> QED BY <2>3, <2>4
<1>5. CASE Disconnected
  BY <1>5 DEF Disconnected, LoginAnswers
<1>6. CASE ServerAnswers
  <2>1. toServer \in Seq(Type) /\ toServer # <<>> /\ toClient \in Seq(Message)
    BY <1>6 DEF ServerAnswers, Typed, Queues
  <2>2. Head(toServer) \in ToSet(toServer) /\ ToSet(toServer') \subseteq ToSet(toServer)
    BY <1>6, <2>1, Elements DEF ServerAnswers
  <2>3. CASE UNCHANGED <<toClient, granted>>
    BY <1>6, <2>2, <2>3 DEF ServerAnswers, Pending, Asks, LoginAnswers, LoginSignals
  <2>4. ASSUME NEW m \in Message, toClient' = Append(toClient, m), granted \in BOOLEAN,
               m.type = "LoginAnswer" => Head(toServer) = "LoginRequest",
               granted' = (granted \/ (m.type = "LoginAnswer" /\ m.ok))
        PROVE  LoginInv'
    <3>1. ToSet(toClient') = ToSet(toClient) \cup {m}
      BY <2>1, <2>4, Elements
    <3>2. \A x \in LoginAnswers' : x.ok => granted'
      BY <2>4, <3>1 DEF LoginAnswers
    <3>3. Pending' => Pending
      BY <1>6, <2>2, <2>4, <3>1 DEF ServerAnswers, Pending, Asks, LoginAnswers, LoginSignals
    <3> QED BY <1>6, <2>4, <3>2, <3>3 DEF ServerAnswers
  <2>5. UNCHANGED <<toClient, granted>> \/
        \E m \in Message : /\ toClient' = Append(toClient, m)
                           /\ m.type = "LoginAnswer" => Head(toServer) = "LoginRequest"
                           /\ granted' = (granted \/ (m.type = "LoginAnswer" /\ m.ok))
    <3> DEFINE type == Head(toServer)
    <3>1. ASSUME type \in DOMAIN Answer, NEW ok \in BOOLEAN,
                 toClient' = Append(toClient,
                    [type |-> Answer[type].type,
                     body |-> Arrives(Answer[type].type, Answer[type].body), ok |-> ok]),
                 granted' = (granted \/ (type = "LoginRequest" /\ ok))
          PROVE  \E m \in Message : /\ toClient' = Append(toClient, m)
                                    /\ m.type = "LoginAnswer" => type = "LoginRequest"
                                    /\ granted' = (granted \/ (m.type = "LoginAnswer" /\ m.ok))
      <4> DEFINE answer == [type |-> Answer[type].type,
                            body |-> Arrives(Answer[type].type, Answer[type].body), ok |-> ok]
      <4>1. answer \in Message
        BY <3>1, MessagesTyped
      <4>2. answer.type = "LoginAnswer" <=> type = "LoginRequest"
        BY <3>1, AnswersTyped
      <4>3. answer.ok = ok
        OBVIOUS
      <4> HIDE DEF answer
      <4>4. toClient' = Append(toClient, answer)
        BY <3>1 DEF answer
      <4> QED BY <3>1, <4>1, <4>2, <4>3, <4>4
    <3>2. ASSUME toClient' =
                   Append(toClient, [type |-> "ServerPing", body |-> "none", ok |-> TRUE]),
                 UNCHANGED granted
          PROVE  \E m \in Message : /\ toClient' = Append(toClient, m)
                                    /\ m.type # "LoginAnswer" /\ granted' = granted
      BY <3>2, MessagesTyped
    <3>3. \/ type \in DOMAIN Answer /\ \E ok \in BOOLEAN :
               /\ toClient' = Append(toClient,
                    [type |-> Answer[type].type,
                     body |-> Arrives(Answer[type].type, Answer[type].body), ok |-> ok])
               /\ granted' = (granted \/ (type = "LoginRequest" /\ ok))
          \/ /\ toClient' = Append(toClient, [type |-> "ServerPing", body |-> "none", ok |-> TRUE])
             /\ UNCHANGED granted
          \/ UNCHANGED <<toClient, granted>>
      BY <1>6 DEF ServerAnswers
    <3>4. ASSUME NEW m \in Message, m.type # "LoginAnswer", granted' = granted
          PROVE  granted' = (granted \/ (m.type = "LoginAnswer" /\ m.ok))
      BY <3>4 DEF Typed, Flags
    <3> HIDE DEF type
    <3> QED BY <3>1, <3>2, <3>3, <3>4 DEF type
  <2> QED BY <2>3, <2>4, <2>5 DEF Typed, Flags
<1> QED BY <1>1, <1>2, <1>3, <1>4, <1>5, <1>6

\* The chat is shown only to a user whose login the server has accepted,
\* however answers, signals and disconnects interleave (LoginPage::onLogin,
\* ConnectionManager::onLoginAnswer).
THEOREM ChatAfterLogin == Spec => []ChatMeansLoggedIn
<1>1. Init => LoginInv
  BY ShortElements DEF Init, LoginInv, Pending, Asks, LoginAnswers, LoginSignals, ChatMeansLoggedIn
<1>2. Typed /\ LoginInv /\ [Next]_vars => LoginInv'
  <2>1. UNCHANGED vars => Calm
    BY DEF vars, Calm, Asks, LoginAnswers, LoginSignals, core, pages, network, history
  <2> QED BY <2>1, CalmStep, CalmSteps, LoginSteps
           DEF Next, Owner, User, ContextThread, Environment
<1>3. LoginInv => ChatMeansLoggedIn
  BY DEF LoginInv
<1>4. Typed /\ [Next]_vars => Typed'
  BY TypedNext
<1> QED BY TypedInit, <1>1, <1>2, <1>3, <1>4, PTL DEF Spec

------------------------------------------------------------------------------
(* The casts of loop().  Three tables must agree: what the server puts into *)
(* an answer, what the pipeline restores of it, and what loop() casts it to.*)

\* Every answer has the body that both switches of the pipeline ask for.
LEMMA AnswersArrive ==
  ASSUME NEW type \in DOMAIN Answer, Answer[type].type # "MessageEditAnswer"
  PROVE  /\ Answer[type].type \in DOMAIN SharedBody \ (Bodiless \cup DOMAIN EditBody)
         /\ Answer[type].body = SharedBody[Answer[type].type]
         /\ Answer[type].body # "none"
<1> DEFINE t == Answer[type].type
           b == Answer[type].body
<1>1. CASE type \in DOMAIN AccountAnswer \cup DOMAIN ChannelAnswer
  <2>1. \/ t = "ChannelListRequest" /\ b = "vector<ChannelInfo>"
        \/ t = "RegistrationAnswer" /\ b = "RegistrationCodes"
        \/ t = "LoginAnswer" /\ b = "bool"
        \/ t = "ChannelLeaveAnswer" /\ b = "ChannelLeaveCodes"
        \/ t = "ChannelSubscribeAnswer" /\ b = "ChannelSubscribingCodes"
        \/ t = "ChannelSubscriptionListAnswer" /\ b = "vector<uint64>"
        \/ t = "ChannelDeleteAnswer" /\ b = "ChannelDeleteCode"
        \/ t = "ChannelCreateAnswer" /\ b = "ChannelCreateCodes"
        \/ t = "DirectMessageCreateAnswer" /\ b = "DirectMessageStatus"
    BY SMTT(30), <1>1 DEF Answer, MessageAnswer, AccountAnswer, ChannelAnswer
  <2> HIDE DEF t, b
  <2>2. b # "none" /\ t \notin Bodiless \cup DOMAIN EditBody
    BY <2>1 DEF Bodiless, EditBody
  <2>3. t \in DOMAIN SharedBody /\ b = SharedBody[t]
    BY <2>1 DEF SharedBody, ConversationBody, AccountBody
  <2> QED
    BY <2>2, <2>3 DEF t, b
<1>2. CASE type \in DOMAIN MessageAnswer
  <2>1. \/ t = "MessageHistoryAnswer" /\ b = "vector<MessageInfo>"
        \/ t = "MessageStoreAnswer" /\ b = "StoringMessageCodes"
        \/ t = "ReplyHistoryAnswer" /\ b = "vector<ReplyInfo>"
        \/ t = "ReplyStoreAnswer" /\ b = "StoringReplyCodes"
        \/ t = "MessageDeleteAnswer" /\ b = "DeletingMessageCodes"
        \/ t = "MessageReactionAnswer" /\ b = "ReactionMessageCodes"
    <3>1. Answer[type] = MessageAnswer[type]
      <4>1. type \notin DOMAIN AccountAnswer /\ type \notin DOMAIN ChannelAnswer
        BY <1>2 DEF MessageAnswer, AccountAnswer, ChannelAnswer
      <4> QED
        BY <1>2, <4>1 DEF Answer
    <3>2. /\ t = MessageAnswer[type].type /\ b = MessageAnswer[type].body
          /\ type \in {"MessageHistoryRequest", "MessageStoreRequest", "ReplyHistoryRequest",
                      "ReplyStoreRequest", "MessageDeleteRequest", "MessageEditRequest",
                      "MessageReactionRequest"}
      BY <1>2, <3>1 DEF MessageAnswer
    <3>3. t # "MessageEditAnswer"
      OBVIOUS
    <3> HIDE DEF t, b
    <3> QED
      BY <3>2, <3>3 DEF MessageAnswer
  <2> HIDE DEF t, b
  <2>2. b # "none" /\ t \notin Bodiless \cup DOMAIN EditBody
    BY <2>1 DEF Bodiless, EditBody
  <2>3. t \in DOMAIN SharedBody /\ b = SharedBody[t]
    BY <2>1 DEF SharedBody, ConversationBody, AccountBody
  <2> QED
    BY <2>2, <2>3 DEF t, b
<1> QED
  BY <1>1, <1>2 DEF Answer

LEMMA NotMalformed == ASSUME NEW t \in DOMAIN SharedBody
                      PROVE  AnyType(SharedBody[t]) = SharedBody[t] /\ Archived(SharedBody[t])
<1>1. DOMAIN Malformed = {"malformedMessage", "malformedHistory"}
  BY DEF Malformed
<1>2. SharedBody[t] \notin {"malformedMessage", "malformedHistory"}
  BY DEF SharedBody, ConversationBody, AccountBody
<1> QED BY <1>1, <1>2 DEF AnyType, Archived

\* The body that loop() casts an answer to is the one that the pipeline has restored.
LEMMA AnswersCast ==
  ASSUME NEW type \in DOMAIN Answer, Answer[type].type \in DOMAIN LoopCast
  PROVE  LoopCast[Answer[type].type] = Arrives(Answer[type].type, Answer[type].body)
<1> DEFINE t == Answer[type].type
           b == Answer[type].body
<1>1. t # "MessageEditAnswer"
  BY DEF LoopCast
<1>2. /\ t \in DOMAIN SharedBody \ (Bodiless \cup DOMAIN EditBody) /\ b = SharedBody[t] /\ b # "none"
  BY <1>1, AnswersArrive
<1>3. LoopCast[t] = Answer[type].body
  BY SMTT(30) DEF LoopCast, Answer, MessageAnswer, AccountAnswer, ChannelAnswer
<1> HIDE DEF t, b
<1>4. Arrives(t, b) = b
  BY <1>2, NotMalformed DEF Arrives, Serializes, Deserializes, OutBody, InBody
<1> QED
  BY <1>3, <1>4 DEF t, b

CastInv == /\ NoBadCast
           /\ \A m \in ToSet(toClient) : ~BadCast(m)
           /\ frontEnd = "cli" => VoiceMessages = FALSE

\* The steps that send nothing to the client and throw nothing.
LEMMA SilentSteps ==
  ASSUME Typed, Owner \/ User \/ OnSignal \/ RunPosted \/ ReadFails \/ LoopEnds \/ ForgetAccept
                \/ OnDisconnect \/ Disconnected \/ LinkFails \/ LoseLast \/ UNCHANGED vars
  PROVE  UNCHANGED frontEnd /\ context' \in {context} \cup {"run", "ended", "onDisconnect", "reset", "done"}
         /\ ToSet(toClient') \subseteq ToSet(toClient)
<1> USE DEF network, vars
<1>1. CASE Owner
  BY <1>1 DEF Owner, ConnectToServer, SeesConnection, Check, Use, Stop, Join
<1>2. CASE User
  BY <1>2 DEF User, MakeRequest, Disconnect, SignIn, CreateAccount, SwitchForm, RequestChannels
<1>3. CASE OnSignal \/ UNCHANGED vars
  BY <1>3 DEF OnSignal
<1>4. CASE RunPosted \/ ReadFails \/ LoopEnds \/ ForgetAccept
  BY <1>4, ShortElements DEF RunPosted, ReadFails, LoopEnds, ForgetAccept
<1>5. CASE OnDisconnect \/ Disconnected \/ LinkFails
  BY <1>5 DEF OnDisconnect, Disconnected, LinkFails
<1>6. CASE LoseLast
  BY <1>6, FrontElements DEF LoseLast, Typed, Queues
<1> QED
  BY <1>1, <1>2, <1>3, <1>4, <1>5, <1>6

LEMMA NextCastInv == ASSUME Typed, CastInv, [Next]_vars PROVE CastInv'
<1> USE DEF CastInv, NoBadCast
<1>1. CASE Owner \/ User \/ OnSignal \/ RunPosted \/ ReadFails \/ LoopEnds \/ ForgetAccept
           \/ OnDisconnect \/ Disconnected \/ LinkFails \/ LoseLast \/ UNCHANGED vars
  BY <1>1, SilentSteps
<1>2. ASSUME NEW m \in Message, ~BadCast(m), toClient' = Append(toClient, m), UNCHANGED <<frontEnd, context>>
      PROVE  CastInv'
  <2>1. ToSet(toClient') = ToSet(toClient) \cup {m}
    BY <1>2, Elements DEF Typed, Queues
  <2> QED
    BY <1>2, <2>1
<1>3. CASE Connected
  <2>1. ~BadCast([type |-> "ServerAccept", body |-> "none", ok |-> TRUE])
    BY DEF BadCast, LoopCast
  <2> QED
    <3>1. toClient' = toClient \/ ToSet(toClient') = {[type |-> "ServerAccept", body |-> "none", ok |-> TRUE]}
      BY <1>3, ShortElements DEF Connected
    <3>2. UNCHANGED <<frontEnd, context>>
      BY <1>3 DEF Connected
    <3> QED
      BY <2>1, <3>1, <3>2
<1>4. CASE Loop
  <2>1. Head(toClient) \in ToSet(toClient) /\ ToSet(toClient') \subseteq ToSet(toClient)
    BY <1>4, Elements DEF Loop, Typed, Queues
  <2>2. ~AppThrows(Head(toClient).type)
    BY DEF AppThrows, Prints
  <2> QED
    BY <1>4, <2>1, <2>2 DEF Loop
<1>5. CASE ServerBroadcasts
  <2>1. /\ [type |-> "ServerMessage", body |-> "none", ok |-> TRUE] \in Message
        /\ ~BadCast([type |-> "ServerMessage", body |-> "none", ok |-> TRUE])
    BY MessagesTyped DEF BadCast, LoopCast
  <2>2. PICK m \in Message : /\ ~BadCast(m) /\ toClient' = Append(toClient, m)
                             /\ UNCHANGED <<frontEnd, context>>
    BY <1>5, <2>1 DEF ServerBroadcasts
  <2> QED
    BY <1>2, <2>2
<1>6. CASE ServerAnswers
  <2>1. ASSUME NEW type \in DOMAIN Answer, NEW ok \in BOOLEAN,
               toClient' = Append(toClient,
                  [type |-> Answer[type].type,
                   body |-> Arrives(Answer[type].type, Answer[type].body), ok |-> ok])
        PROVE  CastInv'
    <3> DEFINE answer == [type |-> Answer[type].type,
                          body |-> Arrives(Answer[type].type, Answer[type].body), ok |-> ok]
    <3>1. answer \in Message
      BY MessagesTyped
    <3>2. ~BadCast(answer)
      BY AnswersCast DEF BadCast
    <3>3. toClient' = Append(toClient, answer) /\ UNCHANGED <<frontEnd, context>>
      BY <1>6, <2>1 DEF ServerAnswers
    <3> HIDE DEF answer
    <3> QED
      BY <1>2, <3>1, <3>2, <3>3
  <2>2. /\ [type |-> "ServerPing", body |-> "none", ok |-> TRUE] \in Message
        /\ ~BadCast([type |-> "ServerPing", body |-> "none", ok |-> TRUE])
    BY MessagesTyped DEF BadCast, LoopCast
  <2>3. \/ \E type \in DOMAIN Answer, ok \in BOOLEAN :
             toClient' = Append(toClient,
                [type |-> Answer[type].type,
                 body |-> Arrives(Answer[type].type, Answer[type].body), ok |-> ok])
        \/ toClient' = Append(toClient, [type |-> "ServerPing", body |-> "none", ok |-> TRUE])
        \/ UNCHANGED toClient
    BY <1>6 DEF ServerAnswers
  <2>4. UNCHANGED <<frontEnd, context>>
    BY <1>6 DEF ServerAnswers
  <2>5. CASE UNCHANGED toClient
    BY <2>4, <2>5
  <2>6. CASE toClient' = Append(toClient, [type |-> "ServerPing", body |-> "none", ok |-> TRUE])
    BY <1>2, <2>2, <2>4, <2>6
  <2> QED
    BY <2>1, <2>3, <2>5, <2>6
<1> QED
  BY <1>1, <1>3, <1>4, <1>5, <1>6 DEF Next, ContextThread, Environment

\* No any_cast of loop() throws, and nothing else ends the context thread with
\* an exception: whatever is asked and however answers queue up, a body is what
\* loop() casts it to.  The command line program needs a server without voice
\* messages, which its handler of a history takes for texts.
THEOREM CastsSucceed == ("cli" \in FrontEnds => ~VoiceMessages) => (Spec => []NoBadCast)
<1> SUFFICES ASSUME "cli" \in FrontEnds => ~VoiceMessages PROVE Spec => []NoBadCast
  OBVIOUS
<1>1. Init => CastInv
  BY ShortElements, VoiceAssumption DEF Init, CastInv, NoBadCast
<1>2. Typed /\ CastInv /\ [Next]_vars => CastInv'
  BY NextCastInv
<1>3. CastInv => NoBadCast
  BY DEF CastInv
<1>4. Typed /\ [Next]_vars => Typed'
  BY TypedNext
<1> QED
  BY TypedInit, <1>1, <1>2, <1>3, <1>4, PTL DEF Spec

------------------------------------------------------------------------------
(* The answer and the page.  The request of a page is counted wherever it   *)
(* can be: in the operation that sends it, in the context, on the network,  *)
(* as an answer and as a signal.  Only the button of a page that is not     *)
(* paused adds one; every other step moves or drops one.                    *)

LEMMA CountAppend ==
  ASSUME NEW T, NEW s \in Seq(T), NEW e \in T, NEW x
  PROVE  /\ Times(s, x) \in Nat /\ Times(Append(s, e), x) \in Nat
         /\ Times(Append(s, e), x) = Times(s, x) + (IF e = x THEN 1 ELSE 0)
<1>1. Len(Only(s, {x})) \in Nat
  BY HowMany
<1>2. Len(Only(Append(s, e), {x})) = Len(Only(s, {x})) + (IF e \in {x} THEN 1 ELSE 0)
  BY HowManyAppend
<1> QED
  BY <1>1, <1>2 DEF Times

LEMMA CountTail ==
  ASSUME NEW T, NEW s \in Seq(T), s # <<>>, NEW x
  PROVE  /\ Times(s, x) \in Nat /\ Times(Tail(s), x) \in Nat
         /\ Times(s, x) = Times(Tail(s), x) + (IF Head(s) = x THEN 1 ELSE 0)
<1>1. Len(Only(s, {x})) \in Nat
  BY HowMany
<1>2. Len(Only(s, {x})) = Len(Only(Tail(s), {x})) + (IF Head(s) \in {x} THEN 1 ELSE 0)
  BY HowManyTail
<1>3. Len(Only(Tail(s), {x})) \in Nat
  <2>1. Tail(s) \in Seq(T)
    OBVIOUS
  <2> QED
    BY <2>1, HowMany
<1> QED
  BY <1>1, <1>2, <1>3 DEF Times

LEMMA CountShort ==
  ASSUME NEW x
  PROVE  /\ Times(<<>>, x) = 0
         /\ \A a : Times(<<a>>, x) = IF a = x THEN 1 ELSE 0
         /\ \A a, b : Times(<<a, b>>, x) = (IF a = x THEN 1 ELSE 0) + (IF b = x THEN 1 ELSE 0)
<1>1. Times(<<>>, x) = 0
  BY OnlyEmpty DEF Times
<1>2. ASSUME NEW a, NEW b
      PROVE  /\ Times(<<a>>, x) = IF a = x THEN 1 ELSE 0
             /\ Times(<<a, b>>, x) = (IF a = x THEN 1 ELSE 0) + (IF b = x THEN 1 ELSE 0)
  <2>1. PICK T, none, one : /\ a \in T /\ b \in T /\ none \in Seq(T) /\ one \in Seq(T)
                            /\ none = <<>> /\ one = Append(none, a) /\ one = <<a>>
                            /\ <<a, b>> = Append(one, b)
    <3>1. /\ a \in {a, b} /\ b \in {a, b} /\ <<>> \in Seq({a, b}) /\ <<a>> \in Seq({a, b})
          /\ <<a>> = Append(<<>>, a) /\ <<a, b>> = Append(<<a>>, b)
      OBVIOUS
    <3> QED
      BY <3>1
  <2>2. a \in T /\ b \in T /\ none \in Seq(T) /\ one \in Seq(T)
    BY <2>1
  <2>3. Times(Append(none, a), x) = Times(none, x) + (IF a = x THEN 1 ELSE 0)
    BY <2>2, CountAppend
  <2>4. Times(Append(one, b), x) = Times(one, x) + (IF b = x THEN 1 ELSE 0)
    BY <2>2, CountAppend
  <2>5. Times(one, x) = IF a = x THEN 1 ELSE 0
    BY <1>1, <2>1, <2>3
  <2> QED
    BY <2>1, <2>4, <2>5
<1> QED
  BY <1>1, <1>2

\* The types of a queue of messages and the names of a queue of signals.
LEMMA TypesOfQueue ==
  ASSUME NEW s \in Seq(Message)
  PROVE  /\ TypesOf(s) \in Seq(MessageType)
         /\ \A m \in Message : TypesOf(Append(s, m)) = Append(TypesOf(s), m.type)
         /\ s # <<>> => /\ TypesOf(s) # <<>> /\ Head(TypesOf(s)) = Head(s).type
                        /\ TypesOf(Tail(s)) = Tail(TypesOf(s))
<1>1. PICK type \in [Message -> MessageType] : \A m \in Message : type[m] = m.type
  <2>1. [m \in Message |-> m.type] \in [Message -> MessageType]
    BY DEF Message
  <2> QED
    BY <2>1
<1>2. \A t \in Seq(Message) : TypesOf(t) = Each(t, type)
  BY <1>1 DEF TypesOf, Each
<1>3. \A m \in Message : Append(s, m) \in Seq(Message)
  OBVIOUS
<1>4. s # <<>> => Tail(s) \in Seq(Message) /\ Head(s) \in Message
  OBVIOUS
<1>5. Each(s, type) \in Seq(MessageType)
  BY EachType
<1>6. ASSUME NEW m \in Message PROVE Each(Append(s, m), type) = Append(Each(s, type), type[m])
  BY ONLY s \in Seq(Message), type \in [Message -> MessageType], m \in Message, EachAppend
<1>7. s # <<>> => /\ Each(s, type) # <<>> /\ Head(Each(s, type)) = type[Head(s)]
                  /\ Each(Tail(s), type) = Tail(Each(s, type))
  BY EachTail
<1> QED
  BY <1>1, <1>2, <1>3, <1>4, <1>5, <1>6, <1>7

SignalName == {SignalOf[p] : p \in Pages} \cup {"onDisconnect"}

LEMMA NamesOfQueue ==
  ASSUME NEW s \in Seq(Signal)
  PROVE  /\ NamesOf(s) \in Seq(SignalName)
         /\ \A g \in Signal : NamesOf(Append(s, g)) = Append(NamesOf(s), g.name)
         /\ s # <<>> => /\ NamesOf(s) # <<>> /\ Head(NamesOf(s)) = Head(s).name
                        /\ NamesOf(Tail(s)) = Tail(NamesOf(s))
<1>1. PICK name \in [Signal -> SignalName] : \A g \in Signal : name[g] = g.name
  <2>1. [g \in Signal |-> g.name] \in [Signal -> SignalName]
    BY DEF Signal, SignalName
  <2> QED
    BY <2>1
<1>2. \A t \in Seq(Signal) : NamesOf(t) = Each(t, name)
  BY <1>1 DEF NamesOf, Each
<1>3. \A g \in Signal : Append(s, g) \in Seq(Signal)
  OBVIOUS
<1>4. s # <<>> => Tail(s) \in Seq(Signal) /\ Head(s) \in Signal
  OBVIOUS
<1>5. Each(s, name) \in Seq(SignalName)
  BY EachType
<1>6. ASSUME NEW g \in Signal PROVE Each(Append(s, g), name) = Append(Each(s, name), name[g])
  BY ONLY s \in Seq(Signal), name \in [Signal -> SignalName], g \in Signal, EachAppend
<1>7. s # <<>> => /\ Each(s, name) # <<>> /\ Head(Each(s, name)) = name[Head(s)]
                  /\ Each(Tail(s), name) = Tail(Each(s, name))
  BY EachTail
<1> QED
  BY <1>1, <1>2, <1>3, <1>4, <1>5, <1>6, <1>7

Sending(p) == IF owner \in {"check", "use"} THEN Times(todo, RequestOf[p]) ELSE 0
Abroad(p) == Times(posted, RequestOf[p]) + Times(toServer, RequestOf[p])
             + Times(TypesOf(toClient), SignalOf[p])
OnItsWay(p) == IF context = "done" THEN 0 ELSE Abroad(p)
Resuming(p) == Times(NamesOf(signals), SignalOf[p])
Copies(p) == Sending(p) + OnItsWay(p) + Resuming(p)

\* onDisconnect is the last signal there is.
LastSignal == \A i \in 1..Len(signals) :
                 signals[i].name = "onDisconnect" => i = Len(signals) /\ context = "done"
AskedOnce == \A p \in Pages : Copies(p) > 0 => Copies(p) = 1 /\ paused[p] /\ appState = FormOf[p]
NotStarted == owner = "start" => context = "none"
AnswerInv == AskedOnce /\ LastSignal /\ NotStarted

LEMMA Counts ==
  ASSUME Typed, NEW p \in Pages
  PROVE  /\ Times(todo, RequestOf[p]) \in Nat /\ Times(posted, RequestOf[p]) \in Nat
         /\ Times(toServer, RequestOf[p]) \in Nat /\ Times(TypesOf(toClient), SignalOf[p]) \in Nat
         /\ Sending(p) \in Nat /\ Abroad(p) \in Nat /\ OnItsWay(p) \in Nat /\ Resuming(p) \in Nat
<1>1. ASSUME NEW T, NEW s \in Seq(T), NEW x PROVE Times(s, x) \in Nat
  BY HowMany DEF Times
<1>2. /\ todo \in Seq(Type) /\ posted \in Seq(Type \cup {"close"}) /\ toServer \in Seq(Type)
      /\ TypesOf(toClient) \in Seq(MessageType) /\ NamesOf(signals) \in Seq(SignalName)
  BY TypesOfQueue, NamesOfQueue DEF Typed, Todo, Queues
<1>3. /\ Times(todo, RequestOf[p]) \in Nat /\ Times(posted, RequestOf[p]) \in Nat
      /\ Times(toServer, RequestOf[p]) \in Nat /\ Times(TypesOf(toClient), SignalOf[p]) \in Nat
      /\ Times(NamesOf(signals), SignalOf[p]) \in Nat
  BY <1>1, <1>2
<1> QED
  BY <1>3 DEF Sending, Abroad, OnItsWay, Resuming

\* What the tables say of the three pages: which answer is whose, and that
\* nothing else is one.
LEMMA PagesApart ==
  /\ \A type \in DOMAIN Answer, p \in Pages : Answer[type].type = SignalOf[p] <=> type = RequestOf[p]
  /\ \A p \in Pages : /\ SignalOf[p] \notin {"ServerAccept", "ServerPing", "ServerMessage", "onDisconnect"}
                      /\ RequestOf[p] \notin {"close", "ServerPing", "MessageAll",
                                              "ChannelSubscriptionListRequest"}
                      /\ RequestOf[p] \notin Requests
                      /\ RequestOf[p] \in DOMAIN Answer
  /\ \A p, q \in Pages : p # q => RequestOf[p] # RequestOf[q] /\ SignalOf[p] # SignalOf[q]
                                  /\ FormOf[p] # FormOf[q]
<1>1. \A type \in DOMAIN Answer, p \in Pages : Answer[type].type = SignalOf[p] <=> type = RequestOf[p]
  BY DEF Answer, MessageAnswer, AccountAnswer, ChannelAnswer, SignalOf, RequestOf, Pages
<1>2. \A p \in Pages : /\ SignalOf[p] \notin {"ServerAccept", "ServerPing", "ServerMessage", "onDisconnect"}
                       /\ RequestOf[p] \notin {"close", "ServerPing", "MessageAll",
                                               "ChannelSubscriptionListRequest"}
                       /\ RequestOf[p] \notin Requests
  BY DEF SignalOf, RequestOf, Pages
<1>3. \A p \in Pages : RequestOf[p] \in DOMAIN Answer
  BY DEF Answer, AccountAnswer, RequestOf, Pages
<1>4. \A p, q \in Pages : p # q => RequestOf[p] # RequestOf[q] /\ SignalOf[p] # SignalOf[q]
                                  /\ FormOf[p] # FormOf[q]
  BY DEF SignalOf, RequestOf, FormOf, Pages
<1> QED
  BY <1>1, <1>2, <1>3, <1>4

\* The steps that press no button and resume no page add no request of a page.
AddsNone == \A p \in Pages : Copies(p)' \in 0..Copies(p)

LEMMA SameQueues ==
  ASSUME Typed, UNCHANGED <<todo, posted, toServer, toClient, signals>>,
         owner' = owner \/ {owner, owner'} \cap {"check", "use"} = {},
         context' = context \/ context # "done"
  PROVE  AddsNone
<1> SUFFICES ASSUME NEW p \in Pages PROVE Copies(p)' \in 0..Copies(p)
  BY DEF AddsNone
<1>1. Sending(p) \in Nat /\ Abroad(p) \in Nat /\ Resuming(p) \in Nat /\ OnItsWay(p) \in Nat
  BY Counts
<1>2. Sending(p)' = Sending(p) /\ Resuming(p)' = Resuming(p) /\ Abroad(p)' = Abroad(p)
  BY DEF Sending, Abroad, Resuming
<1>3. OnItsWay(p)' \in {0, OnItsWay(p)}
  BY <1>2 DEF OnItsWay
<1> QED
  BY <1>1, <1>2, <1>3 DEF Copies

LEMMA CheckAddsNone == ASSUME Typed, Check PROVE AddsNone
<1> SUFFICES ASSUME NEW p \in Pages PROVE Copies(p)' \in 0..Copies(p)
  BY DEF AddsNone
<1>1. Times(todo, RequestOf[p]) \in Nat /\ Abroad(p) \in Nat /\ Resuming(p) \in Nat /\ OnItsWay(p) \in Nat
  BY Counts
<1>2. /\ Times(Tail(todo), RequestOf[p]) \in Nat
      /\ Times(todo, RequestOf[p]) = Times(Tail(todo), RequestOf[p])
                                     + (IF Head(todo) = RequestOf[p] THEN 1 ELSE 0)
  BY CountTail DEF Check, Typed, Todo
<1>3. Sending(p) = Times(todo, RequestOf[p])
  BY DEF Sending, Check
<1>4. Sending(p)' \in {0, Times(todo, RequestOf[p]), Times(Tail(todo), RequestOf[p])}
  BY DEF Sending, Check
<1>5. OnItsWay(p)' = OnItsWay(p) /\ Resuming(p)' = Resuming(p)
  BY DEF OnItsWay, Abroad, Resuming, Check, network
<1> QED
  BY <1>1, <1>2, <1>3, <1>4, <1>5 DEF Copies

LEMMA UseAddsNone == ASSUME Typed, Use PROVE AddsNone
<1> SUFFICES ASSUME NEW p \in Pages PROVE Copies(p)' \in 0..Copies(p)
  BY DEF AddsNone
<1> DEFINE one == IF Head(todo) = RequestOf[p] THEN 1 ELSE 0
<1>1. Times(todo, RequestOf[p]) \in Nat /\ Abroad(p) \in Nat /\ Resuming(p) \in Nat /\ OnItsWay(p) \in Nat
  BY Counts
<1>2. /\ Times(Tail(todo), RequestOf[p]) \in Nat
      /\ Times(todo, RequestOf[p]) = Times(Tail(todo), RequestOf[p]) + one
  BY CountTail DEF Use, Typed, Todo
<1>3. Sending(p) = Times(todo, RequestOf[p]) /\ Resuming(p)' = Resuming(p)
  BY DEF Sending, Resuming, Use
<1>4. CASE owner' = "crashed" /\ UNCHANGED posted
  <2>1. Sending(p)' = 0 /\ OnItsWay(p)' = OnItsWay(p)
    BY <1>4 DEF Sending, OnItsWay, Abroad, Use, network
  <2> QED
    BY <1>1, <1>3, <2>1 DEF Copies
<1>5. CASE posted' = Append(posted, Head(todo)) /\ todo' = Tail(todo)
  <2>1. Head(todo) \in Type \cup {"close"} /\ posted \in Seq(Type \cup {"close"})
    BY Tails DEF Use, Typed, Todo, Queues
  <2>2. Times(Append(posted, Head(todo)), RequestOf[p]) = Times(posted, RequestOf[p]) + one
    BY <2>1, CountAppend
  <2>3. Times(posted, RequestOf[p]) \in Nat
    BY Counts
  <2>4. Abroad(p)' = Abroad(p) + one
    <3>1. /\ Times(posted', RequestOf[p]) = Times(posted, RequestOf[p]) + one
          /\ UNCHANGED <<toServer, toClient>>
      BY <1>5, <2>2 DEF Use, network
    <3> QED
      BY <3>1, <2>3, Counts DEF Abroad
  <2>5. OnItsWay(p)' \in {OnItsWay(p), OnItsWay(p) + one}
    BY <2>4 DEF OnItsWay, Use
  <2>6. Sending(p)' \in {0, Times(Tail(todo), RequestOf[p])}
    BY <1>5 DEF Sending
  <2> QED
    BY <1>1, <1>2, <1>3, <2>5, <2>6 DEF Copies
<1> QED
  BY <1>4, <1>5 DEF Use

LEMMA MakeRequestAddsNone == ASSUME Typed, MakeRequest PROVE AddsNone
<1> SUFFICES ASSUME NEW p \in Pages PROVE Copies(p)' \in 0..Copies(p)
  BY DEF AddsNone
<1>1. PICK type \in Requests : todo' = <<type>>
  BY DEF MakeRequest
<1>2. Times(<<type>>, RequestOf[p]) = 0
  BY ZenonT(40), CountShort, PagesApart
<1>3. Sending(p)' = 0 /\ Sending(p) = 0 /\ OnItsWay(p)' = OnItsWay(p) /\ Resuming(p)' = Resuming(p)
  BY <1>1, <1>2 DEF Sending, OnItsWay, Abroad, Resuming, MakeRequest, network
<1> QED
  BY <1>3, Counts DEF Copies

LEMMA DisconnectAddsNone == ASSUME Typed, Disconnect PROVE AddsNone
<1> SUFFICES ASSUME NEW p \in Pages PROVE Copies(p)' \in 0..Copies(p)
  BY DEF AddsNone
<1>1. Times(Append(posted, "close"), RequestOf[p]) = Times(posted, RequestOf[p])
  <2>1. /\ posted \in Seq(Type \cup {"close"}) /\ "close" \in Type \cup {"close"}
        /\ RequestOf[p] # "close"
    BY PagesApart DEF Typed, Queues
  <2>2. Times(Append(posted, "close"), RequestOf[p])
        = Times(posted, RequestOf[p]) + (IF "close" = RequestOf[p] THEN 1 ELSE 0)
    BY <2>1, CountAppend
  <2> QED
    BY <2>1, <2>2, Counts
<1>2. Times(posted', RequestOf[p]) = Times(posted, RequestOf[p])
  BY <1>1 DEF Disconnect
<1>3. Sending(p)' = 0 /\ Sending(p) = 0 /\ OnItsWay(p)' = OnItsWay(p) /\ Resuming(p)' = Resuming(p)
  BY <1>2 DEF Sending, OnItsWay, Abroad, Resuming, Disconnect, network
<1> QED
  BY <1>3, Counts DEF Copies

LEMMA OwnerAddsNone == ASSUME Typed, AnswerInv, Owner PROVE AddsNone
<1> USE DEF network
<1>1. CASE ConnectToServer
  BY <1>1, SameQueues DEF ConnectToServer, AnswerInv, NotStarted
<1>2. CASE SeesConnection \/ Stop \/ Join
  BY <1>2, SameQueues DEF SeesConnection, Stop, Join
<1> QED
  BY <1>1, <1>2, CheckAddsNone, UseAddsNone DEF Owner

\* A request that is written moves from one queue to the next.
LEMMA RunPostedAddsNone == ASSUME Typed, RunPosted PROVE AddsNone
<1> SUFFICES ASSUME NEW p \in Pages PROVE Copies(p)' \in 0..Copies(p)
  BY DEF AddsNone
<1> DEFINE one == IF Head(posted) = RequestOf[p] THEN 1 ELSE 0
<1>1. /\ Times(posted, RequestOf[p]) \in Nat /\ Times(toServer, RequestOf[p]) \in Nat
      /\ Times(TypesOf(toClient), SignalOf[p]) \in Nat /\ Sending(p) \in Nat /\ Resuming(p) \in Nat
  BY Counts
<1>2. /\ Times(Tail(posted), RequestOf[p]) \in Nat
      /\ Times(posted, RequestOf[p]) = Times(Tail(posted), RequestOf[p]) + one
  BY CountTail DEF RunPosted, Typed, Queues
<1>3. Times(toServer', RequestOf[p]) \in {Times(toServer, RequestOf[p]), Times(toServer, RequestOf[p]) + one}
  <2>1. CASE Head(posted) # "close" /\ toServer' = Append(toServer, Head(posted))
    <3>1. toServer \in Seq(Type) /\ Head(posted) \in Type
      BY <2>1, Tails DEF RunPosted, Typed, Queues
    <3>2. Times(Append(toServer, Head(posted)), RequestOf[p]) = Times(toServer, RequestOf[p]) + one
      BY <3>1, CountAppend
    <3> QED
      BY <2>1, <3>2
  <2>2. CASE UNCHANGED toServer
    BY <2>2
  <2> QED
    BY <2>1, <2>2 DEF RunPosted
<1>4. /\ Sending(p)' = Sending(p) /\ Resuming(p)' = Resuming(p) /\ posted' = Tail(posted)
      /\ UNCHANGED <<toClient, context>>
  BY DEF Sending, Resuming, RunPosted
<1>5. Abroad(p)' <= Abroad(p) /\ Abroad(p)' \in Nat /\ Abroad(p) \in Nat
  <2>1. PICK k \in {0, 1} : k = one
    OBVIOUS
  <2>2. /\ Times(posted', RequestOf[p]) \in Nat
        /\ Times(posted, RequestOf[p]) = Times(posted', RequestOf[p]) + k
        /\ Times(toServer', RequestOf[p]) \in {Times(toServer, RequestOf[p]), Times(toServer, RequestOf[p]) + k}
    BY <1>2, <1>3, <1>4, <2>1
  <2>3. TypesOf(toClient') = TypesOf(toClient)
    BY <1>4
  <2> HIDE DEF one
  <2> QED
    BY <1>1, <2>2, <2>3 DEF Abroad
<1>6. OnItsWay(p)' <= OnItsWay(p) /\ OnItsWay(p)' \in Nat /\ OnItsWay(p) \in Nat
  BY <1>4, <1>5 DEF OnItsWay
<1> QED
  BY <1>1, <1>4, <1>6 DEF Copies

\* A new connection has nothing but the accept on it, and one that has failed
\* has nothing.
LEMMA FewMessages ==
  ASSUME NEW p \in Pages
  PROVE  /\ Times(TypesOf(<<>>), SignalOf[p]) = 0
         /\ \A m : m.type \notin {SignalOf[q] : q \in Pages}
                   => Times(TypesOf(<<m>>), SignalOf[p]) = 0
<1>1. TypesOf(<<>>) = <<>> /\ \A m : TypesOf(<<m>>) = <<m.type>>
  BY DEF TypesOf
<1>2. Times(TypesOf(<<>>), SignalOf[p]) = 0
  BY <1>1, CountShort
<1>3. ASSUME NEW m, m.type \notin {SignalOf[q] : q \in Pages}
      PROVE  Times(TypesOf(<<m>>), SignalOf[p]) = 0
  <2>1. m.type # SignalOf[p]
    BY <1>3
  <2>2. Times(<<m.type>>, SignalOf[p]) = 0
    BY <2>1, CountShort
  <2> QED
    BY <1>1, <2>2
<1> QED
  BY <1>2, <1>3

LEMMA NewLinkAddsNone == ASSUME Typed, Connected \/ ReadFails PROVE AddsNone
<1> SUFFICES ASSUME NEW p \in Pages PROVE Copies(p)' \in 0..Copies(p)
  BY DEF AddsNone
<1>1. Times(TypesOf(toClient'), SignalOf[p]) \in {0, Times(TypesOf(toClient), SignalOf[p])}
  <2> DEFINE accept == [type |-> "ServerAccept", body |-> "none", ok |-> TRUE]
  <2>1. toClient' \in {toClient, <<>>, <<accept>>}
    BY DEF Connected, ReadFails
  <2>2. Times(TypesOf(<<accept>>), SignalOf[p]) = 0 /\ Times(TypesOf(<<>>), SignalOf[p]) = 0
    <3>1. accept.type = "ServerAccept"
      OBVIOUS
    <3>2. accept.type \notin {SignalOf[q] : q \in Pages}
      BY <3>1, PagesApart
    <3> HIDE DEF accept
    <3> QED
      BY <3>2, FewMessages
  <2> HIDE DEF accept
  <2> QED
    BY <2>1, <2>2
<1>2. UNCHANGED <<todo, owner, posted, toServer, signals, context>>
  BY DEF Connected, ReadFails
<1>3. Sending(p)' = Sending(p) /\ Resuming(p)' = Resuming(p)
  BY <1>2 DEF Sending, Resuming
<1>4. Abroad(p)' <= Abroad(p) /\ Abroad(p)' \in Nat /\ Abroad(p) \in Nat
  BY <1>1, <1>2, Counts DEF Abroad
<1>5. OnItsWay(p)' <= OnItsWay(p) /\ OnItsWay(p)' \in Nat /\ OnItsWay(p) \in Nat
  BY <1>2, <1>4 DEF OnItsWay
<1> QED
  BY <1>3, <1>5, Counts DEF Copies

\* loop() takes a message, and emits at most the signal of its type.
LEMMA LoopAddsNone == ASSUME Typed, Loop PROVE AddsNone
<1> SUFFICES ASSUME NEW p \in Pages PROVE Copies(p)' \in 0..Copies(p)
  BY DEF AddsNone
<1> DEFINE one == IF Head(toClient).type = SignalOf[p] THEN 1 ELSE 0
<1>1. /\ Times(posted, RequestOf[p]) \in Nat /\ Times(toServer, RequestOf[p]) \in Nat
      /\ Sending(p) \in Nat /\ Resuming(p) \in Nat
  BY Counts
<1>2. /\ toClient \in Seq(Message) /\ toClient # <<>> /\ toClient' = Tail(toClient)
      /\ signals \in Seq(Signal) /\ Head(toClient) \in Message
  BY DEF Loop, Typed, Queues
<1>3. /\ Times(TypesOf(Tail(toClient)), SignalOf[p]) \in Nat
      /\ Times(TypesOf(toClient), SignalOf[p]) = Times(TypesOf(Tail(toClient)), SignalOf[p]) + one
  <2>1. /\ TypesOf(toClient) \in Seq(MessageType) /\ TypesOf(toClient) # <<>>
        /\ Head(TypesOf(toClient)) = Head(toClient).type
        /\ TypesOf(Tail(toClient)) = Tail(TypesOf(toClient))
    BY <1>2, TypesOfQueue
  <2>2. /\ Times(Tail(TypesOf(toClient)), SignalOf[p]) \in Nat
        /\ Times(TypesOf(toClient), SignalOf[p])
           = Times(Tail(TypesOf(toClient)), SignalOf[p])
             + (IF Head(TypesOf(toClient)) = SignalOf[p] THEN 1 ELSE 0)
    BY <2>1, CountTail
  <2> QED
    BY <2>1, <2>2
<1>4. Resuming(p)' \in {Resuming(p), Resuming(p) + one}
  <2>1. CASE UNCHANGED signals
    BY <2>1 DEF Resuming
  <2>2. ASSUME NEW g \in Signal, g.name = Head(toClient).type, signals' = Append(signals, g)
        PROVE  Resuming(p)' = Resuming(p) + one
    <3>1. NamesOf(signals) \in Seq(SignalName) /\ NamesOf(signals') = Append(NamesOf(signals), g.name)
      BY <1>2, <2>2, NamesOfQueue
    <3>2. g.name \in SignalName
      BY <2>2 DEF Signal, SignalName
    <3>3. Times(Append(NamesOf(signals), g.name), SignalOf[p])
          = Times(NamesOf(signals), SignalOf[p]) + (IF g.name = SignalOf[p] THEN 1 ELSE 0)
      BY <3>1, <3>2, CountAppend
    <3> QED
      BY <2>2, <3>1, <3>3 DEF Resuming
  <2>3. \/ UNCHANGED signals
        \/ \E g \in Signal : g.name = Head(toClient).type /\ signals' = Append(signals, g)
    <3>1. Head(toClient).ok \in BOOLEAN
      BY <1>2 DEF Message
    <3>2. CASE Awaited(Head(toClient).type)
                /\ signals' = Append(signals, [name |-> Head(toClient).type, ok |-> Head(toClient).ok])
      <4>1. [name |-> Head(toClient).type, ok |-> Head(toClient).ok] \in Signal
        BY <3>1, <3>2 DEF Awaited, Signal
      <4> QED
        BY <3>2, <4>1
    <3> QED
      BY <3>2 DEF Loop, OnAnswer, Emit
  <2> QED
    BY <2>1, <2>2, <2>3
<1>5. /\ UNCHANGED <<posted, toServer, todo>> /\ context = "run" /\ context' \in {"run", "threw"}
      /\ owner' \in {owner, "crashed"}
  BY DEF Loop, Handles
<1>6. Sending(p)' \in {0, Sending(p)}
  BY <1>5 DEF Sending
<1>7. /\ OnItsWay(p)' = Times(posted, RequestOf[p]) + Times(toServer, RequestOf[p])
                         + Times(TypesOf(Tail(toClient)), SignalOf[p])
      /\ OnItsWay(p) = Times(posted, RequestOf[p]) + Times(toServer, RequestOf[p])
                        + Times(TypesOf(toClient), SignalOf[p])
  BY <1>2, <1>5 DEF OnItsWay, Abroad
<1> QED
  <2>1. CASE UNCHANGED signals
    <3>1. Resuming(p)' = Resuming(p)
      BY <2>1 DEF Resuming
    <3> QED
      BY <1>1, <1>3, <1>6, <1>7, <3>1 DEF Copies
  <2> QED
    BY <1>1, <1>3, <1>4, <1>6, <1>7 DEF Copies

LEMMA DisconnectedAddsNone == ASSUME Typed, Disconnected PROVE AddsNone
<1> SUFFICES ASSUME NEW p \in Pages PROVE Copies(p)' \in 0..Copies(p)
  BY DEF AddsNone
<1>1. UNCHANGED <<todo, owner>> /\ context' = "done"
  BY DEF Disconnected
<1>2. Sending(p)' = Sending(p) /\ OnItsWay(p)' = 0
  BY <1>1 DEF Sending, OnItsWay
<1>3. Resuming(p)' = Resuming(p)
  <2>1. CASE UNCHANGED signals
    BY <2>1 DEF Resuming
  <2>2. CASE signals' = Append(signals, [name |-> "onDisconnect", ok |-> FALSE])
    <3>1. PICK g \in Signal : g.name = "onDisconnect" /\ signals' = Append(signals, g)
      BY <2>2 DEF Signal
    <3>2. NamesOf(signals) \in Seq(SignalName) /\ NamesOf(signals') = Append(NamesOf(signals), g.name)
      BY <3>1, NamesOfQueue DEF Typed, Queues
    <3>3. g.name \in SignalName /\ g.name # SignalOf[p]
      BY <3>1, PagesApart DEF SignalName
    <3>4. Times(Append(NamesOf(signals), g.name), SignalOf[p])
          = Times(NamesOf(signals), SignalOf[p]) + (IF g.name = SignalOf[p] THEN 1 ELSE 0)
      BY <3>2, <3>3, CountAppend
    <3>5. Times(NamesOf(signals), SignalOf[p]) \in Nat
      BY Counts DEF Resuming
    <3> QED
      BY <3>2, <3>3, <3>4, <3>5 DEF Resuming
  <2> QED
    BY <2>1, <2>2 DEF Disconnected, Emit
<1> QED
  BY <1>2, <1>3, Counts DEF Copies

LEMMA ContextAddsNone == ASSUME Typed, ContextThread PROVE AddsNone
<1> USE DEF network
<1>1. CASE LoopEnds \/ ForgetAccept \/ OnDisconnect
  BY <1>1, SameQueues DEF LoopEnds, ForgetAccept, OnDisconnect
<1> QED
  BY <1>1, RunPostedAddsNone, NewLinkAddsNone, LoopAddsNone, DisconnectedAddsNone DEF ContextThread

\* A message that arrives is counted when it is the answer to a page.
LEMMA Arrival ==
  ASSUME Typed, NEW p \in Pages, NEW m \in Message, toClient' = Append(toClient, m)
  PROVE  Times(TypesOf(toClient'), SignalOf[p])
         = Times(TypesOf(toClient), SignalOf[p]) + (IF m.type = SignalOf[p] THEN 1 ELSE 0)
<1>1. TypesOf(toClient) \in Seq(MessageType) /\ TypesOf(toClient') = Append(TypesOf(toClient), m.type)
  BY TypesOfQueue DEF Typed, Queues
<1>2. m.type \in MessageType
  BY DEF Message
<1>3. Times(Append(TypesOf(toClient), m.type), SignalOf[p])
      = Times(TypesOf(toClient), SignalOf[p]) + (IF m.type = SignalOf[p] THEN 1 ELSE 0)
  BY <1>1, <1>2, CountAppend
<1> QED
  BY <1>1, <1>3

LEMMA ServerAnswersAddsNone == ASSUME Typed, ServerAnswers PROVE AddsNone
<1> SUFFICES ASSUME NEW p \in Pages PROVE Copies(p)' \in 0..Copies(p)
  BY DEF AddsNone
<1>1. /\ Times(posted, RequestOf[p]) \in Nat /\ Times(toServer, RequestOf[p]) \in Nat
      /\ Times(TypesOf(toClient), SignalOf[p]) \in Nat /\ Sending(p) \in Nat /\ Resuming(p) \in Nat
  BY Counts
<1>2. PICK one \in {0, 1} : one = IF Head(toServer) = RequestOf[p] THEN 1 ELSE 0
  OBVIOUS
<1>3. /\ Times(toServer', RequestOf[p]) \in Nat
      /\ Times(toServer, RequestOf[p]) = Times(toServer', RequestOf[p]) + one
  <2>1. toServer' = Tail(toServer) /\ toServer \in Seq(Type) /\ toServer # <<>>
    BY DEF ServerAnswers, Typed, Queues
  <2>2. /\ Times(Tail(toServer), RequestOf[p]) \in Nat
        /\ Times(toServer, RequestOf[p])
           = Times(Tail(toServer), RequestOf[p]) + (IF Head(toServer) = RequestOf[p] THEN 1 ELSE 0)
    BY <2>1, CountTail
  <2> QED
    BY <1>2, <2>1, <2>2
<1>4. Times(TypesOf(toClient'), SignalOf[p])
      \in {Times(TypesOf(toClient), SignalOf[p]), Times(TypesOf(toClient), SignalOf[p]) + one}
  <2>1. ASSUME NEW m \in Message, toClient' = Append(toClient, m),
               m.type = SignalOf[p] => Head(toServer) = RequestOf[p]
        PROVE  Times(TypesOf(toClient'), SignalOf[p])
               \in {Times(TypesOf(toClient), SignalOf[p]), Times(TypesOf(toClient), SignalOf[p]) + one}
    <3>1. Times(TypesOf(toClient'), SignalOf[p])
          = Times(TypesOf(toClient), SignalOf[p]) + (IF m.type = SignalOf[p] THEN 1 ELSE 0)
      BY <2>1, Arrival
    <3> QED
      BY <1>1, <1>2, <2>1, <3>1
  <2>2. ASSUME NEW ok \in BOOLEAN, Head(toServer) \in DOMAIN Answer,
               toClient' = Append(toClient,
                  [type |-> Answer[Head(toServer)].type,
                   body |-> Arrives(Answer[Head(toServer)].type, Answer[Head(toServer)].body), ok |-> ok])
        PROVE  \E m \in Message : /\ toClient' = Append(toClient, m)
                                  /\ m.type = SignalOf[p] => Head(toServer) = RequestOf[p]
    <3>1. PICK type \in DOMAIN Answer : type = Head(toServer)
      BY <2>2
    <3>2. PICK m \in Message :
             m = [type |-> Answer[type].type,
                  body |-> Arrives(Answer[type].type, Answer[type].body), ok |-> ok]
      BY MessagesTyped
    <3>3. m.type = SignalOf[p] => type = RequestOf[p]
      BY <3>2, PagesApart
    <3>4. toClient' = Append(toClient, m)
      BY <2>2, <3>1, <3>2
    <3> QED
      BY <3>1, <3>3, <3>4
  <2>3. ASSUME toClient' = Append(toClient, [type |-> "ServerPing", body |-> "none", ok |-> TRUE])
        PROVE  \E m \in Message : toClient' = Append(toClient, m) /\ m.type # SignalOf[p]
    <3>1. PICK m \in Message : m = [type |-> "ServerPing", body |-> "none", ok |-> TRUE]
      BY MessagesTyped
    <3>2. m.type # SignalOf[p]
      BY <3>1, PagesApart
    <3> QED
      BY <2>3, <3>1, <3>2
  <2>4. \/ UNCHANGED toClient
        \/ \E m \in Message : /\ toClient' = Append(toClient, m)
                              /\ m.type = SignalOf[p] => Head(toServer) = RequestOf[p]
    <3>1. CASE Head(toServer) \in DOMAIN Answer /\ \E ok \in BOOLEAN :
                 toClient' = Append(toClient,
                    [type |-> Answer[Head(toServer)].type,
                     body |-> Arrives(Answer[Head(toServer)].type, Answer[Head(toServer)].body), ok |-> ok])
      BY <2>2, <3>1
    <3>2. CASE toClient' = Append(toClient, [type |-> "ServerPing", body |-> "none", ok |-> TRUE])
      BY <2>3, <3>2
    <3> QED
      BY <3>1, <3>2 DEF ServerAnswers
  <2> QED
    BY <2>1, <2>4
<1>5. UNCHANGED <<posted, todo, owner, context, signals>>
  BY DEF ServerAnswers
<1>6. Sending(p)' = Sending(p) /\ Resuming(p)' = Resuming(p)
  BY <1>5 DEF Sending, Resuming
<1>7. Abroad(p)' <= Abroad(p) /\ Abroad(p)' \in Nat /\ Abroad(p) \in Nat
  BY <1>1, <1>3, <1>4, <1>5 DEF Abroad
<1>8. OnItsWay(p)' <= OnItsWay(p) /\ OnItsWay(p)' \in Nat /\ OnItsWay(p) \in Nat
  BY <1>5, <1>7 DEF OnItsWay
<1> QED
  BY <1>1, <1>6, <1>8 DEF Copies

LEMMA BroadcastAddsNone == ASSUME Typed, ServerBroadcasts PROVE AddsNone
<1> SUFFICES ASSUME NEW p \in Pages PROVE Copies(p)' \in 0..Copies(p)
  BY DEF AddsNone
<1>1. PICK m \in Message : toClient' = Append(toClient, m) /\ m.type = "ServerMessage"
  BY MessagesTyped DEF ServerBroadcasts
<1>2. m.type # SignalOf[p]
  BY <1>1, PagesApart
<1>3. Times(TypesOf(toClient'), SignalOf[p]) = Times(TypesOf(toClient), SignalOf[p])
  <2>1. Times(TypesOf(toClient'), SignalOf[p])
        = Times(TypesOf(toClient), SignalOf[p]) + (IF m.type = SignalOf[p] THEN 1 ELSE 0)
    BY <1>1, Arrival
  <2> QED
    BY <1>2, <2>1, Counts
<1>4. UNCHANGED <<todo, owner, posted, toServer, signals, context>>
  BY DEF ServerBroadcasts
<1>5. Sending(p)' = Sending(p) /\ Resuming(p)' = Resuming(p) /\ OnItsWay(p)' = OnItsWay(p)
  BY <1>3, <1>4 DEF Sending, Resuming, OnItsWay, Abroad
<1> QED
  BY <1>5, Counts DEF Copies

LEMMA LoseLastAddsNone == ASSUME Typed, LoseLast PROVE AddsNone
<1> SUFFICES ASSUME NEW p \in Pages PROVE Copies(p)' \in 0..Copies(p)
  BY DEF AddsNone
<1> DEFINE f == Front(toClient)
           m == toClient[Len(toClient)]
<1>1. f \in Seq(Message) /\ m \in Message /\ toClient = Append(f, m)
  BY Fronts DEF LoseLast, Typed, Queues
<1>2. toClient' = f
  BY DEF LoseLast
<1> HIDE DEF f, m
<1>3. TypesOf(f) \in Seq(MessageType) /\ TypesOf(toClient) = Append(TypesOf(f), m.type)
  BY <1>1, TypesOfQueue
<1>4. m.type \in MessageType
  BY <1>1 DEF Message
<1>5. /\ Times(TypesOf(f), SignalOf[p]) \in Nat
      /\ Times(TypesOf(toClient), SignalOf[p])
         = Times(TypesOf(f), SignalOf[p]) + (IF m.type = SignalOf[p] THEN 1 ELSE 0)
  BY <1>3, <1>4, CountAppend
<1>6. UNCHANGED <<todo, owner, posted, toServer, signals, context>>
  BY DEF LoseLast
<1>7. Sending(p)' = Sending(p) /\ Resuming(p)' = Resuming(p)
  BY <1>6 DEF Sending, Resuming
<1>8. Abroad(p)' <= Abroad(p) /\ Abroad(p)' \in Nat /\ Abroad(p) \in Nat
  BY <1>2, <1>5, <1>6, Counts DEF Abroad
<1>9. OnItsWay(p)' <= OnItsWay(p) /\ OnItsWay(p)' \in Nat /\ OnItsWay(p) \in Nat
  BY <1>6, <1>8 DEF OnItsWay
<1> QED
  BY <1>7, <1>9, Counts DEF Copies

\* The steps of the threads and of the environment, but for the pages.
Quiet == Owner \/ MakeRequest \/ Disconnect \/ ContextThread \/ Environment \/ UNCHANGED vars

LEMMA QuietAddsNone == ASSUME Typed, AnswerInv, Quiet PROVE AddsNone
<1>1. CASE LinkFails \/ UNCHANGED vars
  BY <1>1, SameQueues DEF LinkFails, vars, network
<1> QED
  BY <1>1, OwnerAddsNone, MakeRequestAddsNone, DisconnectAddsNone, ContextAddsNone,
     ServerAnswersAddsNone, BroadcastAddsNone, LoseLastAddsNone DEF Quiet, Environment

LEMMA QuietKeepsPages == ASSUME Quiet PROVE UNCHANGED <<paused, appState>>
<1> USE DEF pages, vars
<1>1. CASE Owner \/ MakeRequest \/ Disconnect \/ UNCHANGED vars
  BY <1>1 DEF Owner, ConnectToServer, SeesConnection, Check, Use, Stop, Join, MakeRequest, Disconnect
<1>2. CASE Connected \/ RunPosted \/ ReadFails \/ Loop
  BY <1>2 DEF Connected, RunPosted, ReadFails, Loop
<1>3. CASE LoopEnds \/ ForgetAccept \/ OnDisconnect \/ Disconnected
  BY <1>3 DEF LoopEnds, ForgetAccept, OnDisconnect, Disconnected
<1>4. CASE Environment
  BY <1>4 DEF Environment, ServerAnswers, ServerBroadcasts, LinkFails, LoseLast
<1> QED
  BY <1>1, <1>2, <1>3, <1>4 DEF Quiet, ContextThread

LEMMA NaturalCopies == ASSUME Typed PROVE \A p \in Pages : Copies(p) \in Nat
BY Counts DEF Copies

LEMMA QuietAskedOnce == ASSUME Typed, AnswerInv, Quiet PROVE AskedOnce'
<1> SUFFICES ASSUME NEW p \in Pages, Copies(p)' > 0
             PROVE  Copies(p)' = 1 /\ paused'[p] /\ appState' = FormOf[p]
  BY DEF AskedOnce
<1>1. Copies(p)' \in 0..Copies(p) /\ Copies(p) \in Nat
  BY QuietAddsNone, NaturalCopies DEF AddsNone
<1>2. Copies(p) = 1 /\ paused[p] /\ appState = FormOf[p]
  BY <1>1 DEF AnswerInv, AskedOnce
<1> QED
  BY <1>1, <1>2, QuietKeepsPages

\* A button asks for the page that it is on, which was not waiting.
LEMMA Presses ==
  ASSUME Typed, AskedOnce, NEW q \in Pages, Button(q), Pause(q),
         UNCHANGED <<posted, toServer, toClient, signals, context, appState>>,
         \/ UNCHANGED <<todo, owner>>
         \/ owner' = "check" /\ \A p \in Pages : Times(todo', RequestOf[p]) = IF p = q THEN 1 ELSE 0
  PROVE  AskedOnce'
<1> SUFFICES ASSUME NEW p \in Pages, Copies(p)' > 0
             PROVE  Copies(p)' = 1 /\ paused'[p] /\ appState' = FormOf[p]
  BY DEF AskedOnce
<1>1. OnItsWay(p)' = OnItsWay(p) /\ Resuming(p)' = Resuming(p)
  BY DEF OnItsWay, Abroad, Resuming
<1>2. Sending(p) = 0
  BY DEF Sending, Button
<1>3. Sending(p)' = 0 \/ (p = q /\ Sending(p)' = 1)
  BY DEF Sending, Button
<1>4. paused' = [paused EXCEPT ![q] = TRUE] /\ paused \in [Pages -> BOOLEAN] /\ appState = FormOf[q] /\ ~paused[q]
  BY DEF Pause, Button, Typed, PerPage
<1>5. Copies(p) \in Nat /\ OnItsWay(p) \in Nat /\ Resuming(p) \in Nat
  BY Counts, NaturalCopies
<1>6. p = q => Copies(p) = 0
  BY <1>4, <1>5 DEF AskedOnce
<1>7. Copies(p) > 0 => Copies(p) = 1 /\ paused[p] /\ appState = FormOf[p]
  BY DEF AskedOnce
<1>8. Copies(p) = OnItsWay(p) + Resuming(p) /\ Copies(p)' = Sending(p)' + OnItsWay(p) + Resuming(p)
  BY <1>1, <1>2, <1>5 DEF Copies
<1>9. CASE p = q
  <2>1. OnItsWay(p) + Resuming(p) = 0
    BY <1>6, <1>8, <1>9
  <2>2. Copies(p)' = 1
    BY <1>3, <1>5, <1>8, <2>1
  <2> QED
    BY <1>4, <1>9, <2>2
<1>10. CASE p # q
  <2>1. Copies(p)' = Copies(p)
    BY <1>3, <1>5, <1>8, <1>10
  <2>2. paused'[p] = paused[p]
    BY <1>4, <1>10
  <2> QED
    BY <1>7, <2>1, <2>2
<1> QED
  BY <1>9, <1>10

LEMMA ButtonsAskedOnce == ASSUME Typed, AnswerInv, SignIn \/ CreateAccount \/ RequestChannels PROVE AskedOnce'
<1> USE DEF network
<1>1. AskedOnce /\ {"login", "registration", "channels"} = Pages
  BY DEF AnswerInv, Pages
<1>2. \A p \in Pages : Times(<<"LoginRequest">>, RequestOf[p]) = IF p = "login" THEN 1 ELSE 0
  <2>1. \A p \in Pages : "LoginRequest" = RequestOf[p] <=> p = "login"
    BY DEF RequestOf, Pages
  <2> QED
    BY <2>1, CountShort
<1>3. \A p \in Pages : Times(<<"RegistrationRequest">>, RequestOf[p]) = IF p = "registration" THEN 1 ELSE 0
  <2>1. \A p \in Pages : "RegistrationRequest" = RequestOf[p] <=> p = "registration"
    BY DEF RequestOf, Pages
  <2> QED
    BY <2>1, CountShort
<1>4. \A p \in Pages : Times(<<"ChannelListRequest", "ChannelSubscriptionListRequest">>, RequestOf[p])
                       = IF p = "channels" THEN 1 ELSE 0
  <2>1. \A p \in Pages : "ChannelListRequest" = RequestOf[p] <=> p = "channels"
    BY DEF RequestOf, Pages
  <2>2. \A p \in Pages : "ChannelSubscriptionListRequest" # RequestOf[p]
    BY PagesApart
  <2> QED
    BY SMTT(30), <2>1, <2>2, CountShort
<1>5. CASE SignIn
  BY <1>1, <1>2, <1>5, Presses DEF SignIn
<1>6. CASE CreateAccount
  BY <1>1, <1>3, <1>6, Presses DEF CreateAccount
<1>7. CASE RequestChannels
  BY <1>1, <1>4, <1>7, Presses DEF RequestChannels
<1> QED
  BY <1>5, <1>6, <1>7

\* The form that is shown is left only when no page waits.
LEMMA SwitchAskedOnce == ASSUME Typed, AnswerInv, SwitchForm PROVE AskedOnce'
<1> SUFFICES ASSUME NEW p \in Pages PROVE Copies(p)' = 0
  BY DEF AskedOnce
<1>1. PICK q \in Pages : Button(q)
  BY DEF SwitchForm, Pages
<1>2. Copies(p) \in Nat
  BY NaturalCopies
<1>3. Copies(p) = 0
  BY <1>1, <1>2, PagesApart DEF AnswerInv, AskedOnce, Button
<1>4. UNCHANGED <<todo, owner, posted, toServer, toClient, signals, context>>
  BY DEF SwitchForm, network
<1> QED
  BY <1>3, <1>4 DEF Copies, Sending, OnItsWay, Abroad, Resuming

\* A slot takes the last there is of any request: its own, or none.
LEMMA SignalAskedOnce == ASSUME Typed, AnswerInv, OnSignal PROVE AskedOnce'
<1> SUFFICES ASSUME NEW p \in Pages PROVE Copies(p)' = 0
  BY DEF AskedOnce
<1>1. /\ signals \in Seq(Signal) /\ signals # <<>> /\ signals' = Tail(signals) /\ owner = "idle"
      /\ UNCHANGED <<todo, owner, posted, toServer, toClient, context>>
  BY DEF OnSignal, Typed, Queues, network
<1>2. Head(signals) \in Signal /\ Len(signals) \in Nat \ {0} /\ Head(signals) = signals[1]
  BY <1>1
<1>3. \A r \in Pages : /\ Copies(r) \in Nat /\ OnItsWay(r) \in Nat /\ Resuming(r) \in Nat
                       /\ Sending(r) = 0
                       /\ Copies(r) = OnItsWay(r) + Resuming(r)
  <2> SUFFICES ASSUME NEW r \in Pages
               PROVE  /\ Copies(r) \in Nat /\ OnItsWay(r) \in Nat /\ Resuming(r) \in Nat
                      /\ Sending(r) = 0
                      /\ Copies(r) = OnItsWay(r) + Resuming(r)
    OBVIOUS
  <2>1. Copies(r) \in Nat /\ OnItsWay(r) \in Nat /\ Resuming(r) \in Nat
    BY Counts, NaturalCopies
  <2>2. Sending(r) = 0
    BY <1>1 DEF Sending
  <2> QED
    BY <2>1, <2>2 DEF Copies
<1>4. Sending(p)' = 0 /\ OnItsWay(p)' = OnItsWay(p)
  BY <1>1 DEF Sending, OnItsWay, Abroad
<1>5. \A r \in Pages : /\ Times(NamesOf(Tail(signals)), SignalOf[r]) \in Nat
                       /\ Resuming(r) = Times(NamesOf(Tail(signals)), SignalOf[r])
                                        + (IF Head(signals).name = SignalOf[r] THEN 1 ELSE 0)
  <2> SUFFICES ASSUME NEW r \in Pages
               PROVE  /\ Times(NamesOf(Tail(signals)), SignalOf[r]) \in Nat
                      /\ Resuming(r) = Times(NamesOf(Tail(signals)), SignalOf[r])
                                       + (IF Head(signals).name = SignalOf[r] THEN 1 ELSE 0)
    OBVIOUS
  <2>1. /\ NamesOf(signals) \in Seq(SignalName) /\ NamesOf(signals) # <<>>
        /\ Head(NamesOf(signals)) = Head(signals).name
        /\ NamesOf(Tail(signals)) = Tail(NamesOf(signals))
    BY <1>1, NamesOfQueue
  <2>2. /\ Times(Tail(NamesOf(signals)), SignalOf[r]) \in Nat
        /\ Times(NamesOf(signals), SignalOf[r])
           = Times(Tail(NamesOf(signals)), SignalOf[r])
             + (IF Head(NamesOf(signals)) = SignalOf[r] THEN 1 ELSE 0)
    BY <2>1, CountTail
  <2> QED
    BY <2>1, <2>2 DEF Resuming
<1>6. Resuming(p)' = Times(NamesOf(Tail(signals)), SignalOf[p])
  BY <1>1 DEF Resuming
<1>7. CASE Head(signals).name = "onDisconnect"
  <2>1. Len(signals) = 1 /\ context = "done"
    <3>1. 1 \in 1..Len(signals) /\ signals[1].name = "onDisconnect"
      BY <1>2, <1>7
    <3>2. LastSignal
      BY DEF AnswerInv
    <3> QED
      BY <3>1, <3>2 DEF LastSignal
  <2>2. Tail(signals) = <<>>
    BY <1>1, <2>1
  <2>3. NamesOf(<<>>) = <<>>
    BY DEF NamesOf
  <2>4. Resuming(p)' = 0
    BY <1>6, <2>2, <2>3, CountShort
  <2>5. OnItsWay(p)' = 0
    BY <1>4, <2>1 DEF OnItsWay
  <2> QED
    BY <1>4, <2>4, <2>5 DEF Copies
<1>8. ASSUME NEW q \in Pages, Head(signals).name = SignalOf[q] PROVE Copies(p)' = 0
  <2>1. Resuming(q) >= 1
    BY <1>5, <1>8
  <2>2. Copies(q) = 1 /\ appState = FormOf[q]
    BY <1>3, <2>1 DEF AnswerInv, AskedOnce
  <2>3. p # q => Copies(p) = 0
    BY <1>3, <2>2, PagesApart DEF AnswerInv, AskedOnce
  <2>4. Copies(p)' = OnItsWay(p) + Times(NamesOf(Tail(signals)), SignalOf[p])
    BY <1>3, <1>4, <1>5, <1>6 DEF Copies
  <2>5. p # q => SignalOf[p] # SignalOf[q]
    BY PagesApart
  <2>6. /\ OnItsWay(p) \in Nat /\ Times(NamesOf(Tail(signals)), SignalOf[p]) \in Nat
        /\ Copies(p) = OnItsWay(p) + Resuming(p)
        /\ Resuming(p) = Times(NamesOf(Tail(signals)), SignalOf[p])
                         + (IF Head(signals).name = SignalOf[p] THEN 1 ELSE 0)
    BY <1>3, <1>5
  <2> QED
    BY <1>8, <2>2, <2>3, <2>4, <2>5, <2>6
<1>9. Head(signals).name \in {SignalOf[q] : q \in Pages} \cup {"onDisconnect"}
  BY <1>2 DEF Signal
<1> QED
  BY <1>7, <1>8, <1>9

\* Where the context thread goes, and what becomes of the last signal.
LEMMA NextNotStarted == ASSUME NotStarted, [Next]_vars PROVE NotStarted'
<1> USE DEF NotStarted, core, vars
<1>1. CASE Owner
  BY <1>1 DEF Owner, ConnectToServer, SeesConnection, Check, AfterHead, Use, Stop, Join
<1>2. CASE User
  BY <1>2 DEF User, MakeRequest, Disconnect, SignIn, CreateAccount, SwitchForm, RequestChannels, Button
<1>3. CASE OnSignal \/ Environment \/ UNCHANGED vars
  BY <1>3 DEF OnSignal, Environment, ServerAnswers, ServerBroadcasts, LinkFails, LoseLast
<1>4. CASE ContextThread
  <2>1. CASE Connected \/ RunPosted \/ ReadFails
    BY <1>4, <2>1 DEF Connected, RunPosted, ReadFails
  <2>2. CASE Loop \/ LoopEnds \/ ForgetAccept \/ OnDisconnect \/ Disconnected
    BY <2>2 DEF Loop, Handles, LoopEnds, ForgetAccept, OnDisconnect, Disconnected
  <2> QED
    BY <1>4, <2>1, <2>2 DEF ContextThread
<1> QED
  BY <1>1, <1>2, <1>3, <1>4 DEF Next

\* The steps that emit no signal: a context thread that is done stays so.
LEMMA SilentSignals ==
  ASSUME NotStarted, Quiet \/ SignIn \/ CreateAccount \/ SwitchForm \/ RequestChannels,
         ~Loop, ~Disconnected
  PROVE  UNCHANGED signals /\ (context = "done" => context' = "done")
<1> USE DEF vars
<1>1. CASE Owner \/ MakeRequest \/ Disconnect \/ UNCHANGED vars
  BY <1>1 DEF Owner, ConnectToServer, SeesConnection, Check, Use, Stop, Join, MakeRequest, Disconnect,
              NotStarted
<1>2. CASE SignIn \/ CreateAccount \/ SwitchForm \/ RequestChannels
  BY <1>2 DEF SignIn, CreateAccount, SwitchForm, RequestChannels
<1>3. CASE Connected \/ RunPosted \/ ReadFails
  BY <1>3 DEF Connected, RunPosted, ReadFails
<1>4. CASE LoopEnds \/ ForgetAccept \/ OnDisconnect
  BY <1>4 DEF LoopEnds, ForgetAccept, OnDisconnect
<1>5. CASE Environment
  BY <1>5 DEF Environment, ServerAnswers, ServerBroadcasts, LinkFails, LoseLast
<1> QED
  BY <1>1, <1>2, <1>3, <1>4, <1>5 DEF Quiet, ContextThread

LEMMA NextLastSignal == ASSUME Typed, AnswerInv, [Next]_vars PROVE LastSignal'
<1>1. /\ LastSignal /\ NotStarted /\ signals \in Seq(Signal) /\ Len(signals) \in Nat
  BY DEF AnswerInv, Typed, Queues
<1>2. CASE ~Loop /\ ~Disconnected /\ ~OnSignal
  <2>1. Quiet \/ SignIn \/ CreateAccount \/ SwitchForm \/ RequestChannels
    BY <1>2 DEF Next, User, Quiet
  <2>2. UNCHANGED signals /\ (context = "done" => context' = "done")
    BY <1>1, <1>2, <2>1, SilentSignals
  <2> QED
    BY <1>1, <2>2 DEF LastSignal
<1>3. ASSUME NEW g \in Signal, signals' = Append(signals, g), context # "done",
             g.name = "onDisconnect" => context' = "done"
      PROVE  LastSignal'
  <2>1. \A i \in 1..Len(signals) : signals[i].name # "onDisconnect"
    BY <1>1, <1>3 DEF LastSignal
  <2>2. /\ Len(signals') = Len(signals) + 1 /\ signals'[Len(signals) + 1] = g
        /\ \A i \in 1..Len(signals) : signals'[i] = signals[i]
    BY <1>1, <1>3
  <2>3. \A i \in 1..Len(signals') : i \in 1..Len(signals) \/ i = Len(signals')
    BY <1>1, <2>2
  <2> QED
    BY <1>3, <2>1, <2>2, <2>3 DEF LastSignal
<1>4. CASE Disconnected
  <2>1. context = "reset" /\ context' = "done"
    BY <1>4 DEF Disconnected
  <2>2. CASE UNCHANGED signals
    BY <1>1, <2>1, <2>2 DEF LastSignal
  <2>3. CASE signals' = Append(signals, [name |-> "onDisconnect", ok |-> FALSE])
    <3>1. PICK g \in Signal : signals' = Append(signals, g)
      BY <2>3 DEF Signal
    <3> QED
      BY <1>3, <2>1, <3>1
  <2> QED
    BY <1>4, <2>2, <2>3 DEF Disconnected, Emit
<1>5. CASE Loop
  <2>1. context = "run"
    BY <1>5 DEF Loop, Handles
  <2>2. CASE UNCHANGED signals
    BY <1>1, <2>1, <2>2 DEF LastSignal
  <2>3. CASE /\ Awaited(Head(toClient).type)
             /\ signals' = Append(signals, [name |-> Head(toClient).type, ok |-> Head(toClient).ok])
    <3>1. Head(toClient) \in Message
      BY <1>5 DEF Loop, Typed, Queues
    <3>2. PICK p \in Pages : SignalOf[p] = Head(toClient).type
      BY <2>3 DEF Awaited
    <3>3. PICK g \in Signal : g = [name |-> SignalOf[p], ok |-> Head(toClient).ok]
      BY <3>1, SignalsTyped DEF Message
    <3>4. g.name # "onDisconnect" /\ signals' = Append(signals, g)
      BY <2>3, <3>2, <3>3, PagesApart
    <3> QED
      BY <1>3, <2>1, <3>4
  <2> QED
    BY <1>5, <2>2, <2>3 DEF Loop, OnAnswer, Emit
<1>6. CASE OnSignal
  <2>1. signals # <<>> /\ signals' = Tail(signals) /\ UNCHANGED context
    BY <1>6 DEF OnSignal
  <2>2. /\ Len(signals') = Len(signals) - 1 /\ Len(signals) >= 1
        /\ \A i \in 1..Len(signals') : signals'[i] = signals[i + 1]
    BY <1>1, <2>1
  <2> SUFFICES ASSUME NEW i \in 1..Len(signals'), signals'[i].name = "onDisconnect"
               PROVE  i = Len(signals') /\ context' = "done"
    BY DEF LastSignal
  <2>3. i + 1 \in 1..Len(signals) /\ signals[i + 1].name = "onDisconnect"
    BY <1>1, <2>2
  <2>4. i + 1 = Len(signals) /\ context = "done"
    BY <1>1, <2>3 DEF LastSignal
  <2>5. i \in Nat /\ Len(signals') = Len(signals) - 1 /\ context' = context
    BY <2>1, <2>2
  <2> QED
    BY ONLY <1>1, <2>4, <2>5
<1> QED
  BY <1>2, <1>4, <1>5, <1>6

LEMMA NextAnswerInv == ASSUME Typed, AnswerInv, [Next]_vars PROVE AnswerInv'
<1>1. NotStarted' /\ LastSignal'
  BY NextNotStarted, NextLastSignal DEF AnswerInv
<1>2. AskedOnce'
  BY QuietAskedOnce, ButtonsAskedOnce, SwitchAskedOnce, SignalAskedOnce DEF Next, User, Quiet
<1> QED
  BY <1>1, <1>2 DEF AnswerInv

LEMMA InitAnswerInv == ASSUME Init PROVE AnswerInv
<1>1. LastSignal /\ NotStarted
  BY DEF Init, LastSignal, NotStarted
<1>2. ASSUME NEW p \in Pages PROVE Copies(p) = 0
  <2>1. TypesOf(<<>>) = <<>> /\ NamesOf(<<>>) = <<>> /\ \A x : Times(<<>>, x) = 0
    BY CountShort DEF TypesOf, NamesOf
  <2>2. Sending(p) = 0 /\ OnItsWay(p) = 0 /\ Resuming(p) = 0
    BY <2>1 DEF Init, Sending, OnItsWay, Abroad, Resuming
  <2> QED
    BY <2>2 DEF Copies
<1> QED
  BY <1>1, <1>2 DEF AnswerInv, AskedOnce

LEMMA FindsItsPage == ASSUME Typed, AnswerInv PROVE AnswerFindsItsPage
<1> SUFFICES ASSUME NEW p \in Pages, UnderWay(p) > 0
             PROVE  UnderWay(p) = 1 /\ paused[p] /\ appState = FormOf[p]
  BY DEF AnswerFindsItsPage
<1>1. UnderWay(p) = Resuming(p) + OnItsWay(p)
  BY DEF UnderWay, Resuming, OnItsWay, Abroad
<1>2. Sending(p) \in Nat /\ OnItsWay(p) \in Nat /\ Resuming(p) \in Nat
  BY Counts
<1>3. Copies(p) = Sending(p) + UnderWay(p) /\ UnderWay(p) \in Nat
  BY <1>1, <1>2 DEF Copies
<1>4. Copies(p) = 1 /\ paused[p] /\ appState = FormOf[p]
  BY <1>2, <1>3 DEF AnswerInv, AskedOnce
<1> QED
  BY <1>2, <1>3, <1>4

\* Whatever the user does, and however late the server, the network and the two
\* threads are: while the request of a page, its answer or its signal is under
\* way there is no second one, and the page is shown and paused.
THEOREM AnswersFindTheirPages == Spec => []AnswerFindsItsPage
<1>1. Init => Typed /\ AnswerInv
  BY TypedInit, InitAnswerInv
<1>2. Typed /\ AnswerInv /\ [Next]_vars => Typed' /\ AnswerInv'
  BY TypedNext, NextAnswerInv
<1>3. Typed /\ AnswerInv => AnswerFindsItsPage
  BY FindsItsPage
<1> QED
  BY <1>1, <1>2, <1>3, PTL DEF Spec
==============================================================================
