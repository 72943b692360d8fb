---------------------------- MODULE Repositories ----------------------------
(***************************************************************************)
(* DataAccess: the repositories of PostgreRepositories.cpp over the tables *)
(* of Database_Scheme.sql.  One handler thread runs their methods one      *)
(* after the other, but a method is several statements, each a transaction *)
(* of its own, and the connection can be lost at any of them.              *)
(*                                                                         *)
(* What a statement gives back decides how a method goes on:               *)
(*  - execute() returns nothing for an empty result, for a constraint that *)
(*    refuses the row, and for a lost connection alike;                    *)
(*  - adapter->query() throws where execute() returns nothing for an error;*)
(*  - value() on nothing throws.                                           *)
(* An exception leaves the method and is rethrown by the future of the     *)
(* request, which ends the server (Server!AnswerThrows).                   *)
(***************************************************************************)
EXTENDS Naturals, FiniteSets, Selections, SequencesExt

CONSTANTS People,      \* who may register: [email, login, emailFits]
          Names,       \* the names that users may give to channels
          LongNames,   \* those that varchar(64) refuses; a hash of 64 characters fits
          Contents,    \* what messages hold: "text", "voice", "emptyVoice"
          Reactions,   \* the columns of msg_reactions
          Faults,      \* may the connection with the database be lost?
          MaxChannels, MaxMsgs, MaxReplies   \* bounds: rows inserted

ASSUME RepositoriesAssumption ==
    /\ People \subseteq [email : STRING, login : STRING, emailFits : BOOLEAN]
    /\ Names \subseteq {"named", "hash"} \X Nat
    /\ LongNames \subseteq Names \cap ({"named"} \X Nat)
    /\ Contents \subseteq {"text", "voice", "emptyVoice"}
    /\ Faults \in BOOLEAN
    /\ {MaxChannels, MaxMsgs, MaxReplies} \subseteq Nat

VARIABLES users,           \* id -> person
          channels,        \* id -> [name, creator, limit, pair]; history: the pair of users
                           \*     that a direct chat was created for, {} for a channel
          userChannels,    \* <<user, channel>>
          msgs,            \* ids; the sender is always a user
          channelMsgs,     \* <<channel, message>>
          msgReactions,    \* message -> reaction -> the users in its array
          contents,        \* messages with a row in text_msgs or voice_msgs
          replies,         \* [owner, ref]
          channelReplies,  \* <<channel, owner>>
          serials,         \* the sequences of channels and msgs
          connected,       \* the connection is open
          serving,         \* no exception has ended the server
          last,            \* the method called last, and its answer
          acknowledged,    \* history: <<channel, message>> stored with SUCCESS, not deleted since
          refused          \* history: the channels for which storeMessage has answered FAILED

channelTables == <<channels, userChannels>>
messageTables == <<msgs, channelMsgs, msgReactions, contents, acknowledged, refused>>
replyTables == <<replies, channelReplies>>
tables == <<users, channelTables, messageTables, replyTables, serials, connected, serving>>
server == <<connected, serving, last>>
vars == <<users, channelTables, messageTables, replyTables, serials, server>>

NoRows == [i \in {} |-> 0]
With(table, id, row) == [i \in DOMAIN table \cup {id} |-> IF i = id THEN row ELSE table[i]]
Without(table, ids) == [i \in DOMAIN table \ ids |-> table[i]]

Init ==
    /\ users = NoRows /\ channels = NoRows /\ userChannels = {}
    /\ msgs = {} /\ channelMsgs = {} /\ msgReactions = NoRows /\ contents = {}
    /\ replies = {} /\ channelReplies = {}
    /\ serials = [channel |-> 0, msg |-> 0]
    /\ connected = TRUE /\ serving = TRUE /\ last = [op |-> "none"]
    /\ acknowledged = {} /\ refused = {}

------------------------------------------------------------------------------
(* Statements.  The connection is lost at statement o.at of the method, if  *)
(* it is; that statement may have been committed although nobody is told.  *)
(* A loss after the last statement is one at the first of the next method. *)

Never == 9   \* beyond the last statement of every method
Outages(statements) ==
    IF ~connected THEN {[at |-> 0, applied |-> FALSE]}
    ELSE {[at |-> Never, applied |-> FALSE]} \cup
         (IF Faults THEN [at : 1 .. statements, applied : BOOLEAN] ELSE {})
Answered(o, i) == i < o.at
Applied(o, i) == i < o.at \/ (i = o.at /\ o.applied)

Answer(o, answer) ==
    /\ serving
    /\ last' = answer
    /\ connected' = (o.at = Never)
    /\ serving' = (answer.code # "throws")

NamedChannels(name) == {c \in DOMAIN channels : channels[c].name = name}

------------------------------------------------------------------------------
(* RegisterRepository and LoginRepository.                                 *)

\* The two counts are value()d; what the insert gives back is not looked at.
RegisterUser(p, o) ==
    LET emails == {u \in DOMAIN users : users[u].email = p.email}
        logins == {u \in DOMAIN users : users[u].login = p.login}
        code == IF ~Answered(o, 1) THEN "throws"
                ELSE IF emails # {} THEN "EMAIL_ALREADY_EXISTS"
                ELSE IF ~Answered(o, 2) THEN "throws"
                ELSE IF logins # {} THEN "LOGIN_ALREADY_EXISTS" ELSE "SUCCESS"
    IN  /\ Answer(o, [op |-> "registerUser", person |-> p, code |-> code])
        /\ users' = IF code = "SUCCESS" /\ Applied(o, 3) /\ p.emailFits
                    THEN With(users, Cardinality(DOMAIN users) + 1, p) ELSE users
        /\ UNCHANGED <<channelTables, messageTables, replyTables, serials>>

\* Whatever is thrown is caught, and is a failed login.
LoginUser(p, o) ==
    LET found == {u \in DOMAIN users : users[u] = p /\ Answered(o, 1)}
    IN  /\ Answer(o, [op |-> "loginUser", person |-> p, code |-> "returns",
                      user |-> IF found = {} THEN 0 ELSE CHOOSE u \in found : TRUE])
        /\ UNCHANGED <<users, channelTables, messageTables, replyTables, serials>>

------------------------------------------------------------------------------
(* ChannelsRepository.                                                     *)

\* The insert gives nothing back, be it done or refused; then the new channel
\* is read, and its id is value()d.
CreateChannel(u, name, o) ==
    LET id == serials.channel + 1
        old == NamedChannels(name) # {}
        inserted == ~old /\ Applied(o, 2) /\ name \notin LongNames
        code == IF old /\ Answered(o, 1) THEN "CHANNEL_ALREADY_CREATED"
                ELSE IF Answered(o, 3) /\ inserted THEN "SUCCESS" ELSE "throws"
    IN  /\ old \/ id <= MaxChannels
        /\ Answer(o, [op |-> "createChannel", user |-> u, name |-> name, code |-> code])
        /\ channels' = IF inserted
                       THEN With(channels, id, [name |-> name, creator |-> u, limit |-> 1000000, pair |-> {}])
                       ELSE channels
        /\ serials' = IF inserted THEN [serials EXCEPT !.channel = id] ELSE serials
        /\ userChannels' = userChannels \cup
             (IF code = "SUCCESS" /\ Applied(o, 4) THEN {<<u, id>>} ELSE {})
        /\ UNCHANGED <<users, messageTables, replyTables>>

\* The delete gives nothing back, which is SUCCESS.
LeaveChannel(u, name, o) ==
    LET mine == {<<u, c>> : c \in NamedChannels(name)} \cap userChannels
        found == Answered(o, 2) /\ mine # {}
    IN  /\ Answer(o, [op |-> "leaveChannel", user |-> u, name |-> name,
                      code |-> IF found THEN "SUCCESS" ELSE "CHANNEL_NOT_FOUND"])
        /\ userChannels' = IF found /\ Applied(o, 3) THEN userChannels \ mine ELSE userChannels
        /\ UNCHANGED <<users, channels, messageTables, replyTables, serials>>

\* Deleting a row of channels would set the channel_id of its subscribers to
\* NULL, which user_channels refuses: with subscribers nothing is deleted.
Deletable_Always(ids) == TRUE
Deletable(ids) == \A s \in userChannels : s[2] \notin ids
DeleteChannel(u, name, o) ==
    LET ids == NamedChannels(name)
        code == IF ~Answered(o, 1) \/ ids = {} THEN "CHANNEL_NOT_FOUND"
                ELSE IF \E c \in ids : channels[c].creator # u THEN "CHANNEL_IS_NOT_USER"
                ELSE "SUCCESS"
        gone == IF code = "SUCCESS" /\ Applied(o, 2) /\ Deletable(ids) THEN ids ELSE {}
    IN  /\ Answer(o, [op |-> "deleteChannel", name |-> name, code |-> code])
        /\ channels' = Without(channels, gone)
        /\ channelMsgs' = {r \in channelMsgs : r[1] \notin gone}
        /\ channelReplies' = {r \in channelReplies : r[1] \notin gone}
        /\ acknowledged' = {r \in acknowledged : r[1] \notin gone}
        /\ UNCHANGED <<users, userChannels, msgs, msgReactions, contents, replies, serials, refused>>

\* The limit only decides whether a subscription is found to be there already;
\* the insert gives nothing back, which is SUCCESS.
SubscribeToChannel(u, c, o) ==
    LET members == {s \in userChannels : s[2] = c}
        already == <<u, c>> \in members /\ Cardinality(members) < channels[c].limit
        code == IF Answered(o, 1) /\ already THEN "CHANNEL_HAS_ALREADY_BEEN_SIGNED" ELSE "SUCCESS"
    IN  /\ Answer(o, [op |-> "subscribeToChannel", user |-> u, channel |-> c, code |-> code])
        /\ userChannels' = userChannels \cup
             (IF code = "SUCCESS" /\ Applied(o, 2) /\ c \in DOMAIN channels THEN {<<u, c>>} ELSE {})
        /\ UNCHANGED <<users, channels, messageTables, replyTables, serials>>

------------------------------------------------------------------------------
(* DirectMessageRepository.                                                *)

\* The name of a direct chat is the hash of concat(min, max): of the decimal
\* digits of the one id and then of the other.
Digits(n) == CHOOSE d \in 1 .. 10 : n < 10 ^ d /\ (d = 1 \/ n >= 10 ^ (d - 1))
Concat(a, b) == a * 10 ^ Digits(b) + b
ChatName_User(u, v) == <<"named", u>>
ChatName(u, v) == LET min == IF u < v THEN u ELSE v IN <<"hash", Concat(min, u + v - min)>>

Joined_Caller(u, v, c) == {<<u, c>>}
Joined(u, v, c) == {<<u, c>>, <<v, c>>}
AddDirectChat(u, v, o) ==
    LET name == ChatName(u, v)
        id == IF NamedChannels(name) = {} THEN serials.channel + 1
              ELSE CHOOSE c \in NamedChannels(name) : TRUE
        inserted == NamedChannels(name) = {} /\ Applied(o, 1)
    IN  /\ id <= MaxChannels
        /\ Answer(o, [op |-> "addDirectChat", users |-> {u, v},
                      chat |-> id, code |-> IF Answered(o, 3) THEN "SUCCESS" ELSE "throws"])
        /\ channels' = IF inserted
                       THEN With(channels, id, [name |-> name, limit |-> 2, pair |-> {u, v},
                                                creator |-> IF u < v THEN u ELSE v]) ELSE channels
        /\ serials' = IF inserted THEN [serials EXCEPT !.channel = id] ELSE serials
        /\ userChannels' = userChannels \cup
             (IF Answered(o, 2) /\ Applied(o, 3) THEN Joined(u, v, id) ELSE {})
        /\ UNCHANGED <<users, messageTables, replyTables>>

------------------------------------------------------------------------------
(* MessagesRepository.                                                     *)

\* Four inserts: msgs, channel_msgs, msg_reactions, and the content.  Each is
\* tried when the one before it has given its row back.
Fits_Ignored(content) == TRUE
Fits(content) == content # "emptyVoice"   \* CHECK (duration > 0)
StoreMessage(c, content, o) ==
    LET id == serials.msg + 1
        known == c \in DOMAIN channels
        stored == known /\ Answered(o, 4) /\ Fits(content)
    IN  /\ id <= MaxMsgs
        /\ Answer(o, [op |-> "storeMessage", channel |-> c, msg |-> id,
                      code |-> IF stored THEN "SUCCESS" ELSE "FAILED"])
        /\ IF Applied(o, 1)
           THEN /\ msgs' = msgs \cup {id}
                /\ serials' = [serials EXCEPT !.msg = id]
           ELSE UNCHANGED <<msgs, serials>>
        /\ channelMsgs' = channelMsgs \cup (IF known /\ Applied(o, 2) THEN {<<c, id>>} ELSE {})
        /\ msgReactions' = IF known /\ Applied(o, 3)
                           THEN With(msgReactions, id, [r \in Reactions |-> <<>>]) ELSE msgReactions
        /\ contents' = contents \cup
             (IF known /\ Applied(o, 4) /\ content # "emptyVoice" THEN {id} ELSE {})
        /\ acknowledged' = acknowledged \cup (IF stored THEN {<<c, id>>} ELSE {})
        /\ refused' = refused \cup (IF stored THEN {} ELSE {c})
        /\ UNCHANGED <<users, channelTables, replyTables>>

\* Whoever asks: the row of msgs goes, and what refers to it with it.
DeleteMessage(m, o) ==
    LET gone == IF Applied(o, 1) THEN {m} ELSE {}
    IN  /\ Answer(o, [op |-> "deleteMessage", msg |-> m,
                      code |-> IF Answered(o, 2) THEN "SUCCESS" ELSE "throws"])
        /\ msgs' = msgs \ gone
        /\ channelMsgs' = {r \in channelMsgs : r[2] \notin gone}
        /\ msgReactions' = Without(msgReactions, gone)
        /\ contents' = contents \ gone
        /\ replies' = {r \in replies : {r.owner, r.ref} \cap gone = {}}
        /\ channelReplies' = {r \in channelReplies : r[2] \notin gone}
        /\ acknowledged' = {r \in acknowledged : r[2] \notin gone}
        /\ UNCHANGED <<users, channelTables, serials, refused>>

\* The select names a table that its query does not have.
EditMessage(o) ==
    /\ Answer(o, [op |-> "editMessage", code |-> "FAILED"])
    /\ UNCHANGED <<users, channelTables, messageTables, replyTables, serials>>

\* array_remove or array_append, as the select has found the user or not.  A
\* reaction that is no column is refused before any statement.
Toggled_Append(list, u, found) == Append(list, u)
Toggled(list, u, found) == IF found THEN Only(list, ToSet(list) \ {u}) ELSE Append(list, u)
UpdateMessageReactions(u, m, r, o) ==
    LET exists == r \in Reactions /\ m \in DOMAIN msgReactions
        found == exists /\ Answered(o, 1) /\ u \in ToSet(msgReactions[m][r])
    IN  /\ Answer(o, [op |-> "updateMessageReactions", user |-> u, msg |-> m, reaction |-> r,
                      code |-> IF r \notin Reactions THEN "FAILED"
                               ELSE IF Answered(o, 2) THEN "SUCCESS" ELSE "throws"])
        /\ msgReactions' = IF exists /\ Applied(o, 2)
                           THEN [msgReactions EXCEPT ![m][r] = Toggled(@, u, found)]
                           ELSE msgReactions
        /\ UNCHANGED <<users, channelTables, replyTables, serials, msgs, channelMsgs, contents,
                       acknowledged, refused>>

------------------------------------------------------------------------------
(* RepliesRepository.                                                      *)

\* A reply belongs to the message that was stored last, whoever has stored it;
\* the MAX of no messages is NULL, and reading it throws.
LastMessage == CHOOSE m \in msgs : \A n \in msgs : n <= m
StoreReply(c, ref, o) ==
    LET readable == Answered(o, 1) /\ msgs # {}
        listed == c \in DOMAIN channels /\ ref \in msgs
        code == IF ~readable THEN "throws"
                ELSE IF Answered(o, 3) /\ listed THEN "SUCCESS" ELSE "FAILED"
        reply == [owner |-> LastMessage, ref |-> ref]
    IN  /\ Cardinality(replies) < MaxReplies
        /\ Answer(o, [op |-> "storeReply", channel |-> c, code |-> code,
                      reply |-> IF code = "SUCCESS" THEN reply ELSE "none"])
        /\ replies' = replies \cup
             (IF readable /\ Applied(o, 2) /\ ref \in msgs THEN {reply} ELSE {})
        /\ channelReplies' = channelReplies \cup
             (IF readable /\ Applied(o, 3) /\ listed THEN {<<c, reply.owner>>} ELSE {})
        /\ UNCHANGED <<users, channelTables, messageTables, serials>>

------------------------------------------------------------------------------
(* What the selects read.                                                  *)

\* getMessageHistory: the rows that its inner joins leave, with the content of
\* each; reading the content of a row that has none throws.
HistoryRows(c) == {m \in msgs : <<c, m>> \in channelMsgs}
HistoryThrows(c) == ~(HistoryRows(c) \subseteq contents)
ReplyHistory(c) == {r \in replies : <<c, r.owner>> \in channelReplies}

\* The server is started again, with a new connection.
Restart ==
    /\ ~(connected /\ serving)
    /\ connected' = TRUE /\ serving' = TRUE /\ last' = [op |-> "none"]
    /\ UNCHANGED <<users, channelTables, messageTables, replyTables, serials>>

\* Requests come from users that have logged in, and name what a client may
\* have on its screen: channels and messages that exist or have existed.
KnownChannels == 1 .. serials.channel
KnownMsgs == 1 .. serials.msg
Requested ==
    \/ \E p \in People :
         \/ \E o \in Outages(3) : RegisterUser(p, o)
         \/ \E o \in Outages(1) : LoginUser(p, o)
    \/ \E o \in Outages(1) : EditMessage(o)
    \/ \E u \in DOMAIN users, name \in Names :
         \/ \E o \in Outages(4) : CreateChannel(u, name, o)
         \/ \E o \in Outages(3) : LeaveChannel(u, name, o)
         \/ \E o \in Outages(2) : DeleteChannel(u, name, o)
    \/ \E u, v \in DOMAIN users, o \in Outages(3) : AddDirectChat(u, v, o)
    \/ \E u \in DOMAIN users, c \in KnownChannels, o \in Outages(2) : SubscribeToChannel(u, c, o)
    \/ \E u \in DOMAIN users, m \in KnownMsgs, r \in Reactions \cup {"unsupported"} :
         \E o \in Outages(IF r \in Reactions THEN 2 ELSE 0) : UpdateMessageReactions(u, m, r, o)
    \/ \E m \in KnownMsgs, o \in Outages(2) : DeleteMessage(m, o)
    \/ \E c \in KnownChannels :
         \/ \E content \in Contents, o \in Outages(4) : StoreMessage(c, content, o)
         \/ \E ref \in KnownMsgs, o \in Outages(3) : StoreReply(c, ref, o)

Next == Restart \/ Requested

Spec == Init /\ [][Next]_vars

------------------------------------------------------------------------------
\* No row refers to one that is gone: what is deleted takes its rows with it or
\* is refused, wherever a method of several statements is cut short.
RowsReferToRows ==
    /\ userChannels \subseteq (DOMAIN users) \X (DOMAIN channels)
    /\ channelMsgs \subseteq (DOMAIN channels) \X msgs
    /\ DOMAIN msgReactions \subseteq msgs /\ contents \subseteq msgs
    /\ \A r \in replies : {r.owner, r.ref} \subseteq msgs
    /\ channelReplies \subseteq (DOMAIN channels) \X msgs
    /\ DOMAIN channels \subseteq KnownChannels /\ msgs \subseteq KnownMsgs

\* storeMessage: a message that was answered SUCCESS keeps its rows, reactions
\* and content until it or its channel is deleted, and the history of its
\* channel can be read unless storeMessage has answered FAILED for that channel:
\* the rows that such a call may leave behind spoil it for every message.
AcknowledgedReadable ==
    \A r \in acknowledged :
      /\ r[2] \in HistoryRows(r[1]) \cap contents \cap DOMAIN msgReactions
      /\ r[1] \in refused \/ ~HistoryThrows(r[1])

\* updateMessageReactions: a user is in the array of a reaction at most once,
\* although it is toggled by a select and an update of which one can be lost.
ReactionOnce == \A m \in DOMAIN msgReactions, r \in Reactions : IsInjective(msgReactions[m][r])

\* What SUCCESS says of the tables when it is answered.  Of a registration, a
\* leave, a delete, a subscription and the creator's own membership it says
\* nothing if the connection is lost in the call, whose last result nobody
\* looks at; of a registration nothing if the email is too long; and a channel
\* that is deleted is still there if it has subscribers.
SuccessTells ==
    last.op # "none" /\ last.code \in {"SUCCESS", "returns"} =>
      CASE last.op = "storeMessage" ->
             last.msg \in HistoryRows(last.channel) \cap contents \cap DOMAIN msgReactions
        [] last.op = "storeReply" -> last.reply \in ReplyHistory(last.channel)
        [] last.op = "deleteMessage" ->
             last.msg \notin msgs \cup contents \cup {r.owner : r \in replies}
        [] last.op = "createChannel" ->
             \E c \in NamedChannels(last.name) :
               channels[c].creator = last.user /\ (connected => <<last.user, c>> \in userChannels)
        [] last.op = "addDirectChat" -> \A u \in last.users : <<u, last.chat>> \in userChannels
        [] last.op = "loginUser" -> last.user # 0 => users[last.user] = last.person
        [] last.op = "registerUser" ->
             connected /\ last.person.emailFits => \E u \in DOMAIN users : users[u] = last.person
        [] last.op = "subscribeToChannel" ->
             connected /\ last.channel \in DOMAIN channels => <<last.user, last.channel>> \in userChannels
        [] last.op = "leaveChannel" ->
             connected => \A c \in NamedChannels(last.name) : <<last.user, c>> \notin userChannels
        [] last.op = "deleteChannel" ->
             connected /\ NamedChannels(last.name) # {} =>
               \E s \in userChannels : s[2] \in NamedChannels(last.name)
        [] OTHER -> TRUE
ReactionTold ==
    last'.op = "updateMessageReactions" /\ last'.code = "SUCCESS" /\ last'.msg \in DOMAIN msgReactions =>
      (last'.user \in ToSet(msgReactions'[last'.msg][last'.reaction]))
        # (last'.user \in ToSet(msgReactions[last'.msg][last'.reaction]))
\* Every method: an answer of SUCCESS is true of the tables, at whichever
\* statement the connection is lost, as far as SuccessTells and ReactionTold go.
SuccessIsTrue == [][SuccessTells' /\ ReactionTold]_vars

\* createChannel, subscribeToChannel, addDirectChat: the connection of one user
\* never puts another one into a channel.  A user becomes a member by creating
\* it, by subscribing to it, or as one of the two that a direct chat was created
\* for: neither a third user nor the members of a channel share a chat by its name.
JoinsAreAsked == [][
    \A s \in userChannels' \ userChannels :
      \/ last'.op \in {"createChannel", "subscribeToChannel"} /\ s[1] = last'.user
      \/ last'.op = "addDirectChat" /\ s[1] \in last'.users /\ channels'[s[2]].pair = last'.users]_vars

\* getMessageHistory asserts that a voice message has a duration, and that
\* every message of a history has its content.
HistoryReadable == \A c \in DOMAIN channels : ~HistoryThrows(c)

==============================================================================
