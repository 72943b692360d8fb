------------------------- MODULE Repositories_Proofs -------------------------
(***************************************************************************)
(* Proofs about Repositories, for any people, names and contents and any   *)
(* bounds, with and without outages.                                       *)
(*                                                                         *)
(* One invariant carries all of it: ids are given out in order, so a new   *)
(* row never takes the place of an old one; rows refer to rows; a message  *)
(* that was acknowledged has its channel, its reactions and its content,   *)
(* and one without content is in a channel for which a store was refused;  *)
(* a list of reactions names a user once; and a channel has a name that    *)
(* users may give, or was created for the two users its name is made of.   *)
(***************************************************************************)
EXTENDS Repositories, FiniteSetTheorems, Selections_Proofs

USE RepositoriesAssumption

Serials == serials \in [channel : Nat, msg : Nat]
Registered == \E n \in Nat : DOMAIN users = 1..n
NamedOrChat(row, ids) ==
  \/ row.pair = {} /\ row.name \in Names
  \/ \E x, y \in ids : row.pair = {x, y} /\ row.name = ChatName(x, y)
Chats == \A c \in DOMAIN channels : NamedOrChat(channels[c], DOMAIN users)
Acknowledged ==
  /\ acknowledged \subseteq channelMsgs
  /\ \A r \in acknowledged : r[2] \in contents \cap DOMAIN msgReactions
  /\ \A r \in channelMsgs : r[1] \in refused \/ r[2] \in contents
Lists == \A m \in DOMAIN msgReactions : msgReactions[m] \in [Reactions -> Seq(Nat)]

RInv == Serials /\ Registered /\ RowsReferToRows /\ Chats /\ Acknowledged /\ Lists /\ ReactionOnce

------------------------------------------------------------------------------
(* Statements and tables.                                                  *)

\* A statement that is answered was applied, and so were those before it.
LEMMA Statements ==
  ASSUME NEW k \in 0..4, NEW o \in Outages(k)
  PROVE  /\ o.at \in Nat /\ o.applied \in BOOLEAN
         /\ \A i, j \in 0..4 : /\ Answered(o, i) => Applied(o, i)
                               /\ Applied(o, j) /\ i < j => Answered(o, i)
<1>1. o.at \in Nat /\ o.applied \in BOOLEAN
  <2>1. o \in [at : Nat, applied : BOOLEAN]
    <3>1. [at : 1..k, applied : BOOLEAN] \subseteq [at : Nat, applied : BOOLEAN]
      OBVIOUS
    <3>2. \A n \in {0, Never} : [at |-> n, applied |-> FALSE] \in [at : Nat, applied : BOOLEAN]
      BY DEF Never
    <3>3. \/ o \in [at : 1..k, applied : BOOLEAN]
          \/ \E n \in {0, Never} : o = [at |-> n, applied |-> FALSE]
      BY DEF Outages
    <3> QED
      BY <3>1, <3>2, <3>3
  <2> QED
    BY <2>1
<1> QED
  BY <1>1 DEF Answered, Applied

LEMMA WithRow ==
  ASSUME NEW table, NEW id, NEW row
  PROVE  /\ DOMAIN With(table, id, row) = DOMAIN table \cup {id}
         /\ With(table, id, row)[id] = row
         /\ \A i \in DOMAIN table : i # id => With(table, id, row)[i] = table[i]
BY DEF With

LEMMA WithoutRows ==
  ASSUME NEW table, NEW ids
  PROVE  /\ DOMAIN Without(table, ids) = DOMAIN table \ ids
         /\ \A i \in DOMAIN table \ ids : Without(table, ids)[i] = table[i]
BY DEF Without

LEMMA UserIds == ASSUME Registered PROVE DOMAIN users \subseteq Nat
BY DEF Registered

LEMMA InitRInv == ASSUME Init PROVE RInv
<1>1. DOMAIN NoRows = {}
  BY DEF NoRows
<1>2. Serials /\ Chats /\ Acknowledged /\ Lists /\ ReactionOnce
  BY <1>1 DEF Init, Serials, Chats, Acknowledged, Lists, ReactionOnce
<1>3. Registered
  <2>1. 1..0 = {} /\ DOMAIN users = {}
    BY <1>1 DEF Init
  <2> QED
    BY <2>1 DEF Registered
<1>4. RowsReferToRows
  BY <1>1 DEF Init, RowsReferToRows
<1> QED
  BY <1>2, <1>3, <1>4 DEF RInv

------------------------------------------------------------------------------
(* The methods, by the tables that they change.                            *)

\* The tables that a method leaves alone keep their part of the invariant.
LEMMA SameTables ==
  ASSUME RInv, UNCHANGED <<channelTables, messageTables, replyTables, serials>>, Registered',
         DOMAIN users \subseteq DOMAIN users'
  PROVE  RInv'
<1> USE DEF channelTables, messageTables, replyTables
<1>1. Serials' /\ Acknowledged' /\ Lists' /\ ReactionOnce'
  BY DEF RInv, Serials, Acknowledged, Lists, ReactionOnce
<1>2. RowsReferToRows'
  BY DEF RInv, RowsReferToRows, KnownChannels, KnownMsgs
<1>3. Chats'
  BY DEF RInv, Chats, NamedOrChat
<1> QED
  BY <1>1, <1>2, <1>3 DEF RInv

LEMMA RegisterUserStep ==
  ASSUME RInv, NEW p, NEW o, RegisterUser(p, o) PROVE RInv'
<1>1. PICK n \in Nat : DOMAIN users = 1..n
  BY DEF RInv, Registered
<1>2. Cardinality(DOMAIN users) = n
  BY <1>1, FS_Interval
<1>3. users' = users \/ DOMAIN users' = 1..(n + 1)
  <2>1. users' = users \/ users' = With(users, n + 1, p)
    BY <1>2 DEF RegisterUser
  <2>2. DOMAIN With(users, n + 1, p) = 1..n \cup {n + 1}
    BY <1>1, WithRow
  <2>3. 1..n \cup {n + 1} = 1..(n + 1)
    OBVIOUS
  <2> QED
    BY <2>1, <2>2, <2>3
<1>4. Registered' /\ DOMAIN users \subseteq DOMAIN users'
  BY <1>1, <1>3 DEF Registered
<1> QED
  BY <1>4, SameTables DEF RegisterUser

LEMMA ReadingStep ==
  ASSUME RInv, UNCHANGED <<users, channelTables, messageTables, replyTables, serials>> PROVE RInv'
<1>1. Registered' /\ DOMAIN users \subseteq DOMAIN users'
  BY DEF RInv, Registered
<1> QED
  BY <1>1, SameTables

\* A member is added to a channel, and perhaps the channel, under the next id.
LEMMA JoinStep ==
  ASSUME RInv, NEW id \in Nat, NEW row, NEW M, M \subseteq (DOMAIN users) \X {id},
         UNCHANGED <<users, messageTables, replyTables>>,
         userChannels' \in {userChannels, userChannels \cup M},
         \/ UNCHANGED <<channels, serials>>
         \/ /\ id = serials.channel + 1 /\ channels' = With(channels, id, row)
            /\ serials' = [serials EXCEPT !.channel = id]
            /\ NamedOrChat(row, DOMAIN users),
         userChannels' # userChannels => id \in DOMAIN channels'
  PROVE  RInv'
<1> USE DEF messageTables, replyTables
<1>1. Serials /\ Serials' /\ serials'.channel >= serials.channel /\ serials'.msg = serials.msg
  BY DEF RInv, Serials
<1>2. DOMAIN channels \subseteq DOMAIN channels' /\ DOMAIN channels' \subseteq KnownChannels'
  <2>1. DOMAIN channels \subseteq 1..serials.channel
    BY DEF RInv, RowsReferToRows, KnownChannels
  <2>2. CASE UNCHANGED <<channels, serials>>
    BY <2>1, <2>2 DEF KnownChannels
  <2>3. CASE /\ id = serials.channel + 1 /\ channels' = With(channels, id, row)
             /\ serials' = [serials EXCEPT !.channel = id]
    <3>1. DOMAIN channels' = DOMAIN channels \cup {id} /\ serials'.channel = id
      BY <1>1, <2>3, WithRow DEF Serials
    <3> QED
      BY <1>1, <2>1, <2>3, <3>1 DEF KnownChannels, Serials
  <2> QED
    BY <2>2, <2>3
<1>3. Chats'
  <2>1. CASE UNCHANGED channels
    BY <2>1 DEF RInv, Chats
  <2>2. CASE channels' = With(channels, id, row) /\ NamedOrChat(row, DOMAIN users)
    <3>1. /\ DOMAIN channels' = DOMAIN channels \cup {id} /\ channels'[id] = row
          /\ \A c \in DOMAIN channels : c # id => channels'[c] = channels[c]
      BY <2>2 DEF With
    <3>2. Chats
      BY DEF RInv
    <3> QED
      BY <2>2, <3>1, <3>2 DEF Chats
  <2> QED
    BY <2>1, <2>2
<1>4. userChannels' \subseteq (DOMAIN users) \X (DOMAIN channels')
  <2>1. userChannels \subseteq (DOMAIN users) \X (DOMAIN channels')
    BY <1>2 DEF RInv, RowsReferToRows
  <2>2. id \in DOMAIN channels' => M \subseteq (DOMAIN users) \X (DOMAIN channels')
    OBVIOUS
  <2> QED
    BY <2>1, <2>2
<1>5. RowsReferToRows'
  <2>1. channelMsgs \subseteq (DOMAIN channels') \X msgs /\ channelReplies \subseteq (DOMAIN channels') \X msgs
    BY <1>2 DEF RInv, RowsReferToRows
  <2>2. KnownMsgs' = KnownMsgs
    BY <1>1 DEF KnownMsgs
  <2> QED
    BY <1>2, <1>4, <2>1, <2>2 DEF RInv, RowsReferToRows
<1>6. Registered' /\ Acknowledged' /\ Lists' /\ ReactionOnce'
  BY DEF RInv, Registered, Acknowledged, Lists, ReactionOnce
<1> QED
  BY <1>1, <1>3, <1>5, <1>6 DEF RInv

LEMMA Ids == ASSUME RInv PROVE /\ DOMAIN channels \subseteq Nat /\ serials.channel + 1 \in Nat
                               /\ msgs \subseteq Nat /\ serials.msg + 1 \in Nat
                               /\ serials.channel + 1 \notin DOMAIN channels
                               /\ serials.msg + 1 \notin msgs
BY DEF RInv, Serials, RowsReferToRows, KnownChannels, KnownMsgs

LEMMA CreateChannelStep ==
  ASSUME RInv, NEW u \in DOMAIN users, NEW name \in Names, NEW o \in Outages(4), CreateChannel(u, name, o)
  PROVE  RInv'
<1> DEFINE id == serials.channel + 1
           old == NamedChannels(name) # {}
           inserted == ~old /\ Applied(o, 2) /\ name \notin LongNames
           row == [name |-> name, creator |-> u, limit |-> 1000000, pair |-> {}]
<1>2. id \in Nat /\ NamedOrChat(row, DOMAIN users)
  BY SMTT(30), Ids DEF NamedOrChat
<1>3. CASE ~inserted
  <2>1. UNCHANGED <<users, messageTables, replyTables, channels, serials>> /\ userChannels' = userChannels
    BY SMTT(30), <1>3 DEF CreateChannel
  <2> QED
    BY ONLY RInv, <2>1, ReadingStep DEF channelTables
<1>4. CASE inserted
  <2>1. /\ UNCHANGED <<users, messageTables, replyTables>> /\ channels' = With(channels, id, row)
        /\ serials' = [serials EXCEPT !.channel = id]
        /\ userChannels' \in {userChannels, userChannels \cup {<<u, id>>}}
    BY SMTT(30), <1>4 DEF CreateChannel
  <2> HIDE DEF row, inserted
  <2>2. id \in DOMAIN channels'
    BY ONLY <2>1 DEF With
  <2>3. {<<u, id>>} \subseteq (DOMAIN users) \X {id}
    BY ONLY u \in DOMAIN users
  <2> QED
    BY ONLY RInv, <1>2, <2>1, <2>2, <2>3, JoinStep
<1> QED
  BY ONLY <1>3, <1>4

LEMMA SubscribeStep ==
  ASSUME RInv, NEW u \in DOMAIN users, NEW c \in KnownChannels, NEW o \in Outages(2),
         SubscribeToChannel(u, c, o)
  PROVE  RInv'
<1>1. /\ c \in Nat /\ {<<u, c>>} \subseteq (DOMAIN users) \X {c}
      /\ UNCHANGED <<users, messageTables, replyTables, channels, serials>>
      /\ userChannels' \in {userChannels, userChannels \cup {<<u, c>>}}
      /\ userChannels' # userChannels => c \in DOMAIN channels
  BY DEF SubscribeToChannel, KnownChannels
<1>2. PICK M : M = {<<u, c>>} /\ M \subseteq (DOMAIN users) \X {c}
  BY <1>1
<1>3. PICK row : row = NoRows
  OBVIOUS
<1> QED
  BY ONLY <1>1, <1>2, <1>3, RInv, JoinStep

\* What AddDirectChat does: the chat has the id of the channel that there is,
\* or the next one, and that channel has the name of the two.
ChatOf(u, v, o, id, row) ==
  /\ id \in Nat /\ row.name = ChatName(u, v) /\ row.pair = {u, v}
  /\ last'.op = "addDirectChat" /\ last'.users = {u, v} /\ last'.chat = id
  /\ last'.code = IF Answered(o, 3) THEN "SUCCESS" ELSE "throws"
  /\ UNCHANGED <<users, messageTables, replyTables>>
  /\ \/ UNCHANGED <<channels, serials>>
     \/ /\ id = serials.channel + 1 /\ channels' = With(channels, id, row)
        /\ serials' = [serials EXCEPT !.channel = id]
  /\ userChannels' = userChannels \cup
       (IF Answered(o, 2) /\ Applied(o, 3) THEN {<<u, id>>, <<v, id>>} ELSE {})
  /\ userChannels' # userChannels =>
       id \in DOMAIN channels' /\ channels'[id].name = ChatName(u, v)
LEMMA DirectChat ==
  ASSUME RInv, NEW u \in DOMAIN users, NEW v \in DOMAIN users, NEW o \in Outages(3),
         AddDirectChat(u, v, o)
  PROVE  \E id, row : ChatOf(u, v, o, id, row)
<1> DEFINE name == ChatName(u, v)
           some == CHOOSE c \in NamedChannels(name) : TRUE
           next == serials.channel + 1
           id == IF NamedChannels(name) = {} THEN next ELSE some
           row == [name |-> name, limit |-> 2, pair |-> {u, v}, creator |-> IF u < v THEN u ELSE v]
           inserted == NamedChannels(name) = {} /\ Applied(o, 1)
<1>2. /\ last' = [op |-> "addDirectChat", users |-> {u, v}, chat |-> id,
                  code |-> IF Answered(o, 3) THEN "SUCCESS" ELSE "throws"]
      /\ UNCHANGED <<users, messageTables, replyTables>>
      /\ channels' = IF inserted THEN With(channels, next, row) ELSE channels
      /\ serials' = IF inserted THEN [serials EXCEPT !.channel = next] ELSE serials
      /\ userChannels' = userChannels \cup
           (IF Answered(o, 2) /\ Applied(o, 3) THEN {<<u, id>>, <<v, id>>} ELSE {})
  BY DEF AddDirectChat, Answer, Joined
<1>3. NamedChannels(name) # {} => some \in NamedChannels(name)
  OBVIOUS
<1>4. NamedChannels(name) # {} => some \in DOMAIN channels /\ channels[some].name = name
  BY <1>3 DEF NamedChannels
<1>5. next \in Nat /\ DOMAIN channels \subseteq Nat
  BY Ids
<1>6. Answered(o, 2) => Applied(o, 1)
  BY Statements
<1>7. row.name = name /\ row.pair = {u, v}
  OBVIOUS
<1> HIDE DEF some, row
<1>8. ASSUME userChannels' # userChannels PROVE id \in DOMAIN channels' /\ channels'[id].name = name
  <2> HIDE DEF name
  <2>1. CASE NamedChannels(name) = {}
    <3>1. channels' = With(channels, next, row) /\ id = next
      BY <1>2, <1>6, <1>8, <2>1
    <3> QED
      BY ONLY <1>7, <3>1 DEF With
  <2>2. CASE NamedChannels(name) # {}
    BY <1>2, <1>4, <2>2
  <2> QED
    BY <2>1, <2>2
<1>9. id \in Nat
  BY <1>4, <1>5
<1>10. /\ last'.op = "addDirectChat" /\ last'.users = {u, v} /\ last'.chat = id
       /\ last'.code = IF Answered(o, 3) THEN "SUCCESS" ELSE "throws"
  BY <1>2
<1>11. \/ UNCHANGED <<channels, serials>>
       \/ /\ id = serials.channel + 1 /\ channels' = With(channels, id, row)
          /\ serials' = [serials EXCEPT !.channel = id]
  BY <1>2
<1>12. UNCHANGED <<users, messageTables, replyTables>>
  BY <1>2
<1>13. userChannels' = userChannels \cup
         (IF Answered(o, 2) /\ Applied(o, 3) THEN {<<u, id>>, <<v, id>>} ELSE {})
  BY <1>2
<1> HIDE DEF id
<1> QED
  BY ONLY <1>7, <1>8, <1>9, <1>10, <1>11, <1>12, <1>13 DEF ChatOf

LEMMA AddDirectChatStep ==
  ASSUME RInv, NEW u \in DOMAIN users, NEW v \in DOMAIN users, NEW o \in Outages(3),
         AddDirectChat(u, v, o)
  PROVE  RInv'
<1>1. PICK id, row : ChatOf(u, v, o, id, row)
  BY DirectChat
<1>2. {<<u, id>>, <<v, id>>} \subseteq (DOMAIN users) \X {id}
  OBVIOUS
<1>3. PICK M : M = {<<u, id>>, <<v, id>>}
  OBVIOUS
<1>4. NamedOrChat(row, DOMAIN users)
  BY <1>1 DEF ChatOf, NamedOrChat
<1>5. /\ id \in Nat /\ UNCHANGED <<users, messageTables, replyTables>>
      /\ userChannels' \in {userChannels, userChannels \cup M}
      /\ userChannels' # userChannels => id \in DOMAIN channels'
      /\ \/ UNCHANGED <<channels, serials>>
         \/ /\ id = serials.channel + 1 /\ channels' = With(channels, id, row)
            /\ serials' = [serials EXCEPT !.channel = id]
            /\ NamedOrChat(row, DOMAIN users)
  BY <1>1, <1>3, <1>4 DEF ChatOf
<1> QED
  BY ONLY RInv, <1>2, <1>3, <1>5, JoinStep

\* Rows that are deleted: whatever is left still refers to rows.
LEMMA LeaveChannelStep == ASSUME RInv, NEW u, NEW name, NEW o, LeaveChannel(u, name, o) PROVE RInv'
<1> USE DEF messageTables, replyTables
<1>1. /\ userChannels' \subseteq userChannels
      /\ UNCHANGED <<users, channels, messageTables, replyTables, serials>>
  BY DEF LeaveChannel
<1>2. Serials' /\ Registered' /\ Chats' /\ Acknowledged' /\ Lists' /\ ReactionOnce'
  BY <1>1 DEF RInv, Serials, Registered, Chats, Acknowledged, Lists, ReactionOnce
<1>3. RowsReferToRows'
  BY <1>1 DEF RInv, RowsReferToRows, KnownChannels, KnownMsgs
<1> QED
  BY <1>2, <1>3 DEF RInv

LEMMA DeleteChannelStep == ASSUME RInv, NEW u, NEW name, NEW o, DeleteChannel(u, name, o) PROVE RInv'
<1>1. PICK gone : /\ gone = {} \/ Deletable(gone)
                  /\ channels' = Without(channels, gone)
                  /\ channelMsgs' = {r \in channelMsgs : r[1] \notin gone}
                  /\ channelReplies' = {r \in channelReplies : r[1] \notin gone}
                  /\ acknowledged' = {r \in acknowledged : r[1] \notin gone}
                  /\ UNCHANGED <<users, userChannels, msgs, msgReactions, contents, replies, serials, refused>>
  BY DEF DeleteChannel
<1>2. /\ DOMAIN channels' = DOMAIN channels \ gone
      /\ \A c \in DOMAIN channels' : channels'[c] = channels[c]
  BY <1>1 DEF Without
<1>3. Serials' /\ Registered' /\ Lists' /\ ReactionOnce'
  BY <1>1 DEF RInv, Serials, Registered, Lists, ReactionOnce
<1>4. Chats'
  BY <1>1, <1>2 DEF RInv, Chats, NamedOrChat
<1>5. Acknowledged'
  BY <1>1 DEF RInv, Acknowledged
<1>6. RowsReferToRows'
  <2>1. userChannels' \subseteq (DOMAIN users) \X (DOMAIN channels')
    BY <1>1, <1>2 DEF RInv, RowsReferToRows, Deletable
  <2>2. /\ channelMsgs' \subseteq (DOMAIN channels') \X msgs
        /\ channelReplies' \subseteq (DOMAIN channels') \X msgs
    BY <1>1, <1>2 DEF RInv, RowsReferToRows
  <2> QED
    BY <1>1, <1>2, <2>1, <2>2 DEF RInv, RowsReferToRows, KnownChannels, KnownMsgs
<1> QED
  BY <1>3, <1>4, <1>5, <1>6 DEF RInv

\* What the four inserts of a message leave behind, wherever they are cut short.
LEMMA StoreMessageStep ==
  ASSUME RInv, NEW c \in KnownChannels, NEW content, NEW o \in Outages(4), StoreMessage(c, content, o)
  PROVE  RInv'
<1> DEFINE id == serials.msg + 1
           blank == [r \in Reactions |-> <<>>]
<1>1. Serials /\ id \in Nat /\ msgs \subseteq 1..serials.msg
  BY DEF RInv, Serials, RowsReferToRows, KnownMsgs
<1>2. /\ Applied(o, 2) => Applied(o, 1) /\ Answered(o, 1)
      /\ Applied(o, 3) => Applied(o, 1) /\ Applied(o, 2)
      /\ Applied(o, 4) => Applied(o, 1) /\ Applied(o, 2)
      /\ Answered(o, 4) => Applied(o, 2) /\ Applied(o, 3) /\ Applied(o, 4)
  BY Statements
<1>3. /\ \/ Applied(o, 1) /\ msgs' = msgs \cup {id} /\ serials' = [serials EXCEPT !.msg = id]
         \/ ~Applied(o, 1) /\ UNCHANGED <<msgs, serials>>
      /\ channelMsgs' \in {channelMsgs, channelMsgs \cup {<<c, id>>}}
      /\ channelMsgs' # channelMsgs => Applied(o, 1) /\ c \in DOMAIN channels
      /\ msgReactions' \in {msgReactions, With(msgReactions, id, blank)}
      /\ msgReactions' # msgReactions => Applied(o, 1)
      /\ contents' \in {contents, contents \cup {id}}
      /\ contents' # contents => Applied(o, 1)
      /\ UNCHANGED <<users, channels, userChannels, replies, channelReplies>>
  BY <1>2 DEF StoreMessage, channelTables, replyTables
<1>4. \/ acknowledged' = acknowledged /\ refused' = refused \cup {c}
      \/ /\ acknowledged' = acknowledged \cup {<<c, id>>} /\ refused' = refused
         /\ <<c, id>> \in channelMsgs' /\ id \in contents' /\ id \in DOMAIN msgReactions'
  <2>1. CASE c \in DOMAIN channels /\ Answered(o, 4) /\ Fits(content)
    <3>1. Applied(o, 2) /\ Applied(o, 3) /\ Applied(o, 4)
      BY <1>2, <2>1
    <3>2. /\ acknowledged' = acknowledged \cup {<<c, id>>} /\ refused' = refused
          /\ channelMsgs' = channelMsgs \cup {<<c, id>>} /\ contents' = contents \cup {id}
          /\ msgReactions' = With(msgReactions, id, blank)
      BY <2>1, <3>1 DEF StoreMessage, Fits
    <3>3. DOMAIN With(msgReactions, id, blank) = DOMAIN msgReactions \cup {id}
      BY WithRow
    <3> HIDE DEF blank
    <3> QED
      BY <3>2, <3>3
  <2>2. CASE ~(c \in DOMAIN channels /\ Answered(o, 4) /\ Fits(content))
    BY <2>2 DEF StoreMessage
  <2> QED
    BY <2>1, <2>2
<1>5. msgs \subseteq msgs' /\ (Applied(o, 1) => id \in msgs') /\ channelMsgs \subseteq channelMsgs' /\ contents \subseteq contents'
  BY <1>3
<1>6. Serials' /\ serials'.channel = serials.channel /\ msgs' \subseteq 1..serials'.msg
  <2>1. CASE msgs' = msgs \cup {id} /\ serials' = [serials EXCEPT !.msg = id]
    <3>1. serials'.channel = serials.channel /\ serials'.msg = id /\ Serials'
      BY <1>1, <2>1 DEF Serials
    <3> QED
      BY <1>1, <2>1, <3>1 DEF Serials
  <2>2. CASE UNCHANGED <<msgs, serials>>
    BY <1>1, <2>2 DEF Serials
  <2> QED
    BY <1>3, <2>1, <2>2
<1> HIDE DEF id
<1>7. Registered' /\ Chats'
  BY <1>3 DEF RInv, Registered, Chats
<1>8. Acknowledged'
  <2>1. /\ acknowledged \subseteq channelMsgs
        /\ \A r \in acknowledged : r[2] \in contents \cap DOMAIN msgReactions
        /\ \A r \in channelMsgs : r[1] \in refused \/ r[2] \in contents
    BY DEF RInv, Acknowledged
  <2>2. <<c, id>>[2] = id /\ <<c, id>>[1] = c
    OBVIOUS
  <2>3. DOMAIN msgReactions \subseteq DOMAIN msgReactions'
    <3>1. DOMAIN With(msgReactions, id, blank) = DOMAIN msgReactions \cup {id}
      BY WithRow
    <3> HIDE DEF blank
    <3> QED
      BY <1>3, <3>1
  <2>4. CASE acknowledged' = acknowledged /\ refused' = refused \cup {c}
    BY <1>3, <1>5, <2>1, <2>2, <2>3, <2>4 DEF Acknowledged
  <2>5. CASE /\ acknowledged' = acknowledged \cup {<<c, id>>} /\ refused' = refused
             /\ <<c, id>> \in channelMsgs' /\ id \in contents' /\ id \in DOMAIN msgReactions'
    BY <1>3, <1>5, <2>1, <2>2, <2>3, <2>5 DEF Acknowledged
  <2> QED
    BY <1>4, <2>4, <2>5
<1>9. Lists' /\ ReactionOnce'
  <2>1. Lists /\ ReactionOnce
    BY DEF RInv
  <2>2. CASE msgReactions' = msgReactions
    BY <2>1, <2>2 DEF Lists, ReactionOnce
  <2>3. CASE msgReactions' = With(msgReactions, id, blank)
    <3>1. /\ DOMAIN msgReactions' = DOMAIN msgReactions \cup {id} /\ msgReactions'[id] = blank
          /\ \A m \in DOMAIN msgReactions : m # id => msgReactions'[m] = msgReactions[m]
      <4> HIDE DEF blank
      <4> QED
        BY <2>3 DEF With
    <3>2. blank \in [Reactions -> Seq(Nat)] /\ \A r \in Reactions : IsInjective(blank[r])
      BY DEF IsInjective
    <3> HIDE DEF blank
    <3>3. Lists'
      BY <2>1, <3>1, <3>2 DEF Lists
    <3>4. ReactionOnce'
      BY <2>1, <3>1, <3>2 DEF ReactionOnce
    <3> QED
      BY <3>3, <3>4
  <2> QED
    BY <1>3, <2>2, <2>3
<1>10. RowsReferToRows'
  <2>1. RowsReferToRows
    BY DEF RInv
  <2>2. channelMsgs' \subseteq (DOMAIN channels') \X msgs'
    <3>1. channelMsgs \subseteq (DOMAIN channels) \X msgs'
      BY <1>5, <2>1 DEF RowsReferToRows
    <3> QED
      BY <1>3, <1>5, <3>1
  <2>3. DOMAIN msgReactions' \subseteq msgs'
    <3>1. DOMAIN With(msgReactions, id, blank) = DOMAIN msgReactions \cup {id}
      BY WithRow
    <3> HIDE DEF blank
    <3>2. DOMAIN msgReactions \subseteq msgs
      BY <2>1 DEF RowsReferToRows
    <3> QED
      BY <1>3, <1>5, <3>1, <3>2
  <2>4. contents' \subseteq msgs'
    BY <1>3, <1>5, <2>1 DEF RowsReferToRows
  <2>5. channelReplies' \subseteq (DOMAIN channels') \X msgs'
    BY <1>3, <1>5, <2>1 DEF RowsReferToRows
  <2>6. \A r \in replies' : {r.owner, r.ref} \subseteq msgs'
    BY <1>3, <1>5, <2>1 DEF RowsReferToRows
  <2>7. KnownChannels' = KnownChannels /\ msgs' \subseteq KnownMsgs'
    BY <1>6 DEF KnownChannels, KnownMsgs
  <2> QED
    BY <1>3, <2>1, <2>2, <2>3, <2>4, <2>5, <2>6, <2>7 DEF RowsReferToRows
<1> QED
  BY <1>6, <1>7, <1>8, <1>9, <1>10 DEF RInv

LEMMA DeleteMessageStep == ASSUME RInv, NEW m, NEW o, DeleteMessage(m, o) PROVE RInv'
<1>1. PICK gone : /\ msgs' = msgs \ gone
                  /\ channelMsgs' = {r \in channelMsgs : r[2] \notin gone}
                  /\ msgReactions' = Without(msgReactions, gone)
                  /\ contents' = contents \ gone
                  /\ replies' = {r \in replies : {r.owner, r.ref} \cap gone = {}}
                  /\ channelReplies' = {r \in channelReplies : r[2] \notin gone}
                  /\ acknowledged' = {r \in acknowledged : r[2] \notin gone}
                  /\ UNCHANGED <<users, channels, userChannels, serials, refused>>
  BY DEF DeleteMessage, channelTables
<1>2. /\ DOMAIN msgReactions' = DOMAIN msgReactions \ gone
      /\ \A i \in DOMAIN msgReactions' : msgReactions'[i] = msgReactions[i]
  BY <1>1 DEF Without
<1>3. Serials' /\ Registered' /\ Chats'
  BY <1>1 DEF RInv, Serials, Registered, Chats
<1>4. Lists' /\ ReactionOnce'
  BY <1>2 DEF RInv, Lists, ReactionOnce
<1>5. Acknowledged'
  <2>1. \A r \in acknowledged' : r \in acknowledged /\ r[2] \notin gone
    BY <1>1
  <2>2. \A r \in channelMsgs' : r \in channelMsgs /\ r[2] \notin gone
    BY <1>1
  <2>3. acknowledged' \subseteq channelMsgs'
    BY <1>1 DEF RInv, Acknowledged
  <2> QED
    BY <1>1, <1>2, <2>1, <2>2, <2>3 DEF RInv, Acknowledged
<1>6. RowsReferToRows'
  <2>1. RowsReferToRows
    BY DEF RInv
  <2>2. /\ channelMsgs' \subseteq (DOMAIN channels) \X msgs'
        /\ channelReplies' \subseteq (DOMAIN channels) \X msgs'
    BY <1>1, <2>1 DEF RowsReferToRows
  <2>3. \A r \in replies' : {r.owner, r.ref} \subseteq msgs'
    BY <1>1, <2>1 DEF RowsReferToRows
  <2> QED
    BY <1>1, <1>2, <2>1, <2>2, <2>3 DEF RowsReferToRows, KnownChannels, KnownMsgs
<1> QED
  BY <1>3, <1>4, <1>5, <1>6 DEF RInv

\* A toggle that knows whether the user is in the list keeps it without
\* repetitions.
LEMMA Toggles ==
  ASSUME NEW list \in Seq(Nat), IsInjective(list), NEW u \in Nat
  PROVE  Toggled(list, u, u \in ToSet(list)) \in Seq(Nat) /\ IsInjective(Toggled(list, u, u \in ToSet(list)))
<1>1. Len(list) \in Nat /\ DOMAIN list = 1..Len(list) /\ \A i, j \in 1..Len(list) : list[i] = list[j] => i = j
  BY DEF IsInjective
<1>2. CASE u \in ToSet(list)
  <2>1. PICK S, left : S = ToSet(list) \ {u} /\ left = Only(list, S)
    OBVIOUS
  <2>2. left \in Seq(S)
    BY ONLY list \in Seq(Nat), <2>1, OnlyType
  <2>7. \A i, j \in 1..Len(left) : left[i] = left[j] => i = j
    BY ONLY list \in Seq(Nat), <1>1, <2>1, OnlyApart
  <2>3. S \subseteq Nat
    BY <1>1, <2>1 DEF ToSet
  <2>4. left \in Seq(Nat) /\ DOMAIN left = 1..Len(left)
    <3>1. Len(left) \in Nat /\ DOMAIN left = 1..Len(left) /\ \A i \in 1..Len(left) : left[i] \in S
      BY ONLY <2>2
    <3>2. left = [i \in 1..Len(left) |-> left[i]]
      BY ONLY <2>2
    <3> QED
      BY ONLY <2>3, <3>1, <3>2
  <2>5. Toggled(list, u, u \in ToSet(list)) = left
    BY <1>2, <2>1 DEF Toggled
  <2> QED
    BY ONLY <2>4, <2>5, <2>7 DEF IsInjective
<1>3. CASE u \notin ToSet(list)
  <2>1. PICK more : more = Append(list, u)
    OBVIOUS
  <2>2. /\ more \in Seq(Nat) /\ Len(more) = Len(list) + 1 /\ more[Len(list) + 1] = u
        /\ \A i \in 1..Len(list) : more[i] = list[i]
    BY <1>1, <2>1
  <2>3. \A i \in 1..Len(list) : list[i] # u
    BY <1>1, <1>3 DEF ToSet
  <2>4. \A i \in 1..Len(more) : i \in 1..Len(list) \/ i = Len(list) + 1
    BY <1>1, <2>2
  <2>5. \A i, j \in 1..Len(more) : more[i] = more[j] => i = j
    <3> SUFFICES ASSUME NEW i \in 1..Len(more), NEW j \in 1..Len(more), more[i] = more[j] PROVE i = j
      OBVIOUS
    <3> QED
      BY ONLY <1>1, <2>2, <2>3, <2>4, i \in 1..Len(more), j \in 1..Len(more), more[i] = more[j]
  <2>6. Toggled(list, u, u \in ToSet(list)) = more
    BY <1>3, <2>1 DEF Toggled
  <2> QED
    BY ONLY <2>2, <2>5, <2>6 DEF IsInjective
<1> QED
  BY <1>2, <1>3

\* The select that an update follows has told the truth.
LEMMA ReactionUpdated ==
  ASSUME RInv, NEW u, NEW m \in DOMAIN msgReactions, NEW r \in Reactions, NEW k \in {0, 2},
         NEW o \in Outages(k), UpdateMessageReactions(u, m, r, o), Applied(o, 2),
         NEW list, list = msgReactions[m][r], NEW new, new = Toggled(list, u, u \in ToSet(list))
  PROVE  msgReactions' = [msgReactions EXCEPT ![m][r] = new]
<1> DEFINE found == /\ r \in Reactions /\ m \in DOMAIN msgReactions
                    /\ Answered(o, 1) /\ u \in ToSet(msgReactions[m][r])
<1>1. Answered(o, 1)
  BY Statements
<1>2. msgReactions' = [msgReactions EXCEPT ![m][r] = Toggled(@, u, found)]
  BY ONLY Applied(o, 2), m \in DOMAIN msgReactions, r \in Reactions, UpdateMessageReactions(u, m, r, o)
     DEF UpdateMessageReactions
<1>3. CASE u \in ToSet(list)
  <2>1. new = Only(list, ToSet(list) \ {u}) /\ found
    BY <1>1, <1>3 DEF Toggled
  <2> QED
    BY ONLY list = msgReactions[m][r], <1>2, <2>1 DEF Toggled
<1>4. CASE u \notin ToSet(list)
  <2>1. new = Append(list, u) /\ ~found
    BY <1>4 DEF Toggled
  <2> QED
    BY ONLY list = msgReactions[m][r], <1>2, <2>1 DEF Toggled
<1> QED
  BY <1>3, <1>4

LEMMA UpdateMessageReactionsStep ==
  ASSUME RInv, NEW u \in DOMAIN users, NEW m, NEW r, NEW k \in {0, 2}, NEW o \in Outages(k),
         UpdateMessageReactions(u, m, r, o)
  PROVE  RInv'
<1>1. UNCHANGED <<users, channelTables, replyTables, serials, msgs, channelMsgs, contents, acknowledged, refused>>
  BY DEF UpdateMessageReactions
<1>2. CASE UNCHANGED msgReactions
  BY <1>1, <1>2, ReadingStep DEF messageTables
<1>3. CASE r \in Reactions /\ m \in DOMAIN msgReactions /\ Applied(o, 2)
  <2>2. PICK list : list = msgReactions[m][r]
    OBVIOUS
  <2>3. list \in Seq(Nat) /\ IsInjective(list) /\ msgReactions[m] \in [Reactions -> Seq(Nat)]
    BY <1>3, <2>2 DEF RInv, Lists, ReactionOnce
  <2>4. PICK new : new = Toggled(list, u, u \in ToSet(list)) /\ new \in Seq(Nat) /\ IsInjective(new)
    BY <2>3, UserIds, Toggles DEF RInv
  <2>5. msgReactions' = [msgReactions EXCEPT ![m][r] = new]
    <3>1. new = Toggled(list, u, u \in ToSet(list))
      BY <2>4
    <3>2. m \in DOMAIN msgReactions
      BY <1>3
    <3>3. r \in Reactions /\ Applied(o, 2)
      BY <1>3
    <3> QED
      BY <2>2, <3>1, <3>2, <3>3, ReactionUpdated
  <2>6. /\ DOMAIN msgReactions' = DOMAIN msgReactions
        /\ msgReactions'[m] = [msgReactions[m] EXCEPT ![r] = new]
        /\ \A i \in DOMAIN msgReactions : i # m => msgReactions'[i] = msgReactions[i]
    BY <1>3, <2>5
  <2>7. /\ msgReactions'[m] \in [Reactions -> Seq(Nat)] /\ msgReactions'[m][r] = new
        /\ \A q \in Reactions : q # r => msgReactions'[m][q] = msgReactions[m][q]
    BY <1>3, <2>3, <2>4, <2>6
  <2>8. Lists'
    BY <2>6, <2>7 DEF RInv, Lists
  <2>9. ReactionOnce'
    BY <1>3, <2>4, <2>6, <2>7 DEF RInv, ReactionOnce
  <2>10. Serials' /\ Registered' /\ Chats' /\ Acknowledged'
    BY <1>1, <2>6 DEF RInv, Serials, Registered, Chats, Acknowledged, channelTables
  <2>11. RowsReferToRows'
    BY <1>1, <2>6 DEF RInv, RowsReferToRows, KnownChannels, KnownMsgs, channelTables, replyTables
  <2> QED
    BY <2>8, <2>9, <2>10, <2>11 DEF RInv
<1> QED
  BY <1>2, <1>3 DEF UpdateMessageReactions

LEMMA Greatest ==
  ASSUME NEW k \in Nat, NEW M, M \subseteq 1..k, M # {}
  PROVE  \E m \in M : \A n \in M : n <= m
<1> DEFINE B == {b \in Nat : \A n \in M : n <= b}
<1>1. k \in B
  OBVIOUS
<1>2. PICK b \in B : \A c \in B : b <= c
  BY <1>1, Least
<1>3. ASSUME b \notin M PROVE FALSE
  <2>1. \A n \in M : n <= b - 1 /\ n \in Nat /\ n >= 1
    BY <1>2, <1>3
  <2>2. PICK n \in M : TRUE
    OBVIOUS
  <2>3. b - 1 \in Nat /\ b - 1 \in B
    BY <1>2, <2>1, <2>2
  <2> QED
    BY <1>2, <2>3
<1> QED
  BY <1>2, <1>3

LEMMA StoreReplyStep ==
  ASSUME RInv, NEW c, NEW ref, NEW o \in Outages(3), StoreReply(c, ref, o) PROVE RInv'
<1> USE DEF channelTables, messageTables
<1>1. UNCHANGED <<users, channelTables, messageTables, serials>>
  BY DEF StoreReply
<1>2. ASSUME msgs # {} PROVE LastMessage \in msgs
  <2>1. serials.msg \in Nat /\ msgs \subseteq 1..serials.msg
    BY DEF RInv, Serials, RowsReferToRows, KnownMsgs
  <2>2. \E m \in msgs : \A n \in msgs : n <= m
    BY <1>2, <2>1, Greatest
  <2> QED
    BY <2>2 DEF LastMessage
<1>3. /\ replies' \in {replies, replies \cup {[owner |-> LastMessage, ref |-> ref]}}
      /\ replies' # replies => msgs # {} /\ ref \in msgs
      /\ channelReplies' \in {channelReplies, channelReplies \cup {<<c, LastMessage>>}}
      /\ channelReplies' # channelReplies => msgs # {} /\ c \in DOMAIN channels
  BY DEF StoreReply
<1>4. Serials' /\ Registered' /\ Chats' /\ Acknowledged' /\ Lists' /\ ReactionOnce'
  BY <1>1 DEF RInv, Serials, Registered, Chats, Acknowledged, Lists, ReactionOnce
<1>5. RowsReferToRows'
  <2>1. RowsReferToRows
    BY DEF RInv
  <2>2. \A r \in replies' : {r.owner, r.ref} \subseteq msgs
    BY <1>2, <1>3, <2>1 DEF RowsReferToRows
  <2>3. channelReplies' \subseteq (DOMAIN channels) \X msgs
    BY <1>2, <1>3, <2>1 DEF RowsReferToRows
  <2> QED
    BY <1>1, <2>1, <2>2, <2>3 DEF RowsReferToRows, KnownChannels, KnownMsgs
<1> QED
  BY <1>4, <1>5 DEF RInv

LEMMA RequestedStep == ASSUME RInv, Requested PROVE RInv'
<1>1. ASSUME NEW p, NEW o, LoginUser(p, o) PROVE RInv'
  BY <1>1, ReadingStep DEF LoginUser
<1>2. ASSUME NEW o, EditMessage(o) PROVE RInv'
  BY <1>2, ReadingStep DEF EditMessage
<1>3. ASSUME NEW u \in DOMAIN users, NEW m, NEW r,
             NEW o \in Outages(IF r \in Reactions THEN 2 ELSE 0), UpdateMessageReactions(u, m, r, o)
      PROVE  RInv'
  BY <1>3, UpdateMessageReactionsStep
<1> QED
  BY <1>1, <1>2, <1>3, RegisterUserStep, CreateChannelStep, LeaveChannelStep, DeleteChannelStep,
     AddDirectChatStep, SubscribeStep, DeleteMessageStep, StoreMessageStep, StoreReplyStep DEF Requested

LEMMA NextRInv == ASSUME RInv, [Next]_vars PROVE RInv'
<1>1. CASE Restart \/ UNCHANGED vars
  BY <1>1, ReadingStep DEF Restart, vars
<1> QED
  BY <1>1, RequestedStep DEF Next

\* No row refers to one that is gone, and every id is one that was given out,
\* wherever a method is cut short and the connection is lost.
THEOREM NoDanglingRows == Spec => []RowsReferToRows
<1>1. RInv => RowsReferToRows
  BY DEF RInv
<1> QED
  BY InitRInv, NextRInv, <1>1, PTL DEF Spec

\* A message whose sender was told SUCCESS keeps its channel, its reactions and
\* its content until it or its channel is deleted, and its channel can be read
\* unless storeMessage has answered FAILED for it.
THEOREM AcknowledgedStays == Spec => []AcknowledgedReadable
<1>1. RInv => AcknowledgedReadable
  <2> SUFFICES ASSUME RInv, NEW r \in acknowledged
               PROVE  /\ r[2] \in HistoryRows(r[1]) \cap contents \cap DOMAIN msgReactions
                      /\ r[1] \in refused \/ ~HistoryThrows(r[1])
    BY DEF AcknowledgedReadable
  <2>1. r[2] \in HistoryRows(r[1]) \cap contents \cap DOMAIN msgReactions
    BY DEF RInv, RowsReferToRows, Acknowledged, HistoryRows
  <2>2. ASSUME r[1] \notin refused PROVE ~HistoryThrows(r[1])
    <3>1. \A m : <<r[1], m>> \in channelMsgs => m \in contents
      BY <2>2 DEF RInv, Acknowledged
    <3> QED
      BY <3>1 DEF HistoryThrows, HistoryRows
  <2> QED
    BY <2>1, <2>2
<1> QED
  BY InitRInv, NextRInv, <1>1, PTL DEF Spec

\* No list of reactions names a user twice.
THEOREM OneReactionEach == Spec => []ReactionOnce
<1>1. RInv => ReactionOnce
  BY DEF RInv
<1> QED
  BY InitRInv, NextRInv, <1>1, PTL DEF Spec

------------------------------------------------------------------------------
(* What a step tells, and whom it adds.                                    *)

\* Different pairs of users have chats of different names, and no user gives
\* the name of a chat to a channel.
NamesDiffer ==
  \A u, v \in DOMAIN users :
    /\ ChatName(u, v) \notin Names
    /\ \A x, y \in DOMAIN users : ChatName(u, v) = ChatName(x, y) => {u, v} = {x, y}

JoinAsked(s) ==
  \/ last'.op \in {"createChannel", "subscribeToChannel"} /\ s[1] = last'.user
  \/ last'.op = "addDirectChat" /\ s[1] \in last'.users /\ channels'[s[2]].pair = last'.users

LEMMA CreateChannelAsks ==
  ASSUME NEW u, NEW name, NEW o, CreateChannel(u, name, o)
  PROVE  \A s \in userChannels' \ userChannels : JoinAsked(s)
<1> DEFINE id == serials.channel + 1
<1>1. /\ userChannels' \in {userChannels, userChannels \cup {<<u, id>>}}
      /\ last'.op = "createChannel" /\ last'.user = u
  BY SMTT(30) DEF CreateChannel, Answer
<1> HIDE DEF id
<1>2. \A s \in userChannels' \ userChannels : s = <<u, id>>
  BY <1>1
<1> QED
  BY <1>1, <1>2 DEF JoinAsked

LEMMA SubscribeAsks ==
  ASSUME NEW u, NEW c, NEW o, SubscribeToChannel(u, c, o)
  PROVE  \A s \in userChannels' \ userChannels : JoinAsked(s)
<1>1. /\ userChannels' \in {userChannels, userChannels \cup {<<u, c>>}}
      /\ last'.op = "subscribeToChannel" /\ last'.user = u
  BY DEF SubscribeToChannel, Answer
<1>2. \A s \in userChannels' \ userChannels : s = <<u, c>>
  BY <1>1
<1> QED
  BY <1>1, <1>2 DEF JoinAsked

\* The channel that the two are put into has the name of their chat, so it is
\* none that a user has named, and none of another pair.
LEMMA AddDirectChatAsks ==
  ASSUME RInv, RInv', NamesDiffer, NEW u \in DOMAIN users, NEW v \in DOMAIN users,
         NEW o \in Outages(3), AddDirectChat(u, v, o)
  PROVE  \A s \in userChannels' \ userChannels : JoinAsked(s)
<1>1. PICK id, row : ChatOf(u, v, o, id, row)
  BY DirectChat
<1>2. SUFFICES ASSUME NEW s \in userChannels' \ userChannels PROVE JoinAsked(s)
  OBVIOUS
<1>3. s \in {<<u, id>>, <<v, id>>} /\ userChannels' # userChannels
  BY <1>1, <1>2 DEF ChatOf
<1>4. s[1] \in {u, v} /\ s[2] = id
  BY <1>3
<1>5. PICK chat : chat = channels'[id]
  OBVIOUS
<1>6. id \in DOMAIN channels' /\ chat.name = ChatName(u, v) /\ users' = users
  BY <1>1, <1>3, <1>5 DEF ChatOf
<1>7. NamedOrChat(chat, DOMAIN users)
  <2>1. \A c \in DOMAIN channels' : NamedOrChat(channels'[c], DOMAIN users')
    BY DEF RInv, Chats, NamedOrChat
  <2> QED
    BY <1>5, <1>6, <2>1
<1>8. PICK x \in DOMAIN users, y \in DOMAIN users : chat.pair = {x, y} /\ chat.name = ChatName(x, y)
  BY <1>6, <1>7 DEF NamesDiffer, NamedOrChat
<1>9. {u, v} = {x, y}
  <2>1. ChatName(u, v) = ChatName(x, y)
    BY <1>6, <1>8
  <2> QED
    BY <2>1 DEF NamesDiffer
<1>10. channels'[s[2]].pair = {u, v}
  BY <1>4, <1>5, <1>8, <1>9
<1>11. last'.op = "addDirectChat" /\ last'.users = {u, v}
  BY <1>1 DEF ChatOf
<1> QED
  BY <1>4, <1>10, <1>11 DEF JoinAsked

\* Every other method leaves the members alone or takes some away.
LEMMA JoinsStep ==
  ASSUME RInv, NamesDiffer, [Next]_vars
  PROVE  \A s \in userChannels' \ userChannels : JoinAsked(s)
<1>1. CASE userChannels' \subseteq userChannels
  BY <1>1
<1>2. ASSUME NEW u, NEW name, NEW o, LeaveChannel(u, name, o) PROVE userChannels' \subseteq userChannels
  BY <1>2 DEF LeaveChannel
<1>3. ASSUME NEW u, NEW name, NEW o, DeleteChannel(u, name, o) PROVE userChannels' = userChannels
  BY <1>3 DEF DeleteChannel
<1>4. ASSUME NEW u, NEW m, NEW r, NEW o, UpdateMessageReactions(u, m, r, o) PROVE userChannels' = userChannels
  BY <1>4 DEF UpdateMessageReactions, channelTables
<1>5. ASSUME NEW m, NEW o, DeleteMessage(m, o) PROVE userChannels' = userChannels
  BY <1>5 DEF DeleteMessage, channelTables
<1>6. ASSUME NEW c, NEW content, NEW o, StoreMessage(c, content, o) PROVE userChannels' = userChannels
  BY <1>6 DEF StoreMessage, channelTables
<1>7. ASSUME NEW c, NEW ref, NEW o, StoreReply(c, ref, o) PROVE userChannels' = userChannels
  BY <1>7 DEF StoreReply, channelTables
<1>8. ASSUME NEW p, NEW o, RegisterUser(p, o) \/ LoginUser(p, o) \/ EditMessage(o) PROVE userChannels' = userChannels
  BY <1>8 DEF RegisterUser, LoginUser, EditMessage, channelTables
<1>9. CASE Restart \/ UNCHANGED vars
  BY <1>9 DEF Restart, vars, channelTables
<1> QED
  BY <1>1, <1>2, <1>3, <1>4, <1>5, <1>6, <1>7, <1>8, <1>9, CreateChannelAsks, SubscribeAsks,
     AddDirectChatAsks, NextRInv DEF Next, Requested

LEMMA StoreMessageTells ==
  ASSUME NEW c, NEW content, NEW o \in Outages(4), StoreMessage(c, content, o) PROVE SuccessTells'
<1> DEFINE id == serials.msg + 1
<1>1. /\ last'.op = "storeMessage" /\ last'.channel = c /\ last'.msg = id
      /\ last'.code = "SUCCESS" => c \in DOMAIN channels /\ Answered(o, 4) /\ Fits(content)
      /\ last'.code \in {"SUCCESS", "FAILED"}
  BY DEF StoreMessage, Answer
<1>2. Answered(o, 4) => Applied(o, 1) /\ Applied(o, 2) /\ Applied(o, 3) /\ Applied(o, 4)
  BY Statements
<1>3. ASSUME last'.code = "SUCCESS" PROVE id \in msgs' /\ <<c, id>> \in channelMsgs' /\ id \in contents'
  BY <1>1, <1>2, <1>3 DEF StoreMessage, Fits
<1>4. ASSUME last'.code = "SUCCESS" PROVE id \in DOMAIN msgReactions'
  <2> DEFINE blank == [r \in Reactions |-> <<>>]
  <2>1. msgReactions' = With(msgReactions, id, blank)
    BY <1>1, <1>2, <1>4 DEF StoreMessage
  <2>2. DOMAIN With(msgReactions, id, blank) = DOMAIN msgReactions \cup {id}
    BY WithRow
  <2> HIDE DEF blank
  <2> QED
    BY <2>1, <2>2
<1> HIDE DEF id
<1> QED
  BY <1>1, <1>3, <1>4 DEF SuccessTells, HistoryRows

LEMMA StoreReplyTells ==
  ASSUME NEW c, NEW ref, NEW o \in Outages(3), StoreReply(c, ref, o) PROVE SuccessTells'
<1>1. PICK reply : reply = [owner |-> LastMessage, ref |-> ref]
  OBVIOUS
<1>2. /\ last'.op = "storeReply" /\ last'.channel = c
      /\ last'.code \in {"SUCCESS", "FAILED", "throws"}
      /\ last'.code = "SUCCESS" =>
           /\ last'.reply = reply /\ Answered(o, 1) /\ msgs # {} /\ Answered(o, 3)
           /\ c \in DOMAIN channels /\ ref \in msgs
  BY <1>1 DEF StoreReply, Answer
<1>3. Answered(o, 3) => Applied(o, 2) /\ Applied(o, 3)
  BY Statements
<1>4. ASSUME last'.code = "SUCCESS" PROVE reply \in replies' /\ <<c, reply.owner>> \in channelReplies'
  BY <1>1, <1>2, <1>3, <1>4 DEF StoreReply
<1> QED
  BY <1>2, <1>4 DEF SuccessTells, ReplyHistory

LEMMA DeleteMessageTells ==
  ASSUME NEW m, NEW o \in Outages(2), DeleteMessage(m, o) PROVE SuccessTells'
<1>1. /\ last'.op = "deleteMessage" /\ last'.msg = m /\ last'.code \in {"SUCCESS", "throws"}
      /\ last'.code = "SUCCESS" => Answered(o, 2)
  BY DEF DeleteMessage, Answer
<1>2. Answered(o, 2) => Applied(o, 1)
  BY Statements
<1>3. ASSUME last'.code = "SUCCESS" PROVE m \notin msgs' \cup contents' \cup {r.owner : r \in replies'}
  <2>1. /\ msgs' = msgs \ {m} /\ contents' = contents \ {m}
        /\ replies' = {r \in replies : {r.owner, r.ref} \cap {m} = {}}
    BY <1>1, <1>2, <1>3 DEF DeleteMessage
  <2> QED
    BY <2>1
<1> QED
  BY <1>1, <1>3 DEF SuccessTells

LEMMA CreateChannelTells ==
  ASSUME NEW u, NEW name, NEW o \in Outages(4), CreateChannel(u, name, o) PROVE SuccessTells'
<1> DEFINE row == [name |-> name, creator |-> u, limit |-> 1000000, pair |-> {}]
           id == serials.channel + 1
<1>1. /\ last'.op = "createChannel" /\ last'.name = name /\ last'.user = u
      /\ last'.code \in {"SUCCESS", "CHANNEL_ALREADY_CREATED", "throws"}
      /\ last'.code = "SUCCESS" => channels' = With(channels, id, row)
      /\ row.name = name /\ row.creator = u
  BY SMTT(30) DEF CreateChannel, Answer
<1>2. last'.code = "SUCCESS" /\ connected' => <<u, id>> \in userChannels'
  <2>1. connected' => Applied(o, 4)
    <3>1. connected' = (o.at = Never)
      BY SMTT(30) DEF CreateChannel, Answer
    <3>2. connected' => o.at = Never
      BY <3>1
    <3> QED
      BY ONLY <3>2 DEF Applied, Never
  <2> QED
    BY <2>1, SMTT(30) DEF CreateChannel, Answer
<1> HIDE DEF row, id
<1>3. ASSUME last'.code = "SUCCESS" PROVE id \in NamedChannels(name)' /\ channels'[id].creator = u
  BY <1>1, <1>3 DEF NamedChannels, With
<1>4. NamedChannels(last.name)' = NamedChannels(name)'
  BY <1>1 DEF NamedChannels
<1> QED
  BY <1>1, <1>2, <1>3, <1>4 DEF SuccessTells

\* A call whose connection is not lost has all its statements done.
LEMMA Connected ==
  ASSUME NEW o, NEW answer, Answer(o, answer), connected', NEW i \in 0..4
  PROVE  Answered(o, i) /\ Applied(o, i)
<1>1. o.at = Never
  BY DEF Answer
<1> QED
  BY ONLY <1>1, i \in 0..4 DEF Answered, Applied, Never

LEMMA RegisterUserTells ==
  ASSUME RInv, NEW p, NEW o, RegisterUser(p, o) PROVE SuccessTells'
<1> DEFINE id == Cardinality(DOMAIN users) + 1
<1>1. /\ last'.op = "registerUser" /\ last'.person = p
      /\ last'.code = "SUCCESS" /\ Applied(o, 3) /\ p.emailFits => users' = With(users, id, p)
      /\ last'.code # "returns"
  BY DEF RegisterUser, Answer
<1>2. connected' => Applied(o, 3)
  BY Connected DEF RegisterUser
<1> HIDE DEF id
<1>3. ASSUME last'.code = "SUCCESS", connected', p.emailFits PROVE \E u \in DOMAIN users' : users'[u] = p
  <2>1. users' = With(users, id, p)
    BY <1>1, <1>2, <1>3
  <2>2. id \in DOMAIN users' /\ users'[id] = p
    BY ONLY <2>1 DEF With
  <2> QED
    BY <2>2
<1> QED
  BY <1>1, <1>3 DEF SuccessTells

LEMMA LeaveChannelTells == ASSUME NEW u, NEW name, NEW o, LeaveChannel(u, name, o) PROVE SuccessTells'
<1> DEFINE mine == {<<u, c>> : c \in NamedChannels(name)} \cap userChannels
<1>1. /\ last'.op = "leaveChannel" /\ last'.user = u /\ last'.name = name
      /\ last'.code = "SUCCESS" /\ Applied(o, 3) => userChannels' = userChannels \ mine
      /\ last'.code # "returns" /\ channels' = channels
  BY DEF LeaveChannel, Answer
<1>2. connected' => Applied(o, 3)
  BY Connected DEF LeaveChannel
<1>3. \A c \in NamedChannels(name) : <<u, c>> \notin userChannels \ mine
  OBVIOUS
<1>4. NamedChannels(last.name)' = NamedChannels(name)
  BY <1>1 DEF NamedChannels
<1> HIDE DEF mine
<1> QED
  BY <1>1, <1>2, <1>3, <1>4 DEF SuccessTells

LEMMA DeleteChannelTells == ASSUME NEW u, NEW name, NEW o, DeleteChannel(u, name, o) PROVE SuccessTells'
<1> DEFINE ids == NamedChannels(name)
<1>1. /\ last'.op = "deleteChannel" /\ last'.name = name /\ last'.code # "returns"
      /\ last'.code = "SUCCESS" /\ Applied(o, 2) =>
           channels' = Without(channels, IF Deletable(ids) THEN ids ELSE {})
      /\ userChannels' = userChannels
  BY DEF DeleteChannel, Answer
<1>2. connected' => Applied(o, 2)
  BY Connected DEF DeleteChannel
<1>3. ASSUME last'.code = "SUCCESS", connected', NamedChannels(name)' # {}
      PROVE  \E s \in userChannels' : s[2] \in NamedChannels(name)'
  <2>1. CASE Deletable(ids)
    <3>1. channels' = Without(channels, ids)
      BY <1>1, <1>2, <1>3, <2>1
    <3> QED
      BY <1>3, <3>1 DEF NamedChannels, Without
  <2>2. CASE ~Deletable(ids)
    <3>1. channels' = Without(channels, {})
      BY <1>1, <1>2, <1>3, <2>2
    <3>2. NamedChannels(name)' = ids
      BY <3>1 DEF NamedChannels, Without
    <3> QED
      BY <1>1, <2>2, <3>2 DEF Deletable
  <2> QED
    BY <2>1, <2>2
<1>4. NamedChannels(last.name)' = NamedChannels(name)'
  BY <1>1 DEF NamedChannels
<1> HIDE DEF ids
<1> QED
  BY <1>1, <1>3, <1>4 DEF SuccessTells

LEMMA SubscribeTells == ASSUME NEW u, NEW c, NEW o, SubscribeToChannel(u, c, o) PROVE SuccessTells'
<1>1. /\ last'.op = "subscribeToChannel" /\ last'.user = u /\ last'.channel = c
      /\ last'.code = "SUCCESS" /\ Applied(o, 2) /\ c \in DOMAIN channels => <<u, c>> \in userChannels'
      /\ last'.code # "returns" /\ channels' = channels
  BY DEF SubscribeToChannel, Answer
<1>2. connected' => Applied(o, 2)
  BY Connected DEF SubscribeToChannel
<1> QED
  BY <1>1, <1>2 DEF SuccessTells

\* An answered toggle has changed whether the user is in the array.
LEMMA ReactionTells ==
  ASSUME RInv, NEW u \in DOMAIN users, NEW m, NEW r, NEW k \in {0, 2}, NEW o \in Outages(k),
         UpdateMessageReactions(u, m, r, o)
  PROVE  ReactionTold
<1>1. /\ last'.user = u /\ last'.msg = m /\ last'.reaction = r
      /\ last'.code = "SUCCESS" => r \in Reactions /\ Answered(o, 2)
  BY DEF UpdateMessageReactions, Answer
<1>2. SUFFICES ASSUME r \in Reactions, Answered(o, 2), m \in DOMAIN msgReactions
               PROVE  (u \in ToSet(msgReactions'[m][r])) # (u \in ToSet(msgReactions[m][r]))
  BY <1>1 DEF ReactionTold
<1>3. Applied(o, 2)
  BY <1>2, Statements
<1>4. PICK list : list = msgReactions[m][r]
  OBVIOUS
<1>5. PICK new : new = Toggled(list, u, u \in ToSet(list))
  OBVIOUS
<1>6. list \in Seq(Nat) /\ msgReactions[m] \in [Reactions -> Seq(Nat)]
  BY <1>2, <1>4 DEF RInv, Lists
<1>7. msgReactions'[m][r] = new
  <2>1. msgReactions' = [msgReactions EXCEPT ![m][r] = new]
    BY <1>2, <1>3, <1>4, <1>5, ReactionUpdated
  <2> QED
    BY ONLY <1>2, <1>6, <2>1
<1>8. CASE u \in ToSet(list)
  <2>1. PICK S : S = ToSet(list) \ {u}
    OBVIOUS
  <2>2. new \in Seq(S)
    <3>1. new = Only(list, S)
      BY <1>5, <1>8, <2>1 DEF Toggled
    <3> QED
      BY ONLY <1>6, <2>1, <3>1, OnlyType
  <2>3. u \notin ToSet(new)
    BY ONLY <2>1, <2>2 DEF ToSet
  <2> QED
    BY <1>4, <1>7, <1>8, <2>3
<1>9. CASE u \notin ToSet(list)
  <2>1. new = Append(list, u)
    BY <1>5, <1>9 DEF Toggled
  <2>2. Len(list) + 1 \in DOMAIN new /\ new[Len(list) + 1] = u
    <3>1. u \in Nat
      BY UserIds DEF RInv
    <3> QED
      BY ONLY <1>6, <2>1, <3>1
  <2>3. u \in ToSet(new)
    BY <2>2 DEF ToSet
  <2> QED
    BY <1>4, <1>7, <1>9, <2>3
<1> QED
  BY <1>8, <1>9

LEMMA AddDirectChatTells ==
  ASSUME RInv, NEW u \in DOMAIN users, NEW v \in DOMAIN users, NEW o \in Outages(3),
         AddDirectChat(u, v, o)
  PROVE  SuccessTells'
<1>1. PICK id, row : ChatOf(u, v, o, id, row)
  BY DirectChat
<1>2. Answered(o, 3) => Answered(o, 2) /\ Applied(o, 3)
  BY Statements
<1>3. last'.code = "SUCCESS" => \A w \in last'.users : <<w, last'.chat>> \in userChannels'
  BY <1>1, <1>2 DEF ChatOf
<1>4. last'.op = "addDirectChat" /\ last'.code \in {"SUCCESS", "throws"}
  BY <1>1 DEF ChatOf
<1> QED
  BY <1>3, <1>4 DEF SuccessTells

LEMMA LoginUserTells == ASSUME NEW p, NEW o, LoginUser(p, o) PROVE SuccessTells'
<1>1. /\ last'.op = "loginUser" /\ last'.person = p /\ last'.code = "returns" /\ users' = users
      /\ last'.user # 0 => users[last'.user] = p
  BY DEF LoginUser, Answer
<1> QED
  BY <1>1 DEF SuccessTells

LEMMA TellsStep == ASSUME RInv, Next PROVE SuccessTells' /\ ReactionTold
<1>1. CASE last'.op = "none"
  BY <1>1 DEF SuccessTells, ReactionTold
<1>2. CASE last'.op = "editMessage"
  BY <1>2 DEF SuccessTells, ReactionTold
<1>3. last'.op = "updateMessageReactions" => SuccessTells'
  BY DEF SuccessTells
<1>4. last'.op # "updateMessageReactions" => ReactionTold
  BY DEF ReactionTold
<1>5. CASE Restart
  BY <1>1, <1>5 DEF Restart
<1>6. ASSUME NEW o, EditMessage(o) PROVE last'.op = "editMessage"
  BY <1>6 DEF EditMessage, Answer
<1>7. ASSUME NEW u \in DOMAIN users, NEW m, NEW r, NEW o \in Outages(IF r \in Reactions THEN 2 ELSE 0),
             UpdateMessageReactions(u, m, r, o)
      PROVE  last'.op = "updateMessageReactions" /\ ReactionTold
  <2>1. last'.op = "updateMessageReactions"
    BY <1>7 DEF UpdateMessageReactions, Answer
  <2> QED
    BY <1>7, <2>1, ReactionTells
<1>8. CASE Requested
  <2>1. CASE last'.op = "updateMessageReactions"
    <3>1. ReactionTold
      <4>1. ASSUME NEW p, NEW o, RegisterUser(p, o) \/ LoginUser(p, o) PROVE FALSE
        BY <2>1, <4>1 DEF RegisterUser, LoginUser, Answer
      <4>2. ASSUME NEW u, NEW name, NEW o, \/ CreateChannel(u, name, o) \/ LeaveChannel(u, name, o)
                                         \/ DeleteChannel(u, name, o)
            PROVE  FALSE
        <5>1. CreateChannel(u, name, o) => last'.op = "createChannel"
          BY SMTT(30) DEF CreateChannel, Answer
        <5> QED
          BY <2>1, <4>2, <5>1 DEF LeaveChannel, DeleteChannel, Answer
      <4>3. ASSUME NEW u, NEW v, NEW o, AddDirectChat(u, v, o) \/ SubscribeToChannel(u, v, o) PROVE FALSE
        BY <2>1, <4>3 DEF AddDirectChat, SubscribeToChannel, Answer
      <4>4. ASSUME NEW m, NEW content, NEW o, \/ DeleteMessage(m, o) \/ StoreMessage(m, content, o)
                                             \/ StoreReply(m, content, o) \/ EditMessage(o)
            PROVE  FALSE
        BY <2>1, <4>4 DEF DeleteMessage, StoreMessage, StoreReply, EditMessage, Answer
      <4> QED
        BY <1>7, <1>8, <4>1, <4>2, <4>3, <4>4 DEF Requested
    <3> QED
      BY <1>3, <2>1, <3>1
  <2>2. CASE last'.op # "updateMessageReactions"
    <3>1. SuccessTells'
      BY <1>2, <1>6, <1>7, <1>8, <2>2, RegisterUserTells, LoginUserTells, CreateChannelTells,
         LeaveChannelTells, DeleteChannelTells, AddDirectChatTells, SubscribeTells, DeleteMessageTells,
         StoreMessageTells, StoreReplyTells DEF Requested
    <3> QED
      BY <1>4, <2>2, <3>1
  <2> QED
    BY <2>1, <2>2
<1> QED
  BY <1>5, <1>8 DEF Next

\* An answer that says SUCCESS tells the truth of the tables, for each method
\* as much as SuccessTells and ReactionTold say: a registration, a leave, a
\* delete, a subscription and the membership of a creator only if the connection
\* is not lost in the call, a registration only if its email fits, and of a
\* channel that is deleted that it is gone or has subscribers.
THEOREM AnswersTellTheTruth == Spec => SuccessIsTrue
<1>1. RInv /\ [Next]_vars => [SuccessTells' /\ ReactionTold]_vars
  BY TellsStep
<1> QED
  BY InitRInv, NextRInv, <1>1, PTL DEF Spec, SuccessIsTrue

\* As long as the chats of different pairs have different names and none is the
\* name of a channel, nobody becomes a member by the request of another user,
\* other than of the chat that was created for the two.
THEOREM NobodyIsJoined == Spec /\ []NamesDiffer => JoinsAreAsked
<1> DEFINE Asked == \A s \in userChannels' \ userChannels :
             \/ last'.op \in {"createChannel", "subscribeToChannel"} /\ s[1] = last'.user
             \/ last'.op = "addDirectChat" /\ s[1] \in last'.users /\ channels'[s[2]].pair = last'.users
<1>1. RInv /\ NamesDiffer /\ [Next]_vars => [Asked]_vars
  BY JoinsStep DEF JoinAsked
<1> QED
  BY InitRInv, NextRInv, <1>1, PTL DEF Spec, JoinsAreAsked
=============================================================================
