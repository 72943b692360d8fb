---------------------------- MODULE ChatHistory ----------------------------
(***************************************************************************)
(* One chat of the Qt client: the ChatWidget asks the server once a second *)
(* for the messages and for the replies of its channel, and hands what it  *)
(* gets to a ChatHistory, which keeps a widget for each message and reply  *)
(* on a surface that a ScrollArea shows a part of.                         *)
(*                                                                         *)
(* The widgets are laid out from the bottom of the surface up, each reply  *)
(* above the message it belongs to.  Heights and positions are integers in *)
(* a small unit; the width of the window does not change, so the height of *)
(* a message changes when it is deleted and not otherwise.                 *)
(***************************************************************************)
EXTENDS Integers, SequencesExt

CONSTANTS Ids,            \* ids the server gives to messages
          SentAt,         \* what the clock of its sender shows when each is sent
          MaxRows,        \* bound: reactions and replies of the channel
          Viewports,      \* heights the widget is given
          MessageHeight,  \* height of a message,
          DeletedHeight,  \*     of one that is deleted,
          ReplyHeight,    \*     of a reply
          Gap,            \* space between two widgets
          Step,           \* the user scrolls to a multiple of this, or to the end
          MaxRequested,       \* bound: requests that wait for their answers
          MaxDeleted      \* bound: messages that are shown as deleted

ASSUME HistoryAssumption ==
    /\ Ids \subseteq Nat /\ SentAt \in [Ids -> Nat]
    /\ Viewports \subseteq Nat \ {0} /\ Viewports # {}
    /\ {MessageHeight, DeletedHeight, ReplyHeight} \subseteq Nat \ {0}
    /\ DeletedHeight < MessageHeight
    /\ Step \in Nat \ {0} /\ {Gap, MaxRequested, MaxRows, MaxDeleted} \subseteq Nat

VARIABLES stored,  \* the server's tables: the messages of the channel, id -> [time,
                   \* reactions], of other channels, the replies, and the last id
          requested,   \* requests sent and not yet answered, in order
          chat     \* the ChatHistory

historyVars == <<stored, requested, chat>>

Nothing == [n \in {} |-> 0]
With(f, key, value) == [k \in DOMAIN f \cup {key} |-> IF k = key THEN value ELSE f[k]]

\* _messages, _messageList, _replies, _replyList and _left; the heights of the
\* surface, and the position and the height of what is shown of it.
Empty(viewport) ==
    [messages |-> {}, list |-> <<>>, replies |-> {}, replyList |-> Nothing, left |-> 0 - 1,
     minimum |-> 0, surface |-> viewport, top |-> 0, height |-> viewport, undefined |-> FALSE]

HistoryInit == /\ stored = [messages |-> Nothing, elsewhere |-> {}, replies |-> {}, last |-> 0]
               /\ requested = <<>>
               /\ chat \in {Empty(v) : v \in Viewports}

------------------------------------------------------------------------------
(* Where things are.                                                       *)

Size(h) == Len(h.list)
\* Indexes count from 0, as in the code.
At(h, i) == h.list[i + 1]
HasReply(h, i) == At(h, i).id \in DOMAIN h.replyList
\* A message begins with its reply, if it has one.
Upper(h, i) == IF HasReply(h, i) THEN h.replyList[At(h, i).id].y ELSE At(h, i).y
UpperEnd(h, i) == IF HasReply(h, i) THEN h.replyList[At(h, i).id].y + ReplyHeight
                                    ELSE At(h, i).y + At(h, i).height

\* setMinimumHeight: the surface grows at once, and shrinks when Qt gets to it.
Grown(h, diff) == [h EXCEPT !.minimum = @ + diff,
                            !.surface = Max({@, h.minimum + diff})]

\* updateLayout places the widgets from the last message up.  The replies are
\* taken by falling id, each when its message is met: one that is not met, or
\* is met too early, holds up those behind it.
LargestId(ids) == IF ids = {} THEN {} ELSE {Max(ids)}
Above(message, at) ==
    IF message.id \in LargestId(at.waiting)
    THEN [bottom |-> at.bottom - message.height - Gap - ReplyHeight - Gap,
          waiting |-> at.waiting \ {message.id}]
    ELSE [at EXCEPT !.bottom = @ - message.height - Gap]

\* The room that is left, and the replies that wait, below and at message i:
\* what the loop has when it comes to i.
Below(h) ==
    LET met[n \in 0 .. Size(h)] ==
            IF n = 0 THEN [bottom |-> h.surface, waiting |-> DOMAIN h.replyList]
                     ELSE Above(At(h, Size(h) - n), met[n - 1])
    IN  [i \in DOMAIN h.list |-> met[Size(h) - i]]
Placed(h) ==
    LET at == Below(h)
        y(i) == at[i].bottom - h.list[i].height
        replies == {i \in DOMAIN h.list : h.list[i].id \in LargestId(at[i].waiting)}
        replyOf(id) == {i \in replies : h.list[i].id = id}
        reply(id) == IF replyOf(id) = {} THEN h.replyList[id]
                     ELSE [y |-> y(Max(replyOf(id))) - Gap - ReplyHeight]
    IN  [h EXCEPT !.list = [i \in DOMAIN h.list |-> [h.list[i] EXCEPT !.y = y(i)]],
                  !.replyList = [id \in DOMAIN h.replyList |-> reply(id)]]

------------------------------------------------------------------------------
(* findVisible: a binary search for a message that is seen, then all those *)
(* before and behind it.                                                   *)

Bottom(h) == h.top + h.height
\* The search halves the range, and looks at the message half its width from
\* the first one.
Narrowed(h, range) ==
    LET probe == Upper(h, (range.right - range.left) \div 2)
        middle == (range.right + range.left) \div 2
    IN  IF probe \in h.top .. Bottom(h) \/ range.right - range.left <= 1 THEN range
        ELSE IF probe < h.top THEN [range EXCEPT !.left = middle]
                              ELSE [range EXCEPT !.right = middle]
\* The range gets smaller with each pass, so that there are not more of them
\* than there are messages.
Halved(h) ==
    LET pass[n \in 0 .. Size(h)] ==
            IF n = 0 THEN [left |-> 0, right |-> Size(h)] ELSE Narrowed(h, pass[n - 1])
    IN  pass[Size(h)]
Middle(h) == LET range == Halved(h) IN (range.right + range.left) \div 2

\* Both loops move on once more after the first message that is out of sight.
Behind_Last(h, m) == Min({Size(h) - 1} \cup {i \in m .. Size(h) - 1 : Upper(h, i) >= Bottom(h)}) - 1
Behind(h, m) ==
    IF Upper(h, m) >= Bottom(h) THEN m
    ELSE Min({Size(h) - 1} \cup {i + 1 : i \in {j \in m + 1 .. Size(h) - 2 : Upper(h, j) >= Bottom(h)}})
Ahead(h, m) ==
    IF UpperEnd(h, m) <= h.top THEN m
    ELSE Max({0} \cup {i - 1 : i \in {j \in 1 .. m - 1 : UpperEnd(h, j) <= h.top}})
FindVisible(h) == LET middle == Middle(h)
                  IN  [left |-> Ahead(h, middle), right |-> Behind(h, middle)]

------------------------------------------------------------------------------
(* Scrolling and the layout, which call each other.                        *)

TopMax(h) == Max({h.surface, h.height}) - h.height
Clamped(h, y) == Max({0, Min({y, TopMax(h)})})

\* resizeVisible: no width differs, so no widget is resized.
ResizeVisible_NoEnd(h) ==
    IF h.list = <<>> THEN [h EXCEPT !.left = 0 - 1]
    ELSE Placed([h EXCEPT !.left = FindVisible(h).left + 1])
ResizeVisible(h) ==
    IF h.list = <<>> THEN [h EXCEPT !.left = 0 - 1]
    ELSE LET left == FindVisible(h).left
         IN  Placed(IF left + 1 < Size(h) THEN [h EXCEPT !.left = left + 1] ELSE h)

\* A value that is set and differs is scrolled to, and ChatHistory is told.
ScrolledTo(h, y) ==
    IF Clamped(h, y) = h.top THEN h ELSE ResizeVisible([h EXCEPT !.top = Clamped(h, y)])

\* scrollToY(top, bottom): not further than until both are seen.
ScrolledToShow(h, from, to) ==
    LET toTop == Clamped(h, from)
        toBottom == Max({to, toTop})
    IN  IF toTop < h.top THEN ScrolledTo(h, toTop)
        ELSE IF toBottom <= Bottom(h) THEN h
        ELSE ScrolledTo(h, Min({toBottom - h.height, toTop}))

\* updateLayout(true), after a message has been resized: what was seen stays
\* where it was, or the last message is scrolled to if it was in sight.
LayoutAfterResize(h) ==
    LET laid == Placed(h)
        diff == h.top - Upper(h, h.left)
        anchor == Upper(laid, h.left) + diff
        last == At(laid, Size(h) - 1)
        haveLast == /\ FindVisible(laid).right = Size(h) - 1
                    /\ last.y <= anchor + h.height
    IN  IF h.left < 0 THEN laid
        ELSE IF haveLast THEN ScrolledTo(laid, last.y)
        ELSE [laid EXCEPT !.top = Clamped(laid, anchor)]

------------------------------------------------------------------------------
(* ChatHistory::addMessage, addReply and MessageWidget::onDelete.          *)

\* push_back, and a sort by time: as many as sixteen widgets are sorted by
\* insertion, which keeps the order of equal ones.
Inserted(list, message) ==
    InsertAt(list, Min({i \in DOMAIN list : list[i].time > message.time} \cup {Len(list) + 1}),
             message)

IndexOf(h, id) == CHOOSE i \in DOMAIN h.list : h.list[i].id = id

\* The message has come before with other reactions: its widget goes.
Forgotten_KeepsInfo(h, info) ==
    Grown([h EXCEPT !.list = RemoveAt(@, IndexOf(h, info.id))],
          0 - h.list[IndexOf(h, info.id)].height - Gap)
Forgotten(h, info) ==
    Grown([h EXCEPT !.messages = {m \in @ : m.id # info.id},
                    !.list = RemoveAt(@, IndexOf(h, info.id))],
          0 - h.list[IndexOf(h, info.id)].height - Gap)

Shown(h, info) ==
    LET message == [id |-> info.id, time |-> info.time, y |-> 0, height |-> MessageHeight,
                    deleted |-> FALSE]
        laid == Placed([Grown(h, MessageHeight + Gap) EXCEPT
                            !.list = Inserted(@, message), !.messages = @ \cup {info}])
        widget == laid.list[IndexOf(laid, info.id)]
    IN  ScrolledToShow(laid, widget.y, widget.y + widget.height)

\* operator== of MessageInfo compares the id, and not what can be edited.
AddMessage(info, h) ==
    IF \A m \in h.messages : m.id # info.id THEN Shown(h, info)
    ELSE IF info \in h.messages THEN h
    ELSE Shown(Forgotten(h, info), info)

\* A second reply with one owner is not inserted: its widget is destroyed, and
\* used after that.
AddReply_NoRoom(reply, h) ==
    IF reply \in h.replies THEN h
    ELSE Placed([h EXCEPT !.replies = @ \cup {reply},
                          !.replyList = With(@, reply.owner, [y |-> 0])])
AddReply(reply, h) ==
    IF reply \in h.replies \/ h.undefined THEN h
    ELSE IF reply.owner \in DOMAIN h.replyList THEN [h EXCEPT !.undefined = TRUE]
    ELSE Placed([Grown(h, ReplyHeight + Gap) EXCEPT
                     !.replies = @ \cup {reply},
                     !.replyList = With(@, reply.owner, [y |-> 0])])

\* onDelete shrinks the widget, and the surface with it.
Deleted(h, i) ==
    LayoutAfterResize(Grown(
        [h EXCEPT !.list[i] = [h.list[i] EXCEPT !.deleted = TRUE, !.height = DeletedHeight]],
        DeletedHeight - MessageHeight))

------------------------------------------------------------------------------
(* The server, as a chat sees it: any client stores; a history is the rows *)
(* that are there when it is asked for, in the order the table gives them. *)

StoreMessage ==
    /\ stored.last + 1 \in Ids
    /\ stored' = [stored EXCEPT !.last = @ + 1,
           !.messages = With(@, stored.last + 1, [time |-> SentAt[stored.last + 1], reactions |-> 0])]
    /\ UNCHANGED <<requested, chat>>
StoreElsewhere ==
    /\ stored.last + 1 \in Ids
    /\ stored' = [stored EXCEPT !.last = @ + 1, !.elsewhere = @ \cup {stored.last + 1}]
    /\ UNCHANGED <<requested, chat>>

Rows == Cardinality(stored.replies) + FoldFunction(LAMBDA m, n : m.reactions + n, 0, stored.messages)

\* A reply belongs to the message stored last in any channel, MAX(msg_id), and
\* refers to a message of this one, which may be the same.
StoreReply(ref) ==
    LET owner == Max(DOMAIN stored.messages \cup stored.elsewhere)
    IN  /\ ref \in DOMAIN stored.messages
        /\ Rows < MaxRows
        /\ stored' = [stored EXCEPT !.replies = @ \cup {[owner |-> owner, ref |-> ref]}]
        /\ UNCHANGED <<requested, chat>>

React(id) ==
    /\ id \in DOMAIN stored.messages
    /\ Rows < MaxRows
    /\ stored' = [stored EXCEPT !.messages[id].reactions = @ + 1]
    /\ UNCHANGED <<requested, chat>>

MessageRows == {[id |-> n, time |-> stored.messages[n].time,
                 reactions |-> stored.messages[n].reactions] : n \in DOMAIN stored.messages}

------------------------------------------------------------------------------
(* The ChatWidget.                                                         *)

\* requestMessages, once a second while the client is connected.
RequestHistory ==
    /\ Len(requested) + 2 <= MaxRequested
    /\ requested' = requested \o <<[request |-> "messages"], [request |-> "replies"]>>
    /\ UNCHANGED <<stored, chat>>

\* addMessages and addReplies go through the answer.
MessagesAdded(answer, h) ==
    LET added[n \in 0 .. Len(answer)] == IF n = 0 THEN h ELSE AddMessage(answer[n], added[n - 1])
    IN  added[Len(answer)]
RepliesAdded(answer, h) ==
    LET added[n \in 0 .. Len(answer)] == IF n = 0 THEN h ELSE AddReply(answer[n], added[n - 1])
    IN  added[Len(answer)]

\* The answers come in the order of the requests.
TakeMessages ==
    /\ requested # <<>> /\ Head(requested).request = "messages" /\ ~chat.undefined
    /\ requested' = Tail(requested)
    /\ \E answer \in SetToSeqs(MessageRows) : chat' = MessagesAdded(answer, chat)
    /\ UNCHANGED stored
TakeReplies ==
    /\ requested # <<>> /\ Head(requested).request = "replies" /\ ~chat.undefined
    /\ requested' = Tail(requested)
    /\ \E answer \in SetToSeqs(stored.replies) : chat' = RepliesAdded(answer, chat)
    /\ UNCHANGED stored

------------------------------------------------------------------------------
(* The user, and Qt.                                                       *)

\* onDelete asks the server to delete the message, too; the rows that refer to
\* it go with it.
Delete(i) ==
    /\ i \in DOMAIN chat.list /\ ~chat.list[i].deleted
    /\ Cardinality({j \in DOMAIN chat.list : chat.list[j].deleted}) < MaxDeleted
    /\ Len(requested) < MaxRequested
    /\ chat' = Deleted(chat, i)
    /\ requested' = Append(requested, [request |-> "delete", id |-> chat.list[i].id])
    /\ UNCHANGED stored
DeleteStored ==
    /\ requested # <<>> /\ Head(requested).request = "delete"
    /\ requested' = Tail(requested)
    /\ LET id == Head(requested).id
       IN  stored' = [stored EXCEPT !.messages = Restrict(@, DOMAIN @ \ {id}),
                                    !.replies = {r \in @ : id \notin {r.owner, r.ref}}]
    /\ UNCHANGED chat

Scroll(y) ==
    /\ y = Clamped(chat, y) /\ y # chat.top
    /\ y % Step = 0 \/ Clamped(chat, y + 1) = y
    /\ chat' = ScrolledTo(chat, y)
    /\ UNCHANGED <<stored, requested>>

\* The layout request posted by setMinimumHeight: the surface takes the height
\* it needs, and a position behind its end is given up.
Settled(h) == [h EXCEPT !.surface = Max({h.height, h.minimum})]
Settle ==
    /\ Settled(chat) # chat
    /\ chat' = ScrolledTo(Settled(chat), chat.top)
    /\ UNCHANGED <<stored, requested>>

\* resizeEvent, for another height.
Resize(v) ==
    /\ v # chat.height
    /\ LET h == Settled([chat EXCEPT !.height = v])
       IN  chat' = Placed(ScrolledTo(h, h.top))
    /\ UNCHANGED <<stored, requested>>

HistoryNext == \/ StoreMessage \/ StoreElsewhere \/ \E ref \in Ids : StoreReply(ref)
               \/ \E id \in Ids : React(id)
               \/ RequestHistory \/ TakeMessages \/ TakeReplies
               \/ (\E i \in DOMAIN chat.list : Delete(i)) \/ DeleteStored
               \/ \E y \in 0 .. chat.surface : Scroll(y)
               \/ Settle \/ \E v \in Viewports : Resize(v)

HistorySpec == HistoryInit /\ [][HistoryNext]_historyVars

------------------------------------------------------------------------------

\* addMessage: each message that has come has one widget, in the order of the
\* times, however often it comes again, in whatever order and with whatever
\* reactions; so the widget of a copy is always found.
OneWidgetEach ==
    /\ {m.id : m \in chat.messages} = {chat.list[i].id : i \in DOMAIN chat.list}
    /\ Cardinality(chat.messages) = Len(chat.list)
    /\ \A i, j \in DOMAIN chat.list : i < j =>
        chat.list[i].id # chat.list[j].id /\ chat.list[i].time <= chat.list[j].time

\* _left is an index of _messageList, at which updateLayout looks without a
\* test, whatever has been added, deleted, resized and scrolled to.
LeftIsAnIndex == chat.left < Len(chat.list)

\* The surface is as high as what is on it: no message and no reply that has
\* a place is above its top, and no message covers another.
NothingCutOff ==
    /\ \A i \in DOMAIN chat.list : chat.list[i].y >= 0
    /\ \A i \in DOMAIN chat.list : i > 1 =>
        chat.list[i].y >= chat.list[i - 1].y + chat.list[i - 1].height + Gap
    /\ \A id \in DOMAIN chat.replyList : chat.replyList[id].y >= 0

\* findVisible: every message of which something is shown is between the two
\* it returns, wherever its search ends, if each reply is above its message.
InSight(h, i) == At(h, i).y < Bottom(h) /\ At(h, i).y + At(h, i).height > h.top
AllFound(h) == LET seen == FindVisible(h)
            IN  \A i \in 0 .. Size(h) - 1 : InSight(h, i) => i \in seen.left .. seen.right
RepliesInPlace(h) ==
    \A i \in 0 .. Size(h) - 1 : HasReply(h, i) =>
        h.replyList[At(h, i).id].y = At(h, i).y - Gap - ReplyHeight
VisibleFoundInPlace ==
    (chat.list # <<>> /\ RepliesInPlace(chat)) => AllFound(chat)

==============================================================================
