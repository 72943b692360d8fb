----------------------------- MODULE ChatPage -----------------------------
(***************************************************************************)
(* The page of the Qt client with the chats of the user: a list of his     *)
(* channels, a stack of ChatWidgets of which one is shown, and a window    *)
(* that lists the other channels of the server.                            *)
(*                                                                         *)
(* A chat is found by the row that its channel has in the list; a channel  *)
(* is known by its name, which is unique, and so by its id.  The pages ask *)
(* over one connection; the answers come back as signals, in the order of  *)
(* the requests, and every ChatWidget gets every history.                  *)
(***************************************************************************)
EXTENDS Integers, SequencesExt

CONSTANTS MaxChannels,   \* bound: channels on the server
          MaxAsked,      \* bound: requests and signals on their way
          SecondDevice   \* is the user logged in a second time?

ASSUME PageAssumption ==
    MaxChannels \in Nat /\ MaxAsked \in Nat /\ SecondDevice \in BOOLEAN

VARIABLES created,     \* the server has the channels 1 .. created,
          subscribed,  \*     of which the user has these
          database,    \*     and its database answers
          asked,       \* requests sent and not yet answered, in order
          signals,     \* signals emitted and not yet delivered
          connected,
          window,      \* the ChannelListPage: is it open and paused,
          list,        \*     and how many items of each channel are in its list
          known,       \* ChannelListPage::channels is 1 .. known
          added,       \* _channelsAddMap: the channels that have been listed
          main,        \* the list of ChannelListWidget
          chats,       \* _chatSwitchWidget: each [channel, holds], the channels
                       \*     whose messages are in its history
          current,     \* the index of the chat that is shown, or -1
          lookups      \* have all lookups in channels found theirs?

remote == <<created, subscribed, database, asked>>
lists == <<window, list, known, added, main>>
stack == <<chats, current>>
vars == <<remote, signals, connected, lists, stack, lookups>>

Init == /\ created = 0 /\ subscribed = {} /\ database = TRUE /\ asked = <<>> /\ signals = <<>>
        /\ connected = TRUE
        /\ window = [open |-> FALSE, paused |-> FALSE] /\ list = [c \in 1 .. MaxChannels |-> 0]
        /\ known = 0 /\ added = {} /\ main = <<>> /\ chats = <<>> /\ current = 0 - 1
        /\ lookups = TRUE

Room(n) == Len(asked) + Len(signals) + n <= MaxAsked
Ask(requests) == asked' = asked \o (IF connected THEN requests ELSE <<>>)
Found(c) == c \in 1 .. known

------------------------------------------------------------------------------
(* ChannelListPage and the windows.                                        *)

\* The list first, then the subscriptions, which are looked up in it.
Channels_Swapped == <<[request |-> "subscriptions"], [request |-> "channels"]>>
Channels == <<[request |-> "channels"], [request |-> "subscriptions"]>>

\* requestChannels pauses the page, and asks if it can.
RequestChannels ==
    /\ Room(2)
    /\ Ask(Channels)
    /\ UNCHANGED <<created, subscribed, database, signals, connected, list, known, added, main, stack, lookups>>

\* showChannelListWindow makes the page the first time only.
OpenWindow ==
    /\ ~window.open
    /\ window' = [window EXCEPT !.open = TRUE, !.paused = TRUE]
    /\ RequestChannels
\* A page that is paused is disabled.
PressUpdate ==
    /\ window.open /\ ~window.paused
    /\ window' = [window EXCEPT !.paused = TRUE]
    /\ RequestChannels

\* addChannelToChannelListWidget: without a connection the item moves, too.
AddChannel(c) ==
    /\ list[c] > 0 /\ ~window.paused
    /\ Room(1)
    /\ Ask(<<[request |-> "subscribe", channel |-> c]>>)
    /\ list' = [list EXCEPT ![c] = @ - 1]
    /\ main' = Append(main, c)
    /\ lookups' = (lookups /\ Found(c))
    /\ UNCHANGED <<created, subscribed, database, signals, connected, window, known, added, stack>>

\* The button of the ChannelCreationPage.
CreateChannel ==
    /\ connected /\ Room(1)
    /\ asked' = Append(asked, [request |-> "create"])
    /\ UNCHANGED <<created, subscribed, database, signals, connected, lists, stack, lookups>>

------------------------------------------------------------------------------
(* ChatPage and the ChatWidgets.                                           *)

\* itemPressed.  A row that the stack does not have gets a new widget, which
\* goes to the end; the first one becomes the current one by itself, and
\* setCurrentIndex does nothing for an index that is not there.
Chat(c) == [channel |-> c, holds |-> {}]
Chats_Always(row) == Append(chats, Chat(main[row + 1]))
Chats(row) ==
    IF row < Len(chats) THEN [chats EXCEPT ![row + 1] = [@ EXCEPT !.channel = main[row + 1]]]
    ELSE Append(chats, Chat(main[row + 1]))
Press(row) ==
    /\ chats' = Chats(row)
    /\ current' = IF row < Len(chats') THEN row ELSE IF chats = <<>> THEN 0 ELSE current
    /\ lookups' = (lookups /\ Found(main[row + 1]))
    /\ UNCHANGED <<remote, signals, connected, lists>>

\* requestMessages, on the timer of each ChatWidget, shown or not.
RequestMessages(i) ==
    /\ connected /\ Room(1)
    /\ asked' = Append(asked, [request |-> "history", channel |-> chats[i].channel])
    /\ UNCHANGED <<created, subscribed, database, signals, connected, lists, stack, lookups>>

------------------------------------------------------------------------------
(* The server.                                                             *)

Takes(name) == asked # <<>> /\ Head(asked).request = name /\ asked' = Tail(asked)
Answers(signal) == signals' = Append(signals, signal)
\* getAllChannelsList and getChannelSubscriptionList answer with nothing when
\* the select has failed.
AnswerChannels ==
    /\ Takes("channels")
    /\ Answers([signal |-> "channels", known |-> IF database THEN created ELSE 0])
    /\ UNCHANGED <<created, subscribed, database, connected, lists, stack, lookups>>
AnswerSubscriptions ==
    /\ Takes("subscriptions")
    /\ Answers([signal |-> "subscriptions", rows |-> IF database THEN subscribed ELSE {}])
    /\ UNCHANGED <<created, subscribed, database, connected, lists, stack, lookups>>
\* A history without a message, or of a select that has failed, is ignored by
\* every ChatWidget.
AnswerHistory ==
    /\ Takes("history")
    /\ \/ database /\ Answers([signal |-> "history", channel |-> Head(asked).channel])
       \/ UNCHANGED signals
    /\ UNCHANGED <<created, subscribed, database, connected, lists, stack, lookups>>
\* The answer is SUCCESS, whether the row was inserted or not.
Subscribe ==
    /\ Takes("subscribe")
    /\ subscribed' = subscribed \cup (IF database THEN {Head(asked).channel} ELSE {})
    /\ UNCHANGED <<created, database, signals, connected, lists, stack, lookups>>
\* The creator is subscribed.  A name that is taken creates nothing; without
\* the database createChannel throws, and the server ends: Disconnect.
Create ==
    /\ database /\ Takes("create")
    /\ \/ /\ created < MaxChannels
          /\ created' = created + 1
          /\ subscribed' = subscribed \cup {created + 1}
       \/ UNCHANGED <<created, subscribed>>
    /\ UNCHANGED <<database, signals, connected, lists, stack, lookups>>

\* Another user creates a channel, or this one elsewhere.
CreateElsewhere ==
    /\ database /\ created < MaxChannels
    /\ created' = created + 1
    /\ \/ UNCHANGED subscribed
       \/ SecondDevice /\ subscribed' = subscribed \cup {created + 1}
    /\ UNCHANGED <<database, asked, signals, connected, lists, stack, lookups>>

\* PostgreAdapter never connects again.
LoseDatabase ==
    /\ database /\ database' = FALSE
    /\ UNCHANGED <<created, subscribed, asked, signals, connected, lists, stack, lookups>>

\* What is on its way is lost, but for the signals that Qt has queued.
Disconnect ==
    /\ connected /\ connected' = FALSE
    /\ asked' = <<>>
    /\ \E n \in 0 .. Len(signals) :
           signals' = SubSeq(signals, 1, n) \o <<[signal |-> "disconnect"]>>
    /\ UNCHANGED <<created, subscribed, database, lists, stack, lookups>>

------------------------------------------------------------------------------
(* The slots.                                                              *)

Signal(name) == signals # <<>> /\ Head(signals).signal = name /\ signals' = Tail(signals)

\* setChannels and updateChannelList: a channel gets an item once.
Listed_Forgotten(new) == added
Listed(new) == added \cup new
SetChannels ==
    LET new == (1 .. Head(signals).known) \ added
    IN  /\ Signal("channels")
        /\ known' = Head(signals).known
        /\ added' = Listed(new)
        /\ list' = [c \in DOMAIN list |-> IF c \in new THEN list[c] + 1 ELSE list[c]]
        /\ window' = [window EXCEPT !.paused = FALSE]
        /\ UNCHANGED <<remote, connected, main, stack, lookups>>

\* addSubscribedChannelToMainChannelWidget: one item of each that is still in
\* the list of the window moves to the main one, in the order of the answer.
AddSubscribed ==
    LET rows == Head(signals).rows
        moved == {c \in rows : list[c] > 0}
    IN  /\ Signal("subscriptions")
        /\ lookups' = (lookups /\ \A c \in rows : Found(c))
        /\ \E order \in SetToSeqs(moved) : main' = main \o order
        /\ list' = [c \in DOMAIN list |-> IF c \in moved THEN list[c] - 1 ELSE list[c]]
        /\ UNCHANGED <<remote, connected, window, known, added, stack>>

\* ChatWidget::addMessages and addReplies, of every ChatWidget: they look at
\* the channel of the first message.
Accepts(chat, c) == chat.channel = c
AddMessages ==
    LET c == Head(signals).channel
    IN  /\ Signal("history")
        /\ chats' = [i \in DOMAIN chats |->
                        IF Accepts(chats[i], c) THEN [chats[i] EXCEPT !.holds = @ \cup {c}] ELSE chats[i]]
        /\ UNCHANGED <<remote, connected, lists, current, lookups>>

\* Page::onResume.
OnDisconnect ==
    /\ Signal("disconnect")
    /\ window' = [window EXCEPT !.paused = FALSE]
    /\ UNCHANGED <<remote, connected, list, known, added, main, stack, lookups>>

Next == \/ OpenWindow \/ PressUpdate \/ CreateChannel
        \/ \E c \in 1 .. MaxChannels : AddChannel(c)
        \/ \E row \in 0 .. Len(main) - 1 : Press(row)
        \/ \E i \in DOMAIN chats : RequestMessages(i)
        \/ AnswerChannels \/ AnswerSubscriptions \/ AnswerHistory \/ Subscribe \/ Create
        \/ CreateElsewhere \/ LoseDatabase \/ Disconnect
        \/ SetChannels \/ AddSubscribed \/ AddMessages \/ OnDisconnect

Spec == Init /\ [][Next]_vars

------------------------------------------------------------------------------

\* updateChannelList, addChannelToChannelListWidget and
\* addSubscribedChannelToMainChannelWidget: a channel that the client was told
\* of has one item in one of the two lists, however often the list is asked for,
\* whatever the user adds before the subscriptions arrive, and whatever becomes
\* of the database.
EachListedOnce ==
    /\ \A i, j \in DOMAIN main : main[i] = main[j] => i = j
    /\ \A i \in DOMAIN main : main[i] \in added
    /\ \A c \in 1 .. MaxChannels :
        /\ list[c] = 0 \/ (list[c] = 1 /\ c \in added /\ \A i \in DOMAIN main : main[i] # c)
        /\ c \in added => list[c] = 1 \/ \E i \in DOMAIN main : main[i] = c

\* ChannelListPage and ChatPage look a channel up in the static list and use
\* what they find without a test: it is there, if the user is logged in once and
\* as long as the database of the server answers.  (A list that is asked for
\* later is empty, and the next lookup finds nothing.)
LookupsFindTheirChannel == database => lookups

\* ChatPage::itemPressed adds a widget, with its timer and its two requests a
\* second, for a row that the stack does not have, and never more of them
\* than there are rows, in whatever order the rows are pressed.
NoChatWithoutRow == Len(chats) <= Len(main)

\* ChatWidget.cpp, addMessages: messages that "could be [...] for other
\* channel" do not get into the history of a chat.
HistoryOfItsChannel == \A i \in DOMAIN chats : chats[i].holds \subseteq {chats[i].channel}
==============================================================================
