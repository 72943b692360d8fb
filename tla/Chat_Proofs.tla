----------------------------- MODULE Chat_Proofs -----------------------------
(***************************************************************************)
(* What holds of the lists, the lookups and the stack of the chat page for *)
(* every number of channels and of requests on their way, and of the       *)
(* widgets of a chat for all messages, times, heights and replies.         *)
(***************************************************************************)
EXTENDS ChatPage, ChatHistory, Selections_Proofs, FiniteSetTheorems

------------------------------------------------------------------------------
(* The chat page.                                                          *)

Channel == 1 .. MaxChannels
Requests == [request : {"channels", "subscriptions", "create"}]
            \cup [request : {"subscribe", "history"}, channel : Channel]
Signals == [signal : {"channels"}, known : 0 .. MaxChannels]
           \cup [signal : {"subscriptions"}, rows : SUBSET Channel]
           \cup [signal : {"history"}, channel : Channel]
           \cup [signal : {"disconnect"}]

\* What the client knows is on the server, and so is what it subscribes to.
RemoteInv ==
    /\ created \in 0 .. MaxChannels /\ subscribed \subseteq 1 .. created
    /\ asked \in Seq(Requests) /\ signals \in Seq(Signals)
    /\ \A i \in DOMAIN asked : asked[i].request = "subscribe" => asked[i].channel <= created
    /\ \A i \in DOMAIN signals : signals[i].signal = "channels" => signals[i].known <= created
    /\ connected \in BOOLEAN /\ database \in BOOLEAN

ListInv ==
    /\ known \in 0 .. created /\ added \subseteq 1 .. created
    /\ window \in [open : BOOLEAN, paused : BOOLEAN] /\ list \in [Channel -> Nat]
    /\ main \in Seq(Channel)
    /\ EachListedOnce

StackInv ==
    /\ chats \in Seq([channel : Channel, holds : SUBSET Channel])
    /\ current \in -1 .. Len(chats) - 1
    /\ NoChatWithoutRow

\* As long as the database answers, the answers about the channels never tell
\* of fewer than the last one did.
Grows == database =>
    /\ added \subseteq 1 .. known
    /\ \A i \in DOMAIN signals : signals[i].signal = "channels" => known <= signals[i].known
    /\ \A i, j \in DOMAIN signals :
           (i < j /\ signals[i].signal = "channels" /\ signals[j].signal = "channels")
               => signals[i].known <= signals[j].known

\* The subscriptions are asked for right behind the channels, and answered
\* with nothing that an answer before them has not told.
Told(c, j) ==
    c <= known \/ \E i \in DOMAIN signals :
                      i < j /\ signals[i].signal = "channels" /\ c <= signals[i].known
QueueInv ==
    /\ \A i \in DOMAIN asked : asked[i].request = "subscriptions" /\ i > 1
                                   => asked[i - 1].request = "channels"
    /\ (asked # <<>> /\ asked[1].request = "subscriptions")
           => \A c \in subscribed : Told(c, Len(signals) + 1)
    /\ \A j \in DOMAIN signals : signals[j].signal = "subscriptions"
           => \A c \in signals[j].rows : Told(c, j)

IInv == RemoteInv /\ ListInv /\ StackInv /\ Grows /\ lookups \in BOOLEAN
DeviceInv == ~SecondDevice /\ database => QueueInv /\ lookups

LEMMA Tails ==
    ASSUME NEW S, NEW s \in Seq(S), s # <<>>
    PROVE  /\ Len(s) \in Nat \ {0} /\ Tail(s) \in Seq(S) /\ Len(Tail(s)) = Len(s) - 1
           /\ DOMAIN s = 1 .. Len(s) /\ DOMAIN Tail(s) = 1 .. Len(s) - 1
           /\ \A i \in 1 .. Len(s) - 1 : Tail(s)[i] = s[i + 1]
           /\ Head(s) = s[1] /\ s[1] \in S
OBVIOUS

LEMMA Appends ==
    ASSUME NEW S, NEW s \in Seq(S), NEW x \in S
    PROVE  /\ Append(s, x) \in Seq(S) /\ Len(Append(s, x)) = Len(s) + 1 /\ Len(s) \in Nat
           /\ DOMAIN s = 1 .. Len(s) /\ DOMAIN Append(s, x) = 1 .. Len(s) + 1
           /\ \A i \in 1 .. Len(s) : Append(s, x)[i] = s[i]
           /\ Append(s, x)[Len(s) + 1] = x
OBVIOUS

LEMMA OneMore ==
    ASSUME NEW n \in Nat, NEW S \in SUBSET (1 .. n)
    PROVE  /\ S \subseteq 1 .. n + 1 /\ S \cup {n + 1} \subseteq 1 .. n + 1
           /\ \A c \in 1 .. MaxChannels : c <= n => S \cup {c} \subseteq 1 .. n
BY PageAssumption

LEMMA ElementOf ==
    ASSUME NEW S, NEW s \in Seq(S), NEW i \in DOMAIN s
    PROVE  s[i] \in S
OBVIOUS

LEMMA TwoAppended ==
    ASSUME NEW S, NEW s \in Seq(S), NEW a \in S, NEW b \in S
    PROVE  LET t == s \o <<a, b>>
           IN  /\ t \in Seq(S) /\ Len(t) = Len(s) + 2 /\ DOMAIN t = 1 .. Len(s) + 2
               /\ \A i \in 1 .. Len(s) : t[i] = s[i]
               /\ t[Len(s) + 1] = a /\ t[Len(s) + 2] = b
OBVIOUS

LEMMA Concatenated ==
    ASSUME NEW S, NEW s \in Seq(S), NEW t \in Seq(S)
    PROVE  /\ s \o t \in Seq(S) /\ Len(s \o t) = Len(s) + Len(t)
           /\ Len(s) \in Nat /\ Len(t) \in Nat
           /\ DOMAIN s = 1 .. Len(s) /\ DOMAIN t = 1 .. Len(t)
           /\ DOMAIN (s \o t) = 1 .. Len(s) + Len(t)
           /\ \A i \in 1 .. Len(s) : (s \o t)[i] = s[i]
           /\ \A i \in 1 .. Len(t) : (s \o t)[Len(s) + i] = t[i]
OBVIOUS

LEMMA InitIInv == Init => IInv /\ DeviceInv
BY PageAssumption DEF Init, IInv, DeviceInv, RemoteInv, ListInv, StackInv, Grows, QueueInv, Channel,
   EachListedOnce, NoChatWithoutRow, Requests, Signals

------------------------------------------------------------------------------
(* Requests that are sent.                                                 *)

LEMMA OneAsked ==
    ASSUME IInv, DeviceInv, NEW r \in Requests, asked' = Append(asked, r),
           r.request # "subscriptions", r.request = "subscribe" => r.channel <= created,
           UNCHANGED <<created, subscribed, database, signals, connected, known, added>>
    PROVE  RemoteInv' /\ Grows' /\ (~SecondDevice /\ database => QueueInv')
<1>1. asked \in Seq(Requests)
  BY DEF IInv, RemoteInv
<1>2. /\ asked' \in Seq(Requests) /\ Len(asked') = Len(asked) + 1 /\ Len(asked) \in Nat
      /\ DOMAIN asked = 1 .. Len(asked) /\ DOMAIN asked' = 1 .. Len(asked) + 1
      /\ \A i \in 1 .. Len(asked) : asked'[i] = asked[i]
      /\ asked'[Len(asked) + 1] = r
  BY <1>1, Appends
<1>3. RemoteInv'
  BY <1>2 DEF IInv, RemoteInv
<1>4. Grows'
  BY DEF IInv, Grows
<1>5. \A c, j : Told(c, j)' <=> Told(c, j)
  BY DEF Told
<1>6. ASSUME ~SecondDevice, database PROVE QueueInv'
  <2>1. QueueInv
    BY <1>6 DEF DeviceInv
  <2>2. \A i \in DOMAIN asked' : asked'[i].request = "subscriptions" /\ i > 1
                                   => asked'[i - 1].request = "channels"
    BY <1>2, <2>1 DEF QueueInv
  <2>3. (asked' # <<>> /\ asked'[1].request = "subscriptions")
           => \A c \in subscribed : Told(c, Len(signals) + 1)
    BY <1>1, <1>2, <2>1 DEF QueueInv
  <2> QED
    BY <1>5, <2>1, <2>2, <2>3 DEF QueueInv
<1> QED
  BY <1>3, <1>4, <1>6

LEMMA BothAsked ==
    ASSUME IInv, DeviceInv, asked' = asked \o Channels,
           UNCHANGED <<created, subscribed, database, signals, connected, known, added>>
    PROVE  RemoteInv' /\ Grows' /\ (~SecondDevice /\ database => QueueInv')
<1> DEFINE n == Len(asked)
<1>1. asked \in Seq(Requests) /\ n \in Nat /\ DOMAIN asked = 1 .. n
  BY DEF IInv, RemoteInv
<1>2. Channels \in Seq(Requests) /\ Len(Channels) = 2
      /\ Channels[1].request = "channels" /\ Channels[2].request = "subscriptions"
  BY DEF Channels, Requests
<1>3. /\ asked' \in Seq(Requests) /\ Len(asked') = n + 2 /\ DOMAIN asked' = 1 .. n + 2
      /\ \A i \in 1 .. n : asked'[i] = asked[i]
      /\ asked'[n + 1] = Channels[1] /\ asked'[n + 2] = Channels[2]
  <2>1. Channels[1] \in Requests /\ Channels[2] \in Requests
    BY DEF Channels, Requests
  <2>2. asked' = asked \o <<Channels[1], Channels[2]>>
    BY DEF Channels
  <2> QED
    BY <1>1, <2>1, <2>2, TwoAppended
<1>4. RemoteInv'
  <2>1. \A i \in 1 .. n : asked[i].request = "subscribe" => asked[i].channel <= created
    BY <1>1 DEF IInv, RemoteInv
  <2>2. ASSUME NEW i \in DOMAIN asked', asked'[i].request = "subscribe"
        PROVE  asked'[i].channel <= created
    <3>1. i # n + 1 /\ i # n + 2
      BY <1>2, <1>3, <2>2
    <3>2. i \in 1 .. n
      BY <1>1, <1>3, <3>1
    <3> QED
      BY <1>3, <2>1, <2>2, <3>2
  <2>3. created' \in 0 .. MaxChannels /\ subscribed' \subseteq 1 .. created'
        /\ signals' \in Seq(Signals) /\ connected' \in BOOLEAN /\ database' \in BOOLEAN
        /\ \A i \in DOMAIN signals' : signals'[i].signal = "channels" => signals'[i].known <= created'
    BY DEF IInv, RemoteInv
  <2> QED
    BY <1>3, <2>2, <2>3 DEF RemoteInv
<1>5. Grows'
  BY DEF IInv, Grows
<1>6. \A c, j : Told(c, j)' <=> Told(c, j)
  BY DEF Told
<1>7. ASSUME ~SecondDevice, database PROVE QueueInv'
  <2>1. QueueInv
    BY <1>7 DEF DeviceInv
  <2>2. \A i \in DOMAIN asked' : asked'[i].request = "subscriptions" /\ i > 1
                                   => asked'[i - 1].request = "channels"
    BY <1>1, <1>2, <1>3, <2>1 DEF QueueInv
  <2>3. (asked' # <<>> /\ asked'[1].request = "subscriptions")
           => \A c \in subscribed : Told(c, Len(signals) + 1)
    BY <1>1, <1>2, <1>3, <2>1 DEF QueueInv
  <2> QED
    BY <1>6, <2>1, <2>2, <2>3 DEF QueueInv
<1> QED
  BY <1>4, <1>5, <1>7

------------------------------------------------------------------------------
(* Requests that are answered.                                             *)

\* Behind the first request there are subscriptions only if it is channels.
LEMMA RequestTaken ==
    ASSUME IInv, asked # <<>>, asked' = Tail(asked)
    PROVE  /\ asked' \in Seq(Requests)
           /\ Head(asked) = asked[1] /\ asked[1] \in Requests
           /\ Head(asked).request = "subscribe"
                  => Head(asked).channel <= created /\ Head(asked).channel \in Channel
           /\ \A i \in DOMAIN asked' : asked'[i].request = "subscribe" => asked'[i].channel <= created
           /\ QueueInv =>
                  /\ \A i \in DOMAIN asked' : asked'[i].request = "subscriptions" /\ i > 1
                                   => asked'[i - 1].request = "channels"
                  /\ (asked' # <<>> /\ asked'[1].request = "subscriptions")
                         => asked[1].request = "channels"
<1>1. asked \in Seq(Requests)
  BY DEF IInv, RemoteInv
<1>2. /\ Len(asked) \in Nat \ {0} /\ asked' \in Seq(Requests) /\ Len(asked') = Len(asked) - 1
      /\ DOMAIN asked = 1 .. Len(asked) /\ DOMAIN asked' = 1 .. Len(asked) - 1
      /\ \A i \in 1 .. Len(asked) - 1 : asked'[i] = asked[i + 1]
      /\ Head(asked) = asked[1] /\ asked[1] \in Requests
  BY <1>1, Tails
<1>3. \A i \in DOMAIN asked' : i + 1 \in DOMAIN asked
  BY <1>2
<1>4. Head(asked).request = "subscribe"
          => Head(asked).channel <= created /\ Head(asked).channel \in Channel
  <2>1. 1 \in DOMAIN asked
    BY <1>2
  <2> QED
    BY <1>2, <2>1 DEF IInv, RemoteInv, Requests
<1>5. \A i \in DOMAIN asked' : asked'[i].request = "subscribe" => asked'[i].channel <= created
  BY <1>2, <1>3 DEF IInv, RemoteInv
<1>6. ASSUME QueueInv
      PROVE  /\ \A i \in DOMAIN asked' : asked'[i].request = "subscriptions" /\ i > 1
                                   => asked'[i - 1].request = "channels"
             /\ (asked' # <<>> /\ asked'[1].request = "subscriptions")
                         => asked[1].request = "channels"
  <2>1. \A i \in DOMAIN asked : asked[i].request = "subscriptions" /\ i > 1
                                   => asked[i - 1].request = "channels"
    BY <1>6 DEF QueueInv
  <2>2. ASSUME NEW i \in DOMAIN asked', asked'[i].request = "subscriptions", i > 1
        PROVE  asked'[i - 1].request = "channels"
    <3>1. i + 1 \in DOMAIN asked /\ asked[i + 1] = asked'[i] /\ i \in 1 .. Len(asked) - 1
      BY <1>2, <1>3
    <3>2. asked[(i + 1) - 1].request = "channels"
      BY <2>1, <2>2, <3>1
    <3>3. asked'[i - 1] = asked[(i - 1) + 1] /\ (i - 1) + 1 = i /\ (i + 1) - 1 = i
      BY <1>2, <2>2, <3>1
    <3> QED
      BY <3>2, <3>3
  <2>3. ASSUME asked' # <<>>, asked'[1].request = "subscriptions"
        PROVE  asked[1].request = "channels"
    <3>1. 1 \in 1 .. Len(asked) - 1
      BY <1>2, <2>3
    <3>2. asked[2].request = "subscriptions" /\ 2 \in DOMAIN asked
      BY <1>2, <2>3, <3>1
    <3>3. 2 > 1 => asked[2 - 1].request = "channels"
      BY <2>1, <3>2
    <3> QED
      BY <3>3
  <2> QED
    BY <2>2, <2>3
<1> QED
  BY <1>2, <1>4, <1>5, <1>6

\* A signal behind the others takes nothing back of what was told.
LEMMA SignalAdded ==
    ASSUME IInv, NEW x \in Signals, signals' = Append(signals, x),
           UNCHANGED <<known, added, created, database>>,
           x.signal = "channels" => x.known <= created /\ (database => x.known = created)
    PROVE  /\ signals' \in Seq(Signals) /\ Grows'
           /\ \A i \in DOMAIN signals' : signals'[i].signal = "channels" => signals'[i].known <= created
           /\ Len(signals) \in Nat /\ Len(signals') = Len(signals) + 1
           /\ DOMAIN signals' = 1 .. Len(signals) + 1 /\ DOMAIN signals = 1 .. Len(signals)
           /\ \A i \in DOMAIN signals : signals'[i] = signals[i]
           /\ signals'[Len(signals) + 1] = x
           /\ \A c \in Channel, j \in Nat : Told(c, j) => Told(c, j)'
<1>1. signals \in Seq(Signals)
  BY DEF IInv, RemoteInv
<1>2. /\ signals' \in Seq(Signals) /\ Len(signals') = Len(signals) + 1 /\ Len(signals) \in Nat
      /\ DOMAIN signals = 1 .. Len(signals) /\ DOMAIN signals' = 1 .. Len(signals) + 1
      /\ \A i \in 1 .. Len(signals) : signals'[i] = signals[i]
      /\ signals'[Len(signals) + 1] = x
  BY <1>1, Appends
<1>0. \A i \in DOMAIN signals' : signals'[i].signal = "channels" => signals'[i].known <= created
  BY <1>2 DEF IInv, RemoteInv
<1>3. ASSUME database PROVE Grows'
  <2>1. ASSUME NEW i \in DOMAIN signals', signals'[i].signal = "channels"
        PROVE  known <= signals'[i].known
    BY <1>2, <1>3, <2>1 DEF IInv, Grows, ListInv, RemoteInv
  <2>2. ASSUME NEW i \in DOMAIN signals', NEW j \in DOMAIN signals', i < j,
               signals'[i].signal = "channels", signals'[j].signal = "channels"
        PROVE  signals'[i].known <= signals'[j].known
    <3>1. i \in DOMAIN signals
      BY <1>2, <2>2
    <3>2. CASE j \in DOMAIN signals
      BY <1>2, <1>3, <2>2, <3>1, <3>2 DEF IInv, Grows
    <3>3. CASE j = Len(signals) + 1
      BY <1>0, <1>2, <1>3, <2>2, <3>3
    <3> QED
      BY <1>2, <3>2, <3>3
  <2>3. added' \subseteq 1 .. known'
    BY <1>3 DEF IInv, Grows
  <2> QED
    BY <2>1, <2>2, <2>3 DEF Grows
<1>4. \A c \in Channel, j \in Nat : Told(c, j) => Told(c, j)'
  BY <1>2 DEF Told
<1> QED
  BY <1>0, <1>2, <1>3, <1>4 DEF Grows

\* A signal that is delivered leaves the client with what it has told.
LEMMA SignalTaken ==
    ASSUME IInv, signals # <<>>, signals' = Tail(signals), UNCHANGED <<created, database>>,
           known' = IF Head(signals).signal = "channels" THEN Head(signals).known ELSE known,
           added' \subseteq added \cup (1 .. known')
    PROVE  /\ signals' \in Seq(Signals) /\ Grows' /\ known' \in 0 .. created
           /\ \A i \in DOMAIN signals' : signals'[i].signal = "channels" => signals'[i].known <= created
           /\ Len(signals) \in Nat /\ Len(signals') = Len(signals) - 1
           /\ Head(signals) = signals[1] /\ signals[1] \in Signals /\ 1 \in DOMAIN signals
           /\ \A i \in DOMAIN signals' : i + 1 \in DOMAIN signals /\ signals'[i] = signals[i + 1]
           /\ database => \A c \in Channel, j \in Nat \ {0} : Told(c, j + 1) => Told(c, j)'
<1>1. signals \in Seq(Signals)
  BY DEF IInv, RemoteInv
<1>2. /\ Len(signals) \in Nat \ {0} /\ signals' \in Seq(Signals) /\ Len(signals') = Len(signals) - 1
      /\ DOMAIN signals = 1 .. Len(signals) /\ DOMAIN signals' = 1 .. Len(signals) - 1
      /\ \A i \in 1 .. Len(signals) - 1 : signals'[i] = signals[i + 1]
      /\ Head(signals) = signals[1] /\ signals[1] \in Signals
  BY <1>1, Tails
<1>3. 1 \in DOMAIN signals /\ \A i \in DOMAIN signals' : i + 1 \in DOMAIN signals
  BY <1>2
<1>4. signals[1].signal = "channels" => signals[1].known \in 0 .. MaxChannels
  BY <1>2 DEF Signals
<1>5. /\ known' \in 0 .. created
      /\ known' = IF signals[1].signal = "channels" THEN signals[1].known ELSE known
  BY <1>2, <1>3, <1>4 DEF IInv, ListInv, RemoteInv
<1>6. \A i \in DOMAIN signals' : signals'[i].signal = "channels" => signals'[i].known <= created
  BY <1>2, <1>3 DEF IInv, RemoteInv
<1>7. ASSUME database
      PROVE  Grows' /\ known <= known'
  <2>0. known <= known'
    <3>1. \A i \in DOMAIN signals : signals[i].signal = "channels" => known <= signals[i].known
      BY <1>7 DEF IInv, Grows
    <3>2. known \in Int
      BY DEF IInv, ListInv, RemoteInv
    <3> QED
      BY <1>3, <1>5, <3>1, <3>2
  <2>1. ASSUME NEW i \in DOMAIN signals', signals'[i].signal = "channels"
        PROVE  known' <= signals'[i].known
    <3>1. i + 1 \in DOMAIN signals /\ signals'[i] = signals[i + 1] /\ 1 < i + 1
      BY <1>2, <1>3
    <3> QED
      BY <1>3, <1>5, <1>7, <2>1, <3>1 DEF IInv, Grows
  <2>2. ASSUME NEW i \in DOMAIN signals', NEW j \in DOMAIN signals', i < j,
               signals'[i].signal = "channels", signals'[j].signal = "channels"
        PROVE  signals'[i].known <= signals'[j].known
    <3>1. /\ i + 1 \in DOMAIN signals /\ signals'[i] = signals[i + 1]
          /\ j + 1 \in DOMAIN signals /\ signals'[j] = signals[j + 1] /\ i + 1 < j + 1
      BY <1>2, <1>3, <2>2
    <3> QED
      BY <1>7, <2>2, <3>1 DEF IInv, Grows
  <2>3. added' \subseteq 1 .. known'
    <3>1. added \subseteq 1 .. known /\ known \in Int /\ known' \in Int
      BY <1>5, <1>7 DEF IInv, Grows, ListInv, RemoteInv
    <3>2. 1 .. known \subseteq 1 .. known'
      BY <2>0, <3>1
    <3> QED
      BY <3>1, <3>2
  <2> QED
    BY <2>0, <2>1, <2>2, <2>3 DEF Grows
<1>8. ASSUME database, NEW c \in Channel, NEW j \in Nat \ {0}, Told(c, j + 1)
      PROVE  Told(c, j)'
  <2>1. known \in Int /\ known' \in Int /\ c \in Int
    BY <1>5 DEF IInv, ListInv, Channel, RemoteInv
  <2>2. CASE c <= known
    BY <1>7, <1>8, <2>1, <2>2 DEF Told
  <2>3. CASE \E i \in DOMAIN signals :
                 i < j + 1 /\ signals[i].signal = "channels" /\ c <= signals[i].known
    <3>1. PICK i \in DOMAIN signals :
                 i < j + 1 /\ signals[i].signal = "channels" /\ c <= signals[i].known
      BY <2>3
    <3>2. CASE i = 1
      BY <1>5, <3>1, <3>2 DEF Told
    <3>3. CASE i > 1
      <4>1. i - 1 \in DOMAIN signals' /\ signals'[i - 1] = signals[i] /\ i - 1 < j
        BY <1>2, <3>1, <3>3
      <4> QED
        BY <3>1, <4>1 DEF Told
    <3> QED
      BY <1>2, <3>2, <3>3
  <2> QED
    BY <1>8, <2>2, <2>3 DEF Told
<1>9. Grows'
  BY <1>7 DEF Grows
<1> QED
  BY <1>2, <1>3, <1>5, <1>6, <1>8, <1>9

LEMMA OrderFacts ==
    ASSUME NEW S \in SUBSET Channel, NEW order \in SetToSeqs(S)
    PROVE  /\ order \in Seq(Channel)
           /\ \A i \in DOMAIN order : order[i] \in S
           /\ \A i, j \in DOMAIN order : order[i] = order[j] => i = j
           /\ \A c \in S : \E i \in DOMAIN order : order[i] = c
<1> DEFINE n == Cardinality(S)
<1>1. IsFiniteSet(S) /\ n \in Nat
  <2>1. IsFiniteSet(Channel)
    BY PageAssumption, FS_Interval DEF Channel
  <2>2. IsFiniteSet(S)
    BY <2>1, FS_Subset
  <2> QED
    BY <2>2, FS_CardinalityType
<1>2. order \in [1 .. n -> S] /\ \A i, j \in 1 .. n : i # j => order[i] # order[j]
  BY DEF SetToSeqs
<1>3. order \in Injection(1 .. n, S)
  BY <1>2 DEF Injection, IsInjective
<1>4. Cardinality(1 .. n) = n
  BY <1>1, FS_Interval
<1>5. order \in Surjection(1 .. n, S)
  BY <1>1, <1>3, <1>4, FS_Injection
<1>6. \A c \in S : \E i \in 1 .. n : order[i] = c
  BY <1>5 DEF Surjection
<1> QED
  BY <1>1, <1>2, <1>6

------------------------------------------------------------------------------
(* The steps.                                                              *)

\* What a step leaves alone keeps what is said of it.
LEMMA ListKeeps ==
    ASSUME IInv, UNCHANGED lists, created' \in Nat, created <= created'
    PROVE  ListInv'
BY DEF IInv, ListInv, RemoteInv, EachListedOnce, lists

LEMMA StackKeeps ==
    ASSUME IInv, UNCHANGED <<chats, current>>, Len(main') >= Len(main), Len(main') \in Nat
    PROVE  StackInv'
BY DEF IInv, StackInv, ListInv, NoChatWithoutRow

LEMMA RequestKeeps ==
    ASSUME IInv, DeviceInv, RequestChannels, window' \in [open : BOOLEAN, paused : BOOLEAN]
    PROVE  IInv' /\ DeviceInv'
<1>2. ListInv'
  BY DEF IInv, ListInv, RequestChannels, EachListedOnce
<1>3. StackInv'
  BY DEF IInv, StackInv, ListInv, NoChatWithoutRow, RequestChannels, stack
<1>4. RemoteInv' /\ Grows' /\ (~SecondDevice /\ database => QueueInv')
  <2>1. CASE connected
    BY <2>1, BothAsked DEF RequestChannels, Ask
  <2>2. CASE ~connected
    <3>1. asked' = asked
      BY <2>2 DEF RequestChannels, Ask, IInv, RemoteInv
    <3>2. \A c, j : Told(c, j)' <=> Told(c, j)
      BY DEF Told, RequestChannels
    <3> QED
      BY <3>1, <3>2 DEF RequestChannels, IInv, DeviceInv, RemoteInv, Grows, QueueInv
  <2> QED
    BY <2>1, <2>2 DEF IInv, RemoteInv
<1> QED
  BY <1>2, <1>3, <1>4 DEF IInv, DeviceInv, RequestChannels

LEMMA AddKeeps == ASSUME IInv, DeviceInv, NEW c \in Channel, AddChannel(c) PROVE IInv' /\ DeviceInv'
<1>1. /\ main \in Seq(Channel) /\ list \in [Channel -> Nat] /\ known \in 0 .. created
      /\ window \in [open : BOOLEAN, paused : BOOLEAN] /\ list \in [Channel -> Nat]
      /\ created \in 0 .. MaxChannels /\ EachListedOnce
  BY DEF IInv, ListInv, RemoteInv
<1>2. c \in added /\ list[c] = 1 /\ \A i \in DOMAIN main : main[i] # c
  BY <1>1 DEF AddChannel, EachListedOnce, Channel
<1>3. list' = [list EXCEPT ![c] = 0]
  BY <1>1, <1>2 DEF AddChannel
<1>4. /\ main' \in Seq(Channel) /\ Len(main') = Len(main) + 1 /\ Len(main) \in Nat
      /\ DOMAIN main = 1 .. Len(main) /\ DOMAIN main' = 1 .. Len(main) + 1
      /\ \A i \in 1 .. Len(main) : main'[i] = main[i]
      /\ main'[Len(main) + 1] = c
  BY <1>1, Appends DEF AddChannel
<1>5. EachListedOnce'
  <2>1. \A i, j \in DOMAIN main' : main'[i] = main'[j] => i = j
    <3>1. \A i, j \in 1 .. Len(main) : main[i] = main[j] => i = j
      BY <1>1, <1>4 DEF EachListedOnce
    <3>2. \A i \in DOMAIN main' : i = Len(main) + 1 \/ (i \in 1 .. Len(main) /\ main'[i] # c)
      BY <1>2, <1>4
    <3> QED BY <1>4, <3>1, <3>2
  <2>2. \A i \in DOMAIN main' : main'[i] \in added'
    BY <1>1, <1>2, <1>4 DEF EachListedOnce, AddChannel
  <2>3. ASSUME NEW d \in Channel
        PROVE  /\ list'[d] = 0 \/ (list'[d] = 1 /\ d \in added' /\ \A i \in DOMAIN main' : main'[i] # d)
               /\ d \in added' => list'[d] = 1 \/ \E i \in DOMAIN main' : main'[i] = d
    <3>1. (\A i \in DOMAIN main' : main'[i] # d) <=> (d # c /\ \A i \in DOMAIN main : main[i] # d)
      BY <1>4
    <3>2. added' = added
      BY DEF AddChannel
    <3>3. /\ list[d] = 0 \/ (list[d] = 1 /\ d \in added /\ \A i \in DOMAIN main : main[i] # d)
          /\ d \in added => list[d] = 1 \/ \E i \in DOMAIN main : main[i] = d
      BY <1>1 DEF EachListedOnce, Channel
    <3>4. list'[d] = IF d = c THEN 0 ELSE list[d]
      BY <1>1, <1>3
    <3> QED
      BY <3>1, <3>2, <3>3, <3>4
  <2> QED
    BY <2>1, <2>2, <2>3 DEF EachListedOnce, Channel
<1>6. ListInv'
  BY <1>1, <1>3, <1>4, <1>5 DEF IInv, ListInv, AddChannel
<1>7. StackInv'
  BY <1>4, StackKeeps DEF AddChannel, stack
<1>8. RemoteInv' /\ Grows' /\ (~SecondDevice /\ database => QueueInv')
  <2> DEFINE r == [request |-> "subscribe", channel |-> c]
  <2>1. r \in Requests /\ r.request = "subscribe" /\ r.channel <= created
    BY <1>1, <1>2 DEF Requests, Channel, IInv, ListInv
  <2>2. CASE connected
    <3>1. asked' = Append(asked, r)
      BY <2>2 DEF AddChannel, Ask, IInv, RemoteInv
    <3> QED
      BY <2>1, <3>1, OneAsked DEF AddChannel
  <2>3. CASE ~connected
    <3>1. asked' = asked
      BY <2>3 DEF AddChannel, Ask, IInv, RemoteInv
    <3>2. \A d, j : Told(d, j)' <=> Told(d, j)
      BY DEF Told, AddChannel
    <3> QED
      BY <3>1, <3>2 DEF AddChannel, IInv, DeviceInv, RemoteInv, Grows, QueueInv
  <2> QED
    BY <2>2, <2>3 DEF IInv, RemoteInv
<1>9. lookups' \in BOOLEAN /\ (database /\ lookups => lookups') /\ database' = database
  <2>1. database => c \in 1 .. known
    BY <1>2 DEF IInv, Grows
  <2> QED
    BY <2>1 DEF AddChannel, Found, IInv
<1> QED
  BY <1>6, <1>7, <1>8, <1>9 DEF IInv, DeviceInv

LEMMA AskKeeps ==
    ASSUME IInv, DeviceInv, CreateChannel \/ \E i \in DOMAIN chats : RequestMessages(i)
    PROVE  IInv' /\ DeviceInv'
<1>1. ListInv' /\ StackInv'
  <2>1. UNCHANGED lists /\ created' = created /\ UNCHANGED <<chats, current>>
    BY DEF CreateChannel, RequestMessages, stack
  <2>2. main' = main /\ created \in Nat /\ Len(main) \in Nat
    BY <2>1 DEF lists, IInv, ListInv, RemoteInv
  <2> QED
    BY <2>1, <2>2, ListKeeps, StackKeeps
<1>2. PICK r \in Requests : /\ asked' = Append(asked, r)
                            /\ r.request # "subscriptions" /\ r.request # "subscribe"
  <2>1. CASE CreateChannel
    BY <2>1 DEF CreateChannel, Requests
  <2>2. ASSUME NEW i \in DOMAIN chats, RequestMessages(i)
        PROVE  \E r \in Requests : /\ asked' = Append(asked, r)
                                   /\ r.request # "subscriptions" /\ r.request # "subscribe"
    <3>0. chats[i] \in [channel : Channel, holds : SUBSET Channel]
      BY ElementOf DEF IInv, StackInv
    <3>1. chats[i].channel \in Channel
      BY <3>0
    <3>2. [request |-> "history", channel |-> chats[i].channel] \in Requests
      BY <3>1 DEF Requests
    <3> QED
      BY <2>2, <3>2 DEF RequestMessages
  <2> QED
    BY <2>1, <2>2
<1>3. UNCHANGED <<created, subscribed, database, signals, connected, known, added, lookups>>
  BY DEF CreateChannel, RequestMessages, lists
<1>4. RemoteInv' /\ Grows' /\ (~SecondDevice /\ database => QueueInv')
  BY <1>2, <1>3, OneAsked
<1> QED
  BY <1>1, <1>3, <1>4 DEF IInv, DeviceInv

LEMMA PressKeeps ==
    ASSUME IInv, DeviceInv, NEW row \in 0 .. Len(main) - 1, Press(row) PROVE IInv' /\ DeviceInv'
<1>1. main \in Seq(Channel) /\ Len(main) \in Nat /\ row + 1 \in DOMAIN main
  BY DEF IInv, ListInv
<1>2. main[row + 1] \in Channel /\ main[row + 1] \in added
  BY <1>1 DEF IInv, ListInv, EachListedOnce
<1>3. lookups' \in BOOLEAN /\ (database /\ lookups => lookups') /\ database' = database
  <2>1. database => Found(main[row + 1])
    BY <1>2 DEF IInv, Grows, Found
  <2> QED
    BY <2>1 DEF Press, IInv, remote
<1>4. chats \in Seq([channel : Channel, holds : SUBSET Channel]) /\ Len(chats) \in Nat
  BY DEF IInv, StackInv
<1>5. StackInv'
  <2>1. CASE row < Len(chats)
    <3>1. chats' = [chats EXCEPT ![row + 1] = [chats[row + 1] EXCEPT !.channel = main[row + 1]]]
      BY <2>1 DEF Press, Chats
    <3>0. row + 1 \in 1 .. Len(chats) /\ DOMAIN chats = 1 .. Len(chats)
      BY <1>1, <1>4, <2>1
    <3>2. row + 1 \in DOMAIN chats /\ chats[row + 1] \in [channel : Channel, holds : SUBSET Channel]
      BY <1>4, <3>0, ElementOf
    <3>3. [chats[row + 1] EXCEPT !.channel = main[row + 1]] \in [channel : Channel, holds : SUBSET Channel]
      BY <1>2, <3>2
    <3>4. chats' \in Seq([channel : Channel, holds : SUBSET Channel]) /\ Len(chats') = Len(chats)
      BY <1>4, <3>1, <3>2, <3>3
    <3>5. current' = row
      BY <2>1, <3>4 DEF Press
    <3> QED
      BY <1>4, <2>1, <3>4, <3>5 DEF IInv, StackInv, NoChatWithoutRow, Press, lists
  <2>2. CASE row >= Len(chats)
    <3>1. chats' = Append(chats, Chat(main[row + 1]))
      BY <1>4, <2>2 DEF Press, Chats
    <3>2. Chat(main[row + 1]) \in [channel : Channel, holds : SUBSET Channel]
      BY <1>2 DEF Chat
    <3>3. /\ chats' \in Seq([channel : Channel, holds : SUBSET Channel])
          /\ Len(chats') = Len(chats) + 1
      BY <1>4, <3>1, <3>2, Appends
    <3>4. current' \in -1 .. Len(chats') - 1
      BY <1>4, <3>3 DEF Press, IInv, StackInv
    <3> QED
      BY <1>1, <1>4, <2>2, <3>3, <3>4 DEF StackInv, NoChatWithoutRow, Press, lists
  <2> QED
    BY <1>4, <2>1, <2>2
<1>6. ListInv'
  BY ListKeeps DEF Press, remote, IInv, RemoteInv
<1>7. \A c, j : Told(c, j)' <=> Told(c, j)
  BY DEF Told, Press, lists
<1>8. RemoteInv' /\ Grows' /\ (QueueInv => QueueInv')
  BY <1>7 DEF IInv, RemoteInv, Grows, QueueInv, Press, remote, lists
<1> QED
  BY <1>3, <1>5, <1>6, <1>8 DEF IInv, DeviceInv

\* What the server does leaves the pages as they are.
LEMMA PagesKeep ==
    ASSUME IInv, UNCHANGED <<lists, stack, lookups>>, created' \in Nat, created <= created'
    PROVE  ListInv' /\ StackInv' /\ lookups' = lookups /\ known' = known
<1>1. Len(main) \in Nat /\ main' = main
  BY DEF IInv, ListInv, lists
<1> QED
  BY <1>1, ListKeeps, StackKeeps DEF lists, stack

\* A request that is answered by a signal behind the others.
LEMMA SignalAnswers ==
    ASSUME IInv, asked # <<>>, asked' = Tail(asked),
           UNCHANGED <<created, subscribed, database, connected, known, added>>,
           NEW x \in Signals, signals' = Append(signals, x),
           x.signal = "channels" => x.known <= created /\ (database => x.known = created),
           (x.signal = "subscriptions" /\ database)
               => x.rows = subscribed /\ asked[1].request = "subscriptions",
           asked[1].request = "channels" => x.signal = "channels"
    PROVE  RemoteInv' /\ Grows' /\ (database /\ QueueInv => QueueInv')
<1>2. created \in 0 .. MaxChannels /\ subscribed \subseteq Channel /\ subscribed \subseteq 1 .. created
  <2>1. created \in 0 .. MaxChannels /\ subscribed \subseteq 1 .. created
    BY DEF IInv, RemoteInv
  <2> QED
    BY <2>1, PageAssumption DEF Channel
<1> DEFINE n == Len(signals)
<1>5. /\ signals' \in Seq(Signals) /\ Grows' /\ n \in Nat /\ Len(signals') = n + 1
      /\ \A i \in DOMAIN signals' : signals'[i].signal = "channels" => signals'[i].known <= created
      /\ DOMAIN signals' = 1 .. n + 1 /\ DOMAIN signals = 1 .. n
      /\ \A i \in DOMAIN signals : signals'[i] = signals[i]
      /\ signals'[n + 1] = x
      /\ \A c \in Channel, j \in Nat : Told(c, j) => Told(c, j)'
  BY SignalAdded
<1>6. RemoteInv'
  BY <1>5, RequestTaken DEF IInv, RemoteInv
<1>7. ASSUME database, QueueInv PROVE QueueInv'
  <2>1. \A i \in DOMAIN asked' : asked'[i].request = "subscriptions" /\ i > 1
                                   => asked'[i - 1].request = "channels"
    BY <1>7, RequestTaken
  <2>2. ASSUME asked' # <<>>, asked'[1].request = "subscriptions", NEW c \in subscribed'
        PROVE  Told(c, Len(signals) + 1)'
    <3>1. x.signal = "channels" /\ x.known = created
      BY <1>7, <2>2, RequestTaken
    <3>2. c <= created
      BY <1>2, <2>2
    <3>3. n + 1 \in DOMAIN signals' /\ n + 1 < Len(signals') + 1
      BY <1>5
    <3> QED
      BY <1>5, <3>1, <3>2, <3>3 DEF Told
  <2>3. ASSUME NEW j \in DOMAIN signals', signals'[j].signal = "subscriptions",
               NEW c \in signals'[j].rows
        PROVE  Told(c, j)'
    <3>1. CASE j \in DOMAIN signals
      <4>1. Told(c, j)
        BY <1>5, <1>7, <2>3, <3>1 DEF QueueInv
      <4>2. c \in Channel /\ j \in Nat
        <5>1. signals'[j] \in Signals
          BY <1>5
        <5> QED
          BY <1>5, <2>3, <5>1 DEF Signals
      <4> QED
        BY <1>5, <4>1, <4>2
    <3>2. CASE j = n + 1
      <4>1. c \in subscribed /\ asked[1].request = "subscriptions"
        BY <1>5, <1>7, <2>3, <3>2
      <4>2. Told(c, n + 1)
        BY <1>7, <4>1 DEF QueueInv
      <4> QED
        BY <1>2, <1>5, <3>2, <4>1, <4>2
    <3> QED
      BY <1>5, <3>1, <3>2
  <2> QED
    BY <2>1, <2>2, <2>3 DEF QueueInv
<1> QED
  BY <1>5, <1>6, <1>7

LEMMA AnswerKeeps ==
    ASSUME IInv, DeviceInv, AnswerChannels \/ AnswerSubscriptions \/ AnswerHistory
    PROVE  IInv' /\ DeviceInv'
<1>1. /\ asked # <<>> /\ asked' = Tail(asked)
      /\ UNCHANGED <<created, subscribed, database, connected>>
      /\ UNCHANGED <<lists, stack, lookups>>
  BY DEF AnswerChannels, AnswerSubscriptions, AnswerHistory, Takes
<1>2. created \in 0 .. MaxChannels /\ subscribed \subseteq Channel /\ subscribed \subseteq 1 .. created
  <2>1. created \in 0 .. MaxChannels /\ subscribed \subseteq 1 .. created
    BY DEF IInv, RemoteInv
  <2> QED
    BY <2>1, PageAssumption DEF Channel
<1>3. ListInv' /\ StackInv' /\ lookups' = lookups /\ known' = known /\ added' = added
  BY <1>1, <1>2, PagesKeep DEF lists
<1>10. Head(asked) = asked[1] /\ asked[1] \in Requests
  BY <1>1, RequestTaken
<1>11. RemoteInv' /\ Grows' /\ (database /\ QueueInv => QueueInv')
  <2>1. CASE signals' = signals /\ asked[1].request = "history"
    <3>1. RemoteInv' /\ Grows'
      BY <1>1, <1>3, <2>1, RequestTaken DEF IInv, RemoteInv, Grows
    <3>2. \A c, j : Told(c, j)' <=> Told(c, j)
      BY <1>3, <2>1 DEF Told
    <3>3. ASSUME QueueInv PROVE QueueInv'
      <4>1. /\ \A i \in DOMAIN asked' : asked'[i].request = "subscriptions" /\ i > 1
                                   => asked'[i - 1].request = "channels"
            /\ ~(asked' # <<>> /\ asked'[1].request = "subscriptions")
        BY <1>1, <2>1, <3>3, RequestTaken
      <4> QED
        BY <2>1, <3>2, <3>3, <4>1 DEF QueueInv
    <3> QED
      BY <3>1, <3>3
  <2>2. ASSUME NEW x \in Signals, signals' = Append(signals, x),
               x.signal = "channels" => x.known <= created /\ (database => x.known = created),
               (x.signal = "subscriptions" /\ database)
                   => x.rows = subscribed /\ asked[1].request = "subscriptions",
               asked[1].request = "channels" => x.signal = "channels"
        PROVE  RemoteInv' /\ Grows' /\ (database /\ QueueInv => QueueInv')
    <3>1. UNCHANGED <<created, subscribed, database, connected, known, added>>
      BY <1>1, <1>3
    <3> QED
      BY <1>1, <2>2, <3>1, SignalAnswers
  <2>3. CASE AnswerChannels
    <3> DEFINE x == [signal |-> "channels", known |-> IF database THEN created ELSE 0]
    <3>0. created \in Nat /\ (IF database THEN created ELSE 0) \in 0 .. MaxChannels
      BY <1>2, PageAssumption
    <3>1. x \in Signals /\ x.signal = "channels"
          /\ x.known <= created /\ (database => x.known = created)
      BY <3>0 DEF Signals
    <3>2. signals' = Append(signals, x)
      BY <2>3 DEF AnswerChannels, Answers
    <3> HIDE DEF x
    <3> QED
      BY <2>2, <3>1, <3>2
  <2>4. CASE AnswerSubscriptions
    <3> DEFINE x == [signal |-> "subscriptions", rows |-> IF database THEN subscribed ELSE {}]
    <3>1. x \in Signals /\ signals' = Append(signals, x) /\ x.signal = "subscriptions"
          /\ (database => x.rows = subscribed) /\ asked[1].request = "subscriptions"
      BY <1>2, <1>10, <2>4 DEF AnswerSubscriptions, Takes, Answers, Signals
    <3> HIDE DEF x
    <3> QED
      BY <2>2, <3>1
  <2>5. CASE AnswerHistory
    <3>1. asked[1].request = "history" /\ asked[1].channel \in Channel
      BY <1>10, <2>5 DEF AnswerHistory, Takes, Requests
    <3> DEFINE x == [signal |-> "history", channel |-> asked[1].channel]
    <3>2. x \in Signals /\ x.signal = "history"
      BY <3>1 DEF Signals
    <3>3. signals' = Append(signals, x) \/ signals' = signals
      BY <1>10, <2>5 DEF AnswerHistory, Answers
    <3> HIDE DEF x
    <3> QED
      BY <2>1, <2>2, <3>1, <3>2, <3>3
  <2> QED
    BY <2>3, <2>4, <2>5
<1> QED
  BY <1>1, <1>3, <1>11 DEF IInv, DeviceInv

\* A step of the server that nobody is told of.
LEMMA StoreKeeps ==
    ASSUME IInv, DeviceInv, asked # <<>>, asked' = Tail(asked),
           asked[1].request \in {"subscribe", "create"},
           UNCHANGED <<database, signals, connected, lists, stack, lookups>>,
           created' \in 0 .. MaxChannels, created <= created', subscribed' \subseteq 1 .. created'
    PROVE  IInv' /\ DeviceInv'
<1>1. ListInv' /\ StackInv' /\ lookups' = lookups /\ known' = known /\ added' = added
  BY PagesKeep DEF lists
<1>2. RemoteInv'
  <2>1. /\ asked' \in Seq(Requests)
        /\ \A i \in DOMAIN asked' : asked'[i].request = "subscribe" => asked'[i].channel <= created
    BY RequestTaken
  <2>2. \A i \in DOMAIN asked' : asked'[i].request = "subscribe" => asked'[i].channel <= created'
    <3>1. ASSUME NEW i \in DOMAIN asked', asked'[i].request = "subscribe"
          PROVE  asked'[i].channel <= created'
      <4>1. asked'[i] \in Requests
        BY <2>1, ElementOf
      <4>2. asked'[i].channel \in Int
        BY <3>1, <4>1 DEF Requests, Channel
      <4> QED
        BY <2>1, <3>1, <4>2 DEF IInv, RemoteInv
    <3> QED
      BY <3>1
  <2>3. \A i \in DOMAIN signals : signals[i].signal = "channels" => signals[i].known \in Int
    BY ElementOf DEF IInv, RemoteInv, Signals
  <2> QED
    BY <2>1, <2>2, <2>3 DEF IInv, RemoteInv
<1>3. Grows'
  BY <1>1 DEF IInv, Grows
<1>4. \A c, j : Told(c, j)' <=> Told(c, j)
  BY <1>1 DEF Told
<1>5. ASSUME QueueInv PROVE QueueInv'
  <2>1. /\ \A i \in DOMAIN asked' : asked'[i].request = "subscriptions" /\ i > 1
                                   => asked'[i - 1].request = "channels"
        /\ ~(asked' # <<>> /\ asked'[1].request = "subscriptions")
    BY <1>5, RequestTaken
  <2> QED
    BY <1>4, <1>5, <2>1 DEF QueueInv
<1> QED
  BY <1>1, <1>2, <1>3, <1>5 DEF IInv, DeviceInv

LEMMA SubscribeKeeps == ASSUME IInv, DeviceInv, Subscribe \/ Create PROVE IInv' /\ DeviceInv'
<1>1. created \in 0 .. MaxChannels /\ subscribed \subseteq 1 .. created
  BY DEF IInv, RemoteInv
<1>2. CASE Subscribe
  <2>1. Head(asked) = asked[1] /\ Head(asked).channel <= created /\ Head(asked).channel \in Channel
    BY <1>2, RequestTaken DEF Subscribe, Takes
  <2>2. subscribed' \subseteq 1 .. created' /\ created' = created
    <3>1. /\ created \in Nat /\ created' = created
          /\ subscribed' = subscribed \/ subscribed' = subscribed \cup {Head(asked).channel}
      BY <1>1, <1>2, PageAssumption DEF Subscribe
    <3>2. subscribed \cup {Head(asked).channel} \subseteq 1 .. created
      BY <1>1, <2>1, <3>1, OneMore DEF Channel
    <3> QED
      BY <1>1, <3>1, <3>2
  <2> QED
    BY <1>1, <1>2, <2>1, <2>2, StoreKeeps DEF Subscribe, Takes
<1>3. CASE Create
  <2>1. Head(asked) = asked[1]
    BY <1>3, RequestTaken DEF Create, Takes
  <2>2. created' \in 0 .. MaxChannels /\ created <= created' /\ subscribed' \subseteq 1 .. created'
    <3>1. created \in Nat /\ MaxChannels \in Nat /\ created <= MaxChannels
      BY <1>1, PageAssumption
    <3>2. subscribed \subseteq 1 .. created + 1 /\ subscribed \cup {created + 1} \subseteq 1 .. created + 1
      BY <1>1, <3>1, OneMore
    <3>3. CASE /\ created < MaxChannels
               /\ created' = created + 1
               /\ subscribed' = subscribed \cup {created + 1}
      BY <3>1, <3>2, <3>3
    <3>4. CASE UNCHANGED <<created, subscribed>>
      BY <1>1, <3>1, <3>4
    <3> QED
      BY <1>3, <3>3, <3>4 DEF Create
  <2> QED
    BY <1>3, <2>1, <2>2, StoreKeeps DEF Create, Takes
<1> QED
  BY <1>2, <1>3

LEMMA ElsewhereKeeps == ASSUME IInv, DeviceInv, CreateElsewhere PROVE IInv' /\ DeviceInv'
<1>1. created \in 0 .. MaxChannels /\ subscribed \subseteq 1 .. created /\ created' = created + 1
  BY DEF IInv, RemoteInv, CreateElsewhere
<1>2. created' \in 0 .. MaxChannels /\ subscribed' \subseteq 1 .. created'
  <2>1. created \in Nat /\ MaxChannels \in Nat /\ created < MaxChannels
    BY <1>1, PageAssumption DEF CreateElsewhere
  <2>2. subscribed \subseteq 1 .. created + 1 /\ subscribed \cup {created + 1} \subseteq 1 .. created + 1
    BY <1>1, <2>1, OneMore
  <2>3. subscribed' = subscribed \/ subscribed' = subscribed \cup {created + 1}
    BY DEF CreateElsewhere
  <2>4. created' \in 0 .. MaxChannels
    BY <1>1, <2>1
  <2> QED
    BY <1>1, <2>2, <2>3, <2>4
<1>3. ListInv' /\ StackInv' /\ lookups' = lookups /\ known' = known /\ added' = added
  BY <1>1, PagesKeep DEF CreateElsewhere, lists
<1>4. RemoteInv'
  <2>1. ASSUME NEW i \in DOMAIN asked, asked[i].request = "subscribe"
        PROVE  asked[i].channel <= created'
    <3>1. asked[i] \in Requests
      BY ElementOf DEF IInv, RemoteInv
    <3>2. asked[i].channel \in Int
      BY <2>1, <3>1 DEF Requests, Channel
    <3> QED
      BY <1>1, <2>1, <3>2 DEF IInv, RemoteInv
  <2>2. \A i \in DOMAIN signals : signals[i].signal = "channels" => signals[i].known \in Int
    BY ElementOf DEF IInv, RemoteInv, Signals
  <2>3. \A i \in DOMAIN signals : signals[i].signal = "channels" => signals[i].known <= created'
    BY <1>1, <2>2 DEF IInv, RemoteInv
  <2> QED
    BY <1>2, <2>1, <2>3 DEF IInv, RemoteInv, CreateElsewhere
<1>5. Grows'
  BY <1>3 DEF IInv, Grows, CreateElsewhere
<1>6. \A c, j : Told(c, j)' <=> Told(c, j)
  BY <1>3 DEF Told, CreateElsewhere
<1>7. ASSUME ~SecondDevice, QueueInv PROVE QueueInv'
  BY <1>6, <1>7 DEF QueueInv, CreateElsewhere
<1> QED
  BY <1>3, <1>4, <1>5, <1>7 DEF IInv, DeviceInv, CreateElsewhere

\* Without the database nothing is asked of the queue and of the lookups.
LEMMA LoseKeeps == ASSUME IInv, LoseDatabase PROVE IInv' /\ DeviceInv'
<1>1. UNCHANGED <<created, subscribed, asked, signals, connected, lists, stack, lookups>> /\ database' = FALSE
  BY DEF LoseDatabase
<1>2. created \in Nat /\ created <= created'
  BY <1>1 DEF IInv, RemoteInv
<1>3. ListInv' /\ StackInv' /\ lookups' = lookups
  BY <1>1, <1>2, PagesKeep
<1>4. RemoteInv'
  BY <1>1 DEF IInv, RemoteInv
<1> QED
  BY <1>1, <1>3, <1>4 DEF IInv, Grows, DeviceInv

LEMMA DisconnectKeeps == ASSUME IInv, DeviceInv, Disconnect PROVE IInv' /\ DeviceInv'
<1>1. /\ UNCHANGED <<created, subscribed, database, lists, stack, lookups>> /\ asked' = <<>>
      /\ connected' \in BOOLEAN
  BY DEF Disconnect
<1>2. created \in 0 .. MaxChannels
  BY DEF IInv, RemoteInv
<1>3. ListInv' /\ StackInv' /\ lookups' = lookups /\ known' = known /\ added' = added
  BY <1>1, <1>2, PagesKeep DEF lists
<1> DEFINE end == [signal |-> "disconnect"]
<1>4. PICK n \in 0 .. Len(signals) : signals' = SubSeq(signals, 1, n) \o <<end>>
  BY DEF Disconnect
<1>5. signals \in Seq(Signals) /\ Len(signals) \in Nat /\ DOMAIN signals = 1 .. Len(signals)
      /\ end \in Signals
  BY DEF IInv, RemoteInv, Signals
<1> HIDE DEF end
<1> DEFINE kept == SubSeq(signals, 1, n)
<1>6. kept \in Seq(Signals) /\ Len(kept) = n /\ \A i \in 1 .. n : kept[i] = signals[i]
  BY <1>5
<1> HIDE DEF kept
<1>7. signals' = kept \o <<end>>
  BY <1>4 DEF kept
<1>8. /\ signals' \in Seq(Signals) /\ DOMAIN signals' = 1 .. n + 1
      /\ \A i \in 1 .. n : signals'[i] = signals[i] /\ i \in DOMAIN signals
      /\ signals'[n + 1] = end
  BY <1>5, <1>6, <1>7
<1>9. signals'[n + 1].signal = "disconnect"
  BY <1>8 DEF end
<1>10. RemoteInv'
  <2>1. \A i \in DOMAIN signals' : signals'[i].signal = "channels" => signals'[i].known <= created
    BY <1>8, <1>9 DEF IInv, RemoteInv
  <2> QED
    BY <1>1, <1>8, <2>1 DEF IInv, RemoteInv
<1>11. Grows'
  BY <1>1, <1>3, <1>8, <1>9 DEF IInv, Grows
<1>12. ASSUME QueueInv PROVE QueueInv'
  <2>1. ASSUME NEW j \in DOMAIN signals', signals'[j].signal = "subscriptions",
               NEW c \in signals'[j].rows
        PROVE  Told(c, j)'
    <3>1. j \in 1 .. n /\ signals'[j] = signals[j] /\ j \in DOMAIN signals
      BY <1>8, <1>9, <2>1
    <3>2. Told(c, j)
      BY <1>12, <2>1, <3>1 DEF QueueInv
    <3> QED
      BY <1>3, <1>5, <1>8, <3>1, <3>2 DEF Told
  <2> QED
    BY <1>1, <2>1 DEF QueueInv
<1> QED
  BY <1>1, <1>3, <1>10, <1>11, <1>12 DEF IInv, DeviceInv

------------------------------------------------------------------------------
(* The slots.                                                              *)

\* A signal leaves the queue: what is told stays told.
LEMMA DeliverKeeps ==
    ASSUME IInv, DeviceInv, signals # <<>>, signals' = Tail(signals),
           known' = IF Head(signals).signal = "channels" THEN Head(signals).known ELSE known,
           added' \subseteq added \cup (1 .. known'),
           UNCHANGED <<created, subscribed, database, asked, connected>>
    PROVE  /\ RemoteInv' /\ Grows' /\ (~SecondDevice /\ database => QueueInv')
           /\ known' \in 0 .. created
           /\ Head(signals) \in Signals
           /\ (~SecondDevice /\ database /\ Head(signals).signal = "subscriptions")
                  => \A c \in Head(signals).rows : c <= known
<1>1. /\ signals' \in Seq(Signals) /\ Grows' /\ known' \in 0 .. created
      /\ Len(signals) \in Nat /\ Len(signals') = Len(signals) - 1
      /\ Head(signals) = signals[1] /\ signals[1] \in Signals /\ 1 \in DOMAIN signals
      /\ \A i \in DOMAIN signals' : i + 1 \in DOMAIN signals /\ signals'[i] = signals[i + 1]
      /\ \A i \in DOMAIN signals' : signals'[i].signal = "channels" => signals'[i].known <= created
      /\ database => \A c \in Channel, j \in Nat \ {0} : Told(c, j + 1) => Told(c, j)'
  BY SignalTaken
<1>2. RemoteInv'
  BY <1>1 DEF IInv, RemoteInv
<1>3. signals \in Seq(Signals) /\ DOMAIN signals = 1 .. Len(signals) /\ Len(signals') \in Nat
      /\ DOMAIN signals' = 1 .. Len(signals') /\ subscribed \subseteq Channel
  <2>1. created \in 0 .. MaxChannels /\ subscribed \subseteq 1 .. created /\ signals \in Seq(Signals)
    BY DEF IInv, RemoteInv
  <2> QED
    BY <1>1, <2>1, PageAssumption DEF Channel
<1>4. ASSUME database, QueueInv PROVE QueueInv'
  <2>1. ASSUME NEW j \in DOMAIN signals', signals'[j].signal = "subscriptions",
               NEW c \in signals'[j].rows
        PROVE  Told(c, j)'
    <3>1. j \in Nat \ {0} /\ j + 1 \in DOMAIN signals /\ signals'[j] = signals[j + 1]
      BY <1>1, <1>3
    <3>2. signals'[j] \in Signals
      BY <1>1, ElementOf
    <3>3. c \in Channel
      BY <2>1, <3>2 DEF Signals
    <3>4. Told(c, j + 1)
      BY <1>4, <2>1, <3>1 DEF QueueInv
    <3> QED
      BY <1>1, <1>4, <3>1, <3>3, <3>4
  <2>2. ASSUME asked' # <<>>, asked'[1].request = "subscriptions", NEW c \in subscribed'
        PROVE  Told(c, Len(signals) + 1)'
    <3>1. Told(c, Len(signals) + 1) /\ c \in Channel
      BY <1>3, <1>4, <2>2 DEF QueueInv
    <3>2. Len(signals) = Len(signals') + 1 /\ Len(signals) \in Nat \ {0}
      BY <1>1, <1>3
    <3> QED
      BY <1>1, <1>4, <3>1, <3>2
  <2> QED
    BY <1>4, <2>1, <2>2 DEF QueueInv
<1>5. ASSUME QueueInv, Head(signals).signal = "subscriptions", NEW c \in Head(signals).rows
      PROVE  c <= known
  <2>1. Told(c, 1)
    BY <1>1, <1>5 DEF QueueInv
  <2> QED
    BY <1>3, <2>1 DEF Told
<1> QED
  BY <1>1, <1>2, <1>4, <1>5 DEF DeviceInv

LEMMA SetKeeps == ASSUME IInv, DeviceInv, SetChannels PROVE IInv' /\ DeviceInv'
<1> DEFINE new == (1 .. Head(signals).known) \ added
<1>0. known' = Head(signals).known /\ added' = added \cup new
  BY DEF SetChannels, Listed
<1>1. /\ RemoteInv' /\ Grows' /\ (~SecondDevice /\ database => QueueInv')
      /\ known' \in 0 .. created
  <2>1. added' \subseteq added \cup (1 .. known')
    BY <1>0
  <2> QED
    BY <2>1, DeliverKeeps DEF SetChannels, Signal, remote
<1>2. /\ created \in 0 .. MaxChannels /\ known \in 0 .. created /\ added \subseteq 1 .. created
      /\ list \in [Channel -> Nat] /\ main \in Seq(Channel) /\ EachListedOnce
  BY DEF IInv, ListInv, RemoteInv
<1>3. /\ main' = main /\ created' = created /\ database' = database /\ Len(main) \in Nat
      /\ lookups' = lookups
  BY <1>2 DEF SetChannels, remote
<1>4. list' = [c \in Channel |-> IF c \in new THEN list[c] + 1 ELSE list[c]]
  BY <1>2 DEF SetChannels
<1>5. added' \subseteq 1 .. created
  <2>1. 1 .. known' \subseteq 1 .. created
    BY <1>1, <1>2
  <2>2. new \subseteq 1 .. known'
    BY <1>0
  <2> QED
    BY <1>0, <1>2, <2>1, <2>2
<1>6. EachListedOnce'
  <2>1. \A i \in DOMAIN main' : main'[i] \in added'
    BY <1>0, <1>2, <1>3 DEF EachListedOnce
  <2>2. ASSUME NEW c \in Channel
        PROVE  /\ list'[c] = 0 \/ (list'[c] = 1 /\ c \in added' /\ \A i \in DOMAIN main' : main'[i] # c)
               /\ c \in added' => list'[c] = 1 \/ \E i \in DOMAIN main' : main'[i] = c
    <3>1. /\ list[c] = 0 \/ (list[c] = 1 /\ c \in added /\ \A i \in DOMAIN main : main[i] # c)
          /\ c \in added => list[c] = 1 \/ \E i \in DOMAIN main : main[i] = c
          /\ \A i \in DOMAIN main : main[i] \in added
      BY <1>2 DEF EachListedOnce, Channel
    <3>3. CASE c \in new
      <4>1. list[c] = 0 /\ c \in added' /\ \A i \in DOMAIN main : main[i] # c
        BY <1>0, <3>1, <3>3
      <4>2. list'[c] = 1
        BY <1>4, <3>3, <4>1
      <4> QED
        BY <1>3, <4>1, <4>2
    <3>4. CASE c \notin new
      <4>1. list'[c] = list[c]
        BY <1>4, <3>4
      <4>2. c \in added' <=> c \in added
        BY <1>0, <3>4
      <4> QED
        BY <1>3, <3>1, <4>1, <4>2
    <3> QED
      BY <3>3, <3>4
  <2>3. \A i, j \in DOMAIN main' : main'[i] = main'[j] => i = j
    BY <1>2, <1>3 DEF EachListedOnce
  <2> QED
    BY <2>1, <2>2, <2>3 DEF EachListedOnce, Channel
<1>7. ListInv'
  <2>1. list' \in [Channel -> Nat]
    BY <1>2, <1>4
  <2>2. window' \in [open : BOOLEAN, paused : BOOLEAN]
    BY DEF IInv, ListInv, SetChannels
  <2> QED
    BY <1>1, <1>2, <1>3, <1>5, <1>6, <2>1, <2>2 DEF ListInv
<1>8. StackInv'
  BY <1>3, StackKeeps DEF SetChannels, stack
<1> QED
  BY <1>1, <1>3, <1>7, <1>8 DEF IInv, DeviceInv

LEMMA SubscribedKeeps == ASSUME IInv, DeviceInv, AddSubscribed PROVE IInv' /\ DeviceInv'
<1> DEFINE rows == Head(signals).rows
           moved == {c \in rows : list[c] > 0}
<1>1. /\ RemoteInv' /\ Grows' /\ (~SecondDevice /\ database => QueueInv')
      /\ Head(signals) \in Signals /\ Head(signals).signal = "subscriptions"
      /\ ~SecondDevice /\ database => \A c \in rows : c <= known
  <2>1. Head(signals).signal = "subscriptions"
    BY DEF AddSubscribed, Signal
  <2>2. signals # <<>> /\ signals' = Tail(signals)
        /\ UNCHANGED <<created, subscribed, database, asked, connected, known, added>>
    BY DEF AddSubscribed, Signal, remote
  <2> QED
    BY <2>1, <2>2, DeliverKeeps
<1>2. rows \subseteq Channel /\ moved \subseteq Channel
  BY <1>1 DEF Signals
<1>3. /\ created' = created /\ database' = database /\ known' = known /\ added' = added /\ window' = window
      /\ list' = [c \in DOMAIN list |-> IF c \in moved THEN list[c] - 1 ELSE list[c]]
      /\ lookups' = (lookups /\ \A c \in rows : Found(c))
      /\ UNCHANGED stack
  BY DEF AddSubscribed, remote
<1>4. PICK order \in SetToSeqs(moved) : main' = main \o order
  BY DEF AddSubscribed
<1>5. /\ order \in Seq(Channel) /\ \A i \in DOMAIN order : order[i] \in moved
      /\ \A i, j \in DOMAIN order : order[i] = order[j] => i = j
      /\ \A c \in moved : \E i \in DOMAIN order : order[i] = c
  BY <1>2, OrderFacts
<1>6. /\ list \in [Channel -> Nat] /\ main \in Seq(Channel) /\ EachListedOnce
      /\ known \in Int
  BY DEF IInv, ListInv, RemoteInv
<1> HIDE DEF moved
<1> DEFINE n == Len(main)
           m == Len(order)
<1>7. /\ n \in Nat /\ m \in Nat /\ main' \in Seq(Channel) /\ Len(main') = n + m
      /\ DOMAIN main = 1 .. n /\ DOMAIN order = 1 .. m /\ DOMAIN main' = 1 .. n + m
      /\ \A i \in 1 .. n : main'[i] = main[i]
      /\ \A i \in 1 .. m : main'[n + i] = order[i]
  BY <1>4, <1>5, <1>6, Concatenated
<1>8. \A i \in DOMAIN main' : i \in DOMAIN main \/ (i - n \in DOMAIN order /\ main'[i] = order[i - n])
  BY <1>7
<1>9. \A c \in moved : c \in Channel /\ list[c] = 1 /\ c \in added /\ \A i \in DOMAIN main : main[i] # c
  BY <1>2, <1>6 DEF moved, EachListedOnce, Channel
<1>10. EachListedOnce'
  <2>1. ASSUME NEW i \in DOMAIN main', NEW j \in DOMAIN main', main'[i] = main'[j]
        PROVE  i = j
    <3>1. CASE i \in DOMAIN main /\ j \in DOMAIN main
      BY <1>6, <1>7, <2>1, <3>1 DEF EachListedOnce
    <3>2. CASE i \notin DOMAIN main /\ j \notin DOMAIN main
      <4>1. i - n \in DOMAIN order /\ j - n \in DOMAIN order /\ order[i - n] = order[j - n]
        BY <1>8, <2>1, <3>2
      <4>2. i - n = j - n
        BY <1>5, <4>1
      <4> QED
        BY <1>7, <4>2
    <3>3. CASE i \in DOMAIN main /\ j \notin DOMAIN main
      <4>1. main'[i] = main[i] /\ main'[j] \in moved
        BY <1>5, <1>7, <1>8, <3>3
      <4> QED
        BY <1>9, <2>1, <3>3, <4>1
    <3>4. CASE i \notin DOMAIN main /\ j \in DOMAIN main
      <4>1. main'[j] = main[j] /\ main'[i] \in moved
        BY <1>5, <1>7, <1>8, <3>4
      <4> QED
        BY <1>9, <2>1, <3>4, <4>1
    <3> QED
      BY <3>1, <3>2, <3>3, <3>4
  <2>2. \A i \in DOMAIN main' : main'[i] \in added
    <3>1. ASSUME NEW i \in DOMAIN main' PROVE main'[i] \in added
      <4>1. CASE i \in DOMAIN main
        BY <1>6, <1>7, <4>1 DEF EachListedOnce
      <4>2. CASE i \notin DOMAIN main
        BY <1>5, <1>8, <1>9, <4>2
      <4> QED
        BY <4>1, <4>2
    <3> QED
      BY <3>1
  <2>3. ASSUME NEW c \in Channel
        PROVE  /\ list'[c] = 0 \/ (list'[c] = 1 /\ c \in added /\ \A i \in DOMAIN main' : main'[i] # c)
               /\ c \in added => list'[c] = 1 \/ \E i \in DOMAIN main' : main'[i] = c
    <3>1. /\ list[c] = 0 \/ (list[c] = 1 /\ c \in added /\ \A i \in DOMAIN main : main[i] # c)
          /\ c \in added => list[c] = 1 \/ \E i \in DOMAIN main : main[i] = c
      BY <1>6 DEF EachListedOnce, Channel
    <3>2. list'[c] = IF c \in moved THEN list[c] - 1 ELSE list[c]
      BY <1>3, <1>6
    <3>3. CASE c \in moved
      <4>1. PICK k \in DOMAIN order : order[k] = c
        BY <1>5, <3>3
      <4>2. n + k \in DOMAIN main' /\ main'[n + k] = c
        BY <1>7, <4>1
      <4>3. list'[c] = 0
        BY <1>9, <3>2, <3>3
      <4> QED
        BY <4>2, <4>3
    <3>4. CASE c \notin moved
      <4>1. list'[c] = list[c]
        BY <3>2, <3>4
      <4>2. \A i \in DOMAIN main' : main'[i] = c => i \in DOMAIN main /\ main[i] = c
        BY <1>5, <1>7, <1>8, <3>4
      <4>3. \A i \in DOMAIN main : i \in DOMAIN main' /\ main'[i] = main[i]
        BY <1>7
      <4> QED
        BY <3>1, <4>1, <4>2, <4>3
    <3> QED
      BY <3>3, <3>4
  <2> QED
    BY <1>3, <2>1, <2>2, <2>3 DEF EachListedOnce, Channel
<1>11. ListInv'
  <2>1. list' \in [Channel -> Nat]
    <3>1. \A c \in Channel : (IF c \in moved THEN list[c] - 1 ELSE list[c]) \in Nat
      BY <1>6, <1>9
    <3> QED
      BY <1>3, <1>6, <3>1
  <2> QED
    BY <1>3, <1>7, <1>10, <2>1 DEF ListInv, IInv
<1>12. StackInv'
  BY <1>3, <1>7, StackKeeps DEF stack
<1>13. lookups' \in BOOLEAN /\ (~SecondDevice /\ database /\ lookups => lookups')
  <2>1. ~SecondDevice /\ database => \A c \in rows : Found(c)
    BY <1>1, <1>2, <1>6 DEF Found, Channel
  <2> QED
    BY <1>3, <2>1 DEF IInv
<1> QED
  BY <1>1, <1>3, <1>11, <1>12, <1>13 DEF IInv, DeviceInv

LEMMA SlotKeeps == ASSUME IInv, DeviceInv, AddMessages \/ OnDisconnect PROVE IInv' /\ DeviceInv'
<1>1. /\ signals # <<>> /\ signals' = Tail(signals) /\ Head(signals).signal \in {"history", "disconnect"}
      /\ UNCHANGED <<created, subscribed, database, asked, connected, list, known, added, main, lookups, current>>
  BY DEF AddMessages, OnDisconnect, Signal, remote, lists, stack
<1>2. /\ RemoteInv' /\ Grows' /\ (~SecondDevice /\ database => QueueInv') /\ Head(signals) \in Signals
  BY <1>1, DeliverKeeps
<1>3. ListInv'
  <2>1. window' \in [open : BOOLEAN, paused : BOOLEAN]
    BY DEF IInv, ListInv, AddMessages, OnDisconnect, lists
  <2> QED
    BY <1>1, <2>1 DEF IInv, ListInv, EachListedOnce
<1>4. StackInv'
  <2>1. CASE OnDisconnect
    BY <2>1 DEF OnDisconnect, IInv, StackInv, NoChatWithoutRow, stack
  <2>2. CASE AddMessages
    <3> DEFINE c == Head(signals).channel
               Kind == [channel : Channel, holds : SUBSET Channel]
    <3>1. c \in Channel /\ chats \in Seq(Kind)
      BY <1>2, <2>2 DEF AddMessages, Signal, Signals, IInv, StackInv
    <3>2. \A i \in DOMAIN chats : chats[i] \in Kind
      BY <3>1, ElementOf
    <3>3. \A i \in DOMAIN chats : [chats[i] EXCEPT !.holds = chats[i].holds \cup {c}] \in Kind
      BY <3>1, <3>2
    <3>4. chats' = [i \in DOMAIN chats |->
                       IF Accepts(chats[i], c) THEN [chats[i] EXCEPT !.holds = chats[i].holds \cup {c}]
                                               ELSE chats[i]]
      BY <2>2 DEF AddMessages
    <3>5. chats' \in Seq(Kind) /\ Len(chats') = Len(chats)
      BY <3>1, <3>2, <3>3, <3>4
    <3> QED
      BY <1>1, <3>5 DEF IInv, StackInv, NoChatWithoutRow
  <2> QED
    BY <1>1, <2>1, <2>2
<1> QED
  BY <1>1, <1>2, <1>3, <1>4 DEF IInv, DeviceInv

LEMMA Inductive == ASSUME IInv, DeviceInv, [Next]_vars PROVE IInv' /\ DeviceInv'
<1>1. CASE OpenWindow \/ PressUpdate
  <2>1. window' \in [open : BOOLEAN, paused : BOOLEAN] /\ RequestChannels
    BY <1>1 DEF OpenWindow, PressUpdate, IInv, ListInv
  <2> QED
    BY <2>1, RequestKeeps
<1>2. CASE \E c \in 1 .. MaxChannels : AddChannel(c)
  BY <1>2, AddKeeps DEF Channel
<1>3. CASE CreateChannel \/ \E i \in DOMAIN chats : RequestMessages(i)
  BY <1>3, AskKeeps
<1>4. CASE \E row \in 0 .. Len(main) - 1 : Press(row)
  BY <1>4, PressKeeps
<1>5. CASE AnswerChannels \/ AnswerSubscriptions \/ AnswerHistory
  BY <1>5, AnswerKeeps
<1>6. CASE Subscribe \/ Create
  BY <1>6, SubscribeKeeps
<1>7. CASE CreateElsewhere
  BY <1>7, ElsewhereKeeps
<1>8. CASE Disconnect
  BY <1>8, DisconnectKeeps
<1>13. CASE LoseDatabase
  BY <1>13, LoseKeeps
<1>9. CASE SetChannels
  BY <1>9, SetKeeps
<1>10. CASE AddSubscribed
  BY <1>10, SubscribedKeeps
<1>11. CASE AddMessages \/ OnDisconnect
  BY <1>11, SlotKeeps
<1>12. CASE UNCHANGED vars
  <2>1. UNCHANGED <<created, subscribed, database, asked, signals, connected, window, list, known, added, main,
                    chats, current, lookups>>
    BY <1>12 DEF vars, remote, lists, stack
  <2>2. \A c, j : Told(c, j)' <=> Told(c, j)
    BY <2>1 DEF Told
  <2> QED
    BY <2>1, <2>2 DEF IInv, DeviceInv, RemoteInv, ListInv, StackInv, Grows, QueueInv, EachListedOnce,
       NoChatWithoutRow
<1> QED
  BY <1>1, <1>2, <1>3, <1>4, <1>5, <1>6, <1>7, <1>8, <1>9, <1>10, <1>11, <1>12, <1>13 DEF Next

LEMMA Invariant == Spec => [](IInv /\ DeviceInv)
<1>1. IInv /\ DeviceInv /\ [Next]_vars => (IInv /\ DeviceInv)'
  BY Inductive
<1> QED
  BY InitIInv, <1>1, PTL DEF Spec

\* Whatever the user adds and asks for, and whenever the answers arrive, each
\* channel that the client was told of has one item in one of the two lists,
\* with a database that answers or without (updateChannelList,
\* addChannelToChannelListWidget, addSubscribedChannelToMainChannelWidget).
THEOREM ListedOnce == Spec => []EachListedOnce
<1>1. IInv => EachListedOnce
  BY DEF IInv, ListInv
<1> QED
  BY Invariant, <1>1, PTL

\* The stack of ChatPage never has more chats than the list has rows, in
\* whatever order they are pressed (itemPressed).
THEOREM ChatsHaveRows == Spec => []NoChatWithoutRow
<1>1. IInv => NoChatWithoutRow
  BY DEF IInv, StackInv
<1> QED
  BY Invariant, <1>1, PTL

\* While the user is logged in once and as long as the database answers, no
\* lookup in ChannelListPage::channels misses: the order of requestChannels and
\* of the answers is enough.  What follows a lost database is not promised: the
\* list is then answered empty.
THEOREM LookupsFind == ~SecondDevice => (Spec => []LookupsFindTheirChannel)
<1> SUFFICES ASSUME ~SecondDevice PROVE Spec => []LookupsFindTheirChannel
  OBVIOUS
<1>1. DeviceInv => LookupsFindTheirChannel
  BY DEF DeviceInv, LookupsFindTheirChannel
<1> QED
  BY Invariant, <1>1, PTL


------------------------------------------------------------------------------
(* Sets of numbers, and sequences with one element more or less.           *)

\* The greatest of a finite set of numbers is one of them.
LEMMA Greatest ==
  ASSUME NEW S \in SUBSET Nat, IsFiniteSet(S), S # {}
  PROVE  Max(S) \in S /\ \A x \in S : x <= Max(S)
<1> DEFINE G == {n \in Nat : \A T \in SUBSET Nat :
                    (IsFiniteSet(T) /\ Cardinality(T) = n /\ T # {})
                        => \E x \in T : \A y \in T : x >= y}
<1>1. 0 \in G
  <2>1. \A T : (IsFiniteSet(T) /\ Cardinality(T) = 0) => T = {}
    BY FS_EmptySet
  <2> QED BY <2>1
<1>2. ASSUME NEW n \in Nat, n \in G PROVE n + 1 \in G
  <2> SUFFICES ASSUME NEW T \in SUBSET Nat, IsFiniteSet(T), Cardinality(T) = n + 1, T # {}
               PROVE  \E x \in T : \A y \in T : x >= y
    OBVIOUS
  <2>1. PICK t \in T : TRUE
    OBVIOUS
  <2>2. IsFiniteSet(T \ {t}) /\ Cardinality(T \ {t}) = n
    <3>1. Cardinality(T \ {t}) = Cardinality(T) - 1 /\ IsFiniteSet(T \ {t})
      BY <2>1, FS_RemoveElement
    <3> QED BY <3>1
  <2>3. CASE T \ {t} = {}
    <3>1. \A y \in T : y = t
      BY <2>3
    <3> QED BY <2>1, <3>1
  <2>4. CASE T \ {t} # {}
    <3>1. T \ {t} \in SUBSET Nat
      OBVIOUS
    <3>2. PICK x \in T \ {t} : \A y \in T \ {t} : x >= y
      BY <1>2, <2>2, <2>4, <3>1
    <3>3. \A y \in T : y = t \/ y \in T \ {t}
      OBVIOUS
    <3>4. x \in Nat /\ t \in Nat
      BY <2>1
    <3>5. CASE x >= t
      BY <3>2, <3>3, <3>5
    <3>6. CASE ~(x >= t)
      BY <2>1, <3>2, <3>3, <3>4, <3>6
    <3> QED BY <3>5, <3>6
  <2> QED BY <2>3, <2>4
<1> HIDE DEF G
<1>3. Nat \subseteq G
  BY <1>1, <1>2, Induction
<1>4. Cardinality(S) \in G
  BY <1>3, FS_CardinalityType
<1>5. \E x \in S : \A y \in S : x >= y
  BY <1>4 DEF G
<1> QED
  BY <1>5 DEF Max

\* So is the least.
LEMMA Smallest ==
  ASSUME NEW S \in SUBSET Nat, S # {}
  PROVE  Min(S) \in S /\ \A x \in S : Min(S) <= x
<1>1. \E x \in S : \A y \in S : x <= y
  BY Least
<1> QED
  BY <1>1 DEF Min

LEMMA OneOfTwo ==
  ASSUME NEW a \in Int, NEW b \in Int
  PROVE  /\ Max({a, b}) \in {a, b} /\ Max({a, b}) >= a /\ Max({a, b}) >= b /\ Max({a, b}) \in Int
         /\ Min({a, b}) \in {a, b} /\ Min({a, b}) <= a /\ Min({a, b}) <= b /\ Min({a, b}) \in Int
<1>1. \E x \in {a, b} : \A y \in {a, b} : x >= y
  BY a >= b \/ b >= a
<1>2. \E x \in {a, b} : \A y \in {a, b} : x <= y
  BY a <= b \/ b <= a
<1>3. Max({a, b}) \in {a, b} /\ \A y \in {a, b} : Max({a, b}) >= y
  BY <1>1 DEF Max
<1>4. Min({a, b}) \in {a, b} /\ \A y \in {a, b} : Min({a, b}) <= y
  BY <1>2 DEF Min
<1> QED
  BY <1>3, <1>4

\* Where the elements of a concatenation are.
LEMMA Joined ==
  ASSUME NEW T, NEW c \in Seq(T), NEW b \in Seq(T)
  PROVE  /\ c \o b \in Seq(T) /\ Len(c \o b) = Len(c) + Len(b)
         /\ \A i \in 1 .. Len(c) : (c \o b)[i] = c[i]
         /\ \A i \in 1 .. Len(b) : (c \o b)[Len(c) + i] = b[i]
<1>1. Len(c) \in Nat /\ Len(b) \in Nat
  OBVIOUS
<1>2. /\ c \o b \in Seq(T) /\ Len(c \o b) = Len(c) + Len(b)
      /\ \A i \in 1 .. Len(c) + Len(b) : (c \o b)[i] = IF i <= Len(c) THEN c[i] ELSE b[i - Len(c)]
  BY ConcatProperties, Zenon
<1> DEFINE d == c \o b
<1> HIDE DEF d
<1>5. /\ d \in Seq(T) /\ Len(d) = Len(c) + Len(b)
      /\ \A i \in 1 .. Len(c) + Len(b) : d[i] = IF i <= Len(c) THEN c[i] ELSE b[i - Len(c)]
  BY <1>2, Zenon DEF d
<1>3. \A i \in 1 .. Len(c) : d[i] = c[i]
  BY <1>1, <1>5
<1>4. ASSUME NEW i \in 1 .. Len(b) PROVE d[Len(c) + i] = b[i]
  <2>1. Len(c) + i \in 1 .. Len(c) + Len(b) /\ ~(Len(c) + i <= Len(c)) /\ Len(c) + i - Len(c) = i
    BY <1>1
  <2> QED BY <1>5, <2>1
<1> QED BY <1>2, <1>3, <1>4, Zenon DEF d

\* t is s with one element more, at k.
Widened(t, s, k) ==
    /\ Len(t) = Len(s) + 1 /\ k \in 1 .. Len(s) + 1
    /\ \A i \in 1 .. Len(s) : i < k => t[i] = s[i]
    /\ \A i \in 1 .. Len(s) : i >= k => t[i + 1] = s[i]

LEMMA InsertWidens ==
  ASSUME NEW T, NEW s \in Seq(T), NEW k \in 1 .. Len(s) + 1, NEW e \in T
  PROVE  InsertAt(s, k, e) \in Seq(T) /\ Widened(InsertAt(s, k, e), s, k) /\ InsertAt(s, k, e)[k] = e
<1> DEFINE a == SubSeq(s, 1, k - 1)
           b == SubSeq(s, k, Len(s))
<1>1. Len(s) \in Nat /\ k \in Nat /\ k >= 1 /\ k <= Len(s) + 1
  OBVIOUS
<1>2. /\ a \in Seq(T) /\ Len(a) = k - 1 /\ \A i \in 1 .. k - 1 : a[i] = s[i]
      /\ b \in Seq(T) /\ Len(b) = Len(s) - k + 1 /\ \A i \in 1 .. Len(s) - k + 1 : b[i] = s[k + i - 1]
  <2>1. /\ \A i \in 1 .. (k - 1) : s[i] \in T
        /\ \A i \in k .. Len(s) : s[i] \in T
    BY <1>1
  <2>2. /\ a \in Seq(T) /\ Len(a) = (IF 1 <= k - 1 THEN k - 1 - 1 + 1 ELSE 0)
        /\ \A i \in 1 .. k - 1 - 1 + 1 : a[i] = s[1 + i - 1]
    BY <1>1, <2>1, SubSeqProperties
  <2>3. /\ b \in Seq(T) /\ Len(b) = (IF k <= Len(s) THEN Len(s) - k + 1 ELSE 0)
        /\ \A i \in 1 .. Len(s) - k + 1 : b[i] = s[k + i - 1]
    BY <1>1, <2>1, SubSeqProperties
  <2> QED BY <1>1, <2>2, <2>3
<1>3. InsertAt(s, k, e) = (a \o <<e>>) \o b
  BY DEF InsertAt
<1> HIDE DEF a, b
<1>4. PICK c \in Seq(T) : c = a \o <<e>> /\ Len(c) = k /\ c[k] = e /\ \A i \in 1 .. k - 1 : c[i] = s[i]
  <2>1. <<e>> \in Seq(T) /\ Len(<<e>>) = 1 /\ <<e>>[1] = e
    OBVIOUS
  <2>2. /\ a \o <<e>> \in Seq(T) /\ Len(a \o <<e>>) = Len(a) + Len(<<e>>)
        /\ \A i \in 1 .. Len(a) + Len(<<e>>) :
               (a \o <<e>>)[i] = IF i <= Len(a) THEN a[i] ELSE <<e>>[i - Len(a)]
    BY <1>2, <2>1, ConcatProperties
  <2>3. PICK c : c = a \o <<e>>
    OBVIOUS
  <2>4. c \in Seq(T) /\ Len(c) = k
    BY <1>1, <1>2, <2>1, <2>2, <2>3
  <2>5. k \in 1 .. Len(a) + Len(<<e>>) /\ ~(k <= Len(a)) /\ k - Len(a) = 1
    BY <1>1, <1>2, <2>1
  <2>6. c[k] = e
    BY <2>1, <2>2, <2>3, <2>5
  <2>7. ASSUME NEW i \in 1 .. k - 1 PROVE c[i] = s[i]
    <3>1. i \in 1 .. Len(a) + Len(<<e>>) /\ i <= Len(a)
      BY <1>1, <1>2, <2>1
    <3> QED BY <1>2, <2>2, <2>3, <3>1
  <2> QED BY <2>3, <2>4, <2>6, <2>7
<1> DEFINE d == c \o b
<1>5. /\ d \in Seq(T) /\ Len(d) = Len(c) + Len(b)
      /\ \A i \in 1 .. Len(c) : d[i] = c[i]
      /\ \A i \in 1 .. Len(b) : d[Len(c) + i] = b[i]
  <2>1. c \in Seq(T) /\ b \in Seq(T)
    BY <1>2, <1>4
  <2> QED BY ONLY <2>1, Joined
<1>9. d = InsertAt(s, k, e)
  BY <1>3, <1>4
<1> HIDE DEF d
<1>10. Len(b) = Len(s) - k + 1 /\ Len(c) = k /\ Len(d) = Len(s) + 1
  BY <1>1, <1>2, <1>4, <1>5
<1>6. d[k] = e
  <2>1. k \in 1 .. Len(c)
    BY <1>1, <1>4
  <2> QED BY <1>4, <1>5, <2>1
<1>7. ASSUME NEW i \in 1 .. Len(s), i < k PROVE d[i] = s[i]
  <2>1. i \in 1 .. k - 1 /\ i \in 1 .. Len(c)
    BY <1>1, <1>4, <1>7
  <2> QED BY <1>4, <1>5, <2>1
<1>8. ASSUME NEW i \in 1 .. Len(s), i >= k PROVE d[i + 1] = s[i]
  <2> DEFINE j == i - k + 1
  <2>1. j \in 1 .. Len(b) /\ j \in 1 .. Len(s) - k + 1 /\ Len(c) + j = i + 1 /\ k + j - 1 = i
    BY <1>1, <1>10, <1>8
  <2> HIDE DEF j
  <2>2. d[Len(c) + j] = b[j] /\ b[j] = s[k + j - 1]
    BY <1>2, <1>5, <2>1
  <2> QED BY <2>1, <2>2
<1> QED BY <1>1, <1>5, <1>6, <1>7, <1>8, <1>9, <1>10 DEF Widened

LEMMA RemoveNarrows ==
  ASSUME NEW T, NEW s \in Seq(T), NEW k \in 1 .. Len(s)
  PROVE  RemoveAt(s, k) \in Seq(T) /\ Widened(s, RemoveAt(s, k), k)
<1> DEFINE a == SubSeq(s, 1, k - 1)
           b == SubSeq(s, k + 1, Len(s))
<1>1. Len(s) \in Nat /\ k \in Nat /\ k >= 1 /\ k <= Len(s)
  OBVIOUS
<1>2. /\ a \in Seq(T) /\ Len(a) = k - 1 /\ \A i \in 1 .. k - 1 : a[i] = s[i]
      /\ b \in Seq(T) /\ Len(b) = Len(s) - k /\ \A i \in 1 .. Len(s) - k : b[i] = s[k + i]
  <2>1. /\ \A i \in 1 .. (k - 1) : s[i] \in T
        /\ \A i \in k + 1 .. Len(s) : s[i] \in T
    BY <1>1
  <2>2. /\ a \in Seq(T) /\ Len(a) = (IF 1 <= k - 1 THEN k - 1 - 1 + 1 ELSE 0)
        /\ \A i \in 1 .. k - 1 - 1 + 1 : a[i] = s[1 + i - 1]
    BY <1>1, <2>1, SubSeqProperties
  <2>3. /\ b \in Seq(T) /\ Len(b) = (IF k + 1 <= Len(s) THEN Len(s) - (k + 1) + 1 ELSE 0)
        /\ \A i \in 1 .. Len(s) - (k + 1) + 1 : b[i] = s[k + 1 + i - 1]
    BY <1>1, <2>1, SubSeqProperties
  <2> QED BY <1>1, <2>2, <2>3
<1>3. RemoveAt(s, k) = a \o b
  BY DEF RemoveAt
<1> HIDE DEF a, b
<1> DEFINE d == a \o b
<1>4. /\ d \in Seq(T) /\ Len(d) = Len(a) + Len(b)
      /\ \A i \in 1 .. Len(a) : d[i] = a[i]
      /\ \A i \in 1 .. Len(b) : d[Len(a) + i] = b[i]
  <2>1. a \in Seq(T) /\ b \in Seq(T)
    BY <1>2
  <2> QED BY ONLY <2>1, Joined
<1>8. d = RemoveAt(s, k)
  BY <1>3
<1> HIDE DEF d
<1>5. Len(s) = Len(d) + 1
  <2>1. Len(a) = k - 1 /\ Len(b) = Len(s) - k
    BY <1>2
  <2>2. Len(d) = Len(a) + Len(b)
    BY <1>4
  <2> QED BY <1>1, <2>1, <2>2
<1>6. ASSUME NEW i \in 1 .. Len(d), i < k PROVE s[i] = d[i]
  <2>1. i \in 1 .. k - 1 /\ i \in 1 .. Len(a)
    BY <1>1, <1>2, <1>5, <1>6
  <2> QED BY <1>2, <1>4, <2>1
<1>7. ASSUME NEW i \in 1 .. Len(d), i >= k PROVE s[i + 1] = d[i]
  <2> DEFINE j == i - k + 1
  <2>1. j \in 1 .. Len(b) /\ Len(a) + j = i /\ k + j = i + 1
    BY <1>1, <1>2, <1>4, <1>5, <1>7
  <2> HIDE DEF j
  <2>2. d[Len(a) + j] = b[j] /\ b[j] = s[k + j]
    BY <1>2, <1>4, <2>1
  <2> QED BY <2>1, <2>2
<1> QED BY <1>1, <1>4, <1>5, <1>6, <1>7, <1>8 DEF Widened

------------------------------------------------------------------------------
(* What a ChatHistory keeps.                                               *)

Info == [id : Ids, time : Nat, reactions : Nat]
Widget == {w \in [id : Ids, time : Nat, y : Int, height : Nat, deleted : BOOLEAN] :
               w.height = IF w.deleted THEN DeletedHeight ELSE MessageHeight}
Reply == [owner : Ids, ref : Ids]
Place == [y : Int]
Histories ==
    [messages : SUBSET Info, list : Seq(Widget), replies : SUBSET Reply,
     replyList : UNION {[S -> Place] : S \in SUBSET Ids}, left : Int, minimum : Int,
     surface : Nat, top : Nat, height : Nat, undefined : BOOLEAN]

\* The height of the messages, and of the replies, with the gaps.
IsSum(sum, widgets) ==
    /\ sum \in [0 .. Len(widgets) -> Nat] /\ sum[0] = 0
    /\ \A n \in 1 .. Len(widgets) : sum[n] = sum[n - 1] + widgets[n].height + Gap
Heights(widgets) ==
    LET sum[n \in 0 .. Len(widgets)] == IF n = 0 THEN 0 ELSE sum[n - 1] + widgets[n].height + Gap
    IN  sum[Len(widgets)]
RoomOf(ids) == (ReplyHeight + Gap) * Cardinality(ids)

\* Each message has one widget, and the widgets are in the order of their times.
Matched(messages, widgets) ==
    /\ {m.id : m \in messages} = {widgets[i].id : i \in DOMAIN widgets}
    /\ \A m, n \in messages : m.id = n.id => m = n
    /\ \A i, j \in DOMAIN widgets : i < j => widgets[i].id # widgets[j].id /\ widgets[i].time <= widgets[j].time

\* The surface has room for all that is on it.
Roomy(h) == /\ h.minimum = Heights(h.list) + RoomOf(DOMAIN h.replyList)
            /\ h.minimum <= h.surface
Fits(h) == /\ h \in Histories /\ IsFiniteSet(DOMAIN h.replyList)
           /\ Matched(h.messages, h.list)
           /\ Roomy(h)
           /\ \A id \in DOMAIN h.replyList : h.replyList[id].y >= 0

LeftInList(h) == h.left >= -1 /\ h.left < Len(h.list)

\* The widgets are below each other.
LaidOut(widgets) ==
    /\ \A i \in DOMAIN widgets : widgets[i].y >= 0
    /\ \A i \in DOMAIN widgets : i > 1 => widgets[i].y >= widgets[i - 1].y + widgets[i - 1].height + Gap

Kept(h) == Fits(h) /\ LeftInList(h) /\ LaidOut(h.list)

------------------------------------------------------------------------------
(* The heights.                                                            *)

LEMMA NumbersGiven ==
  /\ Ids \subseteq Nat /\ SentAt \in [Ids -> Nat] /\ Viewports \subseteq Nat
  /\ MessageHeight \in Nat /\ DeletedHeight \in Nat /\ ReplyHeight \in Nat /\ Gap \in Nat
  BY HistoryAssumption

LEMMA WidgetFields ==
  ASSUME NEW widgets \in Seq(Widget), NEW i \in 1 .. Len(widgets)
  PROVE  /\ widgets[i] \in Widget
         /\ widgets[i].id \in Ids /\ widgets[i].id \in Nat /\ widgets[i].time \in Nat /\ widgets[i].y \in Int
         /\ widgets[i].height \in Nat /\ widgets[i].deleted \in BOOLEAN
<1>1. widgets[i] \in Widget
  OBVIOUS
<1> QED BY <1>1, NumbersGiven DEF Widget

\* The sum that Heights speaks of exists.
LEMMA SumTable ==
  ASSUME NEW widgets \in Seq(Widget)
  PROVE  \E sum : IsSum(sum, widgets) /\ Heights(widgets) = sum[Len(widgets)]
<1> DEFINE of == [n \in Nat |-> IF n \in 1 .. Len(widgets) THEN widgets[n].height + Gap ELSE 0]
           step == [n \in Nat |-> [v \in Nat |-> v + of[n]]]
<1>1. Len(widgets) \in Nat /\ 0 \in Nat
  OBVIOUS
<1>2. of \in [Nat -> Nat]
  <2>1. ASSUME NEW n \in 1 .. Len(widgets) PROVE widgets[n].height + Gap \in Nat
    <3>1. widgets[n].height \in Nat /\ Gap \in Nat
      BY WidgetFields, NumbersGiven
    <3> QED BY <3>1
  <2> QED BY <2>1
<1>3. \A n \in 1 .. Len(widgets) : of[n] = widgets[n].height + Gap
  OBVIOUS
<1> HIDE DEF of
<1>4. step \in [Nat -> [Nat -> Nat]]
  <2>1. ASSUME NEW n \in Nat, NEW v \in Nat PROVE v + of[n] \in Nat
    <3>1. of[n] \in Nat
      BY <1>2
    <3> QED BY <3>1
  <2> QED BY <2>1
<1>5. \A n \in Nat, v \in Nat : step[n][v] = v + of[n]
  OBVIOUS
<1> HIDE DEF step
<1>6. PICK g \in [0 .. Len(widgets) -> Nat] : Recursive(g, 0, step, Len(widgets))
  BY <1>1, <1>4, Recursion
<1>7. \A n \in 0 .. Len(widgets) : g[n] = IF n = 0 THEN 0 ELSE step[n][g[n - 1]]
  BY <1>6 DEF Recursive
<1>8. \A n \in 0 .. Len(widgets) : n # 0 => g[n] = g[n - 1] + widgets[n].height + Gap
  <2> TAKE n \in 0 .. Len(widgets)
  <2> HAVE n # 0
  <2>1. n \in Nat /\ n \in 1 .. Len(widgets) /\ n - 1 \in 0 .. Len(widgets)
    BY <1>1
  <2>2. g[n - 1] \in Nat /\ widgets[n].height \in Nat /\ Gap \in Nat
    BY <1>6, <2>1, WidgetFields, NumbersGiven
  <2>3. g[n] = g[n - 1] + of[n]
    BY <1>5, <1>7, <2>1, <2>2
  <2> QED BY <1>3, <2>1, <2>2, <2>3
<1>9. g = [n \in 0 .. Len(widgets) |-> IF n = 0 THEN 0 ELSE g[n - 1] + widgets[n].height + Gap]
  BY <1>6, <1>7, <1>8
<1>10. PICK f : /\ f = [n \in 0 .. Len(widgets) |-> IF n = 0 THEN 0 ELSE f[n - 1] + widgets[n].height + Gap]
                /\ Heights(widgets) = f[Len(widgets)]
  BY <1>9 DEF Heights
<1>11. ASSUME NEW n \in 0 .. Len(widgets) PROVE f[n] = g[n]
  <2> DEFINE G == {m \in Nat : m <= Len(widgets) => f[m] = g[m]}
  <2>1. 0 \in G
    BY <1>1, <1>7, <1>10
  <2>2. ASSUME NEW m \in Nat, m \in G PROVE m + 1 \in G
    <3> SUFFICES ASSUME m + 1 <= Len(widgets) PROVE f[m + 1] = g[m + 1]
      OBVIOUS
    <3> DEFINE k == m + 1
    <3>1. k \in 0 .. Len(widgets) /\ k # 0 /\ k - 1 = m /\ f[m] = g[m]
      BY <1>1, <2>2
    <3> HIDE DEF k
    <3>2. f[k] = g[k]
      BY <1>8, <1>10, <3>1
    <3> QED BY <3>2 DEF k
  <2> HIDE DEF G
  <2>3. n \in G
    BY <2>1, <2>2, Induction
  <2> QED BY <1>1, <2>3 DEF G
<1>12. IsSum(g, widgets)
  <2>1. g[0] = 0
    BY <1>1, <1>7
  <2> QED BY <1>1, <1>6, <1>8, <2>1 DEF IsSum
<1>13. Heights(widgets) = g[Len(widgets)]
  BY <1>1, <1>10, <1>11
<1> QED BY <1>12, <1>13

LEMMA SumStep ==
  ASSUME NEW widgets, NEW sum, IsSum(sum, widgets), NEW n \in Nat, n + 1 <= Len(widgets), Len(widgets) \in Nat
  PROVE  sum[n + 1] = sum[n] + widgets[n + 1].height + Gap
<1> DEFINE k == n + 1
<1>1. k \in 1 .. Len(widgets) /\ k - 1 = n
  OBVIOUS
<1> HIDE DEF k
<1>2. sum[k] = sum[k - 1] + widgets[k].height + Gap
  BY <1>1 DEF IsSum
<1> QED BY <1>1, <1>2 DEF k

\* Sequences of the same heights have the same sum.
LEMMA SameHeights ==
  ASSUME NEW s \in Seq(Widget), NEW t \in Seq(Widget), Len(s) = Len(t),
         \A i \in 1 .. Len(s) : s[i].height = t[i].height
  PROVE  Heights(s) = Heights(t)
<1>1. PICK f : IsSum(f, s) /\ Heights(s) = f[Len(s)]
  BY SumTable
<1>2. PICK g : IsSum(g, t) /\ Heights(t) = g[Len(t)]
  BY SumTable
<1> DEFINE G == {n \in Nat : n <= Len(s) => f[n] = g[n]}
<1>3. 0 \in G
  BY <1>1, <1>2 DEF IsSum
<1>4. ASSUME NEW n \in Nat, n \in G PROVE n + 1 \in G
  <2> SUFFICES ASSUME n + 1 <= Len(s) PROVE f[n + 1] = g[n + 1]
    OBVIOUS
  <2>1. f[n] = g[n] /\ s[n + 1].height = t[n + 1].height /\ Len(s) \in Nat
    BY <1>4
  <2>2. f[n + 1] = f[n] + s[n + 1].height + Gap
    BY <1>1, <2>1, SumStep
  <2>3. g[n + 1] = g[n] + t[n + 1].height + Gap
    BY <1>2, <2>1, SumStep
  <2> QED BY <2>1, <2>2, <2>3
<1> HIDE DEF G
<1>5. Len(s) \in G
  BY <1>3, <1>4, Induction
<1> QED BY <1>1, <1>2, <1>5 DEF G

\* One widget more.
LEMMA OneMoreHeight ==
  ASSUME NEW s \in Seq(Widget), NEW t \in Seq(Widget), NEW k \in 1 .. Len(t), Widened(t, s, k)
  PROVE  Heights(t) = Heights(s) + t[k].height + Gap
<1>1. PICK f : IsSum(f, s) /\ Heights(s) = f[Len(s)]
  BY SumTable
<1>2. PICK g : IsSum(g, t) /\ Heights(t) = g[Len(t)]
  BY SumTable
<1>3. /\ Len(s) \in Nat /\ Len(t) = Len(s) + 1 /\ k \in Nat /\ k >= 1 /\ k <= Len(s) + 1
      /\ t[k].height \in Nat /\ Gap \in Nat
  BY WidgetFields, NumbersGiven DEF Widened
<1> DEFINE C == t[k].height + Gap
           G == {n \in Nat : n <= Len(s) => /\ n < k => f[n] = g[n]
                                            /\ n + 1 >= k => g[n + 1] = f[n] + C}
<1>4. \A n \in Nat : n <= Len(s) => f[n] \in Nat
  <2>1. f \in [0 .. Len(s) -> Nat]
    BY <1>1 DEF IsSum
  <2>2. \A n \in Nat : n <= Len(s) => n \in 0 .. Len(s)
    BY <1>3
  <2> QED BY <2>1, <2>2
<1>5. ASSUME NEW n \in Nat, n <= Len(s), n < k, f[n] = g[n], n + 1 = k PROVE g[n + 1] = f[n] + C
  <2>1. g[n + 1] = g[n] + t[n + 1].height + Gap
    BY <1>2, <1>3, <1>5, SumStep
  <2>2. g[n + 1] = g[n] + t[k].height + Gap /\ f[n] \in Nat
    BY <1>4, <1>5, <2>1
  <2> QED BY <1>3, <1>5, <2>2
<1>6. 0 \in G
  <2>1. f[0] = g[0]
    BY <1>1, <1>2 DEF IsSum
  <2>2. 1 >= k => k = 1
    BY <1>3
  <2> QED BY <1>3, <1>5, <2>1, <2>2
<1>7. ASSUME NEW n \in Nat, n \in G PROVE n + 1 \in G
  <2> SUFFICES ASSUME n + 1 <= Len(s)
               PROVE  /\ n + 1 < k => f[n + 1] = g[n + 1]
                      /\ n + 2 >= k => g[n + 2] = f[n + 1] + C
    OBVIOUS
  <2>1. f[n + 1] = f[n] + s[n + 1].height + Gap
    BY <1>1, <1>3, SumStep
  <2>2. s[n + 1].height \in Nat /\ f[n] \in Nat /\ f[n + 1] \in Nat
    <3>1. n + 1 \in 1 .. Len(s)
      BY <1>3
    <3> QED BY <1>3, <1>4, <3>1, WidgetFields
  <2>3. n + 1 < k => f[n + 1] = g[n + 1]
    <3> HAVE n + 1 < k
    <3>1. g[n + 1] = g[n] + t[n + 1].height + Gap /\ f[n] = g[n]
      BY <1>2, <1>3, <1>7, SumStep
    <3>2. t[n + 1] = s[n + 1]
      BY <1>3 DEF Widened
    <3> QED BY <2>1, <3>1, <3>2
  <2>4. n + 2 >= k => g[n + 2] = f[n + 1] + C
    <3> HAVE n + 2 >= k
    <3>1. CASE n + 2 = k
      <4>1. f[n + 1] = g[n + 1] /\ n + 1 < k
        BY <1>3, <2>3, <3>1
      <4> QED BY <1>5, <3>1, <4>1
    <3>2. CASE n + 1 >= k
      <4>1. g[n + 1] = f[n] + C
        BY <1>3, <1>7, <3>2
      <4>2. g[(n + 1) + 1] = g[n + 1] + t[(n + 1) + 1].height + Gap
        BY <1>2, <1>3, SumStep
      <4>3. t[(n + 1) + 1] = s[n + 1]
        BY <1>3, <3>2 DEF Widened
      <4>4. g[(n + 1) + 1] = g[n + 1] + s[n + 1].height + Gap
        BY <4>2, <4>3
      <4>5. (n + 1) + 1 = n + 2
        OBVIOUS
      <4>6. g[n + 2] = f[n] + (t[k].height + Gap) + s[n + 1].height + Gap
        BY <4>1, <4>4, <4>5
      <4>7. PICK a \in Nat, b \in Nat, c \in Nat, d \in Nat :
                  a = f[n] /\ b = s[n + 1].height /\ c = t[k].height /\ d = Gap
        BY <1>3, <2>2
      <4>8. g[n + 2] = a + (c + d) + b + d /\ f[n + 1] = a + b + d
        BY <2>1, <4>6, <4>7
      <4>9. g[n + 2] = f[n + 1] + (c + d)
        BY <4>8
      <4> QED BY <4>7, <4>9
    <3> QED BY <1>3, <3>1, <3>2
  <2> QED BY <2>3, <2>4
<1> HIDE DEF G
<1>8. Len(s) \in G
  BY <1>3, <1>6, <1>7, Induction
<1>9. g[Len(s) + 1] = f[Len(s)] + C
  BY <1>3, <1>8 DEF G
<1> QED BY <1>1, <1>2, <1>3, <1>4, <1>9

\* The room for the replies.
LEMMA RoomForReplies ==
  ASSUME NEW ids, IsFiniteSet(ids)
  PROVE  /\ RoomOf(ids) \in Nat
         /\ \A id \in ids : RoomOf(ids) = RoomOf(ids \ {id}) + ReplyHeight + Gap
         /\ \A id : id \notin ids => RoomOf(ids \cup {id}) = RoomOf(ids) + ReplyHeight + Gap
<1> DEFINE C == ReplyHeight + Gap
<1>1. C \in Nat /\ ReplyHeight \in Nat /\ Gap \in Nat
  BY NumbersGiven
<1>2. Cardinality(ids) \in Nat
  BY FS_CardinalityType
<1>3. \A n \in Nat : C * n \in Nat /\ C * (n + 1) = C * n + C
  BY <1>1
<1>4. \A id \in ids : Cardinality(ids \ {id}) = Cardinality(ids) - 1 /\ IsFiniteSet(ids \ {id})
  BY FS_RemoveElement
<1>5. \A id : id \notin ids => Cardinality(ids \cup {id}) = Cardinality(ids) + 1
  BY FS_AddElement
<1>6. \A some : RoomOf(some) = C * Cardinality(some)
  BY DEF RoomOf
<1>7. ASSUME NEW id \in ids PROVE RoomOf(ids) = RoomOf(ids \ {id}) + ReplyHeight + Gap
  <2> DEFINE n == Cardinality(ids \ {id})
  <2>1. n \in Nat /\ Cardinality(ids) = n + 1
    BY <1>2, <1>4, FS_CardinalityType
  <2> HIDE DEF n
  <2>2. C * (n + 1) = C * n + C /\ C * n \in Nat
    BY <1>3, <2>1
  <2>3. RoomOf(ids) = C * (n + 1) /\ RoomOf(ids \ {id}) = C * n
    BY <1>6, <2>1 DEF n
  <2> QED BY <1>1, <2>2, <2>3
<1>8. ASSUME NEW id, id \notin ids PROVE RoomOf(ids \cup {id}) = RoomOf(ids) + ReplyHeight + Gap
  <2> DEFINE n == Cardinality(ids)
  <2>1. n \in Nat /\ Cardinality(ids \cup {id}) = n + 1
    BY <1>2, <1>5, <1>8
  <2> HIDE DEF n
  <2>2. C * (n + 1) = C * n + C /\ C * n \in Nat
    BY <1>3, <2>1
  <2>3. RoomOf(ids \cup {id}) = C * (n + 1) /\ RoomOf(ids) = C * n
    BY <1>6, <2>1 DEF n
  <2> QED BY <1>1, <2>2, <2>3
<1>9. RoomOf(ids) \in Nat
  BY <1>2, <1>3, <1>6
<1> QED BY <1>7, <1>8, <1>9

------------------------------------------------------------------------------
(* updateLayout.                                                           *)

Loop(h) == [bottom : Int, waiting : SUBSET DOMAIN h.replyList]

LEMMA HistoryFields ==
  ASSUME NEW h \in Histories
  PROVE  /\ h.messages \subseteq Info /\ h.list \in Seq(Widget) /\ Len(h.list) \in Nat
         /\ DOMAIN h.list = 1 .. Len(h.list) /\ h.replies \subseteq Reply
         /\ h.replyList \in [DOMAIN h.replyList -> Place]
         /\ DOMAIN h.replyList \subseteq Ids /\ DOMAIN h.replyList \subseteq Nat
         /\ h.left \in Int /\ h.minimum \in Int /\ h.surface \in Nat /\ h.top \in Nat
         /\ h.height \in Nat /\ h.undefined \in BOOLEAN
         /\ Size(h) = Len(h.list)
<1>1. /\ h.messages \subseteq Info /\ h.list \in Seq(Widget) /\ h.replies \subseteq Reply
      /\ h.replyList \in UNION {[S -> Place] : S \in SUBSET Ids}
      /\ h.left \in Int /\ h.minimum \in Int /\ h.surface \in Nat /\ h.top \in Nat
      /\ h.height \in Nat /\ h.undefined \in BOOLEAN
  BY DEF Histories
<1>2. PICK S \in SUBSET Ids : h.replyList \in [S -> Place]
  BY <1>1
<1>3. Len(h.list) \in Nat /\ DOMAIN h.list = 1 .. Len(h.list)
  BY <1>1
<1>4. Ids \subseteq Nat
  BY NumbersGiven
<1> QED BY <1>1, <1>2, <1>3, <1>4 DEF Size

\* The reply that is taken is one of those that wait.
LEMMA LargestWaits ==
  ASSUME NEW ids \in SUBSET Nat, IsFiniteSet(ids), NEW id \in LargestId(ids)
  PROVE  id \in ids
<1>1. ids # {} /\ id = Max(ids)
  BY DEF LargestId
<1> QED BY <1>1, Greatest

\* A message that is placed leaves room for the others and for the replies.
LEMMA AboveOne ==
  ASSUME NEW h \in Histories, IsFiniteSet(DOMAIN h.replyList), NEW at \in Loop(h), NEW message \in Widget
  PROVE  /\ Above(message, at) \in Loop(h)
         /\ Above(message, at).bottom <= at.bottom - message.height - Gap
         /\ \A x \in Nat : at.bottom >= x + message.height + Gap + RoomOf(at.waiting)
                => Above(message, at).bottom >= x + RoomOf(Above(message, at).waiting)
<1>1. /\ at.bottom \in Int /\ at.waiting \subseteq DOMAIN h.replyList /\ IsFiniteSet(at.waiting)
      /\ at.waiting \subseteq Nat
  BY HistoryFields, FS_Subset DEF Loop
<1>2. message.height \in Nat /\ Gap \in Nat /\ ReplyHeight \in Nat
  BY NumbersGiven DEF Widget
<1>3. CASE message.id \in LargestId(at.waiting)
  <2>1. message.id \in at.waiting
    BY <1>1, <1>3, LargestWaits
  <2>2. RoomOf(at.waiting) = RoomOf(at.waiting \ {message.id}) + ReplyHeight + Gap
    BY <1>1, <2>1, RoomForReplies
  <2>3. RoomOf(at.waiting \ {message.id}) \in Nat
    <3>1. IsFiniteSet(at.waiting \ {message.id})
      BY <1>1, FS_RemoveElement
    <3> QED BY <3>1, RoomForReplies
  <2>4. Above(message, at) = [bottom |-> at.bottom - message.height - Gap - ReplyHeight - Gap,
                              waiting |-> at.waiting \ {message.id}]
    BY <1>3 DEF Above
  <2>5. /\ Above(message, at).bottom = at.bottom - message.height - Gap - ReplyHeight - Gap
        /\ Above(message, at).waiting = at.waiting \ {message.id}
        /\ Above(message, at) \in Loop(h)
    BY <1>1, <1>2, <2>4 DEF Loop
  <2>6. PICK r \in Nat : r = RoomOf(at.waiting \ {message.id})
    BY <2>3
  <2> QED BY <1>1, <1>2, <2>2, <2>5, <2>6
<1>4. CASE message.id \notin LargestId(at.waiting)
  <2>1. Above(message, at) = [at EXCEPT !.bottom = at.bottom - message.height - Gap]
    BY <1>4 DEF Above
  <2>2. /\ Above(message, at).bottom = at.bottom - message.height - Gap
        /\ Above(message, at).waiting = at.waiting
        /\ Above(message, at) \in Loop(h)
    BY <1>1, <1>2, <2>1 DEF Loop
  <2>3. RoomOf(at.waiting) \in Nat
    BY <1>1, RoomForReplies
  <2>4. PICK r \in Nat : r = RoomOf(at.waiting)
    BY <2>3
  <2> QED BY <1>1, <1>2, <2>2, <2>4
<1> QED BY <1>3, <1>4

\* The loop: when it comes to a message there is room for it, and for the
\* replies that wait.
LEMMA BelowEach ==
  ASSUME NEW h \in Histories, IsFiniteSet(DOMAIN h.replyList), Roomy(h)
  PROVE  /\ \A i \in 1 .. Len(h.list) :
                /\ Below(h)[i] \in Loop(h)
                /\ Below(h)[i].bottom >= h.list[i].height + Gap + RoomOf(Below(h)[i].waiting)
         /\ \A i \in 2 .. Len(h.list) : Below(h)[i - 1] = Above(h.list[i], Below(h)[i])
<1> DEFINE n == Len(h.list)
           first == [bottom |-> h.surface, waiting |-> DOMAIN h.replyList]
           step == [k \in Nat |-> [at \in Loop(h) |->
                       IF k \in 1 .. n THEN Above(h.list[n - k + 1], at) ELSE at]]
<1>1. /\ n \in Nat /\ DOMAIN h.list = 1 .. n /\ Size(h) = n /\ h.list \in Seq(Widget)
      /\ h.surface \in Nat /\ Gap \in Nat
  BY HistoryFields, NumbersGiven
<1>2. first \in Loop(h) /\ first.bottom = h.surface /\ first.waiting = DOMAIN h.replyList
  BY <1>1 DEF Loop
<1>3. \A k \in 1 .. n : n - k + 1 \in 1 .. n /\ At(h, n - k) = h.list[n - k + 1]
  BY <1>1 DEF At
<1>4. step \in [Nat -> [Loop(h) -> Loop(h)]]
  <2>1. ASSUME NEW k \in Nat, NEW at \in Loop(h)
        PROVE  (IF k \in 1 .. n THEN Above(h.list[n - k + 1], at) ELSE at) \in Loop(h)
    <3>1. CASE k \in 1 .. n
      <4>1. h.list[n - k + 1] \in Widget
        BY <1>1, <1>3, <3>1, WidgetFields
      <4> QED BY <3>1, <4>1, AboveOne
    <3> QED BY <3>1
  <2> QED BY <2>1
<1>5. \A k \in Nat, at \in Loop(h) :
          step[k][at] = IF k \in 1 .. n THEN Above(h.list[n - k + 1], at) ELSE at
  OBVIOUS
<1> HIDE DEF step, n, first
<1>6. PICK g \in [0 .. n -> Loop(h)] : Recursive(g, first, step, n)
  BY <1>1, <1>2, <1>4, Recursion
<1>7. g[0] = first /\ \A k \in 1 .. n : g[k] = Above(At(h, n - k), g[k - 1])
  <2>1. g[0] = first
    BY <1>1, <1>6 DEF Recursive
  <2>2. ASSUME NEW k \in 1 .. n PROVE g[k] = Above(At(h, n - k), g[k - 1])
    <3>1. k \in Nat /\ k \in 0 .. n /\ k # 0 /\ k - 1 \in 0 .. n
      BY <1>1
    <3>2. g[k] = step[k][g[k - 1]] /\ g[k - 1] \in Loop(h)
      BY <1>6, <3>1 DEF Recursive
    <3>3. step[k][g[k - 1]] = Above(h.list[n - k + 1], g[k - 1])
      BY <1>5, <3>1, <3>2
    <3> QED BY <1>3, <3>2, <3>3
  <2> QED BY <2>1, <2>2
<1>8. g = [k \in 0 .. n |-> IF k = 0 THEN first ELSE Above(At(h, n - k), g[k - 1])]
  <2>1. \A k \in 0 .. n : g[k] = IF k = 0 THEN first ELSE Above(At(h, n - k), g[k - 1])
    BY <1>1, <1>7
  <2> QED BY <1>6, <2>1
<1>9. PICK f : /\ f = [k \in 0 .. n |-> IF k = 0 THEN first ELSE Above(At(h, n - k), f[k - 1])]
               /\ Below(h) = [i \in DOMAIN h.list |-> f[n - i]]
  <2> DEFINE D(f) == f = [k \in 0 .. n |-> IF k = 0 THEN first ELSE Above(At(h, n - k), f[k - 1])]
             c == CHOOSE f : D(f)
  <2>1. D(c)
    BY <1>8
  <2>2. Below(h) = [i \in DOMAIN h.list |-> c[n - i]]
    BY <1>1 DEF Below, first
  <2> QED BY <2>1, <2>2
<1>10. ASSUME NEW k \in 0 .. n PROVE f[k] = g[k]
  <2> DEFINE G == {m \in Nat : m <= n => f[m] = g[m]}
  <2>1. 0 \in G
    BY <1>1, <1>7, <1>9
  <2>2. ASSUME NEW m \in Nat, m \in G PROVE m + 1 \in G
    <3> SUFFICES ASSUME m + 1 <= n PROVE f[m + 1] = g[m + 1]
      OBVIOUS
    <3> DEFINE j == m + 1
    <3>1. j \in 0 .. n /\ j \in 1 .. n /\ j # 0 /\ j - 1 = m /\ f[m] = g[m]
      BY <1>1, <2>2
    <3> HIDE DEF j
    <3>2. f[j] = g[j]
      BY <1>7, <1>9, <3>1
    <3> QED BY <3>2 DEF j
  <2> HIDE DEF G
  <2>3. k \in G
    BY <2>1, <2>2, Induction
  <2> QED BY <1>1, <2>3 DEF G
<1>11. \A i \in 1 .. n : Below(h)[i] = g[n - i]
  <2>1. \A i \in 1 .. n : n - i \in 0 .. n
    BY <1>1
  <2> QED BY <1>1, <1>9, <1>10, <2>1
<1>12. PICK sum : IsSum(sum, h.list) /\ Heights(h.list) = sum[n]
  BY <1>1, SumTable DEF n
<1>13. \A k \in 0 .. n : sum[k] \in Nat
  BY <1>12 DEF IsSum, n
<1> DEFINE G == {m \in Nat : m <= n => g[m].bottom >= sum[n - m] + RoomOf(g[m].waiting)}
<1>14. 0 \in G
  <2>1. h.surface >= Heights(h.list) + RoomOf(DOMAIN h.replyList)
    BY DEF Roomy
  <2>2. n - 0 = n
    BY <1>1
  <2> QED BY <1>2, <1>7, <1>12, <2>1, <2>2
<1>15. ASSUME NEW m \in Nat, m \in G PROVE m + 1 \in G
  <2> SUFFICES ASSUME m + 1 <= n PROVE g[m + 1].bottom >= sum[n - (m + 1)] + RoomOf(g[m + 1].waiting)
    OBVIOUS
  <2> DEFINE i == n - m
             k == m + 1
  <2>1. i \in 1 .. n /\ k \in 1 .. n /\ n - k = i - 1 /\ k - 1 = m /\ i - 1 \in Nat /\ (i - 1) + 1 = i
        /\ i - 1 \in 0 .. n /\ m \in 0 .. n
    BY <1>1
  <2>2. g[m].bottom >= sum[i] + RoomOf(g[m].waiting)
    BY <1>15, <2>1
  <2> HIDE DEF i, k
  <2>3. sum[i] = sum[i - 1] + h.list[i].height + Gap
    BY <1>1, <1>12, <2>1 DEF IsSum, n
  <2>4. g[k] = Above(h.list[i], g[m])
    <3>1. At(h, n - k) = h.list[i]
      BY <2>1 DEF At
    <3> QED BY <1>7, <2>1, <3>1
  <2>5. h.list[i] \in Widget /\ g[m] \in Loop(h) /\ sum[i - 1] \in Nat
    BY <1>1, <1>6, <1>13, <2>1, WidgetFields DEF n
  <2>6. g[k].bottom >= sum[i - 1] + RoomOf(g[k].waiting)
    BY <2>2, <2>3, <2>4, <2>5, AboveOne
  <2> QED BY <2>1, <2>6 DEF k
<1> HIDE DEF G
<1>16. Nat \subseteq G
  BY <1>14, <1>15, Induction
<1>17. ASSUME NEW i \in 1 .. n
       PROVE  /\ Below(h)[i] \in Loop(h)
              /\ Below(h)[i].bottom >= h.list[i].height + Gap + RoomOf(Below(h)[i].waiting)
  <2>1. n - i \in 0 .. n /\ n - i \in Nat /\ n - i <= n /\ n - (n - i) = i /\ i - 1 \in 0 .. n
    BY <1>1
  <2>2. Below(h)[i] = g[n - i] /\ g[n - i] \in Loop(h)
    BY <1>6, <1>11, <2>1
  <2>3. g[n - i].bottom >= sum[i] + RoomOf(g[n - i].waiting)
    <3>1. n - i \in G
      BY <1>16, <2>1
    <3>2. g[n - i].bottom >= sum[n - (n - i)] + RoomOf(g[n - i].waiting)
      BY <2>1, <3>1 DEF G
    <3> QED BY <2>1, <3>2
  <2>4. sum[i] = sum[i - 1] + h.list[i].height + Gap
    BY <1>1, <1>12 DEF IsSum, n
  <2>5. sum[i - 1] \in Nat /\ h.list[i].height \in Nat
    BY <1>1, <1>13, <2>1, WidgetFields DEF n
  <2>6. RoomOf(g[n - i].waiting) \in Nat /\ g[n - i].bottom \in Int
    <3>1. IsFiniteSet(g[n - i].waiting) /\ g[n - i].bottom \in Int
      BY <2>2, FS_Subset DEF Loop
    <3> QED BY <3>1, RoomForReplies
  <2>7. PICK a \in Nat, b \in Nat, c \in Nat, r \in Nat, d \in Int :
            /\ a = sum[i - 1] /\ b = h.list[i].height /\ c = Gap /\ r = RoomOf(g[n - i].waiting)
            /\ d = g[n - i].bottom
    BY <1>1, <2>5, <2>6
  <2>8. d >= (a + b + c) + r
    BY <2>3, <2>4, <2>7
  <2>9. d >= b + c + r
    BY <2>8
  <2> QED BY <2>2, <2>7, <2>9
<1>18. ASSUME NEW i \in 2 .. n PROVE Below(h)[i - 1] = Above(h.list[i], Below(h)[i])
  <2> DEFINE k == n - (i - 1)
  <2>1. i \in 1 .. n /\ i - 1 \in 1 .. n /\ k \in 1 .. n /\ k - 1 = n - i /\ n - k = i - 1 /\ (i - 1) + 1 = i
    BY <1>1
  <2>2. Below(h)[i - 1] = g[k] /\ Below(h)[i] = g[n - i]
    BY <1>11, <2>1
  <2> HIDE DEF k
  <2>3. At(h, n - k) = h.list[i]
    BY <2>1 DEF At
  <2> QED BY <1>7, <2>1, <2>2, <2>3
<1> QED BY <1>17, <1>18 DEF n

\* Where updateLayout puts the widgets.
LEMMA PlacedWidgets ==
  ASSUME NEW h, Fits(h)
  PROVE  /\ Placed(h).list \in Seq(Widget) /\ Len(Placed(h).list) = Len(h.list)
         /\ \A i \in 1 .. Len(h.list) :
                /\ Placed(h).list[i].id = h.list[i].id /\ Placed(h).list[i].time = h.list[i].time
                /\ Placed(h).list[i].height = h.list[i].height
                /\ Placed(h).list[i].y = Below(h)[i].bottom - h.list[i].height
<1>1. h \in Histories /\ h.list \in Seq(Widget) /\ DOMAIN h.list = 1 .. Len(h.list) /\ Len(h.list) \in Nat
  BY HistoryFields DEF Fits
<1> DEFINE y(i) == Below(h)[i].bottom - h.list[i].height
           widgets == [i \in DOMAIN h.list |-> [h.list[i] EXCEPT !.y = y(i)]]
<1>2. Placed(h).list = widgets
  BY <1>1 DEF Placed, Histories
<1>3. ASSUME NEW i \in 1 .. Len(h.list)
      PROVE  /\ widgets[i] \in Widget /\ widgets[i].id = h.list[i].id /\ widgets[i].time = h.list[i].time
             /\ widgets[i].height = h.list[i].height /\ widgets[i].y = Below(h)[i].bottom - h.list[i].height
  <2>1. h.list[i] \in Widget /\ h.list[i].height \in Nat
    BY <1>1, WidgetFields
  <2>2. Below(h)[i].bottom \in Int
    BY <1>1, BelowEach DEF Fits, Loop
  <2>3. widgets[i] = [h.list[i] EXCEPT !.y = y(i)]
    BY <1>1
  <2>4. y(i) \in Int
    BY <2>1, <2>2
  <2> QED BY <2>1, <2>3, <2>4 DEF Widget
<1> HIDE DEF widgets
<1>4. widgets \in Seq(Widget) /\ Len(widgets) = Len(h.list)
  <2>1. widgets \in [1 .. Len(h.list) -> Widget]
    BY <1>1, <1>3 DEF widgets
  <2> QED BY <1>1, <2>1
<1> QED BY <1>2, <1>3, <1>4

\* A reply is left where it was, or it is placed above its message.
LEMMA PlacedReplies ==
  ASSUME NEW h, Fits(h)
  PROVE  /\ Placed(h).replyList \in [DOMAIN h.replyList -> Place]
         /\ \A id \in DOMAIN h.replyList : Placed(h).replyList[id].y >= 0
<1>1. /\ h \in Histories /\ h.list \in Seq(Widget) /\ DOMAIN h.list = 1 .. Len(h.list) /\ Len(h.list) \in Nat
      /\ h.replyList \in [DOMAIN h.replyList -> Place] /\ DOMAIN h.replyList \subseteq Nat
      /\ IsFiniteSet(DOMAIN h.replyList)
  BY HistoryFields DEF Fits
<1> DEFINE at == Below(h)
           y(i) == at[i].bottom - h.list[i].height
           replies == {i \in DOMAIN h.list : h.list[i].id \in LargestId(at[i].waiting)}
           replyOf(id) == {i \in replies : h.list[i].id = id}
           reply(id) == IF replyOf(id) = {} THEN h.replyList[id]
                        ELSE [y |-> y(Max(replyOf(id))) - Gap - ReplyHeight]
<1>2. Placed(h).replyList = [id \in DOMAIN h.replyList |-> reply(id)]
  BY <1>1 DEF Placed, Histories
<1>3. ASSUME NEW id \in DOMAIN h.replyList PROVE reply(id) \in Place /\ reply(id).y >= 0
  <2>1. CASE replyOf(id) = {}
    <3>1. reply(id) = h.replyList[id]
      BY <2>1
    <3>2. h.replyList[id] \in Place /\ h.replyList[id].y >= 0
      BY <1>1 DEF Fits
    <3> QED BY <3>1, <3>2
  <2>2. CASE replyOf(id) # {}
    <3> DEFINE i == Max(replyOf(id))
    <3>1. replyOf(id) \in SUBSET (1 .. Len(h.list)) /\ replyOf(id) \in SUBSET Nat
      BY <1>1
    <3>2. IsFiniteSet(replyOf(id))
      <4>1. IsFiniteSet(1 .. Len(h.list))
        BY <1>1, FS_Interval
      <4> QED BY <3>1, <4>1, FS_Subset
    <3>3. i \in replyOf(id)
      BY <2>2, <3>1, <3>2, Greatest
    <3>4. i \in 1 .. Len(h.list) /\ h.list[i].id \in LargestId(at[i].waiting)
      BY <1>1, <3>3
    <3>5. reply(id) = [y |-> y(i) - Gap - ReplyHeight]
      BY <2>2
    <3> HIDE DEF i, at, reply, y
    <3>6. /\ at[i] \in Loop(h) /\ at[i].bottom >= h.list[i].height + Gap + RoomOf(at[i].waiting)
      BY <1>1, <3>4, BelowEach DEF Fits, at
    <3>7. at[i].bottom \in Int /\ at[i].waiting \in SUBSET Nat /\ IsFiniteSet(at[i].waiting)
      BY <1>1, <3>6, FS_Subset DEF Loop
    <3>8. h.list[i].id \in at[i].waiting
      BY <3>4, <3>7, LargestWaits
    <3>9. /\ RoomOf(at[i].waiting) = RoomOf(at[i].waiting \ {h.list[i].id}) + ReplyHeight + Gap
          /\ RoomOf(at[i].waiting \ {h.list[i].id}) \in Nat
      <4>1. IsFiniteSet(at[i].waiting \ {h.list[i].id})
        BY <3>7, FS_RemoveElement
      <4> QED BY <3>7, <3>8, <4>1, RoomForReplies
    <3>10. h.list[i].height \in Nat /\ Gap \in Nat /\ ReplyHeight \in Nat
      BY <1>1, <3>4, WidgetFields, NumbersGiven
    <3>11. PICK a \in Int, b \in Nat, c \in Nat, d \in Nat, r \in Nat :
               /\ a = at[i].bottom /\ b = h.list[i].height /\ c = Gap /\ d = ReplyHeight
               /\ r = RoomOf(at[i].waiting \ {h.list[i].id})
      BY <3>7, <3>9, <3>10
    <3>12. a >= b + c + (r + d + c)
      BY <3>6, <3>9, <3>11
    <3>13. a - b - c - d \in Int /\ a - b - c - d >= 0
      BY <3>12
    <3>14. y(i) - Gap - ReplyHeight = a - b - c - d
      BY <3>11 DEF y
    <3> QED BY <3>5, <3>13, <3>14 DEF Place
  <2> QED BY <2>1, <2>2
<1> HIDE DEF reply
<1> QED BY <1>2, <1>3

\* updateLayout keeps what is there, and puts it below each other.
LEMMA PlacedKeeps ==
  ASSUME NEW h, Fits(h)
  PROVE  /\ Fits(Placed(h)) /\ LaidOut(Placed(h).list)
         /\ Placed(h).left = h.left /\ Len(Placed(h).list) = Len(h.list)
         /\ Placed(h).top = h.top /\ Placed(h).height = h.height /\ Placed(h).surface = h.surface
         /\ Placed(h).messages = h.messages
         /\ \A i \in 1 .. Len(h.list) : Placed(h).list[i].id = h.list[i].id
<1> DEFINE p == Placed(h)
<1>1. h \in Histories /\ IsFiniteSet(DOMAIN h.replyList)
  BY DEF Fits
<1>2. /\ p.list \in Seq(Widget) /\ Len(p.list) = Len(h.list)
      /\ \A i \in 1 .. Len(h.list) :
             /\ p.list[i].id = h.list[i].id /\ p.list[i].time = h.list[i].time
             /\ p.list[i].height = h.list[i].height
             /\ p.list[i].y = Below(h)[i].bottom - h.list[i].height
  BY PlacedWidgets
<1>3. /\ p.replyList \in [DOMAIN h.replyList -> Place]
      /\ \A id \in DOMAIN h.replyList : p.replyList[id].y >= 0
  BY PlacedReplies
<1>4. p = [h EXCEPT !.list = p.list, !.replyList = p.replyList]
  BY <1>1 DEF Placed, Histories
<1>5. /\ p.messages = h.messages /\ p.replies = h.replies /\ p.left = h.left /\ p.minimum = h.minimum
      /\ p.surface = h.surface /\ p.top = h.top /\ p.height = h.height /\ p.undefined = h.undefined
  BY <1>1, <1>4 DEF Histories
<1> HIDE DEF p
<1>6. DOMAIN p.replyList = DOMAIN h.replyList /\ DOMAIN h.replyList \in SUBSET Ids
  BY <1>1, <1>3, HistoryFields
<1>7. p \in Histories
  <2>1. p.replyList \in UNION {[S -> Place] : S \in SUBSET Ids}
    BY <1>3, <1>6
  <2> QED BY <1>1, <1>2, <1>4, <2>1 DEF Histories
<1>8. DOMAIN p.list = 1 .. Len(h.list) /\ DOMAIN h.list = 1 .. Len(h.list) /\ Len(h.list) \in Nat
      /\ h.list \in Seq(Widget)
  BY <1>1, <1>2, HistoryFields
<1>9. Matched(p.messages, p.list)
  <2>1. {p.list[i].id : i \in DOMAIN p.list} = {h.list[i].id : i \in DOMAIN h.list}
    BY <1>2, <1>8
  <2>2. \A i, j \in DOMAIN p.list : i < j => p.list[i].id # p.list[j].id /\ p.list[i].time <= p.list[j].time
    <3>1. \A i, j \in DOMAIN h.list : i < j => h.list[i].id # h.list[j].id /\ h.list[i].time <= h.list[j].time
      BY DEF Fits, Matched
    <3> QED BY <1>2, <1>8, <3>1
  <2>3. /\ \A m, n \in h.messages : m.id = n.id => m = n
        /\ {m.id : m \in h.messages} = {h.list[i].id : i \in DOMAIN h.list}
    BY DEF Fits, Matched
  <2>4. /\ \A m, n \in p.messages : m.id = n.id => m = n
        /\ {m.id : m \in p.messages} = {p.list[i].id : i \in DOMAIN p.list}
    BY <1>5, <2>1, <2>3
  <2> QED BY <2>2, <2>4 DEF Matched
<1>10. Roomy(p)
  <2>1. Heights(p.list) = Heights(h.list)
    BY <1>2, <1>8, SameHeights
  <2> QED BY <1>5, <1>6, <2>1 DEF Fits, Roomy
<1>11. Fits(p)
  BY <1>1, <1>3, <1>6, <1>7, <1>9, <1>10 DEF Fits
<1>12. ASSUME NEW i \in 1 .. Len(h.list)
       PROVE  p.list[i].y >= 0 /\ (i > 1 => p.list[i].y >= p.list[i - 1].y + p.list[i - 1].height + Gap)
  <2>1. /\ Below(h)[i] \in Loop(h)
        /\ Below(h)[i].bottom >= h.list[i].height + Gap + RoomOf(Below(h)[i].waiting)
    BY BelowEach DEF Fits
  <2>2. Below(h)[i].bottom \in Int /\ RoomOf(Below(h)[i].waiting) \in Nat
    <3>1. IsFiniteSet(Below(h)[i].waiting) /\ Below(h)[i].bottom \in Int
      BY <1>1, <2>1, FS_Subset DEF Loop
    <3> QED BY <3>1, RoomForReplies
  <2>3. h.list[i] \in Widget /\ h.list[i].height \in Nat /\ Gap \in Nat
    BY <1>8, WidgetFields, NumbersGiven
  <2>4. p.list[i].y = Below(h)[i].bottom - h.list[i].height
    BY <1>2
  <2>5. PICK a \in Int, b \in Nat, c \in Nat, r \in Nat :
            a = Below(h)[i].bottom /\ b = h.list[i].height /\ c = Gap /\ r = RoomOf(Below(h)[i].waiting)
    BY <2>2, <2>3
  <2>6. p.list[i].y = a - b /\ a >= b + c + r
    BY <2>1, <2>4, <2>5
  <2>7. p.list[i].y >= 0
    BY <2>6
  <2>8. ASSUME i > 1 PROVE p.list[i].y >= p.list[i - 1].y + p.list[i - 1].height + Gap
    <3> DEFINE j == i - 1
    <3>1. i \in 2 .. Len(h.list) /\ j \in 1 .. Len(h.list)
      BY <1>8, <2>8
    <3> HIDE DEF j
    <3>2. Below(h)[j] = Above(h.list[i], Below(h)[i])
      BY <1>1, <3>1, BelowEach DEF Fits, j
    <3>3. Below(h)[j].bottom <= Below(h)[i].bottom - h.list[i].height - Gap /\ Below(h)[j].bottom \in Int
      BY <1>1, <2>1, <2>3, <3>2, AboveOne DEF Loop
    <3>4. p.list[j].y = Below(h)[j].bottom - h.list[j].height /\ p.list[j].height = h.list[j].height
      BY <1>2, <3>1
    <3>5. PICK d \in Int, e \in Nat : d = Below(h)[j].bottom /\ e = h.list[j].height
      BY <1>8, <3>1, <3>3, WidgetFields
    <3>6. p.list[j].y = d - e /\ p.list[j].height = e /\ d <= a - b - c
      BY <2>5, <3>3, <3>4, <3>5
    <3>7. a - b >= (d - e) + e + c
      BY <3>6
    <3> QED BY <2>5, <2>6, <3>6, <3>7 DEF j
  <2> QED BY <2>7, <2>8
<1>13. LaidOut(p.list)
  BY <1>8, <1>12 DEF LaidOut
<1> QED BY <1>2, <1>5, <1>11, <1>13 DEF p

------------------------------------------------------------------------------
(* findVisible.                                                            *)

\* The search ends at a message, whatever it looks at.
LEMMA MiddleIsAnIndex ==
  ASSUME NEW h \in Histories, h.list # <<>>
  PROVE  Middle(h) \in 0 .. Size(h) - 1
<1> DEFINE n == Size(h)
           Ranges == {r \in [left : 0 .. n, right : 0 .. n] : r.left < r.right}
           first == [left |-> 0, right |-> n]
           step == [k \in Nat |-> [r \in Ranges |-> Narrowed(h, r)]]
<1>1. n \in Nat /\ n > 0
  <2>1. h.list \in Seq(Widget) /\ n = Len(h.list)
    BY HistoryFields
  <2> QED BY <2>1
<1>2. first \in Ranges
  BY <1>1
<1>3. ASSUME NEW r \in Ranges PROVE Narrowed(h, r) \in Ranges
  <2> DEFINE middle == (r.right + r.left) \div 2
  <2>1. /\ r.left \in 0 .. n /\ r.right \in 0 .. n /\ r.left < r.right
        /\ r \in [left : 0 .. n, right : 0 .. n]
    OBVIOUS
  <2>2. r.right - r.left > 1 => middle \in 0 .. n /\ r.left < middle /\ middle < r.right
    BY <1>1, <2>1
  <2> HIDE DEF middle
  <2>3. \/ Narrowed(h, r) = r
        \/ r.right - r.left > 1 /\ Narrowed(h, r) = [r EXCEPT !.left = middle]
        \/ r.right - r.left > 1 /\ Narrowed(h, r) = [r EXCEPT !.right = middle]
    <3> DEFINE probe == Upper(h, (r.right - r.left) \div 2)
    <3>1. r.right - r.left <= 1 \/ r.right - r.left > 1
      BY <1>1, <2>1
    <3>2. Narrowed(h, r) = IF probe \in h.top .. Bottom(h) \/ r.right - r.left <= 1 THEN r
                           ELSE IF probe < h.top THEN [r EXCEPT !.left = middle]
                                                 ELSE [r EXCEPT !.right = middle]
      BY Zenon DEF Narrowed, middle
    <3> HIDE DEF probe
    <3> QED BY <3>1, <3>2, Zenon
  <2>4. CASE Narrowed(h, r) = r
    BY <2>4
  <2>5. CASE r.right - r.left > 1 /\ Narrowed(h, r) = [r EXCEPT !.left = middle]
    <3>1. [r EXCEPT !.left = middle] = [left |-> middle, right |-> r.right]
      BY <2>1
    <3> QED BY <2>1, <2>2, <2>5, <3>1
  <2>6. CASE r.right - r.left > 1 /\ Narrowed(h, r) = [r EXCEPT !.right = middle]
    <3>1. [r EXCEPT !.right = middle] = [left |-> r.left, right |-> middle]
      BY <2>1
    <3> QED BY <2>1, <2>2, <2>6, <3>1
  <2> QED BY <2>3, <2>4, <2>5, <2>6
<1>4. step \in [Nat -> [Ranges -> Ranges]]
  BY <1>3
<1>5. \A k \in Nat, r \in Ranges : step[k][r] = Narrowed(h, r)
  OBVIOUS
<1>6. n = Size(h) /\ first = [left |-> 0, right |-> Size(h)]
  OBVIOUS
<1>7. \A r \in Ranges : r.left \in 0 .. n /\ r.right \in 0 .. n /\ r.left < r.right
  OBVIOUS
<1> HIDE DEF step, Ranges, first, n
<1>8. PICK g \in [0 .. n -> Ranges] : Recursive(g, first, step, n)
  BY <1>1, <1>2, <1>4, Recursion
<1>9. g = [k \in 0 .. n |-> IF k = 0 THEN first ELSE Narrowed(h, g[k - 1])]
  <2>1. ASSUME NEW k \in 0 .. n PROVE g[k] = IF k = 0 THEN first ELSE Narrowed(h, g[k - 1])
    <3>1. k \in Nat /\ (k # 0 => k - 1 \in 0 .. n)
      BY <1>1
    <3>2. g[k] = IF k = 0 THEN first ELSE step[k][g[k - 1]]
      BY <1>8 DEF Recursive
    <3> QED BY <1>5, <1>8, <3>1, <3>2
  <2> QED BY <1>8, <2>1
<1> DEFINE D(f) == f = [k \in 0 .. n |-> IF k = 0 THEN first ELSE Narrowed(h, f[k - 1])]
           c == CHOOSE f : D(f)
<1>10. D(c)
  BY <1>9
<1>11. Halved(h) = c[n]
  BY <1>6 DEF Halved
<1> HIDE DEF c
<1>12. ASSUME NEW k \in 0 .. n PROVE c[k] = g[k]
  <2> DEFINE G == {m \in Nat : m <= n => c[m] = g[m]}
  <2>1. 0 \in G
    BY <1>1, <1>9, <1>10
  <2>2. ASSUME NEW m \in Nat, m \in G PROVE m + 1 \in G
    <3> SUFFICES ASSUME m + 1 <= n PROVE c[m + 1] = g[m + 1]
      OBVIOUS
    <3> DEFINE j == m + 1
    <3>1. j \in 0 .. n /\ j # 0 /\ j - 1 = m /\ c[m] = g[m]
      BY <1>1, <2>2
    <3> HIDE DEF j
    <3>2. c[j] = Narrowed(h, c[j - 1]) /\ g[j] = Narrowed(h, g[j - 1])
      BY <1>9, <1>10, <3>1
    <3> QED BY <3>1, <3>2 DEF j
  <2> HIDE DEF G
  <2>3. k \in G
    BY <2>1, <2>2, Induction
  <2> QED BY <1>1, <2>3 DEF G
<1>13. Halved(h) \in Ranges
  <2>1. n \in 0 .. n
    BY <1>1
  <2> QED BY <1>8, <1>11, <1>12, <2>1
<1>14. PICK l \in 0 .. n, r \in 0 .. n : l = Halved(h).left /\ r = Halved(h).right /\ l < r
  BY <1>7, <1>13
<1>15. (r + l) \div 2 \in 0 .. n - 1
  BY <1>1, <1>14
<1> QED BY <1>6, <1>14, <1>15 DEF Middle

LEMMA AheadIsAnIndex ==
  ASSUME NEW h, NEW n \in Nat, NEW m \in 0 .. n - 1
  PROVE  Ahead(h, m) \in 0 .. n - 1
<1> DEFINE S == {0} \cup {i - 1 : i \in {j \in 1 .. m - 1 : UpperEnd(h, j) <= h.top}}
<1>1. S \in SUBSET (0 .. n - 1) /\ S \in SUBSET Nat /\ S # {}
  OBVIOUS
<1>2. IsFiniteSet(S)
  <2>1. IsFiniteSet(0 .. n - 1)
    BY FS_Interval
  <2> QED BY <1>1, <2>1, FS_Subset
<1>3. Ahead(h, m) = IF UpperEnd(h, m) <= h.top THEN m ELSE Max(S)
  BY DEF Ahead
<1> HIDE DEF S
<1>4. Max(S) \in S
  BY <1>1, <1>2, Greatest
<1> QED BY <1>1, <1>3, <1>4

LEMMA FoundLeft ==
  ASSUME NEW h \in Histories, h.list # <<>>
  PROVE  FindVisible(h).left \in 0 .. Len(h.list) - 1
<1>1. Size(h) \in Nat /\ Size(h) = Len(h.list)
  BY HistoryFields
<1> QED BY <1>1, MiddleIsAnIndex, AheadIsAnIndex DEF FindVisible

\* What is laid out comes in the order of the list.
LEMMA Spaced ==
  ASSUME NEW h \in Histories, LaidOut(h.list), NEW i \in 0 .. Size(h) - 1, NEW j \in 0 .. Size(h) - 1, i < j
  PROVE  At(h, j).y >= At(h, i).y + At(h, i).height + Gap
<1>1. /\ Size(h) = Len(h.list) /\ Size(h) \in Nat /\ DOMAIN h.list = 1 .. Len(h.list)
      /\ h.list \in Seq(Widget) /\ Gap \in Nat
  BY HistoryFields, NumbersGiven
<1>2. ASSUME NEW k \in 0 .. Size(h) - 1
      PROVE  At(h, k) = h.list[k + 1] /\ At(h, k).y \in Int /\ At(h, k).height \in Nat
  <2>1. k + 1 \in 1 .. Len(h.list)
    BY <1>1
  <2> QED BY <1>1, <2>1, WidgetFields DEF At
<1> DEFINE G == {d \in Nat : i + d + 1 <= Size(h) - 1
                     => At(h, i + d + 1).y >= At(h, i).y + At(h, i).height + Gap}
<1>3. ASSUME NEW k \in 0 .. Size(h) - 2 PROVE At(h, k + 1).y >= At(h, k).y + At(h, k).height + Gap
  <2> DEFINE l == k + 2
  <2>1. l \in DOMAIN h.list /\ l > 1 /\ l - 1 = k + 1 /\ (k + 1) + 1 = l
    <3>1. l \in 1 .. Size(h) /\ l > 1 /\ l - 1 = k + 1 /\ (k + 1) + 1 = l
      BY <1>1
    <3> QED BY <1>1, <3>1
  <2> HIDE DEF l
  <2>2. h.list[l].y >= h.list[l - 1].y + h.list[l - 1].height + Gap
    BY <2>1 DEF LaidOut
  <2> QED BY <2>1, <2>2 DEF At
<1>4. 0 \in G
  <2> SUFFICES ASSUME i + 0 + 1 <= Size(h) - 1
               PROVE  At(h, i + 0 + 1).y >= At(h, i).y + At(h, i).height + Gap
    OBVIOUS
  <2>1. i \in 0 .. Size(h) - 2 /\ i + 0 + 1 = i + 1
    BY <1>1
  <2> QED BY <1>3, <2>1
<1>5. ASSUME NEW d \in Nat, d \in G PROVE d + 1 \in G
  <2> SUFFICES ASSUME i + (d + 1) + 1 <= Size(h) - 1
               PROVE  At(h, i + (d + 1) + 1).y >= At(h, i).y + At(h, i).height + Gap
    OBVIOUS
  <2> DEFINE k == i + d + 1
  <2>1. k \in 0 .. Size(h) - 2 /\ k \in 0 .. Size(h) - 1 /\ k + 1 \in 0 .. Size(h) - 1 /\ i + (d + 1) + 1 = k + 1
    BY <1>1
  <2>2. At(h, k).y >= At(h, i).y + At(h, i).height + Gap
    BY <1>1, <1>5
  <2> HIDE DEF k
  <2>3. At(h, k + 1).y >= At(h, k).y + At(h, k).height + Gap
    BY <1>3, <2>1
  <2>4. PICK a \in Int, b \in Nat, c \in Int, e \in Nat, f \in Int :
            /\ a = At(h, i).y /\ b = At(h, i).height /\ c = At(h, k).y /\ e = At(h, k).height
            /\ f = At(h, k + 1).y
    <3>1. At(h, i).y \in Int /\ At(h, i).height \in Nat
      BY <1>2
    <3>2. At(h, k).y \in Int /\ At(h, k).height \in Nat /\ At(h, k + 1).y \in Int
      BY <1>2, <2>1
    <3> QED BY <3>1, <3>2
  <2>5. f >= a + b + Gap
    <3>1. c >= a + b + Gap /\ f >= c + e + Gap
      BY <2>2, <2>3, <2>4
    <3> QED BY <1>1, <3>1
  <2> QED BY <2>1, <2>4, <2>5
<1> HIDE DEF G
<1>6. j - i - 1 \in G
  <2>1. j - i - 1 \in Nat
    BY <1>1
  <2> QED BY <1>4, <1>5, <2>1, Induction
<1>7. i + (j - i - 1) + 1 = j
  BY <1>1
<1> QED BY <1>1, <1>6, <1>7 DEF G

\* The two scans stop behind and ahead of all that is seen.
LEMMA ScansFind ==
  ASSUME NEW h \in Histories, LaidOut(h.list), RepliesInPlace(h),
         NEW m \in 0 .. Size(h) - 1, NEW i \in 0 .. Size(h) - 1, InSight(h, i)
  PROVE  i \in Ahead(h, m) .. Behind(h, m)
<1>1. /\ Size(h) = Len(h.list) /\ Size(h) \in Nat /\ h.list \in Seq(Widget)
      /\ Gap \in Nat /\ ReplyHeight \in Nat /\ h.top \in Int /\ Bottom(h) \in Int
  BY HistoryFields, NumbersGiven DEF Bottom
<1>2. ASSUME NEW k \in 0 .. Size(h) - 1
      PROVE  /\ At(h, k).y \in Int /\ At(h, k).height \in Nat
             /\ Upper(h, k) \in Int /\ Upper(h, k) <= At(h, k).y
             /\ UpperEnd(h, k) \in Int
             /\ UpperEnd(h, k) >= At(h, k).y - Gap
  <2>1. k + 1 \in 1 .. Len(h.list)
    BY <1>1
  <2>2. At(h, k).y \in Int /\ At(h, k).height \in Nat
    BY <1>1, <2>1, WidgetFields DEF At
  <2>3. CASE HasReply(h, k)
    <3>1. h.replyList[At(h, k).id].y = At(h, k).y - Gap - ReplyHeight
      BY <2>3 DEF RepliesInPlace
    <3>2. /\ Upper(h, k) = h.replyList[At(h, k).id].y
          /\ UpperEnd(h, k) = h.replyList[At(h, k).id].y + ReplyHeight
      BY <2>3 DEF Upper, UpperEnd
    <3>3. PICK a \in Int : a = At(h, k).y
      BY <2>2
    <3>4. PICK b \in Int : b = a - Gap - ReplyHeight /\ b <= a /\ b + ReplyHeight \in Int /\ b + ReplyHeight >= a - Gap
      BY <1>1
    <3>5. Upper(h, k) = b /\ UpperEnd(h, k) = b + ReplyHeight
      BY <3>1, <3>2, <3>3, <3>4
    <3> QED BY <2>2, <3>3, <3>4, <3>5
  <2>4. CASE ~HasReply(h, k)
    <3>1. Upper(h, k) = At(h, k).y /\ UpperEnd(h, k) = At(h, k).y + At(h, k).height
      BY <2>4 DEF Upper, UpperEnd
    <3>2. PICK a \in Int, b \in Nat : a = At(h, k).y /\ b = At(h, k).height
      BY <2>2
    <3>3. Upper(h, k) = a /\ UpperEnd(h, k) = a + b
      BY <3>1, <3>2
    <3>4. a + b \in Int /\ a + b >= a - Gap
      BY <1>1
    <3> QED BY <2>2, <3>2, <3>3, <3>4
  <2> QED BY <2>3, <2>4
<1>3. At(h, i).y < Bottom(h) /\ At(h, i).y + At(h, i).height > h.top
  BY DEF InSight
\* A message below one whose upper edge is out of sight is out of sight.
<1>4. ASSUME NEW k \in 0 .. Size(h) - 1, Upper(h, k) >= Bottom(h) PROVE i < k
  <2> SUFFICES ASSUME i >= k PROVE FALSE
    BY <1>1
  <2>1. CASE i = k
    BY <1>1, <1>2, <1>3, <1>4, <2>1
  <2>2. CASE i > k
    <3>1. At(h, i).y >= At(h, k).y + At(h, k).height + Gap
      BY <2>2, Spaced
    <3>2. PICK a \in Int, b \in Nat, c \in Int, d \in Int, e \in Int :
              a = At(h, k).y /\ b = At(h, k).height /\ c = At(h, i).y /\ d = Upper(h, k) /\ e = Bottom(h)
      BY <1>1, <1>2
    <3>3. c >= a + b + Gap /\ d <= a /\ d >= e /\ c < e
      BY <1>2, <1>3, <1>4, <3>1, <3>2
    <3> QED BY <1>1, <3>3
  <2> QED BY <1>1, <2>1, <2>2
\* A message above one whose upper widget has ended is out of sight.
<1>5. ASSUME NEW k \in 0 .. Size(h) - 1, UpperEnd(h, k) <= h.top PROVE i >= k
  <2> SUFFICES ASSUME i < k PROVE FALSE
    BY <1>1
  <2>1. At(h, k).y >= At(h, i).y + At(h, i).height + Gap
    BY Spaced
  <2>2. PICK a \in Int, b \in Nat, c \in Int, d \in Int, t \in Int :
            a = At(h, i).y /\ b = At(h, i).height /\ c = At(h, k).y /\ d = UpperEnd(h, k) /\ t = h.top
    BY <1>1, <1>2
  <2>3. c >= a + b + Gap /\ d >= c - Gap /\ d <= t /\ a + b > t
    BY <1>2, <1>3, <1>5, <2>1, <2>2
  <2> QED BY <1>1, <2>3
<1>6. i <= Behind(h, m)
  <2> DEFINE S == {Size(h) - 1} \cup
                  {k + 1 : k \in {j \in m + 1 .. Size(h) - 2 : Upper(h, j) >= Bottom(h)}}
  <2>1. CASE Upper(h, m) >= Bottom(h)
    <3>1. Behind(h, m) = m
      BY <2>1 DEF Behind
    <3> QED BY <1>1, <1>4, <2>1, <3>1
  <2>2. CASE ~(Upper(h, m) >= Bottom(h))
    <3>1. Behind(h, m) = Min(S)
      BY <2>2 DEF Behind
    <3>2. S \in SUBSET Nat /\ S # {}
      <4>1. Size(h) - 1 \in Nat /\ \A k \in m + 1 .. Size(h) - 2 : k + 1 \in Nat
        BY <1>1
      <4> QED BY <4>1
    <3>3. Min(S) \in S
      BY <3>2, Smallest
    <3>4. CASE Min(S) = Size(h) - 1
      BY <1>1, <3>1, <3>4
    <3>5. CASE Min(S) # Size(h) - 1
      <4>1. PICK k \in m + 1 .. Size(h) - 2 : Upper(h, k) >= Bottom(h) /\ Min(S) = k + 1
        BY <3>3, <3>5
      <4>2. k \in 0 .. Size(h) - 1
        BY <1>1
      <4>3. i < k
        BY <1>4, <4>1, <4>2
      <4> QED BY <1>1, <3>1, <4>1, <4>2, <4>3
    <3> QED BY <3>4, <3>5
  <2> QED BY <2>1, <2>2
<1>7. Ahead(h, m) <= i
  <2> DEFINE S == {0} \cup {k - 1 : k \in {j \in 1 .. m - 1 : UpperEnd(h, j) <= h.top}}
  <2>1. CASE UpperEnd(h, m) <= h.top
    <3>1. Ahead(h, m) = m
      BY <2>1 DEF Ahead
    <3> QED BY <1>1, <1>5, <2>1, <3>1
  <2>2. CASE ~(UpperEnd(h, m) <= h.top)
    <3>1. Ahead(h, m) = Max(S)
      BY <2>2 DEF Ahead
    <3>2. S \in SUBSET (0 .. Size(h) - 1) /\ S \in SUBSET Nat /\ S # {}
      BY <1>1
    <3>3. IsFiniteSet(S)
      <4>1. 0 \in Int /\ Size(h) - 1 \in Int
        BY <1>1
      <4>2. IsFiniteSet(0 .. Size(h) - 1)
        BY <4>1, FS_Interval
      <4> QED BY <3>2, <4>2, FS_Subset
    <3>4. Max(S) \in S
      BY <3>2, <3>3, Greatest
    <3>5. CASE Max(S) = 0
      BY <1>1, <3>1, <3>5
    <3>6. CASE Max(S) # 0
      <4>1. PICK k \in 1 .. m - 1 : UpperEnd(h, k) <= h.top /\ Max(S) = k - 1
        BY <3>4, <3>6
      <4>2. k \in 0 .. Size(h) - 1
        BY <1>1
      <4>3. i >= k
        BY <1>5, <4>1, <4>2
      <4> QED BY <1>1, <3>1, <4>1, <4>2, <4>3
    <3> QED BY <3>5, <3>6
  <2> QED BY <2>1, <2>2
<1>8. Ahead(h, m) \in Int /\ Behind(h, m) \in Int
  <2>1. Ahead(h, m) \in 0 .. Size(h) - 1
    BY <1>1, AheadIsAnIndex
  <2> DEFINE S == {Size(h) - 1} \cup
                  {k + 1 : k \in {j \in m + 1 .. Size(h) - 2 : Upper(h, j) >= Bottom(h)}}
  <2>2. S \in SUBSET Nat /\ S # {}
    <3>1. Size(h) - 1 \in Nat /\ \A k \in m + 1 .. Size(h) - 2 : k + 1 \in Nat
      BY <1>1
    <3> QED BY <3>1
  <2>3. Behind(h, m) = IF Upper(h, m) >= Bottom(h) THEN m ELSE Min(S)
    BY DEF Behind
  <2> HIDE DEF S
  <2>4. Min(S) \in Nat
    BY <2>2, Smallest
  <2> QED BY <1>1, <2>1, <2>3, <2>4
<1> QED BY <1>6, <1>7, <1>8

------------------------------------------------------------------------------
(* Scrolling.                                                              *)

\* What is scrolled, or given another room, still has what it had.
LEMMA FitsScrolled ==
  ASSUME NEW h, Fits(h), NEW g \in Histories, g.messages = h.messages, g.list = h.list,
         g.replyList = h.replyList, g.minimum = h.minimum, h.minimum <= g.surface
  PROVE  Fits(g)
  BY DEF Fits, Roomy

LEMMA ClampedType ==
  ASSUME NEW h \in Histories, NEW y \in Int
  PROVE  Clamped(h, y) \in Nat
<1>1. h.surface \in Nat /\ h.height \in Nat
  BY HistoryFields
<1>2. Max({h.surface, h.height}) \in Int /\ Max({h.surface, h.height}) >= h.height
  <2>1. h.surface \in Int /\ h.height \in Int
    BY <1>1
  <2> QED BY ONLY <2>1, OneOfTwo
<1>3. TopMax(h) \in Int
  BY <1>1, <1>2 DEF TopMax
<1>4. Min({y, TopMax(h)}) \in Int
  BY <1>3, OneOfTwo
<1>5. Max({0, Min({y, TopMax(h)})}) \in Int /\ Max({0, Min({y, TopMax(h)})}) >= 0
  <2>1. 0 \in Int
    OBVIOUS
  <2> QED BY ONLY <1>4, <2>1, OneOfTwo
<1> QED BY <1>5 DEF Clamped

LEMMA UpperType ==
  ASSUME NEW h \in Histories, NEW k \in 0 .. Size(h) - 1
  PROVE  Upper(h, k) \in Int /\ At(h, k).y \in Int
<1>1. /\ h.list \in Seq(Widget) /\ Size(h) = Len(h.list) /\ Size(h) \in Nat
      /\ h.replyList \in [DOMAIN h.replyList -> Place]
  BY HistoryFields
<1>2. At(h, k).y \in Int
  <2>1. k + 1 \in 1 .. Len(h.list)
    BY <1>1
  <2> QED BY <1>1, <2>1, WidgetFields DEF At
<1>3. ASSUME HasReply(h, k) PROVE h.replyList[At(h, k).id].y \in Int
  BY <1>1, <1>3 DEF HasReply, Place
<1> QED BY <1>2, <1>3 DEF Upper

LEMMA ResizeVisibleKeeps ==
  ASSUME NEW h, Fits(h), LeftInList(h)
  PROVE  Kept(ResizeVisible(h))
<1>1. h \in Histories /\ h.list \in Seq(Widget) /\ Len(h.list) \in Nat /\ Size(h) = Len(h.list)
  BY HistoryFields DEF Fits
<1>2. CASE h.list = <<>>
  <2> DEFINE g == [h EXCEPT !.left = 0 - 1]
  <2>1. ResizeVisible(h) = g
    BY <1>2 DEF ResizeVisible
  <2>2. /\ g \in Histories /\ g.messages = h.messages /\ g.list = h.list /\ g.replyList = h.replyList
        /\ g.minimum = h.minimum /\ g.surface = h.surface /\ g.left = -1
    <3>1. 0 - 1 \in Int /\ 0 - 1 = -1
      OBVIOUS
    <3> QED BY <1>1, <3>1 DEF Histories
  <2> HIDE DEF g
  <2>3. Fits(g)
    <3>1. h.minimum <= g.surface
      BY <2>2 DEF Fits, Roomy
    <3> QED BY <2>2, <3>1, FitsScrolled
  <2>4. Len(g.list) = 0 /\ DOMAIN g.list = {}
    BY <1>2, <2>2
  <2> QED BY <2>1, <2>2, <2>3, <2>4 DEF Kept, LeftInList, LaidOut
<1>3. CASE h.list # <<>>
  <2> DEFINE l == FindVisible(h).left
             g == IF l + 1 < Size(h) THEN [h EXCEPT !.left = l + 1] ELSE h
  <2>1. ResizeVisible(h) = Placed(g)
    BY <1>3 DEF ResizeVisible
  <2>2. l \in 0 .. Len(h.list) - 1
    BY <1>1, <1>3, FoundLeft
  <2> HIDE DEF l
  <2>3. /\ g \in Histories /\ g.messages = h.messages /\ g.list = h.list /\ g.replyList = h.replyList
        /\ g.minimum = h.minimum /\ g.surface = h.surface /\ LeftInList(g)
    <3>1. CASE l + 1 < Size(h)
      <4>1. g = [h EXCEPT !.left = l + 1] /\ l + 1 \in Int
        BY <1>1, <2>2, <3>1
      <4>2. /\ g \in Histories /\ g.messages = h.messages /\ g.list = h.list /\ g.replyList = h.replyList
            /\ g.minimum = h.minimum /\ g.surface = h.surface /\ g.left = l + 1
        BY <1>1, <4>1 DEF Histories
      <4> QED BY <1>1, <2>2, <3>1, <4>2 DEF LeftInList
    <3>2. CASE ~(l + 1 < Size(h))
      BY <1>1, <3>2
    <3> QED BY <3>1, <3>2
  <2> HIDE DEF g
  <2>4. Fits(g)
    <3>1. h.minimum <= g.surface
      BY <2>3 DEF Fits, Roomy
    <3> QED BY <2>3, <3>1, FitsScrolled
  <2>5. /\ Fits(Placed(g)) /\ LaidOut(Placed(g).list) /\ Placed(g).left = g.left
        /\ Len(Placed(g).list) = Len(g.list)
    BY <2>4, PlacedKeeps
  <2> QED BY <2>1, <2>3, <2>5 DEF Kept, LeftInList
<1> QED BY <1>2, <1>3

\* onScrolled.
LEMMA ScrolledToKeeps ==
  ASSUME NEW h, Kept(h), NEW y \in Int
  PROVE  Kept(ScrolledTo(h, y))
<1>1. h \in Histories
  BY DEF Kept, Fits
<1>2. CASE Clamped(h, y) = h.top
  BY <1>2 DEF ScrolledTo
<1>3. CASE Clamped(h, y) # h.top
  <2> DEFINE t == Clamped(h, y)
             g == [h EXCEPT !.top = t]
  <2>1. ScrolledTo(h, y) = ResizeVisible(g)
    BY <1>3 DEF ScrolledTo
  <2>2. t \in Nat
    BY <1>1, ClampedType
  <2> HIDE DEF t
  <2>3. /\ g \in Histories /\ g.messages = h.messages /\ g.list = h.list /\ g.replyList = h.replyList
        /\ g.minimum = h.minimum /\ g.surface = h.surface /\ g.left = h.left
    BY <1>1, <2>2 DEF Histories
  <2> HIDE DEF g
  <2>4. Fits(g) /\ LeftInList(g)
    <3>1. h.minimum <= g.surface
      BY <2>3 DEF Kept, Fits, Roomy
    <3>2. Fits(g)
      BY <2>3, <3>1, FitsScrolled DEF Kept
    <3> QED BY <2>3, <3>2 DEF Kept, LeftInList
  <2> QED BY <2>1, <2>4, ResizeVisibleKeeps
<1> QED BY <1>2, <1>3

\* scrollToWidget.
LEMMA ScrolledToShowKeeps ==
  ASSUME NEW h, Kept(h), NEW from \in Int, NEW to \in Int
  PROVE  Kept(ScrolledToShow(h, from, to))
<1>1. h \in Histories /\ h.height \in Nat
  BY HistoryFields DEF Kept, Fits
<1> DEFINE toTop == Clamped(h, from)
           toBottom == Max({to, toTop})
           there == Min({toBottom - h.height, toTop})
<1>2. toTop \in Int
  BY <1>1, ClampedType
<1>3. toBottom \in Int
  BY <1>2, OneOfTwo
<1>4. there \in Int
  <2>1. toBottom - h.height \in Int
    BY <1>1, <1>3
  <2> QED BY <1>2, <2>1, OneOfTwo
<1>5. \/ ScrolledToShow(h, from, to) = ScrolledTo(h, toTop)
      \/ ScrolledToShow(h, from, to) = h
      \/ ScrolledToShow(h, from, to) = ScrolledTo(h, there)
  BY DEF ScrolledToShow
<1> QED BY <1>2, <1>4, <1>5, ScrolledToKeeps

\* updateLayout(true).
LEMMA LayoutAfterResizeKeeps ==
  ASSUME NEW h, Fits(h), LeftInList(h), h.list # <<>>
  PROVE  Kept(LayoutAfterResize(h))
<1> DEFINE laid == Placed(h)
           diff == h.top - Upper(h, h.left)
           anchor == Upper(laid, h.left) + diff
           last == At(laid, Size(h) - 1)
           haveLast == /\ FindVisible(laid).right = Size(h) - 1
                       /\ last.y <= anchor + h.height
<1>1. h \in Histories /\ h.list \in Seq(Widget) /\ Len(h.list) \in Nat /\ Size(h) = Len(h.list)
      /\ h.top \in Nat /\ h.left \in Int
  BY HistoryFields DEF Fits
<1>2. /\ Fits(laid) /\ LaidOut(laid.list) /\ laid.left = h.left /\ Len(laid.list) = Len(h.list)
  BY PlacedKeeps
<1>3. laid \in Histories /\ Size(laid) = Size(h)
  BY <1>1, <1>2, HistoryFields DEF Fits
<1>4. Kept(laid)
  BY <1>2 DEF Kept, LeftInList
<1>5. LayoutAfterResize(h) = IF h.left < 0 THEN laid
                             ELSE IF haveLast THEN ScrolledTo(laid, last.y)
                             ELSE [laid EXCEPT !.top = Clamped(laid, anchor)]
  BY DEF LayoutAfterResize
<1>6. last.y \in Int
  <2>1. Size(h) - 1 \in 0 .. Size(laid) - 1
    BY <1>1, <1>3
  <2> QED BY <1>3, <2>1, UpperType
<1>7. h.left >= 0 => anchor \in Int
  <2> HAVE h.left >= 0
  <2>1. h.left \in 0 .. Size(h) - 1
    BY <1>1 DEF LeftInList
  <2>2. Upper(h, h.left) \in Int /\ Upper(laid, h.left) \in Int
    BY <1>1, <1>3, <2>1, UpperType
  <2>3. PICK a \in Int, b \in Int : a = Upper(h, h.left) /\ b = Upper(laid, h.left)
    BY <2>2
  <2> QED BY <1>1, <2>3
<1> HIDE DEF laid, anchor, last, haveLast
<1>8. CASE h.left < 0
  BY <1>4, <1>5, <1>8
<1>9. CASE ~(h.left < 0) /\ haveLast
  BY <1>4, <1>5, <1>6, <1>9, ScrolledToKeeps
<1>10. CASE ~(h.left < 0) /\ ~haveLast
  <2> DEFINE t == Clamped(laid, anchor)
             g == [laid EXCEPT !.top = t]
  <2>1. LayoutAfterResize(h) = g
    BY <1>5, <1>10
  <2>2. t \in Nat
    <3>1. anchor \in Int
      BY <1>1, <1>7, <1>10
    <3> QED BY <1>3, <3>1, ClampedType
  <2> HIDE DEF t
  <2>3. /\ g \in Histories /\ g.messages = laid.messages /\ g.list = laid.list
        /\ g.replyList = laid.replyList /\ g.minimum = laid.minimum /\ g.surface = laid.surface
        /\ g.left = laid.left
    BY <1>3, <2>2 DEF Histories
  <2> HIDE DEF g
  <2>4. laid.minimum <= g.surface
    BY <1>2, <2>3 DEF Fits, Roomy
  <2>5. Fits(g)
    BY <1>2, <2>3, <2>4, FitsScrolled
  <2> QED BY <1>4, <2>1, <2>3, <2>5 DEF Kept, LeftInList
<1> QED BY <1>8, <1>9, <1>10

------------------------------------------------------------------------------
(* Widgets that come, go and change.                                       *)

\* Where the elements of s are in t.
Embeds(e, s, t, k) ==
    /\ e \in [1 .. Len(s) -> 1 .. Len(t)]
    /\ \A i \in 1 .. Len(s) : s[i] = t[e[i]] /\ e[i] # k
    /\ \A i, j \in 1 .. Len(s) : i < j => e[i] < e[j]
    /\ \A i \in 1 .. Len(s) : i < k <=> e[i] < k
    /\ \A j \in 1 .. Len(t) : j # k => \E i \in 1 .. Len(s) : e[i] = j

LEMMA WidenedIndex ==
  ASSUME NEW s, NEW t, NEW k, Len(s) \in Nat, Widened(t, s, k)
  PROVE  \E e : Embeds(e, s, t, k)
<1> DEFINE e == [i \in 1 .. Len(s) |-> IF i < k THEN i ELSE i + 1]
<1>1. Len(t) = Len(s) + 1 /\ k \in 1 .. Len(s) + 1 /\ k \in Nat
  BY DEF Widened
<1>2. e \in [1 .. Len(s) -> 1 .. Len(t)]
  BY <1>1
<1>3. \A i \in 1 .. Len(s) : s[i] = t[e[i]] /\ e[i] # k
  BY <1>1 DEF Widened
<1>4. \A i, j \in 1 .. Len(s) : i < j => e[i] < e[j]
  BY <1>1
<1>5. \A i \in 1 .. Len(s) : i < k <=> e[i] < k
  BY <1>1
<1>6. ASSUME NEW j \in 1 .. Len(t), j # k PROVE \E i \in 1 .. Len(s) : e[i] = j
  <2>1. CASE j < k
    <3>1. j \in 1 .. Len(s) /\ e[j] = j
      BY <1>1, <2>1
    <3> QED BY <3>1
  <2>2. CASE j > k
    <3>1. j - 1 \in 1 .. Len(s) /\ e[j - 1] = j
      BY <1>1, <2>2
    <3> QED BY <3>1
  <2> QED BY <1>1, <1>6, <2>1, <2>2
<1> HIDE DEF e
<1>7. Embeds(e, s, t, k)
  BY <1>2, <1>3, <1>4, <1>5, <1>6 DEF Embeds
<1> QED BY <1>7

LEMMA HeightsType ==
  ASSUME NEW s \in Seq(Widget)
  PROVE  Heights(s) \in Nat
<1>1. PICK f : IsSum(f, s) /\ Heights(s) = f[Len(s)]
  BY SumTable
<1>2. f \in [0 .. Len(s) -> Nat] /\ Len(s) \in 0 .. Len(s)
  BY <1>1 DEF IsSum
<1> QED BY <1>1, <1>2

\* One widget of another height.
LEMMA HeightChanged ==
  ASSUME NEW s \in Seq(Widget), NEW t \in Seq(Widget), Len(t) = Len(s), NEW k \in 1 .. Len(s),
         \A i \in 1 .. Len(s) : i # k => t[i] = s[i]
  PROVE  Heights(t) = Heights(s) - s[k].height + t[k].height
<1> DEFINE r == RemoveAt(s, k)
<1>1. r \in Seq(Widget) /\ Widened(s, r, k)
  BY RemoveNarrows
<1> HIDE DEF r
<1>2. Len(r) \in Nat /\ Len(s) = Len(r) + 1 /\ k \in Nat
  BY <1>1 DEF Widened
<1>3. Widened(t, r, k)
  <2>1. \A i \in 1 .. Len(r) : i < k => t[i] = r[i]
    BY <1>1, <1>2 DEF Widened
  <2>2. ASSUME NEW i \in 1 .. Len(r), i >= k PROVE t[i + 1] = r[i]
    <3>1. i + 1 \in 1 .. Len(s) /\ i + 1 # k
      BY <1>2, <2>2
    <3>2. s[i + 1] = r[i]
      BY <1>1, <2>2 DEF Widened
    <3> QED BY <3>1, <3>2
  <2> QED BY <1>2, <2>1, <2>2 DEF Widened
<1>4. Heights(s) = Heights(r) + s[k].height + Gap
  BY <1>1, OneMoreHeight
<1>5. Heights(t) = Heights(r) + t[k].height + Gap
  <2>1. k \in 1 .. Len(t)
    OBVIOUS
  <2> QED BY <1>1, <1>3, <2>1, OneMoreHeight
<1>6. PICK a \in Nat, b \in Nat, c \in Nat, d \in Nat :
          a = Heights(r) /\ b = s[k].height /\ c = t[k].height /\ d = Gap
  <2>1. s[k].height \in Nat /\ t[k].height \in Nat /\ Gap \in Nat
    BY WidgetFields, NumbersGiven
  <2>2. Heights(r) \in Nat
    BY <1>1, HeightsType
  <2> QED BY <2>1, <2>2
<1>7. Heights(s) = a + b + d /\ Heights(t) = a + c + d
  BY <1>4, <1>5, <1>6
<1>8. a + c + d = (a + b + d) - b + c
  OBVIOUS
<1> QED BY <1>6, <1>7, <1>8

\* The widget of a message goes with it.
LEMMA MatchedNarrower ==
  ASSUME NEW messages, NEW s \in Seq(Widget), NEW t \in Seq(Widget), NEW k, Widened(t, s, k),
         Matched(messages, t)
  PROVE  Matched({m \in messages : m.id # t[k].id}, s)
<1>1. /\ Len(s) \in Nat /\ DOMAIN s = 1 .. Len(s) /\ DOMAIN t = 1 .. Len(t) /\ Len(t) = Len(s) + 1
      /\ k \in 1 .. Len(t)
  <2>1. Len(t) = Len(s) + 1 /\ k \in 1 .. Len(s) + 1
    BY DEF Widened
  <2> QED BY <2>1
<1>2. PICK e : Embeds(e, s, t, k)
  BY <1>1, WidenedIndex
<1>3. \A i, j \in 1 .. Len(t) : i < j => t[i].id # t[j].id /\ t[i].time <= t[j].time
  BY <1>1 DEF Matched
<1>4. \A i \in 1 .. Len(t) : i # k => t[i].id # t[k].id
  BY <1>1, <1>3
<1>5. {m.id : m \in messages} = {t[i].id : i \in 1 .. Len(t)}
  BY <1>1 DEF Matched
<1>6. ASSUME NEW m \in messages, m.id # t[k].id PROVE m.id \in {s[i].id : i \in 1 .. Len(s)}
  <2>1. PICK j \in 1 .. Len(t) : m.id = t[j].id
    BY <1>5
  <2>2. PICK i \in 1 .. Len(s) : e[i] = j
    BY <1>2, <1>6, <2>1 DEF Embeds
  <2> QED BY <1>2, <2>1, <2>2 DEF Embeds
<1>7. ASSUME NEW i \in 1 .. Len(s) PROVE s[i].id \in {m.id : m \in {n \in messages : n.id # t[k].id}}
  <2>1. e[i] \in 1 .. Len(t) /\ s[i] = t[e[i]] /\ e[i] # k
    BY <1>2 DEF Embeds
  <2>2. PICK m \in messages : m.id = t[e[i]].id
    BY <1>5, <2>1
  <2> QED BY <1>4, <2>1, <2>2
<1>8. {m.id : m \in {n \in messages : n.id # t[k].id}} = {s[i].id : i \in DOMAIN s}
  BY <1>1, <1>6, <1>7
<1>9. \A i, j \in DOMAIN s : i < j => s[i].id # s[j].id /\ s[i].time <= s[j].time
  BY <1>1, <1>2, <1>3 DEF Embeds
<1>10. \A m, n \in {n \in messages : n.id # t[k].id} : m.id = n.id => m = n
  BY DEF Matched
<1> QED BY <1>8, <1>9, <1>10 DEF Matched

\* The widget of a message comes with it, to its place in the order of the times.
LEMMA MatchedWider ==
  ASSUME NEW messages, NEW s \in Seq(Widget), NEW t \in Seq(Widget), NEW k, Widened(t, s, k),
         Matched(messages, s), NEW info, info.id = t[k].id, \A m \in messages : m.id # info.id,
         \A i \in 1 .. Len(s) : i < k => s[i].time <= t[k].time,
         \A i \in 1 .. Len(s) : i >= k => t[k].time <= s[i].time
  PROVE  Matched(messages \cup {info}, t)
<1>1. /\ Len(s) \in Nat /\ DOMAIN s = 1 .. Len(s) /\ DOMAIN t = 1 .. Len(t) /\ Len(t) = Len(s) + 1
      /\ k \in 1 .. Len(t) /\ k \in Nat
  BY DEF Widened
<1>2. PICK e : Embeds(e, s, t, k)
  BY <1>1, WidenedIndex
<1>3. \A i, j \in 1 .. Len(s) : i < j => s[i].id # s[j].id /\ s[i].time <= s[j].time
  BY <1>1 DEF Matched
<1>4. {m.id : m \in messages} = {s[i].id : i \in 1 .. Len(s)}
  BY <1>1 DEF Matched
<1>5. \A i \in 1 .. Len(s) : s[i].id # t[k].id
  BY <1>4
<1>6. ASSUME NEW j \in 1 .. Len(t) PROVE t[j].id \in {m.id : m \in messages \cup {info}}
  <2>1. CASE j = k
    BY <2>1
  <2>2. CASE j # k
    <3>1. PICK i \in 1 .. Len(s) : t[j] = s[i]
      BY <1>2, <2>2 DEF Embeds
    <3>2. PICK m \in messages : m.id = s[i].id
      BY <1>4
    <3> QED BY <3>1, <3>2
  <2> QED BY <2>1, <2>2
<1>7. ASSUME NEW m \in messages \cup {info} PROVE m.id \in {t[j].id : j \in 1 .. Len(t)}
  <2>1. CASE m = info
    BY <1>1, <2>1
  <2>2. CASE m \in messages
    <3>1. PICK i \in 1 .. Len(s) : m.id = s[i].id
      BY <1>4, <2>2
    <3>2. e[i] \in 1 .. Len(t) /\ s[i] = t[e[i]]
      BY <1>2 DEF Embeds
    <3> QED BY <3>1, <3>2
  <2> QED BY <2>1, <2>2
<1>8. {m.id : m \in messages \cup {info}} = {t[j].id : j \in DOMAIN t}
  BY <1>1, <1>6, <1>7
<1>9. \A m, n \in messages \cup {info} : m.id = n.id => m = n
  BY DEF Matched
<1>10. ASSUME NEW i \in 1 .. Len(t), NEW j \in 1 .. Len(t), i < j
       PROVE  t[i].id # t[j].id /\ t[i].time <= t[j].time
  <2>1. CASE i = k
    <3>1. PICK b \in 1 .. Len(s) : e[b] = j
      BY <1>1, <1>2, <1>10, <2>1 DEF Embeds
    <3>2. t[j] = s[b] /\ ~(b < k)
      BY <1>1, <1>2, <1>10, <2>1, <3>1 DEF Embeds
    <3>3. b >= k
      BY <1>1, <3>2
    <3> QED BY <1>5, <2>1, <3>2, <3>3
  <2>2. CASE j = k
    <3>1. PICK a \in 1 .. Len(s) : e[a] = i
      BY <1>1, <1>2, <1>10, <2>2 DEF Embeds
    <3>2. t[i] = s[a] /\ a < k
      BY <1>1, <1>2, <1>10, <2>2, <3>1 DEF Embeds
    <3> QED BY <1>5, <2>2, <3>2
  <2>3. CASE i # k /\ j # k
    <3>1. PICK a \in 1 .. Len(s), b \in 1 .. Len(s) : e[a] = i /\ e[b] = j
      BY <1>2, <2>3 DEF Embeds
    <3>2. a < b
      <4>1. ~(b < a) /\ a # b
        BY <1>1, <1>2, <1>10, <3>1 DEF Embeds
      <4> QED BY <1>1, <4>1
    <3>3. t[i] = s[a] /\ t[j] = s[b]
      BY <1>2, <3>1 DEF Embeds
    <3> QED BY <1>3, <3>2, <3>3
  <2> QED BY <2>1, <2>2, <2>3
<1> QED BY <1>1, <1>8, <1>9, <1>10 DEF Matched

\* The widget is found by the id of its message.
LEMMA FoundById ==
  ASSUME NEW h, NEW id, \E i \in DOMAIN h.list : h.list[i].id = id
  PROVE  IndexOf(h, id) \in DOMAIN h.list /\ h.list[IndexOf(h, id)].id = id
  BY DEF IndexOf

\* push_back and sort.
LEMMA InsertedInOrder ==
  ASSUME NEW widgets \in Seq(Widget), NEW message \in Widget,
         \A i, j \in 1 .. Len(widgets) : i < j => widgets[i].time <= widgets[j].time
  PROVE  /\ Inserted(widgets, message) \in Seq(Widget)
         /\ \E k \in 1 .. Len(widgets) + 1 :
                /\ Widened(Inserted(widgets, message), widgets, k) /\ Inserted(widgets, message)[k] = message
                /\ \A i \in 1 .. Len(widgets) : i < k => widgets[i].time <= message.time
                /\ \A i \in 1 .. Len(widgets) : i >= k => message.time <= widgets[i].time
<1> DEFINE Later == {i \in DOMAIN widgets : widgets[i].time > message.time} \cup {Len(widgets) + 1}
           k == Min(Later)
<1>1. Len(widgets) \in Nat /\ DOMAIN widgets = 1 .. Len(widgets)
  OBVIOUS
<1>2. message.time \in Nat /\ \A i \in 1 .. Len(widgets) : widgets[i].time \in Nat
  BY WidgetFields DEF Widget
<1>3. Later \in SUBSET (1 .. Len(widgets) + 1) /\ Later \in SUBSET Nat /\ Later # {}
  BY <1>1
<1>4. \A i \in 1 .. Len(widgets) : i \in Later <=> widgets[i].time > message.time
  BY <1>1
<1>5. Inserted(widgets, message) = InsertAt(widgets, k, message)
  BY DEF Inserted
<1> HIDE DEF Later
<1>6. k \in Later /\ \A i \in Later : k <= i
  BY <1>3, Smallest
<1>7. k \in 1 .. Len(widgets) + 1 /\ k \in Nat
  BY <1>3, <1>6
<1> HIDE DEF k
<1>8. ASSUME NEW i \in 1 .. Len(widgets), i < k PROVE widgets[i].time <= message.time
  <2>1. i \notin Later
    BY <1>6, <1>7, <1>8
  <2> QED BY <1>2, <1>4, <2>1
<1>9. ASSUME NEW i \in 1 .. Len(widgets), i >= k PROVE message.time <= widgets[i].time
  <2>1. k \in 1 .. Len(widgets)
    BY <1>1, <1>7, <1>9
  <2>2. widgets[k].time > message.time
    BY <1>4, <1>6, <2>1
  <2>3. k = i \/ widgets[k].time <= widgets[i].time
    BY <1>7, <1>9, <2>1
  <2>4. CASE k = i
    BY <1>2, <2>1, <2>2, <2>4
  <2>5. CASE widgets[k].time <= widgets[i].time
    BY <1>2, <2>1, <2>2, <2>5
  <2> QED BY <2>3, <2>4, <2>5
<1>10. /\ InsertAt(widgets, k, message) \in Seq(Widget) /\ Widened(InsertAt(widgets, k, message), widgets, k)
       /\ InsertAt(widgets, k, message)[k] = message
  BY <1>7, InsertWidens
<1> QED BY <1>5, <1>7, <1>8, <1>9, <1>10

\* setMinimumHeight.
LEMMA GrownFields ==
  ASSUME NEW h \in Histories, NEW diff \in Int
  PROVE  /\ Grown(h, diff) \in Histories
         /\ Grown(h, diff).messages = h.messages /\ Grown(h, diff).list = h.list
         /\ Grown(h, diff).replies = h.replies /\ Grown(h, diff).replyList = h.replyList
         /\ Grown(h, diff).left = h.left /\ Grown(h, diff).minimum = h.minimum + diff
         /\ h.minimum + diff <= Grown(h, diff).surface
         /\ Grown(h, diff).height = h.height /\ Grown(h, diff).top = h.top
         /\ Grown(h, diff).undefined = h.undefined
<1> DEFINE m == h.minimum + diff
           s == Max({h.surface, h.minimum + diff})
<1>1. h.minimum \in Int /\ h.surface \in Nat /\ m \in Int
  BY HistoryFields
<1>2. s \in Nat /\ m <= s
  <2>1. h.surface \in Int /\ m \in Int
    BY <1>1
  <2>2. s \in Int /\ s >= h.surface /\ s >= m
    BY ONLY <2>1, OneOfTwo
  <2> QED BY <1>1, <2>2
<1>3. Grown(h, diff) = [h EXCEPT !.minimum = m, !.surface = s]
  BY DEF Grown, Histories
<1> HIDE DEF m, s
<1>4. Grown(h, diff).minimum = m /\ Grown(h, diff).surface = s /\ Grown(h, diff) \in Histories
  BY <1>1, <1>2, <1>3 DEF Histories
<1>5. /\ Grown(h, diff).messages = h.messages /\ Grown(h, diff).list = h.list
      /\ Grown(h, diff).replies = h.replies /\ Grown(h, diff).replyList = h.replyList
      /\ Grown(h, diff).left = h.left /\ Grown(h, diff).height = h.height /\ Grown(h, diff).top = h.top
      /\ Grown(h, diff).undefined = h.undefined
  BY <1>3 DEF Histories
<1> QED BY <1>2, <1>4, <1>5 DEF m

------------------------------------------------------------------------------
(* What the handlers do to a ChatHistory.                                  *)

LEMMA MatchedAlike ==
  ASSUME NEW messages, NEW s \in Seq(Widget), NEW t \in Seq(Widget), Len(t) = Len(s), Matched(messages, s),
         \A i \in 1 .. Len(s) : t[i].id = s[i].id /\ t[i].time = s[i].time
  PROVE  Matched(messages, t)
<1>1. DOMAIN s = 1 .. Len(s) /\ DOMAIN t = 1 .. Len(s)
  OBVIOUS
<1>2. {t[i].id : i \in DOMAIN t} = {s[i].id : i \in DOMAIN s}
  BY <1>1
<1>3. \A i, j \in DOMAIN t : i < j => t[i].id # t[j].id /\ t[i].time <= t[j].time
  BY <1>1 DEF Matched
<1> QED BY <1>2, <1>3 DEF Matched

\* The widget of a message that has come with other reactions goes, with the
\* message that it was for.
LEMMA ForgottenFits ==
  ASSUME NEW h, Fits(h), LeftInList(h), NEW info, \E m \in h.messages : m.id = info.id
  PROVE  /\ Fits(Forgotten(h, info))
         /\ Forgotten(h, info).left >= -1
         /\ Forgotten(h, info).left <= Len(Forgotten(h, info).list)
         /\ \A m \in Forgotten(h, info).messages : m.id # info.id
<1> DEFINE k == IndexOf(h, info.id)
           s == RemoveAt(h.list, k)
           rest == {m \in h.messages : m.id # info.id}
           g == [h EXCEPT !.messages = rest, !.list = s]
           f == Forgotten(h, info)
           diff == 0 - h.list[k].height - Gap
<1>1. /\ h \in Histories /\ h.messages \subseteq Info /\ h.list \in Seq(Widget)
      /\ DOMAIN h.list = 1 .. Len(h.list) /\ Len(h.list) \in Nat /\ h.left \in Int /\ h.minimum \in Int
  BY HistoryFields DEF Fits
<1>2. Matched(h.messages, h.list)
  BY DEF Fits
<1>3. k \in 1 .. Len(h.list) /\ h.list[k].id = info.id
  <2>1. \E i \in DOMAIN h.list : h.list[i].id = info.id
    BY <1>2 DEF Matched
  <2> QED BY <1>1, <2>1, FoundById
<1>4. f = Grown(g, diff)
  BY <1>1 DEF Forgotten, Histories
<1> HIDE DEF k
<1>5. s \in Seq(Widget) /\ Widened(h.list, s, k)
  BY <1>1, <1>3, RemoveNarrows
<1>6. Matched(rest, s)
  <2>1. Matched({m \in h.messages : m.id # h.list[k].id}, s)
    BY <1>1, <1>2, <1>5, MatchedNarrower
  <2> QED BY <1>3, <2>1
<1>7. Heights(h.list) = Heights(s) + h.list[k].height + Gap
  BY <1>1, <1>3, <1>5, OneMoreHeight
<1>8. rest \subseteq Info
  BY <1>1
<1>9. h.list[k].height \in Nat /\ Gap \in Nat /\ diff \in Int /\ Heights(s) \in Nat
  BY <1>1, <1>3, <1>5, WidgetFields, NumbersGiven, HeightsType
<1> HIDE DEF s, rest
<1>10. /\ g \in Histories /\ g.messages = rest /\ g.list = s /\ g.replyList = h.replyList
       /\ g.left = h.left /\ g.minimum = h.minimum
  BY <1>1, <1>5, <1>8 DEF Histories
<1> HIDE DEF g, f, diff
<1>11. /\ f \in Histories /\ f.messages = rest /\ f.list = s /\ f.replyList = h.replyList
       /\ f.left = h.left /\ f.minimum = h.minimum + diff /\ h.minimum + diff <= f.surface
  <2> DEFINE G == Grown(g, diff)
  <2>1. g \in Histories /\ diff \in Int
    BY <1>9, <1>10
  <2>2. /\ G \in Histories /\ G.messages = g.messages /\ G.list = g.list /\ G.replyList = g.replyList
        /\ G.left = g.left /\ G.minimum = g.minimum + diff /\ g.minimum + diff <= G.surface
    BY <2>1, GrownFields
  <2> HIDE DEF G
  <2>3. f = G
    BY <1>4 DEF G
  <2> QED BY <1>10, <2>2, <2>3
<1>12. Roomy(f)
  <2>1. h.minimum = Heights(h.list) + RoomOf(DOMAIN h.replyList)
    BY DEF Fits, Roomy
  <2>2. RoomOf(DOMAIN h.replyList) \in Nat
    BY RoomForReplies DEF Fits
  <2>3. PICK a \in Nat, b \in Nat, c \in Nat, r \in Nat :
            a = Heights(s) /\ b = h.list[k].height /\ c = Gap /\ r = RoomOf(DOMAIN h.replyList)
    BY <1>9, <2>2
  <2>4. h.minimum = (a + b + c) + r /\ diff = 0 - b - c
    BY <1>7, <2>1, <2>3 DEF diff
  <2>5. f.minimum = a + r
    BY <1>11, <2>3, <2>4
  <2> QED BY <1>11, <2>3, <2>5 DEF Roomy
<1>13. Fits(f)
  BY <1>6, <1>11, <1>12 DEF Fits
<1>14. f.left >= -1 /\ f.left <= Len(f.list)
  <2>1. Len(h.list) = Len(s) + 1 /\ Len(s) \in Nat
    BY <1>5 DEF Widened
  <2> QED BY <1>1, <1>11, <2>1 DEF LeftInList
<1>15. \A m \in f.messages : m.id # info.id
  BY <1>11 DEF rest
<1> QED BY <1>13, <1>14, <1>15 DEF f

\* A message that is not there gets its widget, and is scrolled to.
LEMMA ShownKeeps ==
  ASSUME NEW h, Fits(h), h.left >= -1, h.left <= Len(h.list), NEW info \in Info,
         \A m \in h.messages : m.id # info.id
  PROVE  Kept(Shown(h, info))
<1> DEFINE message == [id |-> info.id, time |-> info.time, y |-> 0, height |-> MessageHeight,
                       deleted |-> FALSE]
           t == Inserted(h.list, message)
           grown == Grown(h, MessageHeight + Gap)
           g == [grown EXCEPT !.list = t, !.messages = h.messages \cup {info}]
           laid == Placed(g)
           widget == laid.list[IndexOf(laid, info.id)]
<1>1. /\ h \in Histories /\ h.messages \subseteq Info /\ h.list \in Seq(Widget)
      /\ DOMAIN h.list = 1 .. Len(h.list) /\ Len(h.list) \in Nat /\ h.left \in Int /\ h.minimum \in Int
  BY HistoryFields DEF Fits
<1>2. Matched(h.messages, h.list)
  BY DEF Fits
<1>3. MessageHeight \in Nat /\ Gap \in Nat
  BY NumbersGiven
<1>4. message \in Widget /\ message.id = info.id /\ message.height = MessageHeight
  <2>1. info.id \in Ids /\ info.time \in Nat /\ 0 \in Int
    BY DEF Info
  <2> QED BY <1>3, <2>1 DEF Widget
<1>5. /\ grown \in Histories /\ grown.messages = h.messages /\ grown.list = h.list
      /\ grown.replyList = h.replyList /\ grown.left = h.left
      /\ grown.minimum = h.minimum + (MessageHeight + Gap) /\ h.minimum + (MessageHeight + Gap) <= grown.surface
  <2>1. MessageHeight + Gap \in Int
    BY <1>3
  <2> QED BY <1>1, <2>1, GrownFields
<1>6. Shown(h, info) = ScrolledToShow(laid, widget.y, widget.y + widget.height)
  BY <1>5 DEF Shown, Histories
<1> HIDE DEF message
<1>7. t \in Seq(Widget)
  <2>1. \A i, j \in 1 .. Len(h.list) : i < j => h.list[i].time <= h.list[j].time
    BY <1>1, <1>2 DEF Matched
  <2> QED BY <1>1, <1>4, <2>1, InsertedInOrder
<1>8. PICK k \in 1 .. Len(h.list) + 1 :
          /\ Widened(t, h.list, k) /\ t[k] = message
          /\ \A i \in 1 .. Len(h.list) : i < k => h.list[i].time <= message.time
          /\ \A i \in 1 .. Len(h.list) : i >= k => message.time <= h.list[i].time
  <2>1. \A i, j \in 1 .. Len(h.list) : i < j => h.list[i].time <= h.list[j].time
    BY <1>1, <1>2 DEF Matched
  <2> QED BY <1>1, <1>4, <2>1, InsertedInOrder
<1> HIDE DEF t, grown
<1>9. Len(t) = Len(h.list) + 1 /\ k \in 1 .. Len(t)
  BY <1>1, <1>8 DEF Widened
<1>10. Matched(h.messages \cup {info}, t)
  BY <1>1, <1>2, <1>4, <1>7, <1>8, MatchedWider
<1>11. Heights(t) = Heights(h.list) + MessageHeight + Gap
  <2>1. Heights(t) = Heights(h.list) + t[k].height + Gap
    BY <1>1, <1>7, <1>8, <1>9, OneMoreHeight
  <2> QED BY <1>4, <1>8, <2>1
<1>12. /\ g \in Histories /\ g.messages = h.messages \cup {info} /\ g.list = t
       /\ g.replyList = h.replyList /\ g.left = h.left
       /\ g.minimum = grown.minimum /\ g.surface = grown.surface
  BY <1>1, <1>5, <1>7 DEF Histories
<1> HIDE DEF g
<1>13. Roomy(g)
  <2>1. h.minimum = Heights(h.list) + RoomOf(DOMAIN h.replyList)
    BY DEF Fits, Roomy
  <2>2. RoomOf(DOMAIN h.replyList) \in Nat /\ Heights(h.list) \in Nat
    BY <1>1, RoomForReplies, HeightsType DEF Fits
  <2>3. PICK a \in Nat, b \in Nat, c \in Nat, r \in Nat :
            a = Heights(h.list) /\ b = MessageHeight /\ c = Gap /\ r = RoomOf(DOMAIN h.replyList)
    BY <1>3, <2>2
  <2>4. g.minimum = (a + r) + (b + c) /\ Heights(t) = a + b + c
    BY <1>5, <1>11, <1>12, <2>1, <2>3
  <2>5. g.minimum = Heights(t) + r
    BY <2>4
  <2> QED BY <1>5, <1>12, <2>3, <2>5 DEF Roomy
<1>14. Fits(g)
  BY <1>10, <1>12, <1>13 DEF Fits
<1>15. /\ Fits(laid) /\ LaidOut(laid.list) /\ laid.left = g.left /\ Len(laid.list) = Len(g.list)
       /\ laid.messages = g.messages
  BY <1>14, PlacedKeeps
<1> HIDE DEF laid
<1>16. Kept(laid)
  <2>1. laid.left = h.left /\ Len(laid.list) = Len(h.list) + 1
    BY <1>9, <1>12, <1>15
  <2>2. LeftInList(laid)
    BY <1>1, <2>1 DEF LeftInList
  <2> QED BY <1>15, <2>2 DEF Kept
<1>17. IndexOf(laid, info.id) \in DOMAIN laid.list
  <2>1. info.id \in {m.id : m \in laid.messages}
    BY <1>12, <1>15
  <2>2. {m.id : m \in laid.messages} = {laid.list[i].id : i \in DOMAIN laid.list}
    BY <1>15 DEF Fits, Matched
  <2>3. \E i \in DOMAIN laid.list : laid.list[i].id = info.id
    BY <2>1, <2>2
  <2> QED BY <2>3, FoundById
<1>18. widget.y \in Int /\ widget.height \in Nat
  <2>1. laid.list \in Seq(Widget) /\ DOMAIN laid.list = 1 .. Len(laid.list)
    BY <1>15, HistoryFields DEF Fits
  <2> QED BY <1>17, <2>1, WidgetFields
<1> HIDE DEF widget
<1>19. widget.y + widget.height \in Int
  BY <1>18
<1> QED BY <1>6, <1>16, <1>18, <1>19, ScrolledToShowKeeps

\* ChatHistory::addMessage.
LEMMA AddMessageKeeps ==
  ASSUME NEW h, Kept(h), NEW info \in Info
  PROVE  Kept(AddMessage(info, h))
<1>1. Fits(h) /\ LeftInList(h)
  BY DEF Kept
<1>2. h.left >= -1 /\ h.left <= Len(h.list)
  <2>1. h.left \in Int /\ Len(h.list) \in Nat
    BY <1>1, HistoryFields DEF Fits
  <2> QED BY <1>1, <2>1 DEF LeftInList
<1>3. CASE \A m \in h.messages : m.id # info.id
  <2>1. AddMessage(info, h) = Shown(h, info)
    BY <1>3 DEF AddMessage
  <2> QED BY <1>1, <1>2, <1>3, <2>1, ShownKeeps
<1>4. CASE ~(\A m \in h.messages : m.id # info.id) /\ info \in h.messages
  BY <1>4 DEF AddMessage
<1>5. CASE ~(\A m \in h.messages : m.id # info.id) /\ info \notin h.messages
  <2>1. AddMessage(info, h) = Shown(Forgotten(h, info), info)
    BY <1>5 DEF AddMessage
  <2>2. /\ Fits(Forgotten(h, info))
        /\ Forgotten(h, info).left >= -1
        /\ Forgotten(h, info).left <= Len(Forgotten(h, info).list)
        /\ \A m \in Forgotten(h, info).messages : m.id # info.id
    BY <1>1, <1>5, ForgottenFits
  <2> QED BY <2>1, <2>2, ShownKeeps
<1> QED BY <1>3, <1>4, <1>5

\* ChatHistory::addReply.
LEMMA AddReplyKeeps ==
  ASSUME NEW h, Kept(h), NEW reply \in Reply
  PROVE  Kept(AddReply(reply, h))
<1>1. /\ h \in Histories /\ Fits(h) /\ LeftInList(h)
      /\ h.replies \subseteq Reply /\ h.replyList \in [DOMAIN h.replyList -> Place]
      /\ DOMAIN h.replyList \subseteq Ids /\ h.minimum \in Int /\ h.list \in Seq(Widget)
  BY HistoryFields DEF Kept, Fits
<1>2. CASE reply \in h.replies \/ h.undefined
  BY <1>2 DEF AddReply
<1>3. CASE ~(reply \in h.replies \/ h.undefined) /\ reply.owner \in DOMAIN h.replyList
  <2> DEFINE g == [h EXCEPT !.undefined = TRUE]
  <2>1. AddReply(reply, h) = g
    BY <1>3 DEF AddReply
  <2>2. /\ g \in Histories /\ g.messages = h.messages /\ g.list = h.list /\ g.replyList = h.replyList
        /\ g.minimum = h.minimum /\ g.surface = h.surface /\ g.left = h.left
    BY <1>1 DEF Histories
  <2> HIDE DEF g
  <2>3. h.minimum <= g.surface
    BY <1>1, <2>2 DEF Fits, Roomy
  <2>4. Fits(g)
    BY <1>1, <2>2, <2>3, FitsScrolled
  <2> QED BY <2>1, <2>2, <2>4 DEF Kept, LeftInList
<1>4. CASE ~(reply \in h.replies \/ h.undefined) /\ reply.owner \notin DOMAIN h.replyList
  <2> DEFINE grown == Grown(h, ReplyHeight + Gap)
             places == With(h.replyList, reply.owner, [y |-> 0])
             g == [grown EXCEPT !.replies = h.replies \cup {reply}, !.replyList = places]
  <2>1. ReplyHeight \in Nat /\ Gap \in Nat /\ reply.owner \in Ids
    BY NumbersGiven DEF Reply
  <2>2. /\ grown \in Histories /\ grown.messages = h.messages /\ grown.list = h.list
        /\ grown.replies = h.replies /\ grown.replyList = h.replyList /\ grown.left = h.left
        /\ grown.minimum = h.minimum + (ReplyHeight + Gap) /\ h.minimum + (ReplyHeight + Gap) <= grown.surface
    BY <1>1, <2>1, GrownFields
  <2>3. AddReply(reply, h) = Placed(g)
    BY <1>4, <2>2 DEF AddReply, Histories
  <2>4. /\ DOMAIN places = DOMAIN h.replyList \cup {reply.owner}
        /\ \A id \in DOMAIN places : places[id] \in Place /\ places[id].y >= 0
    <3>1. DOMAIN places = DOMAIN h.replyList \cup {reply.owner}
      BY DEF With
    <3>2. \A id \in DOMAIN h.replyList : h.replyList[id] \in Place /\ h.replyList[id].y >= 0
      BY <1>1 DEF Fits
    <3>3. [y |-> 0] \in Place /\ [y |-> 0].y >= 0
      BY DEF Place
    <3>4. \A id \in DOMAIN places :
              places[id] = IF id = reply.owner THEN [y |-> 0] ELSE h.replyList[id]
      BY DEF With
    <3> HIDE DEF places
    <3> QED BY <3>1, <3>2, <3>3, <3>4
  <2>5. places \in UNION {[S -> Place] : S \in SUBSET Ids}
    <3>1. DOMAIN places \in SUBSET Ids
      BY <1>1, <2>1, <2>4
    <3>2. places = [id \in DOMAIN places |-> places[id]]
      BY DEF With
    <3> HIDE DEF places
    <3>3. places \in [DOMAIN places -> Place]
      BY <2>4, <3>2
    <3> QED BY <3>1, <3>3
  <2> HIDE DEF grown, places
  <2>6. /\ g \in Histories /\ g.messages = h.messages /\ g.list = h.list /\ g.replyList = places
        /\ g.left = h.left /\ g.minimum = grown.minimum /\ g.surface = grown.surface
    BY <1>1, <2>2, <2>5 DEF Histories
  <2> HIDE DEF g
  <2>7. /\ IsFiniteSet(DOMAIN places)
        /\ RoomOf(DOMAIN places) = RoomOf(DOMAIN h.replyList) + ReplyHeight + Gap
        /\ RoomOf(DOMAIN h.replyList) \in Nat
    <3>1. IsFiniteSet(DOMAIN h.replyList)
      BY <1>1 DEF Fits
    <3> QED BY <1>4, <2>4, <3>1, FS_AddElement, RoomForReplies
  <2>8. Roomy(g)
    <3>1. h.minimum = Heights(h.list) + RoomOf(DOMAIN h.replyList)
      BY <1>1 DEF Fits, Roomy
    <3>2. Heights(h.list) \in Nat
      BY <1>1, HeightsType
    <3>3. PICK a \in Nat, b \in Nat, c \in Nat, r \in Nat :
              a = Heights(h.list) /\ b = ReplyHeight /\ c = Gap /\ r = RoomOf(DOMAIN h.replyList)
      BY <2>1, <2>7, <3>2
    <3>4. g.minimum = (a + r) + (b + c) /\ RoomOf(DOMAIN places) = r + b + c
      BY <2>2, <2>6, <2>7, <3>1, <3>3
    <3>5. g.minimum = a + RoomOf(DOMAIN places)
      BY <3>4
    <3> QED BY <2>2, <2>6, <3>3, <3>5 DEF Roomy
  <2>9. Fits(g)
    BY <1>1, <2>4, <2>6, <2>7, <2>8 DEF Fits
  <2>10. /\ Fits(Placed(g)) /\ LaidOut(Placed(g).list) /\ Placed(g).left = g.left
         /\ Len(Placed(g).list) = Len(g.list)
    BY <2>9, PlacedKeeps
  <2> QED BY <1>1, <2>3, <2>6, <2>10 DEF Kept, LeftInList
<1> QED BY <1>2, <1>3, <1>4

\* MessageWidget::onDelete.
LEMMA DeletedKeeps ==
  ASSUME NEW h, Kept(h), NEW i \in DOMAIN h.list, ~h.list[i].deleted
  PROVE  Kept(Deleted(h, i))
<1> DEFINE widget == [h.list[i] EXCEPT !.deleted = TRUE, !.height = DeletedHeight]
           t == [h.list EXCEPT ![i] = widget]
           diff == DeletedHeight - MessageHeight
           g == [h EXCEPT !.list = t]
           grown == Grown(g, diff)
<1>1. /\ h \in Histories /\ Fits(h) /\ LeftInList(h) /\ h.minimum \in Int
      /\ h.list \in Seq(Widget) /\ DOMAIN h.list = 1 .. Len(h.list) /\ Len(h.list) \in Nat
  BY HistoryFields DEF Kept, Fits
<1>2. DeletedHeight \in Nat /\ MessageHeight \in Nat /\ diff \in Int
  BY NumbersGiven
<1>3. /\ h.list[i] \in Widget /\ h.list[i].height = MessageHeight
      /\ widget \in Widget /\ widget.id = h.list[i].id /\ widget.time = h.list[i].time
      /\ widget.height = DeletedHeight
  <2>1. h.list[i] \in Widget
    BY <1>1, WidgetFields
  <2> QED BY <1>2, <2>1 DEF Widget
<1>4. Deleted(h, i) = LayoutAfterResize(grown)
  BY <1>1 DEF Deleted, Histories
<1> HIDE DEF widget, diff
<1>5. /\ t \in Seq(Widget) /\ Len(t) = Len(h.list) /\ t[i] = widget
      /\ \A j \in 1 .. Len(h.list) : j # i => t[j] = h.list[j]
  <2>1. t \in [1 .. Len(h.list) -> Widget]
    BY <1>1, <1>3
  <2> QED BY <1>1, <2>1
<1> HIDE DEF t
<1>6. Matched(h.messages, t)
  <2>1. \A j \in 1 .. Len(h.list) : t[j].id = h.list[j].id /\ t[j].time = h.list[j].time
    BY <1>3, <1>5
  <2>2. Matched(h.messages, h.list)
    BY <1>1 DEF Fits
  <2> QED BY <1>1, <1>5, <2>1, <2>2, MatchedAlike
<1>7. Heights(t) = Heights(h.list) - MessageHeight + DeletedHeight
  BY <1>1, <1>3, <1>5, HeightChanged
<1>8. /\ g \in Histories /\ g.messages = h.messages /\ g.list = t /\ g.replyList = h.replyList
      /\ g.left = h.left /\ g.minimum = h.minimum
  BY <1>1, <1>5 DEF Histories
<1> HIDE DEF g
<1>9. /\ grown \in Histories /\ grown.messages = h.messages /\ grown.list = t
      /\ grown.replyList = h.replyList /\ grown.left = h.left
      /\ grown.minimum = h.minimum + diff /\ h.minimum + diff <= grown.surface
  BY <1>2, <1>8, GrownFields
<1> HIDE DEF grown
<1>10. Roomy(grown)
  <2>1. h.minimum = Heights(h.list) + RoomOf(DOMAIN h.replyList)
    BY <1>1 DEF Fits, Roomy
  <2>2. RoomOf(DOMAIN h.replyList) \in Nat /\ Heights(h.list) \in Nat
    BY <1>1, RoomForReplies, HeightsType DEF Fits
  <2>3. PICK a \in Nat, b \in Nat, c \in Nat, r \in Nat :
            a = Heights(h.list) /\ b = MessageHeight /\ c = DeletedHeight /\ r = RoomOf(DOMAIN h.replyList)
    BY <1>2, <2>2
  <2>4. grown.minimum = (a + r) + (c - b) /\ Heights(t) = a - b + c
    BY <1>7, <1>9, <2>1, <2>3 DEF diff
  <2>5. grown.minimum = Heights(t) + r
    BY <2>4
  <2> QED BY <1>9, <2>3, <2>5 DEF Roomy
<1>11. Fits(grown)
  BY <1>1, <1>6, <1>9, <1>10 DEF Fits
<1>12. LeftInList(grown) /\ grown.list # <<>>
  <2>1. Len(grown.list) = Len(h.list) /\ Len(h.list) # 0
    BY <1>1, <1>5, <1>9
  <2> QED BY <1>1, <1>9, <2>1 DEF LeftInList
<1> QED BY <1>4, <1>11, <1>12, LayoutAfterResizeKeeps

\* The surface takes the height it needs.
LEMMA SettledKeeps ==
  ASSUME NEW h, Kept(h)
  PROVE  Kept(Settled(h)) /\ Settled(h).top = h.top
<1> DEFINE s == Max({h.height, h.minimum})
           g == [h EXCEPT !.surface = s]
<1>1. h \in Histories /\ h.height \in Nat /\ h.minimum \in Int
  BY HistoryFields DEF Kept, Fits
<1>2. s \in Nat /\ h.minimum <= s
  <2>1. h.height \in Int /\ h.minimum \in Int
    BY <1>1
  <2>2. s \in Int /\ s >= h.height /\ s >= h.minimum
    BY ONLY <2>1, OneOfTwo
  <2> QED BY <1>1, <2>2
<1>3. Settled(h) = g
  BY DEF Settled
<1> HIDE DEF s
<1>4. /\ g \in Histories /\ g.messages = h.messages /\ g.list = h.list /\ g.replyList = h.replyList
      /\ g.minimum = h.minimum /\ g.surface = s /\ g.left = h.left /\ g.top = h.top
  BY <1>1, <1>2 DEF Histories
<1> HIDE DEF g
<1>5. Fits(g)
  BY <1>2, <1>4, FitsScrolled DEF Kept
<1> QED BY <1>3, <1>4, <1>5 DEF Kept, LeftInList

\* addMessages goes through the answer.
LEMMA MessagesAddedKeep ==
  ASSUME NEW h, Kept(h), NEW answer \in Seq(Info)
  PROVE  Kept(MessagesAdded(answer, h))
<1> DEFINE n == Len(answer)
           V == {k \in Histories : Kept(k)}
           step == [i \in Nat |-> [k \in V |-> IF i \in 1 .. n THEN AddMessage(answer[i], k) ELSE k]]
           D(f) == f = [i \in 0 .. n |-> IF i = 0 THEN h ELSE AddMessage(answer[i], f[i - 1])]
           c == CHOOSE f : D(f)
<1>1. n \in Nat /\ n = Len(answer) /\ \A i \in 1 .. n : answer[i] \in Info
  OBVIOUS
<1>2. h \in V
  BY DEF Kept, Fits
<1>3. ASSUME NEW i \in 1 .. n, NEW k \in V PROVE AddMessage(answer[i], k) \in V
  <2>1. Kept(AddMessage(answer[i], k))
    BY <1>1, AddMessageKeeps
  <2> QED BY <2>1 DEF Kept, Fits
<1>4. step \in [Nat -> [V -> V]]
  BY <1>3
<1>5. \A i \in 1 .. n, k \in V : step[i][k] = AddMessage(answer[i], k)
  BY <1>1
<1>6. \A k \in V : Kept(k)
  OBVIOUS
<1>7. MessagesAdded(answer, h) = c[n]
  BY DEF MessagesAdded
<1> HIDE DEF n, V, step, c
<1>8. PICK g \in [0 .. n -> V] : Recursive(g, h, step, n)
  BY <1>1, <1>2, <1>4, Recursion
<1>9. D(g)
  <2>1. ASSUME NEW i \in 0 .. n PROVE g[i] = IF i = 0 THEN h ELSE AddMessage(answer[i], g[i - 1])
    <3>1. i \in Nat /\ (i # 0 => i - 1 \in 0 .. n /\ i \in 1 .. n)
      BY <1>1
    <3>2. g[i] = IF i = 0 THEN h ELSE step[i][g[i - 1]]
      BY <1>8 DEF Recursive
    <3> QED BY <1>5, <1>8, <3>1, <3>2
  <2> QED BY <1>8, <2>1
<1>10. D(c)
  BY <1>9 DEF c
<1> DEFINE G == {i \in Nat : i <= n => c[i] \in V}
<1>11. 0 \in G
  BY <1>1, <1>2, <1>10
<1>12. ASSUME NEW i \in Nat, i \in G PROVE i + 1 \in G
  <2> SUFFICES ASSUME i + 1 <= n PROVE c[i + 1] \in V
    OBVIOUS
  <2> DEFINE j == i + 1
  <2>1. j \in 0 .. n /\ j \in 1 .. n /\ j # 0 /\ j - 1 = i /\ c[i] \in V
    BY <1>1, <1>12
  <2> HIDE DEF j
  <2>2. c[j] = AddMessage(answer[j], c[j - 1])
    BY <1>10, <2>1
  <2> QED BY <1>3, <2>1, <2>2 DEF j
<1> HIDE DEF G
<1>13. n \in G
  BY <1>1, <1>11, <1>12, Induction
<1> QED BY <1>1, <1>6, <1>7, <1>13 DEF G

\* And so does addReplies.
LEMMA RepliesAddedKeep ==
  ASSUME NEW h, Kept(h), NEW answer \in Seq(Reply)
  PROVE  Kept(RepliesAdded(answer, h))
<1> DEFINE n == Len(answer)
           V == {k \in Histories : Kept(k)}
           step == [i \in Nat |-> [k \in V |-> IF i \in 1 .. n THEN AddReply(answer[i], k) ELSE k]]
           D(f) == f = [i \in 0 .. n |-> IF i = 0 THEN h ELSE AddReply(answer[i], f[i - 1])]
           c == CHOOSE f : D(f)
<1>1. n \in Nat /\ n = Len(answer) /\ \A i \in 1 .. n : answer[i] \in Reply
  OBVIOUS
<1>2. h \in V
  BY DEF Kept, Fits
<1>3. ASSUME NEW i \in 1 .. n, NEW k \in V PROVE AddReply(answer[i], k) \in V
  <2>1. Kept(AddReply(answer[i], k))
    BY <1>1, AddReplyKeeps
  <2> QED BY <2>1 DEF Kept, Fits
<1>4. step \in [Nat -> [V -> V]]
  BY <1>3
<1>5. \A i \in 1 .. n, k \in V : step[i][k] = AddReply(answer[i], k)
  BY <1>1
<1>6. \A k \in V : Kept(k)
  OBVIOUS
<1>7. RepliesAdded(answer, h) = c[n]
  BY DEF RepliesAdded
<1> HIDE DEF n, V, step, c
<1>8. PICK g \in [0 .. n -> V] : Recursive(g, h, step, n)
  BY <1>1, <1>2, <1>4, Recursion
<1>9. D(g)
  <2>1. ASSUME NEW i \in 0 .. n PROVE g[i] = IF i = 0 THEN h ELSE AddReply(answer[i], g[i - 1])
    <3>1. i \in Nat /\ (i # 0 => i - 1 \in 0 .. n /\ i \in 1 .. n)
      BY <1>1
    <3>2. g[i] = IF i = 0 THEN h ELSE step[i][g[i - 1]]
      BY <1>8 DEF Recursive
    <3> QED BY <1>5, <1>8, <3>1, <3>2
  <2> QED BY <1>8, <2>1
<1>10. D(c)
  BY <1>9 DEF c
<1> DEFINE G == {i \in Nat : i <= n => c[i] \in V}
<1>11. 0 \in G
  BY <1>1, <1>2, <1>10
<1>12. ASSUME NEW i \in Nat, i \in G PROVE i + 1 \in G
  <2> SUFFICES ASSUME i + 1 <= n PROVE c[i + 1] \in V
    OBVIOUS
  <2> DEFINE j == i + 1
  <2>1. j \in 0 .. n /\ j \in 1 .. n /\ j # 0 /\ j - 1 = i /\ c[i] \in V
    BY <1>1, <1>12
  <2> HIDE DEF j
  <2>2. c[j] = AddReply(answer[j], c[j - 1])
    BY <1>10, <2>1
  <2> QED BY <1>3, <2>1, <2>2 DEF j
<1> HIDE DEF G
<1>13. n \in G
  BY <1>1, <1>11, <1>12, Induction
<1> QED BY <1>1, <1>6, <1>7, <1>13 DEF G

------------------------------------------------------------------------------
(* The server, and the steps.                                              *)

StoredInv ==
    /\ stored \in [messages : UNION {[S -> [time : Nat, reactions : Nat]] : S \in SUBSET Ids},
                   elsewhere : SUBSET Ids, replies : SUBSET Reply, last : Nat]
    /\ IsFiniteSet(DOMAIN stored.messages) /\ IsFiniteSet(stored.elsewhere)
    /\ IsFiniteSet(stored.replies)

HistoryInv == StoredInv /\ Kept(chat)

LEMMA StoredFields ==
  ASSUME StoredInv
  PROVE  /\ DOMAIN stored.messages \subseteq Ids /\ stored.elsewhere \subseteq Ids
         /\ stored.messages \in [DOMAIN stored.messages -> [time : Nat, reactions : Nat]]
         /\ stored.replies \subseteq Reply /\ stored.last \in Nat
<1>1. /\ stored.messages \in UNION {[S -> [time : Nat, reactions : Nat]] : S \in SUBSET Ids}
      /\ stored.elsewhere \subseteq Ids /\ stored.replies \subseteq Reply /\ stored.last \in Nat
  BY DEF StoredInv
<1>2. PICK S \in SUBSET Ids : stored.messages \in [S -> [time : Nat, reactions : Nat]]
  BY <1>1
<1> QED BY <1>1, <1>2

\* A table of messages.
LEMMA Tables ==
  ASSUME NEW f, f = [x \in DOMAIN f |-> f[x]], DOMAIN f \subseteq Ids,
         \A x \in DOMAIN f : f[x] \in [time : Nat, reactions : Nat]
  PROVE  f \in UNION {[S -> [time : Nat, reactions : Nat]] : S \in SUBSET Ids}
<1>1. f \in [DOMAIN f -> [time : Nat, reactions : Nat]]
  OBVIOUS
<1> QED BY <1>1

LEMMA HeightsOfNone == Heights(<<>>) = 0
<1>1. <<>> \in Seq(Widget) /\ Len(<<>>) = 0
  OBVIOUS
<1>2. PICK f : IsSum(f, <<>>) /\ Heights(<<>>) = f[Len(<<>>)]
  BY <1>1, SumTable
<1> QED BY <1>1, <1>2 DEF IsSum

LEMMA HistoryBegins == HistoryInit => HistoryInv
<1> SUFFICES ASSUME HistoryInit PROVE HistoryInv
  OBVIOUS
<1>1. DOMAIN Nothing = {} /\ Nothing = [x \in DOMAIN Nothing |-> Nothing[x]]
  BY DEF Nothing
<1>2. IsFiniteSet({}) /\ Cardinality({}) = 0
  BY FS_EmptySet
<1>3. StoredInv
  <2>1. Nothing \in UNION {[S -> [time : Nat, reactions : Nat]] : S \in SUBSET Ids}
    BY <1>1, Tables
  <2>2. /\ stored.messages = Nothing /\ stored.elsewhere = {} /\ stored.replies = {} /\ stored.last = 0
        /\ stored = [messages |-> Nothing, elsewhere |-> {}, replies |-> {}, last |-> 0]
    BY DEF HistoryInit
  <2> DEFINE Messages == UNION {[S -> [time : Nat, reactions : Nat]] : S \in SUBSET Ids}
  <2>3. Nothing \in Messages
    BY <2>1
  <2> HIDE DEF Messages
  <2>4. stored \in [messages : Messages, elsewhere : SUBSET Ids, replies : SUBSET Reply, last : Nat]
    BY <2>2, <2>3
  <2> QED BY <1>1, <1>2, <2>2, <2>4 DEF StoredInv, Messages
<1>4. PICK v \in Viewports : chat = Empty(v)
  BY DEF HistoryInit
<1>5. v \in Nat
  BY NumbersGiven
<1>6. /\ chat.messages = {} /\ chat.list = <<>> /\ chat.replies = {} /\ chat.replyList = Nothing
      /\ chat.left = -1 /\ chat.minimum = 0 /\ chat.surface = v
  BY <1>4 DEF Empty
<1>7. chat \in Histories
  <2>1. Nothing \in UNION {[S -> Place] : S \in SUBSET Ids}
    <3>1. Nothing \in [{} -> Place] /\ {} \in SUBSET Ids
      BY <1>1
    <3> QED BY <3>1
  <2>2. <<>> \in Seq(Widget) /\ 0 - 1 \in Int
    OBVIOUS
  <2> QED BY <1>4, <1>5, <2>1, <2>2 DEF Empty, Histories
<1>8. DOMAIN <<>> = {} /\ Len(<<>>) = 0
  OBVIOUS
<1>9. Matched(chat.messages, chat.list)
  BY <1>6, <1>8 DEF Matched
<1>10. Roomy(chat)
  <2>1. RoomOf({}) = 0
    <3>1. \A n \in Nat : n * 0 = 0
      OBVIOUS
    <3>2. ReplyHeight + Gap \in Nat
      BY NumbersGiven
    <3> QED BY <1>2, <3>1, <3>2 DEF RoomOf
  <2> QED BY <1>1, <1>5, <1>6, <2>1, HeightsOfNone DEF Roomy
<1>11. Fits(chat)
  BY <1>1, <1>2, <1>6, <1>7, <1>9, <1>10 DEF Fits
<1>12. LeftInList(chat) /\ LaidOut(chat.list)
  BY <1>6, <1>8 DEF LeftInList, LaidOut
<1> QED BY <1>3, <1>11, <1>12 DEF HistoryInv, Kept

LEMMA StoreMessageKeeps == ASSUME HistoryInv, StoreMessage PROVE HistoryInv'
<1> DEFINE new == stored.last + 1
           table == With(stored.messages, new, [time |-> SentAt[new], reactions |-> 0])
<1>1. StoredInv /\ Kept(chat) /\ chat' = chat
  BY DEF HistoryInv, StoreMessage
<1>2. /\ DOMAIN stored.messages \subseteq Ids
      /\ stored.messages \in [DOMAIN stored.messages -> [time : Nat, reactions : Nat]]
      /\ stored.last \in Nat
  BY <1>1, StoredFields
<1>3. new \in Ids /\ new \in Nat /\ SentAt[new] \in Nat
  BY <1>2, NumbersGiven DEF StoreMessage
<1>4. stored' = [stored EXCEPT !.last = new, !.messages = table]
  BY <1>1 DEF StoreMessage, StoredInv
<1> HIDE DEF new
<1>5. /\ DOMAIN table = DOMAIN stored.messages \cup {new}
      /\ table = [x \in DOMAIN table |-> table[x]]
      /\ \A x \in DOMAIN table :
             table[x] = IF x = new THEN [time |-> SentAt[new], reactions |-> 0] ELSE stored.messages[x]
  BY DEF With
<1> HIDE DEF table
<1>6. table \in UNION {[S -> [time : Nat, reactions : Nat]] : S \in SUBSET Ids}
  <2>1. \A x \in DOMAIN table : table[x] \in [time : Nat, reactions : Nat]
    BY <1>2, <1>3, <1>5
  <2> QED BY <1>2, <1>3, <1>5, <2>1, Tables
<1>7. IsFiniteSet(DOMAIN table)
  BY <1>1, <1>5, FS_AddElement DEF StoredInv
<1>8. StoredInv'
  BY <1>1, <1>3, <1>4, <1>6, <1>7 DEF StoredInv
<1> QED BY <1>1, <1>8 DEF HistoryInv

LEMMA StoreElsewhereKeeps == ASSUME HistoryInv, StoreElsewhere PROVE HistoryInv'
<1>1. StoredInv /\ Kept(chat) /\ chat' = chat
  BY DEF HistoryInv, StoreElsewhere
<1>2. stored.last + 1 \in Ids /\ stored.last + 1 \in Nat
  BY NumbersGiven DEF StoreElsewhere
<1>3. IsFiniteSet(stored.elsewhere \cup {stored.last + 1})
  BY <1>1, FS_AddElement DEF StoredInv
<1>4. stored' = [stored EXCEPT !.last = stored.last + 1,
                               !.elsewhere = stored.elsewhere \cup {stored.last + 1}]
  BY <1>1 DEF StoreElsewhere, StoredInv
<1>5. StoredInv'
  BY <1>1, <1>2, <1>3, <1>4 DEF StoredInv
<1> QED BY <1>1, <1>5 DEF HistoryInv

LEMMA StoreReplyKeeps == ASSUME HistoryInv, NEW ref \in Ids, StoreReply(ref) PROVE HistoryInv'
<1> DEFINE all == DOMAIN stored.messages \cup stored.elsewhere
           reply == [owner |-> Max(all), ref |-> ref]
<1>1. StoredInv /\ Kept(chat) /\ chat' = chat
  BY DEF HistoryInv, StoreReply
<1>2. DOMAIN stored.messages \subseteq Ids /\ stored.elsewhere \subseteq Ids /\ Ids \subseteq Nat
  BY <1>1, StoredFields, NumbersGiven
<1>3. all \in SUBSET Nat /\ all \subseteq Ids /\ all # {} /\ IsFiniteSet(all)
  <2>1. IsFiniteSet(all)
    BY <1>1, FS_Union DEF StoredInv
  <2>2. ref \in all
    BY DEF StoreReply
  <2> QED BY <1>2, <2>1, <2>2
<1>4. stored' = [stored EXCEPT !.replies = stored.replies \cup {reply}]
  BY <1>1 DEF StoreReply, StoredInv
<1> HIDE DEF all
<1>5. reply \in Reply
  BY <1>3, Greatest DEF Reply
<1> HIDE DEF reply
<1>6. IsFiniteSet(stored.replies \cup {reply})
  BY <1>1, FS_AddElement DEF StoredInv
<1>7. StoredInv'
  BY <1>1, <1>4, <1>5, <1>6 DEF StoredInv
<1> QED BY <1>1, <1>7 DEF HistoryInv

LEMMA ReactKeeps == ASSUME HistoryInv, NEW id \in Ids, React(id) PROVE HistoryInv'
<1> DEFINE row == [stored.messages[id] EXCEPT !.reactions = @ + 1]
           table == [stored.messages EXCEPT ![id] = row]
<1>1. StoredInv /\ Kept(chat) /\ chat' = chat /\ id \in DOMAIN stored.messages
  BY DEF HistoryInv, React
<1>2. /\ DOMAIN stored.messages \subseteq Ids
      /\ stored.messages \in [DOMAIN stored.messages -> [time : Nat, reactions : Nat]]
  BY <1>1, StoredFields
<1>3. row \in [time : Nat, reactions : Nat]
  BY <1>1, <1>2
<1>4. stored' = [stored EXCEPT !.messages = table]
  BY <1>1 DEF React, StoredInv
<1> HIDE DEF row
<1>5. table \in [DOMAIN stored.messages -> [time : Nat, reactions : Nat]] /\ DOMAIN table = DOMAIN stored.messages
  BY <1>2, <1>3
<1> HIDE DEF table
<1>6. StoredInv'
  <2>1. table \in UNION {[S -> [time : Nat, reactions : Nat]] : S \in SUBSET Ids}
    BY <1>2, <1>5
  <2> QED BY <1>1, <1>4, <1>5, <2>1 DEF StoredInv
<1> QED BY <1>1, <1>6 DEF HistoryInv

LEMMA DeleteStoredKeeps == ASSUME HistoryInv, DeleteStored PROVE HistoryInv'
<1> DEFINE id == Head(requested).id
           table == Restrict(stored.messages, DOMAIN stored.messages \ {id})
           rest == {r \in stored.replies : id \notin {r.owner, r.ref}}
<1>1. StoredInv /\ Kept(chat) /\ chat' = chat
  BY DEF HistoryInv, DeleteStored
<1>2. /\ DOMAIN stored.messages \subseteq Ids
      /\ stored.messages \in [DOMAIN stored.messages -> [time : Nat, reactions : Nat]]
      /\ stored.replies \subseteq Reply
  BY <1>1, StoredFields
<1>3. stored' = [stored EXCEPT !.messages = table, !.replies = rest]
  BY <1>1 DEF DeleteStored, StoredInv
<1>4. rest \subseteq Reply /\ IsFiniteSet(rest)
  <2>1. rest \subseteq stored.replies
    OBVIOUS
  <2> QED BY <1>1, <1>2, <2>1, FS_Subset DEF StoredInv
<1>5. /\ DOMAIN table = DOMAIN stored.messages \ {id}
      /\ table = [x \in DOMAIN table |-> table[x]]
      /\ \A x \in DOMAIN table : table[x] = stored.messages[x]
  BY DEF Restrict
<1> HIDE DEF id, table, rest
<1>6. IsFiniteSet(DOMAIN table)
  BY <1>1, <1>5, FS_RemoveElement DEF StoredInv
<1>7. table \in UNION {[S -> [time : Nat, reactions : Nat]] : S \in SUBSET Ids}
  <2>1. \A x \in DOMAIN table : table[x] \in [time : Nat, reactions : Nat]
    BY <1>2, <1>5
  <2> QED BY <1>2, <1>5, <2>1, Tables
<1>8. StoredInv'
  BY <1>1, <1>3, <1>4, <1>6, <1>7 DEF StoredInv
<1> QED BY <1>1, <1>8 DEF HistoryInv

\* The rows are finite in number, so that an answer is a sequence of them.
LEMMA RowsFinite == ASSUME StoredInv PROVE MessageRows \subseteq Info /\ IsFiniteSet(MessageRows)
<1> DEFINE D == DOMAIN stored.messages
           row(n) == [id |-> n, time |-> stored.messages[n].time, reactions |-> stored.messages[n].reactions]
           f == [n \in D |-> row(n)]
<1>1. D \subseteq Ids /\ stored.messages \in [D -> [time : Nat, reactions : Nat]] /\ IsFiniteSet(D)
  BY StoredFields DEF StoredInv
<1>2. MessageRows = {row(n) : n \in D}
  BY DEF MessageRows
<1>3. \A n \in D : row(n) \in Info
  BY <1>1 DEF Info
<1> HIDE DEF D, row
<1>4. f \in Surjection(D, MessageRows)
  BY <1>2 DEF Surjection
<1>5. IsFiniteSet(MessageRows)
  BY <1>1, <1>4, FS_Surjection
<1> QED BY <1>2, <1>3, <1>5

LEMMA AnswersAreSequences ==
  ASSUME NEW S, IsFiniteSet(S), NEW T, S \subseteq T, NEW answer \in SetToSeqs(S)
  PROVE  answer \in Seq(T)
<1>1. Cardinality(S) \in Nat
  BY FS_CardinalityType
<1>2. answer \in [1 .. Cardinality(S) -> S]
  BY DEF SetToSeqs
<1>3. answer \in [1 .. Cardinality(S) -> T]
  BY <1>2
<1> QED BY <1>1, <1>3

LEMMA TakeKeeps == ASSUME HistoryInv, TakeMessages \/ TakeReplies PROVE HistoryInv'
<1>1. StoredInv /\ Kept(chat) /\ stored' = stored
  BY DEF HistoryInv, TakeMessages, TakeReplies
<1>2. StoredInv'
  BY <1>1 DEF StoredInv
<1>3. CASE TakeMessages
  <2>1. PICK answer \in SetToSeqs(MessageRows) : chat' = MessagesAdded(answer, chat)
    BY <1>3 DEF TakeMessages
  <2>2. answer \in Seq(Info)
    BY <1>1, RowsFinite, AnswersAreSequences
  <2>3. Kept(chat')
    BY <1>1, <2>1, <2>2, MessagesAddedKeep
  <2> QED BY <1>2, <2>3 DEF HistoryInv
<1>4. CASE TakeReplies
  <2>1. PICK answer \in SetToSeqs(stored.replies) : chat' = RepliesAdded(answer, chat)
    BY <1>4 DEF TakeReplies
  <2>2. IsFiniteSet(stored.replies) /\ stored.replies \subseteq Reply
    BY <1>1, StoredFields DEF StoredInv
  <2>3. answer \in Seq(Reply)
    BY <2>2, AnswersAreSequences
  <2>4. Kept(chat')
    BY <1>1, <2>1, <2>3, RepliesAddedKeep
  <2> QED BY <1>2, <2>4 DEF HistoryInv
<1> QED BY <1>3, <1>4

LEMMA DeleteKeeps == ASSUME HistoryInv, NEW i \in DOMAIN chat.list, Delete(i) PROVE HistoryInv'
<1>1. StoredInv /\ Kept(chat) /\ stored' = stored /\ chat' = Deleted(chat, i) /\ ~chat.list[i].deleted
  BY DEF HistoryInv, Delete
<1>2. Kept(chat')
  BY <1>1, DeletedKeeps
<1> QED BY <1>1, <1>2 DEF HistoryInv, StoredInv

LEMMA ScrollKeeps == ASSUME HistoryInv, NEW y \in 0 .. chat.surface, Scroll(y) PROVE HistoryInv'
<1>1. StoredInv /\ Kept(chat) /\ stored' = stored /\ chat' = ScrolledTo(chat, y) /\ y \in Int
  BY DEF HistoryInv, Scroll
<1>2. Kept(chat')
  BY <1>1, ScrolledToKeeps
<1> QED BY <1>1, <1>2 DEF HistoryInv, StoredInv

LEMMA SettleKeeps == ASSUME HistoryInv, Settle PROVE HistoryInv'
<1>1. StoredInv /\ Kept(chat) /\ stored' = stored /\ chat' = ScrolledTo(Settled(chat), chat.top)
  BY DEF HistoryInv, Settle
<1>2. chat.top \in Int
  <2>1. chat.top \in Nat
    BY <1>1, HistoryFields DEF Kept, Fits
  <2> QED BY <2>1
<1>3. Kept(chat')
  BY <1>1, <1>2, SettledKeeps, ScrolledToKeeps
<1> QED BY <1>1, <1>3 DEF HistoryInv, StoredInv

LEMMA ResizeKeeps == ASSUME HistoryInv, NEW v \in Viewports, Resize(v) PROVE HistoryInv'
<1> DEFINE sized == [chat EXCEPT !.height = v]
           h == Settled(sized)
           scrolled == ScrolledTo(h, h.top)
<1>1. StoredInv /\ Kept(chat) /\ stored' = stored /\ chat' = Placed(scrolled) /\ v \in Nat
  BY NumbersGiven DEF HistoryInv, Resize
<1>2. chat \in Histories
  BY <1>1 DEF Kept, Fits
<1>3. /\ sized \in Histories /\ sized.messages = chat.messages /\ sized.list = chat.list
      /\ sized.replyList = chat.replyList /\ sized.minimum = chat.minimum
      /\ sized.surface = chat.surface /\ sized.left = chat.left
  BY <1>1, <1>2 DEF Histories
<1> HIDE DEF sized
<1>4. Kept(sized)
  <2>1. chat.minimum <= sized.surface
    BY <1>1, <1>3 DEF Kept, Fits, Roomy
  <2>2. Fits(sized)
    BY <1>1, <1>3, <2>1, FitsScrolled DEF Kept
  <2> QED BY <1>1, <1>3, <2>2 DEF Kept, LeftInList
<1>5. Kept(h)
  BY <1>4, SettledKeeps
<1> HIDE DEF h
<1>6. Kept(scrolled)
  <2>1. h.top \in Nat
    BY <1>5, HistoryFields DEF Kept, Fits
  <2>2. h.top \in Int
    BY <2>1
  <2> QED BY <1>5, <2>2, ScrolledToKeeps
<1> HIDE DEF scrolled
<1>7. Kept(Placed(scrolled))
  <2>1. /\ Fits(Placed(scrolled)) /\ LaidOut(Placed(scrolled).list)
        /\ Placed(scrolled).left = scrolled.left /\ Len(Placed(scrolled).list) = Len(scrolled.list)
    BY <1>6, PlacedKeeps DEF Kept
  <2> QED BY <1>6, <2>1 DEF Kept, LeftInList
<1> QED BY <1>1, <1>7 DEF HistoryInv, StoredInv

LEMMA HistoryStep == ASSUME HistoryInv, [HistoryNext]_historyVars PROVE HistoryInv'
<1>1. CASE StoreMessage
  BY <1>1, StoreMessageKeeps
<1>2. CASE StoreElsewhere
  BY <1>2, StoreElsewhereKeeps
<1>3. CASE \E ref \in Ids : StoreReply(ref)
  BY <1>3, StoreReplyKeeps
<1>4. CASE \E id \in Ids : React(id)
  BY <1>4, ReactKeeps
<1>5. CASE RequestHistory
  BY <1>5 DEF RequestHistory, HistoryInv, StoredInv
<1>6. CASE TakeMessages \/ TakeReplies
  BY <1>6, TakeKeeps
<1>7. CASE \E i \in DOMAIN chat.list : Delete(i)
  BY <1>7, DeleteKeeps
<1>8. CASE DeleteStored
  BY <1>8, DeleteStoredKeeps
<1>9. CASE \E y \in 0 .. chat.surface : Scroll(y)
  BY <1>9, ScrollKeeps
<1>10. CASE Settle
  BY <1>10, SettleKeeps
<1>11. CASE \E v \in Viewports : Resize(v)
  BY <1>11, ResizeKeeps
<1>12. CASE UNCHANGED historyVars
  BY <1>12 DEF historyVars, HistoryInv, StoredInv
<1> QED
  BY <1>1, <1>2, <1>3, <1>4, <1>5, <1>6, <1>7, <1>8, <1>9, <1>10, <1>11, <1>12 DEF HistoryNext

LEMMA HistoryInvariant == HistorySpec => []HistoryInv
<1>1. HistoryInit => HistoryInv
  BY HistoryBegins
<1>2. HistoryInv /\ [HistoryNext]_historyVars => HistoryInv'
  BY HistoryStep
<1> QED BY <1>1, <1>2, PTL DEF HistorySpec

------------------------------------------------------------------------------

\* addMessage (ChatHistory.cpp): each message that has come has one widget, in
\* the order of the times, however often and with whatever reactions it comes.
THEOREM EachMessageHasOneWidget == HistorySpec => []OneWidgetEach
<1>1. HistoryInv => OneWidgetEach
  <2> SUFFICES ASSUME HistoryInv PROVE OneWidgetEach
    OBVIOUS
  <2>1. Matched(chat.messages, chat.list) /\ chat \in Histories
    BY DEF HistoryInv, Kept, Fits
  <2> DEFINE n == Len(chat.list)
             f == [i \in 1 .. n |-> CHOOSE m \in chat.messages : m.id = chat.list[i].id]
  <2>2. n \in Nat /\ DOMAIN chat.list = 1 .. n
    BY <2>1, HistoryFields
  <2>3. {m.id : m \in chat.messages} = {chat.list[i].id : i \in 1 .. n}
    BY <2>1, <2>2 DEF Matched
  <2>4. \A i \in 1 .. n : f[i] \in chat.messages /\ f[i].id = chat.list[i].id
    <3> TAKE i \in 1 .. n
    <3>1. \E m \in chat.messages : m.id = chat.list[i].id
      BY <2>3
    <3> QED BY <3>1
  <2>5. f \in [1 .. n -> chat.messages]
    BY <2>4
  <2> HIDE DEF f
  <2>6. \A i, j \in 1 .. n : f[i] = f[j] => i = j
    <3>1. \A i, j \in 1 .. n : i < j => chat.list[i].id # chat.list[j].id
      BY <2>1, <2>2 DEF Matched
    <3>2. \A i, j \in 1 .. n : i < j \/ j < i \/ i = j
      BY <2>2
    <3>3. ASSUME NEW i \in 1 .. n, NEW j \in 1 .. n, f[i] = f[j] PROVE i = j
      <4>1. chat.list[i].id = chat.list[j].id
        BY <2>4, <3>3
      <4> QED BY <3>1, <3>2, <4>1
    <3> QED BY <3>3
  <2>7. \A m \in chat.messages : \E i \in 1 .. n : f[i] = m
    <3> TAKE m \in chat.messages
    <3>1. PICK i \in 1 .. n : m.id = chat.list[i].id
      BY <2>3
    <3>2. f[i] \in chat.messages /\ f[i].id = m.id
      BY <2>4, <3>1
    <3>3. f[i] = m
      BY <2>1, <3>2 DEF Matched
    <3> QED BY <3>3
  <2>8. f \in Bijection(1 .. n, chat.messages)
    BY <2>5, <2>6, <2>7 DEF Bijection, Injection, Surjection, IsInjective
  <2>9. Cardinality(chat.messages) = Cardinality(1 .. n)
    <3>1. IsFiniteSet(1 .. n)
      BY <2>2, FS_Interval
    <3>2. ExistsBijection(1 .. n, chat.messages)
      BY <2>8 DEF ExistsBijection
    <3> QED BY <3>1, <3>2, FS_Bijection
  <2>10. Cardinality(1 .. n) = n
    BY <2>2, FS_Interval
  <2> QED BY <2>1, <2>9, <2>10 DEF OneWidgetEach, Matched
<1> QED BY <1>1, HistoryInvariant, PTL

\* updateLayout (ChatHistory.cpp) looks at _messageList[_left] without a test:
\* it is there.
THEOREM LeftStaysInList == HistorySpec => []LeftIsAnIndex
<1>1. HistoryInv => LeftIsAnIndex
  BY DEF HistoryInv, Kept, LeftInList, LeftIsAnIndex
<1> QED BY <1>1, HistoryInvariant, PTL

\* addMessage, addReply and onDelete give the surface the height that
\* updateLayout needs: nothing is above its top, and nothing covers another.
THEOREM NothingIsCutOff == HistorySpec => []NothingCutOff
<1>1. HistoryInv => NothingCutOff
  BY DEF HistoryInv, Kept, LaidOut, Fits, NothingCutOff
<1> QED BY <1>1, HistoryInvariant, PTL

\* findVisible (ChatHistory.cpp) finds all that is seen, though its search
\* looks at other messages than it means to.
THEOREM SeenAreFound == HistorySpec => []VisibleFoundInPlace
<1>1. HistoryInv => VisibleFoundInPlace
  <2> SUFFICES ASSUME HistoryInv, chat.list # <<>>, RepliesInPlace(chat),
                      NEW i \in 0 .. Size(chat) - 1, InSight(chat, i)
               PROVE  i \in FindVisible(chat).left .. FindVisible(chat).right
    BY DEF VisibleFoundInPlace, AllFound
  <2>1. chat \in Histories /\ LaidOut(chat.list)
    BY DEF HistoryInv, Kept, Fits
  <2>2. Middle(chat) \in 0 .. Size(chat) - 1
    BY <2>1, MiddleIsAnIndex
  <2>3. i \in Ahead(chat, Middle(chat)) .. Behind(chat, Middle(chat))
    BY <2>1, <2>2, ScansFind
  <2> QED BY <2>3 DEF FindVisible
<1> QED BY <1>1, HistoryInvariant, PTL
==============================================================================
