--------------------------- MODULE Network_Proofs ---------------------------
(***************************************************************************)
(* What SafeQueue keeps for every set of threads and every number of       *)
(* pushes, and what Connection keeps for every set of messages and however *)
(* many are sent.                                                          *)
(*                                                                         *)
(* SafeQueue: TypeOK, with the mutex holders tied to the program counters  *)
(* by Exclusion, is inductive by itself; Fifo is inductive on top of it    *)
(* when the queue is used from one end to the other; PopFindsItem needs    *)
(* one consumer, and is inductive on top of TypeOK.                        *)
(*                                                                         *)
(* Connection: QInv (the messages are numbered in the order of the sends,  *)
(* and the one write in progress is that of the front of the queue) is     *)
(* inductive by itself, and QueueMoves on top of it.  StreamInv adds what  *)
(* is on the wire: a stretch of the stream of all units that were or will  *)
(* be sent, from the place of the next read to the place of the write.     *)
(* FrameAligned follows from it, BodyOfItselfOrOlder is inductive on top   *)
(* of it, and every step from a state of it is a step of MessageChannel.   *)
(***************************************************************************)
EXTENDS SafeQueue, Connection, SequenceTheorems, Selections_Proofs

\* What the two kinds of push leave in the deque.
LEMMA EmplacedType ==
  ASSUME TypeOK, NEW end
  PROVE  /\ Emplaced(end, pushed + 1) \in Seq(1 .. (pushed + 1))
         /\ Emplaced(end, pushed + 1) # <<>>
<1>1. mRawQueue \in Seq(1 .. (pushed + 1)) /\ pushed + 1 \in 1 .. (pushed + 1)
  BY DEF TypeOK
<1>2. <<pushed + 1>> \in Seq(1 .. (pushed + 1))
  BY <1>1
<1>3. CASE end = "back"
  BY <1>1, <1>2, <1>3 DEF Emplaced
<1>4. CASE end # "back"
  BY <1>1, <1>2, <1>4 DEF Emplaced
<1>5. QED BY <1>3, <1>4

\* A pop leaves a deque of the same items.
LEMMA PoppedType ==
  ASSUME TypeOK, NEW end, mRawQueue # <<>>
  PROVE  Popped(end) \in Seq(1 .. pushed) /\ ItemAt(end) \in 1 .. pushed
<1>1. mRawQueue \in Seq(1 .. pushed) /\ Len(mRawQueue) \in Nat \ {0}
  BY DEF TypeOK
<1>2. \A i \in 1 .. Len(mRawQueue) : mRawQueue[i] \in 1 .. pushed
  BY <1>1, ElementOfSeq
<1>3. /\ SubSeq(mRawQueue, 2, Len(mRawQueue)) \in Seq(1 .. pushed)
      /\ SubSeq(mRawQueue, 1, Len(mRawQueue) - 1) \in Seq(1 .. pushed)
  <2>1. \A i \in 2 .. Len(mRawQueue) : mRawQueue[i] \in 1 .. pushed
    BY <1>1, <1>2
  <2>2. \A i \in 1 .. Len(mRawQueue) - 1 : mRawQueue[i] \in 1 .. pushed
    BY <1>1, <1>2
  <2>3. Len(mRawQueue) \in Int /\ Len(mRawQueue) - 1 \in Int /\ 1 \in Int /\ 2 \in Int
    BY <1>1
  <2>4. SubSeq(mRawQueue, 2, Len(mRawQueue)) \in Seq(1 .. pushed)
    BY ONLY <2>1, <2>3, SubSeqProperties, Zenon
  <2>5. SubSeq(mRawQueue, 1, Len(mRawQueue) - 1) \in Seq(1 .. pushed)
    BY ONLY <2>2, <2>3, SubSeqProperties, Zenon
  <2>6. QED BY <2>4, <2>5
<1>4. mRawQueue[1] \in 1 .. pushed /\ mRawQueue[Len(mRawQueue)] \in 1 .. pushed
  <2>1. 1 \in 1 .. Len(mRawQueue) /\ Len(mRawQueue) \in 1 .. Len(mRawQueue)
    BY <1>1
  <2>2. QED BY <1>2, <2>1
<1>5. QED BY <1>3, <1>4 DEF Popped, ItemAt

LEMMA SafeQueueTyped == QueueSpec => [](TypeOK /\ Exclusion)
<1> USE QueueAssumption DEF Threads, ProducerPc, ConsumerPc
<1>1. QueueInit => TypeOK /\ Exclusion
  BY DEF QueueInit, TypeOK, Exclusion
<1>2. TypeOK /\ Exclusion /\ [QueueNext]_queueVars => TypeOK' /\ Exclusion'
  <2> SUFFICES ASSUME TypeOK, Exclusion, [QueueNext]_queueVars
               PROVE  TypeOK' /\ Exclusion'
    OBVIOUS
  <2>1. ASSUME NEW p \in Producers, NEW end \in PushEnds, Emplace(p, end)
        PROVE  TypeOK' /\ Exclusion'
    <3>1. mRawQueue' \in Seq(1 .. pushed')
      BY <2>1, EmplacedType DEF Emplace
    <3>2. QED
      BY <2>1, <3>1 DEF Emplace, TypeOK, Exclusion
  <2>2. ASSUME NEW p \in Producers, Notify(p)
        PROVE  TypeOK' /\ Exclusion'
    <3>1. CASE Waiters = {}
      BY <2>2, <3>1 DEF Notify, NotifyOne, TypeOK, Exclusion
    <3>2. CASE Waiters # {}
      <4>1. PICK c \in Consumers : /\ pc[c] = "waiting"
                                   /\ pc' = [pc EXCEPT ![p] = "idle", ![c] = "notified"]
        BY <2>2, <3>2 DEF Notify, NotifyOne, Waiters
      <4>2. QED
        BY <2>2, <4>1 DEF Notify, TypeOK, Exclusion
    <3>3. QED BY <3>1, <3>2
  <2>3. ASSUME NEW c \in Consumers, TestEmpty(c)
        PROVE  TypeOK' /\ Exclusion'
    BY <2>3 DEF TestEmpty, TypeOK, Exclusion
  <2>4. ASSUME NEW c \in Consumers, LockUnique(c)
        PROVE  TypeOK' /\ Exclusion'
    BY <2>4 DEF LockUnique, TypeOK, Exclusion
  <2>5. ASSUME NEW c \in Consumers, Block(c)
        PROVE  TypeOK' /\ Exclusion'
    BY <2>5 DEF Block, TypeOK, Exclusion
  <2>6. ASSUME NEW c \in Consumers, SpuriousWakeup(c)
        PROVE  TypeOK' /\ Exclusion'
    BY <2>6 DEF SpuriousWakeup, TypeOK, Exclusion
  <2>7. ASSUME NEW c \in Consumers, Woken(c)
        PROVE  TypeOK' /\ Exclusion'
    BY <2>7 DEF Woken, TypeOK, Exclusion
  <2>8. ASSUME NEW c \in Consumers, NEW end \in PopEnds, Pop(c, end)
        PROVE  TypeOK' /\ Exclusion'
    <3>1. mRawQueue' \in Seq(1 .. pushed') /\ taken' \in SUBSET (1 .. pushed')
      BY <2>8, PoppedType DEF Pop, TypeOK
    <3>2. QED
      BY <2>8, <3>1 DEF Pop, TypeOK, Exclusion
  <2>9. ASSUME NEW c \in Consumers, TestDrained(c)
        PROVE  TypeOK' /\ Exclusion'
    BY <2>9 DEF TestDrained, TypeOK, Exclusion
  <2>10. CASE UNCHANGED queueVars
    BY <2>10 DEF queueVars, TypeOK, Exclusion
  <2>11. QED
    BY <2>1, <2>2, <2>3, <2>4, <2>5, <2>6, <2>7, <2>8, <2>9, <2>10
       DEF QueueNext, Produce, Consume
<1>3. QED BY <1>1, <1>2, PTL DEF QueueSpec

\* A push that is in its critical section and a consumer that is about to
\* block exclude everybody else, whatever the number of threads.
THEOREM MutualExclusion == QueueSpec => []Exclusion
BY SafeQueueTyped, PTL

------------------------------------------------------------------------------
\* The deque after a push_back: one item longer, the old ones where they were.
LEMMA PushBackContents ==
  ASSUME TypeOK
  PROVE  /\ Len(Emplaced("back", pushed + 1)) = Len(mRawQueue) + 1
         /\ \A i \in 1 .. Len(mRawQueue) : Emplaced("back", pushed + 1)[i] = mRawQueue[i]
         /\ Emplaced("back", pushed + 1)[Len(mRawQueue) + 1] = pushed + 1
BY DEF TypeOK, Emplaced

\* The deque after a pop_front: one item shorter, the others one place nearer.
LEMMA PopFrontContents ==
  ASSUME TypeOK, mRawQueue # <<>>
  PROVE  /\ Len(mRawQueue) \in Nat \ {0}
         /\ Len(Popped("front")) = Len(mRawQueue) - 1
         /\ \A i \in 1 .. Len(mRawQueue) - 1 : Popped("front")[i] = mRawQueue[i + 1]
<1>1. mRawQueue \in Seq(1 .. pushed) /\ Len(mRawQueue) \in Nat \ {0}
  BY DEF TypeOK
<1>2. Popped("front") = Tail(mRawQueue)
  BY <1>1, TailIsSubSeq DEF Popped
<1>3. QED BY <1>1, <1>2, HeadTailProperties

\* The Server pushes at the back and pops at the front.
UsedAsFifo == PushEnds = {"back"} /\ PopEnds = {"front"}

\* For any number of producers and consumers: what was taken is a prefix of
\* what was pushed, and the deque holds the rest in the order of the pushes.
THEOREM FifoOrder == UsedAsFifo => (QueueSpec => []Fifo)
<1> SUFFICES ASSUME UsedAsFifo PROVE QueueSpec => []Fifo
  OBVIOUS
<1>1. QueueInit => Fifo
  BY DEF QueueInit, Fifo
<1>2. TypeOK /\ Fifo /\ [QueueNext]_queueVars => Fifo'
  <2> SUFFICES ASSUME TypeOK, Fifo, [QueueNext]_queueVars PROVE Fifo'
    OBVIOUS
  <2>1. ASSUME NEW p \in Producers, NEW end \in PushEnds, Emplace(p, end)
        PROVE  Fifo'
    <3>1. mRawQueue' = Emplaced("back", pushed + 1) /\ pushed' = pushed + 1 /\ taken' = taken
      BY <2>1 DEF Emplace, UsedAsFifo
    <3>2. pushed \in Nat /\ Len(mRawQueue) \in Nat
      BY DEF TypeOK
    <3>3. Len(mRawQueue') = Len(mRawQueue) + 1
      BY <3>1, PushBackContents
    <3>4. taken' = 1 .. (pushed' - Len(mRawQueue'))
      BY <3>1, <3>2, <3>3 DEF Fifo
    <3>5. ASSUME NEW i \in 1 .. Len(mRawQueue')
          PROVE  mRawQueue'[i] = pushed' - Len(mRawQueue') + i
      <4>1. CASE i = Len(mRawQueue) + 1
        <5>1. mRawQueue'[i] = pushed + 1
          BY <3>1, <4>1, PushBackContents
        <5>2. pushed' - Len(mRawQueue') + i = pushed + 1
          BY <3>1, <3>2, <3>3, <4>1
        <5>3. QED BY <5>1, <5>2
      <4>2. CASE i \in 1 .. Len(mRawQueue)
        <5>1. mRawQueue'[i] = mRawQueue[i]
          BY <3>1, <4>2, PushBackContents
        <5>2. mRawQueue[i] = pushed - Len(mRawQueue) + i
          BY <4>2 DEF Fifo
        <5>3. QED BY <3>1, <3>2, <3>3, <4>2, <5>1, <5>2
      <4>3. QED BY <3>2, <3>3, <4>1, <4>2
    <3>6. QED BY <3>4, <3>5 DEF Fifo
  <2>2. ASSUME NEW c \in Consumers, NEW end \in PopEnds, Pop(c, end)
        PROVE  Fifo'
    <3>1. /\ mRawQueue # <<>>
          /\ mRawQueue' = Popped("front")
          /\ taken' = taken \cup {mRawQueue[1]}
          /\ pushed' = pushed
      BY <2>2 DEF Pop, ItemAt, UsedAsFifo
    <3>2. pushed \in Nat
      BY DEF TypeOK
    <3>3. Len(mRawQueue) \in Nat \ {0} /\ Len(mRawQueue') = Len(mRawQueue) - 1
      BY <3>1, PopFrontContents
    <3>4. taken' = 1 .. (pushed' - Len(mRawQueue'))
      <4>1. mRawQueue[1] = pushed - Len(mRawQueue) + 1
        BY <3>3 DEF Fifo
      <4>2. Len(mRawQueue) <= pushed
        BY <3>1, <3>2, <3>3, <4>1, ElementOfSeq DEF TypeOK
      <4>3. QED BY <3>1, <3>2, <3>3, <4>1, <4>2 DEF Fifo
    <3>5. ASSUME NEW i \in 1 .. Len(mRawQueue')
          PROVE  mRawQueue'[i] = pushed' - Len(mRawQueue') + i
      BY <3>1, <3>2, <3>3, PopFrontContents DEF Fifo
    <3>6. QED BY <3>4, <3>5 DEF Fifo
  <2>3. CASE UNCHANGED <<mRawQueue, pushed, taken>>
    BY <2>3 DEF Fifo
  <2>4. QED
    BY <2>1, <2>2, <2>3 DEF QueueNext, Produce, Consume, Notify, TestEmpty, LockUnique,
       Block, SpuriousWakeup, Woken, TestDrained, queueVars
<1>3. QED BY <1>1, <1>2, SafeQueueTyped, PTL DEF QueueSpec

\* With one consumer, as the Server has, no pop meets an empty deque.
THEOREM SinglePopSafe ==
  ASSUME NEW c0, Consumers = {c0}
  PROVE  QueueSpec => []PopFindsItem
<1>1. QueueInit => PopFindsItem
  BY QueueAssumption DEF QueueInit, PopFindsItem, Threads
<1>2. TypeOK /\ PopFindsItem /\ [QueueNext]_queueVars => PopFindsItem'
  <2> SUFFICES ASSUME TypeOK, PopFindsItem, [QueueNext]_queueVars PROVE PopFindsItem'
    OBVIOUS
  <2> USE QueueAssumption DEF PopFindsItem, TypeOK, Threads
  <2>1. ASSUME NEW p \in Producers, NEW end \in PushEnds, Emplace(p, end)
        PROVE  PopFindsItem'
    BY <2>1, EmplacedType DEF Emplace
  <2>2. ASSUME NEW p \in Producers, Notify(p)
        PROVE  PopFindsItem'
    BY <2>2 DEF Notify, NotifyOne, Waiters
  <2>3. ASSUME NEW c \in Consumers, TestEmpty(c) \/ TestDrained(c)
        PROVE  PopFindsItem'
    BY <2>3 DEF TestEmpty, TestDrained
  <2>4. ASSUME NEW c \in Consumers, LockUnique(c) \/ Block(c) \/ SpuriousWakeup(c) \/ Woken(c)
        PROVE  PopFindsItem'
    BY <2>4 DEF LockUnique, Block, SpuriousWakeup, Woken
  <2>5. ASSUME NEW c \in Consumers, NEW end \in PopEnds, Pop(c, end)
        PROVE  PopFindsItem'
    BY <2>5 DEF Pop
  <2>6. CASE UNCHANGED queueVars
    BY <2>6 DEF queueVars
  <2>7. QED
    BY <2>1, <2>2, <2>3, <2>4, <2>5, <2>6 DEF QueueNext, Produce, Consume
<1>3. QED BY <1>1, <1>2, SafeQueueTyped, PTL DEF QueueSpec

------------------------------------------------------------------------------
(* The stream of units that the messages given to send() come to.  A place  *)
(* in it is a message and the number of a unit of it, the header being 0.   *)

Unit == Header \cup [k : {"B"}, id : Nat, unit : Nat]
PlaceOf(unit) == <<unit.id, IF unit.k = "H" THEN 0 ELSE unit.unit>>

Size(s, n) == SerializedUnits(s[n].type, s[n].body, s[n].units)
Places(s) == {p \in (1..Len(s)) \X Nat : p[2] <= Size(s, p[1])}
UnitAt(s, p) == IF p[2] = 0 THEN [k |-> "H", id |-> p[1], type |-> s[p[1]].type, size |-> Size(s, p[1])]
                ELSE [k |-> "B", id |-> p[1], unit |-> p[2]]
After(s, p) == IF p[2] < Size(s, p[1]) THEN <<p[1], p[2] + 1>> ELSE <<p[1] + 1, 0>>

\* w is what the stream of s holds from place p on, and End is the place after it.
Stream(s, w, p) ==
    /\ \A i \in 1..Len(w) : PlaceOf(w[i]) \in Places(s) /\ w[i] = UnitAt(s, PlaceOf(w[i]))
    /\ \A i \in 1..Len(w) : i < Len(w) => PlaceOf(w[i + 1]) = After(s, PlaceOf(w[i]))
    /\ w # <<>> => PlaceOf(w[1]) = p
End(s, w, p) == IF w = <<>> THEN p ELSE After(s, PlaceOf(w[Len(w)]))

LEMMA Sizes ==
  ASSUME NEW s \in Seq(Templates), NEW n \in 1..Len(s)
  PROVE  s[n] \in Templates /\ s[n].type \in MessageType /\ Size(s, n) \in Nat
<1>1. s[n] \in Templates
  OBVIOUS
<1>2. s[n].type \in MessageType /\ s[n].units \in Nat
  BY <1>1, ConnectionAssumption
<1> QED
  BY <1>1, <1>2 DEF Size, SerializedUnits

LEMMA Units ==
  ASSUME NEW s \in Seq(Templates), NEW p \in Places(s)
  PROVE  /\ PlaceOf(UnitAt(s, p)) = p /\ UnitAt(s, p) \in Unit
         /\ UnitAt(s, p).id = p[1]
         /\ p[2] = 0 => UnitAt(s, p) \in Header /\ UnitAt(s, p).k = "H"
         /\ p[2] # 0 => UnitAt(s, p) \notin Header
<1>1. p \in (1..Len(s)) \X Nat /\ p = <<p[1], p[2]>> /\ p[1] \in 1..Len(s) /\ p[2] \in Nat
  BY DEF Places
<1>2. s[p[1]].type \in MessageType /\ Size(s, p[1]) \in Nat
  BY <1>1, Sizes
<1>3. CASE p[2] = 0
  <2>1. UnitAt(s, p) = [k |-> "H", id |-> p[1], type |-> s[p[1]].type, size |-> Size(s, p[1])]
    BY <1>3 DEF UnitAt
  <2> QED
    BY <1>1, <1>2, <1>3, <2>1 DEF PlaceOf, Unit, Header
<1>4. CASE p[2] # 0
  <2>1. UnitAt(s, p) = [k |-> "B", id |-> p[1], unit |-> p[2]]
    BY <1>4 DEF UnitAt
  <2>2. UnitAt(s, p) \notin Header
    BY <2>1 DEF Header
  <2> QED
    BY <1>1, <1>4, <2>1, <2>2 DEF PlaceOf, Unit
<1> QED
  BY <1>3, <1>4

LEMMA Afters ==
  ASSUME NEW s \in Seq(Templates), NEW p \in Places(s)
  PROVE  /\ p[2] < Size(s, p[1]) => After(s, p) \in Places(s)
         /\ p[2] = Size(s, p[1]) => After(s, p) = <<p[1] + 1, 0>>
<1>1. p \in (1..Len(s)) \X Nat /\ p[2] <= Size(s, p[1]) /\ p[1] \in 1..Len(s) /\ p[2] \in Nat
  BY DEF Places
<1>2. Size(s, p[1]) \in Nat
  BY <1>1, Sizes
<1> QED
  BY <1>1, <1>2 DEF After, Places

\* More messages leave the places of the others where they are.
LEMMA Grown ==
  ASSUME NEW s \in Seq(Templates), NEW t \in Templates
  PROVE  /\ Append(s, t) \in Seq(Templates) /\ Len(Append(s, t)) = Len(s) + 1
         /\ \A n \in 1..Len(s) : Size(Append(s, t), n) = Size(s, n) /\ Append(s, t)[n] = s[n]
<1>1. Append(s, t) \in Seq(Templates) /\ Len(Append(s, t)) = Len(s) + 1 /\ \A n \in 1..Len(s) : Append(s, t)[n] = s[n]
  OBVIOUS
<1> QED
  BY <1>1 DEF Size

LEMMA GrownPlaces ==
  ASSUME NEW s \in Seq(Templates), NEW t \in Templates, NEW p \in Places(s)
  PROVE  /\ p \in Places(Append(s, t))
         /\ After(Append(s, t), p) = After(s, p)
         /\ UnitAt(Append(s, t), p) = UnitAt(s, p)
<1>0. PICK more : more = Append(s, t)
  OBVIOUS
<1>1. /\ more = Append(s, t) /\ Len(more) = Len(s) + 1
      /\ \A n \in 1..Len(s) : Size(more, n) = Size(s, n) /\ more[n] = s[n]
  BY ONLY <1>0, s \in Seq(Templates), t \in Templates, Grown
<1>2. p \in (1..Len(s)) \X Nat /\ p[1] \in 1..Len(s) /\ p[2] <= Size(s, p[1])
  BY DEF Places
<1>3. Size(more, p[1]) = Size(s, p[1]) /\ more[p[1]] = s[p[1]] /\ p[1] \in 1..Len(more)
  BY <1>1, <1>2
<1>4. p \in Places(more)
  BY <1>2, <1>3 DEF Places
<1>5. After(more, p) = After(s, p)
  BY <1>3 DEF After
<1>6. UnitAt(more, p) = UnitAt(s, p)
  BY <1>3 DEF UnitAt
<1> QED
  BY <1>1, <1>4, <1>5, <1>6

LEMMA StreamGrows ==
  ASSUME NEW s \in Seq(Templates), NEW t \in Templates, NEW w \in Seq(Unit), NEW p, Stream(s, w, p)
  PROVE  Stream(Append(s, t), w, p) /\ End(Append(s, t), w, p) = End(s, w, p)
<1>1. \A i \in 1..Len(w) : PlaceOf(w[i]) \in Places(s) /\ w[i] = UnitAt(s, PlaceOf(w[i]))
  BY DEF Stream
<1>2. \A i \in 1..Len(w) : /\ PlaceOf(w[i]) \in Places(Append(s, t))
                           /\ After(Append(s, t), PlaceOf(w[i])) = After(s, PlaceOf(w[i]))
                           /\ UnitAt(Append(s, t), PlaceOf(w[i])) = UnitAt(s, PlaceOf(w[i]))
  BY <1>1, GrownPlaces
<1>3. w # <<>> => Len(w) \in 1..Len(w)
  OBVIOUS
<1>4. Stream(Append(s, t), w, p)
  BY <1>2 DEF Stream
<1>5. End(Append(s, t), w, p) = End(s, w, p)
  BY <1>2, <1>3 DEF End
<1> QED
  BY <1>4, <1>5

\* A unit is added at the end.
LEMMA StreamAppend ==
  ASSUME NEW s \in Seq(Templates), NEW w \in Seq(Unit), NEW p, Stream(s, w, p),
         NEW q \in Places(s), q = End(s, w, p)
  PROVE  /\ Stream(s, Append(w, UnitAt(s, q)), p) /\ Append(w, UnitAt(s, q)) \in Seq(Unit)
         /\ End(s, Append(w, UnitAt(s, q)), p) = After(s, q)
<1>1. PICK u : u = UnitAt(s, q) /\ u \in Unit /\ PlaceOf(u) = q
  BY Units
<1>2. PICK more : more = Append(w, u)
  OBVIOUS
<1>3. /\ more \in Seq(Unit) /\ Len(more) = Len(w) + 1 /\ Len(w) \in Nat /\ more # <<>>
      /\ more[Len(w) + 1] = u /\ \A i \in 1..Len(w) : more[i] = w[i]
  BY <1>1, <1>2
<1>4. End(s, more, p) = After(s, q)
  BY <1>1, <1>3 DEF End
<1>5. \A i \in 1..Len(more) : i \in 1..Len(w) \/ i = Len(w) + 1
  BY <1>3
<1>6. \A i \in 1..Len(more) : PlaceOf(more[i]) \in Places(s) /\ more[i] = UnitAt(s, PlaceOf(more[i]))
  BY <1>1, <1>3, <1>5 DEF Stream
<1>7. ASSUME NEW i \in 1..Len(more), i < Len(more) PROVE PlaceOf(more[i + 1]) = After(s, PlaceOf(more[i]))
  <2>1. i \in 1..Len(w) /\ more[i] = w[i] /\ w # <<>>
    BY <1>3, <1>7
  <2>2. CASE i < Len(w)
    <3>1. i + 1 \in 1..Len(w)
      BY <2>1, <2>2
    <3>2. more[i + 1] = w[i + 1]
      BY <1>3, <3>1
    <3> QED
      BY <2>1, <2>2, <3>2 DEF Stream
  <2>3. CASE i = Len(w)
    BY <1>1, <1>3, <2>1, <2>3 DEF End
  <2> QED
    BY <1>3, <2>1, <2>2, <2>3
<1>8. PlaceOf(more[1]) = p
  <2>1. CASE w = <<>>
    BY <1>1, <1>3, <2>1 DEF End
  <2>2. CASE w # <<>>
    BY <1>3, <2>2 DEF Stream
  <2> QED
    BY <2>1, <2>2
<1>9. Stream(s, more, p)
  BY <1>6, <1>7, <1>8 DEF Stream
<1> QED
  BY <1>1, <1>2, <1>3, <1>4, <1>9

\* The first unit is taken away.
LEMMA StreamTail ==
  ASSUME NEW s \in Seq(Templates), NEW w \in Seq(Unit), NEW p, Stream(s, w, p), w # <<>>
  PROVE  /\ Stream(s, Tail(w), After(s, p)) /\ Tail(w) \in Seq(Unit)
         /\ End(s, Tail(w), After(s, p)) = End(s, w, p)
         /\ Head(w) = UnitAt(s, p) /\ p \in Places(s)
<1>1. PICK rest : rest = Tail(w)
  OBVIOUS
<1>2. /\ rest \in Seq(Unit) /\ Len(rest) \in Nat /\ Len(w) = Len(rest) + 1 /\ Head(w) = w[1]
      /\ \A i \in 1..Len(rest) : rest[i] = w[i + 1]
  BY <1>1
<1>3. PlaceOf(w[1]) = p /\ w[1] = UnitAt(s, p) /\ p \in Places(s)
  BY <1>2 DEF Stream
<1>4. \A i \in 1..Len(rest) : i + 1 \in 1..Len(w)
  BY <1>2
<1>5. \A i \in 1..Len(rest) : PlaceOf(rest[i]) \in Places(s) /\ rest[i] = UnitAt(s, PlaceOf(rest[i]))
  BY <1>2, <1>4 DEF Stream
<1>6. ASSUME NEW i \in 1..Len(rest), i < Len(rest) PROVE PlaceOf(rest[i + 1]) = After(s, PlaceOf(rest[i]))
  <2>1. i + 1 \in 1..Len(rest) /\ i + 1 \in 1..Len(w) /\ i + 1 < Len(w)
    BY <1>2, <1>6
  <2> QED
    BY <1>2, <2>1 DEF Stream
<1>7. rest # <<>> => PlaceOf(rest[1]) = After(s, p)
  <2> SUFFICES ASSUME rest # <<>> PROVE PlaceOf(rest[1]) = After(s, p)
    OBVIOUS
  <2>1. 1 \in 1..Len(rest) /\ 1 \in 1..Len(w) /\ 1 < Len(w)
    BY <1>2
  <2> QED
    BY <1>2, <1>3, <2>1 DEF Stream
<1>8. Stream(s, rest, After(s, p))
  BY <1>5, <1>6, <1>7 DEF Stream
<1>9. End(s, rest, After(s, p)) = End(s, w, p)
  <2>1. CASE rest = <<>>
    BY <1>2, <1>3, <2>1 DEF End
  <2>2. CASE rest # <<>>
    <3>1. Len(rest) \in 1..Len(rest)
      BY <1>2, <2>2
    <3>2. rest[Len(rest)] = w[Len(w)]
      BY <1>2, <3>1
    <3> QED
      BY <2>2, <3>2 DEF End
  <2> QED
    BY <2>1, <2>2
<1> QED
  BY <1>1, <1>2, <1>3, <1>8, <1>9

\* What the stream holds after a header is the body of its message.
LEMMA BodyAhead ==
  ASSUME NEW s \in Seq(Templates), NEW w \in Seq(Unit), NEW n \in 1..Len(s),
         Stream(s, w, <<n, 1>>)
  PROVE  \A u \in 1..Size(s, n) : u <= Len(w) => PlaceOf(w[u]) = <<n, u>>
<1> DEFINE G == {i \in Nat : i + 1 <= Size(s, n) /\ i + 1 <= Len(w) => PlaceOf(w[i + 1]) = <<n, i + 1>>}
<1>1. Size(s, n) \in Nat /\ Len(w) \in Nat
  BY Sizes
<1>2. 0 \in G
  BY DEF Stream
<1>3. ASSUME NEW i \in Nat, i \in G PROVE i + 1 \in G
  <2>1. SUFFICES ASSUME i + 2 <= Size(s, n), i + 2 <= Len(w) PROVE PlaceOf(w[i + 2]) = <<n, i + 2>>
    OBVIOUS
  <2>2. PICK j \in 1..Len(w) : j = i + 1 /\ j < Len(w) /\ j < Size(s, n) /\ j + 1 = i + 2
    BY <1>1, <2>1
  <2>3. PlaceOf(w[j]) = <<n, j>>
    BY <1>1, <1>3, <2>2
  <2>4. PlaceOf(w[j + 1]) = After(s, PlaceOf(w[j]))
    BY <2>2 DEF Stream
  <2>5. After(s, <<n, j>>) = <<n, j + 1>>
    BY <2>2 DEF After
  <2> QED
    BY <2>2, <2>3, <2>4, <2>5
<1>4. Nat \subseteq G
  <2> HIDE DEF G
  <2> QED
    BY <1>2, <1>3, Induction
<1>5. ASSUME NEW u \in 1..Size(s, n), u <= Len(w) PROVE PlaceOf(w[u]) = <<n, u>>
  <2>1. u - 1 \in Nat /\ (u - 1) + 1 = u
    BY <1>1
  <2>2. u - 1 \in G
    BY ONLY <1>4, <2>1
  <2> QED
    BY <1>1, <1>5, <2>1, <2>2
<1> QED
  BY <1>5

\* What is left without the first k elements.
LEMMA Dropped ==
  ASSUME NEW T, NEW s \in Seq(T), NEW k \in Nat, k <= Len(s)
  PROVE  /\ SubSeq(s, k + 1, Len(s)) \in Seq(T) /\ Len(s) = Len(SubSeq(s, k + 1, Len(s))) + k
         /\ \A i \in 1..Len(SubSeq(s, k + 1, Len(s))) : SubSeq(s, k + 1, Len(s))[i] = s[i + k]
<1>1. PICK m \in Int, n \in Int : m = k + 1 /\ n = Len(s) /\ n \in Nat
  OBVIOUS
<1>2. PICK rest : rest = SubSeq(s, m, n)
  OBVIOUS
<1>6. \A i \in m..n : s[i] \in T
  BY <1>1
<1>3. /\ rest \in Seq(T) /\ Len(rest) = IF m <= n THEN n - m + 1 ELSE 0
      /\ \A i \in 1..(n - m + 1) : rest[i] = s[m + i - 1]
  <2>1. SubSeq(s, m, n) \in Seq(T)
    BY ONLY m \in Int, n \in Int, <1>6, SubSeqProperties, Zenon
  <2>2. Len(SubSeq(s, m, n)) = IF m <= n THEN n - m + 1 ELSE 0
    BY ONLY m \in Int, n \in Int, <1>6, SubSeqProperties, Zenon
  <2>3. \A i \in 1..(n - m + 1) : SubSeq(s, m, n)[i] = s[m + i - 1]
    <3>1. ASSUME NEW i \in 1..(n - m + 1) PROVE SubSeq(s, m, n)[i] = s[m + i - 1]
      BY ONLY m \in Int, n \in Int, i \in 1..(n - m + 1), s \in Seq(T), <1>1
    <3> QED
      BY ONLY <3>1
  <2> QED
    BY <1>2, <2>1, <2>2, <2>3
<1>4. Len(rest) = Len(s) - k /\ Len(s) = Len(rest) + k
  BY <1>1, <1>3
<1>5. ASSUME NEW i \in 1..Len(rest) PROVE rest[i] = s[i + k]
  <2>1. i \in 1..(n - m + 1) /\ m + i - 1 = i + k
    BY <1>1, <1>4
  <2> QED
    BY <1>3, <2>1
<1> QED
  BY <1>1, <1>2, <1>3, <1>4, <1>5

\* A body is taken away.
LEMMA StreamDrop ==
  ASSUME NEW s \in Seq(Templates), NEW w \in Seq(Unit), NEW n \in 1..Len(s),
         Stream(s, w, <<n, 1>>), NEW k \in Nat, k = Size(s, n), k > 0, k <= Len(w)
  PROVE  /\ Stream(s, SubSeq(w, k + 1, Len(w)), <<n + 1, 0>>)
         /\ SubSeq(w, k + 1, Len(w)) \in Seq(Unit)
         /\ End(s, SubSeq(w, k + 1, Len(w)), <<n + 1, 0>>) = End(s, w, <<n, 1>>)
         /\ \A u \in 1..k : w[u] = UnitAt(s, <<n, u>>)
<1>1. PICK rest : rest = SubSeq(w, k + 1, Len(w))
  OBVIOUS
<1>2. /\ rest \in Seq(Unit) /\ Len(rest) \in Nat /\ Len(w) = Len(rest) + k
      /\ \A i \in 1..Len(rest) : rest[i] = w[i + k]
  BY ONLY w \in Seq(Unit), k \in Nat, k <= Len(w), <1>1, Dropped
<1>3. \A u \in 1..k : PlaceOf(w[u]) = <<n, u>> /\ u \in 1..Len(w)
  BY BodyAhead
<1>4. \A u \in 1..k : w[u] = UnitAt(s, <<n, u>>)
  BY <1>3 DEF Stream
<1>5. k \in 1..k /\ k \in 1..Len(w) /\ PlaceOf(w[k]) = <<n, k>> /\ After(s, <<n, k>>) = <<n + 1, 0>>
  <2>1. k \in 1..k
    OBVIOUS
  <2>2. After(s, <<n, k>>) = <<n + 1, 0>>
    BY DEF After
  <2> QED
    BY <1>3, <2>1, <2>2
<1>6. \A i \in 1..Len(rest) : i + k \in 1..Len(w)
  BY <1>2
<1>7. \A i \in 1..Len(rest) : PlaceOf(rest[i]) \in Places(s) /\ rest[i] = UnitAt(s, PlaceOf(rest[i]))
  BY <1>2, <1>6 DEF Stream
<1>8. ASSUME NEW i \in 1..Len(rest), i < Len(rest) PROVE PlaceOf(rest[i + 1]) = After(s, PlaceOf(rest[i]))
  <2>1. /\ i + 1 \in 1..Len(rest) /\ i + k \in 1..Len(w) /\ i + k < Len(w)
        /\ (i + 1) + k = (i + k) + 1
    BY <1>2, <1>8
  <2> QED
    BY <1>2, <2>1 DEF Stream
<1>9. rest # <<>> => PlaceOf(rest[1]) = <<n + 1, 0>>
  <2> SUFFICES ASSUME rest # <<>> PROVE PlaceOf(rest[1]) = <<n + 1, 0>>
    OBVIOUS
  <2>1. 1 \in 1..Len(rest) /\ k < Len(w) /\ 1 + k = k + 1
    BY <1>2
  <2> QED
    BY <1>2, <1>5, <2>1 DEF Stream
<1>10. Stream(s, rest, <<n + 1, 0>>)
  BY <1>7, <1>8, <1>9 DEF Stream
<1>11. End(s, rest, <<n + 1, 0>>) = End(s, w, <<n, 1>>)
  <2>1. CASE rest = <<>>
    <3>1. Len(w) = k /\ w # <<>>
      BY <1>2, <2>1
    <3> QED
      BY <1>5, <2>1, <3>1 DEF End
  <2>2. CASE rest # <<>>
    <3>1. Len(rest) \in 1..Len(rest) /\ w # <<>>
      BY <1>2, <2>2
    <3>2. rest[Len(rest)] = w[Len(w)]
      BY <1>2, <3>1
    <3> QED
      BY <2>2, <3>1, <3>2 DEF End
  <2> QED
    BY <2>1, <2>2
<1> QED
  BY <1>1, <1>2, <1>4, <1>10, <1>11

\* Leaving out a beginning that holds none of S leaves the same elements of S.
LEMMA OnlyDrop ==
  ASSUME NEW S, NEW T, NEW s \in Seq(T), NEW k \in Nat, k <= Len(s), \A i \in 1..k : s[i] \notin S
  PROVE  Only(SubSeq(s, k + 1, Len(s)), S) = Only(s, S)
<1> DEFINE Rest(i) == SubSeq(s, i + 1, Len(s))
           G == {i \in Nat : i <= k => Only(Rest(i), S) = Only(s, S)}
<1>1. 0 \in G
  <2>1. Rest(0) = s
    OBVIOUS
  <2> QED
    BY <2>1
<1>2. ASSUME NEW i \in Nat, i \in G PROVE i + 1 \in G
  <2>1. SUFFICES ASSUME i + 1 <= k PROVE Only(Rest(i + 1), S) = Only(s, S)
    OBVIOUS
  <2>2. PICK r : r = Rest(i)
    OBVIOUS
  <2>9. i <= Len(s) /\ i + 1 \in 1..Len(s) /\ Len(s) \in (i + 1)..Len(s)
    BY <2>1
  <2>3. r \in Seq(T) /\ r # <<>> /\ Head(r) = s[i + 1] /\ Tail(r) = Rest(i + 1)
    <3>1. r \in Seq(T) /\ Len(s) = Len(r) + i
      BY ONLY s \in Seq(T), i \in Nat, <2>2, <2>9, Dropped
    <3>2. r # <<>>
      BY <2>9, <3>1
    <3>3. Head(r) = s[i + 1] /\ Tail(r) = SubSeq(s, (i + 1) + 1, Len(s))
      BY ONLY s \in Seq(T), <2>2, <2>9, HeadTailOfSubSeq, Zenon
    <3> QED
      BY <3>1, <3>2, <3>3
  <2>4. Head(r) \notin S
    BY <2>1, <2>3
  <2>5. Tail(r) \in Seq(T)
    BY <2>3
  <2>6. Only(Tail(r), S) \in Seq(S)
    BY <2>5, OnlyType
  <2>7. Only(r, S) = <<>> \o Only(Tail(r), S)
    BY ONLY <2>3, <2>4, OnlyTail
  <2>8. Only(r, S) = Only(Tail(r), S)
    BY ONLY <2>6, <2>7
  <2>10. Only(Rest(i), S) = Only(s, S)
    BY <1>2, <2>1
  <2> HIDE DEF Rest
  <2> QED
    BY ONLY <2>2, <2>3, <2>8, <2>10
<1>3. Nat \subseteq G
  <2> HIDE DEF G
  <2> QED
    BY <1>1, <1>2, Induction
<1> QED
  BY <1>3

------------------------------------------------------------------------------
(* The sending side: the messages are numbered, and one write at most is in *)
(* progress, that of the front of the queue.                                *)

StoredBody == [type : STRING \cup {"none"}, id : Nat]
Write == [kind : {"header", "body"}, id : Nat, units : Seq(Unit)]
ConnectionTypes ==
    /\ sent \in Seq(Templates) /\ posted \in Seq(Nat) /\ out \in Seq(Nat)
    /\ writes \in Seq(Write) /\ wire \in Seq(Unit) /\ reading \in {"none", "header", "body"}
    /\ buffer \in [id : Nat, type : MessageType, size : Nat, body : StoredBody]
    /\ incoming \in Seq([id : Nat, type : MessageType, body : StoredBody, remote : BOOLEAN])
    /\ open \in [Sides -> BOOLEAN]

\* The messages that have left the queue, those in it and the posted ones are
\* the messages sent, in their order.
Done == Len(sent) - Len(posted) - Len(out)
Numbered ==
    /\ Done \in Nat
    /\ \A i \in 1..Len(out) : out[i] = Done + i
    /\ \A i \in 1..Len(posted) : posted[i] = Done + Len(out) + i
OneWrite == Len(writes) <= 1 /\ (writes # <<>> => out # <<>> /\ writes[1].id = Done + 1)
QInv == ConnectionTypes /\ Numbered /\ OneWrite

\* What writeHeader leaves, when nothing else is being written.
Started(n) == IF Serializable(n)
              THEN \E h \in HeaderUnits(n) :
                      writes' = <<[kind |-> "header", id |-> n, units |-> <<h>>]>>
              ELSE writes' = <<>>
Finished == /\ out' = Tail(out)
            /\ IF out' = <<>> THEN writes' = <<>> ELSE Started(Head(out'))

LEMMA TheWrite ==
  ASSUME ConnectionTypes, OneWrite, NEW i \in DOMAIN writes
  PROVE  /\ i = 1 /\ writes = <<writes[1]>> /\ writes[1] \in Write /\ Without(writes, i) = <<>>
         /\ \A w : [writes EXCEPT ![i] = w] = <<w>>
<1>1. writes \in Seq(Write) /\ Len(writes) \in Nat /\ DOMAIN writes = 1..Len(writes) /\ Len(writes) <= 1
  BY DEF ConnectionTypes, OneWrite
<1>2. i = 1 /\ Len(writes) = 1 /\ DOMAIN writes = 1..1
  BY <1>1
<1>3. writes = <<writes[1]>> /\ writes[1] \in Write
  BY <1>1, <1>2
<1>4. \A w : [writes EXCEPT ![i] = w] = <<w>>
  BY <1>1, <1>2
<1>5. SubSeq(writes, 1, 1 - 1) = <<>> /\ SubSeq(writes, 1 + 1, 1) = <<>>
  <2>1. \A m, n \in Int : n < m => SubSeq(writes, m, n) = <<>>
    BY SubSeqEmpty, Zenon
  <2> QED
    BY <2>1
<1>6. Without(writes, 1) = <<>>
  BY <1>2, <1>5 DEF Without
<1> QED
  BY <1>2, <1>3, <1>4, <1>6

LEMMA WriteHeaderStarts ==
  ASSUME NEW queue, WriteHeader(queue, <<>>) PROVE Started(Head(queue))
<1>1. CASE Serializable(Head(queue))
  <2>1. PICK h \in HeaderUnits(Head(queue)) :
          writes' = Append(<<>>, [kind |-> "header", id |-> Head(queue), units |-> <<h>>])
    BY <1>1 DEF WriteHeader
  <2>2. writes' = <<[kind |-> "header", id |-> Head(queue), units |-> <<h>>]>>
    BY <2>1
  <2> QED
    BY <1>1, <2>2 DEF Started
<1>2. CASE ~Serializable(Head(queue))
  BY <1>2 DEF WriteHeader, Started
<1> QED
  BY <1>1, <1>2

LEMMA NextMessageFinishes ==
  ASSUME QInv, NEW i \in DOMAIN writes, NextMessage(i) PROVE Finished
<1>1. Without(writes, i) = <<>>
  BY TheWrite DEF QInv
<1>2. out' = Tail(out) /\ IF out' = <<>> THEN writes' = <<>> ELSE WriteHeader(out', <<>>)
  BY <1>1 DEF NextMessage
<1>3. PICK queue : queue = out'
  OBVIOUS
<1> QED
  BY <1>2, <1>3, WriteHeaderStarts DEF Finished

\* The header that is written first: that of the message, or anything.
LEMMA HeadersTyped ==
  ASSUME ConnectionTypes, NEW n \in 1..Len(sent)
  PROVE  /\ HeaderUnits(n) \subseteq Unit /\ n \in Nat
         /\ BodyOf(n) \in Seq(Unit)
<1>1. sent \in Seq(Templates)
  BY DEF ConnectionTypes
<1>2. sent[n].type \in MessageType /\ SizeOf(n) \in Nat
  BY <1>1, Sizes DEF Size, SizeOf
<1>3. HeaderOf(n) \in Header /\ Garbage \subseteq Header
  BY <1>2 DEF HeaderOf, Header, Garbage, MaxUnits
<1>4. \A u \in 1..SizeOf(n) : [k |-> "B", id |-> n, unit |-> u] \in Unit
  BY <1>2 DEF Unit
<1>5. BodyOf(n) \in Seq(Unit)
  <2>1. BodyOf(n) \in [1..SizeOf(n) -> Unit]
    BY <1>4 DEF BodyOf
  <2> QED
    BY <1>2, <2>1
<1> QED
  BY <1>3, <1>5 DEF HeaderUnits, Unit

LEMMA StartedWrites ==
  ASSUME ConnectionTypes, NEW n \in 1..Len(sent), Started(n)
  PROVE  /\ writes' \in Seq(Write) /\ Len(writes') <= 1
         /\ writes' # <<>> => writes'[1].id = n
<1>1. CASE writes' = <<>>
  BY <1>1
<1>2. CASE writes' # <<>>
  <2>1. PICK h \in HeaderUnits(n) : writes' = <<[kind |-> "header", id |-> n, units |-> <<h>>]>>
    BY <1>2 DEF Started
  <2>2. [kind |-> "header", id |-> n, units |-> <<h>>] \in Write
    BY HeadersTyped DEF Write
  <2> QED
    BY <2>1, <2>2
<1> QED
  BY <1>1, <1>2

LEMMA InitQInv == ASSUME Init PROVE QInv
<1>1. ConnectionTypes
  <2>1. buffer \in [id : Nat, type : MessageType, size : Nat, body : StoredBody]
    <3>1. "ServerAccept" \in MessageType
      BY DEF MessageType, Bodiless
    <3>2. NoBody \in StoredBody
      BY DEF NoBody, StoredBody
    <3> QED
      BY <3>1, <3>2 DEF Init
  <2>2. open \in [Sides -> BOOLEAN] /\ \A S : <<>> \in Seq(S)
    BY DEF Init
  <2> QED
    BY <2>1, <2>2 DEF Init, ConnectionTypes
<1>2. Numbered /\ OneWrite
  BY DEF Init, Numbered, Done, OneWrite
<1> QED
  BY <1>1, <1>2 DEF QInv

\* The front of the queue leaves it.
LEMMA FinishedKeeps ==
  ASSUME QInv, Finished, out # <<>>, UNCHANGED <<sent, posted, wire, reader, sockets>>
  PROVE  QInv' /\ Done' = Done + 1
<1>1. PICK rest : rest = Tail(out)
  OBVIOUS
<1>2. /\ out' = rest /\ rest \in Seq(Nat) /\ Len(rest) \in Nat /\ Len(out) = Len(rest) + 1
      /\ \A i \in 1..Len(rest) : rest[i] = out[i + 1]
  BY SMTT(30), <1>1 DEF Finished, QInv, ConnectionTypes
<1>3. Len(sent) \in Nat /\ Len(posted) \in Nat /\ Done \in Nat
  BY DEF QInv, ConnectionTypes, Numbered
<1>4. Done' = Done + 1
  BY <1>2, <1>3 DEF Done
<1>5. Numbered'
  <2>1. \A i \in 1..Len(rest) : rest[i] = (Done + 1) + i
    BY <1>2, <1>3 DEF QInv, Numbered
  <2>2. \A i \in 1..Len(posted) : posted[i] = (Done + 1) + Len(rest) + i
    <3>1. \A i \in 1..Len(posted) : posted[i] = Done + Len(out) + i
      BY DEF QInv, Numbered
    <3>2. \A i \in 1..Len(posted) : Done + Len(out) + i = (Done + 1) + Len(rest) + i
      BY <1>2, <1>3
    <3> QED
      BY ONLY <3>1, <3>2
  <2> QED
    BY <1>2, <1>3, <1>4, <2>1, <2>2 DEF Numbered
<1>6. writes' \in Seq(Write) /\ OneWrite'
  <2>1. CASE rest = <<>>
    <3>1. writes' = <<>>
      BY <1>2, <2>1 DEF Finished
    <3> QED
      BY <3>1 DEF OneWrite
  <2>2. CASE rest # <<>>
    <3>1. Head(rest) = (Done + 1) + 1 /\ (Done + 1) + 1 <= Len(sent)
      BY <1>2, <1>3, <2>2 DEF QInv, Numbered, Done
    <3>2. PICK n \in 1..Len(sent) : n = Head(rest)
      BY <1>3, <3>1
    <3>3. Started(n)
      BY <1>2, <2>2, <3>2 DEF Finished
    <3>4. writes' \in Seq(Write) /\ Len(writes') <= 1 /\ (writes' # <<>> => writes'[1].id = n)
      BY <3>3, StartedWrites DEF QInv
    <3> QED
      BY <1>2, <1>4, <2>2, <3>1, <3>2, <3>4 DEF OneWrite
  <2> QED
    BY <2>1, <2>2
<1>7. ConnectionTypes'
  BY <1>2, <1>6 DEF QInv, ConnectionTypes, reader, sockets
<1> QED
  BY <1>4, <1>5, <1>6, <1>7 DEF QInv

LEMMA SendQInv == ASSUME QInv, NEW t \in Templates, Send(t) PROVE QInv' /\ Done' = Done
<1>1. /\ sent' = Append(sent, t) /\ posted' = Append(posted, Len(sent) + 1)
      /\ UNCHANGED <<out, writes, wire, reader, sockets>>
  BY DEF Send, Ticket
<1>2. /\ sent \in Seq(Templates) /\ posted \in Seq(Nat) /\ Len(sent) \in Nat /\ Len(posted) \in Nat
      /\ Len(out) \in Nat /\ Done \in Nat
  BY DEF QInv, ConnectionTypes, Numbered
<1>3. PICK more : more = Append(posted, Len(sent) + 1)
  OBVIOUS
<1>4. /\ sent' \in Seq(Templates) /\ Len(sent') = Len(sent) + 1
      /\ more \in Seq(Nat) /\ Len(more) = Len(posted) + 1 /\ more[Len(posted) + 1] = Len(sent) + 1
      /\ \A i \in 1..Len(posted) : more[i] = posted[i]
  BY <1>1, <1>2, <1>3
<1>5. Done' = Done
  BY <1>1, <1>2, <1>3, <1>4 DEF Done
<1>6. ASSUME NEW i \in 1..Len(more) PROVE more[i] = Done + Len(out) + i
  <2>1. CASE i \in 1..Len(posted)
    BY <1>4, <2>1 DEF QInv, Numbered
  <2>2. CASE i = Len(posted) + 1
    <3>1. Len(sent) = Done + Len(out) + Len(posted)
      BY <1>2 DEF Done
    <3> QED
      BY <1>2, <1>4, <2>2, <3>1
  <2> QED
    BY <1>2, <1>4, <2>1, <2>2
<1>7. Numbered'
  BY <1>1, <1>3, <1>5, <1>6 DEF QInv, Numbered
<1>8. ConnectionTypes'
  BY <1>1, <1>3, <1>4 DEF QInv, ConnectionTypes, reader, sockets
<1>9. OneWrite'
  BY <1>1, <1>5 DEF QInv, OneWrite
<1> QED
  BY <1>5, <1>7, <1>8, <1>9 DEF QInv

LEMMA EnqueueMoves ==
  ASSUME QInv, Enqueue
  PROVE  /\ posted # <<>> /\ posted' = Tail(posted) /\ out' = Append(out, Head(posted))
         /\ Done' = Done /\ Head(posted) = Done + Len(out) + 1 /\ Head(posted) \in 1..Len(sent)
         /\ \/ out # <<>> /\ UNCHANGED writes
            \/ out = <<>> /\ writes = <<>> /\ Started(Done + 1)
         /\ UNCHANGED <<sent, wire, reader, sockets>>
<1>1. /\ posted # <<>> /\ posted' = Tail(posted) /\ out' = Append(out, Head(posted))
      /\ UNCHANGED <<sent, wire, reader, sockets>>
      /\ out # <<>> => UNCHANGED writes
      /\ out = <<>> => WriteHeader(out', writes)
  BY DEF Enqueue, StartsWrite
<1>2. /\ posted \in Seq(Nat) /\ Len(sent) \in Nat /\ Len(posted) \in Nat \ {0} /\ out \in Seq(Nat)
      /\ Len(out) \in Nat /\ Done \in Nat /\ Head(posted) = posted[1] /\ Len(Tail(posted)) = Len(posted) - 1
  BY <1>1 DEF QInv, ConnectionTypes, Numbered
<1>3. Len(sent) = Done + Len(out) + Len(posted)
  BY <1>2 DEF Done
<1>4. Head(posted) = Done + Len(out) + 1
  BY <1>2 DEF QInv, Numbered
<1>5. Done' = Done
  <2>1. Len(Append(out, Head(posted))) = Len(out) + 1
    BY <1>2
  <2> QED
    BY <1>1, <1>2, <2>1 DEF Done
<1>6. ASSUME out = <<>> PROVE writes = <<>> /\ Started(Done + 1)
  <2>1. writes = <<>>
    BY <1>6 DEF QInv, OneWrite
  <2>2. PICK queue : queue = out'
    OBVIOUS
  <2>3. Head(queue) = Done + 1
    BY <1>1, <1>2, <1>4, <1>6, <2>2
  <2>4. WriteHeader(queue, <<>>)
    BY <1>1, <1>6, <2>1, <2>2
  <2> QED
    BY ONLY <2>1, <2>3, <2>4, WriteHeaderStarts
<1> QED
  BY <1>1, <1>2, <1>3, <1>4, <1>5, <1>6

LEMMA EnqueueQInv == ASSUME QInv, Enqueue PROVE QInv'
<1>1. /\ posted # <<>> /\ posted' = Tail(posted) /\ out' = Append(out, Head(posted))
      /\ Done' = Done /\ Head(posted) = Done + Len(out) + 1 /\ Head(posted) \in 1..Len(sent)
      /\ \/ out # <<>> /\ UNCHANGED writes
         \/ out = <<>> /\ writes = <<>> /\ Started(Done + 1)
      /\ UNCHANGED <<sent, wire, reader, sockets>>
  BY EnqueueMoves
<1>2. PICK rest, more : rest = Tail(posted) /\ more = Append(out, Head(posted))
  OBVIOUS
<1>3. /\ posted \in Seq(Nat) /\ out \in Seq(Nat) /\ Done \in Nat
  BY DEF QInv, ConnectionTypes, Numbered
<1>4. /\ rest \in Seq(Nat) /\ Len(rest) \in Nat /\ Len(posted) = Len(rest) + 1
      /\ \A i \in 1..Len(rest) : rest[i] = posted[i + 1]
      /\ more \in Seq(Nat) /\ Len(out) \in Nat /\ Len(more) = Len(out) + 1 /\ more[Len(out) + 1] = Head(posted)
      /\ \A i \in 1..Len(out) : more[i] = out[i]
  BY <1>1, <1>2, <1>3
<1>5. \A i \in 1..Len(rest) : rest[i] = Done + Len(more) + i
  <2>1. \A i \in 1..Len(posted) : posted[i] = Done + Len(out) + i
    BY DEF QInv, Numbered
  <2> QED
    BY <1>3, <1>4, <2>1
<1>6. ASSUME NEW i \in 1..Len(more) PROVE more[i] = Done + i
  <2>1. CASE i \in 1..Len(out)
    BY <1>4, <2>1 DEF QInv, Numbered
  <2>2. CASE i = Len(out) + 1
    BY <1>1, <1>3, <1>4, <2>2
  <2> QED
    BY <1>4, <2>1, <2>2
<1>7. Numbered'
  BY <1>1, <1>2, <1>3, <1>5, <1>6 DEF Numbered
<1>8. writes' \in Seq(Write) /\ OneWrite'
  <2>0. out' # <<>>
    <3>1. Len(out) \in Nat /\ Len(out') = Len(out) + 1
      BY <1>1, <1>2, <1>4
    <3>2. Len(<<>>) = 0
      OBVIOUS
    <3> QED
      BY ONLY <3>1, <3>2
  <2>1. CASE out # <<>> /\ UNCHANGED writes
    BY <1>1, <2>0, <2>1 DEF QInv, ConnectionTypes, OneWrite
  <2>2. CASE out = <<>> /\ Started(Done + 1)
    <3>1. PICK n \in 1..Len(sent) : n = Done + 1
      BY <1>1, <1>3, <2>2
    <3>2. writes' \in Seq(Write) /\ Len(writes') <= 1 /\ (writes' # <<>> => writes'[1].id = n)
      BY <2>2, <3>1, StartedWrites DEF QInv
    <3> QED
      BY <1>1, <2>0, <3>1, <3>2 DEF OneWrite
  <2> QED
    BY <1>1, <2>1, <2>2
<1>9. ConnectionTypes'
  BY <1>1, <1>2, <1>4, <1>8 DEF QInv, ConnectionTypes, reader, sockets
<1> QED
  BY <1>7, <1>8, <1>9 DEF QInv

\* Where the queue is left alone, its numbers are.
LEMMA QueueLeft ==
  ASSUME QInv, UNCHANGED <<sent, posted, out>>, ConnectionTypes',
         Len(writes') <= 1, writes' # <<>> => writes # <<>> /\ writes'[1].id = writes[1].id
  PROVE  QInv' /\ Done' = Done
<1>1. Done' = Done
  BY DEF Done
<1>2. Numbered' /\ OneWrite'
  BY <1>1 DEF QInv, Numbered, OneWrite
<1> QED
  BY <1>1, <1>2 DEF QInv

LEMMA UnitsLeft ==
  ASSUME NEW w \in Write, NEW x PROVE [w EXCEPT !.units = x] = [kind |-> w.kind, id |-> w.id, units |-> x]
<1>1. w = [kind |-> w.kind, id |-> w.id, units |-> w.units]
  BY DEF Write
<1> QED
  BY ONLY <1>1

LEMMA TransmitMoves ==
  ASSUME QInv, NEW i \in DOMAIN writes, Transmit(i)
  PROVE  /\ writes = <<writes[1]>> /\ writes[1] \in Write /\ writes[1].units # <<>>
         /\ wire' = Append(wire, Head(writes[1].units))
         /\ writes' = <<[kind |-> writes[1].kind, id |-> writes[1].id, units |-> Tail(writes[1].units)]>>
         /\ UNCHANGED <<sent, posted, out, reader, sockets>>
<1>1. /\ i = 1 /\ writes = <<writes[1]>> /\ writes[1] \in Write
      /\ \A w : [writes EXCEPT ![i] = w] = <<w>>
  BY TheWrite DEF QInv
<1>2. /\ writes[1].units # <<>> /\ wire' = Append(wire, Head(writes[1].units))
      /\ writes' = [writes EXCEPT ![i] = [writes[1] EXCEPT !.units = Tail(writes[1].units)]]
      /\ UNCHANGED <<sent, posted, out, reader, sockets>>
  BY <1>1 DEF Transmit
<1>3. PICK w, x : w = writes[1] /\ x = Tail(w.units)
  OBVIOUS
<1>4. w \in Write
  BY ONLY <1>1, <1>3
<1>5. [w EXCEPT !.units = x] = [kind |-> w.kind, id |-> w.id, units |-> x]
  BY ONLY <1>4, UnitsLeft
<1> QED
  BY <1>1, <1>2, <1>3, <1>5

LEMMA TransmitQInv ==
  ASSUME QInv, NEW i \in DOMAIN writes, Transmit(i) PROVE QInv' /\ Done' = Done
<1>1. PICK w, left : /\ w = writes[1] /\ w \in Write /\ writes # <<>> /\ w.units # <<>> /\ wire' = Append(wire, Head(w.units))
                     /\ left = [kind |-> w.kind, id |-> w.id, units |-> Tail(w.units)] /\ writes' = <<left>>
                     /\ UNCHANGED <<sent, posted, out, reader, sockets>>
  BY TransmitMoves
<1>2. w.units \in Seq(Unit) /\ w.kind \in {"header", "body"} /\ w.id \in Nat
  BY <1>1 DEF Write
<1>3. Head(w.units) \in Unit /\ Tail(w.units) \in Seq(Unit)
  BY <1>1, <1>2
<1>4. left \in Write /\ left.id = w.id
  BY <1>1, <1>2, <1>3 DEF Write
<1>5. wire' \in Seq(Unit) /\ writes' \in Seq(Write) /\ Len(writes') <= 1 /\ writes'[1].id = writes[1].id
  BY <1>1, <1>3, <1>4 DEF QInv, ConnectionTypes
<1>6. ConnectionTypes'
  BY <1>1, <1>5 DEF QInv, ConnectionTypes, reader, sockets
<1> QED
  BY <1>1, <1>5, <1>6, QueueLeft

\* The front of the queue is the message whose write is in progress.
LEMMA FrontOfQueue ==
  ASSUME QInv, out # <<>> PROVE Head(out) = Done + 1 /\ Done + 1 \in 1..Len(sent)
<1>1. out \in Seq(Nat) /\ Len(out) \in Nat \ {0} /\ Head(out) = out[1] /\ Done \in Nat
  BY DEF QInv, ConnectionTypes, Numbered
<1>2. Head(out) = Done + 1
  BY <1>1 DEF QInv, Numbered
<1>3. Len(sent) \in Nat /\ Len(posted) \in Nat
  BY DEF QInv, ConnectionTypes
<1>4. Len(sent) = Done + Len(out) + Len(posted)
  BY <1>1, <1>3 DEF Done
<1> QED
  BY <1>1, <1>2, <1>3, <1>4

LEMMA WrittenMoves ==
  ASSUME QInv, NEW i \in DOMAIN writes, HeaderWritten(i) \/ BodyWritten(i)
  PROVE  /\ writes = <<writes[1]>> /\ writes[1] \in Write /\ writes[1].units = <<>> /\ out # <<>>
         /\ writes[1].id = Done + 1
         /\ \/ /\ writes[1].kind = "header" /\ UNCHANGED out
               /\ writes' = <<[kind |-> "body", id |-> Done + 1, units |-> BodyOf(Done + 1)]>>
            \/ /\ Finished /\ (writes[1].kind = "header" => ~HasBody(Done + 1))
         /\ UNCHANGED <<sent, posted, wire, reader, sockets>>
<1>1. /\ i = 1 /\ writes = <<writes[1]>> /\ writes[1] \in Write /\ writes # <<>>
      /\ \A w : [writes EXCEPT ![i] = w] = <<w>>
  BY TheWrite DEF QInv
<1>2. out # <<>> /\ writes[1].id = Done + 1
  BY <1>1 DEF QInv, OneWrite
<1>3. Head(out) = Done + 1
  BY <1>2, FrontOfQueue
<1>4. CASE HeaderWritten(i) /\ HasBody(Head(out))
  BY <1>1, <1>2, <1>3, <1>4 DEF HeaderWritten
<1>5. CASE HeaderWritten(i) /\ ~HasBody(Head(out))
  <2>1. NextMessage(i) /\ UNCHANGED <<sent, posted, wire, reader, sockets>> /\ writes[1].units = <<>>
    BY <1>1, <1>5 DEF HeaderWritten
  <2>2. Finished
    BY <2>1, NextMessageFinishes
  <2> QED
    BY <1>1, <1>2, <1>3, <1>5, <2>1, <2>2
<1>6. CASE BodyWritten(i)
  <2>1. /\ NextMessage(i) /\ UNCHANGED <<sent, posted, wire, reader, sockets>> /\ writes[1].units = <<>>
        /\ writes[1].kind = "body"
    BY <1>1, <1>6 DEF BodyWritten
  <2>2. Finished
    BY <2>1, NextMessageFinishes
  <2> QED
    BY <1>1, <1>2, <2>1, <2>2
<1> QED
  BY <1>4, <1>5, <1>6

LEMMA WrittenQInv ==
  ASSUME QInv, NEW i \in DOMAIN writes, HeaderWritten(i) \/ BodyWritten(i) PROVE QInv'
<1>1. /\ writes # <<>> /\ out # <<>> /\ writes[1].id = Done + 1
      /\ \/ /\ UNCHANGED out
            /\ writes' = <<[kind |-> "body", id |-> Done + 1, units |-> BodyOf(Done + 1)]>>
         \/ Finished
      /\ UNCHANGED <<sent, posted, wire, reader, sockets>>
  BY WrittenMoves
<1>2. CASE Finished
  BY <1>1, <1>2, FinishedKeeps
<1>3. CASE UNCHANGED out /\ writes' = <<[kind |-> "body", id |-> Done + 1, units |-> BodyOf(Done + 1)]>>
  <2>1. PICK n \in 1..Len(sent) : n = Done + 1
    BY <1>1, FrontOfQueue
  <2>2. BodyOf(n) \in Seq(Unit) /\ n \in Nat
    BY <2>1, HeadersTyped DEF QInv
  <2>3. PICK w : w = [kind |-> "body", id |-> n, units |-> BodyOf(n)]
    OBVIOUS
  <2>4. w \in Write /\ w.id = n
    BY <2>2, <2>3 DEF Write
  <2>5. writes' = <<w>>
    BY <1>3, <2>1, <2>3
  <2>6. ConnectionTypes'
    BY <1>1, <1>3, <2>4, <2>5 DEF QInv, ConnectionTypes, reader, sockets
  <2> QED
    BY <1>1, <1>3, <2>1, <2>4, <2>5, <2>6, QueueLeft
<1> QED
  BY <1>1, <1>2, <1>3

LEMMA WriteFailedQInv ==
  ASSUME QInv, NEW i \in DOMAIN writes, WriteFailed(i)
  PROVE  QInv' /\ writes' = <<>> /\ out # <<>>
<1>1. writes' = <<>> /\ out # <<>> /\ UNCHANGED <<sent, posted, out, wire, reader>>
      /\ open' = [open EXCEPT !["w"] = FALSE]
  BY TheWrite DEF WriteFailed, QInv, OneWrite
<1>2. ConnectionTypes'
  BY <1>1 DEF QInv, ConnectionTypes, reader, Sides
<1>3. Len(writes') <= 1
  BY <1>1
<1> QED
  BY <1>1, <1>2, <1>3, QueueLeft

\* The reader leaves the queue alone.
LEMMA ReceivedMessage ==
  ASSUME ConnectionTypes, NEW h \in Header, NEW e \in StoredBody
  PROVE  /\ [buffer EXCEPT !.id = h.id, !.type = h.type, !.size = h.size]
              = [id |-> h.id, type |-> h.type, size |-> h.size, body |-> buffer.body]
         /\ [buffer EXCEPT !.body = e]
              = [id |-> buffer.id, type |-> buffer.type, size |-> buffer.size, body |-> e]
<1>1. buffer = [id |-> buffer.id, type |-> buffer.type, size |-> buffer.size, body |-> buffer.body]
  BY DEF ConnectionTypes
<1>2. PICK r, a, b, c, d, n, t, z :
        /\ r = [id |-> a, type |-> b, size |-> c, body |-> d]
        /\ r = buffer /\ a = r.id /\ b = r.type /\ c = r.size /\ d = r.body
        /\ n = h.id /\ t = h.type /\ z = h.size
  BY <1>1
<1>3. r = [id |-> a, type |-> b, size |-> c, body |-> d]
  BY <1>2
<1>4. [r EXCEPT !.id = n, !.type = t, !.size = z] = [[[r EXCEPT !.id = n] EXCEPT !.type = t] EXCEPT !.size = z]
  BY ONLY <1>3
<1>5. [r EXCEPT !.id = n] = [id |-> n, type |-> b, size |-> c, body |-> d]
  BY ONLY <1>3
<1>6. PICK one : one = [r EXCEPT !.id = n]
  OBVIOUS
<1>7. one = [id |-> n, type |-> b, size |-> c, body |-> d]
  BY ONLY <1>5, <1>6
<1>8. [one EXCEPT !.type = t] = [id |-> n, type |-> t, size |-> c, body |-> d]
  BY ONLY <1>7
<1>9. PICK two : two = [one EXCEPT !.type = t]
  OBVIOUS
<1>10. two = [id |-> n, type |-> t, size |-> c, body |-> d]
  BY ONLY <1>8, <1>9
<1>11. [two EXCEPT !.size = z] = [id |-> n, type |-> t, size |-> z, body |-> d]
  BY ONLY <1>10
<1>12. [r EXCEPT !.id = n, !.type = t, !.size = z] = [id |-> n, type |-> t, size |-> z, body |-> d]
  BY ONLY <1>4, <1>6, <1>9, <1>11
<1>13. [r EXCEPT !.body = e] = [id |-> a, type |-> b, size |-> c, body |-> e]
  BY ONLY <1>3
<1> QED
  BY ONLY <1>2, <1>12, <1>13

\* What the buffer holds is as much of a message as it can be, and so is what
\* is handed on.
Handed(r) == [id |-> r.id, type |-> r.type, body |-> r.body, remote |-> Owner = "SERVER"]
LEMMA HandedTyped ==
  ASSUME ConnectionTypes, NEW r \in [id : Nat, type : MessageType, size : Nat, body : StoredBody]
  PROVE  Append(incoming, Handed(r)) \in Seq([id : Nat, type : MessageType, body : StoredBody, remote : BOOLEAN])
<1>1. Handed(r) \in [id : Nat, type : MessageType, body : StoredBody, remote : BOOLEAN]
  BY DEF Handed
<1>2. incoming \in Seq([id : Nat, type : MessageType, body : StoredBody, remote : BOOLEAN])
  BY DEF ConnectionTypes
<1> QED
  BY ONLY <1>1, <1>2

LEMMA HeaderReadMoves ==
  ASSUME ConnectionTypes, HeaderRead
  PROVE  /\ reading = "header" /\ open["r"] /\ wire # <<>> /\ wire' = Tail(wire)
         /\ \E h \in Header :
              /\ h \in Headers(Head(wire))
              /\ buffer' = [id |-> h.id, type |-> h.type, size |-> h.size, body |-> buffer.body]
              /\ \/ h.size > 0 /\ reading' = "body" /\ UNCHANGED incoming
                 \/ h.size = 0 /\ reading' = "header" /\ incoming' = Append(incoming, Handed(buffer'))
         /\ UNCHANGED <<sent, writer, sockets>>
<1>1. PICK h \in Headers(Head(wire)) :
        /\ buffer' = [buffer EXCEPT !.id = h.id, !.type = h.type, !.size = h.size]
        /\ IF h.size > 0 THEN reading' = "body" /\ UNCHANGED incoming ELSE Received(buffer')
  BY DEF HeaderRead
<1>2. /\ reading = "header" /\ open["r"] /\ wire # <<>> /\ wire' = Tail(wire)
      /\ UNCHANGED <<sent, writer, sockets>>
  BY DEF HeaderRead
<1>3. h \in Header
  <2>1. Head(wire) \in Unit
    BY <1>2 DEF ConnectionTypes
  <2>2. Head(wire).k = "H" => Head(wire) \in Header
    BY <2>1 DEF Unit, Header
  <2>3. Garbage \subseteq Header
    BY DEF Garbage, Header, MaxUnits
  <2> QED
    BY <2>2, <2>3 DEF Headers
<1>4. buffer' = [id |-> h.id, type |-> h.type, size |-> h.size, body |-> buffer.body]
  <2>1. buffer.body \in StoredBody
    BY DEF ConnectionTypes
  <2> QED
    BY <1>1, <1>3, <2>1, ReceivedMessage
<1>5. h.size \in Nat
  BY <1>3 DEF Header
<1>6. CASE h.size > 0
  BY <1>1, <1>2, <1>3, <1>4, <1>6
<1>7. CASE ~(h.size > 0)
  <2>1. reading' = "header" /\ incoming' = Append(incoming, Handed(buffer'))
    BY <1>1, <1>7 DEF Received, Handed
  <2>2. h.size = 0
    BY <1>5, <1>7
  <2> QED
    BY <1>1, <1>2, <1>3, <1>4, <2>1, <2>2
<1> QED
  BY <1>6, <1>7

LEMMA BodyReadMoves ==
  ASSUME ConnectionTypes, BodyRead
  PROVE  /\ reading = "body" /\ open["r"] /\ Len(wire) >= buffer.size
         /\ wire' = SubSeq(wire, buffer.size + 1, Len(wire))
         /\ \E b \in StoredBody :
              /\ b = RestoredBody(SubSeq(wire, 1, buffer.size))
              /\ buffer' = [id |-> buffer.id, type |-> buffer.type, size |-> buffer.size, body |-> b]
         /\ reading' = "header" /\ incoming' = Append(incoming, Handed(buffer'))
         /\ UNCHANGED <<sent, writer, sockets>>
<1>1. PICK units : units = SubSeq(wire, 1, buffer.size)
  OBVIOUS
<1>2. /\ reading = "body" /\ open["r"] /\ Len(wire) >= buffer.size
      /\ wire' = SubSeq(wire, buffer.size + 1, Len(wire))
      /\ buffer' = [buffer EXCEPT !.body = RestoredBody(units)]
      /\ Received(buffer')
      /\ UNCHANGED <<sent, writer, sockets>>
  BY <1>1 DEF BodyRead, IncomingResult
<1>3. RestoredBody(units) \in StoredBody
  <2>1. CASE Decoded(units, buffer.type) = {}
    BY <2>1 DEF RestoredBody, ConnectionTypes
  <2>2. CASE Decoded(units, buffer.type) # {}
    <3>1. PICK n : n = CHOOSE m \in Decoded(units, buffer.type) : TRUE
      OBVIOUS
    <3>2. n \in Decoded(units, buffer.type)
      BY <2>2, <3>1
    <3>3. n \in 1..Len(sent) /\ sent \in Seq(Templates)
      BY <3>2 DEF Decoded, ConnectionTypes
    <3>4. sent[n].body \in STRING
      BY <3>3, ConnectionAssumption
    <3>5. [type |-> sent[n].body, id |-> n] \in StoredBody
      BY <3>3, <3>4 DEF StoredBody
    <3> QED
      BY <2>2, <3>1, <3>5 DEF RestoredBody
  <2> QED
    BY <2>1, <2>2
<1>4. ASSUME NEW b \in StoredBody, b = RestoredBody(units)
      PROVE  buffer' = [id |-> buffer.id, type |-> buffer.type, size |-> buffer.size, body |-> b]
  <2>1. buffer' = [buffer EXCEPT !.body = b]
    BY <1>2, <1>4
  <2>2. "ServerAccept" \in MessageType
    BY DEF MessageType, Bodiless
  <2>3. [k |-> "H", id |-> 0, type |-> "ServerAccept", size |-> 0] \in Header
    BY <2>2 DEF Header
  <2> QED
    BY <2>1, <2>3, ReceivedMessage
<1>5. reading' = "header" /\ incoming' = Append(incoming, Handed(buffer'))
  BY <1>2 DEF Received, Handed
<1> QED
  BY <1>1, <1>2, <1>3, <1>4, <1>5

LEMMA HeaderReadQInv == ASSUME QInv, HeaderRead PROVE QInv'
<1>1. ConnectionTypes
  BY DEF QInv
<1>2. PICK h \in Header :
        /\ buffer' = [id |-> h.id, type |-> h.type, size |-> h.size, body |-> buffer.body]
        /\ \/ h.size > 0 /\ reading' = "body" /\ UNCHANGED incoming
           \/ h.size = 0 /\ reading' = "header" /\ incoming' = Append(incoming, Handed(buffer'))
  BY <1>1, HeaderReadMoves
<1>3. wire # <<>> /\ wire' = Tail(wire) /\ UNCHANGED <<sent, writer, sockets>>
  BY <1>1, HeaderReadMoves
<1>4. buffer' \in [id : Nat, type : MessageType, size : Nat, body : StoredBody]
  BY <1>1, <1>2 DEF ConnectionTypes, Header
<1>5. incoming' \in Seq([id : Nat, type : MessageType, body : StoredBody, remote : BOOLEAN])
  BY <1>1, <1>2, <1>4, HandedTyped DEF ConnectionTypes
<1>6. wire' \in Seq(Unit)
  BY <1>1, <1>3 DEF ConnectionTypes
<1>7. ConnectionTypes'
  BY <1>1, <1>2, <1>3, <1>4, <1>5, <1>6 DEF ConnectionTypes, writer, sockets
<1> QED
  BY <1>3, <1>7, QueueLeft DEF writer, QInv, OneWrite

LEMMA BodyReadQInv == ASSUME QInv, BodyRead PROVE QInv'
<1>1. ConnectionTypes
  BY DEF QInv
<1>2. PICK b \in StoredBody :
        buffer' = [id |-> buffer.id, type |-> buffer.type, size |-> buffer.size, body |-> b]
  BY <1>1, BodyReadMoves
<1>3. /\ Len(wire) >= buffer.size /\ wire' = SubSeq(wire, buffer.size + 1, Len(wire))
      /\ reading' = "header" /\ incoming' = Append(incoming, Handed(buffer'))
      /\ UNCHANGED <<sent, writer, sockets>>
  BY <1>1, BodyReadMoves
<1>4. buffer' \in [id : Nat, type : MessageType, size : Nat, body : StoredBody]
  BY <1>1, <1>2 DEF ConnectionTypes
<1>5. incoming' \in Seq([id : Nat, type : MessageType, body : StoredBody, remote : BOOLEAN])
  BY <1>1, <1>3, <1>4, HandedTyped
<1>6. wire' \in Seq(Unit)
  <2>1. PICK w, k : w = wire /\ k = buffer.size /\ w \in Seq(Unit) /\ k \in Nat /\ k <= Len(w)
    BY <1>1, <1>3 DEF ConnectionTypes
  <2>2. SubSeq(w, k + 1, Len(w)) \in Seq(Unit)
    BY ONLY <2>1, Dropped
  <2> QED
    BY <1>3, <2>1, <2>2
<1>7. ConnectionTypes'
  BY <1>1, <1>3, <1>4, <1>5, <1>6 DEF ConnectionTypes, writer, sockets
<1> QED
  BY <1>3, <1>7, QueueLeft DEF writer, QInv, OneWrite

\* ... and so does what happens to the sockets.
LEMMA OpenStays ==
  ASSUME ConnectionTypes, NEW s \in Sides, open' = [open EXCEPT ![s] = FALSE]
  PROVE  open' \in [Sides -> BOOLEAN] /\ \A t \in Sides : open'[t] => open[t]
BY DEF ConnectionTypes

Idle == \/ StartReading \/ ReadFailed \/ LinkFails
        \/ \E s \in Sides : Disconnect(s) \/ Close(s)
LEMMA IdleMoves ==
  ASSUME ConnectionTypes, Idle
  PROVE  /\ UNCHANGED <<sent, writer, wire, buffer, incoming>>
         /\ reading' \in {"none", "header", "body"} /\ open' \in [Sides -> BOOLEAN]
         /\ \A t \in Sides : open'[t] => open[t]
         /\ \/ UNCHANGED reading
            \/ reading = "none" /\ incoming = <<>> /\ reading' = "header" /\ open["r"]
            \/ reading' = "none" /\ ~open'["r"]
<1>1. CASE StartReading
  BY <1>1 DEF StartReading, sockets, ConnectionTypes
<1>2. CASE ReadFailed
  <2>1. open' = [open EXCEPT !["r"] = FALSE] /\ "r" \in Sides
    BY <1>2 DEF ReadFailed, Sides
  <2>2. ~open'["r"]
    BY <2>1 DEF ConnectionTypes
  <2> QED
    BY <1>2, <2>1, <2>2, OpenStays DEF ReadFailed, ConnectionTypes
<1>3. CASE LinkFails
  BY <1>3 DEF LinkFails, reader, ConnectionTypes
<1>4. ASSUME NEW s \in Sides, Disconnect(s) PROVE UNCHANGED <<sent, writer, wire, reader, open>>
  BY <1>4 DEF Disconnect
<1>5. ASSUME NEW s \in Sides, Close(s)
      PROVE  /\ UNCHANGED <<sent, writer, wire, reader>> /\ open' \in [Sides -> BOOLEAN]
             /\ \A t \in Sides : open'[t] => open[t]
  BY <1>5, OpenStays DEF Close
<1> QED
  BY <1>1, <1>2, <1>3, <1>4, <1>5 DEF Idle, reader, ConnectionTypes

LEMMA IdleQInv == ASSUME QInv, Idle PROVE QInv'
<1>1. /\ UNCHANGED <<sent, writer, wire, buffer, incoming>>
      /\ reading' \in {"none", "header", "body"} /\ open' \in [Sides -> BOOLEAN]
  BY IdleMoves DEF QInv
<1>2. ConnectionTypes'
  BY <1>1 DEF QInv, ConnectionTypes, writer
<1> QED
  BY <1>1, <1>2, QueueLeft DEF writer, QInv, OneWrite

LEMMA StutterQInv == ASSUME QInv, UNCHANGED vars PROVE QInv'
<1>1. UNCHANGED <<sent, writer, wire, reader, sockets>>
  BY DEF vars
<1>2. ConnectionTypes'
  BY <1>1 DEF QInv, ConnectionTypes, writer, reader, sockets
<1> QED
  BY <1>1, <1>2, QueueLeft DEF writer, QInv, OneWrite

LEMMA Steps ==
  ASSUME [Next]_vars
  PROVE  \/ \E t \in Templates : Send(t)
         \/ Enqueue
         \/ \E i \in DOMAIN writes : Transmit(i) \/ HeaderWritten(i) \/ BodyWritten(i) \/ WriteFailed(i)
         \/ HeaderRead \/ BodyRead \/ Idle
         \/ UNCHANGED vars
BY DEF Next, Environment, Writing, Reading, Idle

LEMMA NextQInv == ASSUME QInv, [Next]_vars PROVE QInv'
BY Steps, SendQInv, EnqueueQInv, TransmitQInv, WrittenQInv, WriteFailedQInv, HeaderReadQInv, BodyReadQInv,
   IdleQInv, StutterQInv

\* A message that cannot be serialized starts no write, so the queue moves as
\* long as there is none.
LEMMA StartsWriting ==
  ASSUME ConnectionTypes, \A t \in Templates : Serializes(t.type, t.body),
         NEW n \in 1..Len(sent), Started(n)
  PROVE  writes' # <<>>
<1>1. sent[n] \in Templates
  BY DEF ConnectionTypes
<1>2. Serializable(n)
  BY <1>1 DEF Serializable
<1> QED
  BY <1>2 DEF Started

LEMMA NextQueueMoves ==
  ASSUME QInv, QueueMoves, [Next]_vars, \A t \in Templates : Serializes(t.type, t.body)
  PROVE  QueueMoves'
<1>1. CASE \E t \in Templates : Send(t)
  BY <1>1 DEF Send, sockets, QueueMoves
<1>2. CASE Enqueue
  <2>1. \/ out # <<>> /\ UNCHANGED writes
        \/ out = <<>> /\ Started(Done + 1) /\ Done + 1 \in 1..Len(sent)
    <3>1. /\ Head(posted) = Done + Len(out) + 1 /\ Head(posted) \in 1..Len(sent)
          /\ \/ out # <<>> /\ UNCHANGED writes
             \/ out = <<>> /\ writes = <<>> /\ Started(Done + 1)
      BY <1>2, EnqueueMoves
    <3>2. out = <<>> => Done + Len(out) + 1 = Done + 1
      <4>1. Done \in Nat
        BY DEF QInv, Numbered
      <4> QED
        BY <4>1
    <3> QED
      BY <3>1, <3>2
  <2>2. UNCHANGED open
    BY <1>2 DEF Enqueue, sockets
  <2>3. CASE out # <<>> /\ UNCHANGED writes
    BY <2>2, <2>3 DEF QueueMoves
  <2>4. CASE out = <<>> /\ Started(Done + 1) /\ Done + 1 \in 1..Len(sent)
    <3>1. writes' # <<>>
      BY <2>4, StartsWriting DEF QInv
    <3> QED
      BY <3>1 DEF QueueMoves
  <2> QED
    BY <2>1, <2>3, <2>4
<1>3. ASSUME NEW i \in DOMAIN writes, Transmit(i) PROVE QueueMoves'
  <2>1. writes' = <<[kind |-> writes[1].kind, id |-> writes[1].id, units |-> Tail(writes[1].units)]>>
    BY <1>3, TransmitMoves
  <2> QED
    BY <2>1 DEF QueueMoves
<1>4. ASSUME NEW i \in DOMAIN writes, HeaderWritten(i) \/ BodyWritten(i) PROVE QueueMoves'
  <2>1. \/ writes' = <<[kind |-> "body", id |-> Done + 1, units |-> BodyOf(Done + 1)]>>
        \/ Finished
    BY <1>4, WrittenMoves
  <2>2. CASE writes' = <<[kind |-> "body", id |-> Done + 1, units |-> BodyOf(Done + 1)]>>
    BY <2>2 DEF QueueMoves
  <2>3. CASE Finished
    <3>1. SUFFICES ASSUME out' # <<>> PROVE writes' # <<>>
      BY DEF QueueMoves
    <3>2. Started(Head(out'))
      BY <2>3, <3>1 DEF Finished
    <3>3. QInv' /\ UNCHANGED sent
      BY <1>4, WrittenQInv DEF HeaderWritten, BodyWritten
    <3>4. Head(out') \in 1..Len(sent)
      <4>1. PICK queue, rest, d : queue = out' /\ rest = posted' /\ d = Done'
        OBVIOUS
      <4>2. /\ queue \in Seq(Nat) /\ rest \in Seq(Nat) /\ queue # <<>> /\ d \in Nat
            /\ \A j \in 1..Len(queue) : queue[j] = d + j
        BY <3>1, <3>3, <4>1 DEF QInv, ConnectionTypes, Numbered
      <4>3. d = Len(sent) - Len(rest) - Len(queue) /\ Len(sent) \in Nat
        BY <3>3, <4>1 DEF Done, QInv, ConnectionTypes
      <4>4. Head(queue) = d + 1 /\ Len(queue) \in Nat \ {0} /\ Len(rest) \in Nat
        BY ONLY <4>2
      <4> QED
        BY ONLY <4>1, <4>2, <4>3, <4>4
    <3> QED
      BY <3>2, <3>4, StartsWriting DEF QInv
  <2> QED
    BY <2>1, <2>2, <2>3
<1>5. ASSUME NEW i \in DOMAIN writes, WriteFailed(i) PROVE QueueMoves'
  BY <1>5 DEF WriteFailed, QueueMoves, QInv, ConnectionTypes, Sides
<1>6. CASE HeaderRead \/ BodyRead
  BY <1>6 DEF HeaderRead, BodyRead, writer, sockets, QueueMoves
<1>7. CASE Idle
  <2>1. UNCHANGED writer /\ \A t \in Sides : open'[t] => open[t]
    BY <1>7, IdleMoves DEF QInv
  <2>2. "w" \in Sides
    BY DEF Sides
  <2> QED
    BY <2>1, <2>2 DEF writer, QueueMoves
<1>8. CASE UNCHANGED vars
  BY <1>8 DEF vars, writer, sockets, QueueMoves
<1> QED
  BY <1>1, <1>2, <1>3, <1>4, <1>5, <1>6, <1>7, <1>8, Steps

\* Whatever the socket and the faults do: a message in the queue is being
\* written, or the socket of the writer is closed.  It takes callers that only
\* send what serializes: a message that does not stays at the front for ever
\* (writeHeader returns without starting a write, Connection.hpp).
THEOREM QueueKeepsMoving ==
  ASSUME \A t \in Templates : Serializes(t.type, t.body) PROVE Spec => []QueueMoves
<1>1. Init => QInv /\ QueueMoves
  <2>1. Init => QueueMoves
    BY DEF Init, QueueMoves
  <2> QED
    BY <2>1, InitQInv
<1>2. QInv /\ QueueMoves /\ [Next]_vars => (QInv /\ QueueMoves)'
  BY NextQInv, NextQueueMoves
<1> QED
  BY <1>1, <1>2, PTL DEF Spec


------------------------------------------------------------------------------
(* What is on the wire, when the header that is transmitted is the one of    *)
(* the message: the stream of units from the place of the next read to the   *)
(* place where the write in progress goes on.                                *)

MidBody == buffer.id > Len(incoming)
NextRead == IF MidBody THEN <<buffer.id, 1>> ELSE <<buffer.id + 1, 0>>
OnWire == Stream(sent, wire, NextRead)
Tip == End(sent, wire, NextRead)

\* The buffer holds the header of the last message that was handed on, or of
\* the one whose body is to be read.
ReaderInv ==
    /\ buffer.id \in {Len(incoming), Len(incoming) + 1} /\ buffer.id <= Len(sent)
    /\ reading = "body" => MidBody
    /\ reading = "header" \/ (reading = "none" /\ open["r"]) => ~MidBody
    /\ MidBody => /\ buffer.size = Size(sent, buffer.id) /\ buffer.size > 0
                  /\ buffer.type = sent[buffer.id].type
    /\ \A i \in 1..Len(incoming) : incoming[i].id = i

\* The write w of message n has transmitted what comes before p.
Left(s, w, n, p) ==
    \/ w.kind = "header" /\ w.units = <<UnitAt(s, <<n, 0>>)>> /\ p = <<n, 0>>
    \/ w.kind = "header" /\ w.units = <<>> /\ p = After(s, <<n, 0>>)
    \/ /\ w.kind = "body"
       /\ \E k \in 0..Size(s, n) :
            /\ Len(w.units) = Size(s, n) - k
            /\ \A j \in 1..Len(w.units) : w.units[j] = UnitAt(s, <<n, k + j>>)
            /\ p = After(s, <<n, k>>)
WriterInv == IF writes = <<>> THEN out = <<>> => Tip = <<Done + 1, 0>>
             ELSE Left(sent, writes[1], Done + 1, Tip)

\* The headers on the wire are those of the messages after the one in the
\* buffer, up to the last one that was transmitted.
LastHeader == buffer.id + Len(WireHeaders)
HeadersInv ==
    /\ \A i \in 1..Len(WireHeaders) : WireHeaders[i].id = buffer.id + i
    /\ LastHeader \in {Done, Done + 1}
    /\ out = <<>> => LastHeader = Done
    /\ writes # <<>> => (LastHeader = Done <=> writes[1].kind = "header" /\ writes[1].units # <<>>)

StreamInv == QInv /\ ReaderInv /\ OnWire /\ WriterInv /\ HeadersInv

LEMMA InitStream == ASSUME Init PROVE StreamInv
<1>1. QInv
  BY InitQInv
<1>2. /\ sent = <<>> /\ posted = <<>> /\ out = <<>> /\ writes = <<>> /\ wire = <<>> /\ incoming = <<>>
      /\ reading = "none" /\ buffer.id = 0 /\ Done = 0 /\ Len(sent) = 0 /\ Len(incoming) = 0
  <2>1. /\ sent = <<>> /\ posted = <<>> /\ out = <<>> /\ writes = <<>> /\ wire = <<>> /\ incoming = <<>>
        /\ reading = "none" /\ buffer.id = 0
    BY DEF Init
  <2>2. Len(<<>>) = 0
    OBVIOUS
  <2>3. Len(sent) = 0 /\ Len(posted) = 0 /\ Len(out) = 0 /\ Len(incoming) = 0
    BY ONLY <2>1, <2>2
  <2>4. Done = 0
    BY ONLY <2>3 DEF Done
  <2> QED
    BY <2>1, <2>3, <2>4
<1>3. ~MidBody /\ NextRead = <<1, 0>>
  BY <1>2 DEF MidBody, NextRead
<1>4. OnWire /\ Tip = <<1, 0>>
  BY <1>2, <1>3 DEF OnWire, Stream, Tip, End
<1>5. WireHeaders = <<>> /\ LastHeader = 0
  <2>1. WireHeaders = <<>>
    BY <1>2, OnlyEmpty DEF WireHeaders
  <2> QED
    BY <1>2, <2>1 DEF LastHeader
<1>6. ReaderInv
  BY <1>2, <1>3 DEF ReaderInv
<1>7. WriterInv
  BY <1>2, <1>4 DEF WriterInv
<1>8. HeadersInv
  BY <1>2, <1>5 DEF HeadersInv
<1> QED
  BY <1>1, <1>4, <1>6, <1>7, <1>8 DEF StreamInv

\* Steps that leave the wire and the reader alone.
LEMMA WireLeft ==
  ASSUME UNCHANGED <<sent, wire, buffer, incoming>>
  PROVE  /\ MidBody' = MidBody /\ NextRead' = NextRead /\ Tip' = Tip /\ OnWire' = OnWire
         /\ WireHeaders' = WireHeaders /\ LastHeader' = LastHeader
BY DEF MidBody, NextRead, Tip, OnWire, WireHeaders, LastHeader

LEMMA ReaderLeft ==
  ASSUME ReaderInv, UNCHANGED <<sent, wire, buffer, incoming>>,
         reading' = "body" => reading = "body",
         reading' = "header" \/ (reading' = "none" /\ open'["r"])
           => reading = "header" \/ (reading = "none" /\ open["r"])
  PROVE  ReaderInv'
BY WireLeft DEF ReaderInv

LEMMA IdleStream == ASSUME StreamInv, Idle PROVE StreamInv'
<1>1. /\ UNCHANGED <<sent, writer, wire, buffer, incoming>>
      /\ \A t \in Sides : open'[t] => open[t]
      /\ \/ UNCHANGED reading
         \/ reading = "none" /\ incoming = <<>> /\ reading' = "header" /\ open["r"]
         \/ reading' = "none" /\ ~open'["r"]
  BY IdleMoves DEF StreamInv, QInv
<1>2. QInv' /\ Done' = Done
  BY <1>1, IdleQInv DEF StreamInv, Done, writer
<1>3. ReaderInv'
  <2>1. "r" \in Sides
    BY DEF Sides
  <2> QED
    BY <1>1, <2>1, ReaderLeft DEF StreamInv
<1> QED
  BY <1>1, <1>2, <1>3, WireLeft DEF StreamInv, WriterInv, HeadersInv, writer

LEMMA StutterStream == ASSUME StreamInv, UNCHANGED vars PROVE StreamInv'
<1>1. UNCHANGED <<sent, posted, out, writes, wire, reading, buffer, incoming, open>>
  BY DEF vars, writer, reader, sockets
<1>2. QInv' /\ Done' = Done
  BY <1>1, StutterQInv DEF StreamInv, Done
<1>3. ReaderInv'
  BY <1>1, ReaderLeft DEF StreamInv
<1> QED
  BY <1>1, <1>2, <1>3, WireLeft DEF StreamInv, WriterInv, HeadersInv

LEMMA LeftGrows ==
  ASSUME NEW s \in Seq(Templates), NEW t \in Templates, NEW n \in 1..Len(s), NEW w, NEW p, Left(s, w, n, p)
  PROVE  Left(Append(s, t), w, n, p)
<1>1. PICK more : more = Append(s, t)
  OBVIOUS
<1>2. Size(more, n) = Size(s, n) /\ Size(s, n) \in Nat
  BY <1>1, Grown, Sizes
<1>3. \A k \in 0..Size(s, n) : /\ After(more, <<n, k>>) = After(s, <<n, k>>)
                               /\ UnitAt(more, <<n, k>>) = UnitAt(s, <<n, k>>)
  <2>1. ASSUME NEW k \in 0..Size(s, n)
        PROVE  After(more, <<n, k>>) = After(s, <<n, k>>) /\ UnitAt(more, <<n, k>>) = UnitAt(s, <<n, k>>)
    <3>1. <<n, k>> \in Places(s)
      BY <1>2 DEF Places
    <3> QED
      BY <1>1, <3>1, GrownPlaces
  <2> QED
    BY <2>1
<1>4. CASE w.kind = "header"
  <2>1. 0 \in 0..Size(s, n)
    BY <1>2
  <2>2. After(more, <<n, 0>>) = After(s, <<n, 0>>) /\ UnitAt(more, <<n, 0>>) = UnitAt(s, <<n, 0>>)
    BY <1>3, <2>1
  <2> QED
    BY <1>1, <1>4, <2>2 DEF Left
<1>5. CASE w.kind = "body"
  <2>1. PICK k \in 0..Size(s, n) :
          /\ Len(w.units) = Size(s, n) - k
          /\ \A j \in 1..Len(w.units) : w.units[j] = UnitAt(s, <<n, k + j>>)
          /\ p = After(s, <<n, k>>)
    BY <1>5 DEF Left
  <2>2. \A j \in 1..Len(w.units) : k + j \in 0..Size(s, n)
    BY <1>2, <2>1
  <2>3. \A j \in 1..Len(w.units) : w.units[j] = UnitAt(more, <<n, k + j>>)
    BY <1>3, <2>1, <2>2
  <2>4. p = After(more, <<n, k>>)
    BY <1>3, <2>1
  <2> QED
    BY <1>1, <1>2, <1>5, <2>1, <2>3, <2>4 DEF Left
<1> QED
  BY <1>4, <1>5 DEF Left

LEMMA SendStream == ASSUME StreamInv, NEW t \in Templates, Send(t) PROVE StreamInv'
<1>1. sent' = Append(sent, t) /\ UNCHANGED <<out, writes, wire, reading, buffer, incoming, open>>
  BY DEF Send, reader, sockets
<1>2. QInv' /\ Done' = Done
  BY SendQInv DEF StreamInv
<1>3. PICK s, w, p : s = sent /\ w = wire /\ p = NextRead
  OBVIOUS
<1>4. s \in Seq(Templates) /\ w \in Seq(Unit) /\ Stream(s, w, p) /\ Tip = End(s, w, p)
  BY <1>3 DEF StreamInv, QInv, ConnectionTypes, OnWire, Tip
<1>5. Stream(Append(s, t), w, p) /\ End(Append(s, t), w, p) = End(s, w, p)
  BY ONLY <1>4, t \in Templates, StreamGrows
<1>6. MidBody' = MidBody /\ NextRead' = NextRead /\ OnWire' /\ Tip' = Tip
  <2>1. MidBody' = MidBody /\ NextRead' = NextRead
    BY <1>1 DEF MidBody, NextRead
  <2> QED
    BY <1>1, <1>3, <1>4, <1>5, <2>1 DEF OnWire, Tip
<1>7. ReaderInv'
  <2>1. Len(sent') = Len(sent) + 1 /\ Len(sent) \in Nat
    BY <1>1 DEF StreamInv, QInv, ConnectionTypes
  <2>2. ASSUME MidBody
        PROVE  buffer.size = Size(sent', buffer.id) /\ buffer.size > 0 /\ buffer.type = sent'[buffer.id].type
    <3>1. PICK n : n = buffer.id
      OBVIOUS
    <3>2. n \in 1..Len(s)
      <4>1. n \in Nat /\ Len(incoming) \in Nat /\ n > Len(incoming) /\ n <= Len(s)
        BY <1>3, <2>2, <3>1 DEF MidBody, StreamInv, ReaderInv, QInv, ConnectionTypes
      <4> QED
        BY ONLY <4>1
    <3>3. Size(Append(s, t), n) = Size(s, n) /\ Append(s, t)[n] = s[n]
      BY ONLY <1>4, <3>2, t \in Templates, Grown
    <3> QED
      BY <1>1, <1>3, <2>2, <3>1, <3>3 DEF StreamInv, ReaderInv
  <2>3. buffer.id <= Len(sent')
    <3>1. buffer.id \in Nat /\ buffer.id <= Len(sent)
      BY DEF StreamInv, ReaderInv, QInv, ConnectionTypes
    <3> QED
      BY <2>1, <3>1
  <2> QED
    BY <1>1, <1>6, <2>2, <2>3 DEF StreamInv, ReaderInv
<1>8. WriterInv'
  <2>1. CASE writes = <<>>
    BY <1>1, <1>2, <1>6, <2>1 DEF StreamInv, WriterInv
  <2>2. CASE writes # <<>>
    <3>1. PICK n, v, q : n = Done + 1 /\ v = writes[1] /\ q = Tip
      OBVIOUS
    <3>2. n \in 1..Len(s)
      BY <1>3, <2>2, <3>1, FrontOfQueue DEF StreamInv, QInv, OneWrite
    <3>3. Left(s, v, n, q)
      BY <1>3, <2>2, <3>1 DEF StreamInv, WriterInv
    <3>4. Left(Append(s, t), v, n, q)
      BY ONLY <1>4, <3>2, <3>3, t \in Templates, LeftGrows
    <3> QED
      BY <1>1, <1>2, <1>3, <1>6, <2>2, <3>1, <3>4 DEF WriterInv
  <2> QED
    BY <2>1, <2>2
<1>9. HeadersInv'
  <2>1. WireHeaders' = WireHeaders /\ LastHeader' = LastHeader
    BY <1>1 DEF WireHeaders, LastHeader
  <2> QED
    BY <1>1, <1>2, <2>1 DEF StreamInv, HeadersInv
<1> QED
  BY <1>2, <1>6, <1>7, <1>8, <1>9 DEF StreamInv

------------------------------------------------------------------------------
(* The writer.                                                              *)

\* What the writer does to its queue leaves the reader's side as it is.
LEMMA WriterSteps ==
  ASSUME StreamInv, QInv', UNCHANGED <<sent, wire, reader>>, \A t \in Sides : open'[t] => open[t],
         WriterInv', HeadersInv'
  PROVE  StreamInv'
<1>1. ReaderInv'
  <2>1. "r" \in Sides
    BY DEF Sides
  <2> QED
    BY <2>1, ReaderLeft DEF StreamInv, reader
<1>2. OnWire'
  BY WireLeft DEF StreamInv, reader
<1> QED
  BY <1>1, <1>2 DEF StreamInv

\* The header of message n, at its place.
LEMMA HeaderPlaced ==
  ASSUME SocketMayBlock = FALSE, NEW n
  PROVE  HeaderUnits(n) = {UnitAt(sent, <<n, 0>>)}
BY DEF HeaderUnits, HeaderOf, UnitAt, SizeOf, Size

\* The write of the next message starts where the stream ends.
LEMMA StartedStream ==
  ASSUME SocketMayBlock = FALSE, UNCHANGED <<sent, wire, reader>>,
         NEW n, n = Done' + 1, out' # <<>>, Tip = <<n, 0>>, LastHeader = Done', Done' \in Nat, Started(n),
         \A i \in 1..Len(WireHeaders) : WireHeaders[i].id = buffer.id + i
  PROVE  WriterInv' /\ HeadersInv'
<1>1. Tip' = Tip /\ LastHeader' = LastHeader /\ WireHeaders' = WireHeaders /\ UNCHANGED <<sent, buffer>>
  BY WireLeft DEF reader
<1>2. CASE writes' = <<>>
  BY <1>1, <1>2 DEF WriterInv, HeadersInv
<1>3. CASE writes' # <<>>
  <2>1. writes' = <<[kind |-> "header", id |-> n, units |-> <<UnitAt(sent, <<n, 0>>)>>]>>
    BY <1>3, HeaderPlaced DEF Started
  <2>2. PICK v : v = [kind |-> "header", id |-> n, units |-> <<UnitAt(sent, <<n, 0>>)>>]
    OBVIOUS
  <2>3. writes'[1] = v /\ v.kind = "header" /\ v.units = <<UnitAt(sent, <<n, 0>>)>> /\ v.units # <<>>
    BY <2>1, <2>2
  <2>4. Left(sent, v, n, Tip)
    BY <2>3 DEF Left
  <2>5. WriterInv'
    BY <1>1, <1>3, <2>3, <2>4 DEF WriterInv
  <2>6. HeadersInv'
    BY <1>1, <1>3, <2>3 DEF HeadersInv
  <2> QED
    BY <2>5, <2>6
<1> QED
  BY <1>2, <1>3

LEMMA EnqueueStream == ASSUME SocketMayBlock = FALSE, StreamInv, Enqueue PROVE StreamInv'
<1>1. /\ out' = Append(out, Head(posted)) /\ Done' = Done
      /\ \/ out # <<>> /\ UNCHANGED writes
         \/ out = <<>> /\ writes = <<>> /\ Started(Done + 1)
      /\ UNCHANGED <<sent, wire, reader, sockets>>
  BY EnqueueMoves DEF StreamInv
<1>2. QInv' /\ Done \in Nat /\ out \in Seq(Nat)
  BY EnqueueQInv DEF StreamInv, QInv, Numbered, ConnectionTypes
<1>3. out' # <<>>
  <2>1. PICK n, queue : n = Head(posted) /\ queue = Append(out, n)
    OBVIOUS
  <2>2. Len(queue) = Len(out) + 1 /\ Len(out) \in Nat /\ Len(<<>>) = 0
    BY <1>2, <2>1
  <2>3. queue # <<>>
    BY ONLY <2>2
  <2> QED
    BY <1>1, <2>1, <2>3
<1>4. WriterInv' /\ HeadersInv'
  <2>1. CASE out # <<>> /\ UNCHANGED writes
    <3>1. Tip' = Tip /\ LastHeader' = LastHeader /\ WireHeaders' = WireHeaders /\ UNCHANGED <<sent, buffer>>
      BY <1>1, WireLeft DEF reader
    <3>2. WriterInv'
      BY <1>1, <1>3, <2>1, <3>1 DEF StreamInv, WriterInv
    <3>3. HeadersInv'
      BY <1>1, <1>3, <2>1, <3>1 DEF StreamInv, HeadersInv
    <3> QED
      BY <3>2, <3>3
  <2>2. CASE out = <<>> /\ writes = <<>> /\ Started(Done + 1)
    <3>1. Tip = <<Done + 1, 0>> /\ LastHeader = Done
      BY <2>2 DEF StreamInv, WriterInv, HeadersInv
    <3>2. PICK n : n = Done + 1
      OBVIOUS
    <3>3. /\ n = Done' + 1 /\ Tip = <<n, 0>> /\ LastHeader = Done' /\ Done' \in Nat /\ Started(n)
          /\ UNCHANGED <<sent, wire, reader>>
      BY <1>1, <1>2, <2>2, <3>1, <3>2
    <3>4. \A i \in 1..Len(WireHeaders) : WireHeaders[i].id = buffer.id + i
      BY DEF StreamInv, HeadersInv
    <3> QED
      BY ONLY SocketMayBlock = FALSE, <1>3, <3>3, <3>4, StartedStream
  <2> QED
    BY <1>1, <2>1, <2>2
<1> QED
  BY <1>1, <1>2, <1>4, WriterSteps DEF sockets

LEMMA WriteFailedStream ==
  ASSUME StreamInv, NEW i \in DOMAIN writes, WriteFailed(i) PROVE StreamInv'
<1>1. QInv' /\ writes' = <<>> /\ out # <<>>
  BY WriteFailedQInv DEF StreamInv
<1>2. UNCHANGED <<sent, posted, out, wire, reader>> /\ open' = [open EXCEPT !["w"] = FALSE]
  BY DEF WriteFailed
<1>3. \A t \in Sides : open'[t] => open[t]
  <2>1. "w" \in Sides
    BY DEF Sides
  <2> QED
    BY <1>2, <2>1, OpenStays DEF StreamInv, QInv
<1>4. Done' = Done /\ LastHeader' = LastHeader /\ WireHeaders' = WireHeaders
  BY <1>2, WireLeft DEF Done, reader
<1>5. WriterInv' /\ HeadersInv'
  BY <1>1, <1>2, <1>4 DEF StreamInv, HeadersInv, WriterInv, reader
<1> QED
  BY <1>1, <1>2, <1>3, <1>5, WriterSteps

\* What a write that has transmitted everything leaves.
LEMMA LeftDone ==
  ASSUME NEW s \in Seq(Templates), NEW n \in 1..Len(s), NEW w \in Write, NEW p, Left(s, w, n, p), w.units = <<>>
  PROVE  /\ w.kind = "header" => p = After(s, <<n, 0>>)
         /\ w.kind = "body" => p = <<n + 1, 0>>
<1>1. Size(s, n) \in Nat
  BY Sizes
<1>2. CASE w.kind = "header"
  BY <1>2 DEF Left
<1>3. CASE w.kind = "body"
  <2>1. PICK k \in 0..Size(s, n) : Len(w.units) = Size(s, n) - k /\ p = After(s, <<n, k>>)
    BY <1>3 DEF Left
  <2>2. k = Size(s, n)
    <3>1. Len(w.units) = 0
      OBVIOUS
    <3> QED
      BY <1>1, <2>1, <3>1
  <2> QED
    BY <1>3, <2>1, <2>2 DEF After
<1> QED
  BY <1>2, <1>3

LEMMA WrittenStream ==
  ASSUME SocketMayBlock = FALSE, StreamInv, NEW i \in DOMAIN writes, HeaderWritten(i) \/ BodyWritten(i)
  PROVE  StreamInv'
<1>1. /\ writes = <<writes[1]>> /\ writes[1] \in Write /\ writes[1].units = <<>> /\ out # <<>>
      /\ \/ /\ writes[1].kind = "header" /\ UNCHANGED out
            /\ writes' = <<[kind |-> "body", id |-> Done + 1, units |-> BodyOf(Done + 1)]>>
         \/ /\ Finished /\ (writes[1].kind = "header" => ~HasBody(Done + 1))
      /\ UNCHANGED <<sent, posted, wire, reader, sockets>>
  BY WrittenMoves DEF StreamInv
<1>2. QInv'
  BY WrittenQInv DEF StreamInv
<1>3. PICK n \in 1..Len(sent) : n = Done + 1
  BY <1>1, FrontOfQueue DEF StreamInv
<1>4. sent \in Seq(Templates) /\ Size(sent, n) \in Nat /\ Done \in Nat
  BY Sizes DEF StreamInv, QInv, ConnectionTypes, Numbered
<1>5. /\ writes[1].kind = "header" => Tip = After(sent, <<n, 0>>)
      /\ writes[1].kind = "body" => Tip = <<n + 1, 0>>
  <2>1. PICK v, p : v = writes[1] /\ p = Tip
    OBVIOUS
  <2>2. writes # <<>>
    BY <1>1
  <2>3. Left(sent, v, n, p)
    BY <1>3, <2>1, <2>2 DEF StreamInv, WriterInv
  <2>4. v \in Write /\ v.units = <<>>
    BY <1>1, <2>1
  <2> QED
    BY ONLY <1>3, <1>4, <2>1, <2>3, <2>4, LeftDone
<1>6. LastHeader = n
  <2>1. writes # <<>>
    BY <1>1
  <2>2. LastHeader # Done /\ LastHeader \in {Done, Done + 1}
    BY <1>1, <2>1 DEF StreamInv, HeadersInv
  <2> QED
    BY <1>3, <2>2
<1>7. \A j \in 1..Len(WireHeaders) : WireHeaders[j].id = buffer.id + j
  BY DEF StreamInv, HeadersInv
<1>8. Tip' = Tip /\ LastHeader' = LastHeader /\ WireHeaders' = WireHeaders /\ UNCHANGED <<sent, buffer>>
  BY <1>1, WireLeft DEF reader
<1>9. CASE /\ writes[1].kind = "header" /\ UNCHANGED out
           /\ writes' = <<[kind |-> "body", id |-> Done + 1, units |-> BodyOf(Done + 1)]>>
  <2>1. Done' = Done
    BY <1>1, <1>9 DEF Done
  <2>2. PICK v : v = [kind |-> "body", id |-> n, units |-> BodyOf(n)]
    OBVIOUS
  <2>3. writes' = <<v>> /\ v.kind = "body" /\ v.units = BodyOf(n)
    BY <1>3, <1>9, <2>2
  <2>4. BodyOf(n) = [u \in 1..Size(sent, n) |-> [k |-> "B", id |-> n, unit |-> u]]
    BY DEF BodyOf, SizeOf, Size
  <2>5. Len(v.units) = Size(sent, n) - 0
    BY <1>4, <2>3, <2>4
  <2>6. \A j \in 1..Len(v.units) : v.units[j] = UnitAt(sent, <<n, 0 + j>>)
    BY <1>4, <2>3, <2>4, <2>5 DEF UnitAt
  <2>7. Left(sent, v, n, Tip)
    <3>1. 0 \in 0..Size(sent, n)
      BY <1>4
    <3> QED
      BY <1>5, <1>9, <2>3, <2>5, <2>6, <3>1 DEF Left
  <2>8. WriterInv'
    <3>1. writes' # <<>> /\ writes'[1] = v
      BY <2>3
    <3> QED
      BY <1>3, <1>8, <2>1, <2>7, <3>1 DEF WriterInv
  <2>9. HeadersInv'
    <3>1. writes' # <<>> /\ writes'[1] = v /\ out' # <<>>
      BY <1>1, <1>9, <2>3
    <3>2. LastHeader # Done
      BY <1>3, <1>4, <1>6
    <3> QED
      BY <1>3, <1>6, <1>7, <1>8, <2>1, <2>3, <3>1, <3>2 DEF HeadersInv
  <2> QED
    BY <1>1, <1>2, <2>8, <2>9, WriterSteps DEF sockets
<1>10. CASE Finished /\ (writes[1].kind = "header" => ~HasBody(Done + 1))
  <2>1. Done' = n
    BY <1>1, <1>3, <1>10, FinishedKeeps DEF StreamInv
  <2>2. Tip = <<n + 1, 0>>
    <3>1. CASE writes[1].kind = "header"
      <4>1. sent[n].body = "none"
        BY <1>3, <1>10, <3>1 DEF HasBody
      <4>2. Size(sent, n) = 0
        BY <4>1 DEF Size, SerializedUnits
      <4> QED
        BY <1>5, <3>1, <4>2 DEF After
    <3>2. CASE writes[1].kind = "body"
      BY <1>5, <3>2
    <3> QED
      BY <1>1, <3>1, <3>2 DEF Write
  <2>3. WriterInv' /\ HeadersInv'
    <3>1. CASE out' = <<>>
      <4>1. writes' = <<>>
        BY <1>10, <3>1 DEF Finished
      <4> QED
        BY <1>6, <1>7, <1>8, <2>1, <2>2, <3>1, <4>1 DEF WriterInv, HeadersInv
    <3>2. CASE out' # <<>>
      <4>1. Started(Head(out'))
        BY <1>10, <3>2 DEF Finished
      <4>2. PICK m : m = n + 1
        OBVIOUS
      <4>3. Head(out') = m
        <5>1. out' \in Seq(Nat) /\ (\A j \in 1..Len(out') : out'[j] = n + j)
          BY <1>2, <2>1 DEF QInv, ConnectionTypes, Numbered
        <5>2. PICK queue : queue = out'
          OBVIOUS
        <5> QED
          BY <3>2, <4>2, <5>1, <5>2
      <4>4. /\ m = Done' + 1 /\ Tip = <<m, 0>> /\ LastHeader = Done' /\ Done' \in Nat /\ Started(m)
            /\ UNCHANGED <<sent, wire, reader>>
        BY <1>1, <1>3, <1>6, <2>1, <2>2, <4>1, <4>2, <4>3
      <4> QED
        BY ONLY SocketMayBlock = FALSE, <1>7, <3>2, <4>4, StartedStream
    <3> QED
      BY <3>1, <3>2
  <2> QED
    BY <1>1, <1>2, <2>3, WriterSteps DEF sockets
<1> QED
  BY <1>1, <1>9, <1>10

\* The unit that is transmitted is the one of the place where the stream ends.
LEMMA LeftNext ==
  ASSUME NEW s \in Seq(Templates), NEW n \in 1..Len(s), NEW w \in Write, NEW p, Left(s, w, n, p), w.units # <<>>
  PROVE  Head(w.units) = UnitAt(s, p)
<1>1. Size(s, n) \in Nat /\ w.units \in Seq(Unit)
  BY Sizes DEF Write
<1>2. CASE w.kind = "header"
  <2>1. PICK u : u = UnitAt(s, <<n, 0>>) /\ w.units = <<u>> /\ p = <<n, 0>>
    BY <1>2 DEF Left
  <2> QED
    BY <2>1
<1>3. CASE w.kind = "body"
  <2>1. PICK k \in 0..Size(s, n) :
          /\ Len(w.units) = Size(s, n) - k
          /\ \A j \in 1..Len(w.units) : w.units[j] = UnitAt(s, <<n, k + j>>)
          /\ p = After(s, <<n, k>>)
    BY <1>3 DEF Left
  <2>2. Len(w.units) \in Nat \ {0} /\ Head(w.units) = w.units[1]
    BY <1>1
  <2>3. k < Size(s, n)
    BY <1>1, <2>1, <2>2
  <2>4. p = <<n, k + 1>>
    BY <2>1, <2>3 DEF After
  <2> QED
    BY <2>1, <2>2, <2>4
<1> QED
  BY <1>2, <1>3 DEF Write

\* What is left of the write after it.
LEMMA LeftMoves ==
  ASSUME NEW s \in Seq(Templates), NEW n \in 1..Len(s), NEW w \in Write, NEW p, Left(s, w, n, p), w.units # <<>>
  PROVE  /\ p \in Places(s)
         /\ Left(s, [kind |-> w.kind, id |-> w.id, units |-> Tail(w.units)], n, After(s, p))
         /\ p[2] = 0 <=> w.kind = "header"
<1>1. Size(s, n) \in Nat /\ w.units \in Seq(Unit)
  BY Sizes DEF Write
<1>2. PICK v : v = [kind |-> w.kind, id |-> w.id, units |-> Tail(w.units)]
  OBVIOUS
<1>3. v.kind = w.kind /\ v.units = Tail(w.units)
  BY <1>2
<1>4. CASE w.kind = "header"
  <2>1. w.units = <<UnitAt(s, <<n, 0>>)>> /\ p = <<n, 0>>
    BY <1>4 DEF Left
  <2>2. p \in Places(s)
    BY <1>1, <2>1 DEF Places
  <2>3. PICK u : u = UnitAt(s, <<n, 0>>)
    OBVIOUS
  <2>4. Tail(<<u>>) = <<>>
    OBVIOUS
  <2>5. Left(s, v, n, After(s, p))
    BY <1>3, <1>4, <2>1, <2>3, <2>4 DEF Left
  <2> QED
    BY <1>2, <1>4, <2>1, <2>2, <2>3, <2>4, <2>5
<1>5. CASE w.kind = "body"
  <2>1. PICK k \in 0..Size(s, n) :
          /\ Len(w.units) = Size(s, n) - k
          /\ \A j \in 1..Len(w.units) : w.units[j] = UnitAt(s, <<n, k + j>>)
          /\ p = After(s, <<n, k>>)
    BY <1>5 DEF Left
  <2>2. PICK units, rest : units = w.units /\ rest = Tail(units)
    OBVIOUS
  <2>3. /\ rest \in Seq(Unit) /\ Len(rest) \in Nat /\ Len(units) = Len(rest) + 1 /\ Head(units) = units[1]
        /\ \A j \in 1..Len(rest) : rest[j] = units[j + 1]
    BY <1>1, <2>2
  <2>4. k < Size(s, n) /\ k + 1 \in 0..Size(s, n) /\ k + 1 # 0 /\ Len(rest) = Size(s, n) - (k + 1)
    BY <1>1, <2>1, <2>2, <2>3
  <2>5. p = <<n, k + 1>>
    BY <2>1, <2>4 DEF After
  <2>6. p \in Places(s)
    BY <2>4, <2>5 DEF Places
  <2>8. \A j \in 1..Len(rest) : rest[j] = UnitAt(s, <<n, (k + 1) + j>>)
    <3>1. \A j \in 1..Len(rest) : j + 1 \in 1..Len(units) /\ k + (j + 1) = (k + 1) + j
      BY <2>3
    <3> QED
      BY <2>1, <2>2, <2>3, <3>1
  <2>9. Left(s, v, n, After(s, p))
    BY <1>3, <1>5, <2>2, <2>4, <2>5, <2>8 DEF Left
  <2> QED
    BY <1>2, <1>5, <2>2, <2>4, <2>5, <2>6, <2>9
<1> QED
  BY <1>4, <1>5 DEF Write

LEMMA TransmitStream ==
  ASSUME StreamInv, NEW i \in DOMAIN writes, Transmit(i) PROVE StreamInv'
<1>1. PICK v, left : /\ v = writes[1] /\ writes # <<>> /\ v \in Write /\ v.units # <<>>
                     /\ left = [kind |-> v.kind, id |-> v.id, units |-> Tail(v.units)]
                     /\ wire' = Append(wire, Head(v.units)) /\ writes' = <<left>>
                     /\ UNCHANGED <<sent, posted, out, reader, sockets>>
  BY TransmitMoves DEF StreamInv
<1>2. QInv' /\ Done' = Done /\ Done \in Nat
  BY TransmitQInv DEF StreamInv, QInv, Numbered
<1>3. PICK n \in 1..Len(sent) : n = Done + 1 /\ out # <<>>
  BY <1>1, FrontOfQueue DEF StreamInv, QInv, OneWrite
<1>4. PICK s, w, p, q : s = sent /\ w = wire /\ p = NextRead /\ q = Tip
  OBVIOUS
<1>5. s \in Seq(Templates) /\ w \in Seq(Unit) /\ n \in 1..Len(s) /\ Stream(s, w, p) /\ q = End(s, w, p)
  BY <1>4 DEF StreamInv, QInv, ConnectionTypes, OnWire, Tip
<1>6. Left(s, v, n, q)
  BY <1>1, <1>3, <1>4 DEF StreamInv, WriterInv
<1>7. /\ q \in Places(s) /\ Head(v.units) = UnitAt(s, q)
      /\ Left(s, left, n, After(s, q))
      /\ q[2] = 0 <=> v.kind = "header"
      /\ v.kind = "header" => q = <<n, 0>> /\ Tail(v.units) = <<>>
  <2>1. v \in Write /\ v.units # <<>>
    BY <1>1
  <2>2. q \in Places(s)
    BY ONLY <2>1, <1>5, <1>6, LeftMoves
  <2>6. Head(v.units) = UnitAt(s, q)
    BY ONLY <2>1, <1>5, <1>6, LeftNext
  <2>4. q[2] = 0 <=> v.kind = "header"
    BY ONLY <2>1, <1>5, <1>6, LeftMoves
  <2>5. ASSUME v.kind = "header" PROVE q = <<n, 0>> /\ Tail(v.units) = <<>>
    <3>1. PICK u : u = UnitAt(s, <<n, 0>>) /\ v.units = <<u>> /\ q = <<n, 0>>
      BY <1>6, <2>1, <2>5 DEF Left
    <3> QED
      BY <3>1
  <2>3. Left(s, [kind |-> v.kind, id |-> v.id, units |-> Tail(v.units)], n, After(s, q))
    BY ONLY <2>1, <1>5, <1>6, LeftMoves
  <2> QED
    BY <1>1, <2>2, <2>3, <2>4, <2>5, <2>6
<1>8. PICK u, more : u = UnitAt(s, q) /\ more = Append(w, u)
  OBVIOUS
<1>9. Stream(s, more, p) /\ End(s, more, p) = After(s, q)
  BY ONLY <1>5, <1>7, <1>8, StreamAppend
<1>10. wire' = more
  BY <1>1, <1>4, <1>7, <1>8
<1>11. NextRead' = NextRead /\ OnWire' /\ Tip' = After(s, q)
  <2>1. NextRead' = NextRead
    BY <1>1 DEF NextRead, MidBody, reader
  <2> QED
    BY <1>1, <1>4, <1>9, <1>10, <2>1 DEF OnWire, Tip
<1>12. ReaderInv'
  BY <1>1 DEF StreamInv, ReaderInv, MidBody, reader, sockets
<1>13. WriterInv'
  <2>1. writes' # <<>> /\ writes'[1] = left
    BY <1>1
  <2> QED
    BY <1>1, <1>2, <1>3, <1>4, <1>7, <1>11, <2>1 DEF WriterInv
<1>14. HeadersInv'
  <2>1. PICK heads : heads = WireHeaders
    OBVIOUS
  <2>2. heads = Only(w, Header) /\ heads \in Seq(Header)
    BY <1>4, <1>5, <2>1, OnlyType DEF WireHeaders
  <2>3. writes' # <<>> /\ writes'[1] = left /\ left.kind = v.kind /\ left.units = Tail(v.units)
    BY <1>1
  <2>4. UNCHANGED <<out, buffer>>
    BY <1>1 DEF reader
  <2>5. /\ \A j \in 1..Len(heads) : heads[j].id = buffer.id + j
        /\ LastHeader = buffer.id + Len(heads) /\ LastHeader \in {Done, Done + 1}
        /\ LastHeader = Done <=> v.kind = "header"
        /\ buffer.id \in Nat
    BY <1>1, <2>1 DEF StreamInv, HeadersInv, LastHeader, QInv, ConnectionTypes
  <2>6. WireHeaders' = Only(more, Header) /\ u \in Unit /\ u.id = q[1]
    BY <1>5, <1>7, <1>8, <1>10, Units DEF WireHeaders
  <2>7. CASE v.kind = "header"
    <3>1. u \in Header /\ u.id = n
      BY <1>5, <1>7, <1>8, <2>6, <2>7, Units
    <3>2. WireHeaders' = Append(heads, u)
      <4>1. Only(more, Header) = Append(Only(w, Header), u)
        BY ONLY <1>5, <1>8, <2>6, <3>1, OnlyAppend
      <4> QED
        BY <2>2, <2>6, <4>1
    <3>3. PICK longer : longer = Append(heads, u)
      OBVIOUS
    <3>4. /\ Len(longer) = Len(heads) + 1 /\ Len(heads) \in Nat /\ longer[Len(heads) + 1] = u
          /\ \A j \in 1..Len(heads) : longer[j] = heads[j]
      BY <2>2, <3>1, <3>3
    <3>9. PICK b \in Nat : b = buffer.id
      BY <2>5
    <3>5. LastHeader = b + Len(heads) /\ b + Len(heads) + 1 = n
      BY <1>3, <2>5, <2>7, <3>9
    <3>6. \A j \in 1..Len(longer) : longer[j].id = buffer.id + j
      <4>1. ASSUME NEW j \in 1..Len(longer) PROVE longer[j].id = buffer.id + j
        <5>1. CASE j \in 1..Len(heads)
          BY <2>5, <3>4, <5>1
        <5>2. CASE j = Len(heads) + 1
          BY ONLY <3>1, <3>4, <3>5, <3>9, <5>2
        <5> QED
          BY <3>4, <5>1, <5>2
      <4> QED
        BY <4>1
    <3>7. LastHeader' = n
      <4>1. LastHeader' = b + Len(longer)
        BY <2>4, <3>2, <3>3, <3>9 DEF LastHeader
      <4> QED
        BY ONLY <3>4, <3>5, <3>9, <4>1
    <3>8. n # Done
      BY <1>2, <1>3
    <3> QED
      BY <1>2, <1>3, <1>7, <2>3, <2>4, <2>7, <3>2, <3>3, <3>6, <3>7, <3>8 DEF HeadersInv
  <2>8. CASE v.kind # "header"
    <3>1. u \notin Header
      BY <1>5, <1>7, <1>8, <2>8, Units
    <3>2. WireHeaders' = heads
      <4>1. Only(more, Header) = Only(w, Header)
        BY ONLY <1>5, <1>8, <2>6, <3>1, OnlyAppend
      <4> QED
        BY <2>2, <2>6, <4>1
    <3>3. LastHeader' = LastHeader
      BY <2>4, <2>5, <3>2 DEF LastHeader
    <3> QED
      BY <1>2, <1>3, <2>3, <2>4, <2>5, <2>8, <3>2, <3>3 DEF HeadersInv
  <2> QED
    BY <2>7, <2>8
<1> QED
  BY <1>2, <1>11, <1>12, <1>13, <1>14 DEF StreamInv

------------------------------------------------------------------------------
(* The reader.                                                              *)

\* A message that is handed on is the next one.
LEMMA HandedNext ==
  ASSUME ConnectionTypes, NEW r \in [id : Nat, type : MessageType, size : Nat, body : StoredBody],
         incoming' = Append(incoming, Handed(r)), r.id = Len(incoming) + 1
  PROVE  /\ Len(incoming') = Len(incoming) + 1 /\ incoming'[r.id] = Handed(r)
         /\ Handed(r).id = r.id /\ Handed(r).body = r.body
         /\ \A i \in 1..Len(incoming) : incoming'[i] = incoming[i]
         /\ \A i \in 1..Len(incoming') : i \in 1..Len(incoming) \/ i = r.id
<1>1. incoming \in Seq([id : Nat, type : MessageType, body : StoredBody, remote : BOOLEAN])
  BY DEF ConnectionTypes
<1>2. PICK more, m : more = incoming' /\ m = Handed(r) /\ m.id = r.id /\ m.body = r.body
  BY DEF Handed
<1>3. more = Append(incoming, m)
  BY <1>2
<1>4. /\ Len(more) = Len(incoming) + 1 /\ more[Len(incoming) + 1] = m
      /\ \A i \in 1..Len(incoming) : more[i] = incoming[i]
      /\ \A i \in 1..Len(more) : i \in 1..Len(incoming) \/ i = Len(incoming) + 1
  BY ONLY <1>1, <1>3
<1> QED
  BY <1>2, <1>4

\* The header that is read is that of the message after the one in the buffer.
LEMMA HeaderReadNext ==
  ASSUME StreamInv, HeaderRead
  PROVE  /\ ~MidBody /\ buffer.id = Len(incoming) /\ wire # <<>> /\ wire' = Tail(wire)
         /\ buffer.id \in Nat /\ buffer.id + 1 \in 1..Len(sent)
         /\ \E h \in Header :
              /\ h = UnitAt(sent, <<buffer.id + 1, 0>>) /\ h = Head(wire)
              /\ h.id = buffer.id + 1 /\ h.type = sent[h.id].type /\ h.size = Size(sent, h.id) /\ h.size \in Nat
              /\ buffer' = [id |-> h.id, type |-> h.type, size |-> h.size, body |-> buffer.body]
              /\ \/ h.size > 0 /\ reading' = "body" /\ UNCHANGED incoming
                 \/ h.size = 0 /\ reading' = "header" /\ incoming' = Append(incoming, Handed(buffer'))
         /\ UNCHANGED <<sent, writer, sockets>>
<1>1. ConnectionTypes
  BY DEF StreamInv, QInv
<1>2. PICK h \in Header :
        /\ h \in Headers(Head(wire))
        /\ buffer' = [id |-> h.id, type |-> h.type, size |-> h.size, body |-> buffer.body]
        /\ \/ h.size > 0 /\ reading' = "body" /\ UNCHANGED incoming
           \/ h.size = 0 /\ reading' = "header" /\ incoming' = Append(incoming, Handed(buffer'))
  BY <1>1, HeaderReadMoves
<1>3. reading = "header" /\ wire # <<>> /\ wire' = Tail(wire) /\ UNCHANGED <<sent, writer, sockets>>
  BY <1>1, HeaderReadMoves
<1>4. ~MidBody /\ buffer.id = Len(incoming) /\ buffer.id \in Nat
  <2>1. ~MidBody /\ buffer.id \in {Len(incoming), Len(incoming) + 1} /\ Len(incoming) \in Nat
    BY <1>1, <1>3 DEF StreamInv, ReaderInv, ConnectionTypes
  <2> QED
    BY <2>1 DEF MidBody
<1>5. PICK s, w, p : s = sent /\ w = wire /\ p = <<buffer.id + 1, 0>>
  OBVIOUS
<1>6. s \in Seq(Templates) /\ w \in Seq(Unit) /\ Stream(s, w, p) /\ w # <<>>
  BY <1>1, <1>3, <1>4, <1>5 DEF StreamInv, OnWire, NextRead, ConnectionTypes
<1>7. Head(w) = UnitAt(s, p) /\ p \in Places(s)
  BY ONLY <1>6, StreamTail
<1>8. buffer.id + 1 \in 1..Len(sent)
  BY <1>4, <1>5, <1>7 DEF Places
<1>9. UnitAt(s, p) = [k |-> "H", id |-> buffer.id + 1, type |-> s[buffer.id + 1].type, size |-> Size(s, buffer.id + 1)]
  BY <1>5 DEF UnitAt
<1>10. h = UnitAt(s, p)
  BY <1>2, <1>5, <1>7, <1>9 DEF Headers
<1>11. Size(s, buffer.id + 1) \in Nat
  BY <1>5, <1>6, <1>8, Sizes
<1>12. h.id = buffer.id + 1 /\ h.type = sent[h.id].type /\ h.size = Size(sent, h.id) /\ h.size \in Nat
  BY <1>5, <1>9, <1>10, <1>11
<1> QED
  BY <1>2, <1>3, <1>4, <1>5, <1>7, <1>8, <1>10, <1>12

LEMMA HeaderReadStream == ASSUME StreamInv, HeaderRead PROVE StreamInv'
<1>1. PICK b \in Nat : b = buffer.id
  BY HeaderReadNext
<1>2. /\ ~MidBody /\ b = Len(incoming) /\ wire # <<>> /\ wire' = Tail(wire) /\ b + 1 \in 1..Len(sent)
      /\ UNCHANGED <<sent, writer, sockets>>
  BY <1>1, HeaderReadNext
<1>3. PICK h \in Header :
        /\ h = UnitAt(sent, <<b + 1, 0>>) /\ h = Head(wire)
        /\ h.id = b + 1 /\ h.type = sent[h.id].type /\ h.size = Size(sent, h.id) /\ h.size \in Nat
        /\ buffer' = [id |-> h.id, type |-> h.type, size |-> h.size, body |-> buffer.body]
        /\ \/ h.size > 0 /\ reading' = "body" /\ UNCHANGED incoming
           \/ h.size = 0 /\ reading' = "header" /\ incoming' = Append(incoming, Handed(buffer'))
  BY <1>1, HeaderReadNext
<1>4. QInv' /\ ConnectionTypes /\ Done' = Done
  BY <1>2, HeaderReadQInv DEF StreamInv, QInv, Done, writer
<1>5. buffer'.id = b + 1 /\ buffer'.type = h.type /\ buffer'.size = h.size
  BY <1>3
<1>6. PICK s, w, p : s = sent /\ w = wire /\ p = <<b + 1, 0>>
  OBVIOUS
<1>7. /\ s \in Seq(Templates) /\ w \in Seq(Unit) /\ Stream(s, w, p) /\ w # <<>>
      /\ Tip = End(s, w, p)
  BY <1>1, <1>2, <1>4, <1>6 DEF StreamInv, OnWire, NextRead, ConnectionTypes, Tip
<1>8. Stream(s, Tail(w), After(s, p)) /\ End(s, Tail(w), After(s, p)) = End(s, w, p)
  BY ONLY <1>7, StreamTail
<1>9. /\ NextRead' = After(s, p) /\ (MidBody' <=> h.size > 0)
      /\ (h.size > 0 => reading' = "body" /\ UNCHANGED incoming)
      /\ (h.size = 0 => reading' = "header" /\ Len(incoming') = b + 1 /\ \A i \in 1..Len(incoming') : incoming'[i].id = i)
  <2>1. CASE h.size > 0
    <3>1. reading' = "body" /\ UNCHANGED incoming
      BY <1>3, <2>1
    <3>2. MidBody' /\ NextRead' = <<b + 1, 1>>
      BY <1>1, <1>2, <1>5, <3>1 DEF MidBody, NextRead
    <3>3. After(s, p) = <<b + 1, 1>>
      BY <1>3, <1>6, <2>1 DEF After
    <3> QED
      BY <2>1, <3>1, <3>2, <3>3
  <2>2. CASE h.size = 0
    <3>1. reading' = "header" /\ incoming' = Append(incoming, Handed(buffer'))
      BY <1>3, <2>2
    <3>2. PICK r : r = buffer'
      OBVIOUS
    <3>3. r \in [id : Nat, type : MessageType, size : Nat, body : StoredBody] /\ r.id = Len(incoming) + 1
      BY <1>2, <1>4, <1>5, <3>2 DEF QInv, ConnectionTypes
    <3>4. incoming' = Append(incoming, Handed(r))
      BY <3>1, <3>2
    <3>5. /\ Len(incoming') = Len(incoming) + 1 /\ incoming'[r.id] = Handed(r) /\ Handed(r).id = r.id
          /\ \A i \in 1..Len(incoming) : incoming'[i] = incoming[i]
          /\ \A i \in 1..Len(incoming') : i \in 1..Len(incoming) \/ i = r.id
      BY ONLY <1>4, <3>3, <3>4, HandedNext
    <3>6. \A i \in 1..Len(incoming') : incoming'[i].id = i
      BY <3>5 DEF StreamInv, ReaderInv
    <3>7. ~MidBody' /\ NextRead' = <<b + 2, 0>>
      BY <1>1, <1>2, <1>5, <3>5 DEF MidBody, NextRead
    <3>8. After(s, p) = <<b + 2, 0>>
      BY <1>3, <1>6, <2>2 DEF After
    <3> QED
      BY <1>2, <2>2, <3>1, <3>5, <3>6, <3>7, <3>8
  <2> QED
    BY <1>3, <2>1, <2>2
<1>10. OnWire' /\ Tip' = Tip
  BY <1>2, <1>6, <1>7, <1>8, <1>9 DEF OnWire, Tip
<1>11. ReaderInv'
  <2>1. b + 1 <= Len(sent) /\ Len(sent) \in Nat
    BY <1>2, <1>4 DEF ConnectionTypes
  <2>2. CASE h.size > 0
    <3>1. /\ reading' = "body" /\ UNCHANGED <<incoming, sent>> /\ MidBody'
      BY <1>2, <1>9, <2>2
    <3> QED
      BY <1>2, <1>3, <1>5, <2>1, <2>2, <3>1 DEF StreamInv, ReaderInv
  <2>3. CASE h.size = 0
    <3>1. /\ reading' = "header" /\ UNCHANGED sent /\ ~MidBody' /\ Len(incoming') = b + 1
          /\ \A i \in 1..Len(incoming') : incoming'[i].id = i
      BY <1>2, <1>9, <2>3
    <3> QED
      BY <1>5, <2>1, <3>1 DEF ReaderInv
  <2> QED
    BY <1>3, <2>2, <2>3
<1>12. WriterInv'
  BY <1>2, <1>4, <1>10 DEF StreamInv, WriterInv, writer
<1>13. HeadersInv'
  <2>1. PICK heads, rest : heads = Only(w, Header) /\ rest = Only(Tail(w), Header)
    OBVIOUS
  <2>2. heads = WireHeaders /\ rest = WireHeaders'
    BY <1>2, <1>6, <2>1 DEF WireHeaders
  <2>3. rest \in Seq(Header)
    <3>1. Tail(w) \in Seq(Unit)
      BY <1>7
    <3> QED
      BY <2>1, <3>1, OnlyType
  <2>4. heads = <<h>> \o rest
    <3>1. Head(w) = h
      BY <1>3, <1>6
    <3>2. Only(w, Header) = (IF Head(w) \in Header THEN <<Head(w)>> ELSE <<>>) \o Only(Tail(w), Header)
      BY ONLY <1>7, OnlyTail
    <3> QED
      BY <2>1, <3>1, <3>2
  <2>5. Len(heads) = Len(rest) + 1 /\ Len(rest) \in Nat /\ \A j \in 1..Len(rest) : rest[j] = heads[j + 1]
    BY ONLY <2>3, <2>4
  <2>6. \A j \in 1..Len(heads) : heads[j].id = b + j
    BY <1>1, <2>2 DEF StreamInv, HeadersInv
  <2>7. \A j \in 1..Len(rest) : rest[j].id = (b + 1) + j
    <3>1. \A j \in 1..Len(rest) : j + 1 \in 1..Len(heads) /\ b + (j + 1) = (b + 1) + j
      BY <2>5
    <3> QED
      BY <2>5, <2>6, <3>1
  <2>8. LastHeader' = LastHeader
    <3>1. LastHeader = b + Len(heads) /\ LastHeader' = (b + 1) + Len(rest)
      BY <1>1, <1>5, <2>2 DEF LastHeader
    <3> QED
      BY <2>5, <3>1
  <2> QED
    BY <1>2, <1>4, <1>5, <2>2, <2>7, <2>8 DEF StreamInv, HeadersInv, writer
<1> QED
  BY <1>4, <1>10, <1>11, <1>12, <1>13 DEF StreamInv

\* The bytes of a body are those of the message in the buffer, and decode to
\* no other.
LEMMA BodyReadNext ==
  ASSUME StreamInv, BodyRead
  PROVE  \E n \in 1..Len(sent), z \in Nat, b \in StoredBody :
           /\ n = buffer.id /\ n = Len(incoming) + 1 /\ MidBody /\ NextRead = <<n, 1>>
           /\ z = Size(sent, n) /\ z = buffer.size /\ z > 0 /\ z <= Len(wire)
           /\ \A u \in 1..z : wire[u] = UnitAt(sent, <<n, u>>)
           /\ Stream(sent, wire', <<n + 1, 0>>) /\ End(sent, wire', <<n + 1, 0>>) = Tip
           /\ wire' = SubSeq(wire, z + 1, Len(wire))
           /\ b = RestoredBody(SubSeq(wire, 1, z)) /\ buffer.type = sent[n].type
           /\ buffer' = [id |-> n, type |-> buffer.type, size |-> z, body |-> b]
           /\ reading' = "header" /\ incoming' = Append(incoming, Handed(buffer'))
           /\ UNCHANGED <<sent, writer, sockets>>
<1>1. ConnectionTypes /\ ReaderInv
  BY DEF StreamInv, QInv
<1>2. PICK b \in StoredBody :
        /\ b = RestoredBody(SubSeq(wire, 1, buffer.size))
        /\ buffer' = [id |-> buffer.id, type |-> buffer.type, size |-> buffer.size, body |-> b]
  BY <1>1, BodyReadMoves
<1>3. /\ reading = "body" /\ Len(wire) >= buffer.size /\ wire' = SubSeq(wire, buffer.size + 1, Len(wire))
      /\ reading' = "header" /\ incoming' = Append(incoming, Handed(buffer'))
      /\ UNCHANGED <<sent, writer, sockets>>
  BY <1>1, BodyReadMoves
<1>4. MidBody /\ buffer.size = Size(sent, buffer.id) /\ buffer.size > 0 /\ buffer.type = sent[buffer.id].type
  BY <1>1, <1>3 DEF ReaderInv
<1>5. PICK n, z : n = buffer.id /\ z = buffer.size
  OBVIOUS
<1>6. n \in 1..Len(sent) /\ n = Len(incoming) + 1 /\ z \in Nat
  <2>1. /\ n \in Nat /\ n \in {Len(incoming), Len(incoming) + 1} /\ n <= Len(sent) /\ Len(incoming) \in Nat
        /\ Len(sent) \in Nat /\ z \in Nat /\ n > Len(incoming)
    BY <1>1, <1>4, <1>5 DEF ReaderInv, ConnectionTypes, MidBody
  <2> QED
    BY ONLY <2>1
<1>7. NextRead = <<n, 1>>
  BY <1>4, <1>5 DEF NextRead
<1>8. PICK s, w : s = sent /\ w = wire
  OBVIOUS
<1>9. /\ s \in Seq(Templates) /\ w \in Seq(Unit) /\ n \in 1..Len(s) /\ Stream(s, w, <<n, 1>>)
      /\ z \in Nat /\ z = Size(s, n) /\ z > 0 /\ z <= Len(w)
  BY <1>1, <1>3, <1>4, <1>5, <1>6, <1>7, <1>8 DEF StreamInv, OnWire, ConnectionTypes
<1>10. Stream(s, SubSeq(w, z + 1, Len(w)), <<n + 1, 0>>)
  BY ONLY <1>9, StreamDrop
<1>11. End(s, SubSeq(w, z + 1, Len(w)), <<n + 1, 0>>) = End(s, w, <<n, 1>>)
  BY ONLY <1>9, StreamDrop
<1>12. \A u \in 1..z : w[u] = UnitAt(s, <<n, u>>)
  BY ONLY <1>9, StreamDrop
<1>13. wire' = SubSeq(w, z + 1, Len(w)) /\ Tip = End(s, w, <<n, 1>>)
  BY <1>3, <1>5, <1>7, <1>8 DEF Tip
<1>14. Stream(sent, wire', <<n + 1, 0>>) /\ End(sent, wire', <<n + 1, 0>>) = Tip
  BY <1>8, <1>10, <1>11, <1>13
<1>15. /\ z = Size(sent, n) /\ z = buffer.size /\ z > 0 /\ z <= Len(wire)
       /\ \A u \in 1..z : wire[u] = UnitAt(sent, <<n, u>>)
       /\ wire' = SubSeq(wire, z + 1, Len(wire))
  BY <1>5, <1>8, <1>9, <1>12, <1>13
<1>16. /\ b = RestoredBody(SubSeq(wire, 1, z)) /\ buffer.type = sent[n].type
       /\ buffer' = [id |-> n, type |-> buffer.type, size |-> z, body |-> b]
  BY <1>2, <1>4, <1>5
<1> QED
  BY <1>3, <1>4, <1>5, <1>6, <1>7, <1>14, <1>15, <1>16

LEMMA BodyReadStream == ASSUME StreamInv, BodyRead PROVE StreamInv'
<1>1. PICK n \in 1..Len(sent), z \in Nat, b \in StoredBody :
        /\ n = buffer.id /\ n = Len(incoming) + 1 /\ MidBody /\ NextRead = <<n, 1>>
        /\ z = Size(sent, n) /\ z = buffer.size /\ z > 0 /\ z <= Len(wire)
        /\ \A u \in 1..z : wire[u] = UnitAt(sent, <<n, u>>)
        /\ Stream(sent, wire', <<n + 1, 0>>) /\ End(sent, wire', <<n + 1, 0>>) = Tip
        /\ wire' = SubSeq(wire, z + 1, Len(wire))
        /\ b = RestoredBody(SubSeq(wire, 1, z)) /\ buffer.type = sent[n].type
        /\ buffer' = [id |-> n, type |-> buffer.type, size |-> z, body |-> b]
        /\ reading' = "header" /\ incoming' = Append(incoming, Handed(buffer'))
        /\ UNCHANGED <<sent, writer, sockets>>
  BY BodyReadNext
<1>2. QInv' /\ ConnectionTypes /\ Done' = Done /\ n \in Nat
  BY <1>1, BodyReadQInv DEF StreamInv, QInv, Done, writer
<1>3. buffer'.id = n
  BY <1>1
<1>4. /\ Len(incoming') = n /\ \A i \in 1..Len(incoming') : incoming'[i].id = i
  <2>1. PICK r : r = buffer'
    OBVIOUS
  <2>2. r \in [id : Nat, type : MessageType, size : Nat, body : StoredBody] /\ r.id = Len(incoming) + 1
    BY <1>1, <1>2, <2>1 DEF QInv, ConnectionTypes
  <2>3. incoming' = Append(incoming, Handed(r))
    BY <1>1, <2>1
  <2>4. /\ Len(incoming') = Len(incoming) + 1 /\ incoming'[r.id] = Handed(r) /\ Handed(r).id = r.id
        /\ \A i \in 1..Len(incoming) : incoming'[i] = incoming[i]
        /\ \A i \in 1..Len(incoming') : i \in 1..Len(incoming) \/ i = r.id
    BY ONLY <1>2, <2>2, <2>3, HandedNext
  <2> QED
    BY <1>1, <2>4 DEF StreamInv, ReaderInv
<1>5. ~MidBody' /\ NextRead' = <<n + 1, 0>>
  BY <1>2, <1>3, <1>4 DEF MidBody, NextRead
<1>6. OnWire' /\ Tip' = Tip
  BY <1>1, <1>5 DEF OnWire, Tip
<1>7. ReaderInv'
  <2>1. reading' = "header" /\ n <= Len(sent') /\ buffer'.id = Len(incoming')
    BY <1>1, <1>2, <1>3, <1>4 DEF ConnectionTypes
  <2> QED
    BY <1>4, <1>5, <2>1 DEF ReaderInv
<1>8. WriterInv'
  BY <1>1, <1>2, <1>6 DEF StreamInv, WriterInv, writer
<1>9. HeadersInv'
  <2>1. \A u \in 1..z : wire[u] \notin Header
    <3>1. ASSUME NEW u \in 1..z PROVE UnitAt(sent, <<n, u>>) \notin Header
      <4>1. UnitAt(sent, <<n, u>>) = [k |-> "B", id |-> n, unit |-> u]
        BY DEF UnitAt
      <4> QED
        BY <4>1 DEF Header
    <3> QED
      BY <1>1, <3>1
  <2>2. PICK w : w = wire /\ w \in Seq(Unit) /\ z <= Len(w)
    BY <1>1, <1>2 DEF ConnectionTypes
  <2>3. Only(SubSeq(w, z + 1, Len(w)), Header) = Only(w, Header)
    <3>1. \A u \in 1..z : w[u] \notin Header
      BY <2>1, <2>2
    <3> QED
      BY ONLY <2>2, <3>1, z \in Nat, OnlyDrop
  <2>4. WireHeaders' = WireHeaders
    BY <1>1, <2>2, <2>3 DEF WireHeaders
  <2>5. LastHeader' = LastHeader /\ buffer'.id = buffer.id
    BY <1>1, <1>3, <2>4 DEF LastHeader
  <2> QED
    BY <1>1, <1>2, <2>4, <2>5 DEF StreamInv, HeadersInv, writer
<1> QED
  BY <1>2, <1>6, <1>7, <1>8, <1>9 DEF StreamInv

LEMMA NextStream == ASSUME SocketMayBlock = FALSE, StreamInv, [Next]_vars PROVE StreamInv'
BY Steps, SendStream, EnqueueStream, TransmitStream, WrittenStream, WriteFailedStream, HeaderReadStream,
   BodyReadStream, IdleStream, StutterStream

LEMMA StreamAligned == ASSUME StreamInv PROVE FrameAligned
<1>1. ASSUME reading = "header", wire # <<>> PROVE wire[1].k = "H"
  <2>1. NextRead = <<buffer.id + 1, 0>>
    BY <1>1 DEF StreamInv, ReaderInv, NextRead
  <2>2. 1 \in 1..Len(wire)
    BY <1>1 DEF StreamInv, QInv, ConnectionTypes
  <2>3. wire[1] = UnitAt(sent, <<buffer.id + 1, 0>>)
    BY <1>1, <2>1, <2>2 DEF StreamInv, OnWire, Stream
  <2> QED
    BY <2>3 DEF UnitAt
<1>2. ASSUME reading = "body", NEW u \in 1..buffer.size, u <= Len(wire)
      PROVE  wire[u] = [k |-> "B", id |-> buffer.id, unit |-> u]
  <2>1. MidBody /\ buffer.size = Size(sent, buffer.id)
    BY <1>2 DEF StreamInv, ReaderInv
  <2>2. PICK s, w, n : s = sent /\ w = wire /\ n = buffer.id
    OBVIOUS
  <2>3. n \in 1..Len(s)
    <3>1. n \in Nat /\ n <= Len(s) /\ n > Len(incoming) /\ Len(incoming) \in Nat /\ Len(s) \in Nat
      BY <2>1, <2>2 DEF StreamInv, ReaderInv, MidBody, QInv, ConnectionTypes
    <3> QED
      BY ONLY <3>1
  <2>4. s \in Seq(Templates) /\ w \in Seq(Unit) /\ Stream(s, w, <<n, 1>>)
    BY <2>1, <2>2 DEF StreamInv, OnWire, NextRead, QInv, ConnectionTypes
  <2>5. \A v \in 1..Size(s, n) : v <= Len(w) => PlaceOf(w[v]) = <<n, v>>
    BY ONLY <2>3, <2>4, BodyAhead
  <2>6. u \in 1..Size(s, n) /\ u \in 1..Len(w)
    BY <1>2, <2>1, <2>2, <2>4
  <2>7. w[u] = UnitAt(s, <<n, u>>)
    BY <1>2, <2>2, <2>4, <2>5, <2>6 DEF Stream
  <2> QED
    BY <2>2, <2>6, <2>7 DEF UnitAt
<1> QED
  BY <1>1, <1>2 DEF FrameAligned

\* While no send buffer is full when a header is written, the reader is never
\* out of step with the stream, wherever reads, writes, closes and failures
\* fall: what a read of a header finds is a header, and what a read of a body
\* finds are the units of that body in their order (readHeader and readBody).
THEOREM FramesStayAligned == SocketMayBlock = FALSE => (Spec => []FrameAligned)
<1> SUFFICES ASSUME SocketMayBlock = FALSE PROVE Spec => []FrameAligned
  OBVIOUS
<1>1. Init => StreamInv
  BY InitStream
<1>2. StreamInv /\ [Next]_vars => StreamInv'
  BY NextStream
<1>3. StreamInv => FrameAligned
  BY StreamAligned
<1> QED
  BY <1>1, <1>2, <1>3, PTL DEF Spec

------------------------------------------------------------------------------
(* The bodies that are handed on.                                           *)

OwnOrOlder(i, body) == IF SizeOf(i) > 0 /\ Deserializes(sent[i].type, sent[i].body)
                       THEN body = [type |-> sent[i].body, id |-> i]
                       ELSE body.id < i
BodiesInv == /\ buffer.body.id <= Len(incoming)
             /\ \A i \in 1..Len(incoming) : OwnOrOlder(i, incoming[i].body)

\* The units of one body are the body of no other message.
LEMMA DecodedOnce ==
  ASSUME sent \in Seq(Templates), NEW n \in 1..Len(sent), NEW units \in Seq(Unit), NEW type,
         SizeOf(n) > 0, Len(units) = SizeOf(n), \A u \in 1..SizeOf(n) : units[u] = UnitAt(sent, <<n, u>>)
  PROVE  /\ Decoded(units, type) = IF Deserializes(type, sent[n].body) THEN {n} ELSE {}
<1>1. \A m \in 1..Len(sent) : SizeOf(m) \in Nat /\ BodyOf(m) = [u \in 1..SizeOf(m) |-> [k |-> "B", id |-> m, unit |-> u]]
  BY Sizes DEF Size, SizeOf, BodyOf
<1>2. units = BodyOf(n)
  <2>1. \A u \in 1..SizeOf(n) : units[u] = [k |-> "B", id |-> n, unit |-> u]
    BY <1>1 DEF UnitAt
  <2>2. units = [u \in 1..SizeOf(n) |-> units[u]]
    OBVIOUS
  <2> QED
    BY <1>1, <2>1, <2>2
<1>3. ASSUME NEW m \in 1..Len(sent), units = BodyOf(m) PROVE m = n
  <2>1. Len(units) = SizeOf(m)
    BY <1>1, <1>3
  <2>2. 1 \in 1..SizeOf(m) /\ 1 \in 1..SizeOf(n)
    BY <1>1, <2>1
  <2>3. units[1].id = m
    BY <1>1, <1>3, <2>2
  <2>4. units[1].id = n
    BY <1>1, <1>2, <2>2
  <2> QED
    BY <2>3, <2>4
<1> QED
  BY <1>2, <1>3 DEF Decoded

\* A message that is handed on with its own body, or one from before it.
LEMMA HandedBody ==
  ASSUME ConnectionTypes, BodiesInv, UNCHANGED sent,
         NEW r \in [id : Nat, type : MessageType, size : Nat, body : StoredBody],
         incoming' = Append(incoming, Handed(r)), r.id = Len(incoming) + 1,
         OwnOrOlder(r.id, r.body)
  PROVE  Len(incoming') = r.id /\ \A i \in 1..Len(incoming') : OwnOrOlder(i, incoming'[i].body)
<1>1. /\ Len(incoming') = Len(incoming) + 1 /\ incoming'[r.id] = Handed(r) /\ Handed(r).body = r.body
      /\ \A i \in 1..Len(incoming) : incoming'[i] = incoming[i]
      /\ \A i \in 1..Len(incoming') : i \in 1..Len(incoming) \/ i = r.id
  BY HandedNext
<1>2. ASSUME NEW i \in 1..Len(incoming') PROVE OwnOrOlder(i, incoming'[i].body)
  BY <1>1 DEF BodiesInv
<1> QED
  BY <1>1, <1>2

LEMMA BodiesLeft ==
  ASSUME BodiesInv, UNCHANGED <<sent, buffer, incoming>> PROVE BodiesInv'
BY DEF BodiesInv, OwnOrOlder, SizeOf

LEMMA HeaderReadBodies == ASSUME StreamInv, BodiesInv, HeaderRead PROVE BodiesInv'
<1>1. PICK b \in Nat : b = buffer.id
  BY HeaderReadNext
<1>2. b = Len(incoming) /\ b + 1 \in 1..Len(sent) /\ UNCHANGED sent
  BY <1>1, HeaderReadNext
<1>3. PICK h \in Header :
        /\ h.id = b + 1 /\ h.size = Size(sent, h.id) /\ h.size \in Nat
        /\ buffer' = [id |-> h.id, type |-> h.type, size |-> h.size, body |-> buffer.body]
        /\ \/ h.size > 0 /\ reading' = "body" /\ UNCHANGED incoming
           \/ h.size = 0 /\ reading' = "header" /\ incoming' = Append(incoming, Handed(buffer'))
  BY <1>1, HeaderReadNext
<1>4. ConnectionTypes /\ QInv'
  BY HeaderReadQInv DEF StreamInv, QInv
<1>5. buffer'.id = b + 1 /\ buffer'.body = buffer.body /\ buffer.body.id \in Nat /\ buffer.body.id <= b
  BY <1>2, <1>3, <1>4 DEF BodiesInv, ConnectionTypes, StoredBody
<1>6. CASE UNCHANGED incoming
  BY <1>2, <1>5, <1>6 DEF BodiesInv, OwnOrOlder, SizeOf
<1>7. CASE h.size = 0 /\ incoming' = Append(incoming, Handed(buffer'))
  <2>1. PICK r : r = buffer'
    OBVIOUS
  <2>2. r \in [id : Nat, type : MessageType, size : Nat, body : StoredBody] /\ r.id = Len(incoming) + 1
    BY <1>2, <1>4, <1>5, <2>1 DEF QInv, ConnectionTypes
  <2>3. SizeOf(r.id) = 0
    BY <1>2, <1>3, <1>7, <2>2 DEF SizeOf, Size
  <2>4. OwnOrOlder(r.id, r.body)
    BY <1>2, <1>5, <2>1, <2>2, <2>3 DEF OwnOrOlder
  <2>5. incoming' = Append(incoming, Handed(r))
    BY <1>7, <2>1
  <2>6. Len(incoming') = r.id /\ \A i \in 1..Len(incoming') : OwnOrOlder(i, incoming'[i].body)
    BY ONLY <1>2, <1>4, BodiesInv, <2>2, <2>4, <2>5, HandedBody
  <2>7. buffer'.body.id <= Len(incoming')
    BY <1>2, <1>5, <2>2, <2>6
  <2> QED
    BY <1>2, <2>6, <2>7 DEF BodiesInv, OwnOrOlder, SizeOf
<1> QED
  BY <1>3, <1>6, <1>7

LEMMA BodyReadBodies == ASSUME StreamInv, BodiesInv, BodyRead PROVE BodiesInv'
<1>1. PICK n \in 1..Len(sent), z \in Nat, b \in StoredBody :
        /\ n = buffer.id /\ n = Len(incoming) + 1
        /\ z = Size(sent, n) /\ z > 0 /\ z <= Len(wire)
        /\ \A u \in 1..z : wire[u] = UnitAt(sent, <<n, u>>)
        /\ b = RestoredBody(SubSeq(wire, 1, z)) /\ buffer.type = sent[n].type
        /\ buffer' = [id |-> n, type |-> buffer.type, size |-> z, body |-> b]
        /\ incoming' = Append(incoming, Handed(buffer'))
        /\ UNCHANGED sent
  BY BodyReadNext
<1>2. ConnectionTypes /\ QInv'
  BY BodyReadQInv DEF StreamInv, QInv
<1>3. SizeOf(n) = z /\ buffer'.id = n /\ buffer'.body = b
  BY <1>1 DEF SizeOf, Size
<1>4. PICK w, units : w = wire /\ units = SubSeq(w, 1, z)
  OBVIOUS
<1>5. units \in Seq(Unit) /\ Len(units) = SizeOf(n) /\ \A u \in 1..SizeOf(n) : units[u] = UnitAt(sent, <<n, u>>)
  <2>1. w \in Seq(Unit) /\ z <= Len(w) /\ z \in 1..Len(w) /\ \A u \in 1..z : w[u] = UnitAt(sent, <<n, u>>)
    BY <1>1, <1>2, <1>4 DEF ConnectionTypes
  <2>2. units \in Seq(Unit)
    BY <1>4, <2>1
  <2>3. Len(units) = z /\ \A u \in 1..z : units[u] = w[u]
    BY <1>4, <2>1
  <2> QED
    BY <1>3, <2>1, <2>2, <2>3
<1>6. sent \in Seq(Templates)
  BY <1>2 DEF ConnectionTypes
<1>7. Decoded(units, buffer.type) = IF Deserializes(sent[n].type, sent[n].body) THEN {n} ELSE {}
  <2>1. PICK type : type = buffer.type
    OBVIOUS
  <2>2. Decoded(units, type) = IF Deserializes(type, sent[n].body) THEN {n} ELSE {}
    BY ONLY <1>1, <1>3, <1>5, <1>6, DecodedOnce
  <2> QED
    BY <1>1, <2>1, <2>2
<1>8. OwnOrOlder(n, b)
  <2>1. CASE Deserializes(sent[n].type, sent[n].body)
    <3>1. Decoded(units, buffer.type) = {n}
      BY <1>7, <2>1
    <3>2. b = [type |-> sent[n].body, id |-> n]
      BY <1>1, <1>4, <3>1 DEF RestoredBody
    <3> QED
      BY <1>1, <1>3, <2>1, <3>2 DEF OwnOrOlder
  <2>2. CASE ~Deserializes(sent[n].type, sent[n].body)
    <3>1. Decoded(units, buffer.type) = {}
      BY <1>7, <2>2
    <3>2. b = buffer.body
      BY <1>1, <1>4, <3>1 DEF RestoredBody
    <3>3. buffer.body.id \in Nat /\ buffer.body.id <= Len(incoming) /\ Len(incoming) \in Nat
      BY <1>2 DEF ConnectionTypes, StoredBody, BodiesInv
    <3> QED
      BY <1>1, <2>2, <3>2, <3>3 DEF OwnOrOlder
  <2> QED
    BY <2>1, <2>2
<1>9. PICK r : r = buffer'
  OBVIOUS
<1>10. r \in [id : Nat, type : MessageType, size : Nat, body : StoredBody] /\ r.id = n /\ r.body = b
  BY <1>2, <1>3, <1>9 DEF QInv, ConnectionTypes
<1>11. incoming' = Append(incoming, Handed(r)) /\ r.id = Len(incoming) + 1 /\ OwnOrOlder(r.id, r.body)
  BY <1>1, <1>8, <1>9, <1>10
<1>12. Len(incoming') = r.id /\ \A i \in 1..Len(incoming') : OwnOrOlder(i, incoming'[i].body)
  <2>1. UNCHANGED sent
    BY <1>1
  <2> QED
    BY ONLY <1>2, BodiesInv, <1>10, <1>11, <2>1, HandedBody
<1>13. buffer'.body.id <= Len(incoming')
  <2>1. b.id <= n
    <3>1. b.id \in Nat
      BY DEF StoredBody
    <3> QED
      BY <1>8, <3>1 DEF OwnOrOlder
  <2> QED
    BY <1>3, <1>10, <1>12, <2>1
<1> QED
  BY <1>1, <1>12, <1>13 DEF BodiesInv, OwnOrOlder, SizeOf

LEMMA SendBodies == ASSUME StreamInv, BodiesInv, NEW t \in Templates, Send(t) PROVE BodiesInv'
<1>1. sent' = Append(sent, t) /\ UNCHANGED <<buffer, incoming>>
  BY DEF Send, reader
<1>2. PICK s, more : s = sent /\ more = Append(s, t) /\ s \in Seq(Templates) /\ more = sent'
  BY <1>1 DEF StreamInv, QInv, ConnectionTypes
<1>3. \A n \in 1..Len(s) : Size(more, n) = Size(s, n) /\ more[n] = s[n]
  <2>1. s \in Seq(Templates)
    BY <1>2
  <2>2. \A n \in 1..Len(s) : Size(Append(s, t), n) = Size(s, n) /\ Append(s, t)[n] = s[n]
    BY ONLY <2>1, t \in Templates, Grown
  <2> QED
    BY <1>2, <2>2
<1>4. \A i \in 1..Len(incoming) : i \in 1..Len(s)
  <2>1. Len(incoming) \in Nat /\ Len(s) \in Nat /\ Len(incoming) <= Len(s)
    BY <1>2 DEF StreamInv, ReaderInv, QInv, ConnectionTypes
  <2> QED
    BY ONLY <2>1
<1>5. ASSUME NEW i \in 1..Len(incoming') PROVE OwnOrOlder(i, incoming[i].body)'
  <2>1. i \in 1..Len(incoming) /\ OwnOrOlder(i, incoming[i].body)
    BY <1>1 DEF BodiesInv
  <2>2. SizeOf(i)' = SizeOf(i) /\ sent'[i] = sent[i]
    BY <1>2, <1>3, <1>4, <2>1 DEF Size, SizeOf
  <2> QED
    BY <1>1, <2>1, <2>2 DEF OwnOrOlder
<1> QED
  BY <1>1, <1>5 DEF BodiesInv

LEMMA NextBodies ==
  ASSUME SocketMayBlock = FALSE, StreamInv, BodiesInv, [Next]_vars PROVE BodiesInv'
<1>1. CASE \E t \in Templates : Send(t)
  BY <1>1, SendBodies
<1>2. CASE Enqueue
  BY <1>2, BodiesLeft DEF Enqueue, reader
<1>3. CASE \E i \in DOMAIN writes : Transmit(i) \/ HeaderWritten(i) \/ BodyWritten(i) \/ WriteFailed(i)
  BY <1>3, BodiesLeft DEF Transmit, HeaderWritten, BodyWritten, WriteFailed, reader
<1>4. CASE HeaderRead
  BY <1>4, HeaderReadBodies
<1>5. CASE BodyRead
  BY <1>5, BodyReadBodies
<1>6. CASE Idle
  <2>1. UNCHANGED <<sent, buffer, incoming>>
    BY <1>6, IdleMoves DEF StreamInv, QInv
  <2> QED
    BY <2>1, BodiesLeft
<1>7. CASE UNCHANGED vars
  BY <1>7, BodiesLeft DEF vars, reader
<1> QED
  BY <1>1, <1>2, <1>3, <1>4, <1>5, <1>6, <1>7, Steps

\* While no send buffer is full when a header is written: a body never reaches
\* the owner under another message's header.  The buffer keeps the last body
\* that was restored (readHeaderHandler overwrites the header only), so what a
\* message without a body of its own carries is at most an older one.
THEOREM BodiesMatchHeaders == SocketMayBlock = FALSE => (Spec => []BodyOfItselfOrOlder)
<1> SUFFICES ASSUME SocketMayBlock = FALSE PROVE Spec => []BodyOfItselfOrOlder
  OBVIOUS
<1>1. Init => StreamInv /\ BodiesInv
  <2> SUFFICES ASSUME Init PROVE BodiesInv
    BY InitStream
  <2>2. buffer.body.id = 0 /\ incoming = <<>>
    <3>1. buffer = [id |-> 0, type |-> "ServerAccept", size |-> 0, body |-> NoBody] /\ incoming = <<>>
      BY DEF Init
    <3>2. buffer.body = NoBody
      BY ONLY <3>1
    <3>3. NoBody.id = 0
      BY DEF NoBody
    <3> QED
      BY <3>1, <3>2, <3>3
  <2>3. Len(<<>>) = 0
    OBVIOUS
  <2> QED
    BY <2>2, <2>3 DEF BodiesInv
<1>2. StreamInv /\ BodiesInv /\ [Next]_vars => (StreamInv /\ BodiesInv)'
  BY NextStream, NextBodies
<1>3. StreamInv /\ BodiesInv => BodyOfItselfOrOlder
  <2>1. StreamInv => DOMAIN incoming = 1..Len(incoming)
    BY DEF StreamInv, QInv, ConnectionTypes
  <2> QED
    BY <2>1 DEF BodiesInv, OwnOrOlder, BodyOfItselfOrOlder
<1> QED
  BY <1>1, <1>2, <1>3, PTL DEF Spec

------------------------------------------------------------------------------
(* The message channel.                                                     *)

\* The messages after a, up to b.
Span(a, b) == [i \in 1..(b - a) |-> a + i]

LEMMA SpanTyped ==
  ASSUME NEW a \in Nat, NEW b \in Nat, a <= b
  PROVE  Span(a, b) \in Seq(Nat) /\ Len(Span(a, b)) = b - a /\ \A i \in 1..(b - a) : Span(a, b)[i] = a + i
BY DEF Span

LEMMA Spans ==
  ASSUME NEW a \in Nat, NEW b \in Nat, NEW c \in Nat, a <= b, b <= c
  PROVE  Span(a, b) \o Span(b, c) = Span(a, c)
<1>1. PICK x, y, z : x = Span(a, b) /\ y = Span(b, c) /\ z = Span(a, c)
  OBVIOUS
<1>2. PICK m \in Nat, k \in Nat : m = b - a /\ k = c - b /\ m + k = c - a
  OBVIOUS
<1>3. x \in Seq(Nat) /\ Len(x) = m /\ \A i \in 1..m : x[i] = a + i
  BY <1>1, <1>2, SpanTyped
<1>4. y \in Seq(Nat) /\ Len(y) = k /\ \A i \in 1..k : y[i] = b + i
  BY <1>1, <1>2, SpanTyped
<1>5. z \in Seq(Nat) /\ Len(z) = m + k /\ \A i \in 1..(m + k) : z[i] = a + i
  <2>1. a <= c
    OBVIOUS
  <2>2. z \in Seq(Nat) /\ Len(z) = c - a /\ \A i \in 1..(c - a) : z[i] = a + i
    BY ONLY a \in Nat, c \in Nat, <1>1, <2>1, SpanTyped
  <2> QED
    BY ONLY <1>2, <2>2
<1>6. PICK v : v = x \o y
  OBVIOUS
<1>7. /\ v \in Seq(Nat) /\ Len(v) = m + k
      /\ \A i \in 1..(m + k) : v[i] = IF i <= m THEN x[i] ELSE y[i - m]
  <2>1. x \o y \in Seq(Nat)
    BY ONLY <1>3, <1>4, ConcatProperties, Zenon
  <2>2. Len(x \o y) = Len(x) + Len(y)
    BY ONLY <1>3, <1>4, ConcatProperties, Zenon
  <2>3. \A i \in 1..(Len(x) + Len(y)) : (x \o y)[i] = IF i <= Len(x) THEN x[i] ELSE y[i - Len(x)]
    BY ONLY <1>3, <1>4, ConcatProperties, Zenon
  <2> QED
    BY <1>3, <1>4, <1>6, <2>1, <2>2, <2>3
<1>8. ASSUME NEW i \in 1..(m + k) PROVE v[i] = z[i]
  <2>1. CASE i <= m
    <3>1. i \in 1..m
      BY <2>1
    <3> QED
      BY <1>3, <1>5, <1>7, <2>1, <3>1
  <2>2. CASE ~(i <= m)
    <3>1. i - m \in 1..k /\ b + (i - m) = a + i
      BY <1>2, <2>2
    <3>2. v[i] = y[i - m] /\ y[i - m] = b + (i - m) /\ z[i] = a + i
      BY <1>4, <1>5, <1>7, <2>2, <3>1
    <3> QED
      BY <3>1, <3>2
  <2> QED
    BY <2>1, <2>2
<1>9. v = z
  BY ONLY <1>5, <1>7, <1>8
<1> QED
  BY <1>1, <1>6, <1>9

LEMMA OnlyAll ==
  ASSUME NEW S, NEW T, NEW s \in Seq(T), \A i \in 1..Len(s) : s[i] \in S
  PROVE  Only(s, S) = s
<1> DEFINE G == {n \in Nat : \A t \in Seq(T) : Len(t) = n /\ (\A i \in 1..Len(t) : t[i] \in S) => Only(t, S) = t}
<1>1. 0 \in G
  <2>1. \A t \in Seq(T) : Len(t) = 0 => t = <<>>
    OBVIOUS
  <2> QED
    BY <2>1, OnlyEmpty
<1>2. ASSUME NEW n \in Nat, n \in G PROVE n + 1 \in G
  <2> SUFFICES ASSUME NEW t \in Seq(T), Len(t) = n + 1, \A i \in 1..Len(t) : t[i] \in S PROVE Only(t, S) = t
    OBVIOUS
  <2>1. PICK rest : rest = Tail(t)
    OBVIOUS
  <2>2. /\ rest \in Seq(T) /\ Len(rest) = n /\ t # <<>> /\ Head(t) = t[1] /\ 1 \in 1..Len(t)
        /\ \A i \in 1..Len(rest) : rest[i] = t[i + 1] /\ i + 1 \in 1..Len(t)
    BY <2>1
  <2>3. Only(rest, S) = rest
    <3>1. \A i \in 1..Len(rest) : rest[i] \in S
      BY <2>2
    <3> QED
      BY <1>2, <2>2, <3>1
  <2>4. Head(t) \in S
    BY <2>2
  <2>5. Only(t, S) = <<Head(t)>> \o Only(rest, S)
    BY ONLY <2>1, <2>2, <2>4, t \in Seq(T), OnlyTail
  <2>6. t = <<Head(t)>> \o rest
    BY <2>1, <2>2
  <2> QED
    BY ONLY <2>3, <2>5, <2>6
<1>3. Nat \subseteq G
  <2> HIDE DEF G
  <2> QED
    BY <1>1, <1>2, Induction
<1>4. Len(s) \in Nat
  OBVIOUS
<1> QED
  BY <1>3, <1>4

\* The parts of InFlight follow each other, from the message that is being
\* received to the last one that was sent.
LEMMA StreamPieces ==
  ASSUME StreamInv
  PROVE  /\ Len(incoming) \in Nat /\ buffer.id \in Nat /\ LastHeader \in Nat
         /\ Done + Len(out) \in Nat /\ Len(sent) \in Nat
         /\ Len(incoming) <= buffer.id /\ buffer.id <= LastHeader /\ LastHeader <= Done + Len(out)
         /\ Done + Len(out) <= Len(sent)
         /\ Len(sent) = Done + Len(out) + Len(posted)
<1>1. ConnectionTypes /\ ReaderInv /\ HeadersInv /\ Numbered
  BY DEF StreamInv, QInv
<1>2. /\ Len(incoming) \in Nat /\ buffer.id \in Nat /\ Len(out) \in Nat /\ Len(sent) \in Nat
      /\ Len(posted) \in Nat /\ Done \in Nat
  BY <1>1 DEF ConnectionTypes, Numbered
<1>3. Len(WireHeaders) \in Nat
  BY <1>1, HowMany DEF ConnectionTypes, WireHeaders
<1>4. Len(incoming) <= buffer.id
  BY <1>1, <1>2 DEF ReaderInv
<1>5. LastHeader \in Nat /\ buffer.id <= LastHeader
  BY <1>2, <1>3 DEF LastHeader
<1>6. LastHeader <= Done + Len(out)
  <2>1. CASE out = <<>>
    BY <1>1, <1>2, <1>5, <2>1 DEF HeadersInv
  <2>2. CASE out # <<>>
    <3>1. Len(out) > 0
      BY <1>1, <2>2 DEF ConnectionTypes
    <3> QED
      BY <1>1, <1>2, <3>1 DEF HeadersInv
  <2> QED
    BY <2>1, <2>2
<1>7. Len(sent) = Done + Len(out) + Len(posted)
  BY <1>2 DEF Done
<1> QED
  BY <1>2, <1>4, <1>5, <1>6, <1>7

LEMMA HeadersFlight == ASSUME StreamInv PROVE [i \in DOMAIN WireHeaders |-> WireHeaders[i].id] = Span(buffer.id, LastHeader)
<1>1. WireHeaders \in Seq(Header)
  BY OnlyType DEF StreamInv, QInv, ConnectionTypes, WireHeaders
<1>2. buffer.id \in Nat /\ Len(WireHeaders) \in Nat /\ DOMAIN WireHeaders = 1..Len(WireHeaders)
  BY <1>1, StreamPieces
<1>3. LastHeader - buffer.id = Len(WireHeaders)
  BY <1>2 DEF LastHeader
<1> QED
  BY <1>2, <1>3 DEF StreamInv, HeadersInv, Span

LEMMA LastHeaderIs == ASSUME StreamInv PROVE LastTransmitted = LastHeader
<1>1. WireHeaders \in Seq(Header) /\ buffer.id \in Nat
  BY OnlyType DEF StreamInv, QInv, ConnectionTypes, WireHeaders
<1>2. CASE WireHeaders = <<>>
  <2>1. Len(<<>>) = 0
    OBVIOUS
  <2> QED
    BY <1>1, <1>2, <2>1 DEF LastTransmitted, LastHeader
<1>3. CASE WireHeaders # <<>>
  <2>1. Len(WireHeaders) \in 1..Len(WireHeaders)
    BY <1>1, <1>3
  <2> QED
    BY <1>3, <2>1 DEF LastTransmitted, LastHeader, StreamInv, HeadersInv
<1> QED
  BY <1>2, <1>3

LEMMA QueueFlight ==
  ASSUME StreamInv PROVE Only(out, {n \in Ids : n > LastHeader}) = Span(LastHeader, Done + Len(out))
<1>1. PICK d, l, q, S : d = Done /\ l = LastHeader /\ q = out /\ S = {n \in Ids : n > l}
  OBVIOUS
<1>2. /\ d \in Nat /\ l \in {d, d + 1} /\ q \in Seq(Nat) /\ Len(q) \in Nat /\ (q = <<>> => l = d)
      /\ \A i \in 1..Len(q) : q[i] = d + i
  BY <1>1 DEF StreamInv, QInv, ConnectionTypes, Numbered, HeadersInv
<1>3. \A m \in Nat : l < m /\ m <= d + Len(q) => m \in S
  BY <1>1, <1>2, StreamPieces DEF Ids
<1>4. \A m \in S : m > l
  BY <1>1
<1>5. CASE l = d
  <2>1. \A i \in 1..Len(q) : q[i] \in S
    BY <1>2, <1>3, <1>5
  <2>2. Only(q, S) = q
    BY ONLY <1>2, <2>1, OnlyAll
  <2>3. q = Span(l, d + Len(q))
    BY <1>2, <1>5 DEF Span
  <2> QED
    BY <1>1, <2>2, <2>3
<1>6. CASE l = d + 1
  <2>1. q # <<>>
    BY <1>2, <1>6
  <2>2. PICK rest : rest = Tail(q)
    OBVIOUS
  <2>3. /\ rest \in Seq(Nat) /\ Len(rest) \in Nat /\ Len(q) = Len(rest) + 1 /\ Head(q) = q[1] /\ 1 \in 1..Len(q)
        /\ \A i \in 1..Len(rest) : rest[i] = q[i + 1] /\ i + 1 \in 1..Len(q)
    BY <1>2, <2>1, <2>2
  <2>4. Head(q) \notin S
    BY <1>2, <1>4, <1>6, <2>3
  <2>5. \A i \in 1..Len(rest) : rest[i] = l + i /\ rest[i] \in S
    <3>1. ASSUME NEW i \in 1..Len(rest) PROVE rest[i] = l + i /\ rest[i] \in S
      <4>1. rest[i] = d + (i + 1) /\ d + (i + 1) = l + i
        BY <1>2, <1>6, <2>3
      <4>2. l + i \in Nat /\ l < l + i /\ l + i <= d + Len(q)
        BY <1>2, <1>6, <2>3
      <4> QED
        BY <1>3, <4>1, <4>2
    <3> QED
      BY <3>1
  <2>6. Only(rest, S) = rest
    BY ONLY <2>3, <2>5, OnlyAll
  <2>7. Only(q, S) = <<>> \o Only(Tail(q), S)
    BY ONLY <1>2, <2>1, <2>4, OnlyTail
  <2>8. Only(q, S) = rest
    BY ONLY <2>2, <2>3, <2>6, <2>7
  <2>9. rest = Span(l, d + Len(q))
    BY <1>2, <1>6, <2>3, <2>5 DEF Span
  <2> QED
    BY <1>1, <2>8, <2>9
<1> QED
  BY <1>2, <1>5, <1>6

LEMMA PostedFlight == ASSUME StreamInv PROVE posted = Span(Done + Len(out), Len(sent))
<1>1. PICK a, b, q : a = Done + Len(out) /\ b = Len(sent) /\ q = posted
  OBVIOUS
<1>2. a \in Nat /\ b \in Nat /\ q \in Seq(Nat) /\ b - a = Len(q) /\ \A i \in 1..Len(q) : q[i] = a + i
  <2>1. q \in Seq(Nat) /\ \A i \in 1..Len(q) : q[i] = a + i
    BY <1>1 DEF StreamInv, QInv, ConnectionTypes, Numbered
  <2>2. a \in Nat /\ b \in Nat /\ b = a + Len(q)
    BY <1>1, StreamPieces
  <2>3. Len(q) \in Nat
    BY <2>1
  <2> QED
    BY <2>1, <2>2, <2>3
<1>3. q = Span(a, b)
  BY <1>2 DEF Span
<1> QED
  BY <1>1, <1>3

LEMMA ReadFlight ==
  ASSUME StreamInv
  PROVE  /\ MidBody => Span(Len(incoming), buffer.id) = <<buffer.id>>
         /\ ~MidBody => Span(Len(incoming), buffer.id) = <<>>
         /\ MidBody <=> reading = "body" \/ (Lost /\ reading = "none" /\ buffer.id > Len(incoming))
<1>1. PICK a, b : a = Len(incoming) /\ b = buffer.id
  OBVIOUS
<1>2. a \in Nat /\ b \in {a, a + 1} /\ (MidBody <=> b > a)
  BY <1>1 DEF StreamInv, QInv, ConnectionTypes, ReaderInv, MidBody
<1>3. MidBody => Span(a, b) = <<b>>
  <2>1. SUFFICES ASSUME b = a + 1 PROVE Span(a, b) = <<b>>
    BY <1>2
  <2>2. b - a = 1 /\ a + 1 = b
    BY <1>2, <2>1
  <2>3. Span(a, b) = [i \in 1..1 |-> a + i]
    BY <2>2 DEF Span
  <2>4. Span(a, b) = [i \in 1..1 |-> b]
    BY <1>2, <2>2, <2>3
  <2> QED
    BY <2>4
<1>4. ~MidBody => Span(a, b) = <<>>
  <2>1. ~MidBody => b = a
    BY <1>2
  <2>2. Span(a, a) = <<>>
    BY <1>2 DEF Span
  <2> QED
    BY <2>1, <2>2
<1>5. MidBody <=> reading = "body" \/ (Lost /\ reading = "none" /\ buffer.id > Len(incoming))
  BY DEF StreamInv, QInv, ConnectionTypes, ReaderInv, MidBody, Lost
<1> QED
  BY <1>1, <1>3, <1>4, <1>5

LEMMA BetweenIsSpan == ASSUME StreamInv PROVE Between = Span(Len(incoming), Len(sent))
<1>1. PICK a, b, l, d, n : a = Len(incoming) /\ b = buffer.id /\ l = LastHeader /\ d = Done + Len(out) /\ n = Len(sent)
  OBVIOUS
<1>2. a \in Nat /\ b \in Nat /\ l \in Nat /\ d \in Nat /\ n \in Nat /\ a <= b /\ b <= l /\ l <= d /\ d <= n
  BY <1>1, StreamPieces
<1>3. InFlight = (IF reading = "body" THEN <<b>> ELSE <<>>) \o Span(b, l) \o Span(l, d) \o Span(d, n)
  BY <1>1, HeadersFlight, QueueFlight, PostedFlight, LastHeaderIs DEF InFlight
<1>4. PICK x, y, z, w : x = Span(a, b) /\ y = Span(b, l) /\ z = Span(l, d) /\ w = Span(d, n)
  OBVIOUS
<1>5. x \in Seq(Nat) /\ y \in Seq(Nat) /\ z \in Seq(Nat) /\ w \in Seq(Nat)
  BY <1>2, <1>4, SpanTyped
<1>6. x \o y = Span(a, l) /\ Span(a, l) \o z = Span(a, d) /\ Span(a, d) \o w = Span(a, n)
  <2>1. a <= l /\ a <= d
    BY <1>2
  <2>2. x \o y = Span(a, l)
    BY <1>2, <1>4, Spans
  <2>3. Span(a, l) \o z = Span(a, d)
    BY <1>2, <1>4, <2>1, Spans
  <2>4. Span(a, d) \o w = Span(a, n)
    BY <1>2, <1>4, <2>1, Spans
  <2> QED
    BY <2>2, <2>3, <2>4
<1>7. y \o z \o w = Span(b, n) /\ x \o Span(b, n) = Span(a, n)
  <2>1. b <= d /\ b <= n
    BY <1>2
  <2>2. y \o z = Span(b, d)
    BY <1>2, <1>4, Spans
  <2>3. Span(b, d) \o w = Span(b, n)
    BY <1>2, <1>4, <2>1, Spans
  <2>4. x \o Span(b, n) = Span(a, n)
    BY <1>2, <1>4, <2>1, Spans
  <2> QED
    BY <2>2, <2>3, <2>4
<1>8. <<>> \o y = y
  BY ONLY <1>5
<1>9. CASE reading = "body"
  <2>1. x = <<b>>
    BY <1>1, <1>4, <1>9, ReadFlight
  <2>2. Between = x \o y \o z \o w
    BY <1>3, <1>4, <1>9, <2>1 DEF Between
  <2> QED
    BY <1>1, <1>6, <2>2
<1>10. CASE reading # "body" /\ Lost /\ reading = "none" /\ buffer.id > Len(incoming)
  <2>1. x = <<b>>
    BY <1>1, <1>4, <1>10, ReadFlight
  <2>2. Between = x \o (y \o z \o w)
    BY <1>1, <1>3, <1>4, <1>8, <1>10, <2>1 DEF Between
  <2> QED
    BY <1>1, <1>7, <2>2
<1>11. CASE reading # "body" /\ ~(Lost /\ reading = "none" /\ buffer.id > Len(incoming))
  <2>1. x = <<>>
    BY <1>1, <1>4, <1>11, ReadFlight
  <2>2. Between = x \o y \o z \o w
    BY <1>3, <1>4, <1>11, <2>1 DEF Between
  <2> QED
    BY <1>1, <1>6, <2>2
<1> QED
  BY <1>9, <1>10, <1>11

LEMMA GotIsSpan == ASSUME StreamInv PROVE [i \in DOMAIN incoming |-> incoming[i].id] = Span(0, Len(incoming))
<1>1. Len(incoming) \in Nat /\ DOMAIN incoming = 1..Len(incoming) /\ \A i \in 1..Len(incoming) : incoming[i].id = i
  BY DEF StreamInv, QInv, ConnectionTypes, ReaderInv
<1>2. Len(incoming) - 0 = Len(incoming) /\ \A i \in 1..Len(incoming) : 0 + i = i
  BY <1>1
<1> QED
  BY <1>1, <1>2 DEF Span

\* What has gone stays gone.
LEMMA LostStays == ASSUME ConnectionTypes, [Next]_vars, Lost PROVE Lost'
<1>1. /\ \A t \in Sides : open'[t] => open[t]
      /\ link' => link
  <2>1. CASE UNCHANGED sockets
    BY <2>1 DEF sockets
  <2>2. ASSUME NEW i \in DOMAIN writes, WriteFailed(i) PROVE (\A t \in Sides : open'[t] => open[t]) /\ (link' => link)
    <3>1. "w" \in Sides /\ open' = [open EXCEPT !["w"] = FALSE] /\ UNCHANGED link
      BY <2>2 DEF WriteFailed, Sides
    <3> QED
      BY <3>1, OpenStays
  <2>3. CASE Idle
    <3>1. \A t \in Sides : open'[t] => open[t]
      BY <2>3, IdleMoves
    <3>2. link' => link
      BY <2>3 DEF Idle, StartReading, ReadFailed, LinkFails, Disconnect, Close, sockets
    <3> QED
      BY <3>1, <3>2
  <2> QED
    BY Steps, <2>1, <2>2, <2>3 DEF Send, Enqueue, Transmit, HeaderWritten, BodyWritten, HeaderRead, BodyRead, vars
<1>2. "w" \in Sides /\ "r" \in Sides
  BY DEF Sides
<1> QED
  BY <1>1, <1>2 DEF Lost

\* What a step does to the messages in flight.
Submits == Len(sent') = Len(sent) + 1 /\ Len(incoming') = Len(incoming) /\ Lost' = Lost
Delivers == Len(sent') = Len(sent) /\ Len(incoming') = Len(incoming) + 1 /\ Lost' = Lost
Stays == Len(sent') = Len(sent) /\ Len(incoming') = Len(incoming)

LEMMA SubmitsOrDelivers == ASSUME StreamInv, [Next]_vars PROVE Submits \/ Delivers \/ Stays
<1>1. CASE \E t \in Templates : Send(t)
  <2>1. PICK t \in Templates : Send(t)
    BY <1>1
  <2>2. sent' = Append(sent, t) /\ UNCHANGED <<incoming, sockets>> /\ sent \in Seq(Templates)
    BY <2>1 DEF Send, reader, StreamInv, QInv, ConnectionTypes
  <2>3. Len(sent') = Len(sent) + 1
    BY <2>2
  <2> QED
    BY <2>2, <2>3 DEF Submits, Lost, sockets
<1>2. CASE Enqueue
  BY <1>2 DEF Enqueue, reader, Stays
<1>3. CASE \E i \in DOMAIN writes : Transmit(i) \/ HeaderWritten(i) \/ BodyWritten(i) \/ WriteFailed(i)
  BY <1>3 DEF Transmit, HeaderWritten, BodyWritten, WriteFailed, reader, Stays
<1>4. ASSUME HeaderRead \/ BodyRead PROVE Delivers \/ Stays
  <2>1. UNCHANGED <<sent, sockets>> /\ incoming \in Seq([id : Nat, type : MessageType, body : StoredBody, remote : BOOLEAN])
    BY <1>4 DEF HeaderRead, BodyRead, StreamInv, QInv, ConnectionTypes
  <2>2. UNCHANGED incoming \/ incoming' = Append(incoming, Handed(buffer'))
    BY <1>4, HeaderReadMoves, BodyReadMoves DEF StreamInv, QInv
  <2>3. CASE UNCHANGED incoming
    BY <2>1, <2>3 DEF Stays
  <2>4. CASE incoming' = Append(incoming, Handed(buffer'))
    <3>1. PICK m : m = Handed(buffer')
      OBVIOUS
    <3>2. Len(Append(incoming, m)) = Len(incoming) + 1
      BY <2>1
    <3> QED
      BY <2>1, <2>4, <3>1, <3>2 DEF Delivers, Lost, sockets
  <2> QED
    BY <2>2, <2>3, <2>4
<1>5. CASE Idle
  BY <1>5, IdleMoves DEF StreamInv, QInv, Stays
<1>6. CASE UNCHANGED vars
  BY <1>6 DEF vars, reader, Stays
<1> QED
  BY <1>1, <1>2, <1>3, <1>4, <1>5, <1>6, Steps

LEMMA SpanEnds ==
  ASSUME NEW a \in Nat, NEW b \in Nat, a <= b
  PROVE  /\ Span(a, b + 1) = Append(Span(a, b), b + 1)
         /\ a < b => Span(a, b) # <<>> /\ Head(Span(a, b)) = a + 1 /\ Tail(Span(a, b)) = Span(a + 1, b)
<1>1. PICK x, z : x = Span(a, b) /\ z = Span(a, b + 1)
  OBVIOUS
<1>2. PICK m \in Nat : m = b - a /\ (b + 1) - a = m + 1 /\ a + (m + 1) = b + 1
  OBVIOUS
<1>3. x \in Seq(Nat) /\ Len(x) = m /\ \A i \in 1..m : x[i] = a + i
  BY <1>1, <1>2, SpanTyped
<1>4. z \in Seq(Nat) /\ Len(z) = m + 1 /\ \A i \in 1..(m + 1) : z[i] = a + i
  <2>1. b + 1 \in Nat /\ a <= b + 1
    OBVIOUS
  <2>2. z \in Seq(Nat) /\ Len(z) = (b + 1) - a /\ \A i \in 1..((b + 1) - a) : z[i] = a + i
    BY ONLY a \in Nat, <1>1, <2>1, SpanTyped
  <2> QED
    BY ONLY <1>2, <2>2
<1>5. z = Append(x, b + 1)
  <2>1. PICK v : v = Append(x, b + 1)
    OBVIOUS
  <2>2. v \in Seq(Nat) /\ Len(v) = m + 1 /\ v[m + 1] = b + 1 /\ \A i \in 1..m : v[i] = x[i]
    BY <1>3, <2>1
  <2>3. ASSUME NEW i \in 1..(m + 1) PROVE v[i] = z[i]
    <3>1. CASE i \in 1..m
      BY <1>3, <1>4, <2>2, <3>1
    <3>2. CASE i = m + 1
      BY <1>2, <1>4, <2>2, <3>2
    <3> QED
      BY <3>1, <3>2
  <2> QED
    BY ONLY <1>4, <2>1, <2>2, <2>3
<1>6. ASSUME a < b PROVE x # <<>> /\ Head(x) = a + 1 /\ Tail(x) = Span(a + 1, b)
  <2>1. m > 0 /\ x # <<>> /\ Head(x) = x[1] /\ 1 \in 1..m
    <3>1. m > 0 /\ 1 \in 1..m
      BY <1>2, <1>6
    <3>2. x # <<>> /\ Head(x) = x[1]
      BY <1>3, <3>1
    <3> QED
      BY <3>1, <3>2
  <2>2. PICK r, y : r = Tail(x) /\ y = Span(a + 1, b)
    OBVIOUS
  <2>3. PICK k \in Nat : k = m - 1 /\ k = b - (a + 1)
    BY <1>2, <2>1
  <2>4. r \in Seq(Nat) /\ Len(r) = k /\ \A i \in 1..k : r[i] = x[i + 1]
    BY <1>3, <2>1, <2>2, <2>3
  <2>5. y \in Seq(Nat) /\ Len(y) = k /\ \A i \in 1..k : y[i] = (a + 1) + i
    <3>1. a + 1 \in Nat /\ a + 1 <= b
      BY <1>6
    <3>2. y \in Seq(Nat) /\ Len(y) = b - (a + 1) /\ \A i \in 1..(b - (a + 1)) : y[i] = (a + 1) + i
      BY ONLY b \in Nat, <2>2, <3>1, SpanTyped
    <3> QED
      BY ONLY <2>3, <3>2
  <2>6. \A i \in 1..k : r[i] = y[i]
    <3>1. \A i \in 1..k : i + 1 \in 1..m /\ a + (i + 1) = (a + 1) + i
      BY <2>3
    <3> QED
      BY <1>3, <2>4, <2>5, <3>1
  <2>7. r = y
    BY ONLY <2>4, <2>5, <2>6
  <2> QED
    <3>1. x[1] = a + 1
      BY <1>3, <2>1
    <3> QED
      BY <2>1, <2>2, <2>7, <3>1
<1> QED
  BY <1>1, <1>5, <1>6

LEMMA ChannelInit == ASSUME Init, StreamInv PROVE Channel!Init
<1>1. sent = <<>> /\ incoming = <<>> /\ open = [s \in Sides |-> TRUE] /\ link = TRUE
  BY DEF Init
<1>2. Len(sent) = 0 /\ Len(incoming) = 0
  <2>1. Len(<<>>) = 0
    OBVIOUS
  <2> QED
    BY <1>1, <2>1
<1>3. Span(0, 0) = <<>>
  BY DEF Span
<1>4. Between = <<>>
  BY <1>2, <1>3, BetweenIsSpan
<1>5. [i \in DOMAIN incoming |-> incoming[i].id] = <<>>
  BY <1>2, <1>3, GotIsSpan
<1>6. Lost = FALSE
  BY <1>1 DEF Lost, Sides
<1> QED
  BY <1>4, <1>5, <1>6 DEF Channel!Init

SpansInv == /\ Len(incoming) \in Nat /\ Len(sent) \in Nat /\ Len(incoming) <= Len(sent)
            /\ Between = Span(Len(incoming), Len(sent))
            /\ [i \in DOMAIN incoming |-> incoming[i].id] = Span(0, Len(incoming))

LEMMA ChannelNext ==
  ASSUME StreamInv, SpansInv, SpansInv', [Next]_vars PROVE [Channel!Next]_Channel!vars
<1>1. PICK a, b : a = Len(incoming) /\ b = Len(sent) /\ a \in Nat /\ b \in Nat /\ a <= b
  BY DEF SpansInv
<1>2. PICK c, d : c = Len(incoming') /\ d = Len(sent') /\ c \in Nat /\ d \in Nat /\ c <= d
  BY DEF SpansInv
<1>3. PICK got : got = [i \in DOMAIN incoming |-> incoming[i].id]
  OBVIOUS
<1>4. PICK after : after = [i \in DOMAIN incoming' |-> incoming'[i].id]
  OBVIOUS
<1>5. Between = Span(a, b) /\ got = Span(0, a)
  BY <1>1, <1>3 DEF SpansInv
<1>6. Between' = Span(c, d) /\ after = Span(0, c)
  BY <1>2, <1>4 DEF SpansInv, Span
<1>7. Len(Span(a, b)) = b - a /\ Len(Span(0, a)) = a
  <2>1. Len(Span(0, a)) = a - 0
    <3>1. 0 \in Nat /\ 0 <= a
      BY <1>1
    <3> QED
      BY ONLY <1>1, <3>1, SpanTyped
  <2>2. Len(Span(a, b)) = b - a
    BY ONLY <1>1, SpanTyped
  <2> QED
    BY <1>1, <2>1, <2>2
<1>8. CASE Submits
  <2>1. c = a /\ d = b + 1 /\ Lost' = Lost
    BY <1>1, <1>2, <1>8 DEF Submits
  <2>2. Between' = Append(Between, b + 1)
    BY <1>1, <1>5, <1>6, <2>1, SpanEnds
  <2>3. Len(Between) + Len(got) + 1 = b + 1
    BY <1>1, <1>5, <1>7
  <2>4. after = got
    BY <1>5, <1>6, <2>1
  <2>5. Channel!Submit
    BY <1>3, <1>4, <2>1, <2>2, <2>3, <2>4 DEF Channel!Submit
  <2> QED
    BY <2>5 DEF Channel!Next
<1>9. CASE Delivers
  <2>1. c = a + 1 /\ d = b /\ Lost' = Lost
    BY <1>1, <1>2, <1>9 DEF Delivers
  <2>2. a < b
    BY <1>1, <1>2, <2>1
  <2>3. Between # <<>> /\ Head(Between) = a + 1 /\ Between' = Tail(Between)
    BY <1>1, <1>5, <1>6, <2>1, <2>2, SpanEnds
  <2>4. after = Append(got, Head(Between))
    <3>1. 0 \in Nat /\ 0 <= a
      BY <1>1
    <3>2. Span(0, a + 1) = Append(Span(0, a), a + 1)
      BY ONLY <1>1, <3>1, SpanEnds
    <3> QED
      BY <1>5, <1>6, <2>1, <2>3, <3>2
  <2>5. Channel!Deliver
    BY <1>3, <1>4, <2>1, <2>3, <2>4 DEF Channel!Deliver
  <2> QED
    BY <2>5 DEF Channel!Next
<1>10. CASE Stays
  <2>1. Between' = Between /\ after = got
    BY <1>1, <1>2, <1>5, <1>6, <1>10 DEF Stays
  <2>2. Lost => Lost'
    BY LostStays DEF StreamInv, QInv
  <2>3. CASE Lost' = Lost
    BY <1>3, <1>4, <2>1, <2>3 DEF Channel!vars
  <2>4. CASE ~Lost /\ Lost'
    <3>1. Channel!Break
      BY <1>3, <1>4, <2>1, <2>4 DEF Channel!Break
    <3> QED
      BY <3>1 DEF Channel!Next
  <2> QED
    BY <2>2, <2>3, <2>4 DEF Lost
<1> QED
  BY <1>8, <1>9, <1>10, SubmitsOrDelivers

\* While no send buffer is full when a header is written, two Connections and
\* the network between them are a message channel: every step of asio, of the
\* callers and of the faults is a submission, the delivery of the oldest
\* message, a break, or nothing the owners can see.  So the messages that
\* arrive are the first that were sent, in their order, each once, whatever is
\* closed or fails on the way.
THEOREM ConnectionIsAChannel == SocketMayBlock = FALSE => (Spec => Channel!Spec)
<1> SUFFICES ASSUME SocketMayBlock = FALSE PROVE Spec => Channel!Spec
  OBVIOUS
<1>1. Init => StreamInv
  BY InitStream
<1>2. StreamInv /\ [Next]_vars => StreamInv'
  BY NextStream
<1>3. StreamInv => SpansInv
  <2> SUFFICES ASSUME StreamInv PROVE SpansInv
    OBVIOUS
  <2>1. PICK a, b, l, d, n : a = Len(incoming) /\ b = buffer.id /\ l = LastHeader /\ d = Done + Len(out) /\ n = Len(sent)
    OBVIOUS
  <2>2. a \in Nat /\ b \in Nat /\ l \in Nat /\ d \in Nat /\ n \in Nat /\ a <= b /\ b <= l /\ l <= d /\ d <= n
    BY <2>1, StreamPieces
  <2>3. a <= n
    BY ONLY <2>2
  <2> QED
    BY <2>1, <2>2, <2>3, BetweenIsSpan, GotIsSpan DEF SpansInv
<1>4. Init /\ StreamInv => Channel!Init
  BY ChannelInit
<1>5. StreamInv /\ SpansInv /\ SpansInv' /\ [Next]_vars => [Channel!Next]_Channel!vars
  BY ChannelNext
<1> QED
  BY <1>1, <1>2, <1>3, <1>4, <1>5, PTL DEF Spec, Channel!Spec
==============================================================================
