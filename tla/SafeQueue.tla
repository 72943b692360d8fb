------------------------------ MODULE SafeQueue ------------------------------
(***************************************************************************)
(* Network::SafeQueue<T>: a deque behind mScopedMutex, and a condition     *)
(* variable behind a SECOND mutex, mUniqueMutex.  The Server's queue of    *)
(* incoming messages is one: the asio threads push, the main thread calls  *)
(* wait() and then pops until the deque is empty (Server::update).         *)
(*                                                                         *)
(* An item is the ticket of its push: the n-th push that enters the deque  *)
(* pushes n.  A critical section whose inside no other thread can observe  *)
(* is one step; push_back and push_front hold mScopedMutex while they ask  *)
(* for mUniqueMutex, and wait() asks for mUniqueMutex only after empty()   *)
(* has given mScopedMutex back, so those are steps of their own.           *)
(***************************************************************************)
EXTENDS Naturals, Sequences, FiniteSets

CONSTANTS Producers,  \* threads that push
          Consumers,  \* threads that wait and pop
          PushEnds,   \* which of push_front and push_back are called
          PopEnds,    \* which of pop_front and pop_back are called
          NoThread,   \* the holder of a free mutex
          MaxPush     \* bound: pushes in a behaviour

ASSUME QueueAssumption ==
    /\ Producers \cap Consumers = {}
    /\ NoThread \notin Producers \cup Consumers
    /\ PushEnds \subseteq {"front", "back"}
    /\ PopEnds \subseteq {"front", "back"}
    /\ MaxPush \in Nat

Threads == Producers \cup Consumers

VARIABLES mRawQueue,     \* the deque
          mScopedMutex,  \* the thread that holds it, or NoThread
          mUniqueMutex,  \* the thread that holds it, or NoThread
          pc,            \* where every thread is
          pushed,        \* tickets handed out so far
          taken          \* tickets popped so far

queueVars == <<mRawQueue, mScopedMutex, mUniqueMutex, pc, pushed, taken>>

ProducerPc == {"idle", "emplaced"}
ConsumerPc == {"run", "locking", "locked", "waiting", "notified", "ready", "drain"}

\* The threads blocked inside mBlock.wait().
Waiters == {c \in Consumers : pc[c] = "waiting"}

QueueInit ==
    /\ mRawQueue = <<>>
    /\ mScopedMutex = NoThread
    /\ mUniqueMutex = NoThread
    /\ pc = [t \in Threads |-> IF t \in Producers THEN "idle" ELSE "run"]
    /\ pushed = 0
    /\ taken = {}

------------------------------------------------------------------------------
(* push_back and push_front.                                               *)

Emplaced_SwapEnds(end, item) == IF end = "front" THEN Append(mRawQueue, item)
                                                 ELSE <<item>> \o mRawQueue
Emplaced(end, item) == IF end = "back" THEN Append(mRawQueue, item)
                                       ELSE <<item>> \o mRawQueue

\* scoped_lock, then emplace: mScopedMutex stays held.
Emplace(p, end) ==
    /\ pc[p] = "idle"
    /\ pushed < MaxPush
    /\ mScopedMutex = NoThread
    /\ mScopedMutex' = p
    /\ mRawQueue' = Emplaced(end, pushed + 1)
    /\ pushed' = pushed + 1
    /\ pc' = [pc EXCEPT ![p] = "emplaced"]
    /\ UNCHANGED <<mUniqueMutex, taken>>

\* notify_one wakes one blocked thread, or nobody.
NotifyOne_Dropped(p) == pc' = [pc EXCEPT ![p] = "idle"]
NotifyOne(p) ==
    IF Waiters = {}
    THEN pc' = [pc EXCEPT ![p] = "idle"]
    ELSE \E c \in Waiters : pc' = [pc EXCEPT ![p] = "idle", ![c] = "notified"]

\* unique_lock, notify_one, and the end of the scope releases both mutexes.
Notify(p) ==
    /\ pc[p] = "emplaced"
    /\ mUniqueMutex = NoThread
    /\ NotifyOne(p)
    /\ mScopedMutex' = NoThread
    /\ UNCHANGED <<mRawQueue, mUniqueMutex, pushed, taken>>

------------------------------------------------------------------------------
(* wait(): while (empty()) { unique_lock; mBlock.wait }.                   *)

\* empty(), at the top of the loop: mScopedMutex is taken and given back.
TestEmpty(c) ==
    /\ pc[c] = "run"
    /\ mScopedMutex = NoThread
    /\ pc' = [pc EXCEPT ![c] = IF mRawQueue = <<>> THEN "locking" ELSE "ready"]
    /\ UNCHANGED <<mRawQueue, mScopedMutex, mUniqueMutex, pushed, taken>>

LockUnique(c) ==
    /\ pc[c] = "locking"
    /\ mUniqueMutex = NoThread
    /\ mUniqueMutex' = c
    /\ pc' = [pc EXCEPT ![c] = "locked"]
    /\ UNCHANGED <<mRawQueue, mScopedMutex, pushed, taken>>

\* mBlock.wait gives mUniqueMutex back and blocks, whatever the deque holds now.
Block(c) ==
    /\ pc[c] = "locked"
    /\ mUniqueMutex' = NoThread
    /\ pc' = [pc EXCEPT ![c] = "waiting"]
    /\ UNCHANGED <<mRawQueue, mScopedMutex, pushed, taken>>

\* The standard lets a condition variable wake without a notification.
SpuriousWakeup(c) ==
    /\ pc[c] = "waiting"
    /\ pc' = [pc EXCEPT ![c] = "notified"]
    /\ UNCHANGED <<mRawQueue, mScopedMutex, mUniqueMutex, pushed, taken>>

\* The woken thread takes mUniqueMutex again, leaves the scope that owns it,
\* and goes back to the test of the loop.
Woken_NoLoop(c) ==
    /\ pc[c] = "notified"
    /\ mUniqueMutex = NoThread
    /\ pc' = [pc EXCEPT ![c] = "ready"]
    /\ UNCHANGED <<mRawQueue, mScopedMutex, mUniqueMutex, pushed, taken>>
Woken_KeepUnique(c) ==
    /\ pc[c] = "notified"
    /\ mUniqueMutex = NoThread
    /\ mUniqueMutex' = c
    /\ pc' = [pc EXCEPT ![c] = "run"]
    /\ UNCHANGED <<mRawQueue, mScopedMutex, pushed, taken>>
Woken(c) ==
    /\ pc[c] = "notified"
    /\ mUniqueMutex = NoThread
    /\ pc' = [pc EXCEPT ![c] = "run"]
    /\ UNCHANGED <<mRawQueue, mScopedMutex, mUniqueMutex, pushed, taken>>

------------------------------------------------------------------------------
(* pop_front and pop_back, and the loop of Server::update around them.     *)

Popped(end) == IF end = "front" THEN SubSeq(mRawQueue, 2, Len(mRawQueue))
                                ELSE SubSeq(mRawQueue, 1, Len(mRawQueue) - 1)

ItemAt(end) == IF end = "front" THEN mRawQueue[1] ELSE mRawQueue[Len(mRawQueue)]

\* pop on an empty deque is undefined behaviour: the step does not exist, and
\* PopFindsItem says that the program never gets there.
Pop(c, end) ==
    /\ pc[c] = "ready"
    /\ mScopedMutex = NoThread
    /\ mRawQueue # <<>>
    /\ taken' = taken \cup {ItemAt(end)}
    /\ mRawQueue' = Popped(end)
    /\ pc' = [pc EXCEPT ![c] = "drain"]
    /\ UNCHANGED <<mScopedMutex, mUniqueMutex, pushed>>

\* while (!empty()) of update; when it ends the main loop calls wait() again.
TestDrained(c) ==
    /\ pc[c] = "drain"
    /\ mScopedMutex = NoThread
    /\ pc' = [pc EXCEPT ![c] = IF mRawQueue = <<>> THEN "run" ELSE "ready"]
    /\ UNCHANGED <<mRawQueue, mScopedMutex, mUniqueMutex, pushed, taken>>

------------------------------------------------------------------------------
Produce(p) == (\E end \in PushEnds : Emplace(p, end)) \/ Notify(p)

Consume(c) == \/ TestEmpty(c) \/ LockUnique(c) \/ Block(c) \/ Woken(c)
              \/ (\E end \in PopEnds : Pop(c, end)) \/ TestDrained(c)

QueueNext ==
    \/ \E p \in Producers : Produce(p)
    \/ \E c \in Consumers : Consume(c) \/ SpuriousWakeup(c)

QueueSpec == QueueInit /\ [][QueueNext]_queueVars

\* Threads are scheduled: a thread that has started a push ends it, and the
\* consumer runs while it can.  A mutex that stays contended may starve a
\* thread under weak fairness, so the steps that take one are strongly fair.
\* Nothing makes a producer push, nor a condition variable wake spuriously.
FairQueueSpec ==
    /\ QueueSpec
    /\ \A p \in Producers : SF_queueVars(Notify(p))
    /\ \A c \in Consumers : SF_queueVars(Consume(c))

------------------------------------------------------------------------------
TypeOK == /\ mRawQueue \in Seq(1 .. pushed)
          /\ mScopedMutex \in Producers \cup {NoThread}
          /\ mUniqueMutex \in Consumers \cup {NoThread}
          /\ pc \in [Threads -> ProducerPc \cup ConsumerPc]
          /\ \A p \in Producers : pc[p] \in ProducerPc
          /\ \A c \in Consumers : pc[c] \in ConsumerPc
          /\ pushed \in 0 .. MaxPush
          /\ taken \in SUBSET (1 .. pushed)

\* The mutexes do their work: between its emplace and the end of its scope a
\* push is alone, and so is a consumer between its lock and its wait.
Exclusion ==
    /\ \A p \in Producers : pc[p] = "emplaced" <=> mScopedMutex = p
    /\ \A c \in Consumers : pc[c] = "locked" <=> mUniqueMutex = c

\* FIFO, as the Server uses it (push_back, pop_front): what has been taken is
\* a prefix of the pushes and the deque is the rest of them in order, so no
\* message overtakes another, is lost or comes out twice.
Fifo == /\ taken = 1 .. (pushed - Len(mRawQueue))
        /\ \A i \in 1 .. Len(mRawQueue) : mRawQueue[i] = pushed - Len(mRawQueue) + i

\* A single consumer that wait() or the drain loop has let through finds an
\* item: no pop on an empty deque (undefined behaviour), spurious wakeups and
\* pushes in between included.
PopFindsItem == \A c \in Consumers : pc[c] = "ready" => mRawQueue # <<>>

\* A push always returns: mScopedMutex is asked for before mUniqueMutex in a
\* push and never the other way round in wait(), so nobody waits in a circle.
PushReturns == \A p \in Producers : (pc[p] = "emplaced") ~> (pc[p] = "idle")

\* A consumer that is blocked when a push has still to notify is released by
\* that push, and takes an item: the wakeup is lost only if the notification
\* precedes the block.
SleeperServed == \A p \in Producers, c \in Consumers :
    (pc[c] = "waiting" /\ pc[p] = "emplaced") ~> (pc[c] = "drain")

\* What wait() is for (and what Server::update relies on): every message that
\* is pushed is taken in the end.
EveryPushTaken == \A n \in 1 .. MaxPush : (pushed >= n) ~> (n \in taken)
==============================================================================
