-------------------------- MODULE RepositoryManager --------------------------
(***************************************************************************)
(* DataAccess::PostgreRepositoryManager: callers push requests, each a     *)
(* packaged_task with its future, into a priority queue; one handler       *)
(* thread pops and runs them.                                              *)
(*                                                                         *)
(* pushRequest and privatePopRequest hold mQueueMutex; empty() does not,   *)
(* and the handler polls it.  A push is therefore two steps: a read of     *)
(* empty() that falls between them is a data race and returns either.      *)
(***************************************************************************)
EXTENDS Naturals, FiniteSets

CONSTANTS Callers,      \* threads that call pushRequest and get() its future
          Work,         \* the repository calls that a request can hold
          Priorities,   \* the ePriority values in use
          NoCaller,     \* the holder of a free mQueueMutex
          MaxPush       \* bound: requests in a behaviour

ASSUME ManagerAssumption ==
    /\ NoCaller \notin Callers
    /\ Priorities \subseteq Nat
    /\ MaxPush \in Nat

VARIABLES mQueue,         \* the requests in the priority queue
          mQueueMutex,    \* the caller inside pushRequest, or NoCaller
          mHandlerState,  \* the atomic flag
          handler,        \* where the handler thread is
          running,        \* the request that it has popped
          caller,         \* where every caller is
          mine,           \* the request of a caller's last push
          future,         \* per request id: "pending", "value", "exception" or "broken"
          runs            \* history: how often the task of every id has run

queueVars == <<mQueue, mQueueMutex>>
handlerVars == <<handler, running, runs>>
callerVars == <<caller, mine>>
managerVars == <<queueVars, mHandlerState, handlerVars, callerVars, future>>

Ids == 1 .. MaxPush
Request == [id : Ids, priority : Priorities, work : Work]
NoRequest == [id |-> 0]
Pushed == DOMAIN future

ManagerInit ==
    /\ mQueue = {} /\ mQueueMutex = NoCaller
    /\ mHandlerState = TRUE
    /\ handler = "none" /\ running = NoRequest
    /\ caller = [c \in Callers |-> "idle"] /\ mine = [c \in Callers |-> NoRequest]
    /\ future = [i \in {} |-> "pending"] /\ runs = [i \in Ids |-> 0]

------------------------------------------------------------------------------
(* Callers.                                                                *)

\* pushRequest, up to the push: the lock is taken, the task and its future exist.
PushRequest(c, w, p) ==
    /\ caller[c] = "idle" /\ mQueueMutex = NoCaller /\ handler # "destroyed"
    /\ Cardinality(Pushed) < MaxPush
    /\ LET id == Cardinality(Pushed) + 1
       IN  /\ mine' = [mine EXCEPT ![c] = [id |-> id, priority |-> p, work |-> w]]
           /\ future' = [i \in Pushed \cup {id} |-> IF i = id THEN "pending" ELSE future[i]]
    /\ mQueueMutex' = c
    /\ caller' = [caller EXCEPT ![c] = "pushing"]
    /\ UNCHANGED <<mQueue, mHandlerState, handlerVars>>

\* mQueue.push, and the end of the scope gives the lock back.
QueuePush(c) ==
    /\ caller[c] = "pushing"
    /\ mQueue' = mQueue \cup {mine[c]}
    /\ mQueueMutex' = NoCaller
    /\ caller' = [caller EXCEPT ![c] = "waiting"]
    /\ UNCHANGED <<mHandlerState, handlerVars, mine, future>>

\* FutureResult::get(): returns the value, or throws what the task has thrown.
Get(c) ==
    /\ caller[c] = "waiting" /\ future[mine[c].id] # "pending"
    /\ caller' = [caller EXCEPT ![c] = "idle"]
    /\ UNCHANGED <<queueVars, mHandlerState, handlerVars, mine, future>>

------------------------------------------------------------------------------
(* The handler thread.                                                     *)

HandleRequests ==
    /\ handler = "none"
    /\ handler' = "state"
    /\ UNCHANGED <<queueVars, mHandlerState, running, runs, callerVars, future>>

\* while (mHandlerState)
TestState ==
    /\ handler = "state"
    /\ handler' = IF mHandlerState THEN "empty" ELSE "exited"
    /\ UNCHANGED <<queueVars, mHandlerState, running, runs, callerVars, future>>

\* What an unlocked mQueue.empty() may read.
EmptyReads == {mQueue = {}} \cup (IF mQueueMutex = NoCaller THEN {} ELSE BOOLEAN)

TestEmpty ==
    /\ handler = "empty"
    /\ \E isEmpty \in EmptyReads : handler' = IF isEmpty THEN "state" ELSE "pop"
    /\ UNCHANGED <<queueVars, mHandlerState, running, runs, callerVars, future>>

\* top() is a request of the highest priority; the heap keeps no order among
\* equals.
Top == {r \in mQueue : \A s \in mQueue : s.priority <= r.priority}

PopRequest_Keep ==
    /\ handler = "pop" /\ mQueueMutex = NoCaller
    /\ \E r \in Top : running' = r /\ mQueue' = mQueue
    /\ handler' = "run"
    /\ UNCHANGED <<mQueueMutex, mHandlerState, runs, callerVars, future>>
PopRequest_Discard ==
    /\ handler = "pop" /\ mQueueMutex = NoCaller
    /\ \E r \in Top : running' = r /\ mQueue' = mQueue \ {r}
    /\ handler' = "state"
    /\ UNCHANGED <<mQueueMutex, mHandlerState, runs, callerVars, future>>
PopRequest ==
    /\ handler = "pop" /\ mQueueMutex = NoCaller
    /\ \E r \in Top : running' = r /\ mQueue' = mQueue \ {r}
    /\ handler' = "run"
    /\ UNCHANGED <<mQueueMutex, mHandlerState, runs, callerVars, future>>

\* The task stores the value of the repository call, or its exception.
RunRequest_PopAgain(outcome) ==
    /\ handler = "run"
    /\ future' = [future EXCEPT ![running.id] = outcome]
    /\ runs' = [runs EXCEPT ![running.id] = @ + 1]
    /\ handler' = "pop"
    /\ UNCHANGED <<queueVars, mHandlerState, running, callerVars>>
RunRequest(outcome) ==
    /\ handler = "run"
    /\ future' = [future EXCEPT ![running.id] = outcome]
    /\ runs' = [runs EXCEPT ![running.id] = @ + 1]
    /\ handler' = "state"
    /\ UNCHANGED <<queueVars, mHandlerState, running, callerVars>>

------------------------------------------------------------------------------
StopHandler ==
    /\ mHandlerState' = FALSE
    /\ UNCHANGED <<queueVars, handlerVars, callerVars, future>>

\* ~PostgreRepositoryManager: the handler is joined, then the queue goes and
\* with it the promises of the tasks that it still holds.
Destroy ==
    /\ handler = "exited"
    /\ handler' = "destroyed"
    /\ mQueue' = {}
    /\ future' = [i \in Pushed |-> IF \E r \in mQueue : r.id = i THEN "broken" ELSE future[i]]
    /\ UNCHANGED <<mQueueMutex, mHandlerState, running, runs, callerVars>>

HandlerStep(Outcomes) == TestState \/ TestEmpty \/ PopRequest \/ \E o \in Outcomes : RunRequest(o)

\* The owner of the manager, which destroys it, is not inside pushRequest then.
ManagerNext ==
    \/ \E c \in Callers : \/ \E w \in Work, p \in Priorities : PushRequest(c, w, p)
                          \/ QueuePush(c) \/ Get(c)
    \/ HandleRequests \/ HandlerStep({"value", "exception"}) \/ StopHandler
    \/ (Destroy /\ \A c \in Callers : caller[c] # "pushing")

ManagerSpec == ManagerInit /\ [][ManagerNext]_managerVars

------------------------------------------------------------------------------
ManagerTypeOK ==
    /\ mQueue \subseteq Request
    /\ mQueueMutex \in Callers \cup {NoCaller}
    /\ mHandlerState \in BOOLEAN
    /\ handler \in {"none", "state", "empty", "pop", "run", "exited", "destroyed"}
    /\ running \in Request \cup {NoRequest}
    /\ caller \in [Callers -> {"idle", "pushing", "waiting"}]
    /\ mine \in [Callers -> Request \cup {NoRequest}]
    /\ Pushed \subseteq Ids
    /\ future \in [Pushed -> {"pending", "value", "exception", "broken"}]
    /\ runs \in [Ids -> Nat]

\* privatePopRequest is noexcept and calls top() without a test: it must never
\* find the queue empty, although empty() was read without the lock.
PopFindsRequest == handler = "pop" /\ mQueueMutex = NoCaller => mQueue # {}

\* A task runs at most once, and its future is ready exactly when it has run.
RunsOnce ==
    /\ \A i \in Ids : runs[i] <= 1
    /\ \A i \in Pushed : future[i] \in {"value", "exception"} <=> runs[i] = 1

\* Whoever waits for a future has a task that is queued, running or done: no
\* request falls out between the queue and the handler, and none is there twice.
NoRequestForgotten ==
    \A c \in Callers : caller[c] = "waiting" =>
        \/ future[mine[c].id] # "pending"
        \/ mine[c] \in mQueue /\ running # mine[c]
        \/ mine[c] \notin mQueue /\ running = mine[c] /\ handler = "run"
==============================================================================
