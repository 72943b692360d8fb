---------------------------- MODULE Server_Proofs ----------------------------
(***************************************************************************)
(* Proofs about RepositoryManager, for any number of callers, requests and *)
(* priorities, and about Server, for any clients, users, requests and      *)
(* bounds.                                                                 *)
(*                                                                         *)
(* The inductive invariant of the manager follows an id through its life:  *)
(* it is given out once, its request is being pushed, queued, run or done, *)
(* and never two of these at once.                                         *)
(*                                                                         *)
(* The server drives its manager as the manager's own specification        *)
(* allows: every behaviour of Spec is one of ManagerSpec, so what is proved*)
(* of the manager holds of the server.  Then, what the main thread makes   *)
(* of the manager by waiting for every future: one request at a time, run  *)
(* as the user of its connection.  Last, that a broadcast leaves no dead   *)
(* connection in the list, and that the answers a client gets pair up with *)
(* its requests.                                                           *)
(***************************************************************************)
EXTENDS Server, FiniteSetTheorems, Selections_Proofs

------------------------------------------------------------------------------
(* The manager.                                                            *)

USE ManagerAssumption

\* Ids are given out in order.
InOrder == \E n \in 0 .. MaxPush : Pushed = 1 .. n

\* Whoever is inside pushRequest holds the mutex, and nobody else does.
Mutex == \A c \in Callers : caller[c] = "pushing" <=> mQueueMutex = c

\* The queue holds an id once, and only ids whose task has not run.
Queue == /\ \A r, s \in mQueue : r.id = s.id => r = s
         /\ \A r \in mQueue : r.id \in Pushed /\ future[r.id] = "pending"

\* The request that runs is not queued as well; any other that has been popped
\* is done.
Running ==
    /\ handler = "run" => running \in Request /\ \A r \in mQueue : r.id # running.id
    /\ running \in Request => /\ running.id \in Pushed
                              /\ handler = "run" <=> future[running.id] = "pending"

\* A request that is being pushed is nowhere else yet.
Pushing == \A c \in Callers : caller[c] = "pushing" =>
    /\ mine[c] \in Request /\ mine[c].id \in Pushed /\ future[mine[c].id] = "pending"
    /\ \A r \in mQueue : r.id # mine[c].id
    /\ handler = "run" => running.id # mine[c].id

\* One that was pushed is queued, running or done.
Waiting == \A c \in Callers : caller[c] = "waiting" =>
    /\ mine[c] \in Request /\ mine[c].id \in Pushed
    /\ future[mine[c].id] = "pending" =>
         mine[c] \in mQueue \/ (handler = "run" /\ running = mine[c])

\* A task has run exactly when its future holds what it returned or threw.
Ran == /\ RunsOnce
       /\ \A i \in Ids : runs[i] \in Nat /\ (i \notin Pushed => runs[i] = 0)

IInv == /\ ManagerTypeOK /\ InOrder /\ Mutex /\ Queue /\ Running /\ Pushing /\ Waiting /\ Ran
        /\ PopFindsRequest

LEMMA InitIInv == ManagerInit => IInv
<1> SUFFICES ASSUME ManagerInit PROVE IInv
  OBVIOUS
<1>1. Pushed = {} /\ InOrder
  <2>1. Pushed = {}
    BY DEF ManagerInit, Pushed
  <2>2. 1 .. 0 = {}
    OBVIOUS
  <2> QED
    BY <2>1, <2>2 DEF InOrder, ManagerAssumption
<1>2. ManagerTypeOK
  BY <1>1 DEF ManagerInit, ManagerTypeOK, Ids, NoRequest, Request, Pushed
<1> QED
  BY <1>1, <1>2 DEF ManagerInit, IInv, Mutex, Queue, Running, Pushing, Waiting, Ran, RunsOnce,
     PopFindsRequest, Ids, NoRequest, Request, ManagerAssumption


\* A new id is not in use: it joins the ids as a request that is being pushed.
LEMMA PushRequestStep ==
  ASSUME IInv, NEW c \in Callers, NEW w \in Work, NEW p \in Priorities, PushRequest(c, w, p)
  PROVE  IInv'
<1> DEFINE id == Cardinality(Pushed) + 1
           request == [id |-> id, priority |-> p, work |-> w]
<1>a. PICK n \in 0 .. MaxPush : Pushed = 1 .. n
  BY DEF IInv, InOrder
<1>b. Cardinality(Pushed) = n
  BY <1>a, FS_Interval
<1>c. id = n + 1 /\ id \in Ids /\ id \notin Pushed
  BY <1>a, <1>b DEF PushRequest, Ids
<1>d. request \in Request
  BY <1>c DEF Request
<1>e. /\ future' = [i \in Pushed \cup {id} |-> IF i = id THEN "pending" ELSE future[i]]
      /\ mine' = [mine EXCEPT ![c] = request]
      /\ caller' = [caller EXCEPT ![c] = "pushing"] /\ caller[c] = "idle"
      /\ mQueueMutex = NoCaller /\ mQueueMutex' = c
      /\ UNCHANGED <<mQueue, mHandlerState, handler, running, runs>>
  BY DEF PushRequest, handlerVars
<1>f. Pushed' = Pushed \cup {id} /\ future'[id] = "pending" /\ \A i \in Pushed : future'[i] = future[i]
  BY <1>c, <1>e DEF Pushed
<1> HIDE DEF id, request
<1>g. request.id = id
  BY DEF request
<1>1. ManagerTypeOK'
  BY <1>c, <1>d, <1>e, <1>f, <1>g DEF IInv, ManagerTypeOK, Pushed, NoRequest
<1>2. InOrder'
  BY <1>a, <1>b, <1>c, <1>f DEF InOrder, Ids
<1>3. Mutex'
  BY <1>c, <1>d, <1>e, <1>f, <1>g DEF IInv, Mutex, ManagerTypeOK
<1>4. Queue'
  BY <1>c, <1>d, <1>e, <1>f, <1>g DEF IInv, Queue, Pushing, Running, ManagerTypeOK
<1>5. Running'
  BY <1>c, <1>d, <1>e, <1>f, <1>g DEF IInv, Running, Queue, Pushing, ManagerTypeOK, Request,
     NoRequest, Ids
<1>6. Pushing'
  BY <1>c, <1>d, <1>e, <1>f, <1>g DEF IInv, Pushing, Mutex, Queue, Running, ManagerTypeOK
<1>7. Waiting'
  BY <1>c, <1>d, <1>e, <1>f, <1>g DEF IInv, Waiting, Pushing, Running, ManagerTypeOK
<1>8. Ran'
  BY <1>c, <1>d, <1>e, <1>f, <1>g DEF IInv, Ran, RunsOnce, Running, ManagerTypeOK, Request, Ids
<1>9. PopFindsRequest'
  BY <1>c, <1>d, <1>e, <1>f, <1>g DEF IInv, PopFindsRequest, Mutex, ManagerTypeOK
<1> QED
  BY <1>1, <1>2, <1>3, <1>4, <1>5, <1>6, <1>7, <1>8, <1>9 DEF IInv

\* The request moves from its caller to the queue.
LEMMA QueuePushStep ==
  ASSUME IInv, NEW c \in Callers, QueuePush(c)
  PROVE  IInv'
<1>1. ManagerTypeOK'
  BY DEF IInv, QueuePush, Pushing, ManagerTypeOK, Request, NoRequest, Ids, Pushed, handlerVars
<1>2. InOrder'
  BY DEF IInv, QueuePush, InOrder, Pushed, handlerVars
<1>3. Mutex'
  BY DEF IInv, QueuePush, Mutex, ManagerTypeOK, handlerVars
<1>4. Queue'
  BY DEF IInv, QueuePush, Queue, Pushing, Running, ManagerTypeOK, Pushed, handlerVars
<1>5. Running'
  BY DEF IInv, QueuePush, Running, Queue, Pushing, ManagerTypeOK, Pushed, Request, NoRequest,
     Ids, handlerVars
<1>6. Pushing'
  BY DEF IInv, QueuePush, Pushing, Mutex, Queue, Running, ManagerTypeOK, Pushed, handlerVars
<1>7. Waiting'
  BY DEF IInv, QueuePush, Waiting, Pushing, Running, ManagerTypeOK, Pushed, handlerVars
<1>8. Ran'
  BY DEF IInv, QueuePush, Ran, RunsOnce, Running, ManagerTypeOK, Pushed, Request, Ids,
     handlerVars
<1>9. PopFindsRequest'
  BY DEF IInv, QueuePush, PopFindsRequest, Mutex, ManagerTypeOK, handlerVars
<1> QED
  BY <1>1, <1>2, <1>3, <1>4, <1>5, <1>6, <1>7, <1>8, <1>9 DEF IInv

\* A caller that is answered goes on.
LEMMA GetStep ==
  ASSUME IInv, NEW c \in Callers, Get(c)
  PROVE  IInv'
<1>1. ManagerTypeOK'
  BY DEF IInv, Get, ManagerTypeOK, Request, NoRequest, Ids, Pushed, queueVars, handlerVars
<1>2. InOrder'
  BY DEF IInv, Get, InOrder, Pushed, queueVars, handlerVars
<1>3. Mutex'
  BY DEF IInv, Get, Mutex, ManagerTypeOK, queueVars, handlerVars
<1>4. Queue'
  BY DEF IInv, Get, Queue, Pushing, Running, ManagerTypeOK, Pushed, queueVars, handlerVars
<1>5. Running'
  BY DEF IInv, Get, Running, Queue, Pushing, ManagerTypeOK, Pushed, Request, NoRequest, Ids,
     queueVars, handlerVars
<1>6. Pushing'
  BY DEF IInv, Get, Pushing, Mutex, Queue, Running, ManagerTypeOK, Pushed, queueVars,
     handlerVars
<1>7. Waiting'
  BY DEF IInv, Get, Waiting, Pushing, Running, ManagerTypeOK, Pushed, queueVars, handlerVars
<1>8. Ran'
  BY DEF IInv, Get, Ran, RunsOnce, Running, ManagerTypeOK, Pushed, Request, Ids, queueVars,
     handlerVars
<1>9. PopFindsRequest'
  BY DEF IInv, Get, PopFindsRequest, Mutex, ManagerTypeOK, queueVars, handlerVars
<1> QED
  BY <1>1, <1>2, <1>3, <1>4, <1>5, <1>6, <1>7, <1>8, <1>9 DEF IInv

\* The handler thread starts.
LEMMA HandleRequestsStep ==
  ASSUME IInv, HandleRequests
  PROVE  IInv'
<1>1. ManagerTypeOK'
  BY DEF IInv, HandleRequests, ManagerTypeOK, Request, NoRequest, Ids, Pushed, queueVars,
     callerVars
<1>2. InOrder'
  BY DEF IInv, HandleRequests, InOrder, Pushed, queueVars, callerVars
<1>3. Mutex'
  BY DEF IInv, HandleRequests, Mutex, ManagerTypeOK, queueVars, callerVars
<1>4. Queue'
  BY DEF IInv, HandleRequests, Queue, Pushing, Running, ManagerTypeOK, Pushed, queueVars,
     callerVars
<1>5. Running'
  BY DEF IInv, HandleRequests, Running, Queue, Pushing, ManagerTypeOK, Pushed, Request,
     NoRequest, Ids, queueVars, callerVars
<1>6. Pushing'
  BY DEF IInv, HandleRequests, Pushing, Mutex, Queue, Running, ManagerTypeOK, Pushed, queueVars,
     callerVars
<1>7. Waiting'
  BY DEF IInv, HandleRequests, Waiting, Pushing, Running, ManagerTypeOK, Pushed, queueVars,
     callerVars
<1>8. Ran'
  BY DEF IInv, HandleRequests, Ran, RunsOnce, Running, ManagerTypeOK, Pushed, Request, Ids,
     queueVars, callerVars
<1>9. PopFindsRequest'
  BY DEF IInv, HandleRequests, PopFindsRequest, Mutex, ManagerTypeOK, queueVars, callerVars
<1> QED
  BY <1>1, <1>2, <1>3, <1>4, <1>5, <1>6, <1>7, <1>8, <1>9 DEF IInv

\* The handler reads the flag.
LEMMA TestStateStep ==
  ASSUME IInv, TestState
  PROVE  IInv'
<1>1. ManagerTypeOK'
  BY DEF IInv, TestState, ManagerTypeOK, Request, NoRequest, Ids, Pushed, queueVars, callerVars
<1>2. InOrder'
  BY DEF IInv, TestState, InOrder, Pushed, queueVars, callerVars
<1>3. Mutex'
  BY DEF IInv, TestState, Mutex, ManagerTypeOK, queueVars, callerVars
<1>4. Queue'
  BY DEF IInv, TestState, Queue, Pushing, Running, ManagerTypeOK, Pushed, queueVars, callerVars
<1>5. Running'
  BY DEF IInv, TestState, Running, Queue, Pushing, ManagerTypeOK, Pushed, Request, NoRequest,
     Ids, queueVars, callerVars
<1>6. Pushing'
  BY DEF IInv, TestState, Pushing, Mutex, Queue, Running, ManagerTypeOK, Pushed, queueVars,
     callerVars
<1>7. Waiting'
  BY DEF IInv, TestState, Waiting, Pushing, Running, ManagerTypeOK, Pushed, queueVars,
     callerVars
<1>8. Ran'
  BY DEF IInv, TestState, Ran, RunsOnce, Running, ManagerTypeOK, Pushed, Request, Ids,
     queueVars, callerVars
<1>9. PopFindsRequest'
  BY DEF IInv, TestState, PopFindsRequest, Mutex, ManagerTypeOK, queueVars, callerVars
<1> QED
  BY <1>1, <1>2, <1>3, <1>4, <1>5, <1>6, <1>7, <1>8, <1>9 DEF IInv

\* empty() says no only if there is a request, or one is being pushed.
LEMMA TestEmptyStep ==
  ASSUME IInv, TestEmpty
  PROVE  IInv'
<1>1. ManagerTypeOK'
  BY DEF IInv, TestEmpty, EmptyReads, ManagerTypeOK, Request, NoRequest, Ids, Pushed, queueVars,
     callerVars
<1>2. InOrder'
  BY DEF IInv, TestEmpty, EmptyReads, InOrder, Pushed, queueVars, callerVars
<1>3. Mutex'
  BY DEF IInv, TestEmpty, EmptyReads, Mutex, ManagerTypeOK, queueVars, callerVars
<1>4. Queue'
  BY DEF IInv, TestEmpty, EmptyReads, Queue, Pushing, Running, ManagerTypeOK, Pushed, queueVars,
     callerVars
<1>5. Running'
  BY DEF IInv, TestEmpty, EmptyReads, Running, Queue, Pushing, ManagerTypeOK, Pushed, Request,
     NoRequest, Ids, queueVars, callerVars
<1>6. Pushing'
  BY DEF IInv, TestEmpty, EmptyReads, Pushing, Mutex, Queue, Running, ManagerTypeOK, Pushed,
     queueVars, callerVars
<1>7. Waiting'
  BY DEF IInv, TestEmpty, EmptyReads, Waiting, Pushing, Running, ManagerTypeOK, Pushed,
     queueVars, callerVars
<1>8. Ran'
  BY DEF IInv, TestEmpty, EmptyReads, Ran, RunsOnce, Running, ManagerTypeOK, Pushed, Request,
     Ids, queueVars, callerVars
<1>9. PopFindsRequest'
  BY DEF IInv, TestEmpty, EmptyReads, PopFindsRequest, Mutex, ManagerTypeOK, queueVars,
     callerVars
<1> QED
  BY <1>1, <1>2, <1>3, <1>4, <1>5, <1>6, <1>7, <1>8, <1>9 DEF IInv

\* The request moves from the queue to the handler.
LEMMA PopRequestStep ==
  ASSUME IInv, PopRequest
  PROVE  IInv'
<1>1. ManagerTypeOK'
  BY DEF IInv, PopRequest, Top, ManagerTypeOK, Request, NoRequest, Ids, Pushed, callerVars
<1>2. InOrder'
  BY DEF IInv, PopRequest, Top, InOrder, Pushed, callerVars
<1>3. Mutex'
  BY DEF IInv, PopRequest, Top, Mutex, ManagerTypeOK, callerVars
<1>4. Queue'
  BY DEF IInv, PopRequest, Top, Queue, Pushing, Running, ManagerTypeOK, Pushed, callerVars
<1>5. Running'
  BY DEF IInv, PopRequest, Top, Running, Queue, Pushing, ManagerTypeOK, Pushed, Request,
     NoRequest, Ids, callerVars
<1>6. Pushing'
  BY DEF IInv, PopRequest, Top, Pushing, Mutex, Queue, Running, ManagerTypeOK, Pushed,
     callerVars
<1>7. Waiting'
  BY DEF IInv, PopRequest, Top, Waiting, Pushing, Running, ManagerTypeOK, Pushed, callerVars
<1>8. Ran'
  BY DEF IInv, PopRequest, Top, Ran, RunsOnce, Running, ManagerTypeOK, Pushed, Request, Ids,
     callerVars
<1>9. PopFindsRequest'
  BY DEF IInv, PopRequest, Top, PopFindsRequest, Mutex, ManagerTypeOK, callerVars
<1> QED
  BY <1>1, <1>2, <1>3, <1>4, <1>5, <1>6, <1>7, <1>8, <1>9 DEF IInv

\* The task runs, for the only time, and its future is set.
LEMMA RunRequestStep ==
  ASSUME IInv, NEW o \in {"value", "exception"}, RunRequest(o)
  PROVE  IInv'
<1>1. ManagerTypeOK'
  BY DEF IInv, RunRequest, Running, ManagerTypeOK, Request, NoRequest, Ids, Pushed, queueVars,
     callerVars
<1>2. InOrder'
  BY DEF IInv, RunRequest, InOrder, Pushed, queueVars, callerVars
<1>3. Mutex'
  BY DEF IInv, RunRequest, Mutex, ManagerTypeOK, queueVars, callerVars
<1>4. Queue'
  BY DEF IInv, RunRequest, Queue, Pushing, Running, ManagerTypeOK, Pushed, queueVars, callerVars
<1>5. Running'
  BY DEF IInv, RunRequest, Running, Queue, Pushing, ManagerTypeOK, Pushed, Request, NoRequest,
     Ids, queueVars, callerVars
<1>6. Pushing'
  BY DEF IInv, RunRequest, Pushing, Mutex, Queue, Running, ManagerTypeOK, Pushed, queueVars,
     callerVars
<1>7. Waiting'
  BY DEF IInv, RunRequest, Waiting, Pushing, Running, ManagerTypeOK, Pushed, queueVars,
     callerVars
<1>8. Ran'
  BY DEF IInv, RunRequest, Ran, RunsOnce, Running, ManagerTypeOK, Pushed, Request, Ids,
     queueVars, callerVars
<1>9. PopFindsRequest'
  BY DEF IInv, RunRequest, PopFindsRequest, Mutex, ManagerTypeOK, queueVars, callerVars
<1> QED
  BY <1>1, <1>2, <1>3, <1>4, <1>5, <1>6, <1>7, <1>8, <1>9 DEF IInv

\* The flag is set.
LEMMA StopHandlerStep ==
  ASSUME IInv, StopHandler
  PROVE  IInv'
<1>1. ManagerTypeOK'
  BY DEF IInv, StopHandler, ManagerTypeOK, Request, NoRequest, Ids, Pushed, queueVars,
     handlerVars, callerVars
<1>2. InOrder'
  BY DEF IInv, StopHandler, InOrder, Pushed, queueVars, handlerVars, callerVars
<1>3. Mutex'
  BY DEF IInv, StopHandler, Mutex, ManagerTypeOK, queueVars, handlerVars, callerVars
<1>4. Queue'
  BY DEF IInv, StopHandler, Queue, Pushing, Running, ManagerTypeOK, Pushed, queueVars,
     handlerVars, callerVars
<1>5. Running'
  BY DEF IInv, StopHandler, Running, Queue, Pushing, ManagerTypeOK, Pushed, Request, NoRequest,
     Ids, queueVars, handlerVars, callerVars
<1>6. Pushing'
  BY DEF IInv, StopHandler, Pushing, Mutex, Queue, Running, ManagerTypeOK, Pushed, queueVars,
     handlerVars, callerVars
<1>7. Waiting'
  BY DEF IInv, StopHandler, Waiting, Pushing, Running, ManagerTypeOK, Pushed, queueVars,
     handlerVars, callerVars
<1>8. Ran'
  BY DEF IInv, StopHandler, Ran, RunsOnce, Running, ManagerTypeOK, Pushed, Request, Ids,
     queueVars, handlerVars, callerVars
<1>9. PopFindsRequest'
  BY DEF IInv, StopHandler, PopFindsRequest, Mutex, ManagerTypeOK, queueVars, handlerVars,
     callerVars
<1> QED
  BY <1>1, <1>2, <1>3, <1>4, <1>5, <1>6, <1>7, <1>8, <1>9 DEF IInv

\* Nobody is pushing, and the futures of the queue are broken.
LEMMA DestroyStep ==
  ASSUME IInv, Destroy, \A c \in Callers : caller[c] # "pushing"
  PROVE  IInv'
<1>1. ManagerTypeOK'
  BY DEF IInv, Destroy, ManagerTypeOK, Request, NoRequest, Ids, Pushed, callerVars
<1>2. InOrder'
  BY DEF IInv, Destroy, InOrder, Pushed, callerVars
<1>3. Mutex'
  BY DEF IInv, Destroy, Mutex, ManagerTypeOK, callerVars
<1>4. Queue'
  BY DEF IInv, Destroy, Queue, Pushing, Running, ManagerTypeOK, Pushed, callerVars
<1>5. Running'
  BY DEF IInv, Destroy, Running, Queue, Pushing, ManagerTypeOK, Pushed, Request, NoRequest, Ids,
     callerVars
<1>6. Pushing'
  BY DEF IInv, Destroy, Pushing, Mutex, Queue, Running, ManagerTypeOK, Pushed, callerVars
<1>7. Waiting'
  BY DEF IInv, Destroy, Waiting, Pushing, Running, ManagerTypeOK, Pushed, callerVars
<1>8. Ran'
  BY DEF IInv, Destroy, Queue, Ran, RunsOnce, Running, ManagerTypeOK, Pushed, Request, Ids,
     callerVars
<1>9. PopFindsRequest'
  BY DEF IInv, Destroy, PopFindsRequest, Mutex, ManagerTypeOK, callerVars
<1> QED
  BY <1>1, <1>2, <1>3, <1>4, <1>5, <1>6, <1>7, <1>8, <1>9 DEF IInv

LEMMA NextIInv == IInv /\ [ManagerNext]_managerVars => IInv'
<1> SUFFICES ASSUME IInv, [ManagerNext]_managerVars PROVE IInv'
  OBVIOUS
<1>1. CASE \E c \in Callers : (\E w \in Work, p \in Priorities : PushRequest(c, w, p))
                              \/ QueuePush(c) \/ Get(c)
  BY <1>1, PushRequestStep, QueuePushStep, GetStep
<1>2. CASE HandleRequests \/ StopHandler
  BY <1>2, HandleRequestsStep, StopHandlerStep
<1>3. CASE HandlerStep({"value", "exception"})
  BY <1>3, TestStateStep, TestEmptyStep, PopRequestStep, RunRequestStep DEF HandlerStep
<1>4. CASE Destroy /\ \A c \in Callers : caller[c] # "pushing"
  BY <1>4, DestroyStep
<1>5. CASE UNCHANGED managerVars
  <2>1. UNCHANGED <<mQueue, mQueueMutex, mHandlerState, handler, running, runs, caller, mine, future>>
    BY <1>5 DEF managerVars, queueVars, handlerVars, callerVars
  <2> QED
    BY <2>1 DEF IInv, ManagerTypeOK, InOrder, Mutex, Queue, Running, Pushing, Waiting, Ran, RunsOnce,
       PopFindsRequest, Pushed
<1> QED
  BY <1>1, <1>2, <1>3, <1>4, <1>5 DEF ManagerNext

\* The life of a request, for any callers, priorities and number of requests.
THEOREM LifeOfARequest == ManagerSpec => []IInv
  BY InitIInv, NextIInv, PTL DEF ManagerSpec

\* Type correctness.
THEOREM ManagerTyped == ManagerSpec => []ManagerTypeOK
<1>1. IInv => ManagerTypeOK
  BY DEF IInv
<1> QED
  BY <1>1, LifeOfARequest, PTL

\* privatePopRequest calls top() on the queue without a test, after an empty()
\* that was read without the lock: it always finds a request.
THEOREM PopIsSafe == ManagerSpec => []PopFindsRequest
<1>1. IInv => PopFindsRequest
  BY DEF IInv
<1> QED
  BY <1>1, LifeOfARequest, PTL

\* A repository call is made at most once for a request, and its future is
\* ready exactly when it was made.
THEOREM EveryTaskRunsOnce == ManagerSpec => []RunsOnce
<1>1. IInv => RunsOnce
  BY DEF IInv, Ran
<1> QED
  BY <1>1, LifeOfARequest, PTL

\* The request of whoever waits is queued, running or done, and only one of
\* these: nothing is lost between the queue and the handler thread.
THEOREM NothingIsForgotten == ManagerSpec => []NoRequestForgotten
<1>1. IInv => NoRequestForgotten
  <2> SUFFICES ASSUME IInv, NEW c \in Callers, caller[c] = "waiting", future[mine[c].id] = "pending"
               PROVE  \/ mine[c] \in mQueue /\ running # mine[c]
                      \/ mine[c] \notin mQueue /\ running = mine[c] /\ handler = "run"
    BY DEF NoRequestForgotten
  <2>1. CASE mine[c] \in mQueue
    BY <2>1 DEF IInv, Waiting, Running
  <2>2. CASE handler = "run" /\ running = mine[c]
    BY <2>2 DEF IInv, Running
  <2> QED
    BY <2>1, <2>2 DEF IInv, Waiting
<1> QED
  BY <1>1, LifeOfARequest, PTL

HIDE ManagerAssumption

------------------------------------------------------------------------------
(* The server.                                                             *)

USE ServerAssumption

AnyBody == {"none"} \cup {InBody(type) : type \in MessageType}
Message == [client : Clients, type : Requests, body : AnyBody, n : Nat]

\* The main thread is inside a request only while it awaits it, and the
\* messages it takes name clients and types that exist.
SInv == /\ caller \in [Callers -> {"idle", "pushing", "waiting"}]
        /\ caller["main"] # "idle" => mainAt \in {"awaiting", "crashed"}
        /\ userID \in [Clients -> Users \cup {1}]
        /\ asked \in [Clients -> Seq(Requests)]
        /\ mIncomingMessagesQueue \in Seq(Message)

------------------------------------------------------------------------------
(* The steps of the server, by what they do to the manager.                *)

Queued == mIncomingMessagesQueue' \in Seq(Message) /\ asked' \in [Clients -> Seq(Requests)]
SameUsers == userID' = userID /\ granted' = granted

\* The manager is left alone, and the main thread does not start or end a wait.
Quiet == /\ UNCHANGED managerVars /\ SameUsers
         /\ mainAt' \in {mainAt, "crashed"} \/ mainAt \notin {"awaiting", "crashed"}

Starts == HandleRequests /\ SameUsers /\ mainAt = "start"
Asks(m) == /\ m.type \in Requests \cap DOMAIN Answer /\ m.client \in Clients
           /\ \E p \in Priorities : PushRequest("main", WorkOf(m), p)
           /\ SameUsers /\ mainAt' = "awaiting"
Pushes == QueuePush("main") /\ SameUsers /\ mainAt = "awaiting" /\ mainAt' = "awaiting"
Gets == /\ Get("main")
        /\ SameUsers \/ \E c : \E u \in Users \cup {0} : LoggedIn(c, u)
Runs == Handler
Stops == StopHandler /\ SameUsers /\ mainAt = "stopping"
Ends == Destroy /\ SameUsers /\ mainAt = "destroying"

\* Whatever the buffer of a connection holds, it is a body that the switch knows.
LEMMA BufferTyped == ASSUME NEW types \in Seq(Requests)
                     PROVE  Received(types) \in AnyBody /\ Bodies(types) \subseteq AnyBody
<1> DEFINE full == {type \in MessageType : Restores(type)}
<1>1. Received(types) \in AnyBody
  <2>1. Only(types, full) \in Seq(full)
    BY OnlyType
  <2>2. CASE Only(types, full) = <<>>
    BY <2>2 DEF Received, AnyBody
  <2>3. CASE Only(types, full) # <<>>
    <3>1. Last(Only(types, full)) \in full
      BY <2>1, <2>3 DEF Last
    <3> QED BY <2>3, <3>1 DEF Received, AnyBody
  <2> QED BY <2>2, <2>3
<1>2. Bodies(types) \subseteq AnyBody
  BY DEF Bodies, AnyBody, Restores, MessageType
<1> QED BY <1>1, <1>2

\* What a read handler queues.
LEMMA QueuedMessage ==
  ASSUME SInv, NEW c \in Clients, QueueMessage(c)
  PROVE  \E type \in Requests, body \in AnyBody :
           /\ asked' = [asked EXCEPT ![c] = Append(@, type)]
           /\ mIncomingMessagesQueue' =
                Append(mIncomingMessagesQueue,
                       [client |-> c, type |-> type, body |-> body, n |-> Len(asked[c]) + 1])
<1>1. PICK type \in Requests :
        \E body \in IF reads[c] > 1 THEN Bodies(Append(asked[c], type)) ELSE {Received(Append(asked[c], type))} :
           /\ asked' = [asked EXCEPT ![c] = Append(@, type)]
           /\ mIncomingMessagesQueue' =
                Append(mIncomingMessagesQueue,
                       [client |-> c, type |-> type, body |-> body, n |-> Len(asked[c]) + 1])
  BY DEF QueueMessage
<1>2. Append(asked[c], type) \in Seq(Requests)
  BY DEF SInv
<1>3. (IF reads[c] > 1 THEN Bodies(Append(asked[c], type)) ELSE {Received(Append(asked[c], type))})
        \subseteq AnyBody
  BY <1>2, BufferTyped
<1> QED BY <1>1, <1>3

LEMMA IoSteps == ASSUME SInv, Io PROVE Quiet /\ Queued
<1>1. CASE \E c \in Clients : Accept(c) \/ SocketCloses(c)
  BY <1>1 DEF SInv, Accept, SocketCloses, Quiet, Queued, SameUsers, registry, network, history
<1>2. ASSUME NEW c \in Clients, QueueMessage(c) PROVE Quiet /\ Queued
  <2>2. PICK type \in Requests, body \in AnyBody :
           /\ asked' = [asked EXCEPT ![c] = Append(@, type)]
           /\ mIncomingMessagesQueue' =
                Append(mIncomingMessagesQueue,
                       [client |-> c, type |-> type, body |-> body, n |-> Len(asked[c]) + 1])
    BY <1>2, QueuedMessage
  <2>3. asked[c] \in Seq(Requests) /\ Len(asked[c]) + 1 \in Nat
    BY DEF SInv
  <2>4. [client |-> c, type |-> type, body |-> body, n |-> Len(asked[c]) + 1] \in Message
    BY <2>3 DEF Message
  <2>5. Queued
    BY <2>2, <2>3, <2>4 DEF SInv, Queued
  <2> QED
    BY <1>2, <2>5 DEF QueueMessage, Quiet, SameUsers, registry, network
<1>3. CASE AcceptThrows \/ PushConnection \/ PushRaces
  BY <1>3 DEF SInv, AcceptThrows, PushConnection, PushRaces, Quiet, Queued, SameUsers, registry,
     network, history
<1>4. CASE ConnectBack
  BY <1>4 DEF SInv, ConnectBack, Quiet, Queued, SameUsers, history
<1> QED
  BY <1>1, <1>2, <1>3, <1>4 DEF Io

\* Take pops the front of the queue, which is a message, and hands it to onMessage.
LEMMA TakeStep == ASSUME SInv, Take PROVE Queued /\ (Quiet \/ \E m \in Message : Asks(m))
<1> DEFINE m == mIncomingMessagesQueue[1]
<1>1. m \in Message /\ RemoveAt(mIncomingMessagesQueue, 1) \in Seq(Message)
  <2>1. /\ mIncomingMessagesQueue \in Seq(Message) /\ mIncomingMessagesQueue # <<>>
    BY DEF SInv, Take
  <2>2. m \in Message
    BY <2>1
  <2>3. RemoveAt(mIncomingMessagesQueue, 1) = <<>> \o Tail(mIncomingMessagesQueue)
    BY <2>1 DEF RemoveAt
  <2> QED
    BY <2>1, <2>2, <2>3
<1>2. Queued
  BY <1>1 DEF SInv, Take, NextIndex, Queued, unmoved
<1>3. SameUsers /\ mainAt = "drain" /\ Handle(m)
  BY DEF Take, NextIndex, SameUsers, unmoved
<1>4. Quiet \/ Asks(m)
  BY <1>1, <1>3 DEF Handle, Quiet, Asks, Message
<1> QED
  BY <1>1, <1>2, <1>4

\* The other steps of the main thread, by what they do to the manager.
LEMMA MainSteps ==
  ASSUME SInv, Main, ~Take
  PROVE  /\ Queued
         /\ Quiet \/ Starts \/ Pushes \/ Gets \/ Stops \/ Ends
<1> USE DEF SInv, Queued, Quiet, SameUsers
<1>1. CASE Start \/ WaitTest \/ WaitBlock \/ SpawnThreads \/ Drained \/ JoinThreads
  BY <1>1 DEF Start, WaitTest, WaitBlock, SpawnThreads, Drained, JoinThreads, Starts, unmoved
<1>2. CASE MainPushes
  BY <1>2 DEF MainPushes, Pushes, serverVars, history
<1>3. CASE SendAnswer
  <2>1. mIncomingMessagesQueue' = mIncomingMessagesQueue /\ asked' = asked /\ Get("main")
    BY <1>3 DEF SendAnswer
  <2>2. SameUsers \/ \E u \in Users \cup {0} : LoggedIn(current.client, u)
    BY <1>3 DEF SendAnswer
  <2> QED
    BY <2>1, <2>2 DEF Gets
<1>4. CASE AnswerThrows
  BY <1>4 DEF AnswerThrows, Gets, history
<1>5. CASE MessageAllClients \/ RemoveNulls \/ Erase
  BY <1>5 DEF MessageAllClients, RemoveNulls, Erase, registry, network, history
<1>6. CASE Stop \/ DestroyManager
  BY <1>6 DEF Stop, DestroyManager, Stops, Ends, unmoved
<1> QED
  BY <1>1, <1>2, <1>3, <1>4, <1>5, <1>6 DEF Main

\* Every step of the server is one of these.
LEMMA Steps ==
  ASSUME SInv, [Next]_vars
  PROVE  /\ Queued
         /\ Quiet \/ Starts \/ (\E m \in Message : Asks(m)) \/ Pushes \/ Gets \/ Runs \/ Stops \/ Ends
<1>1. CASE SpuriousWakeup
  BY <1>1 DEF SInv, SpuriousWakeup, Quiet, Queued, SameUsers, unmoved
<1>2. CASE Handler
  BY <1>2 DEF SInv, Handler, Runs, Queued, serverVars, history
<1>3. CASE UNCHANGED vars
  BY <1>3 DEF SInv, vars, serverVars, history, Quiet, Queued, SameUsers
<1> QED
  BY <1>1, <1>2, <1>3, IoSteps, TakeStep, MainSteps DEF Next

------------------------------------------------------------------------------
(* The server implements the specification of its manager.                 *)

LEMMA InitSInv == Init => SInv
  BY DEF Init, ManagerInit, SInv

LEMMA NextSInv == SInv /\ [Next]_vars => SInv'
<1> SUFFICES ASSUME SInv, [Next]_vars PROVE SInv'
  OBVIOUS
<1>1. Queued
  BY Steps
<1>2. CASE Quiet
  BY <1>1, <1>2 DEF SInv, Queued, Quiet, SameUsers, managerVars, callerVars
<1>3. CASE Starts \/ Stops \/ Ends
  BY <1>1, <1>3 DEF SInv, Queued, SameUsers, Starts, Stops, Ends, HandleRequests, StopHandler, Destroy,
     callerVars
<1>4. ASSUME NEW m \in Message, Asks(m) PROVE SInv'
  BY <1>1, <1>4 DEF SInv, Queued, SameUsers, Asks, PushRequest
<1>5. CASE Pushes
  BY <1>1, <1>5 DEF SInv, Queued, SameUsers, Pushes, QueuePush
<1>6. CASE Gets
  BY ZenonT(40), <1>1, <1>6 DEF SInv, Queued, SameUsers, Gets, Get, LoggedIn
<1>7. CASE Runs
  BY <1>1, <1>7 DEF SInv, Queued, Runs, Handler, HandlerStep, TestState, TestEmpty, PopRequest, RunRequest,
     callerVars, serverVars
<1> QED
  BY <1>2, <1>3, <1>4, <1>5, <1>6, <1>7, Steps

\* A request that the main thread asks for can be one of the manager's.
LEMMA WorkIsKnown == ASSUME SInv, NEW m \in Message, Asks(m) PROVE WorkOf(m) \in Work
<1>1. userID[m.client] \in Users \cup {1}
  BY DEF SInv, Message
<1>2. m.type \in Requests \cap DOMAIN Answer /\ m.client \in Clients
  BY DEF Asks
<1>3. WorkOf(m) \in [type : Requests \cap DOMAIN Answer, client : Clients, user : Users \cup {NoUser, 1}]
  BY <1>1, <1>2 DEF WorkOf
<1> QED
  BY <1>3, WorkAssumption

LEMMA StepsOfTheManager == SInv /\ [Next]_vars => [ManagerNext]_managerVars
<1> SUFFICES ASSUME SInv, [Next]_vars PROVE [ManagerNext]_managerVars
  OBVIOUS
<1>1. CASE Quiet
  BY <1>1 DEF Quiet
<1>2. CASE Starts \/ Stops
  BY <1>2 DEF Starts, Stops, ManagerNext
<1>3. ASSUME NEW m \in Message, Asks(m) PROVE ManagerNext
  BY <1>3, WorkIsKnown DEF Asks, ManagerNext
<1>4. CASE Pushes \/ Gets
  BY <1>4 DEF Pushes, Gets, ManagerNext
<1>5. CASE Runs
  BY <1>5 DEF Runs, Handler, HandlerStep, ManagerNext
<1>6. CASE Ends
  <2>1. \A c \in Callers : caller[c] # "pushing"
    BY <1>6 DEF SInv, Ends
  <2> QED
    BY <1>6, <2>1 DEF Ends, ManagerNext
<1> QED
  BY <1>1, <1>2, <1>3, <1>4, <1>5, <1>6, Steps

\* Every behaviour of the server is one of its manager: it never pushes from
\* two threads, never starts a second handler, and never destroys the manager
\* while a push is under way.
THEOREM ServerUsesManager == Spec => ManagerSpec
<1>1. Init => ManagerInit
  BY DEF Init
<1> QED
  BY <1>1, InitSInv, NextSInv, StepsOfTheManager, PTL DEF Spec, ManagerSpec

\* What is proved of the manager, in the server: its pop finds a request.
THEOREM ServerPopIsSafe == Spec => []PopFindsRequest
  BY ServerUsesManager, PopIsSafe, PTL

\* In the server, no request is executed twice or answered without being executed.
THEOREM ServerRunsOnce == Spec => []RunsOnce
  BY ServerUsesManager, EveryTaskRunsOnce, PTL

\* In the server, the request that the main thread waits for is never lost.
THEOREM ServerForgetsNothing == Spec => []NoRequestForgotten
  BY ServerUsesManager, NothingIsForgotten, PTL

------------------------------------------------------------------------------
(* One request at a time, run as the user of its connection.               *)

\* The only request under way is that of the main thread, which waits for it.
One == /\ \A r \in mQueue : r = mine["main"]
       /\ handler = "run" => running = mine["main"]
       /\ mQueue # {} \/ handler = "run" => caller["main"] = "waiting"

\* The user of a connection does not change while a request of it is under
\* way, and is always one that a login has found.
AsUser == /\ caller["main"] # "idle" =>
               mine["main"].work.user \in {NoUser, userID[mine["main"].work.client]}
          /\ \A c \in Clients : userID[c] = 1 \/ <<c, userID[c]>> \in granted

LEMMA InitOne == Init => One /\ AsUser
  BY DEF Init, ManagerInit, One, AsUser

LEMMA NextOne == SInv /\ IInv /\ One /\ [Next]_vars => One'
<1> SUFFICES ASSUME SInv, IInv, One, [Next]_vars PROVE One'
  OBVIOUS
<1> USE DEF One
<1>1. CASE Quiet
  BY <1>1 DEF Quiet, managerVars, queueVars, handlerVars, callerVars
<1>2. CASE Starts \/ Stops \/ Ends
  BY <1>2 DEF Starts, Stops, Ends, HandleRequests, StopHandler, Destroy, queueVars, handlerVars, callerVars
<1>3. ASSUME NEW m \in Message, Asks(m) PROVE One'
  BY <1>3 DEF Asks, PushRequest, handlerVars
<1>4. CASE Pushes
  BY <1>4 DEF SInv, Pushes, QueuePush, handlerVars
<1>5. CASE Gets
  <2>1. future[mine["main"].id] # "pending"
    BY <1>5 DEF Gets, Get
  <2>2. mQueue = {} /\ handler # "run"
    BY <2>1 DEF IInv, Queue, Running
  <2> QED
    BY <1>5, <2>2 DEF Gets, Get, queueVars, handlerVars
<1>6. CASE Runs
  BY <1>6 DEF Runs, Handler, HandlerStep, TestState, TestEmpty, PopRequest, RunRequest, Top,
     queueVars, handlerVars, callerVars
<1> QED
  BY <1>1, <1>2, <1>3, <1>4, <1>5, <1>6, Steps

LEMMA NextAsUser == SInv /\ IInv /\ AsUser /\ [Next]_vars => AsUser'
<1> SUFFICES ASSUME SInv, IInv, AsUser, [Next]_vars PROVE AsUser'
  OBVIOUS
<1> USE DEF AsUser
<1>1. CASE Quiet
  BY <1>1 DEF Quiet, SameUsers, managerVars, callerVars
<1>2. CASE Starts \/ Stops \/ Ends
  BY <1>2 DEF Starts, Stops, Ends, SameUsers, HandleRequests, StopHandler, Destroy, callerVars
<1>3. ASSUME NEW m \in Message, Asks(m) PROVE AsUser'
  <2>1. PICK p \in Priorities : PushRequest("main", WorkOf(m), p)
    BY <1>3 DEF Asks
  <2>2. mine'["main"].work = WorkOf(m)
    BY <2>1 DEF IInv, ManagerTypeOK, PushRequest
  <2>3. WorkOf(m).user \in {NoUser, userID[WorkOf(m).client]}
    BY DEF WorkOf
  <2> QED
    BY <1>3, <2>2, <2>3 DEF Asks, SameUsers
<1>4. CASE Pushes
  BY <1>4 DEF SInv, Pushes, QueuePush, SameUsers
<1>5. CASE Gets
  BY <1>5 DEF SInv, Gets, Get, SameUsers, LoggedIn
<1>6. CASE Runs
  BY <1>6 DEF Runs, Handler, HandlerStep, TestState, TestEmpty, PopRequest, RunRequest, callerVars,
     serverVars, history
<1> QED
  BY <1>1, <1>2, <1>3, <1>4, <1>5, <1>6, Steps

LEMMA OneAtATime == Spec => [](SInv /\ IInv /\ One /\ AsUser)
<1>1. Spec => []IInv
  BY ServerUsesManager, LifeOfARequest, PTL
<1> QED
  BY <1>1, InitSInv, NextSInv, InitOne, NextOne, NextAsUser, PTL DEF Spec

\* The priority queue never holds two requests, and the main thread waits for
\* the one it holds: that a heap keeps no order among equals never shows.
THEOREM ServerOnePending == Spec => []OnePending
<1>1. SInv /\ One => OnePending
  <2> SUFFICES ASSUME SInv, One PROVE OnePending
    OBVIOUS
  <2>1. mQueue \subseteq {mine["main"]} /\ IsFiniteSet({mine["main"]}) /\ Cardinality({mine["main"]}) = 1
    BY FS_Singleton DEF One
  <2>2. Cardinality(mQueue) <= 1
    BY <2>1, FS_Subset
  <2> QED
    BY <2>2 DEF OnePending, One, SInv
<1> QED
  BY <1>1, OneAtATime, PTL

\* A request runs as the user that its connection has at that moment, although
\* the connection's user is set after its LoginAnswer has been sent.
THEOREM ServerRunsAsUser == Spec => []RunsAsConnectionUser
<1>1. One /\ AsUser => RunsAsConnectionUser
  BY DEF One, AsUser, RunsAsConnectionUser
<1> QED
  BY <1>1, OneAtATime, PTL

------------------------------------------------------------------------------
(* The entries of mConnectionsPointers.                                    *)

\* An accepted client that is still to be connected is one; an entry is reset
\* only in the loop of messageAllClients, until erase(remove()); and what
\* remove has kept, and what has been pushed since, are clients.
NInv == /\ mConnectionsPointers \in Seq(Clients \cup {nullptr})
        /\ accepting.at # "idle" => accepting.client \in Clients
        /\ NullsPurged
        /\ mainAt = "erase" =>
             /\ kept.keep \in Seq(Clients)
             /\ kept.size \in 0..Len(mConnectionsPointers)
             /\ \A i \in (kept.size + 1)..Len(mConnectionsPointers) :
                   mConnectionsPointers[i] \in Clients

\* The steps that leave them alone, and do not enter or leave messageAllClients.
Elsewhere == /\ UNCHANGED <<mConnectionsPointers, kept>>
             /\ accepting' = accepting \/ accepting'.at = "idle" \/ accepting'.client \in Clients
             /\ \/ mainAt' \in {mainAt, "crashed"}
                \/ mainAt \notin {"purge", "erase", "crashed"} /\ mainAt' \notin {"purge", "erase"}

LEMMA ElsewhereSteps ==
  ASSUME [Next]_vars, ~PushConnection, ~MessageAllClients, ~RemoveNulls, ~Erase
  PROVE  Elsewhere
<1> USE DEF Elsewhere, registry, unmoved
<1>1. ASSUME NEW c \in Clients, Accept(c) \/ QueueMessage(c) \/ SocketCloses(c) PROVE Elsewhere
  <2>1. CASE Accept(c)
    BY <2>1 DEF Accept
  <2>2. CASE QueueMessage(c) \/ SocketCloses(c)
    BY <2>2 DEF QueueMessage, SocketCloses
  <2> QED
    BY <1>1, <2>1, <2>2
<1>2. CASE AcceptThrows \/ PushRaces \/ ConnectBack
  BY <1>2 DEF AcceptThrows, PushRaces, ConnectBack, Nobody
<1>3. CASE Start \/ WaitTest \/ WaitBlock \/ SpawnThreads \/ Drained \/ SpuriousWakeup
  BY <1>3 DEF Start, WaitTest, WaitBlock, SpawnThreads, Drained, SpuriousWakeup
<1>4. CASE Take
  BY <1>4 DEF Take, Handle
<1>5. CASE MainPushes \/ SendAnswer \/ AnswerThrows
  BY <1>5 DEF MainPushes, SendAnswer, AnswerThrows, serverVars
<1>6. CASE Stop \/ JoinThreads \/ DestroyManager
  BY <1>6 DEF Stop, JoinThreads, DestroyManager
<1>7. CASE Handler \/ UNCHANGED vars
  BY <1>7 DEF Handler, vars, serverVars
<1> QED
  BY <1>1, <1>2, <1>3, <1>4, <1>5, <1>6, <1>7 DEF Next, Io, Main

LEMMA NextNInv == NInv /\ [Next]_vars => NInv'
<1> SUFFICES ASSUME NInv, [Next]_vars PROVE NInv'
  OBVIOUS
<1>1. CASE Elsewhere
  BY <1>1 DEF NInv, NullsPurged, ToSet, Elsewhere
<1>2. CASE PushConnection
  <2>1. /\ accepting.client \in Clients /\ accepting'.client = accepting.client
        /\ mConnectionsPointers' = Append(mConnectionsPointers, accepting.client)
        /\ UNCHANGED <<mainAt, kept>>
    BY <1>2 DEF NInv, PushConnection
  <2>2. /\ mConnectionsPointers' \in Seq(Clients \cup {nullptr})
        /\ Len(mConnectionsPointers') = Len(mConnectionsPointers) + 1
        /\ \A i \in 1..Len(mConnectionsPointers') :
              \/ mConnectionsPointers'[i] \in Clients
              \/ i \in 1..Len(mConnectionsPointers) /\ mConnectionsPointers'[i] = mConnectionsPointers[i]
    BY <2>1 DEF NInv
  <2>3. NullsPurged'
    BY <2>1, <2>2 DEF NInv, NullsPurged, ToSet
  <2> QED
    BY <2>1, <2>2, <2>3 DEF NInv
<1>3. CASE MessageAllClients
  BY <1>3 DEF NInv, NullsPurged, ToSet, MessageAllClients
<1>4. CASE RemoveNulls
  <2>1. Purge(mConnectionsPointers) \in Seq(Clients)
    BY OnlyType DEF NInv, Purge
  <2> DEFINE keep == Purge(mConnectionsPointers)
             size == Len(mConnectionsPointers)
             rest == [i \in 1 .. size - Len(keep) |-> nullptr]
  <2>2. rest \in Seq({nullptr}) /\ keep \in Seq(Clients) /\ size \in Nat
        /\ Len(keep) \in Nat /\ Len(rest) = size - Len(keep)
    <3>1. keep \in Seq(Clients) /\ size \in Nat /\ Len(keep) \in Nat /\ Len(keep) <= size
      BY <2>1, OnlyShorter DEF NInv, Purge
    <3> HIDE DEF keep, size
    <3>2. PICK n \in Nat : n = size - Len(keep)
      BY <3>1
    <3>3. rest = [i \in 1..n |-> nullptr]
      BY <3>2
    <3> HIDE DEF rest
    <3>4. rest \in Seq({nullptr}) /\ Len(rest) = n
      BY <3>3
    <3> QED BY <3>1, <3>2, <3>4
  <2>3. /\ mConnectionsPointers' = keep \o rest /\ mainAt' = "erase"
        /\ kept' = [keep |-> keep, size |-> size] /\ accepting' = accepting
    BY <1>4 DEF RemoveNulls
  <2> HIDE DEF keep, size, rest
  <2>6. mConnectionsPointers' \in Seq(Clients \cup {nullptr}) /\ Len(mConnectionsPointers') = size
    BY <2>2, <2>3
  <2> QED
    BY <2>2, <2>3, <2>6 DEF NInv, NullsPurged
<1>5. CASE Erase
  <2>1. PICK late \in {<<>>, SubSeq(mConnectionsPointers, kept.size + 1, Len(mConnectionsPointers))} :
          mConnectionsPointers' = kept.keep \o late
    BY <1>5 DEF Erase
  <2>2. late \in Seq(Clients)
    <3>1. mConnectionsPointers \in Seq(Clients \cup {nullptr}) /\ kept.size \in 0..Len(mConnectionsPointers)
      BY <1>5 DEF NInv, Erase
    <3>2. CASE late = <<>>
      BY <3>2
    <3>3. CASE late = SubSeq(mConnectionsPointers, kept.size + 1, Len(mConnectionsPointers))
      BY <1>5, <3>1, <3>3, SubSeqProperties DEF NInv, Erase
    <3> QED
      BY <3>2, <3>3
  <2>3. mConnectionsPointers' \in Seq(Clients)
    BY <1>5, <2>1, <2>2 DEF NInv, Erase
  <2> QED
    BY SMTT(30), <1>5, <2>3 DEF NInv, NullsPurged, ToSet, Erase
<1> QED
  BY <1>1, <1>2, <1>3, <1>4, <1>5, ElsewhereSteps

\* A reset entry of mConnectionsPointers does not survive the messageAllClients
\* that has reset it, although the accept handler appends to the vector between
\* any two of its steps: the next onClientDisconnect has no null to dereference.
THEOREM ServerPurgesNulls == Spec => []NullsPurged
<1>1. Init => NInv
  BY DEF Init, Nobody, NInv, NullsPurged, ToSet
<1>2. NInv => NullsPurged
  BY DEF NInv
<1> QED
  BY <1>1, <1>2, NextNInv, PTL DEF Spec

------------------------------------------------------------------------------
(* The answers that a client has been sent, and the requests they answer.  *)

Sent == [type : MessageType,
         body : AnyBody \cup {"none"} \cup {Answer[type].body : type \in DOMAIN Answer}]
TypesOf(s) == [i \in DOMAIN s |-> s[i].type]

LEMMA AnswersAreSent == \A type \in DOMAIN Answer : Answer[type] \in Sent
BY SMTT(30) DEF Answer, MessageAnswer, AccountAnswer, ChannelAnswer, Sent, MessageType, SharedBody, ConversationBody,
       AccountBody, EditBody

LEMMA ReplyTypes == /\ "ServerPing" \in Replies /\ "none" \notin Replies
                    /\ \A type \in DOMAIN Answer : Answer[type].type \in Replies
                    /\ Replies \subseteq MessageType
                    /\ {"ServerAccept", "ServerMessage"} \subseteq MessageType \ Replies
<1>1. ASSUME NEW type \in DOMAIN Answer PROVE Answer[type].type \in Replies
  <2>1. Answer[type].type \in
          {"ChannelListRequest", "MessageHistoryAnswer", "MessageStoreAnswer",
           "ReplyHistoryAnswer", "ReplyStoreAnswer", "MessageDeleteAnswer", "MessageEditAnswer",
           "MessageReactionAnswer", "RegistrationAnswer", "LoginAnswer", "ChannelLeaveAnswer",
           "ChannelSubscribeAnswer", "ChannelSubscriptionListAnswer", "ChannelDeleteAnswer",
           "ChannelCreateAnswer", "DirectMessageCreateAnswer"}
    BY DEF Answer, MessageAnswer, AccountAnswer, ChannelAnswer
  <2> QED
    BY <2>1 DEF Replies, MessageType, SharedBody, ConversationBody, AccountBody, EditBody
<1>2. /\ "ServerPing" \in Replies /\ "none" \notin Replies
      /\ {"ServerAccept", "ServerMessage"} \subseteq MessageType \ Replies
  BY DEF Replies, MessageType, Bodiless, SharedBody, ConversationBody, AccountBody, EditBody
<1> QED
  BY <1>1, <1>2 DEF Replies

LEMMA OneMoreSent ==
  ASSUME NEW s \in Seq(Sent), NEW m \in Sent
  PROVE  AnswersAmong(Append(s, m)) =
           IF m.type \in Replies THEN Append(AnswersAmong(s), m.type) ELSE AnswersAmong(s)
<1>1. TypesOf(s) \in Seq(MessageType) /\ m.type \in MessageType /\ Len(TypesOf(s)) = Len(s)
  <2> \A x \in Sent : x.type \in MessageType
    BY DEF Sent
  <2>1. m.type \in MessageType /\ \A i \in 1..Len(s) : s[i].type \in MessageType
    OBVIOUS
  <2>2. TypesOf(s) = [i \in 1..Len(s) |-> s[i].type]
    BY DEF TypesOf
  <2> QED
    BY <2>1, <2>2
<1>2. TypesOf(Append(s, m)) = Append(TypesOf(s), m.type)
  <2>1. TypesOf(Append(s, m)) = [i \in 1..(Len(s) + 1) |-> Append(s, m)[i].type]
    BY DEF TypesOf
  <2>2. \A i \in 1..(Len(s) + 1) : Append(s, m)[i].type = Append(TypesOf(s), m.type)[i]
    BY <1>1 DEF TypesOf
  <2>3. Append(TypesOf(s), m.type) = [i \in 1..(Len(s) + 1) |-> Append(TypesOf(s), m.type)[i]]
    BY <1>1
  <2> QED
    BY <2>1, <2>2, <2>3
<1> DEFINE types == TypesOf(s)
           x == m.type
<1>3. types \in Seq(MessageType) /\ x \in MessageType
  BY <1>1
<1> HIDE DEF types, x
<1>4. Only(Append(types, x), Replies) =
        IF x \in Replies THEN Append(Only(types, Replies), x) ELSE Only(types, Replies)
  BY <1>3, OnlyAppend
<1> QED
  BY <1>2, <1>4 DEF types, x, AnswersAmong, TypesOf

LEMMA OneMoreRequest ==
  ASSUME NEW requests, NEW skipped, NEW n \in Nat
  PROVE  AnswersTo(requests, skipped, n + 1) =
           IF Reply(requests, skipped, n + 1) \in Replies
           THEN Append(AnswersTo(requests, skipped, n), Reply(requests, skipped, n + 1))
           ELSE AnswersTo(requests, skipped, n)
<1> DEFINE x == Reply(requests, skipped, n + 1)
           s == [i \in 1..n |-> Reply(requests, skipped, i)]
           T == {Reply(requests, skipped, i) : i \in Nat}
<1>1. s \in Seq(T) /\ x \in T
  OBVIOUS
<1>2. [i \in 1..(n + 1) |-> Reply(requests, skipped, i)] = Append(s, x)
  OBVIOUS
<1> HIDE DEF s, T, x
<1>3. Only(Append(s, x), Replies) =
        IF x \in Replies THEN Append(Only(s, Replies), x) ELSE Only(s, Replies)
  BY <1>1, OnlyAppend
<1> QED
  BY <1>2, <1>3 DEF AnswersTo, s, x

\* The answers to the first requests do not depend on the later ones.
LEMMA SameRequests ==
  ASSUME NEW r1, NEW r2, NEW s1, NEW s2, NEW n \in Nat,
         \A i \in 1..n : r1[i] = r2[i] /\ (i \in s1 <=> i \in s2)
  PROVE  AnswersTo(r1, s1, n) = AnswersTo(r2, s2, n)
<1>1. \A i \in 1..n : Reply(r1, s1, i) = Reply(r2, s2, i)
  BY DEF Reply
<1> QED
  BY <1>1 DEF AnswersTo

\* Where taken[c] of the requests of c have been taken from the queue q, the
\* later ones are in it, in the order in which c has sent them.
Backlog(q, requests, taken) ==
    /\ \A i \in 1..Len(q) : /\ q[i].n \in (taken[q[i].client] + 1)..Len(requests[q[i].client])
                            /\ q[i].type = requests[q[i].client][q[i].n]
    /\ \A i, j \in 1..Len(q) : i < j /\ q[i].client = q[j].client => q[i].n < q[j].n
    /\ \A c \in Clients : \A n \in (taken[c] + 1)..Len(requests[c]) :
          \E i \in 1..Len(q) : q[i].client = c /\ q[i].n = n

LEMMA BacklogGrows ==
  ASSUME NEW q \in Seq(Message), NEW m \in Message,
         NEW requests \in [Clients -> Seq(Requests)], NEW taken \in [Clients -> Nat],
         m.n = Len(requests[m.client]) + 1, taken[m.client] < m.n, Backlog(q, requests, taken)
  PROVE  Backlog(Append(q, m), [requests EXCEPT ![m.client] = Append(@, m.type)], taken)
<1> DEFINE qq == Append(q, m)
           c == m.client
           rr == [requests EXCEPT ![c] = Append(@, m.type)]
<1>a. \A i \in 1..Len(q) : /\ q[i].n \in (taken[q[i].client] + 1)..Len(requests[q[i].client])
                           /\ q[i].type = requests[q[i].client][q[i].n]
  BY DEF Backlog
<1>b. \A i, j \in 1..Len(q) : i < j /\ q[i].client = q[j].client => q[i].n < q[j].n
  BY DEF Backlog
<1>c. \A d \in Clients : \A n \in (taken[d] + 1)..Len(requests[d]) :
         \E i \in 1..Len(q) : q[i].client = d /\ q[i].n = n
  BY DEF Backlog
<1>1. /\ Len(qq) = Len(q) + 1 /\ Len(q) \in Nat /\ qq[Len(q) + 1] = m
      /\ \A i \in 1..Len(q) : qq[i] = q[i] /\ q[i] \in Message
  OBVIOUS
<1>2. \A x \in Message : x.client \in Clients /\ x.n \in Nat /\ x.type \in Requests
  BY DEF Message
<1>3. /\ \A d \in Clients : d # c => rr[d] = requests[d]
      /\ Len(rr[c]) = m.n /\ rr[c][m.n] = m.type
      /\ \A n \in 1..Len(requests[c]) : rr[c][n] = requests[c][n]
  <2>1. rr[c] = Append(requests[c], m.type) /\ requests[c] \in Seq(Requests) /\ m.type \in Requests
    BY <1>2
  <2> QED
    BY <1>2, <2>1
<1>4. \A d \in Clients : taken[d] \in Nat /\ Len(requests[d]) \in Nat
  OBVIOUS
<1>5. c \in Clients /\ m.n \in Nat
  BY <1>2
<1>9. \A d \in Clients : /\ Len(rr[d]) \in Nat /\ Len(rr[d]) >= Len(requests[d])
                         /\ \A n \in 1..Len(requests[d]) : rr[d][n] = requests[d][n]
  <2> HIDE DEF rr
  <2>1. ASSUME NEW d \in Clients, d = c
        PROVE  Len(rr[d]) \in Nat /\ Len(rr[d]) >= Len(requests[d])
    BY <1>3, <1>4, <1>5, <2>1
  <2> QED
    BY SMTT(30), <1>3, <1>4, <2>1
<1> HIDE DEF qq, rr
<1>6. ASSUME NEW i \in 1..Len(qq)
      PROVE  /\ qq[i].n \in (taken[qq[i].client] + 1)..Len(rr[qq[i].client])
             /\ qq[i].type = rr[qq[i].client][qq[i].n]
  <2>1. CASE i = Len(q) + 1
    <3>1. m.n \in (taken[c] + 1)..Len(rr[c]) /\ m.type = rr[c][m.n]
      BY <1>3, <1>4, <1>5
    <3> QED
      BY <1>1, <2>1, <3>1
  <2>2. CASE i \in 1..Len(q)
    <3>1. PICK x \in Message : x = q[i] /\ x = qq[i]
      BY <1>1, <2>2
    <3>2. x.n \in (taken[x.client] + 1)..Len(requests[x.client])
          /\ x.type = requests[x.client][x.n]
      BY <1>a, <2>2, <3>1
    <3>3. PICK d \in Clients, n \in Nat : d = x.client /\ n = x.n
      BY <1>2
    <3>4. n \in (taken[d] + 1)..Len(requests[d]) /\ n \in 1..Len(requests[d])
      BY <1>4, <3>2, <3>3
    <3>5. n \in (taken[d] + 1)..Len(rr[d]) /\ rr[d][n] = requests[d][n]
      BY <1>4, <1>9, <3>4
    <3> QED
      BY <3>1, <3>2, <3>3, <3>5
  <2> QED
    BY <1>1, <2>1, <2>2
<1>7. ASSUME NEW i \in 1..Len(qq), NEW j \in 1..Len(qq), i < j, qq[i].client = qq[j].client
      PROVE  qq[i].n < qq[j].n
  <2>1. i \in 1..Len(q) /\ qq[i] = q[i]
    BY <1>1, <1>7
  <2>2. CASE j = Len(q) + 1
    <3>1. q[i].client = c /\ qq[j] = m
      BY <1>1, <1>7, <2>1, <2>2
    <3>2. q[i].n \in (taken[c] + 1)..Len(requests[c])
      BY <1>a, <2>1, <3>1
    <3> QED
      BY SMTT(30), <1>4, <1>5, <2>1, <3>1, <3>2
  <2>3. CASE j \in 1..Len(q)
    BY <1>b, <1>1, <1>7, <2>1, <2>3
  <2> QED
    BY <1>1, <2>2, <2>3
<1>8. ASSUME NEW d \in Clients, NEW n \in (taken[d] + 1)..Len(rr[d])
      PROVE  \E i \in 1..Len(qq) : qq[i].client = d /\ qq[i].n = n
  <2>1. CASE d = c /\ n = m.n
    <3>1. Len(q) + 1 \in 1..Len(qq) /\ qq[Len(q) + 1].client = d /\ qq[Len(q) + 1].n = n
      BY <1>1, <2>1
    <3> QED
      BY <3>1
  <2>2. CASE ~(d = c /\ n = m.n)
    <3>1. n \in (taken[d] + 1)..Len(requests[d])
      BY <1>3, <1>4, <1>5, <2>2
    <3>2. PICK i \in 1..Len(q) : q[i].client = d /\ q[i].n = n
      BY <1>c, <3>1
    <3> QED
      BY <1>1, <3>2
  <2> QED
    BY <2>1, <2>2
<1>10. Backlog(qq, rr, taken)
  BY <1>6, <1>7, <1>8 DEF Backlog
<1> QED
  BY <1>10 DEF qq, rr

LEMMA BacklogShrinks ==
  ASSUME NEW q \in Seq(Message), q # <<>>,
         NEW requests \in [Clients -> Seq(Requests)], NEW taken \in [Clients -> Nat],
         Backlog(q, requests, taken), NEW m, m = q[1]
  PROVE  /\ m \in Message /\ m.n = taken[m.client] + 1
         /\ m.n <= Len(requests[m.client]) /\ requests[m.client][m.n] = m.type
         /\ Backlog(Tail(q), requests, [taken EXCEPT ![m.client] = @ + 1])
<1> DEFINE qq == Tail(q)
           more == [taken EXCEPT ![m.client] = @ + 1]
<1>a. \A i \in 1..Len(q) : /\ q[i].n \in (taken[q[i].client] + 1)..Len(requests[q[i].client])
                           /\ q[i].type = requests[q[i].client][q[i].n]
  BY DEF Backlog
<1>b. \A i, j \in 1..Len(q) : i < j /\ q[i].client = q[j].client => q[i].n < q[j].n
  BY DEF Backlog
<1>c. \A d \in Clients : \A n \in (taken[d] + 1)..Len(requests[d]) :
         \E i \in 1..Len(q) : q[i].client = d /\ q[i].n = n
  BY DEF Backlog
<1>1. /\ Len(q) \in Nat /\ Len(q) > 0 /\ Len(qq) = Len(q) - 1
      /\ \A i \in 1..Len(qq) : qq[i] = q[i + 1]
      /\ \A i \in 1..Len(q) : q[i] \in Message
  OBVIOUS
<1>2. \A x \in Message : x.client \in Clients /\ x.n \in Nat
  BY DEF Message
<1>3. m \in Message /\ m.client \in Clients /\ m.n \in Nat
  BY <1>1, <1>2
<1>4. \A d \in Clients : /\ more[d] = taken[d] + (IF d = m.client THEN 1 ELSE 0)
                         /\ taken[d] \in Nat /\ Len(requests[d]) \in Nat
  BY <1>3
<1> HIDE DEF qq, more
<1>5. m.n = taken[m.client] + 1 /\ m.n <= Len(requests[m.client]) /\ requests[m.client][m.n] = m.type
  <2>1. m.n \in (taken[m.client] + 1)..Len(requests[m.client]) /\ requests[m.client][m.n] = m.type
    BY <1>a, <1>1
  <2>2. taken[m.client] + 1 \in (taken[m.client] + 1)..Len(requests[m.client])
    <3>1. PICK t \in Nat, l \in Nat, n \in Nat :
             t = taken[m.client] /\ l = Len(requests[m.client]) /\ n = m.n
      BY <1>3, <1>4
    <3>2. n \in (t + 1)..l
      BY <2>1, <3>1
    <3> QED
      BY <3>1, <3>2
  <2>3. PICK d \in Clients, k \in Nat : d = m.client /\ k = taken[m.client] + 1
    BY <1>3, <1>4
  <2>4. k \in (taken[d] + 1)..Len(requests[d])
    BY <2>2, <2>3
  <2>5. PICK i \in 1..Len(q) : q[i].client = d /\ q[i].n = k
    BY <1>c, <2>4
  <2>6. i > 1 => m.n < k
    BY <1>b, <1>1, <2>3, <2>5
  <2>7. m.n >= k
    BY <1>3, <1>4, <2>1, <2>3
  <2>8. m.n = k
    BY <1>1, <1>3, <2>5, <2>6, <2>7
  <2> QED
    BY <1>3, <1>4, <2>1, <2>3, <2>8
<1>6. ASSUME NEW i \in 1..Len(qq)
      PROVE  /\ qq[i].n \in (more[qq[i].client] + 1)..Len(requests[qq[i].client])
             /\ qq[i].type = requests[qq[i].client][qq[i].n]
  <2>1. i + 1 \in 1..Len(q) /\ qq[i] = q[i + 1] /\ 1 < i + 1 /\ 1 \in 1..Len(q)
    BY <1>1
  <2>2. q[i + 1].client = m.client => m.n < q[i + 1].n
    BY <1>b, <2>1
  <2>3. q[i + 1].client \in Clients /\ q[i + 1].n \in Nat
    BY <1>1, <1>2, <2>1
  <2>4. /\ q[i + 1].n \in (taken[q[i + 1].client] + 1)..Len(requests[q[i + 1].client])
        /\ q[i + 1].type = requests[q[i + 1].client][q[i + 1].n]
    BY <1>a, <2>1
  <2>5. q[i + 1].n \in (more[q[i + 1].client] + 1)..Len(requests[q[i + 1].client])
    <3>1. CASE q[i + 1].client = m.client
      <4>1. PICK t \in Nat, l \in Nat, n \in Nat :
               t = taken[m.client] /\ l = Len(requests[m.client]) /\ n = q[i + 1].n
        BY <1>3, <1>4, <2>3
      <4>2. n \in (t + 1)..l /\ t + 1 < n /\ more[m.client] = t + 1
        BY <1>3, <1>4, <1>5, <2>2, <2>4, <3>1, <4>1
      <4>3. n \in ((t + 1) + 1)..l
        BY <4>2
      <4> QED
        BY <3>1, <4>1, <4>2, <4>3
    <3>2. CASE q[i + 1].client # m.client
      BY <1>4, <2>3, <2>4, <3>2
    <3> QED
      BY <3>1, <3>2
  <2> QED
    BY <2>1, <2>4, <2>5
<1>7. ASSUME NEW i \in 1..Len(qq), NEW j \in 1..Len(qq), i < j, qq[i].client = qq[j].client
      PROVE  qq[i].n < qq[j].n
  <2>1. /\ i + 1 \in 1..Len(q) /\ j + 1 \in 1..Len(q) /\ i + 1 < j + 1
        /\ qq[i] = q[i + 1] /\ qq[j] = q[j + 1]
    BY <1>1, <1>7
  <2> QED
    BY <1>b, <1>7, <2>1
<1>8. ASSUME NEW d \in Clients, NEW n \in (more[d] + 1)..Len(requests[d])
      PROVE  \E i \in 1..Len(qq) : qq[i].client = d /\ qq[i].n = n
  <2>1. n \in (taken[d] + 1)..Len(requests[d]) /\ (d = m.client => n # m.n)
    BY <1>3, <1>4, <1>5
  <2>2. PICK i \in 1..Len(q) : q[i].client = d /\ q[i].n = n
    BY <1>c, <2>1
  <2>3. i # 1
    BY <2>1, <2>2
  <2>4. i - 1 \in 1..Len(qq) /\ qq[i - 1] = q[i]
    BY <1>1, <2>3
  <2> QED
    BY <2>2, <2>4
<1>9. Backlog(qq, requests, more)
  BY <1>6, <1>7, <1>8 DEF Backlog
<1> QED
  BY <1>3, <1>5, <1>9 DEF qq, more

------------------------------------------------------------------------------
(* done[c] requests of c have been dealt with; the one that the main thread *)
(* awaits is the next one.                                                  *)

Live == {"start", "test", "block", "blocked", "spawn", "drain", "awaiting", "broadcast", "purge",
         "erase"}
Taken(done) == [c \in Clients |-> IF mainAt = "awaiting" /\ current.client = c
                                  THEN done[c] + 1 ELSE done[c]]

Paired(done) == \A c \in Clients :
    /\ done[c] <= Len(asked[c]) /\ silent[c] \subseteq 1..done[c]
    /\ AnswersAmong(sent[c]) = AnswersTo(asked[c], silent[c], done[c])
Awaited(done) == mainAt = "awaiting" =>
    /\ current \in Message /\ current.type \in DOMAIN Answer
    /\ current.n = done[current.client] + 1 /\ current.n <= Len(asked[current.client])
    /\ asked[current.client][current.n] = current.type
Queueing(done) == mainAt \in Live => Backlog(mIncomingMessagesQueue, asked, Taken(done))
Progress(done) == Paired(done) /\ Awaited(done) /\ Queueing(done)

Histories == sent \in [Clients -> Seq(Sent)] /\ silent \in [Clients -> SUBSET Nat]
PInv == Histories /\ \E done \in [Clients -> Nat] : Progress(done)

\* What SendTo and the accept handler do to the answers that clients have been sent.
LEMMA SendOne ==
  ASSUME Histories, NEW c \in Clients, NEW m \in Sent,
         sent' = [sent EXCEPT ![c] = Append(@, m)]
  PROVE  /\ sent' \in [Clients -> Seq(Sent)]
         /\ \A d \in Clients : AnswersAmong(sent'[d]) =
               IF d = c /\ m.type \in Replies THEN Append(AnswersAmong(sent[d]), m.type)
               ELSE AnswersAmong(sent[d])
<1>1. sent \in [Clients -> Seq(Sent)]
  BY DEF Histories
<1>2. /\ sent' \in [Clients -> Seq(Sent)]
      /\ sent'[c] = Append(sent[c], m) /\ \A d \in Clients : d # c => sent'[d] = sent[d]
  BY <1>1
<1>3. AnswersAmong(sent'[c]) = IF m.type \in Replies THEN Append(AnswersAmong(sent[c]), m.type)
                               ELSE AnswersAmong(sent[c])
  BY <1>1, <1>2, OneMoreSent
<1> QED
  BY <1>2, <1>3

\* Steps of other threads and of the main thread outside onMessage.
Unanswered == \A c \in Clients : AnswersAmong(sent'[c]) = AnswersAmong(sent[c])
Bystander == /\ UNCHANGED <<asked, silent, mIncomingMessagesQueue, current>>
             /\ Unanswered /\ sent' \in [Clients -> Seq(Sent)]
             /\ \/ mainAt' \in {mainAt, "crashed"}
                \/ mainAt # "awaiting" /\ mainAt' # "awaiting" /\ (mainAt' \in Live => mainAt \in Live)

LEMMA BystanderProgress ==
  ASSUME Histories, NEW done \in [Clients -> Nat], Progress(done), Bystander
  PROVE  Histories' /\ Progress(done)'
<1>1. Histories' /\ Paired(done)'
  BY DEF Histories, Progress, Paired, Bystander, Unanswered
<1>2. Awaited(done)'
  BY DEF Progress, Awaited, Bystander
<1>3. Queueing(done)'
  <2> SUFFICES ASSUME mainAt' \in Live PROVE Backlog(mIncomingMessagesQueue, asked, Taken(done)')
    BY DEF Queueing, Bystander
  <2>1. mainAt \in Live /\ (mainAt' = "awaiting" <=> mainAt = "awaiting")
    BY DEF Bystander, Live
  <2>2. Taken(done)' = Taken(done)
    BY <2>1 DEF Taken, Bystander
  <2> QED
    BY <2>1, <2>2 DEF Progress, Queueing
<1> QED
  BY <1>1, <1>2, <1>3 DEF Progress

\* A step that sends at most messages that no request asks for.
LEMMA NothingSent == Histories /\ sent' = sent => Unanswered /\ sent' \in [Clients -> Seq(Sent)]
  BY DEF Histories, Unanswered

LEMMA BystanderSteps ==
  ASSUME Histories, [Next]_vars, ~(\E c \in Clients : QueueMessage(c)), ~Take, ~SendAnswer, ~AnswerThrows
  PROVE  Bystander
<1> USE DEF Bystander
<1>1. ASSUME NEW c \in Clients, Accept(c) PROVE Bystander
  <2> DEFINE m == [type |-> "ServerAccept", body |-> "none"]
  <2>1. m \in Sent /\ m.type \notin Replies
    BY ReplyTypes DEF Sent
  <2>2. sent' = [sent EXCEPT ![c] = Append(@, m)]
    BY <1>1 DEF Accept
  <2> HIDE DEF m
  <2>3. Unanswered /\ sent' \in [Clients -> Seq(Sent)]
    BY <2>1, <2>2, SendOne DEF Unanswered
  <2> QED
    BY <1>1, <2>3 DEF Accept
<1>2. CASE MessageAllClients
  <2> DEFINE m == [type |-> "ServerMessage", body |-> "none"]
  <2>1. m \in Sent /\ m.type \notin Replies
    BY ReplyTypes DEF Sent
  <2>2. sent \in [Clients -> Seq(Sent)]
    BY DEF Histories
  <2>3. \E told \in SUBSET Clients :
           sent' = [c \in Clients |-> IF c \in told THEN Append(sent[c], m) ELSE sent[c]]
    <3> DEFINE told == {c \in Clients : c \in ToSet(mConnectionsPointers) /\ ~Dead(c) /\ c # current.client}
    <3>1. sent' = [c \in Clients |-> IF c \in told THEN Append(sent[c], m) ELSE sent[c]]
      BY <1>2 DEF MessageAllClients
    <3> HIDE DEF told
    <3>2. told \in SUBSET Clients
      BY DEF told
    <3> QED
      BY <3>1, <3>2
  <2> HIDE DEF m
  <2>4. PICK told \in SUBSET Clients :
           sent' = [c \in Clients |-> IF c \in told THEN Append(sent[c], m) ELSE sent[c]]
    BY <2>3
  <2>5. sent' \in [Clients -> Seq(Sent)]
    BY <2>1, <2>2, <2>4
  <2>6. ASSUME NEW c \in Clients PROVE AnswersAmong(sent'[c]) = AnswersAmong(sent[c])
    <3>1. sent[c] \in Seq(Sent) /\ (sent'[c] = sent[c] \/ sent'[c] = Append(sent[c], m))
      BY <2>2, <2>4
    <3> QED
      BY <2>1, <3>1, OneMoreSent
  <2> QED
    BY <1>2, <2>5, <2>6 DEF MessageAllClients, Unanswered, Live
<1>3. CASE \/ \E c \in Clients : SocketCloses(c)
           \/ AcceptThrows \/ PushConnection \/ PushRaces \/ ConnectBack
  <2>1. sent' = sent
    BY <1>3 DEF SocketCloses, AcceptThrows, PushConnection, PushRaces, ConnectBack, history
  <2> QED
    BY <1>3, <2>1, NothingSent DEF SocketCloses, AcceptThrows, PushConnection, PushRaces, ConnectBack, history
<1>4. CASE Start \/ WaitTest \/ WaitBlock \/ SpawnThreads \/ Drained \/ SpuriousWakeup
  <2>1. sent' = sent
    BY <1>4 DEF Start, WaitTest, WaitBlock, SpawnThreads, Drained, SpuriousWakeup
  <2> QED
    BY <1>4, <2>1, NothingSent DEF Start, WaitTest, WaitBlock, SpawnThreads, Drained, SpuriousWakeup, Live,
       unmoved
<1>5. CASE RemoveNulls \/ Erase
  <2>1. sent' = sent
    BY <1>5 DEF RemoveNulls, Erase, history
  <2> QED
    BY <1>5, <2>1, NothingSent DEF RemoveNulls, Erase, Live, history
<1>6. CASE Stop \/ JoinThreads \/ DestroyManager
  <2>1. sent' = sent
    BY <1>6 DEF Stop, JoinThreads, DestroyManager
  <2> QED
    BY <1>6, <2>1, NothingSent DEF Stop, JoinThreads, DestroyManager, Live, unmoved
<1>7. CASE MainPushes \/ Handler \/ UNCHANGED vars
  <2>1. UNCHANGED serverVars
    BY <1>7 DEF MainPushes, Handler, vars
  <2> QED
    BY <2>1, NothingSent DEF serverVars, history
<1> QED
  BY <1>1, <1>2, <1>3, <1>4, <1>5, <1>6, <1>7 DEF Next, Io, Main


\* A request that is queued waits behind the others of its client.
LEMMA QueueProgress ==
  ASSUME SInv, Histories, NEW done \in [Clients -> Nat], Progress(done),
         NEW c \in Clients, QueueMessage(c)
  PROVE  Histories' /\ Progress(done)'
<1>2. PICK type \in Requests, body \in AnyBody :
         /\ asked' = [asked EXCEPT ![c] = Append(@, type)]
         /\ mIncomingMessagesQueue' =
              Append(mIncomingMessagesQueue,
                     [client |-> c, type |-> type, body |-> body, n |-> Len(asked[c]) + 1])
  BY QueuedMessage
<1> DEFINE m == [client |-> c, type |-> type, body |-> body, n |-> Len(asked[c]) + 1]
<1>3. asked \in [Clients -> Seq(Requests)] /\ mIncomingMessagesQueue \in Seq(Message)
  BY DEF SInv
<1>4. m \in Message /\ m.client = c /\ m.type = type /\ m.n = Len(asked[c]) + 1
  <2>1. Len(asked[c]) + 1 \in Nat
    BY <1>3
  <2> QED
    BY <2>1 DEF Message
<1>5. asked' = [asked EXCEPT ![m.client] = Append(@, m.type)]
      /\ mIncomingMessagesQueue' = Append(mIncomingMessagesQueue, m)
  BY <1>2
<1>6. sent' = sent /\ silent' = silent /\ current' = current
      /\ mainAt' = IF mainAt = "blocked" THEN "test" ELSE mainAt
  BY DEF QueueMessage
<1> HIDE DEF m
<1>7. \A d \in Clients : /\ done[d] <= Len(asked[d]) /\ silent[d] \subseteq 1..done[d]
                         /\ AnswersAmong(sent[d]) = AnswersTo(asked[d], silent[d], done[d])
  BY DEF Progress, Paired
<1>8. \A d \in Clients : /\ Len(asked[d]) \in Nat /\ Len(asked'[d]) \in Nat /\ Len(asked[d]) <= Len(asked'[d])
                         /\ \A i \in 1..Len(asked[d]) : asked'[d][i] = asked[d][i]
  <2>1. \A d \in Clients : d # c => asked'[d] = asked[d]
    BY <1>3, <1>4, <1>5
  <2>2. asked'[c] = Append(asked[c], type) /\ asked[c] \in Seq(Requests)
    BY <1>3, <1>4, <1>5
  <2>3. /\ Len(asked[c]) \in Nat /\ Len(asked'[c]) = Len(asked[c]) + 1
        /\ \A i \in 1..Len(asked[c]) : asked'[c][i] = asked[c][i]
    BY <2>2
  <2>4. ASSUME NEW d \in Clients, d # c
        PROVE  Len(asked[d]) \in Nat /\ asked'[d] = asked[d]
    BY <1>3, <2>1, <2>4
  <2>5. ASSUME NEW d \in Clients
        PROVE  /\ Len(asked[d]) \in Nat /\ Len(asked'[d]) \in Nat /\ Len(asked[d]) <= Len(asked'[d])
               /\ \A i \in 1..Len(asked[d]) : asked'[d][i] = asked[d][i]
    BY <2>3, <2>4
  <2> QED
    BY <2>5
<1>9. Histories' /\ Paired(done)'
  <2>1. ASSUME NEW d \in Clients
        PROVE  /\ done[d] <= Len(asked'[d])
               /\ AnswersAmong(sent[d]) = AnswersTo(asked'[d], silent[d], done[d])
    <3>1. done[d] \in Nat /\ \A i \in 1..done[d] : asked'[d][i] = asked[d][i]
      BY <1>7, <1>8
    <3>2. AnswersTo(asked'[d], silent[d], done[d]) = AnswersTo(asked[d], silent[d], done[d])
      BY <3>1, SameRequests
    <3>3. done[d] <= Len(asked'[d])
      BY <1>7, <1>8, <3>1
    <3> QED
      BY <1>7, <3>2, <3>3
  <2> QED
    BY <1>6, <1>7, <2>1 DEF Histories, Paired
<1>10. Awaited(done)'
  <2> SUFFICES ASSUME mainAt' = "awaiting" PROVE Awaited(done)'
    BY DEF Awaited
  <2>1. mainAt = "awaiting"
    BY <1>6
  <2>2. /\ current \in Message /\ current.type \in DOMAIN Answer
        /\ current.n = done[current.client] + 1 /\ current.n <= Len(asked[current.client])
        /\ asked[current.client][current.n] = current.type
    BY <2>1 DEF Progress, Awaited
  <2>3. PICK d \in Clients, n \in Nat : d = current.client /\ n = current.n
    BY <2>2 DEF Message
  <2>4. n \in 1..Len(asked[d]) /\ n = done[d] + 1
    BY <1>8, <2>2, <2>3
  <2>5. n <= Len(asked'[d]) /\ asked'[d][n] = asked[d][n]
    BY <1>8, <2>4
  <2> QED
    BY <1>6, <2>2, <2>3, <2>5 DEF Awaited
<1>11. Queueing(done)'
  <2> SUFFICES ASSUME mainAt' \in Live PROVE Backlog(mIncomingMessagesQueue', asked', Taken(done)')
    BY DEF Queueing
  <2>1. mainAt \in Live /\ (mainAt' = "awaiting" <=> mainAt = "awaiting")
    BY <1>6 DEF Live
  <2>2. Taken(done)' = Taken(done)
    BY <1>6, <2>1 DEF Taken
  <2>3. Backlog(mIncomingMessagesQueue, asked, Taken(done))
    BY <2>1 DEF Progress, Queueing
  <2>4. Taken(done) \in [Clients -> Nat]
    BY DEF Taken
  <2>5. Taken(done)[c] < m.n
    <3>1. Taken(done)[c] <= Len(asked[c])
      <4>1. CASE mainAt = "awaiting" /\ current.client = c
        BY <4>1 DEF Progress, Awaited, Taken
      <4>2. CASE ~(mainAt = "awaiting" /\ current.client = c)
        BY <1>7, <4>2 DEF Taken
      <4> QED
        BY <4>1, <4>2
    <3> QED
      BY <1>4, <1>8, <2>4, <3>1
  <2> QED
    BY <1>3, <1>4, <1>5, <2>2, <2>3, <2>4, <2>5, BacklogGrows
<1> QED
  BY <1>9, <1>10, <1>11 DEF Progress


\* The next request of c is dealt with: its client is sent the answer, if there is one.
LEMMA OneMoreDone ==
  ASSUME SInv, NEW done \in [Clients -> Nat], Paired(done), NEW c \in Clients,
         NEW n, n = done[c] + 1, n <= Len(asked[c]), asked' = asked,
         silent' = silent \/ silent' = [silent EXCEPT ![c] = @ \cup {n}], Histories,
         \A d \in Clients : d # c => AnswersAmong(sent'[d]) = AnswersAmong(sent[d]),
         AnswersAmong(sent'[c]) =
           IF Reply(asked[c], silent'[c], n) \in Replies
           THEN Append(AnswersAmong(sent[c]), Reply(asked[c], silent'[c], n)) ELSE AnswersAmong(sent[c]),
         NEW more, more = [done EXCEPT ![c] = @ + 1]
  PROVE  more \in [Clients -> Nat] /\ Paired(more)'
<1>1. \A d \in Clients : /\ done[d] <= Len(asked[d]) /\ silent[d] \subseteq 1..done[d]
                         /\ AnswersAmong(sent[d]) = AnswersTo(asked[d], silent[d], done[d])
  BY DEF Paired
<1>2. /\ more \in [Clients -> Nat] /\ more[c] = n /\ n \in Nat
      /\ \A d \in Clients : d # c => more[d] = done[d] /\ silent'[d] = silent[d]
      /\ silent'[c] = silent[c] \/ silent'[c] = silent[c] \cup {n}
  BY DEF Histories
<1>3. AnswersTo(asked[c], silent'[c], done[c]) = AnswersTo(asked[c], silent[c], done[c])
  <2>1. PICK k, s1, s2, requests :
           k = done[c] /\ k \in Nat /\ s1 = silent'[c] /\ s2 = silent[c] /\ requests = asked[c]
    OBVIOUS
  <2>2. \A i \in 1..k : requests[i] = requests[i] /\ (i \in s1 <=> i \in s2)
    BY <1>2, <2>1
  <2>3. AnswersTo(requests, s1, k) = AnswersTo(requests, s2, k)
    BY <2>1, <2>2, SameRequests
  <2> QED
    BY <2>1, <2>3
<1>4. AnswersAmong(sent'[c]) = AnswersTo(asked[c], silent'[c], n)
  <2>1. AnswersTo(asked[c], silent'[c], done[c] + 1) =
          IF Reply(asked[c], silent'[c], done[c] + 1) \in Replies
          THEN Append(AnswersTo(asked[c], silent'[c], done[c]), Reply(asked[c], silent'[c], done[c] + 1))
          ELSE AnswersTo(asked[c], silent'[c], done[c])
    BY OneMoreRequest
  <2> QED
    BY <1>1, <1>3, <2>1
<1>5. silent'[c] \subseteq 1..n
  BY <1>1, <1>2
<1>6. ASSUME NEW d \in Clients
      PROVE  /\ more[d] <= Len(asked[d]) /\ silent'[d] \subseteq 1..more[d]
             /\ AnswersAmong(sent'[d]) = AnswersTo(asked[d], silent'[d], more[d])
  <2>1. CASE d = c
    BY <1>2, <1>4, <1>5, <2>1
  <2>2. CASE d # c
    BY <1>1, <1>2, <2>2
  <2> QED
    BY <2>1, <2>2
<1> QED
  BY <1>2, <1>6 DEF Paired

\* What answers the request that a message asks for.
LEMMA ReplyTo ==
  ASSUME NEW requests, NEW skipped, NEW n, NEW m, requests[n] = m.type
  PROVE  Reply(requests, skipped, n) =
           IF m.type \in DOMAIN Answer \cup {"ServerPing"} /\ n \notin skipped
           THEN ReplyType(m.type) ELSE "none"
  BY DEF Reply

\* A message that is taken is the next request of its client; what is not
\* awaited is dealt with at once.
LEMMA TakeProgress ==
  ASSUME SInv, Histories, NEW done \in [Clients -> Nat], Progress(done), Take
  PROVE  Histories' /\ \E more \in [Clients -> Nat] : Progress(more)'
<1> PICK m : m = mIncomingMessagesQueue[1]
  OBVIOUS
<1> DEFINE c == m.client
           more == [done EXCEPT ![c] = @ + 1]
<1>1. /\ mIncomingMessagesQueue \in Seq(Message) /\ mIncomingMessagesQueue # <<>>
      /\ asked \in [Clients -> Seq(Requests)]
  BY DEF SInv, Take
<1>2. Taken(done) = done /\ Backlog(mIncomingMessagesQueue, asked, done) /\ Paired(done)
  <2>1. Taken(done) = [d \in Clients |-> done[d]]
    BY DEF Take, Taken
  <2>2. mainAt \in Live
    BY DEF Take, Live
  <2> QED
    BY <2>1, <2>2 DEF Progress, Queueing
<1>3. /\ m \in Message /\ m.n = done[c] + 1 /\ m.n <= Len(asked[c]) /\ asked[c][m.n] = m.type
      /\ Backlog(Tail(mIncomingMessagesQueue), asked, more)
  <2>1. PICK q \in Seq(Message), requests \in [Clients -> Seq(Requests)] :
           q = mIncomingMessagesQueue /\ requests = asked
    BY <1>1
  <2>2. q # <<>> /\ m = q[1] /\ Backlog(q, requests, done)
    BY <1>1, <1>2, <2>1
  <2>3. /\ m \in Message /\ m.n = done[m.client] + 1
        /\ m.n <= Len(requests[m.client]) /\ requests[m.client][m.n] = m.type
        /\ Backlog(Tail(q), requests, [done EXCEPT ![m.client] = @ + 1])
    BY <2>2, BacklogShrinks, Zenon
  <2> QED
    BY <2>1, <2>3
<1>4. /\ current' = m /\ mIncomingMessagesQueue' = Tail(mIncomingMessagesQueue)
      /\ asked' = asked /\ silent' = silent /\ mainAt = "drain" /\ Handle(m)
  <2>1. RemoveAt(mIncomingMessagesQueue, 1) = <<>> \o Tail(mIncomingMessagesQueue)
    BY <1>1 DEF RemoveAt
  <2>2. <<>> \o Tail(mIncomingMessagesQueue) = Tail(mIncomingMessagesQueue)
    BY <1>1
  <2> QED
    BY <2>1, <2>2 DEF Take, NextIndex, unmoved
<1>5. c \in Clients /\ m.type \in Requests /\ m.body \in AnyBody /\ m.n \in Nat
  BY <1>3 DEF Message
<1>6. m.n \notin silent[c]
  BY <1>2, <1>3, <1>5 DEF Paired
<1> HIDE DEF more
<1>7. ASSUME Histories', mainAt' # "awaiting",
             \A d \in Clients : d # c => AnswersAmong(sent'[d]) = AnswersAmong(sent[d]),
             AnswersAmong(sent'[c]) =
               IF Reply(asked[c], silent[c], m.n) \in Replies
               THEN Append(AnswersAmong(sent[c]), Reply(asked[c], silent[c], m.n)) ELSE AnswersAmong(sent[c])
      PROVE  \E some \in [Clients -> Nat] : Progress(some)'
  <2>1. more \in [Clients -> Nat] /\ Paired(more)'
    BY <1>2, <1>3, <1>4, <1>5, <1>7, OneMoreDone DEF more
  <2>2. Taken(more)' = more
    <3>1. Taken(more)' = [d \in Clients |-> more[d]]
      BY <1>7 DEF Taken
    <3> QED
      BY <2>1, <3>1
  <2>3. Awaited(more)' /\ Queueing(more)'
    BY <1>3, <1>4, <1>7, <2>2 DEF Awaited, Queueing
  <2> QED
    BY <2>1, <2>3 DEF Progress
<1>8. CASE m.type = "ServerPing" /\ SendTo(c, [type |-> "ServerPing", body |-> m.body]) /\ mainAt' = mainAt
  <2> DEFINE answer == [type |-> "ServerPing", body |-> m.body]
  <2>1. answer \in Sent /\ answer.type = "ServerPing" /\ answer.type \in Replies
    BY <1>5, ReplyTypes DEF Sent
  <2>2. sent' = [sent EXCEPT ![c] = Append(@, answer)]
    BY <1>8 DEF SendTo
  <2> HIDE DEF answer
  <2>3. /\ sent' \in [Clients -> Seq(Sent)]
        /\ \A d \in Clients : AnswersAmong(sent'[d]) =
              IF d = c /\ answer.type \in Replies THEN Append(AnswersAmong(sent[d]), answer.type)
              ELSE AnswersAmong(sent[d])
    BY <1>5, <2>1, <2>2, SendOne
  <2>4. Reply(asked[c], silent[c], m.n) = "ServerPing"
    <3>1. m.type = "ServerPing" /\ asked[c][m.n] = m.type
      BY <1>3, <1>8
    <3> QED
      BY <1>6, <3>1 DEF Reply, ReplyType
  <2>5. Histories'
    BY <1>4, <2>3 DEF Histories
  <2> QED
    BY <1>4, <1>5, <1>7, <1>8, <2>1, <2>3, <2>4, <2>5
<1>9. CASE m.type \notin DOMAIN Answer \cup {"ServerPing"} /\ sent' = sent /\ mainAt' # "awaiting"
  <2>1. Reply(asked[c], silent[c], m.n) = "none"
    BY <1>3, <1>9, ReplyTo
  <2>2. Histories'
    BY <1>4, <1>9 DEF Histories
  <2> QED
    BY <1>7, <1>9, <2>1, <2>2, ReplyTypes
<1>10. CASE m.type \in DOMAIN Answer /\ sent' = sent /\ mainAt' \in {"awaiting", "stopping"}
  <2>1. Histories' /\ Paired(done)'
    BY <1>2, <1>4, <1>10 DEF Histories, Paired
  <2>2. Awaited(done)'
    BY <1>3, <1>4, <1>10 DEF Awaited
  <2>3. Queueing(done)'
    <3>1. CASE mainAt' = "stopping"
      BY <3>1 DEF Queueing, Live
    <3>2. CASE mainAt' = "awaiting"
      <4>1. Taken(done)' = more
        BY <1>4, <1>5, <3>2 DEF Taken, more
      <4> QED
        BY <1>3, <1>4, <4>1 DEF Queueing
    <3> QED
      BY <1>10, <3>1, <3>2
  <2> QED
    BY <2>1, <2>2, <2>3 DEF Progress
<1>11. "MessageAll" \notin DOMAIN Answer
  BY DEF Answer, MessageAnswer, AccountAnswer, ChannelAnswer
<1> QED
  BY <1>4, <1>8, <1>9, <1>10, <1>11 DEF Handle


\* The request that the main thread awaits is the next one of its client.
AwaitedOne(c, n, done) ==
  /\ c \in Clients /\ c = current.client /\ n = current.n
  /\ n = done[c] + 1 /\ n <= Len(asked[c]) /\ asked[c][n] = current.type
  /\ current.type \in DOMAIN Answer
  /\ n \notin silent[c]
  /\ Backlog(mIncomingMessagesQueue, asked, [done EXCEPT ![c] = @ + 1])

LEMMA AwaitedIsNext ==
  ASSUME NEW done \in [Clients -> Nat], Progress(done), mainAt = "awaiting"
  PROVE  \E c, n : AwaitedOne(c, n, done)
<1>1. PICK c, n : c = current.client /\ n = current.n
  OBVIOUS
<1>2. /\ c \in Clients /\ n = done[c] + 1 /\ n <= Len(asked[c]) /\ asked[c][n] = current.type
      /\ current.type \in DOMAIN Answer
  BY <1>1 DEF Progress, Awaited, Message
<1>3. n \notin silent[c]
  BY <1>2 DEF Progress, Paired
<1>4. PICK more : more = [done EXCEPT ![c] = @ + 1]
  OBVIOUS
<1>5. Backlog(mIncomingMessagesQueue, asked, more)
  <2>1. Taken(done) = more
    BY <1>1, <1>2, <1>4 DEF Taken
  <2> QED
    BY <2>1 DEF Progress, Queueing, Live
<1>6. AwaitedOne(c, n, done)
  BY <1>1, <1>2, <1>3, <1>4, <1>5, Zenon DEF AwaitedOne
<1> QED
  BY <1>6

\* When it is dealt with, the main thread goes on with the messages behind it.
LEMMA AwaitedDone ==
  ASSUME SInv, Histories, Histories', NEW done \in [Clients -> Nat], Progress(done),
         NEW c, NEW n, AwaitedOne(c, n, done),
         UNCHANGED <<asked, mIncomingMessagesQueue, current>>, mainAt' # "awaiting",
         silent' = silent \/ silent' = [silent EXCEPT ![c] = @ \cup {n}],
         \A d \in Clients : d # c => AnswersAmong(sent'[d]) = AnswersAmong(sent[d]),
         AnswersAmong(sent'[c]) =
           IF Reply(asked[c], silent'[c], n) \in Replies
           THEN Append(AnswersAmong(sent[c]), Reply(asked[c], silent'[c], n)) ELSE AnswersAmong(sent[c])
  PROVE  \E more \in [Clients -> Nat] : Progress(more)'
<1> PICK more : more = [done EXCEPT ![c] = @ + 1]
  OBVIOUS
<1>1. c \in Clients /\ n = done[c] + 1 /\ n <= Len(asked[c]) /\ Paired(done) /\ asked' = asked
  BY DEF AwaitedOne, Progress
<1>2. more \in [Clients -> Nat] /\ Paired(more)'
  BY <1>1, OneMoreDone
<1>3. Taken(more)' = more
  <2>1. Taken(more)' = [d \in Clients |-> more[d]]
    BY DEF Taken
  <2> QED
    BY <1>2, <2>1
<1>4. Awaited(more)' /\ Queueing(more)'
  BY <1>3 DEF Awaited, Queueing, AwaitedOne
<1> QED
  BY <1>2, <1>4 DEF Progress

LEMMA SendAnswerProgress ==
  ASSUME SInv, Histories, NEW done \in [Clients -> Nat], Progress(done), SendAnswer
  PROVE  Histories' /\ \E more \in [Clients -> Nat] : Progress(more)'
<1>1. PICK c, n : AwaitedOne(c, n, done)
  BY AwaitedIsNext DEF SendAnswer
<1>2. PICK answer : answer = Answer[current.type]
  OBVIOUS
<1>3. c \in Clients /\ answer \in Sent /\ answer.type \in Replies
  BY <1>1, <1>2, AnswersAreSent, ReplyTypes DEF AwaitedOne
<1>4. /\ sent' = [sent EXCEPT ![c] = Append(@, answer)]
      /\ UNCHANGED <<asked, silent, mIncomingMessagesQueue, current>> /\ mainAt' = "drain"
  BY <1>1, <1>2 DEF SendAnswer, SendTo, AnswerMessage, AwaitedOne
<1>5. /\ sent' \in [Clients -> Seq(Sent)]
      /\ \A d \in Clients : AnswersAmong(sent'[d]) =
            IF d = c /\ answer.type \in Replies THEN Append(AnswersAmong(sent[d]), answer.type)
            ELSE AnswersAmong(sent[d])
  BY <1>3, <1>4, SendOne
<1>6. Reply(asked[c], silent[c], n) = answer.type
  <2>1. asked[c][n] = current.type /\ current.type \in DOMAIN Answer /\ n \notin silent[c]
    BY <1>1 DEF AwaitedOne
  <2>2. "ServerPing" \notin DOMAIN Answer
    BY DEF Answer, MessageAnswer, AccountAnswer, ChannelAnswer
  <2> QED
    BY <1>2, <2>1, <2>2 DEF Reply, ReplyType
<1>7. Histories'
  BY <1>4, <1>5 DEF Histories
<1>8. /\ \A d \in Clients : d # c => AnswersAmong(sent'[d]) = AnswersAmong(sent[d])
      /\ AnswersAmong(sent'[c]) =
           IF Reply(asked[c], silent'[c], n) \in Replies
           THEN Append(AnswersAmong(sent[c]), Reply(asked[c], silent'[c], n)) ELSE AnswersAmong(sent[c])
      /\ mainAt' # "awaiting"
  BY <1>3, <1>4, <1>5, <1>6
<1> QED
  BY <1>1, <1>4, <1>7, <1>8, AwaitedDone

LEMMA AnswerThrowsProgress ==
  ASSUME SInv, Histories, NEW done \in [Clients -> Nat], Progress(done), AnswerThrows
  PROVE  Histories' /\ \E more \in [Clients -> Nat] : Progress(more)'
<1>1. PICK c, n : AwaitedOne(c, n, done)
  BY AwaitedIsNext DEF AnswerThrows
<1>2. UNCHANGED <<asked, sent, mIncomingMessagesQueue, current>>
  BY DEF AnswerThrows
<1>3. CASE mainAt' = "stopping" /\ silent' = silent
  <2>1. Histories' /\ Paired(done)'
    BY <1>2, <1>3 DEF Histories, Progress, Paired
  <2>2. Awaited(done)' /\ Queueing(done)'
    BY <1>3 DEF Awaited, Queueing, Live
  <2> QED
    BY <2>1, <2>2 DEF Progress
<1>4. CASE mainAt' = "drain" /\ silent' = [silent EXCEPT ![current.client] = @ \cup {current.n}]
  <2>1. c \in Clients /\ n \in Nat /\ silent' = [silent EXCEPT ![c] = @ \cup {n}]
    <3>1. c \in Clients /\ c = current.client /\ n = current.n /\ n = done[c] + 1
      BY <1>1 DEF AwaitedOne
    <3> QED
      BY <1>4, <3>1
  <2>2. Histories'
    BY <1>2, <2>1 DEF Histories
  <2>3. n \in silent'[c]
    BY <2>1 DEF Histories
  <2>4. Reply(asked[c], silent'[c], n) = "none"
    BY <2>3 DEF Reply
  <2> QED
    BY <1>1, <1>2, <1>4, <2>1, <2>2, <2>4, ReplyTypes, AwaitedDone
<1> QED
  BY <1>3, <1>4 DEF AnswerThrows

LEMMA InitPInv == Init => PInv
<1> SUFFICES ASSUME Init PROVE PInv
  OBVIOUS
<1>1. Histories
  BY DEF Init, Histories
<1> DEFINE done == [c \in Clients |-> 0]
<1>2. ASSUME NEW c \in Clients
      PROVE  AnswersAmong(sent[c]) = AnswersTo(asked[c], silent[c], 0)
  <2>1. [i \in 1..0 |-> Reply(asked[c], silent[c], i)] = <<>> /\ [i \in DOMAIN <<>> |-> <<>>[i].type] = <<>>
    OBVIOUS
  <2> QED
    BY <2>1 DEF Init, AnswersAmong, AnswersTo
<1>3. Paired(done)
  BY <1>2 DEF Paired, Init
<1>4. Awaited(done) /\ Queueing(done)
  BY DEF Awaited, Queueing, Backlog, Taken, Init, ManagerInit
<1> QED
  BY <1>1, <1>3, <1>4 DEF PInv, Progress

LEMMA NextPInv == SInv /\ PInv /\ [Next]_vars => PInv'
<1> SUFFICES ASSUME SInv, PInv, [Next]_vars PROVE PInv'
  OBVIOUS
<1>1. PICK done \in [Clients -> Nat] : Histories /\ Progress(done)
  BY DEF PInv
<1>2. CASE \E c \in Clients : QueueMessage(c)
  BY <1>1, <1>2, QueueProgress DEF PInv
<1>3. CASE Take
  BY <1>1, <1>3, TakeProgress DEF PInv
<1>4. CASE SendAnswer
  BY <1>1, <1>4, SendAnswerProgress DEF PInv
<1>5. CASE AnswerThrows
  BY <1>1, <1>5, AnswerThrowsProgress DEF PInv
<1>6. CASE Bystander
  BY <1>1, <1>6, BystanderProgress DEF PInv
<1> QED
  BY <1>1, <1>2, <1>3, <1>4, <1>5, <1>6, BystanderSteps

\* What a client has been sent is, in order, the answers to the first of its
\* requests, leaving out those whose failure onMessage caught without an answer:
\* a client may pair answers with requests by counting them, as it must, for the
\* protocol has no request ids.
THEOREM ServerAnswersPairUp == Spec => []AnswersPairUp
<1>1. SInv /\ PInv => AnswersPairUp
  <2> SUFFICES ASSUME SInv, PInv PROVE AnswersPairUp
    OBVIOUS
  <2>1. PICK done \in [Clients -> Nat] : Progress(done)
    BY DEF PInv
  <2>2. ASSUME NEW c \in Clients
        PROVE  /\ done[c] \in 0..Len(asked[c])
               /\ AnswersAmong(sent[c]) = AnswersTo(asked[c], silent[c], done[c])
    BY <2>1 DEF Progress, Paired, SInv
  <2> QED
    BY <2>2 DEF AnswersPairUp
<1> QED
  BY <1>1, InitSInv, NextSInv, InitPInv, NextPInv, PTL DEF Spec
==============================================================================
