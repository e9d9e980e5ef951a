---------------------------- MODULE AgentDispatch ----------------------------
(***************************************************************************)
(* How a request travels through the backup agent: the request queue and   *)
(* the response queue (CCommunication), the dispatcher that looks for an   *)
(* idle worker (CTaskDispatchWorker) and the workers, each with a queue of *)
(* its own (CTaskWorker).  What a plugin does when a worker invokes it is  *)
(* left to BackupAgent.                                                    *)
(***************************************************************************)
EXTENDS Integers, SequencesExt

CONSTANTS
    Targets,           \* what a request may name: sequences of objects
    WorkerCount,       \* m_iWorkerCount
    MaxPushedWorkers   \* MAX_PUSHED_WORKERS_CNT

ASSUME WorkersAssumption ==
    WorkerCount \in Nat \ {0} /\ MaxPushedWorkers \in Nat \ {0}

VARIABLES
    reqQueue,          \* m_reqMsgQueue
    dispatching,       \* the request in PushMsgToWorker, if any: <<>>, <<m>>
    firstPushed,       \* m_firstPushedWorker, local to PushMsgToWorker
    lastPushed,        \* m_lastPushedWorker
    workers,           \* the pool
    rspQueue           \* m_rspMsgQueue

dispatchVars ==
    <<reqQueue, dispatching, firstPushed, lastPushed, workers, rspQueue>>

Workers == 0 .. WorkerCount - 1

\* A request and its response.  ret is "none" until the request has been
\* carried out; old tells that a tick has passed since it was made.
Message ==
    [target : Targets, kind : {"freeze", "unfreeze", "query"},
     internal : BOOLEAN, old : BOOLEAN,
     ret : {"none", "ok", "failed", "wrongPassword", "frozen", "thawed"}]

Request(target, kind, internal) ==
    [target |-> target, kind |-> kind, internal |-> internal, old |-> FALSE,
     ret |-> "none"]

Answered(m, ret) == [m EXCEPT !.ret = ret]

\* A worker's m_vecReqQueue, its m_bProcReq and the request it works on.
Worker == [queue : Seq(Message), busy : BOOLEAN, current : Seq(Message)]

PushReqMsgQueue(m) == reqQueue' = Append(reqQueue, m)

PushRspMsgQueue(m) == rspQueue' = Append(rspQueue, m)

\* PopRspMsgQueue and PopRspInternalMsgQueue: the first response of the
\* caller's kind, if any, is taken out of the queue.
FirstResponse(internal) ==
    SelectInSeq(rspQueue, LAMBDA m : m.internal = internal)

PopResponse(internal) ==
    rspQueue' = RemoveAt(rspQueue, FirstResponse(internal))

-----------------------------------------------------------------------------
\* DispacthProc takes the next request.
PopReqMsgQueue ==
    /\ dispatching = <<>>
    /\ reqQueue # <<>>
    /\ dispatching' = <<Head(reqQueue)>>
    /\ reqQueue' = Tail(reqQueue)
    /\ firstPushed' = lastPushed
    /\ UNCHANGED <<lastPushed, workers, rspQueue>>

\* Mutant: the counter of the workers tried never starts again.
PushMsgToWorkerNoWrap ==
    LET m    == Head(dispatching)
        w    == lastPushed % WorkerCount
        next == lastPushed + 1
        gaveUp == next - firstPushed - 1 = WorkerCount
    IN  /\ dispatching # <<>>
        /\ lastPushed' = next
        /\ \/ /\ gaveUp
              /\ PushRspMsgQueue(Answered(m, "failed"))
              /\ dispatching' = <<>>
              /\ firstPushed' = 0
              /\ UNCHANGED workers
           \/ /\ ~gaveUp
              /\ workers[w].busy
              /\ UNCHANGED <<dispatching, firstPushed, workers, rspQueue>>
           \/ /\ ~gaveUp
              /\ ~workers[w].busy
              /\ workers' =
                   [workers EXCEPT ![w].queue = Append(workers[w].queue, m)]
              /\ dispatching' = <<>>
              /\ firstPushed' = 0
              /\ UNCHANGED rspQueue
        /\ UNCHANGED reqQueue

\* One round of PushMsgToWorker: the next worker is given the request if it
\* is idle; when all have been found busy the request is answered.
PushMsgToWorker ==
    LET m    == Head(dispatching)
        w    == lastPushed % WorkerCount
        next == IF lastPushed + 1 > MaxPushedWorkers THEN 0 ELSE lastPushed + 1
        gaveUp == next - firstPushed - 1 = WorkerCount
    IN  /\ dispatching # <<>>
        /\ lastPushed' = next
        /\ \/ /\ gaveUp
              /\ PushRspMsgQueue(Answered(m, "failed"))
              /\ dispatching' = <<>>
              /\ firstPushed' = 0
              /\ UNCHANGED workers
           \/ /\ ~gaveUp
              /\ workers[w].busy
              /\ UNCHANGED <<dispatching, firstPushed, workers, rspQueue>>
           \/ /\ ~gaveUp
              /\ ~workers[w].busy
              /\ workers' =
                   [workers EXCEPT ![w].queue = Append(workers[w].queue, m)]
              /\ dispatching' = <<>>
              /\ firstPushed' = 0
              /\ UNCHANGED rspQueue
        /\ UNCHANGED reqQueue

\* A worker takes a request of its queue, or notes that there is none.
PopRequest(w) ==
    LET some == workers[w].queue # <<>>
    IN  /\ workers[w].current = <<>>
        /\ some \/ workers[w].busy
        /\ workers' = [workers EXCEPT ![w] =
             [queue   |-> IF some THEN Tail(workers[w].queue) ELSE <<>>,
              busy    |-> some,
              current |-> IF some THEN <<Head(workers[w].queue)>> ELSE <<>>]]
        /\ UNCHANGED
             <<reqQueue, dispatching, firstPushed, lastPushed, rspQueue>>

\* The worker's plugin has answered: ReqProc hands over the response.
Respond(w) ==
    /\ workers[w].current # <<>>
    /\ Head(workers[w].current).ret # "none"
    /\ PushRspMsgQueue(Head(workers[w].current))
    /\ workers' = [workers EXCEPT ![w].current = <<>>]
    /\ UNCHANGED <<reqQueue, dispatching, firstPushed, lastPushed>>

-----------------------------------------------------------------------------
\* Every request the agent holds.
Held ==
    ToSet(reqQueue) \cup ToSet(dispatching) \cup ToSet(rspQueue)
      \cup UNION {ToSet(workers[w].queue) \cup ToSet(workers[w].current) :
                    w \in Workers}

\* A tick passes for every request the agent holds.
AgeMessages ==
    LET Aged(q) == [i \in DOMAIN q |-> [q[i] EXCEPT !.old = TRUE]]
    IN  /\ reqQueue' = Aged(reqQueue)
        /\ dispatching' = Aged(dispatching)
        /\ rspQueue' = Aged(rspQueue)
        /\ workers' = [w \in Workers |->
             [workers[w] EXCEPT !.queue = Aged(workers[w].queue),
                                !.current = Aged(workers[w].current)]]
        /\ UNCHANGED <<firstPushed, lastPushed>>

\* The process is gone, and starts again with nothing.
DropMessages ==
    /\ reqQueue' = <<>>
    /\ dispatching' = <<>>
    /\ rspQueue' = <<>>
    /\ firstPushed' = 0
    /\ lastPushed' = 0
    /\ workers' =
         [w \in Workers |-> [queue |-> <<>>, busy |-> FALSE, current |-> <<>>]]

DispatchInit ==
    /\ reqQueue = <<>>
    /\ dispatching = <<>>
    /\ rspQueue = <<>>
    /\ firstPushed = 0
    /\ lastPushed = 0
    /\ workers =
         [w \in Workers |-> [queue |-> <<>>, busy |-> FALSE, current |-> <<>>]]

DispatchTypeOK ==
    /\ reqQueue \in Seq(Message)
    /\ dispatching \in Seq(Message) /\ Len(dispatching) \leq 1
    /\ rspQueue \in Seq(Message)
    /\ firstPushed \in 0 .. MaxPushedWorkers
    /\ lastPushed \in 0 .. MaxPushedWorkers
    /\ workers \in [Workers -> Worker]
    /\ \A w \in Workers : Len(workers[w].current) \leq 1
=============================================================================
