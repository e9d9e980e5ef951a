----------------------------- MODULE BackupAgent -----------------------------
(***************************************************************************)
(* The backup agent of intelligent-protector: clients freeze databases     *)
(* before a snapshot and unfreeze them afterwards, and the monitor thread  *)
(* unfreezes what a client left frozen.  The threads are the receiver, the *)
(* dispatcher, the workers, the sender and the monitor; they share the     *)
(* queues of AgentDispatch and, under m_tMonitorsLock, the list of         *)
(* FreezeMonitor.  The process may die at any moment; the databases stay   *)
(* as they are and FreezeObjTable survives.                                *)
(***************************************************************************)
EXTENDS FreezeMonitor, AgentDispatch, FiniteSets

CONSTANTS
    ClientTargets,     \* what clients freeze and unfreeze
    MaxOutstanding,    \* client requests under way at a time
    MaxFaults          \* bound on failing calls and crashes, together

\* Upsets may contain
\*   "slow"     : a request takes longer than the delay and the loop time;
\*   "table"    : statements of the agent's own database fail;
\*   "script"   : the script that queries an object's status disappears;
\*   "refreeze" : a client freezes what it has not unfrozen.
ASSUME UpsetsAssumption ==
    Upsets \subseteq {"slow", "table", "script", "refreeze"}
ASSUME TargetsAssumption ==
    /\ Targets \subseteq Seq(Objects)
    /\ ClientTargets \subseteq Targets
    /\ \A o \in Objects : <<o>> \in Targets
ASSUME BoundsAssumption ==
    MaxOutstanding \in Nat \ {0} /\ MaxFaults \in Nat

VARIABLES
    agent,             \* "up", "starting" (the table is not loaded) or "down"
    frozen,            \* per object: is the database frozen?
    receiver,          \* the request the receive thread registers, if any
    sender,            \* the response the send thread handles, if any
    pass,              \* the monitor thread: "sleep", or holding the lock
                       \* in "responses" or "objects"
    \* the environment
    settled,           \* per target: unfrozen, as far as its clients know
    outstanding,       \* client requests not answered yet
    passed,            \* the monitor has made a pass since the last tick
    faults,
    \* history
    sinceFreeze,       \* ticks since a freeze of the object was last asked for
    abandoned,         \* objects dropped after MAX_MONITOR_TIME
    stranded           \* objects asked for before the table was loaded, or
                       \* with an answer dropped unread, until they are
                       \* frozen anew with nothing left of all that

threadVars  == <<receiver, sender, pass>>
clientVars  == <<settled, outstanding>>
historyVars == <<sinceFreeze, abandoned, stranded>>

vars == <<monitorVars, dispatchVars, agent, frozen, threadVars, clientVars,
          passed, faults, historyVars>>

Running == agent # "down"

\* A thread that has a message at hand, the objects of it still to do, and
\* for the receiver whether the object is in the table and its age.
Idle == [msgs |-> <<>>, todo |-> <<>>, saved |-> FALSE, age |-> 0]

Busy(m) == [msgs |-> <<m>>, todo |-> m.target, saved |-> FALSE, age |-> 0]

LockFree == pass = "sleep"

\* The requests under way: held by the queues, the receiver or the sender.
UnderWay == Held \cup ToSet(receiver.msgs) \cup ToSet(sender.msgs)

\* Nothing is left of earlier requests for the object.
Forgotten(o) ==
    /\ ~frozen[o]
    /\ ~IsExistInList(o)
    /\ \A row \in table : row.obj # o
    /\ \A m \in UnderWay : o \notin ToSet(m.target)

-----------------------------------------------------------------------------
(* The receive thread: HandleReceiveMsg.  Like the other threads it runs   *)
(* before the table has been loaded.                                       *)

\* A client's freeze is received; CreateMonitorObj takes the time.
ReceiveFreeze(t) ==
    /\ Running
    /\ receiver = Idle
    /\ outstanding < MaxOutstanding
    /\ settled[t] \/ "refreeze" \in Upsets
    /\ receiver' = Busy(Request(t, "freeze", FALSE))
    /\ outstanding' = outstanding + 1
    /\ settled' = [settled EXCEPT ![t] = FALSE]
    /\ sinceFreeze' =
         [o \in Objects |-> IF o \in ToSet(t) THEN 0 ELSE sinceFreeze[o]]
    /\ abandoned' = abandoned \ ToSet(t)
    /\ stranded' = IF agent = "up"
                     THEN {o \in stranded : o \in ToSet(t) => ~Forgotten(o)}
                     ELSE stranded \cup ToSet(t)
    /\ UNCHANGED <<monitorVars, dispatchVars, agent, frozen, sender, pass,
                   passed, faults>>

\* A client's unfreeze is received: nothing to monitor.
ReceiveUnfreeze(t) ==
    /\ Running
    /\ receiver = Idle
    /\ outstanding < MaxOutstanding
    /\ ~settled[t]
    /\ PushReqMsgQueue(Request(t, "unfreeze", FALSE))
    /\ outstanding' = outstanding + 1
    /\ stranded' = IF agent = "up" THEN stranded ELSE stranded \cup ToSet(t)
    /\ UNCHANGED <<monitorVars, dispatching, firstPushed, lastPushed, workers,
                   rspQueue, agent, frozen, threadVars, settled, passed,
                   faults, sinceFreeze, abandoned>>

\* MonitorSingleFreezeOper, up to the lock.
SaveObject ==
    /\ receiver.todo # <<>>
    /\ ~receiver.saved
    /\ SaveToDB(Head(receiver.todo), receiver.age)
    /\ receiver' = [receiver EXCEPT !.saved = TRUE]
    /\ UNCHANGED <<monitors, currIndex, dispatchVars, agent, frozen, sender,
                   pass, clientVars, passed, faults, historyVars>>

\* MonitorSingleFreezeOper, under the lock; the next object of the request
\* is created afterwards and takes the time anew.
AddObject ==
    /\ receiver.todo # <<>>
    /\ receiver.saved
    /\ LockFree
    /\ AddMonitorObj(Head(receiver.todo), receiver.age)
    /\ receiver' = [receiver EXCEPT !.saved = FALSE, !.age = 0,
                                    !.todo = Tail(receiver.todo)]
    /\ UNCHANGED <<table, currIndex, dispatchVars, agent, frozen, sender, pass,
                   clientVars, passed, faults, historyVars>>

\* The freeze is monitored and goes to the request queue.
PushFreeze ==
    /\ receiver.msgs # <<>>
    /\ receiver.todo = <<>>
    /\ PushReqMsgQueue(Head(receiver.msgs))
    /\ receiver' = Idle
    /\ UNCHANGED <<monitorVars, dispatching, firstPushed, lastPushed, workers,
                   rspQueue, agent, frozen, sender, pass, clientVars, passed,
                   faults, historyVars>>

-----------------------------------------------------------------------------
(* The plugins.                                                            *)

\* The databases after a request, and what the request answers.
Outcome(m) ==
    LET Set(S, b) == [o \in Objects |-> IF o \in S THEN b ELSE frozen[o]]
        all       == ToSet(m.target)
    IN  CASE m.kind = "freeze"   -> {<<Set(all, TRUE), "ok">>}
          [] m.kind = "unfreeze" -> {<<Set(all, FALSE), "ok">>}
          [] m.kind = "query"    ->
               {<<frozen, IF \E o \in all : frozen[o] THEN "frozen"
                                                      ELSE "thawed">>}

\* A failing request has been carried out for some of its objects.
FailingOutcome(m) ==
    LET Set(S, b) == [o \in Objects |-> IF o \in S THEN b ELSE frozen[o]]
        some      == SUBSET ToSet(m.target)
    IN  CASE m.kind = "freeze"   ->
               {<<Set(S, TRUE), "failed">> : S \in some}
                 \cup {<<frozen, "wrongPassword">>}
          [] m.kind = "unfreeze" -> {<<Set(S, FALSE), "failed">> : S \in some}
          [] m.kind = "query"    -> {<<frozen, "failed">>}

\* A worker invokes the plugin of its request.
Invoke(w) ==
    LET m == Head(workers[w].current)
    IN  /\ workers[w].current # <<>>
        /\ m.ret = "none"
        /\ \E out \in Outcome(m) \cup FailingOutcome(m) :
              /\ frozen' = out[1]
              /\ workers' = [workers EXCEPT ![w].current =
                               <<Answered(m, out[2])>>]
              /\ faults' = IF out \in Outcome(m) THEN faults ELSE faults + 1
        /\ faults' \leq MaxFaults
        /\ UNCHANGED <<monitorVars, reqQueue, dispatching, firstPushed,
                       lastPushed, rspQueue, agent, threadVars, clientVars,
                       passed, historyVars>>

Dispatch ==
    /\ \/ PopReqMsgQueue
       \/ PushMsgToWorker
       \/ \E w \in Workers : PopRequest(w) \/ Respond(w)
    /\ UNCHANGED <<monitorVars, agent, frozen, threadVars, clientVars, passed,
                   faults, historyVars>>

-----------------------------------------------------------------------------
(* The send thread: SendThreadFunc.                                        *)

PopRspMsgQueue ==
    /\ sender = Idle
    /\ FirstResponse(FALSE) # 0
    /\ sender' = Busy(rspQueue[FirstResponse(FALSE)])
    /\ PopResponse(FALSE)
    /\ UNCHANGED <<monitorVars, reqQueue, dispatching, firstPushed, lastPushed,
                   workers, agent, frozen, receiver, pass, clientVars, passed,
                   faults, historyVars>>

\* Nothing is frozen any more, or was in the first place.
Ended(m) ==
    <<m.kind, m.ret>> \in {<<"freeze", "wrongPassword">>, <<"unfreeze", "ok">>}

\* UpdateSingleFreezeOper for the next object of the request.
UpdateSingleFreezeOper ==
    LET m == Head(sender.msgs)
        o == Head(sender.todo)
        ended == Ended(m)
    IN  /\ sender.todo # <<>>
        /\ LockFree
        /\ sender' = [sender EXCEPT !.todo = Tail(sender.todo)]
        /\ \/ /\ IsExistInList(o)
              /\ ended
              /\ Release(o)
           \/ /\ IsExistInList(o)
              /\ ~ended
              /\ m.kind = "freeze"
              /\ SetMonitorObj(o, [GetMonitorObj(o) EXCEPT !.age = 0])
              /\ UNCHANGED table
           \/ /\ IsExistInList(o) => ~ended /\ m.kind = "unfreeze"
              /\ UNCHANGED <<monitors, table>>
        /\ UNCHANGED <<currIndex, dispatchVars, agent, frozen, receiver, pass,
                       clientVars, passed, faults, historyVars>>

\* The response is sent.
Send ==
    LET m == Head(sender.msgs)
    IN  /\ sender.msgs # <<>>
        /\ sender.todo = <<>>
        /\ sender' = Idle
        /\ outstanding' = outstanding - 1
        /\ settled' = [settled EXCEPT ![m.target] =
                          settled[m.target] \/ Ended(m)]
        /\ UNCHANGED <<monitorVars, dispatchVars, agent, frozen, receiver,
                       pass, passed, faults, historyVars>>

-----------------------------------------------------------------------------
(* The monitor thread: HandleMonitorObjs, which holds the lock throughout. *)

BeginPass ==
    /\ agent = "up"
    /\ pass = "sleep"
    /\ pass' = "responses"
    /\ UNCHANGED <<monitorVars, dispatchVars, agent, frozen, receiver, sender,
                   clientVars, passed, faults, historyVars>>

\* HandleUnFreezingMonitorObj.
HandleUnFreezingMonitorObj(o, ret) ==
    LET m == GetMonitorObj(o)
    IN  \/ /\ m.status = "FREEZED"
           /\ UNCHANGED <<monitors, table>>
        \/ /\ m.status # "FREEZED"
           /\ ret = "ok"
           /\ Release(o)
        \/ /\ m.status # "FREEZED"
           /\ ret # "ok"
           /\ SetMonitorObj(o, [m EXCEPT !.status = "FREEZED",
                !.loop = IF MaxMonitorTime >= m.loop THEN 2 * m.loop
                                                     ELSE m.loop])
           /\ UNCHANGED table

\* PushUnFreezeReq or PushQueryStatusReq, which need memory and the URL of a
\* freeze request.
PushInternalReq(o, kind) ==
    PushReqMsgQueue(Request(<<o>>, kind, TRUE)) /\ UNCHANGED faults

PushFails == faults < MaxFaults /\ faults' = faults + 1 /\ UNCHANGED reqQueue

\* Mutant: the answer to a query is taken for the current freeze's, although
\* the object has been frozen anew since the query was made.
HandleQueryStatusAlways(o, ret) ==
    \/ /\ ret = "thawed"
       /\ Release(o)
       /\ UNCHANGED <<reqQueue, faults>>
    \/ /\ ret = "frozen"
       /\ PushInternalReq(o, "unfreeze")
       /\ SetStatus(o, "UNFREEZING")
       /\ UNCHANGED table
    \/ /\ ret = "failed"
       /\ SetStatus(o, "FREEZED")
       /\ UNCHANGED <<table, reqQueue, faults>>

\* Mutant: a query that failed leaves the object as it is.
HandleQueryStatusNoRetry(o, ret) ==
    LET current == GetMonitorObj(o).status # "FREEZED"
    IN  \/ /\ ~current \/ ret = "failed"
           /\ UNCHANGED <<monitors, table, reqQueue, faults>>
        \/ /\ current
           /\ ret = "thawed"
           /\ Release(o)
           /\ UNCHANGED <<reqQueue, faults>>
        \/ /\ current
           /\ ret = "frozen"
           /\ PushInternalReq(o, "unfreeze")
           /\ SetStatus(o, "UNFREEZING")
           /\ UNCHANGED table

\* HandleQueryStatusMonitorObj.
HandleQueryStatusMonitorObj(o, ret) ==
    LET current == GetMonitorObj(o).status # "FREEZED"
    IN  \/ /\ ~current
           /\ UNCHANGED <<monitors, table, reqQueue, faults>>
        \/ /\ current
           /\ ret = "thawed"
           /\ Release(o)
           /\ UNCHANGED <<reqQueue, faults>>
        \/ /\ current
           /\ ret = "frozen"
           /\ PushInternalReq(o, "unfreeze")
           /\ SetStatus(o, "UNFREEZING")
           /\ UNCHANGED table
        \/ /\ current
           /\ ret = "frozen"
           /\ PushFails
           /\ SetStatus(o, "FREEZED")
           /\ UNCHANGED table
        \/ /\ current
           /\ ret = "failed"
           /\ SetStatus(o, "FREEZED")
           /\ UNCHANGED <<table, reqQueue, faults>>

\* ProcessInternalRsps takes the next response to a request of its own.
ProcessInternalRsp ==
    LET m == rspQueue[FirstResponse(TRUE)]
        o == Head(m.target)
    IN  /\ pass = "responses"
        /\ FirstResponse(TRUE) # 0
        /\ PopResponse(TRUE)
        /\ \/ /\ ~IsExistInList(o)
              /\ UNCHANGED <<monitors, table, reqQueue, faults>>
           \/ /\ IsExistInList(o)
              /\ m.kind = "unfreeze"
              /\ HandleUnFreezingMonitorObj(o, m.ret)
              /\ UNCHANGED <<reqQueue, faults>>
           \/ /\ IsExistInList(o)
              /\ m.kind = "query"
              /\ HandleQueryStatusMonitorObj(o, m.ret)
        /\ UNCHANGED <<currIndex, dispatching, firstPushed, lastPushed,
                       workers, agent, frozen, threadVars, clientVars, passed,
                       historyVars>>

\* Instance or database name cannot be read from the request: the response
\* is dropped, and the object goes on waiting for it.
DropInternalRsp ==
    /\ pass = "responses"
    /\ FirstResponse(TRUE) # 0
    /\ faults < MaxFaults
    /\ faults' = faults + 1
    /\ stranded' = stranded \cup ToSet(rspQueue[FirstResponse(TRUE)].target)
    /\ PopResponse(TRUE)
    /\ UNCHANGED <<monitorVars, reqQueue, dispatching, firstPushed, lastPushed,
                   workers, agent, frozen, threadVars, clientVars, passed,
                   sinceFreeze, abandoned>>

ResponsesDone ==
    /\ pass = "responses"
    /\ FirstResponse(TRUE) = 0
    /\ pass' = "objects"
    /\ UNCHANGED <<monitorVars, dispatchVars, agent, frozen, receiver, sender,
                   clientVars, passed, faults, historyVars>>

\* HandleFreezedMonitorObj.  The status is set through the pointer to the
\* object, whatever its place in the list; the object is released by value.
HandleFreezedMonitorObj(m) ==
    \/ /\ m.age \leq 0 \/ m.age < m.loop
       /\ m.age < MaxMonitorTime
       /\ UNCHANGED <<monitors, table, reqQueue, abandoned, faults>>
    \/ /\ m.age >= MaxMonitorTime
       /\ Release(m.obj)
       /\ abandoned' = abandoned \cup {m.obj}
       /\ UNCHANGED <<reqQueue, faults>>
    \/ /\ m.age > 0 /\ m.age >= m.loop
       /\ m.age < MaxMonitorTime
       /\ \/ /\ PushInternalReq(m.obj, "query")
             /\ monitors' = [monitors EXCEPT ![currIndex + 1].status =
                               "GETSTATUSING"]
             /\ UNCHANGED table
          \/ PushFails /\ UNCHANGED <<monitors, table>>
          \/ /\ "script" \in Upsets
             /\ Release(m.obj)
             /\ UNCHANGED <<reqQueue, faults>>
       /\ UNCHANGED abandoned

\* GetHandleMonitorObj: the index moves on even if an object is released.
HandleNextObject ==
    LET m == monitors[currIndex + 1]
    IN  /\ pass = "objects"
        /\ currIndex < Len(monitors)
        /\ currIndex' = currIndex + 1
        /\ \/ /\ m.status # "FREEZED"
              /\ UNCHANGED <<monitors, table, reqQueue, abandoned, faults>>
           \/ /\ m.status = "FREEZED"
              /\ HandleFreezedMonitorObj(m)
        /\ UNCHANGED <<dispatching, firstPushed, lastPushed, workers, rspQueue,
                       agent, frozen, threadVars, clientVars, passed,
                       sinceFreeze, stranded>>

\* Mutant: the index of the objects handled is not set back.
EndPassNoReset ==
    /\ pass = "objects"
    /\ currIndex >= Len(monitors)
    /\ pass' = "sleep"
    /\ passed' = TRUE
    /\ UNCHANGED <<monitorVars, dispatchVars, agent, frozen, receiver, sender,
                   clientVars, faults, historyVars>>

EndPass ==
    /\ pass = "objects"
    /\ currIndex >= Len(monitors)
    /\ currIndex' = 0
    /\ pass' = "sleep"
    /\ passed' = TRUE
    /\ UNCHANGED <<monitors, table, dispatchVars, agent, frozen, receiver,
                   sender, clientVars, faults, historyVars>>

-----------------------------------------------------------------------------
(* The process and time.                                                   *)

Crash ==
    /\ Running
    /\ faults < MaxFaults
    /\ faults' = faults + 1
    /\ agent' = "down"
    /\ monitors' = <<>>
    /\ currIndex' = 0
    /\ DropMessages
    /\ receiver' = Idle
    /\ sender' = Idle
    /\ pass' = "sleep"
    /\ outstanding' = 0
    /\ UNCHANGED <<table, frozen, settled, passed, historyVars>>

Start ==
    /\ agent = "down"
    /\ agent' = "starting"
    /\ UNCHANGED <<monitorVars, dispatchVars, frozen, threadVars, clientVars,
                   passed, faults, historyVars>>

\* CFTExceptionHandle::Init, after the queues' threads have been started.  An
\* object of the table that was frozen meanwhile has two entries.
LoadObjects ==
    /\ agent = "starting"
    /\ agent' = "up"
    /\ LoadFromDB
    /\ UNCHANGED <<table, currIndex, dispatchVars, frozen, threadVars,
                   clientVars, passed, faults, historyVars>>

\* A tick of the clock.  The monitor's passes are seconds apart and so never
\* miss a tick, and unless "slow" no request lasts for two.
Tick ==
    LET OldMsgs(thread) ==
          [i \in DOMAIN thread.msgs |-> [thread.msgs[i] EXCEPT !.old = TRUE]]
    IN  /\ passed \/ agent # "up"
        /\ "slow" \in Upsets \/ \A m \in UnderWay : ~m.old
        /\ passed' = FALSE
        /\ monitors' = [i \in DOMAIN monitors |->
             [monitors[i] EXCEPT !.age = Older(monitors[i].age)]]
        /\ table' = {[row EXCEPT !.age = Older(row.age)] : row \in table}
        /\ sinceFreeze' = [o \in Objects |-> Older(sinceFreeze[o])]
        /\ AgeMessages
        /\ receiver' = [receiver EXCEPT !.msgs = OldMsgs(receiver),
             !.age = IF receiver.msgs = <<>> THEN 0 ELSE Older(receiver.age)]
        /\ sender' = [sender EXCEPT !.msgs = OldMsgs(sender)]
        /\ UNCHANGED <<currIndex, agent, frozen, pass, clientVars, faults,
                       abandoned, stranded>>

-----------------------------------------------------------------------------
\* The agent has been started for the first time, its table empty; later
\* starts are those after a crash.
Init ==
    /\ MonitorInit
    /\ DispatchInit
    /\ agent = "up"
    /\ frozen = [o \in Objects |-> FALSE]
    /\ receiver = Idle
    /\ sender = Idle
    /\ pass = "sleep"
    /\ settled = [t \in ClientTargets |-> TRUE]
    /\ outstanding = 0
    /\ passed = FALSE
    /\ faults = 0
    /\ sinceFreeze = [o \in Objects |-> MaxMonitorTime]
    /\ abandoned = {}
    /\ stranded = {}

Client == \E t \in ClientTargets : ReceiveFreeze(t) \/ ReceiveUnfreeze(t)

Receiver == SaveObject \/ AddObject \/ PushFreeze

Sender == PopRspMsgQueue \/ UpdateSingleFreezeOper \/ Send

Monitor ==
    \/ BeginPass
    \/ ProcessInternalRsp
    \/ DropInternalRsp
    \/ ResponsesDone
    \/ HandleNextObject
    \/ EndPass

Next ==
    \/ Client
    \/ Receiver
    \/ Dispatch
    \/ \E w \in Workers : Invoke(w)
    \/ Sender
    \/ Monitor
    \/ Crash
    \/ Start
    \/ LoadObjects
    \/ Tick

Spec == Init /\ [][Next]_vars

Fairness ==
    /\ SF_vars(Receiver)
    /\ SF_vars(Sender)
    /\ WF_vars(Monitor)
    /\ WF_vars((PopReqMsgQueue \/ PushMsgToWorker) /\ Dispatch)
    /\ \A w \in Workers :
         /\ WF_vars((PopRequest(w) \/ Respond(w)) /\ Dispatch)
         /\ WF_vars(Invoke(w))
    /\ WF_vars(Start \/ LoadObjects)
    /\ WF_vars(Tick)

FairSpec == Spec /\ Fairness

-----------------------------------------------------------------------------
(* Properties.                                                             *)

Thread ==
    [msgs : Seq(Message), todo : Seq(Objects), saved : BOOLEAN, age : Ages]

\* The values the variables take.
TypeOK ==
    /\ MonitorTypeOK
    /\ DispatchTypeOK
    /\ agent \in {"up", "starting", "down"}
    /\ frozen \in [Objects -> BOOLEAN]
    /\ receiver \in Thread
    /\ sender \in Thread
    /\ pass \in {"sleep", "responses", "objects"}
    /\ settled \in [ClientTargets -> BOOLEAN]
    /\ outstanding \in 0 .. MaxOutstanding
    /\ passed \in BOOLEAN
    /\ faults \in 0 .. MaxFaults
    /\ sinceFreeze \in [Objects -> 0 .. MaxMonitorTime]
    /\ abandoned \subseteq Objects
    /\ stranded \subseteq Objects

\* A database that is frozen, and was asked to be less than MAX_MONITOR_TIME
\* ago, is in the list of a running agent and in the table, so that neither
\* a client that goes away nor a crash of the agent leaves it frozen: from
\* MonitorSingleFreezeOper, called before the request is queued, until the
\* response to an unfreeze or to a query has been handled.  Excepted are
\* objects a client asked for while the agent started (Agent.cpp:181-206): an
\* unfreeze then leaves the old row, and a freeze a second entry in the list.
FrozenIsMonitored ==
    \A o \in Objects \ stranded :
        frozen[o] /\ sinceFreeze[o] < MaxMonitorTime =>
            /\ \E row \in table : row.obj = o
            /\ agent = "up" => IsExistInList(o)

\* An object that waits for the answer to a query or to an unfreeze (only
\* ProcessInternalRsps can end that wait, no timeout does) has such a request
\* under way.  Excepted are the objects a client asked for while the agent
\* started, which Init may enter a second time, and those whose answer was
\* dropped unread (FTExceptionHandle.cpp:141-152).
WaitingHasRequest ==
    \A i \in DOMAIN monitors :
        monitors[i].status # "FREEZED" /\ monitors[i].obj \notin stranded =>
            \E m \in UnderWay :
                /\ m.internal
                /\ m.target = <<monitors[i].obj>>
                /\ m.kind = IF monitors[i].status = "UNFREEZING"
                              THEN "unfreeze" ELSE "query"

\* A frozen database is unfrozen in the end, by its client or by the monitor
\* thread, or the monitor gives up on it after MAX_MONITOR_TIME, or a start or
\* an unread answer has spoilt its record (stranded).
FrozenIsThawed ==
    \A o \in Objects : frozen[o] ~> ~frozen[o] \/ o \in abandoned \cup stranded

\* The monitor thread's own unfreeze reaches a frozen database only when the
\* loop time has passed since a client last froze it.
ThawedOnlyWhenDue ==
    [][\A w \in Workers, o \in Objects :
         /\ workers[w].current # <<>>
         /\ Head(workers[w].current).internal
         /\ workers'[w].current # workers[w].current
         /\ frozen[o] /\ ~frozen'[o]
         => sinceFreeze[o] >= LoopTime]_vars
=============================================================================
