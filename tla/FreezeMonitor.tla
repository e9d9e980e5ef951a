---------------------------- MODULE FreezeMonitor ----------------------------
(***************************************************************************)
(* The backup agent's record of the databases it has frozen (CFTException- *)
(* Handle, src/agent/FTExceptionHandle.cpp): the list of monitored objects *)
(* in memory and the FreezeObjTable that survives a crash.                 *)
(*                                                                         *)
(* A begin time is kept as the age it gives, the ticks since then: it is   *)
(* negative while the delay that a new object is granted runs, and stops   *)
(* at MAX_MONITOR_TIME, beyond which the code tells no two ages apart.     *)
(***************************************************************************)
EXTENDS Integers, SequencesExt

CONSTANTS
    Objects,           \* databases and disks: app type, instance, database
    KeyOf,             \* an object's key in the table: instance, database
    MaxMonitorTime,    \* MAX_MONITOR_TIME
    DelayUnfreezeTime, \* DELAY_UNFREEZE_TIME
    LoopTime,          \* loop_time of a freeze request
    Upsets             \* what else may happen, see BackupAgent

ASSUME TimesAssumption ==
    /\ MaxMonitorTime \in Nat \ {0}
    /\ DelayUnfreezeTime \in Nat
    /\ LoopTime \in Nat \ {0}

VARIABLES
    monitors,          \* m_vecMonitors
    table,             \* FreezeObjTable
    currIndex          \* m_iCurrIndex: objects handled in this pass

monitorVars == <<monitors, table, currIndex>>

Ages == -DelayUnfreezeTime .. MaxMonitorTime

LoopTimes == 1 .. 2 * MaxMonitorTime + LoopTime

MonitorObj ==
    [obj : Objects, status : {"FREEZED", "UNFREEZING", "GETSTATUSING"},
     age : Ages, loop : LoopTimes]

Row == [obj : Objects, age : Ages, loop : LoopTimes]

Older(age) == IF age < MaxMonitorTime THEN age + 1 ELSE age

-----------------------------------------------------------------------------
(* The list.                                                               *)

\* Where the first object that IsSame as o is, 0 if there is none.
Position(o) == SelectInSeq(monitors, LAMBDA m : m.obj = o)

IsExistInList(o) == Position(o) # 0

GetMonitorObj(o) == monitors[Position(o)]

SetMonitorObj(o, m) == monitors' = [monitors EXCEPT ![Position(o)] = m]

SetStatus(o, s) == SetMonitorObj(o, [GetMonitorObj(o) EXCEPT !.status = s])

\* CreateMonitorObj gave the object its age; only the list adds the delay.
AddMonitorObj(o, age) ==
    LET new == [obj |-> o, status |-> "FREEZED",
                age |-> age - DelayUnfreezeTime, loop |-> LoopTime]
    IN  IF IsExistInList(o)
          THEN SetMonitorObj(o, new)
          ELSE monitors' = Append(monitors, new)

DelMonitorObj(o) == monitors' = RemoveAt(monitors, Position(o))

-----------------------------------------------------------------------------
(* The table.  Its rows are found by instance and database alone, and an   *)
(* error of the database is logged and otherwise ignored.                  *)

IsExistInDB(o) == \E row \in table : KeyOf[row.obj] = KeyOf[o]

\* What the table may be after a statement that makes it t.
Executed(t) == IF "table" \in Upsets THEN {t, table} ELSE {t}

SaveToDB(o, age) ==
    table' \in IF IsExistInDB(o)
                 THEN {table}
                 ELSE Executed(
                        table \cup {[obj |-> o, age |-> age, loop |-> LoopTime]})

RemoveFromDB(o) ==
    table' \in Executed({row \in table : KeyOf[row.obj] # KeyOf[o]})

\* RemoveFromDB and DelMonitorObj, always called together.
Release(o) == RemoveFromDB(o) /\ DelMonitorObj(o)

\* The rows in the order the query returns them.
LoadFromDB ==
    \E rows \in SetToSeqs(table) :
        monitors' = monitors \o [i \in DOMAIN rows |->
            [obj |-> rows[i].obj, status |-> "FREEZED", age |-> rows[i].age,
             loop |-> rows[i].loop]]

-----------------------------------------------------------------------------
MonitorInit ==
    /\ monitors = <<>>
    /\ table = {}
    /\ currIndex = 0

MonitorTypeOK ==
    /\ monitors \in Seq(MonitorObj)
    /\ table \subseteq Row
    /\ currIndex \in Nat
=============================================================================
