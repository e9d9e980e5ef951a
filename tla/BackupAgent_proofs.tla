------------------------ MODULE BackupAgent_proofs ------------------------
(***************************************************************************)
(* Theorems about BackupAgent, for any number of objects, workers, client  *)
(* requests and faults: types, the waits of the monitor and the count of   *)
(* the client requests.                                                    *)
(***************************************************************************)
EXTENDS BackupAgent, SequenceLemmas

-----------------------------------------------------------------------------
(***************************************************************************)
(* The list, the table and the queues keep their types.                    *)
(***************************************************************************)
LEMMA PositionOf ==
    ASSUME monitors \in Seq(MonitorObj), NEW o
    PROVE  /\ Position(o) \in Nat
           /\ IsExistInList(o) =>
                Position(o) \in 1 .. Len(monitors) /\ monitors[Position(o)].obj = o
           /\ ~IsExistInList(o) =>
                \A i \in 1 .. Len(monitors) : monitors[i].obj # o
<1> DEFINE I == {i \in 1 .. Len(monitors) : monitors[i].obj = o}
<1>1. Position(o) = IF I # {} THEN Min(I) ELSE 0
  BY DEF Position, SelectInSeq
<1>2. I \subseteq Nat /\ 0 \notin I
  OBVIOUS
<1>3. I # {} => Min(I) \in I
  BY <1>2, LeastElement
<1> QED
  BY <1>1, <1>2, <1>3 DEF IsExistInList

LEMMA FirstResponseOf ==
    ASSUME rspQueue \in Seq(Message), NEW b
    PROVE  /\ FirstResponse(b) \in Nat
           /\ FirstResponse(b) # 0 =>
                /\ FirstResponse(b) \in 1 .. Len(rspQueue)
                /\ rspQueue[FirstResponse(b)].internal = b
<1> DEFINE I == {i \in 1 .. Len(rspQueue) : rspQueue[i].internal = b}
<1>1. FirstResponse(b) = IF I # {} THEN Min(I) ELSE 0
  BY DEF FirstResponse, SelectInSeq
<1>2. I \subseteq Nat /\ 0 \notin I
  OBVIOUS
<1>3. I # {} => Min(I) \in I
  BY <1>2, LeastElement
<1> QED
  BY <1>1, <1>2, <1>3

\* The list and the table; the rows of the table have keys of their own.
TableTypes(t) ==
    /\ t \subseteq Row
    /\ IsFiniteSet(t)
    /\ \A r1, r2 \in t : KeyOf[r1.obj] = KeyOf[r2.obj] => r1 = r2

ListTypes ==
    /\ monitors \in Seq(MonitorObj)
    /\ TableTypes(table)
    /\ currIndex \in Nat

\* The threads hold one message at most, and the receiver's object is not
\* younger than the request.
ThreadTypes ==
    /\ receiver \in Thread
    /\ receiver.age \in 0 .. MaxMonitorTime
    /\ Len(receiver.msgs) <= 1
    /\ sender \in Thread
    /\ Len(sender.msgs) <= 1
    /\ pass \in {"sleep", "responses", "objects"}

\* The environment; outstanding may be negative as far as this goes.
ClientTypes ==
    /\ agent \in {"up", "starting", "down"}
    /\ frozen \in [Objects -> BOOLEAN]
    /\ settled \in [ClientTargets -> BOOLEAN]
    /\ outstanding \in Int /\ outstanding <= MaxOutstanding
    /\ passed \in BOOLEAN
    /\ faults \in 0 .. MaxFaults
    /\ sinceFreeze \in [Objects -> 0 .. MaxMonitorTime]
    /\ abandoned \subseteq Objects
    /\ stranded \subseteq Objects

\* No two entries of a list are about the object.
Once(list, o) ==
    \A i, j \in DOMAIN list : list[i].obj = o /\ list[j].obj = o => i = j

\* What is in the list once is in the next list once.
OnceKept(next) == \A o : Once(monitors, o) => Once(next, o)

-----------------------------------------------------------------------------
(***************************************************************************)
(* The list after an object is set, removed or added.                      *)
(***************************************************************************)
SetAt(p, e, next) ==
    /\ next \in Seq(MonitorObj)
    /\ DOMAIN next = DOMAIN monitors
    /\ next[p] = e
    /\ \A i \in DOMAIN monitors : i # p => next[i] = monitors[i]
    /\ e.obj = monitors[p].obj => OnceKept(next)

LEMMA ObjectSet ==
    ASSUME monitors \in Seq(MonitorObj), NEW p \in 1 .. Len(monitors),
           NEW e \in MonitorObj, NEW next, next = [monitors EXCEPT ![p] = e]
    PROVE  SetAt(p, e, next)
<1>1. DOMAIN next = DOMAIN monitors /\ DOMAIN monitors = 1 .. Len(monitors)
      /\ Len(monitors) \in Nat
  OBVIOUS
<1>2. next[p] = e /\ \A i \in DOMAIN monitors : i # p => next[i] = monitors[i]
  OBVIOUS
<1>3. next \in Seq(MonitorObj)
  OBVIOUS
<1>4. e.obj = monitors[p].obj => OnceKept(next)
  BY <1>1, <1>2 DEF Once, OnceKept
<1> QED
  BY <1>1, <1>2, <1>3, <1>4 DEF SetAt

RemovedFrom(p, next) ==
    /\ next \in Seq(MonitorObj)
    /\ OnceKept(next)
    /\ \A j \in DOMAIN next :
         \E k \in DOMAIN monitors : k # p /\ next[j] = monitors[k]

LEMMA ObjectRemoved ==
    ASSUME monitors \in Seq(MonitorObj), NEW p \in 1 .. Len(monitors),
           NEW next, next = RemoveAt(monitors, p)
    PROVE  RemovedFrom(p, next)
<1>1. next \in Seq(MonitorObj) /\ Len(next) = Len(monitors) - 1
      /\ DOMAIN next = 1 .. Len(next)
  BY RemoveAtHolds, LenProperties
<1>2. \A j \in DOMAIN next :
        \E k \in DOMAIN monitors :
            /\ k # p /\ next[j] = monitors[k]
            /\ k = IF j < p THEN j ELSE j + 1
  BY RemoveAtKeeps
<1>3. ASSUME NEW o, Once(monitors, o), NEW i \in DOMAIN next,
             NEW j \in DOMAIN next, next[i].obj = o, next[j].obj = o
      PROVE  i = j
  <2>1. PICK k \in DOMAIN monitors :
            next[i] = monitors[k] /\ k = IF i < p THEN i ELSE i + 1
    BY <1>2
  <2>2. PICK l \in DOMAIN monitors :
            next[j] = monitors[l] /\ l = IF j < p THEN j ELSE j + 1
    BY <1>2
  <2>3. k = l
    BY <1>3, <2>1, <2>2 DEF Once
  <2> QED
    BY <1>1, <2>1, <2>2, <2>3
<1> QED
  BY <1>1, <1>2, <1>3 DEF RemovedFrom, Once, OnceKept

LEMMA ObjectAdded ==
    ASSUME monitors \in Seq(MonitorObj), NEW e \in MonitorObj,
           NEW next, next = Append(monitors, e)
    PROVE  /\ next \in Seq(MonitorObj)
           /\ \A j \in DOMAIN next : next[j] = e \/
                \E k \in DOMAIN monitors : next[j] = monitors[k]
           /\ ~IsExistInList(e.obj) => OnceKept(next)
<1>1. /\ next \in Seq(MonitorObj) /\ Len(next) = Len(monitors) + 1
      /\ DOMAIN next = 1 .. Len(next) /\ DOMAIN monitors = 1 .. Len(monitors)
      /\ Len(monitors) \in Nat
      /\ \A j \in 1 .. Len(monitors) : next[j] = monitors[j]
      /\ next[Len(monitors) + 1] = e
  BY AppendHolds, LenProperties
<1>2. ~IsExistInList(e.obj) =>
        \A i \in 1 .. Len(monitors) : monitors[i].obj # e.obj
  BY PositionOf
<1> QED
  BY <1>1, <1>2 DEF Once, OnceKept

-----------------------------------------------------------------------------
(***************************************************************************)
(* The table after a statement and after a tick.                           *)
(***************************************************************************)
LEMMA RowSaved ==
    ASSUME TableTypes(table), NEW o \in Objects,
           NEW age \in 0 .. MaxMonitorTime, SaveToDB(o, age)
    PROVE  TableTypes(table')
<1> DEFINE row == [obj |-> o, age |-> age, loop |-> LoopTime]
<1>1. CASE table' = table
  BY <1>1
<1>2. CASE ~IsExistInDB(o) /\ table' = table \cup {row}
  <2>1. row \in Row
    BY TimesAssumption DEF Row, Ages, LoopTimes
  <2>2. IsFiniteSet(table \cup {row})
    BY FS_AddElement DEF TableTypes
  <2>3. row.obj = o /\ \A r \in table : KeyOf[r.obj] # KeyOf[o]
    BY <1>2 DEF IsExistInDB
  <2> HIDE DEF row
  <2> QED
    BY <1>2, <2>1, <2>2, <2>3 DEF TableTypes
<1> QED
  BY <1>1, <1>2 DEF SaveToDB, Executed

LEMMA TableSubset ==
    ASSUME TableTypes(table), NEW t, t \subseteq table
    PROVE  TableTypes(t)
  BY FS_Subset DEF TableTypes

LEMMA RowsOlder ==
    ASSUME TableTypes(table),
           NEW t, t = {[row EXCEPT !.age = Older(row.age)] : row \in table}
    PROVE  TableTypes(t)
<1> DEFINE f == [row \in table |-> [row EXCEPT !.age = Older(row.age)]]
<1>1. f \in Surjection(table, t)
  BY DEF Surjection
<1>2. IsFiniteSet(t)
  BY <1>1, FS_Surjection DEF TableTypes
<1>3. ASSUME NEW row \in table
      PROVE  /\ [row EXCEPT !.age = Older(row.age)] \in Row
             /\ [row EXCEPT !.age = Older(row.age)].obj = row.obj
  BY TimesAssumption DEF TableTypes, Row, Ages, Older
<1>4. t \subseteq Row
  BY <1>3
<1>5. ASSUME NEW r1 \in t, NEW r2 \in t, KeyOf[r1.obj] = KeyOf[r2.obj]
      PROVE  r1 = r2
  <2>1. PICK s1 \in table : r1 = [s1 EXCEPT !.age = Older(s1.age)]
    OBVIOUS
  <2>2. PICK s2 \in table : r2 = [s2 EXCEPT !.age = Older(s2.age)]
    OBVIOUS
  <2>3. r1.obj = s1.obj /\ r2.obj = s2.obj
    BY <1>3, <2>1, <2>2
  <2>4. s1 = s2
    BY <1>5, <2>3 DEF TableTypes
  <2> QED
    BY <2>1, <2>2, <2>4
<1> QED
  BY <1>2, <1>4, <1>5 DEF TableTypes

(***************************************************************************)
(* What Release does to an object of the list, and what Init loads.        *)
(***************************************************************************)
LEMMA ObjectReleased ==
    ASSUME monitors \in Seq(MonitorObj), NEW o, IsExistInList(o), Release(o)
    PROVE  /\ table' \subseteq table
           /\ RemovedFrom(Position(o), monitors')
<1>1. Position(o) \in 1 .. Len(monitors)
  BY PositionOf
<1>2. RemovedFrom(Position(o), monitors')
  BY <1>1, ObjectRemoved DEF Release, DelMonitorObj
<1> QED
  BY <1>2 DEF Release, RemoveFromDB, Executed

LEMMA RowsLoaded ==
    ASSUME ListTypes, LoadFromDB
    PROVE  /\ monitors' \in Seq(MonitorObj)
           /\ \A j \in DOMAIN monitors' :
                \/ monitors'[j].status = "FREEZED"
                \/ \E k \in DOMAIN monitors : monitors'[j] = monitors[k]
           /\ \A o : (\A k \in DOMAIN monitors : monitors[k].obj # o)
                     => Once(monitors', o)
<1>1. PICK rows \in SetToSeqs(table) :
        monitors' = monitors \o [i \in DOMAIN rows |->
            [obj |-> rows[i].obj, status |-> "FREEZED", age |-> rows[i].age,
             loop |-> rows[i].loop]]
  BY DEF LoadFromDB
<1> DEFINE n == Cardinality(table)
           new == [i \in DOMAIN rows |->
            [obj |-> rows[i].obj, status |-> "FREEZED", age |-> rows[i].age,
             loop |-> rows[i].loop]]
<1>2. n \in Nat
  BY FS_CardinalityType DEF ListTypes, TableTypes
<1>3. /\ rows \in [1 .. n -> table]
      /\ \A i, j \in 1 .. n : i # j => rows[i] # rows[j]
  BY DEF SetToSeqs
<1>4. \A i \in 1 .. n : rows[i] \in Row
  BY <1>3 DEF ListTypes, TableTypes
<1>5. \A i, j \in 1 .. n : rows[i].obj = rows[j].obj => i = j
  BY <1>3 DEF ListTypes, TableTypes
<1> HIDE DEF n
<1>6. /\ DOMAIN new = 1 .. n
      /\ \A i \in 1 .. n : new[i].status = "FREEZED" /\ new[i].obj = rows[i].obj
      /\ \A i \in 1 .. n : new[i] \in MonitorObj
  BY <1>3, <1>4 DEF MonitorObj, Row
<1> HIDE DEF new
<1>7. new \in Seq(MonitorObj) /\ Len(new) = n
  <2>1. new = [i \in 1 .. n |-> new[i]]
    BY <1>6 DEF new
  <2>2. [i \in 1 .. n |-> new[i]] \in Seq(MonitorObj)
    BY <1>2, <1>6
  <2> QED
    BY <1>2, <1>6, <2>1, <2>2, LenProperties
<1>8. /\ monitors \o new \in Seq(MonitorObj)
      /\ Len(monitors \o new) = Len(monitors) + n
      /\ \A j \in 1 .. Len(monitors) + n :
           (monitors \o new)[j] = IF j <= Len(monitors) THEN monitors[j]
                                  ELSE new[j - Len(monitors)]
  BY <1>7, ConcatProperties DEF ListTypes
<1>9. monitors' = monitors \o new
  BY <1>1 DEF new
<1>10. DOMAIN monitors' = 1 .. Len(monitors) + n /\ Len(monitors) \in Nat
       /\ DOMAIN monitors = 1 .. Len(monitors)
  BY <1>8, <1>9, LenProperties DEF ListTypes
<1>11. ASSUME NEW j \in DOMAIN monitors'
       PROVE  \/ monitors'[j].status = "FREEZED"
              \/ \E k \in DOMAIN monitors : monitors'[j] = monitors[k]
  <2>1. CASE j <= Len(monitors)
    <3>1. monitors'[j] = monitors[j] /\ j \in DOMAIN monitors
      BY <1>8, <1>9, <1>10, <2>1
    <3> QED
      BY <3>1
  <2>2. CASE ~(j <= Len(monitors))
    <3>1. j - Len(monitors) \in 1 .. n /\ monitors'[j] = new[j - Len(monitors)]
      BY <1>2, <1>8, <1>9, <1>10, <2>2
    <3> QED
      BY <1>6, <3>1
  <2> QED
    BY <2>1, <2>2
<1>12. ASSUME NEW o, \A k \in DOMAIN monitors : monitors[k].obj # o
       PROVE  Once(monitors', o)
  <2> SUFFICES ASSUME NEW i \in DOMAIN monitors', NEW j \in DOMAIN monitors',
                      monitors'[i].obj = o, monitors'[j].obj = o
               PROVE  i = j
    BY DEF Once
  <2>1. ASSUME NEW k \in DOMAIN monitors', monitors'[k].obj = o
        PROVE  /\ k - Len(monitors) \in 1 .. n
               /\ rows[k - Len(monitors)].obj = o
    <3>1. ~(k <= Len(monitors))
      BY <1>8, <1>9, <1>10, <1>12, <2>1
    <3>2. k - Len(monitors) \in 1 .. n /\ monitors'[k] = new[k - Len(monitors)]
      BY <1>2, <1>8, <1>9, <1>10, <3>1
    <3> QED
      BY <1>6, <2>1, <3>2
  <2>2. i - Len(monitors) = j - Len(monitors)
    BY <1>5, <2>1
  <2> QED
    BY <1>2, <1>10, <2>2
<1> QED
  BY <1>8, <1>9, <1>11, <1>12

(***************************************************************************)
(* Every step keeps the types of the list and the table.                   *)
(***************************************************************************)
LEMMA EntryType ==
    ASSUME monitors \in Seq(MonitorObj), NEW o, IsExistInList(o)
    PROVE  /\ Position(o) \in 1 .. Len(monitors)
           /\ GetMonitorObj(o) \in MonitorObj
           /\ GetMonitorObj(o).obj = o
           /\ o \in Objects
<1>1. Position(o) \in 1 .. Len(monitors) /\ monitors[Position(o)].obj = o
  BY PositionOf
<1>2. monitors[Position(o)] \in MonitorObj
  BY <1>1, ElementOfSeq
<1>3. monitors[Position(o)].obj \in Objects
  BY <1>2 DEF MonitorObj
<1> QED
  BY <1>1, <1>2, <1>3 DEF GetMonitorObj

\* An entry of the list is given another age, loop time or status.
LEMMA ObjectUpdated ==
    ASSUME monitors \in Seq(MonitorObj), NEW o, IsExistInList(o),
           NEW e \in MonitorObj, SetMonitorObj(o, e)
    PROVE  SetAt(Position(o), e, monitors')
  BY EntryType, ObjectSet DEF SetMonitorObj

LEMMA EntryWithStatus ==
    ASSUME NEW m \in MonitorObj,
           NEW s \in {"FREEZED", "UNFREEZING", "GETSTATUSING"}
    PROVE  /\ [m EXCEPT !.status = s] \in MonitorObj
           /\ [m EXCEPT !.status = s].obj = m.obj
           /\ [m EXCEPT !.status = s].status = s
  BY DEF MonitorObj

LEMMA EntryBackedOff ==
    ASSUME NEW m \in MonitorObj,
           NEW e, e = [m EXCEPT !.status = "FREEZED",
                !.loop = IF MaxMonitorTime >= m.loop THEN 2 * m.loop
                                                     ELSE m.loop]
    PROVE  e \in MonitorObj /\ e.obj = m.obj /\ e.status = "FREEZED"
<1> DEFINE l == IF MaxMonitorTime >= m.loop THEN 2 * m.loop ELSE m.loop
<1>1. l \in LoopTimes
  BY TimesAssumption DEF MonitorObj, LoopTimes
<1>2. /\ m = [obj |-> m.obj, status |-> m.status, age |-> m.age, loop |-> m.loop]
      /\ m.obj \in Objects /\ m.age \in Ages
  BY DEF MonitorObj
<1>3. e = [obj |-> m.obj, status |-> "FREEZED", age |-> m.age, loop |-> l]
  BY <1>2
<1> HIDE DEF l
<1> QED
  BY <1>1, <1>2, <1>3 DEF MonitorObj

LEMMA EntryRenewed ==
    ASSUME NEW m \in MonitorObj, NEW e, e = [m EXCEPT !.age = 0]
    PROVE  e \in MonitorObj /\ e.obj = m.obj /\ e.status = m.status
  BY TimesAssumption DEF MonitorObj, Ages

LEMMA EntryOlder ==
    ASSUME NEW m \in MonitorObj, NEW e, e = [m EXCEPT !.age = Older(m.age)]
    PROVE  e \in MonitorObj /\ e.obj = m.obj /\ e.status = m.status
  BY TimesAssumption DEF MonitorObj, Ages, Older

LEMMA EntryCreated ==
    ASSUME NEW o \in Objects, NEW age \in 0 .. MaxMonitorTime
    PROVE  [obj |-> o, status |-> "FREEZED",
            age |-> age - DelayUnfreezeTime, loop |-> LoopTime] \in MonitorObj
<1>1. age - DelayUnfreezeTime \in Ages
  BY TimesAssumption DEF Ages
<1>2. LoopTime \in LoopTimes
  BY TimesAssumption DEF LoopTimes
<1> QED
  BY <1>1, <1>2 DEF MonitorObj

\* AddMonitorObj: the object is in the list once, as it was created.
LEMMA ObjectMonitored ==
    ASSUME monitors \in Seq(MonitorObj), NEW o \in Objects,
           NEW age \in 0 .. MaxMonitorTime, AddMonitorObj(o, age)
    PROVE  /\ monitors' \in Seq(MonitorObj)
           /\ OnceKept(monitors')
           /\ \A j \in DOMAIN monitors' :
                \/ monitors'[j].status = "FREEZED" /\ monitors'[j].obj = o
                \/ \E k \in DOMAIN monitors : monitors'[j] = monitors[k]
<1> DEFINE new == [obj |-> o, status |-> "FREEZED",
                   age |-> age - DelayUnfreezeTime, loop |-> LoopTime]
<1>1. new \in MonitorObj
  BY EntryCreated
<1>2. new.obj = o /\ new.status = "FREEZED"
  OBVIOUS
<1>3. IF IsExistInList(o) THEN SetMonitorObj(o, new)
                          ELSE monitors' = Append(monitors, new)
  BY DEF AddMonitorObj
<1> HIDE DEF new
<1>4. CASE IsExistInList(o)
  <2>1. SetAt(Position(o), new, monitors')
    BY <1>1, <1>3, <1>4, ObjectUpdated
  <2>2. monitors[Position(o)].obj = o
    BY <1>4, EntryType DEF GetMonitorObj
  <2> QED
    BY <1>2, <2>1, <2>2 DEF SetAt
<1>5. CASE ~IsExistInList(o)
  BY <1>1, <1>2, <1>3, <1>5, ObjectAdded
<1> QED
  BY <1>4, <1>5

(***************************************************************************)
(* The handlers of the monitor's own responses: what an object waited for  *)
(* is over, unless the next request has just been made.                    *)
(***************************************************************************)
ListStep ==
    /\ monitors' \in Seq(MonitorObj)
    /\ TableTypes(table')
    /\ OnceKept(monitors')
    /\ \A j \in DOMAIN monitors' :
         \/ \E k \in DOMAIN monitors : monitors'[j].obj = monitors[k].obj
         \/ monitors'[j].obj \in ToSet(receiver.todo)

\* Entries of other objects stay as they are.
OthersKept(o) ==
    \A j \in DOMAIN monitors' :
        \/ monitors'[j].obj = o
        \/ \E k \in DOMAIN monitors :
             monitors[k].obj # o /\ monitors'[j] = monitors[k]

Answers(o) ==
    \A j \in DOMAIN monitors' :
        \/ monitors'[j].status = "FREEZED"
        \/ \E k \in DOMAIN monitors :
             monitors[k].obj # o /\ monitors'[j] = monitors[k]
        \/ /\ monitors'[j].obj = o
           /\ monitors'[j].status = "UNFREEZING"
           /\ reqQueue' = Append(reqQueue, Request(<<o>>, "unfreeze", TRUE))

LEMMA OnlyEntry ==
    ASSUME monitors \in Seq(MonitorObj), NEW o, IsExistInList(o),
           Once(monitors, o), NEW k \in DOMAIN monitors, k # Position(o)
    PROVE  monitors[k].obj # o
  BY EntryType DEF Once, GetMonitorObj

LEMMA ReleaseAnswers ==
    ASSUME ListTypes, NEW o, IsExistInList(o), Release(o)
    PROVE  ListStep /\ OthersKept(o) /\ (Once(monitors, o) => Answers(o))
<1>1. table' \subseteq table /\ RemovedFrom(Position(o), monitors')
  BY ObjectReleased DEF ListTypes
<1>2. TableTypes(table')
  BY <1>1, TableSubset DEF ListTypes
<1>3. ListStep /\ OthersKept(o)
  BY <1>1, <1>2 DEF RemovedFrom, ListStep, OthersKept
<1>4. ASSUME Once(monitors, o)
      PROVE  Answers(o)
  <2>1. \A k \in DOMAIN monitors : k # Position(o) => monitors[k].obj # o
    BY <1>4, OnlyEntry DEF ListTypes
  <2> QED
    BY <1>1, <2>1 DEF RemovedFrom, Answers
<1> QED
  BY <1>3, <1>4

LEMMA StatusAnswers ==
    ASSUME ListTypes, NEW o, IsExistInList(o), NEW e \in MonitorObj, e.obj = o,
           SetMonitorObj(o, e), UNCHANGED table,
           \/ e.status = "FREEZED"
           \/ /\ e.status = "UNFREEZING"
              /\ reqQueue' = Append(reqQueue, Request(<<o>>, "unfreeze", TRUE))
    PROVE  ListStep /\ OthersKept(o) /\ (Once(monitors, o) => Answers(o))
<1>1. SetAt(Position(o), e, monitors')
  BY ObjectUpdated DEF ListTypes
<1>2. monitors[Position(o)].obj = o
  BY EntryType DEF ListTypes, GetMonitorObj
<1>3. ListStep /\ OthersKept(o)
  BY <1>1, <1>2 DEF SetAt, ListStep, ListTypes, OthersKept
<1>4. ASSUME Once(monitors, o)
      PROVE  Answers(o)
  <2>1. \A k \in DOMAIN monitors : k # Position(o) => monitors[k].obj # o
    BY <1>4, OnlyEntry DEF ListTypes
  <2> QED
    BY <1>1, <2>1 DEF SetAt, Answers
<1> QED
  BY <1>3, <1>4

LEMMA FreezedAnswers ==
    ASSUME ListTypes, NEW o, IsExistInList(o),
           GetMonitorObj(o).status = "FREEZED", UNCHANGED <<monitors, table>>
    PROVE  ListStep /\ OthersKept(o) /\ (Once(monitors, o) => Answers(o))
<1>1. ListStep /\ OthersKept(o)
  BY DEF ListStep, ListTypes, OnceKept, OthersKept
<1>2. ASSUME Once(monitors, o)
      PROVE  Answers(o)
  <2>1. \A k \in DOMAIN monitors : k # Position(o) => monitors[k].obj # o
    BY <1>2, OnlyEntry DEF ListTypes
  <2> QED
    BY <2>1 DEF Answers, GetMonitorObj
<1> QED
  BY <1>1, <1>2

LEMMA UnfreezeAnswers ==
    ASSUME ListTypes, NEW o, IsExistInList(o), NEW ret,
           HandleUnFreezingMonitorObj(o, ret)
    PROVE  ListStep /\ OthersKept(o) /\ (Once(monitors, o) => Answers(o))
<1> DEFINE m == GetMonitorObj(o)
           e == [m EXCEPT !.status = "FREEZED",
                !.loop = IF MaxMonitorTime >= m.loop THEN 2 * m.loop
                                                     ELSE m.loop]
<1>1. m \in MonitorObj /\ m.obj = o
  BY EntryType DEF ListTypes
<1>2. e \in MonitorObj /\ e.obj = o /\ e.status = "FREEZED"
  BY <1>1, EntryBackedOff
<1>3. \/ m.status = "FREEZED" /\ UNCHANGED <<monitors, table>>
      \/ Release(o)
      \/ SetMonitorObj(o, e) /\ UNCHANGED table
  BY DEF HandleUnFreezingMonitorObj
<1> HIDE DEF m, e
<1>4. CASE m.status = "FREEZED" /\ UNCHANGED <<monitors, table>>
  BY <1>4, FreezedAnswers DEF m
<1>5. CASE Release(o)
  BY <1>5, ReleaseAnswers
<1>6. CASE SetMonitorObj(o, e) /\ UNCHANGED table
  BY <1>2, <1>6, StatusAnswers
<1> QED
  BY <1>3, <1>4, <1>5, <1>6

LEMMA QueryAnswers ==
    ASSUME ListTypes, NEW o, IsExistInList(o), NEW ret,
           HandleQueryStatusMonitorObj(o, ret)
    PROVE  ListStep /\ OthersKept(o) /\ (Once(monitors, o) => Answers(o))
<1> DEFINE m == GetMonitorObj(o)
           u == [m EXCEPT !.status = "UNFREEZING"]
           f == [m EXCEPT !.status = "FREEZED"]
<1>1. m \in MonitorObj /\ m.obj = o
  BY EntryType DEF ListTypes
<1>2. /\ u \in MonitorObj /\ u.obj = o /\ u.status = "UNFREEZING"
      /\ f \in MonitorObj /\ f.obj = o /\ f.status = "FREEZED"
  BY <1>1, EntryWithStatus
<1>3. \/ m.status = "FREEZED" /\ UNCHANGED <<monitors, table>>
      \/ Release(o)
      \/ /\ SetMonitorObj(o, u) /\ UNCHANGED table
         /\ reqQueue' = Append(reqQueue, Request(<<o>>, "unfreeze", TRUE))
      \/ SetMonitorObj(o, f) /\ UNCHANGED table
  BY DEF HandleQueryStatusMonitorObj, SetStatus, PushInternalReq,
         PushReqMsgQueue
<1> HIDE DEF m, u, f
<1>4. CASE m.status = "FREEZED" /\ UNCHANGED <<monitors, table>>
  BY <1>4, FreezedAnswers DEF m
<1>5. CASE Release(o)
  BY <1>5, ReleaseAnswers
<1>6. CASE /\ SetMonitorObj(o, u) /\ UNCHANGED table
           /\ reqQueue' = Append(reqQueue, Request(<<o>>, "unfreeze", TRUE))
  BY <1>2, <1>6, StatusAnswers
<1>7. CASE SetMonitorObj(o, f) /\ UNCHANGED table
  BY <1>2, <1>7, StatusAnswers
<1> QED
  BY <1>3, <1>4, <1>5, <1>6, <1>7

(***************************************************************************)
(* The other steps: an object starts to wait only when its status is asked *)
(* for, and the query is queued in the same step.                          *)
(***************************************************************************)
KeepsWaits ==
    \A j \in DOMAIN monitors' :
        \/ monitors'[j].status = "FREEZED"
        \/ \E k \in DOMAIN monitors :
             /\ monitors'[j].obj = monitors[k].obj
             /\ monitors'[j].status = monitors[k].status
        \/ /\ monitors'[j].status = "GETSTATUSING"
           /\ reqQueue' = Append(reqQueue,
                            Request(<<monitors'[j].obj>>, "query", TRUE))

LEMMA ListUnchanged ==
    ASSUME ListTypes, UNCHANGED <<monitors, table>>
    PROVE  ListStep /\ KeepsWaits
  BY DEF ListTypes, ListStep, KeepsWaits, OnceKept

LEMMA ReleaseKeeps ==
    ASSUME ListTypes, NEW o, IsExistInList(o), Release(o)
    PROVE  ListStep /\ KeepsWaits
<1>1. table' \subseteq table /\ RemovedFrom(Position(o), monitors')
  BY ObjectReleased DEF ListTypes
<1>2. TableTypes(table')
  BY <1>1, TableSubset DEF ListTypes
<1> QED
  BY <1>1, <1>2 DEF RemovedFrom, ListStep, KeepsWaits

LEMMA ListSave ==
    ASSUME ListTypes, ThreadTypes, SaveObject
    PROVE  ListStep /\ KeepsWaits
<1>1. Head(receiver.todo) \in Objects
  BY HeadTailProperties DEF SaveObject, ThreadTypes, Thread
<1>2. TableTypes(table')
  BY <1>1, RowSaved DEF SaveObject, ListTypes, ThreadTypes
<1> QED
  BY <1>2 DEF SaveObject, ListTypes, ListStep, KeepsWaits, OnceKept

LEMMA ListAdd ==
    ASSUME ListTypes, ThreadTypes, AddObject
    PROVE  ListStep /\ KeepsWaits
<1>1. Head(receiver.todo) \in Objects
  BY HeadTailProperties DEF AddObject, ThreadTypes, Thread
<1>2. /\ monitors' \in Seq(MonitorObj)
      /\ OnceKept(monitors')
      /\ \A j \in DOMAIN monitors' :
           \/ /\ monitors'[j].status = "FREEZED"
              /\ monitors'[j].obj = Head(receiver.todo)
           \/ \E k \in DOMAIN monitors : monitors'[j] = monitors[k]
  BY <1>1, ObjectMonitored DEF AddObject, ListTypes, ThreadTypes
<1>3. UNCHANGED table
  BY DEF AddObject
<1>4. Head(receiver.todo) \in ToSet(receiver.todo)
  <2>1. /\ receiver.todo \in Seq(Objects) /\ receiver.todo # <<>>
        /\ 1 \in DOMAIN receiver.todo
    BY DEF AddObject, ThreadTypes, Thread
  <2> QED
    BY <2>1 DEF ToSet
<1> QED
  BY <1>2, <1>3, <1>4 DEF ListTypes, ListStep, KeepsWaits

LEMMA ListUpdate ==
    ASSUME ListTypes, UpdateSingleFreezeOper
    PROVE  ListStep /\ KeepsWaits
<1> DEFINE o == Head(sender.todo)
           e == [GetMonitorObj(o) EXCEPT !.age = 0]
<1>1. \/ IsExistInList(o) /\ Release(o)
      \/ IsExistInList(o) /\ SetMonitorObj(o, e) /\ UNCHANGED table
      \/ UNCHANGED <<monitors, table>>
  BY DEF UpdateSingleFreezeOper
<1>2. CASE IsExistInList(o) /\ Release(o)
  BY <1>2, ReleaseKeeps
<1>3. CASE IsExistInList(o) /\ SetMonitorObj(o, e) /\ UNCHANGED table
  <2>1. /\ Position(o) \in 1 .. Len(monitors)
        /\ GetMonitorObj(o) \in MonitorObj
    BY <1>3, EntryType DEF ListTypes
  <2>2. /\ e \in MonitorObj /\ e.obj = GetMonitorObj(o).obj
        /\ e.status = GetMonitorObj(o).status
    BY <2>1, EntryRenewed
  <2> HIDE DEF o, e
  <2>3. SetAt(Position(o), e, monitors')
    BY <1>3, <2>2, ObjectUpdated DEF ListTypes
  <2>4. Position(o) \in DOMAIN monitors /\ GetMonitorObj(o) = monitors[Position(o)]
    BY <2>1 DEF GetMonitorObj, ListTypes
  <2> QED
    BY <1>3, <2>2, <2>3, <2>4 DEF SetAt, ListTypes, ListStep, KeepsWaits
<1>4. CASE UNCHANGED <<monitors, table>>
  BY <1>4, ListUnchanged
<1> QED
  BY <1>1, <1>2, <1>3, <1>4

LEMMA ListNextObject ==
    ASSUME ListTypes, HandleNextObject
    PROVE  ListStep /\ KeepsWaits
<1> DEFINE p == currIndex + 1
           m == monitors[p]
           e == [m EXCEPT !.status = "GETSTATUSING"]
<1>1. p \in 1 .. Len(monitors) /\ p \in DOMAIN monitors
  BY DEF ListTypes, HandleNextObject
<1>2. m \in MonitorObj
  BY <1>1, ElementOfSeq DEF ListTypes
<1>3. \/ UNCHANGED <<monitors, table>>
      \/ Release(m.obj)
      \/ /\ monitors' = [monitors EXCEPT ![p].status = "GETSTATUSING"]
         /\ reqQueue' = Append(reqQueue, Request(<<m.obj>>, "query", TRUE))
         /\ UNCHANGED table
  BY DEF HandleNextObject, HandleFreezedMonitorObj, PushInternalReq,
         PushReqMsgQueue
<1>4. CASE UNCHANGED <<monitors, table>>
  BY <1>4, ListUnchanged
<1>5. CASE Release(m.obj)
  <2>1. IsExistInList(m.obj)
    BY <1>1, PositionOf DEF ListTypes
  <2> QED
    BY <1>5, <2>1, ReleaseKeeps
<1>6. CASE /\ monitors' = [monitors EXCEPT ![p].status = "GETSTATUSING"]
           /\ reqQueue' = Append(reqQueue, Request(<<m.obj>>, "query", TRUE))
           /\ UNCHANGED table
  <2>1. e \in MonitorObj /\ e.obj = m.obj /\ e.status = "GETSTATUSING"
    BY <1>2, EntryWithStatus
  <2>2. monitors' = [monitors EXCEPT ![p] = e]
    BY <1>6
  <2> HIDE DEF e, p
  <2>3. SetAt(p, e, monitors')
    BY <1>1, <2>1, <2>2, ObjectSet DEF ListTypes
  <2> QED
    BY <1>6, <2>1, <2>3 DEF SetAt, ListTypes, ListStep, KeepsWaits
<1> QED
  BY <1>3, <1>4, <1>5, <1>6

LEMMA ListTick ==
    ASSUME ListTypes, Tick
    PROVE  ListStep /\ KeepsWaits
<1>1. monitors' = [i \in DOMAIN monitors |->
             [monitors[i] EXCEPT !.age = Older(monitors[i].age)]]
  BY DEF Tick
<1>2. TableTypes(table')
  BY RowsOlder DEF Tick, ListTypes
<1>3. DOMAIN monitors = 1 .. Len(monitors) /\ Len(monitors) \in Nat
      /\ DOMAIN monitors' = DOMAIN monitors
  BY <1>1 DEF ListTypes
<1>4. ASSUME NEW i \in DOMAIN monitors
      PROVE  /\ monitors'[i] \in MonitorObj
             /\ monitors'[i].obj = monitors[i].obj
             /\ monitors'[i].status = monitors[i].status
  <2>1. monitors[i] \in MonitorObj
    BY <1>3, ElementOfSeq DEF ListTypes
  <2>2. monitors'[i] = [monitors[i] EXCEPT !.age = Older(monitors[i].age)]
    BY <1>1
  <2> QED
    BY <2>1, <2>2, EntryOlder
<1>5. monitors' \in Seq(MonitorObj)
  <2>1. monitors' = [i \in 1 .. Len(monitors) |-> monitors'[i]]
    BY <1>1, <1>3
  <2>2. [i \in 1 .. Len(monitors) |-> monitors'[i]] \in Seq(MonitorObj)
    BY <1>3, <1>4
  <2> QED
    BY <2>1, <2>2
<1> QED
  BY <1>2, <1>3, <1>4, <1>5 DEF ListStep, KeepsWaits, Once, OnceKept

\* ProcessInternalRsp, with the object of the response it takes.
LEMMA ListInternalRsp ==
    ASSUME ListTypes, ProcessInternalRsp,
           NEW o, o = Head(rspQueue[FirstResponse(TRUE)].target)
    PROVE  ListStep /\ OthersKept(o) /\ (Once(monitors, o) => Answers(o))
<1>1. \/ ~IsExistInList(o) /\ UNCHANGED <<monitors, table>>
      \/ IsExistInList(o) /\
           HandleUnFreezingMonitorObj(o, rspQueue[FirstResponse(TRUE)].ret)
      \/ IsExistInList(o) /\
           HandleQueryStatusMonitorObj(o, rspQueue[FirstResponse(TRUE)].ret)
  BY DEF ProcessInternalRsp
<1>2. CASE ~IsExistInList(o) /\ UNCHANGED <<monitors, table>>
  <2>1. \A k \in DOMAIN monitors : monitors[k].obj # o
    <3>1. \A k \in 1 .. Len(monitors) : monitors[k].obj # o
      BY <1>2, PositionOf DEF ListTypes
    <3> QED
      BY <3>1, LenProperties DEF ListTypes
  <2>2. Answers(o) /\ OthersKept(o)
    BY <1>2, <2>1 DEF Answers, OthersKept
  <2> QED
    BY <1>2, <2>2, ListUnchanged
<1> QED
  BY <1>1, <1>2, UnfreezeAnswers, QueryAnswers

-----------------------------------------------------------------------------
(***************************************************************************)
(* The queues and the threads keep their types, and no request of the      *)
(* monitor's own is lost on the way.                                       *)
(***************************************************************************)
Same(m, n) ==
    n.internal = m.internal /\ n.target = m.target /\ n.kind = m.kind

RequestsKept ==
    \A m \in UnderWay : m.internal => \E n \in UnderWay' : Same(m, n)

QueueTypes == DispatchTypeOK /\ ThreadTypes

LEMMA RequestType ==
    ASSUME NEW t \in Targets, NEW k \in {"freeze", "unfreeze", "query"},
           NEW b \in BOOLEAN
    PROVE  /\ Request(t, k, b) \in Message
           /\ Request(t, k, b).target = t
           /\ Request(t, k, b).kind = k
           /\ Request(t, k, b).internal = b
           /\ Request(t, k, b).ret = "none"
  BY DEF Request, Message

LEMMA AnsweredType ==
    ASSUME NEW m \in Message,
           NEW ret \in {"none", "ok", "failed", "wrongPassword", "frozen",
                        "thawed"}
    PROVE  Answered(m, ret) \in Message /\ Same(m, Answered(m, ret))
  BY DEF Answered, Message, Same

LEMMA IdleType ==
    /\ Idle \in Thread /\ Idle.age = 0 /\ Idle.msgs = <<>> /\ Idle.todo = <<>>
    /\ ToSet(Idle.msgs) = {} /\ Len(Idle.msgs) = 0
  BY TimesAssumption DEF Idle, Thread, Ages, ToSet

LEMMA BusyType ==
    ASSUME NEW m \in Message
    PROVE  /\ Busy(m) \in Thread /\ Busy(m).age = 0 /\ Busy(m).msgs = <<m>>
           /\ Busy(m).todo = m.target
           /\ ToSet(Busy(m).msgs) = {m} /\ Len(Busy(m).msgs) = 1
<1>1. m.target \in Seq(Objects)
  BY TargetsAssumption DEF Message
<1>2. <<m>> \in Seq(Message) /\ Len(<<m>>) = 1 /\ ToSet(<<m>>) = {m}
  BY SingletonHolds
<1>3. 0 \in Ages
  BY TimesAssumption DEF Ages
<1> QED
  BY <1>1, <1>2, <1>3 DEF Busy, Thread

LEMMA QueueReceiveFreeze ==
    ASSUME QueueTypes, NEW t \in ClientTargets, ReceiveFreeze(t)
    PROVE  QueueTypes' /\ RequestsKept
<1> DEFINE m == Request(t, "freeze", FALSE)
<1>1. m \in Message
  BY RequestType, TargetsAssumption
<1>2. receiver = Idle /\ receiver' = Busy(m) /\ UNCHANGED <<dispatchVars, sender, pass>>
  BY DEF ReceiveFreeze
<1> HIDE DEF m
<1>3. DispatchTypeOK'
  BY <1>2 DEF QueueTypes, DispatchTypeOK, dispatchVars
<1>4. ThreadTypes'
  <2>1. Busy(m) \in Thread /\ Busy(m).age = 0 /\ Len(Busy(m).msgs) = 1
    BY <1>1, BusyType, Zenon
  <2> QED
    BY <1>2, <2>1, TimesAssumption DEF QueueTypes, ThreadTypes
<1>5. UnderWay \subseteq UnderWay'
  BY <1>2, IdleType DEF UnderWay, Held, dispatchVars
<1> QED
  BY <1>3, <1>4, <1>5 DEF QueueTypes, RequestsKept, Same

LEMMA QueueReceiveUnfreeze ==
    ASSUME QueueTypes, NEW t \in ClientTargets, ReceiveUnfreeze(t)
    PROVE  QueueTypes' /\ RequestsKept
<1> DEFINE m == Request(t, "unfreeze", FALSE)
<1>1. m \in Message
  BY RequestType, TargetsAssumption
<1>2. /\ reqQueue' = Append(reqQueue, m)
      /\ UNCHANGED <<dispatching, firstPushed, lastPushed, workers, rspQueue,
                     threadVars>>
  BY DEF ReceiveUnfreeze, PushReqMsgQueue
<1> HIDE DEF m
<1>3. reqQueue' \in Seq(Message) /\ ToSet(reqQueue') = ToSet(reqQueue) \cup {m}
  BY <1>1, <1>2, AppendHolds DEF QueueTypes, DispatchTypeOK
<1>4. DispatchTypeOK' /\ ThreadTypes'
  BY <1>2, <1>3 DEF QueueTypes, DispatchTypeOK, ThreadTypes, threadVars
<1>5. UnderWay \subseteq UnderWay'
  BY <1>2, <1>3 DEF UnderWay, Held, threadVars
<1> QED
  BY <1>4, <1>5 DEF QueueTypes, RequestsKept, Same

LEMMA QueueReceiver ==
    ASSUME QueueTypes, SaveObject \/ AddObject
    PROVE  QueueTypes' /\ RequestsKept
<1>1. UNCHANGED <<dispatchVars, sender, pass>> /\ receiver.todo # <<>>
  BY DEF SaveObject, AddObject
<1>2. Tail(receiver.todo) \in Seq(Objects)
  BY <1>1, HeadTailHolds DEF QueueTypes, ThreadTypes, Thread
<1>3. /\ receiver'.msgs = receiver.msgs /\ receiver' \in Thread
      /\ receiver'.age \in 0 .. MaxMonitorTime
  <2>1. CASE SaveObject
    BY <2>1 DEF SaveObject, QueueTypes, ThreadTypes, Thread
  <2>2. CASE AddObject
    <3>1. receiver' = [msgs |-> receiver.msgs, todo |-> Tail(receiver.todo),
                       saved |-> FALSE, age |-> 0]
      BY <2>2 DEF AddObject, QueueTypes, ThreadTypes, Thread
    <3> QED
      BY <1>2, <3>1, TimesAssumption DEF QueueTypes, ThreadTypes, Thread, Ages
  <2> QED
    BY <2>1, <2>2
<1>4. DispatchTypeOK' /\ ThreadTypes'
  BY <1>1, <1>3 DEF QueueTypes, DispatchTypeOK, ThreadTypes, dispatchVars
<1>5. UnderWay' = UnderWay
  BY <1>1, <1>3 DEF UnderWay, Held, dispatchVars
<1> QED
  BY <1>4, <1>5 DEF QueueTypes, RequestsKept, Same

LEMMA QueuePushFreeze ==
    ASSUME QueueTypes, PushFreeze
    PROVE  QueueTypes' /\ RequestsKept
<1> DEFINE m == Head(receiver.msgs)
<1>1. m \in Message /\ ToSet(receiver.msgs) = {m}
  BY AtMostOneHolds DEF PushFreeze, QueueTypes, ThreadTypes, Thread
<1>2. /\ reqQueue' = Append(reqQueue, m) /\ receiver' = Idle
      /\ UNCHANGED <<dispatching, firstPushed, lastPushed, workers, rspQueue,
                     sender, pass>>
  BY DEF PushFreeze, PushReqMsgQueue
<1> HIDE DEF m
<1>3. reqQueue' \in Seq(Message) /\ ToSet(reqQueue') = ToSet(reqQueue) \cup {m}
  BY <1>1, <1>2, AppendHolds DEF QueueTypes, DispatchTypeOK
<1>4. DispatchTypeOK'
  BY <1>2, <1>3 DEF QueueTypes, DispatchTypeOK
<1>5. ThreadTypes'
  BY <1>2, IdleType, TimesAssumption DEF QueueTypes, ThreadTypes
<1>6. UnderWay \subseteq UnderWay'
  BY <1>1, <1>2, <1>3, IdleType DEF UnderWay, Held
<1> QED
  BY <1>4, <1>5, <1>6 DEF QueueTypes, RequestsKept, Same

LEMMA QueuePopReq ==
    ASSUME QueueTypes, PopReqMsgQueue, UNCHANGED threadVars
    PROVE  QueueTypes' /\ RequestsKept
<1> DEFINE m == Head(reqQueue)
<1>1. /\ m \in Message /\ Tail(reqQueue) \in Seq(Message)
      /\ ToSet(reqQueue) = {m} \cup ToSet(Tail(reqQueue))
  BY HeadTailHolds DEF PopReqMsgQueue, QueueTypes, DispatchTypeOK
<1>2. /\ reqQueue' = Tail(reqQueue) /\ dispatching' = <<m>>
      /\ firstPushed' = lastPushed /\ dispatching = <<>>
      /\ UNCHANGED <<lastPushed, workers, rspQueue, threadVars>>
  BY DEF PopReqMsgQueue
<1> HIDE DEF m
<1>3. /\ <<m>> \in Seq(Message) /\ Len(<<m>>) = 1
      /\ ToSet(<<m>>) = {m} /\ ToSet(dispatching) = {}
  BY <1>1, <1>2, SingletonHolds, EmptyHolds
<1>4. DispatchTypeOK' /\ ThreadTypes'
  BY <1>1, <1>2, <1>3 DEF QueueTypes, DispatchTypeOK, ThreadTypes, threadVars
<1>5. UnderWay \subseteq UnderWay'
  BY <1>1, <1>2, <1>3 DEF UnderWay, Held, threadVars
<1> QED
  BY <1>4, <1>5 DEF QueueTypes, RequestsKept, Same

\* A worker is given other queues.
WorkerIs(w, x, ws) ==
    /\ ws \in [Workers -> Worker]
    /\ \A v \in Workers : Len(ws[v].current) <= 1
    /\ ws[w] = x
    /\ \A v \in Workers \ {w} : ws[v] = workers[v]

LEMMA WorkerSet ==
    ASSUME QueueTypes, NEW w \in Workers, NEW x \in Worker,
           Len(x.current) <= 1, NEW ws, ws = [workers EXCEPT ![w] = x]
    PROVE  WorkerIs(w, x, ws)
  BY DEF QueueTypes, DispatchTypeOK, WorkerIs

LEMMA QueuePushMsgToWorker ==
    ASSUME QueueTypes, PushMsgToWorker, UNCHANGED threadVars
    PROVE  QueueTypes' /\ RequestsKept
<1> DEFINE m == Head(dispatching)
           w == lastPushed % WorkerCount
           n == IF lastPushed + 1 > MaxPushedWorkers THEN 0 ELSE lastPushed + 1
           a == Answered(m, "failed")
           x == [workers[w] EXCEPT !.queue = Append(workers[w].queue, m)]
<1>1. m \in Message /\ ToSet(dispatching) = {m}
  BY AtMostOneHolds DEF PushMsgToWorker, QueueTypes, DispatchTypeOK
<1>2. w \in Workers
  BY WorkersAssumption DEF QueueTypes, DispatchTypeOK, Workers
<1>3. n \in 0 .. MaxPushedWorkers
  BY WorkersAssumption DEF QueueTypes, DispatchTypeOK
<1>4. a \in Message /\ Same(m, a)
  BY <1>1, AnsweredType
<1>5. /\ lastPushed' = n /\ UNCHANGED <<reqQueue, threadVars>>
      /\ \/ /\ rspQueue' = Append(rspQueue, a)
            /\ dispatching' = <<>> /\ firstPushed' = 0 /\ UNCHANGED workers
         \/ UNCHANGED <<dispatching, firstPushed, workers, rspQueue>>
         \/ /\ workers' = [workers EXCEPT ![w] = x]
            /\ dispatching' = <<>> /\ firstPushed' = 0 /\ UNCHANGED rspQueue
  BY DEF PushMsgToWorker, PushRspMsgQueue
<1>6. /\ workers[w] \in Worker /\ Len(workers[w].current) <= 1
      /\ workers[w].queue \in Seq(Message)
  BY <1>2 DEF QueueTypes, DispatchTypeOK, Worker
<1>7. /\ Append(workers[w].queue, m) \in Seq(Message)
      /\ ToSet(Append(workers[w].queue, m)) = ToSet(workers[w].queue) \cup {m}
      /\ rspQueue \in Seq(Message)
      /\ Append(rspQueue, a) \in Seq(Message)
      /\ ToSet(Append(rspQueue, a)) = ToSet(rspQueue) \cup {a}
  BY <1>1, <1>4, <1>6, AppendHolds DEF QueueTypes, DispatchTypeOK
<1>8. /\ x \in Worker /\ x.current = workers[w].current
      /\ x.queue = Append(workers[w].queue, m)
  BY <1>6, <1>7 DEF Worker
<1> HIDE DEF m, w, n, a, x
<1>9. <<>> \in Seq(Message) /\ Len(<<>>) = 0 /\ ToSet(<<>>) = {}
  BY EmptyHolds
<1>10. ThreadTypes'
  BY <1>5 DEF QueueTypes, ThreadTypes, threadVars
<1>11. CASE /\ rspQueue' = Append(rspQueue, a)
            /\ dispatching' = <<>> /\ firstPushed' = 0 /\ UNCHANGED workers
  <2>1. DispatchTypeOK'
    BY <1>3, <1>5, <1>7, <1>9, <1>11, WorkersAssumption
       DEF QueueTypes, DispatchTypeOK
  <2>2. UnderWay \subseteq UnderWay' \cup {m} /\ a \in UnderWay'
    BY <1>1, <1>5, <1>7, <1>11 DEF UnderWay, Held, threadVars
  <2> QED
    BY <1>4, <1>10, <2>1, <2>2 DEF QueueTypes, RequestsKept, Same
<1>12. CASE UNCHANGED <<dispatching, firstPushed, workers, rspQueue>>
  <2>1. DispatchTypeOK'
    BY <1>3, <1>5, <1>12 DEF QueueTypes, DispatchTypeOK
  <2>2. UnderWay' = UnderWay
    BY <1>5, <1>12 DEF UnderWay, Held, threadVars
  <2> QED
    BY <1>10, <2>1, <2>2 DEF QueueTypes, RequestsKept, Same
<1>13. CASE /\ workers' = [workers EXCEPT ![w] = x]
            /\ dispatching' = <<>> /\ firstPushed' = 0 /\ UNCHANGED rspQueue
  <2>1. /\ workers' \in [Workers -> Worker]
        /\ \A v \in Workers : Len(workers'[v].current) <= 1
        /\ workers'[w] = x
        /\ \A v \in Workers \ {w} : workers'[v] = workers[v]
    <3>1. WorkerIs(w, x, workers')
      BY <1>2, <1>6, <1>8, <1>13, WorkerSet
    <3> QED
      BY <3>1 DEF WorkerIs
  <2>2. DispatchTypeOK'
    BY <1>3, <1>5, <1>9, <1>13, <2>1, WorkersAssumption
       DEF QueueTypes, DispatchTypeOK
  <2>3. \A v \in Workers :
            /\ ToSet(workers[v].queue) \subseteq ToSet(workers'[v].queue)
            /\ workers'[v].current = workers[v].current
    BY <1>7, <1>8, <2>1
  <2>4. m \in ToSet(workers'[w].queue)
    BY <1>7, <1>8, <2>1
  <2>5. UnderWay \subseteq UnderWay'
    BY <1>1, <1>2, <1>5, <1>13, <2>3, <2>4 DEF UnderWay, Held, threadVars
  <2> QED
    BY <1>10, <2>2, <2>5 DEF QueueTypes, RequestsKept, Same
<1> QED
  BY <1>5, <1>11, <1>12, <1>13

LEMMA QueuePopRequest ==
    ASSUME QueueTypes, NEW w \in Workers, PopRequest(w), UNCHANGED threadVars
    PROVE  QueueTypes' /\ RequestsKept
<1> DEFINE some == workers[w].queue # <<>>
           x == [queue   |-> IF some THEN Tail(workers[w].queue) ELSE <<>>,
                 busy    |-> some,
                 current |-> IF some THEN <<Head(workers[w].queue)>> ELSE <<>>]
<1>1. workers[w] \in Worker /\ workers[w].queue \in Seq(Message)
      /\ workers[w].current = <<>>
  BY DEF QueueTypes, DispatchTypeOK, Worker, PopRequest
<1>2. /\ workers' = [workers EXCEPT ![w] = x]
      /\ UNCHANGED <<reqQueue, dispatching, firstPushed, lastPushed, rspQueue,
                     threadVars>>
  BY DEF PopRequest
<1>3. /\ x \in Worker /\ Len(x.current) <= 1
      /\ ToSet(workers[w].queue) \subseteq ToSet(x.queue) \cup ToSet(x.current)
      /\ ToSet(workers[w].current) = {}
  <2>1. CASE some
    <3>1. /\ Head(workers[w].queue) \in Message
          /\ Tail(workers[w].queue) \in Seq(Message)
          /\ ToSet(workers[w].queue) =
               {Head(workers[w].queue)} \cup ToSet(Tail(workers[w].queue))
      BY <1>1, <2>1, HeadTailHolds
    <3>2. LET c == <<Head(workers[w].queue)>>
          IN  c \in Seq(Message) /\ Len(c) = 1
              /\ ToSet(c) = {Head(workers[w].queue)}
      BY <3>1, SingletonHolds
    <3>3. x = [queue |-> Tail(workers[w].queue), busy |-> TRUE,
               current |-> <<Head(workers[w].queue)>>]
      BY <2>1
    <3> QED
      BY <1>1, <3>1, <3>2, <3>3, EmptyHolds DEF Worker
  <2>2. CASE ~some
    <3>1. x = [queue |-> <<>>, busy |-> FALSE, current |-> <<>>]
      BY <2>2
    <3> QED
      BY <1>1, <2>2, <3>1, EmptyHolds DEF Worker
  <2> QED
    BY <2>1, <2>2
<1> HIDE DEF some, x
<1>4. /\ workers' \in [Workers -> Worker]
      /\ \A v \in Workers : Len(workers'[v].current) <= 1
      /\ workers'[w] = x
      /\ \A v \in Workers \ {w} : workers'[v] = workers[v]
  <2>1. WorkerIs(w, x, workers')
    BY <1>2, <1>3, WorkerSet
  <2> QED
    BY <2>1 DEF WorkerIs
<1>5. DispatchTypeOK' /\ ThreadTypes'
  BY <1>2, <1>4 DEF QueueTypes, DispatchTypeOK, ThreadTypes, threadVars
<1>6. UnderWay \subseteq UnderWay'
  <2>1. \A v \in Workers :
            ToSet(workers[v].queue) \cup ToSet(workers[v].current)
              \subseteq ToSet(workers'[v].queue) \cup ToSet(workers'[v].current)
    BY <1>3, <1>4
  <2> QED
    BY <1>2, <2>1 DEF UnderWay, Held, threadVars
<1> QED
  BY <1>5, <1>6 DEF QueueTypes, RequestsKept, Same

LEMMA QueueRespond ==
    ASSUME QueueTypes, NEW w \in Workers, Respond(w), UNCHANGED threadVars
    PROVE  QueueTypes' /\ RequestsKept
<1> DEFINE m == Head(workers[w].current)
           x == [workers[w] EXCEPT !.current = <<>>]
<1>1. workers[w] \in Worker /\ workers[w].current \in Seq(Message)
      /\ Len(workers[w].current) <= 1 /\ workers[w].current # <<>>
  BY DEF QueueTypes, DispatchTypeOK, Worker, Respond
<1>2. m \in Message /\ ToSet(workers[w].current) = {m}
  BY <1>1, AtMostOneHolds
<1>3. /\ rspQueue' = Append(rspQueue, m)
      /\ workers' = [workers EXCEPT ![w] = x]
      /\ UNCHANGED <<reqQueue, dispatching, firstPushed, lastPushed,
                     threadVars>>
  BY DEF Respond, PushRspMsgQueue
<1>4. /\ x \in Worker /\ x.queue = workers[w].queue
      /\ x.current = <<>> /\ Len(x.current) <= 1
  <2>1. <<>> \in Seq(Message) /\ Len(<<>>) = 0
    BY EmptyHolds
  <2>2. x.current = <<>> /\ x \in Worker /\ x.queue = workers[w].queue
    BY <1>1, <2>1 DEF Worker
  <2> QED
    BY <2>1, <2>2
<1> HIDE DEF m, x
<1>5. rspQueue' \in Seq(Message) /\ ToSet(rspQueue') = ToSet(rspQueue) \cup {m}
  BY <1>2, <1>3, AppendHolds DEF QueueTypes, DispatchTypeOK
<1>6. /\ workers' \in [Workers -> Worker]
      /\ \A v \in Workers : Len(workers'[v].current) <= 1
      /\ workers'[w] = x
      /\ \A v \in Workers \ {w} : workers'[v] = workers[v]
  <2>1. WorkerIs(w, x, workers')
    BY <1>3, <1>4, WorkerSet
  <2> QED
    BY <2>1 DEF WorkerIs
<1>7. DispatchTypeOK' /\ ThreadTypes'
  BY <1>3, <1>5, <1>6 DEF QueueTypes, DispatchTypeOK, ThreadTypes, threadVars
<1>8. UnderWay \subseteq UnderWay'
  <2>1. \A v \in Workers :
            ToSet(workers[v].queue) \cup ToSet(workers[v].current)
              \subseteq ToSet(workers'[v].queue) \cup ToSet(workers'[v].current)
                          \cup {m}
    BY <1>2, <1>4, <1>6
  <2> QED
    BY <1>3, <1>5, <2>1 DEF UnderWay, Held, threadVars
<1> QED
  BY <1>7, <1>8 DEF QueueTypes, RequestsKept, Same

LEMMA OutcomeType ==
    ASSUME frozen \in [Objects -> BOOLEAN], NEW m \in Message,
           NEW out \in Outcome(m) \cup FailingOutcome(m)
    PROVE  /\ out[1] \in [Objects -> BOOLEAN]
           /\ out[2] \in {"none", "ok", "failed", "wrongPassword", "frozen",
                          "thawed"}
<1> DEFINE Set(S, b) == [o \in Objects |-> IF o \in S THEN b ELSE frozen[o]]
<1>1. m.kind \in {"freeze", "unfreeze", "query"}
  BY DEF Message
<1>2. \A S : /\ Set(S, TRUE) \in [Objects -> BOOLEAN]
             /\ Set(S, FALSE) \in [Objects -> BOOLEAN]
  OBVIOUS
<1>3. \/ \E S : \E b \in BOOLEAN, r \in {"ok", "failed"} : out = <<Set(S, b), r>>
      \/ \E r \in {"wrongPassword", "frozen", "thawed", "failed"} :
           out = <<frozen, r>>
  <2>1. CASE m.kind = "freeze"
    BY <2>1 DEF Outcome, FailingOutcome
  <2>2. CASE m.kind = "unfreeze"
    BY <2>2 DEF Outcome, FailingOutcome
  <2>3. CASE m.kind = "query"
    BY <2>3 DEF Outcome, FailingOutcome
  <2> QED
    BY <1>1, <2>1, <2>2, <2>3
<1> HIDE DEF Set
<1>4. CASE \E S : \E b \in BOOLEAN, r \in {"ok", "failed"} : out = <<Set(S, b), r>>
  <2>0. PICK S : \E b \in BOOLEAN, r \in {"ok", "failed"} :
                    out = <<Set(S, b), r>>
    BY <1>4
  <2>1. PICK b \in BOOLEAN, r \in {"ok", "failed"} : out = <<Set(S, b), r>>
    BY <2>0
  <2>2. Set(S, b) \in [Objects -> BOOLEAN]
    <3>1. CASE b = TRUE
      BY <1>2, <3>1
    <3>2. CASE b = FALSE
      BY <1>2, <3>2
    <3> QED
      BY <3>1, <3>2
  <2> QED
    BY <2>1, <2>2
<1> QED
  BY <1>3, <1>4

LEMMA QueueInvoke ==
    ASSUME QueueTypes, frozen \in [Objects -> BOOLEAN], NEW w \in Workers,
           Invoke(w)
    PROVE  QueueTypes' /\ RequestsKept
<1> DEFINE m == Head(workers[w].current)
<1>1. workers[w] \in Worker /\ workers[w].current \in Seq(Message)
      /\ Len(workers[w].current) <= 1 /\ workers[w].current # <<>>
  BY DEF QueueTypes, DispatchTypeOK, Worker, Invoke
<1>2. m \in Message /\ ToSet(workers[w].current) = {m}
  BY <1>1, AtMostOneHolds
<1>3. PICK out \in Outcome(m) \cup FailingOutcome(m) :
        workers' = [workers EXCEPT ![w].current = <<Answered(m, out[2])>>]
  BY DEF Invoke
<1> DEFINE a == Answered(m, out[2])
           x == [workers[w] EXCEPT !.current = <<a>>]
<1>4. a \in Message /\ Same(m, a)
  BY <1>2, OutcomeType, AnsweredType
<1>5. /\ workers' = [workers EXCEPT ![w] = x]
      /\ UNCHANGED <<reqQueue, dispatching, firstPushed, lastPushed, rspQueue,
                     threadVars>>
  BY <1>3 DEF Invoke
<1> HIDE DEF m, a
<1>6. <<a>> \in Seq(Message) /\ Len(<<a>>) = 1 /\ ToSet(<<a>>) = {a}
  BY <1>4, SingletonHolds
<1>7. /\ x \in Worker /\ x.queue = workers[w].queue
      /\ x.current = <<a>> /\ Len(x.current) <= 1
  BY <1>1, <1>6 DEF Worker
<1> HIDE DEF x
<1>8. /\ workers' \in [Workers -> Worker]
      /\ \A v \in Workers : Len(workers'[v].current) <= 1
      /\ workers'[w] = x
      /\ \A v \in Workers \ {w} : workers'[v] = workers[v]
  <2>1. WorkerIs(w, x, workers')
    BY <1>5, <1>7, WorkerSet
  <2> QED
    BY <2>1 DEF WorkerIs
<1>9. DispatchTypeOK' /\ ThreadTypes'
  BY <1>5, <1>8 DEF QueueTypes, DispatchTypeOK, ThreadTypes, threadVars
<1>10. UnderWay \subseteq UnderWay' \cup {m} /\ a \in UnderWay'
  <2>1. \A v \in Workers :
            ToSet(workers[v].queue) \cup ToSet(workers[v].current)
              \subseteq ToSet(workers'[v].queue) \cup ToSet(workers'[v].current)
                          \cup {m}
    BY <1>2, <1>7, <1>8
  <2>2. a \in ToSet(workers'[w].current)
    BY <1>6, <1>7, <1>8
  <2> QED
    BY <1>5, <2>1, <2>2 DEF UnderWay, Held, threadVars
<1> QED
  BY <1>4, <1>9, <1>10 DEF QueueTypes, RequestsKept, Same

LEMMA QueuePopRsp ==
    ASSUME QueueTypes, PopRspMsgQueue
    PROVE  /\ QueueTypes' /\ RequestsKept
           /\ \A m \in ToSet(sender'.msgs) : ~m.internal
<1> DEFINE i == FirstResponse(FALSE)
           m == rspQueue[i]
<1>1. i \in 1 .. Len(rspQueue) /\ m.internal = FALSE /\ m \in Message
  BY FirstResponseOf, ElementOfSeq DEF PopRspMsgQueue, QueueTypes, DispatchTypeOK
<1>2. /\ rspQueue' = RemoveAt(rspQueue, i)
      /\ sender = Idle /\ sender' = Busy(m)
      /\ UNCHANGED <<reqQueue, dispatching, firstPushed, lastPushed, workers,
                     receiver, pass>>
  BY DEF PopRspMsgQueue, PopResponse
<1> HIDE DEF i, m
<1>3. /\ RemoveAt(rspQueue, i) \in Seq(Message)
      /\ ToSet(rspQueue) = {rspQueue[i]} \cup ToSet(RemoveAt(rspQueue, i))
  BY <1>1, RemoveAtHolds, RemoveAtSet DEF QueueTypes, DispatchTypeOK
<1>4. Busy(m) \in Thread /\ Len(Busy(m).msgs) = 1 /\ ToSet(Busy(m).msgs) = {m}
  BY <1>1, BusyType, Zenon
<1>5. DispatchTypeOK' /\ ThreadTypes'
  BY <1>2, <1>3, <1>4 DEF QueueTypes, DispatchTypeOK, ThreadTypes
<1>6. UnderWay \subseteq UnderWay'
  BY <1>2, <1>3, <1>4, IdleType DEF UnderWay, Held, m
<1>7. \A n \in ToSet(sender'.msgs) : ~n.internal
  BY <1>1, <1>2, <1>4
<1> QED
  BY <1>5, <1>6, <1>7 DEF QueueTypes, RequestsKept, Same

LEMMA QueueUpdate ==
    ASSUME QueueTypes, UpdateSingleFreezeOper
    PROVE  QueueTypes' /\ RequestsKept /\ sender'.msgs = sender.msgs
<1>1. /\ sender' = [sender EXCEPT !.todo = Tail(sender.todo)]
      /\ sender.todo # <<>>
      /\ UNCHANGED <<dispatchVars, receiver, pass>>
  BY DEF UpdateSingleFreezeOper
<1>2. Tail(sender.todo) \in Seq(Objects)
  BY <1>1, HeadTailHolds DEF QueueTypes, ThreadTypes, Thread
<1>3. sender' \in Thread /\ sender'.msgs = sender.msgs
  BY <1>1, <1>2 DEF QueueTypes, ThreadTypes, Thread
<1>4. DispatchTypeOK' /\ ThreadTypes'
  BY <1>1, <1>3 DEF QueueTypes, DispatchTypeOK, ThreadTypes, dispatchVars
<1>5. UnderWay' = UnderWay
  BY <1>1, <1>3 DEF UnderWay, Held, dispatchVars
<1> QED
  BY <1>3, <1>4, <1>5 DEF QueueTypes, RequestsKept, Same

LEMMA QueueSend ==
    ASSUME QueueTypes, \A m \in ToSet(sender.msgs) : ~m.internal, Send
    PROVE  QueueTypes' /\ RequestsKept /\ sender' = Idle
<1>1. sender' = Idle /\ UNCHANGED <<dispatchVars, receiver, pass>>
  BY DEF Send
<1>2. DispatchTypeOK' /\ ThreadTypes'
  BY <1>1, IdleType DEF QueueTypes, DispatchTypeOK, ThreadTypes, dispatchVars
<1>3. UnderWay \subseteq UnderWay' \cup ToSet(sender.msgs)
  BY <1>1 DEF UnderWay, Held, dispatchVars
<1> QED
  BY <1>1, <1>2, <1>3 DEF QueueTypes, RequestsKept, Same

LEMMA QueueUnchanged ==
    ASSUME QueueTypes, UNCHANGED <<dispatchVars, receiver, sender>>,
           pass' \in {"sleep", "responses", "objects"}
    PROVE  QueueTypes' /\ RequestsKept
<1>1. DispatchTypeOK' /\ ThreadTypes'
  BY DEF QueueTypes, DispatchTypeOK, ThreadTypes, dispatchVars
<1>2. UnderWay' = UnderWay
  BY DEF UnderWay, Held, dispatchVars
<1> QED
  BY <1>1, <1>2 DEF QueueTypes, RequestsKept, Same

LEMMA OwnRequestType ==
    ASSUME NEW o \in Objects, NEW k \in {"unfreeze", "query"},
           NEW m, m = Request(<<o>>, k, TRUE)
    PROVE  m \in Message /\ m.target = <<o>> /\ m.kind = k /\ m.internal
<1>1. <<o>> \in Targets
  BY TargetsAssumption
<1> QED
  BY <1>1 DEF Request, Message

LEMMA QueueNextObject ==
    ASSUME QueueTypes, ListTypes, HandleNextObject
    PROVE  QueueTypes' /\ RequestsKept
<1> DEFINE m == monitors[currIndex + 1]
<1>1. m.obj \in Objects
  <2>1. currIndex + 1 \in 1 .. Len(monitors)
    BY DEF ListTypes, HandleNextObject
  <2>2. m \in MonitorObj
    BY <2>1, ElementOfSeq DEF ListTypes
  <2> QED
    BY <2>2 DEF MonitorObj
<1> DEFINE q == Request(<<m.obj>>, "query", TRUE)
<1>2. /\ UNCHANGED <<dispatching, firstPushed, lastPushed, workers, rspQueue,
                     threadVars>>
      /\ \/ UNCHANGED reqQueue
         \/ reqQueue' = Append(reqQueue, q)
  BY DEF HandleNextObject, HandleFreezedMonitorObj, PushInternalReq,
         PushFails, PushReqMsgQueue
<1>0. q \in Message
  BY <1>1, OwnRequestType
<1> HIDE DEF q
<1>3. reqQueue' \in Seq(Message) /\ ToSet(reqQueue) \subseteq ToSet(reqQueue')
  <2>1. /\ Append(reqQueue, q) \in Seq(Message)
        /\ ToSet(Append(reqQueue, q)) = ToSet(reqQueue) \cup {q}
    BY <1>0, AppendHolds DEF QueueTypes, DispatchTypeOK
  <2> QED
    BY <1>2, <2>1 DEF QueueTypes, DispatchTypeOK
<1>4. DispatchTypeOK' /\ ThreadTypes'
  BY <1>2, <1>3 DEF QueueTypes, DispatchTypeOK, ThreadTypes, threadVars
<1>5. UnderWay \subseteq UnderWay'
  BY <1>2, <1>3 DEF UnderWay, Held, threadVars
<1> QED
  BY <1>4, <1>5 DEF QueueTypes, RequestsKept, Same

\* The response is taken out of the queue; all else stays.
LEMMA QueueInternalRsp ==
    ASSUME QueueTypes, ListTypes, ProcessInternalRsp \/ DropInternalRsp,
           NEW r, r = rspQueue[FirstResponse(TRUE)]
    PROVE  /\ QueueTypes'
           /\ UnderWay \subseteq UnderWay' \cup {r}
           /\ ToSet(reqQueue') \subseteq UnderWay'
           /\ UNCHANGED <<receiver, sender>>
<1> DEFINE i == FirstResponse(TRUE)
           o == Head(r.target)
           q == Request(<<o>>, "unfreeze", TRUE)
<1>1. i \in 1 .. Len(rspQueue)
  BY FirstResponseOf DEF ProcessInternalRsp, DropInternalRsp, QueueTypes,
                         DispatchTypeOK
<1>2. /\ rspQueue' = RemoveAt(rspQueue, i)
      /\ UNCHANGED <<dispatching, firstPushed, lastPushed, workers, threadVars>>
      /\ \/ UNCHANGED reqQueue
         \/ IsExistInList(o) /\ reqQueue' = Append(reqQueue, q)
  BY DEF ProcessInternalRsp, DropInternalRsp, PopResponse,
         HandleQueryStatusMonitorObj, PushInternalReq, PushFails,
         PushReqMsgQueue
<1>3. IsExistInList(o) => q \in Message
  <2>1. IsExistInList(o) => o \in Objects
    BY EntryType DEF ListTypes
  <2> QED
    BY <2>1, OwnRequestType
<1> HIDE DEF i, o, q
<1>4. reqQueue' \in Seq(Message) /\ ToSet(reqQueue) \subseteq ToSet(reqQueue')
  <2>1. reqQueue \in Seq(Message)
    BY DEF QueueTypes, DispatchTypeOK
  <2>2. q \in Message =>
          /\ Append(reqQueue, q) \in Seq(Message)
          /\ ToSet(Append(reqQueue, q)) = ToSet(reqQueue) \cup {q}
    BY <2>1, AppendHolds
  <2> QED
    BY <1>2, <1>3, <2>1, <2>2
<1>5. /\ RemoveAt(rspQueue, i) \in Seq(Message)
      /\ ToSet(rspQueue) = {rspQueue[i]} \cup ToSet(RemoveAt(rspQueue, i))
  BY <1>1, RemoveAtHolds, RemoveAtSet DEF QueueTypes, DispatchTypeOK
<1>6. DispatchTypeOK' /\ ThreadTypes'
  BY <1>2, <1>4, <1>5 DEF QueueTypes, DispatchTypeOK, ThreadTypes, threadVars
<1>7. UnderWay \subseteq UnderWay' \cup {r}
  <2>1. rspQueue[i] = r
    BY DEF i
  <2>2. UNCHANGED <<dispatching, workers, receiver, sender>>
    BY <1>2 DEF threadVars
  <2>3. ToSet(rspQueue) \subseteq ToSet(rspQueue') \cup {r}
    BY <1>2, <1>5, <2>1
  <2>4. ASSUME NEW m \in UnderWay, m # r
        PROVE  m \in UnderWay'
    <3>1. m \in ToSet(reqQueue) => m \in ToSet(reqQueue')
      BY <1>4
    <3>2. m \in ToSet(rspQueue) => m \in ToSet(rspQueue')
      BY <2>3, <2>4
    <3> QED
      BY <2>2, <3>1, <3>2, Zenon DEF UnderWay, Held
  <2> QED
    BY <2>4
<1>8. ToSet(reqQueue') \subseteq UnderWay'
  BY DEF UnderWay, Held
<1> QED
  BY <1>2, <1>6, <1>7, <1>8 DEF QueueTypes, threadVars

LEMMA QueueCrash ==
    ASSUME QueueTypes, Crash
    PROVE  QueueTypes' /\ sender' = Idle
<1>1. /\ receiver' = Idle /\ sender' = Idle /\ pass' = "sleep" /\ DropMessages
  BY DEF Crash
<1>2. ThreadTypes'
  BY <1>1, IdleType, TimesAssumption DEF ThreadTypes
<1>3. <<>> \in Seq(Message) /\ Len(<<>>) = 0
  BY EmptyHolds
<1>4. DispatchTypeOK'
  BY <1>1, <1>3, WorkersAssumption DEF DropMessages, DispatchTypeOK, Worker
<1> QED
  BY <1>1, <1>2, <1>4 DEF QueueTypes

\* A tick makes the messages of a queue old and leaves them as they are.
IsAged(q, aged) ==
    /\ aged \in Seq(Message)
    /\ Len(aged) = Len(q)
    /\ DOMAIN aged = DOMAIN q
    /\ \A i \in DOMAIN q : Same(q[i], aged[i])
    /\ \A m \in ToSet(q) : \E n \in ToSet(aged) : Same(m, n)

LEMMA QueueAged ==
    ASSUME NEW q \in Seq(Message),
           NEW aged, aged = [i \in DOMAIN q |-> [q[i] EXCEPT !.old = TRUE]]
    PROVE  IsAged(q, aged)
<1>1. DOMAIN q = 1 .. Len(q) /\ Len(q) \in Nat /\ DOMAIN aged = DOMAIN q
  BY LenProperties
<1>2. ASSUME NEW i \in DOMAIN q
      PROVE  aged[i] \in Message /\ Same(q[i], aged[i])
  <2>1. q[i] \in Message
    BY <1>1, ElementOfSeq
  <2>2. aged[i] = [q[i] EXCEPT !.old = TRUE]
    OBVIOUS
  <2> QED
    BY <2>1, <2>2 DEF Message, Same
<1>3. aged \in Seq(Message) /\ Len(aged) = Len(q)
  <2>1. aged = [i \in 1 .. Len(q) |-> aged[i]]
    BY <1>1
  <2>2. \A i \in 1 .. Len(q) : aged[i] \in Message
    BY <1>1, <1>2
  <2>3. [i \in 1 .. Len(q) |-> aged[i]] \in Seq(Message)
    BY <1>1, <2>2
  <2> QED
    BY <1>1, <2>1, <2>3, LenProperties
<1>4. \A m \in ToSet(q) : \E n \in ToSet(aged) : Same(m, n)
  BY <1>1, <1>2 DEF ToSet
<1> QED
  BY <1>1, <1>2, <1>3, <1>4 DEF IsAged

LEMMA QueueTick ==
    ASSUME QueueTypes, Tick
    PROVE  /\ QueueTypes' /\ RequestsKept
           /\ IsAged(reqQueue, reqQueue') /\ IsAged(dispatching, dispatching')
           /\ IsAged(rspQueue, rspQueue')
           /\ IsAged(receiver.msgs, receiver'.msgs)
           /\ IsAged(sender.msgs, sender'.msgs)
           /\ \A w \in Workers :
                /\ IsAged(workers[w].queue, workers'[w].queue)
                /\ IsAged(workers[w].current, workers'[w].current)
           /\ receiver'.todo = receiver.todo
<1> DEFINE Aged(q) == [i \in DOMAIN q |-> [q[i] EXCEPT !.old = TRUE]]
           age == IF receiver.msgs = <<>> THEN 0 ELSE Older(receiver.age)
<1>1. /\ reqQueue' = Aged(reqQueue) /\ dispatching' = Aged(dispatching)
      /\ rspQueue' = Aged(rspQueue)
      /\ workers' = [w \in Workers |->
             [workers[w] EXCEPT !.queue = Aged(workers[w].queue),
                                !.current = Aged(workers[w].current)]]
      /\ receiver' = [receiver EXCEPT !.msgs = Aged(receiver.msgs), !.age = age]
      /\ sender' = [sender EXCEPT !.msgs = Aged(sender.msgs)]
      /\ UNCHANGED <<firstPushed, lastPushed, pass>>
  BY DEF Tick, AgeMessages
<1>2. age \in 0 .. MaxMonitorTime
  BY TimesAssumption DEF QueueTypes, ThreadTypes, Older
<1>3. \A q \in Seq(Message) : IsAged(q, Aged(q))
  BY QueueAged
<1> HIDE DEF Aged, age
<1>4. /\ reqQueue \in Seq(Message) /\ dispatching \in Seq(Message)
      /\ rspQueue \in Seq(Message)
      /\ receiver.msgs \in Seq(Message) /\ sender.msgs \in Seq(Message)
      /\ Len(dispatching) <= 1
      /\ Len(receiver.msgs) <= 1 /\ Len(sender.msgs) <= 1
  BY DEF QueueTypes, DispatchTypeOK, ThreadTypes, Thread
<1>5. /\ receiver' = [msgs |-> Aged(receiver.msgs), todo |-> receiver.todo,
                      saved |-> receiver.saved, age |-> age]
      /\ receiver.todo \in Seq(Objects) /\ receiver.saved \in BOOLEAN
  BY <1>1 DEF QueueTypes, ThreadTypes, Thread
<1>6. /\ sender' = [msgs |-> Aged(sender.msgs), todo |-> sender.todo,
                    saved |-> sender.saved, age |-> sender.age]
      /\ sender.todo \in Seq(Objects) /\ sender.saved \in BOOLEAN
      /\ sender.age \in Ages
  BY <1>1 DEF QueueTypes, ThreadTypes, Thread
<1>7. ASSUME NEW w \in Workers
      PROVE  /\ IsAged(workers[w].queue, workers'[w].queue)
             /\ IsAged(workers[w].current, workers'[w].current)
             /\ workers'[w] \in Worker
             /\ Len(workers'[w].current) <= 1
  <2>1. /\ workers[w].queue \in Seq(Message)
        /\ workers[w].current \in Seq(Message) /\ Len(workers[w].current) <= 1
        /\ workers[w].busy \in BOOLEAN /\ workers[w] \in Worker
    BY DEF QueueTypes, DispatchTypeOK, Worker
  <2>2. workers'[w] = [workers[w] EXCEPT !.queue = Aged(workers[w].queue),
                                         !.current = Aged(workers[w].current)]
    BY <1>1
  <2>3. workers'[w] = [queue |-> Aged(workers[w].queue),
                       busy |-> workers[w].busy,
                       current |-> Aged(workers[w].current)]
    BY <2>1, <2>2 DEF Worker
  <2>4. /\ IsAged(workers[w].queue, Aged(workers[w].queue))
        /\ IsAged(workers[w].current, Aged(workers[w].current))
    BY <1>3, <2>1
  <2>5. /\ Aged(workers[w].queue) \in Seq(Message)
        /\ Aged(workers[w].current) \in Seq(Message)
        /\ Len(Aged(workers[w].current)) <= 1
    BY <2>1, <2>4 DEF IsAged
  <2> QED
    BY <2>1, <2>3, <2>4, <2>5 DEF Worker
<1>8. /\ IsAged(reqQueue, reqQueue') /\ IsAged(dispatching, dispatching')
      /\ IsAged(rspQueue, rspQueue')
      /\ IsAged(receiver.msgs, receiver'.msgs)
      /\ IsAged(sender.msgs, sender'.msgs)
  BY <1>1, <1>3, <1>4, <1>5, <1>6
<1>9. DispatchTypeOK'
  <2>1. /\ reqQueue' \in Seq(Message) /\ dispatching' \in Seq(Message)
        /\ rspQueue' \in Seq(Message) /\ Len(dispatching') <= 1
    BY <1>4, <1>8 DEF IsAged
  <2>2. workers' \in [Workers -> Worker]
    BY <1>1, <1>7
  <2> QED
    BY <1>1, <1>7, <2>1, <2>2 DEF QueueTypes, DispatchTypeOK
<1>10. ThreadTypes'
  <2>1. /\ receiver'.msgs \in Seq(Message) /\ Len(receiver'.msgs) <= 1
        /\ sender'.msgs \in Seq(Message) /\ Len(sender'.msgs) <= 1
    BY <1>4, <1>8 DEF IsAged
  <2>2. age \in Ages
    BY <1>2, TimesAssumption DEF Ages
  <2>3. receiver' \in Thread /\ receiver'.age = age
    BY <1>5, <2>1, <2>2 DEF Thread
  <2>4. sender' \in Thread
    BY <1>6, <2>1 DEF Thread
  <2> QED
    BY <1>1, <1>2, <2>1, <2>3, <2>4 DEF QueueTypes, ThreadTypes
<1>11. ASSUME NEW m \in UnderWay
       PROVE  \E n \in UnderWay' : Same(m, n)
  <2>1. CASE \E w \in Workers : m \in ToSet(workers[w].queue)
    <3>1. PICK w \in Workers : m \in ToSet(workers[w].queue)
      BY <2>1
    <3>2. IsAged(workers[w].queue, workers'[w].queue)
      BY <1>7
    <3>3. PICK n \in ToSet(workers'[w].queue) : Same(m, n)
      BY <3>1, <3>2 DEF IsAged
    <3>4. n \in UnderWay'
      BY <3>3 DEF UnderWay, Held
    <3> QED
      BY <3>3, <3>4
  <2>2. CASE \E w \in Workers : m \in ToSet(workers[w].current)
    <3>1. PICK w \in Workers : m \in ToSet(workers[w].current)
      BY <2>2
    <3>2. IsAged(workers[w].current, workers'[w].current)
      BY <1>7
    <3>3. PICK n \in ToSet(workers'[w].current) : Same(m, n)
      BY <3>1, <3>2 DEF IsAged
    <3>4. n \in UnderWay'
      BY <3>3 DEF UnderWay, Held
    <3> QED
      BY <3>3, <3>4
  <2>3. CASE m \in ToSet(reqQueue) \cup ToSet(dispatching) \cup ToSet(rspQueue)
    BY <1>8, <2>3 DEF UnderWay, Held, IsAged
  <2>4. CASE m \in ToSet(receiver.msgs) \cup ToSet(sender.msgs)
    BY <1>8, <2>4 DEF UnderWay, Held, IsAged
  <2> QED
    BY <2>1, <2>2, <2>3, <2>4 DEF UnderWay, Held
<1> QED
  BY <1>5, <1>7, <1>8, <1>9, <1>10, <1>11 DEF QueueTypes, RequestsKept

-----------------------------------------------------------------------------
(***************************************************************************)
(* The inductive invariant.  Only client requests reach the send thread,   *)
(* and the list names an object once unless a client asked for it before   *)
(* the table was loaded: what a process that has not loaded the table has  *)
(* in its list, or is about to add to it, has been asked for just then.    *)
(***************************************************************************)
SenderInv == \A m \in ToSet(sender.msgs) : ~m.internal

LoadInv ==
    /\ \A o : o \notin stranded => Once(monitors, o)
    /\ agent # "up" =>
         /\ \A i \in DOMAIN monitors : monitors[i].obj \in stranded
         /\ ToSet(receiver.todo) \subseteq stranded

Types == ListTypes /\ QueueTypes /\ ClientTypes

AgentInv == Types /\ SenderInv /\ LoadInv /\ WaitingHasRequest

LEMMA InitInv ==
    ASSUME Init
    PROVE  AgentInv
<1>1. <<>> \in Seq(Message) /\ Len(<<>>) = 0 /\ <<>> \in Seq(MonitorObj)
  BY EmptyHolds
<1>2. ListTypes
  BY <1>1, FS_EmptySet DEF Init, MonitorInit, ListTypes, TableTypes
<1>3. DispatchTypeOK
  BY <1>1, WorkersAssumption DEF Init, DispatchInit, DispatchTypeOK, Worker
<1>4. ThreadTypes
  BY IdleType, TimesAssumption DEF Init, ThreadTypes
<1>5. ClientTypes
  <2>1. /\ frozen \in [Objects -> BOOLEAN] /\ passed \in BOOLEAN
        /\ settled \in [ClientTargets -> BOOLEAN]
    BY Zenon DEF Init
  <2>2. /\ sinceFreeze \in [Objects -> 0 .. MaxMonitorTime]
        /\ outstanding \in Int /\ outstanding <= MaxOutstanding
        /\ faults \in 0 .. MaxFaults
    BY TimesAssumption, BoundsAssumption DEF Init
  <2> QED
    BY <2>1, <2>2 DEF Init, ClientTypes
<1>6. monitors = <<>> /\ receiver = Idle /\ sender = Idle /\ DOMAIN monitors = {}
  BY DEF Init, MonitorInit
<1>7. SenderInv /\ LoadInv /\ WaitingHasRequest
  BY <1>6, IdleType DEF Init, SenderInv, LoadInv, WaitingHasRequest, Once
<1> QED
  BY <1>2, <1>3, <1>4, <1>5, <1>7 DEF AgentInv, Types, QueueTypes

LEMMA TargetObjects ==
    ASSUME NEW t \in Targets
    PROVE  ToSet(t) \subseteq Objects
  BY TargetsAssumption DEF ToSet

LEMMA ClientStep ==
    ASSUME Types, Next
    PROVE  ClientTypes'
<1>0. ClientTypes
  BY DEF Types
<1> DEFINE same == UNCHANGED <<agent, frozen, settled, outstanding, passed,
                               faults, sinceFreeze, abandoned, stranded>>
<1>1. ASSUME NEW t \in ClientTargets, ReceiveFreeze(t)
      PROVE  ClientTypes'
  <2>1. settled' \in [ClientTargets -> BOOLEAN]
    BY <1>0, <1>1 DEF ReceiveFreeze, ClientTypes
  <2>2. sinceFreeze' \in [Objects -> 0 .. MaxMonitorTime]
    BY <1>0, <1>1, TimesAssumption DEF ReceiveFreeze, ClientTypes
  <2>3. outstanding' \in Int /\ outstanding' <= MaxOutstanding
    BY <1>0, <1>1, BoundsAssumption DEF ReceiveFreeze, ClientTypes
  <2>4. ToSet(t) \subseteq Objects
    BY TargetsAssumption, TargetObjects
  <2>5. stranded' \subseteq Objects
    BY <1>0, <1>1, <2>4 DEF ReceiveFreeze, ClientTypes
  <2> QED
    BY <1>0, <1>1, <2>1, <2>2, <2>3, <2>5 DEF ReceiveFreeze, ClientTypes
<1>2. ASSUME NEW t \in ClientTargets, ReceiveUnfreeze(t)
      PROVE  ClientTypes'
  <2>1. ToSet(t) \subseteq Objects
    BY TargetsAssumption, TargetObjects
  <2>2. stranded' \subseteq Objects
    BY <1>0, <1>2, <2>1 DEF ReceiveUnfreeze, ClientTypes
  <2> QED
    BY <1>0, <1>2, <2>2, BoundsAssumption DEF ReceiveUnfreeze, ClientTypes
<1>3. ASSUME NEW w \in Workers, Invoke(w)
      PROVE  ClientTypes'
  <2> DEFINE m == Head(workers[w].current)
  <2>1. m \in Message
    <3>1. workers[w].current \in Seq(Message) /\ workers[w].current # <<>>
          /\ Len(workers[w].current) <= 1
      BY <1>3 DEF Types, QueueTypes, DispatchTypeOK, Worker, Invoke
    <3> QED
      BY <3>1, AtMostOneHolds
  <2>2. PICK out \in Outcome(m) \cup FailingOutcome(m) :
            /\ frozen' = out[1]
            /\ faults' = IF out \in Outcome(m) THEN faults ELSE faults + 1
    BY <1>3 DEF Invoke
  <2>3. frozen' \in [Objects -> BOOLEAN]
    BY <1>0, <2>1, <2>2, OutcomeType DEF ClientTypes
  <2>4. faults' \in 0 .. MaxFaults
    BY <1>0, <1>3, <2>2, BoundsAssumption DEF ClientTypes, Invoke
  <2> QED
    BY <1>0, <1>3, <2>3, <2>4 DEF Invoke, ClientTypes, clientVars, historyVars
<1>4. CASE Send
  <2> DEFINE m == Head(sender.msgs)
  <2>1. settled' \in [ClientTargets -> BOOLEAN]
    <3>1. settled' = [settled EXCEPT ![m.target] =
                          settled[m.target] \/ Ended(m)]
      BY <1>4 DEF Send
    <3>2. (settled[m.target] \/ Ended(m)) \in BOOLEAN
      OBVIOUS
    <3> QED
      BY <1>0, <3>1, <3>2, Zenon DEF ClientTypes
  <2>2. outstanding' \in Int /\ outstanding' <= MaxOutstanding
    BY <1>0, <1>4, BoundsAssumption DEF Send, ClientTypes
  <2> QED
    BY <1>0, <1>4, <2>1, <2>2 DEF Send, ClientTypes, historyVars
<1>5. CASE HandleNextObject
  <2>1. abandoned' \subseteq Objects
    <3> DEFINE m == monitors[currIndex + 1]
    <3>1. currIndex + 1 \in 1 .. Len(monitors)
      BY <1>5 DEF Types, ListTypes, HandleNextObject
    <3>2. m \in MonitorObj
      BY <3>1, ElementOfSeq DEF Types, ListTypes
    <3>3. m.obj \in Objects
      BY <3>2 DEF MonitorObj
    <3>4. abandoned' = abandoned \/ abandoned' = abandoned \cup {m.obj}
      BY <1>5 DEF HandleNextObject, HandleFreezedMonitorObj
    <3> QED
      BY <1>0, <3>3, <3>4 DEF ClientTypes
  <2>2. UNCHANGED faults \/ PushFails
    BY <1>5 DEF HandleNextObject, HandleFreezedMonitorObj, PushInternalReq
  <2>3. faults' \in 0 .. MaxFaults
    BY <1>0, <2>2, BoundsAssumption DEF ClientTypes, PushFails
  <2> QED
    BY <1>0, <1>5, <2>1, <2>3 DEF HandleNextObject, ClientTypes, clientVars
<1>6. CASE EndPass \/ Crash \/ Start \/ LoadObjects
  <2>1. CASE EndPass
    BY <1>0, <2>1 DEF EndPass, ClientTypes, clientVars, historyVars
  <2>2. CASE Crash
    <3>1. faults' \in 0 .. MaxFaults
      BY <1>0, <2>2, BoundsAssumption DEF Crash, ClientTypes
    <3>2. outstanding' \in Int /\ outstanding' <= MaxOutstanding
      BY <2>2, BoundsAssumption DEF Crash
    <3> QED
      BY <1>0, <2>2, <3>1, <3>2 DEF Crash, ClientTypes, historyVars
  <2>3. CASE Start
    BY <1>0, <2>3 DEF Start, ClientTypes, clientVars, historyVars
  <2>4. CASE LoadObjects
    BY <1>0, <2>4 DEF LoadObjects, ClientTypes, clientVars, historyVars
  <2> QED
    BY <1>6, <2>1, <2>2, <2>3, <2>4
<1>7. CASE Tick
  <2>1. sinceFreeze' \in [Objects -> 0 .. MaxMonitorTime]
    BY <1>0, <1>7, TimesAssumption DEF Tick, ClientTypes, Older
  <2> QED
    BY <1>0, <1>7, <2>1 DEF Tick, ClientTypes, clientVars
<1>8. CASE same
  BY <1>0, <1>8 DEF ClientTypes
<1>9. Receiver \/ Dispatch \/ PopRspMsgQueue \/ UpdateSingleFreezeOper
        \/ BeginPass \/ ResponsesDone => same
  <2>1. SaveObject => same
    BY DEF SaveObject, clientVars, historyVars
  <2>2. AddObject => same
    BY DEF AddObject, clientVars, historyVars
  <2>3. PushFreeze => same
    BY DEF PushFreeze, clientVars, historyVars
  <2>4. Dispatch => same
    BY DEF Dispatch, clientVars, historyVars
  <2>5. PopRspMsgQueue => same
    BY DEF PopRspMsgQueue, clientVars, historyVars
  <2>6. UpdateSingleFreezeOper => same
    BY DEF UpdateSingleFreezeOper, clientVars, historyVars
  <2>7. BeginPass => same
    BY DEF BeginPass, clientVars, historyVars
  <2>8. ResponsesDone => same
    BY DEF ResponsesDone, clientVars, historyVars
  <2> QED
    BY <2>1, <2>2, <2>3, <2>4, <2>5, <2>6, <2>7, <2>8 DEF Receiver
<1>13. CASE ProcessInternalRsp
  <2>1. UNCHANGED faults \/ PushFails
    BY <1>13 DEF ProcessInternalRsp, HandleQueryStatusMonitorObj,
                 PushInternalReq
  <2>2. faults' \in 0 .. MaxFaults
    BY <1>0, <2>1, BoundsAssumption DEF ClientTypes, PushFails
  <2> QED
    BY <1>0, <1>13, <2>2 DEF ProcessInternalRsp, ClientTypes, clientVars,
                             historyVars
<1>14. CASE DropInternalRsp
  <2>1. faults' \in 0 .. MaxFaults
    BY <1>0, <1>14, BoundsAssumption DEF DropInternalRsp, ClientTypes
  <2>2. stranded' \subseteq Objects
    <3> DEFINE i == FirstResponse(TRUE)
    <3>1. i \in 1 .. Len(rspQueue) /\ rspQueue \in Seq(Message)
      BY <1>14, FirstResponseOf DEF DropInternalRsp, Types, QueueTypes,
                                    DispatchTypeOK
    <3>2. rspQueue[i] \in Message
      BY <3>1, ElementOfSeq
    <3>3. rspQueue[i].target \in Targets
      BY <3>2 DEF Message
    <3>4. ToSet(rspQueue[i].target) \subseteq Objects
      BY <3>3, TargetObjects
    <3> QED
      BY <1>0, <1>14, <3>4 DEF DropInternalRsp, ClientTypes
  <2> QED
    BY <1>0, <1>14, <2>1, <2>2 DEF DropInternalRsp, ClientTypes, clientVars
<1> HIDE DEF same
<1>10. CASE Client
  BY <1>1, <1>2, <1>10 DEF Client
<1>11. CASE Sender
  BY <1>4, <1>8, <1>9, <1>11 DEF Sender
<1>12. CASE Monitor
  BY <1>5, <1>6, <1>8, <1>9, <1>12, <1>13, <1>14 DEF Monitor
<1> QED
  BY <1>3, <1>6, <1>7, <1>8, <1>9, <1>10, <1>11, <1>12 DEF Next

(***************************************************************************)
(* A step that keeps the waits and the requests keeps every wait answered. *)
(***************************************************************************)
LEMMA WaitsKept ==
    ASSUME ListTypes, QueueTypes, WaitingHasRequest,
           ListStep, KeepsWaits, RequestsKept,
           \A k \in DOMAIN monitors :
               monitors[k].obj \in stranded => monitors[k].obj \in stranded'
    PROVE  WaitingHasRequest'
<1> SUFFICES ASSUME NEW j \in DOMAIN monitors',
                    monitors'[j].status # "FREEZED",
                    monitors'[j].obj \notin stranded'
             PROVE  \E n \in UnderWay' :
                      /\ n.internal
                      /\ n.target = <<monitors'[j].obj>>
                      /\ n.kind = IF monitors'[j].status = "UNFREEZING"
                                    THEN "unfreeze" ELSE "query"
  BY DEF WaitingHasRequest
<1>1. CASE \E k \in DOMAIN monitors :
             /\ monitors'[j].obj = monitors[k].obj
             /\ monitors'[j].status = monitors[k].status
  <2>1. PICK k \in DOMAIN monitors :
             /\ monitors'[j].obj = monitors[k].obj
             /\ monitors'[j].status = monitors[k].status
    BY <1>1
  <2>2. PICK m \in UnderWay :
             /\ m.internal
             /\ m.target = <<monitors[k].obj>>
             /\ m.kind = IF monitors[k].status = "UNFREEZING"
                           THEN "unfreeze" ELSE "query"
    BY <2>1 DEF WaitingHasRequest
  <2>3. PICK n \in UnderWay' : Same(m, n)
    BY <2>2 DEF RequestsKept
  <2> QED
    BY <2>1, <2>2, <2>3 DEF Same
<1>2. CASE /\ monitors'[j].status = "GETSTATUSING"
           /\ reqQueue' = Append(reqQueue,
                            Request(<<monitors'[j].obj>>, "query", TRUE))
  <2> DEFINE q == Request(<<monitors'[j].obj>>, "query", TRUE)
  <2>1. monitors'[j].obj \in Objects
    <3>1. monitors'[j] \in MonitorObj
      BY ElementOfSeq, LenProperties DEF ListStep
    <3> QED
      BY <3>1 DEF MonitorObj
  <2>2. q \in Message /\ q.target = <<monitors'[j].obj>> /\ q.kind = "query"
        /\ q.internal
    BY <2>1, OwnRequestType
  <2>3. reqQueue' = Append(reqQueue, q) /\ reqQueue \in Seq(Message)
    BY <1>2 DEF QueueTypes, DispatchTypeOK
  <2> HIDE DEF q
  <2>4. q \in ToSet(reqQueue')
    BY <2>2, <2>3, AppendHolds
  <2>5. q \in UnderWay'
    BY <2>4 DEF UnderWay, Held
  <2> QED
    BY <1>2, <2>2, <2>5
<1> QED
  BY <1>1, <1>2 DEF KeepsWaits

LEMMA WaitsAnswered ==
    ASSUME ListTypes, QueueTypes, WaitingHasRequest, LoadInv,
           ProcessInternalRsp
    PROVE  WaitingHasRequest'
<1> SUFFICES ASSUME NEW j \in DOMAIN monitors',
                    monitors'[j].status # "FREEZED",
                    monitors'[j].obj \notin stranded'
             PROVE  \E n \in UnderWay' :
                      /\ n.internal
                      /\ n.target = <<monitors'[j].obj>>
                      /\ n.kind = IF monitors'[j].status = "UNFREEZING"
                                    THEN "unfreeze" ELSE "query"
  BY DEF WaitingHasRequest
<1> DEFINE r == rspQueue[FirstResponse(TRUE)]
           o == Head(r.target)
<1>0. stranded' = stranded
  BY DEF ProcessInternalRsp, historyVars
<1>1. ListStep /\ OthersKept(o) /\ (Once(monitors, o) => Answers(o))
  BY ListInternalRsp
<1>2. UnderWay \subseteq UnderWay' \cup {r} /\ ToSet(reqQueue') \subseteq UnderWay'
  BY QueueInternalRsp
<1> HIDE DEF r
<1>3. CASE \E k \in DOMAIN monitors :
             monitors[k].obj # o /\ monitors'[j] = monitors[k]
  <2>1. PICK k \in DOMAIN monitors :
             monitors[k].obj # o /\ monitors'[j] = monitors[k]
    BY <1>3
  <2>2. PICK m \in UnderWay :
             /\ m.internal
             /\ m.target = <<monitors[k].obj>>
             /\ m.kind = IF monitors[k].status = "UNFREEZING"
                           THEN "unfreeze" ELSE "query"
    BY <1>0, <2>1 DEF WaitingHasRequest
  <2>3. m # r
    BY <2>1, <2>2
  <2> QED
    BY <1>2, <2>1, <2>2, <2>3
<1>4. CASE /\ monitors'[j].obj = o
           /\ monitors'[j].status = "UNFREEZING"
           /\ reqQueue' = Append(reqQueue, Request(<<o>>, "unfreeze", TRUE))
  <2> DEFINE q == Request(<<o>>, "unfreeze", TRUE)
  <2>1. o \in Objects
    <3>1. monitors'[j] \in MonitorObj
      BY <1>1, ElementOfSeq, LenProperties DEF ListStep
    <3> QED
      BY <1>4, <3>1 DEF MonitorObj
  <2> HIDE DEF o
  <2>2. q \in Message /\ q.target = <<o>> /\ q.kind = "unfreeze" /\ q.internal
    BY <2>1, OwnRequestType
  <2>3. reqQueue' = Append(reqQueue, q) /\ reqQueue \in Seq(Message)
    BY <1>4 DEF QueueTypes, DispatchTypeOK
  <2> HIDE DEF q
  <2>4. q \in ToSet(reqQueue')
    BY <2>2, <2>3, AppendHolds
  <2> QED
    BY <1>2, <1>4, <2>2, <2>4
<1>5. CASE o \notin stranded
  BY <1>1, <1>3, <1>4, <1>5 DEF Answers, LoadInv
<1>6. CASE o \in stranded
  BY <1>0, <1>1, <1>3, <1>6 DEF OthersKept
<1> QED
  BY <1>5, <1>6

(***************************************************************************)
(* Every step keeps the types, whatever may upset the agent.               *)
(***************************************************************************)
LEMMA TypesStep ==
    ASSUME Types, SenderInv, [Next]_vars
    PROVE  Types' /\ SenderInv'
<1>0. ListTypes /\ QueueTypes /\ ClientTypes /\ ThreadTypes
  BY DEF Types, QueueTypes
<1> DEFINE quiet == UNCHANGED <<monitors, table>>
           kept == UNCHANGED sender
<1>1. ASSUME ListStep, currIndex' \in Nat
      PROVE  ListTypes'
  BY <1>1 DEF ListStep, ListTypes
<1>2. ASSUME quiet, currIndex' \in Nat
      PROVE  ListTypes'
  BY <1>0, <1>2 DEF ListTypes
<1>3. ASSUME kept
      PROVE  SenderInv'
  BY <1>3 DEF SenderInv
<1>4. currIndex \in Nat /\ 0 \in Nat /\ currIndex + 1 \in Nat
  BY <1>0 DEF ListTypes
<1>5. CASE Client
  <2>1. PICK t \in ClientTargets : ReceiveFreeze(t) \/ ReceiveUnfreeze(t)
    BY <1>5 DEF Client
  <2>2. QueueTypes'
    BY <1>0, <2>1, QueueReceiveFreeze, QueueReceiveUnfreeze
  <2>3. quiet /\ UNCHANGED currIndex /\ kept
    BY <2>1 DEF ReceiveFreeze, ReceiveUnfreeze, monitorVars, threadVars
  <2> QED
    BY <1>0, <1>2, <1>3, <1>4, <1>5, <2>2, <2>3, ClientStep DEF Types, Next
<1>6. CASE SaveObject
  <2>1. ListStep /\ QueueTypes'
    BY <1>0, <1>6, ListSave, QueueReceiver
  <2>2. UNCHANGED currIndex /\ kept
    BY <1>6 DEF SaveObject
  <2> QED
    BY <1>1, <1>3, <1>4, <1>6, <2>1, <2>2, ClientStep DEF Types, Next, Receiver
<1>7. CASE AddObject
  <2>1. ListStep /\ QueueTypes'
    BY <1>0, <1>7, ListAdd, QueueReceiver
  <2>2. UNCHANGED currIndex /\ kept
    BY <1>7 DEF AddObject
  <2> QED
    BY <1>1, <1>3, <1>4, <1>7, <2>1, <2>2, ClientStep DEF Types, Next, Receiver
<1>8. CASE PushFreeze
  <2>1. QueueTypes'
    BY <1>0, <1>8, QueuePushFreeze
  <2>2. quiet /\ UNCHANGED currIndex /\ kept
    BY <1>8 DEF PushFreeze, monitorVars
  <2> QED
    BY <1>2, <1>3, <1>4, <1>8, <2>1, <2>2, ClientStep DEF Types, Next, Receiver
<1>9. CASE Dispatch
  <2>1. UNCHANGED threadVars /\ quiet /\ UNCHANGED currIndex /\ kept
    BY <1>9 DEF Dispatch, monitorVars, threadVars
  <2>2. QueueTypes'
    BY <1>0, <1>9, <2>1, QueuePopReq, QueuePushMsgToWorker, QueuePopRequest,
       QueueRespond DEF Dispatch
  <2> QED
    BY <1>2, <1>3, <1>4, <1>9, <2>1, <2>2, ClientStep DEF Types, Next
<1>10. CASE \E w \in Workers : Invoke(w)
  <2>1. PICK w \in Workers : Invoke(w)
    BY <1>10
  <2>2. QueueTypes'
    BY <1>0, <2>1, QueueInvoke DEF ClientTypes
  <2>3. quiet /\ UNCHANGED currIndex /\ kept
    BY <2>1 DEF Invoke, monitorVars, threadVars
  <2> QED
    BY <1>2, <1>3, <1>4, <1>10, <2>2, <2>3, ClientStep DEF Types, Next
<1>11. CASE PopRspMsgQueue
  <2>1. QueueTypes' /\ SenderInv'
    BY <1>0, <1>11, QueuePopRsp DEF SenderInv
  <2>2. quiet /\ UNCHANGED currIndex
    BY <1>11 DEF PopRspMsgQueue, monitorVars
  <2> QED
    BY <1>2, <1>4, <1>11, <2>1, <2>2, ClientStep DEF Types, Next, Sender
<1>12. CASE UpdateSingleFreezeOper
  <2>1. ListStep /\ QueueTypes' /\ SenderInv'
    BY <1>0, <1>12, ListUpdate, QueueUpdate DEF SenderInv
  <2>2. UNCHANGED currIndex
    BY <1>12 DEF UpdateSingleFreezeOper
  <2> QED
    BY <1>1, <1>4, <1>12, <2>1, <2>2, ClientStep DEF Types, Next, Sender
<1>13. CASE Send
  <2>1. QueueTypes' /\ SenderInv'
    BY <1>0, <1>13, QueueSend, IdleType DEF SenderInv
  <2>2. quiet /\ UNCHANGED currIndex
    BY <1>13 DEF Send, monitorVars
  <2> QED
    BY <1>2, <1>4, <1>13, <2>1, <2>2, ClientStep DEF Types, Next, Sender
<1>14. CASE BeginPass \/ ResponsesDone \/ EndPass
  <2>1. /\ UNCHANGED <<dispatchVars, receiver, sender>> /\ quiet /\ kept
        /\ pass' \in {"sleep", "responses", "objects"}
        /\ UNCHANGED currIndex \/ currIndex' = 0
    BY <1>14 DEF BeginPass, ResponsesDone, EndPass, monitorVars
  <2>2. QueueTypes'
    BY <1>0, <2>1, QueueUnchanged
  <2> QED
    BY <1>2, <1>3, <1>4, <1>14, <2>1, <2>2, ClientStep DEF Types, Next, Monitor
<1>15. CASE ProcessInternalRsp
  <2>1. ListStep /\ QueueTypes' /\ kept
    BY <1>0, <1>15, ListInternalRsp, QueueInternalRsp
  <2>2. UNCHANGED currIndex
    BY <1>15 DEF ProcessInternalRsp
  <2> QED
    BY <1>1, <1>3, <1>4, <1>15, <2>1, <2>2, ClientStep DEF Types, Next, Monitor
<1>22. CASE DropInternalRsp
  <2>1. QueueTypes' /\ kept
    BY <1>0, <1>22, QueueInternalRsp
  <2>2. quiet /\ UNCHANGED currIndex
    BY <1>22 DEF DropInternalRsp, monitorVars
  <2> QED
    BY <1>2, <1>3, <1>4, <1>22, <2>1, <2>2, ClientStep DEF Types, Next, Monitor
<1>16. CASE HandleNextObject
  <2>1. ListStep /\ QueueTypes'
    BY <1>0, <1>16, ListNextObject, QueueNextObject
  <2>2. currIndex' = currIndex + 1 /\ kept
    BY <1>16 DEF HandleNextObject, threadVars
  <2> QED
    BY <1>1, <1>3, <1>4, <1>16, <2>1, <2>2, ClientStep DEF Types, Next, Monitor
<1>17. CASE Crash
  <2>1. QueueTypes' /\ sender' = Idle
    BY <1>0, <1>17, QueueCrash
  <2>2. monitors' = <<>> /\ currIndex' = 0 /\ UNCHANGED table
    BY <1>17 DEF Crash
  <2>3. ListTypes'
    BY <1>0, <1>4, <2>2, EmptyHolds DEF ListTypes
  <2>4. SenderInv'
    BY <2>1, IdleType DEF SenderInv
  <2> QED
    BY <1>17, <2>1, <2>3, <2>4, ClientStep DEF Types, Next
<1>18. CASE Start
  <2>1. UNCHANGED <<dispatchVars, receiver, sender, pass, monitorVars>>
    BY <1>18 DEF Start, threadVars
  <2>2. QueueTypes'
    BY <1>0, <2>1, QueueUnchanged DEF ThreadTypes
  <2>3. quiet /\ UNCHANGED currIndex /\ kept
    BY <2>1 DEF monitorVars
  <2> QED
    BY <1>2, <1>3, <1>4, <1>18, <2>2, <2>3, ClientStep DEF Types, Next
<1>19. CASE LoadObjects
  <2>1. UNCHANGED <<dispatchVars, receiver, sender, pass, table, currIndex>>
        /\ LoadFromDB
    BY <1>19 DEF LoadObjects, threadVars
  <2>2. QueueTypes'
    BY <1>0, <2>1, QueueUnchanged DEF ThreadTypes
  <2>3. ListTypes'
    BY <1>0, <2>1, RowsLoaded DEF ListTypes
  <2> QED
    BY <1>3, <1>19, <2>1, <2>2, <2>3, ClientStep DEF Types, Next
<1>20. CASE Tick
  <2>1. ListStep /\ QueueTypes' /\ IsAged(sender.msgs, sender'.msgs)
    BY <1>0, <1>20, ListTick, QueueTick
  <2>2. UNCHANGED currIndex
    BY <1>20 DEF Tick
  <2>3. SenderInv'
    <3>1. ASSUME NEW n \in ToSet(sender'.msgs)
          PROVE  ~n.internal
      <4>1. PICK i \in DOMAIN sender'.msgs : n = sender'.msgs[i]
        BY DEF ToSet
      <4>2. i \in DOMAIN sender.msgs /\ Same(sender.msgs[i], n)
        BY <2>1, <4>1 DEF IsAged
      <4>3. sender.msgs[i] \in ToSet(sender.msgs)
        BY <4>2 DEF ToSet
      <4> QED
        BY <4>2, <4>3 DEF SenderInv, Same
    <3> QED
      BY <3>1 DEF SenderInv
  <2> QED
    BY <1>1, <1>4, <1>20, <2>1, <2>2, <2>3, ClientStep DEF Types, Next
<1>21. CASE UNCHANGED vars
  <2>1. /\ UNCHANGED <<dispatchVars, receiver, sender, pass, monitorVars>>
        /\ UNCHANGED <<agent, frozen, settled, outstanding, passed, faults,
                       sinceFreeze, abandoned, stranded>>
    BY <1>21 DEF vars, threadVars, clientVars, historyVars
  <2>2. QueueTypes'
    BY <1>0, <2>1, QueueUnchanged DEF ThreadTypes
  <2>3. quiet /\ UNCHANGED currIndex /\ kept
    BY <2>1 DEF monitorVars
  <2>4. ClientTypes'
    BY <1>0, <2>1 DEF ClientTypes
  <2> QED
    BY <1>2, <1>3, <1>4, <2>2, <2>3, <2>4 DEF Types
<1> QED
  BY <1>5, <1>6, <1>7, <1>8, <1>9, <1>10, <1>11, <1>12, <1>13, <1>14, <1>15,
     <1>16, <1>17, <1>18, <1>19, <1>20, <1>21, <1>22
     DEF Next, Receiver, Sender, Monitor

(***************************************************************************)
(* No wait of the monitor is left without its request, but for the objects *)
(* that are stranded.                                                      *)
(***************************************************************************)
LEMMA WaitsStep ==
    ASSUME AgentInv, [Next]_vars
    PROVE  LoadInv' /\ WaitingHasRequest'
<1>0. /\ ListTypes /\ QueueTypes /\ ClientTypes /\ ThreadTypes
      /\ LoadInv /\ WaitingHasRequest /\ SenderInv
  BY DEF AgentInv, Types, QueueTypes
<1> DEFINE quiet == UNCHANGED <<monitors, table>>
           same == UNCHANGED <<agent, stranded>>
           todo == ToSet(receiver'.todo) \subseteq ToSet(receiver.todo)
<1>1. ASSUME ListStep, KeepsWaits, RequestsKept, todo, stranded' = stranded,
             agent' # "up" => agent # "up"
      PROVE  LoadInv' /\ WaitingHasRequest'
  <2>1. WaitingHasRequest'
    BY <1>0, <1>1, WaitsKept
  <2>2. \A o : o \notin stranded' => Once(monitors', o)
    BY <1>0, <1>1 DEF ListStep, OnceKept, LoadInv
  <2>3. ASSUME agent' # "up"
        PROVE  /\ \A i \in DOMAIN monitors' : monitors'[i].obj \in stranded'
               /\ ToSet(receiver'.todo) \subseteq stranded'
    BY <1>0, <1>1, <2>3 DEF ListStep, LoadInv
  <2> QED
    BY <2>1, <2>2, <2>3 DEF LoadInv
<1>2. ASSUME quiet
      PROVE  ListStep /\ KeepsWaits
  BY <1>0, <1>2, ListUnchanged
<1>3. receiver'.todo = receiver.todo => todo
  OBVIOUS
<1>4. ASSUME NEW t \in ClientTargets, ReceiveFreeze(t)
      PROVE  LoadInv' /\ WaitingHasRequest'
  <2>1. quiet /\ UNCHANGED agent /\ receiver'.todo = t
    BY <1>4 DEF ReceiveFreeze, monitorVars, Busy, Request
  <2>2. ListStep /\ KeepsWaits /\ RequestsKept
    BY <1>0, <1>2, <1>4, <2>1, QueueReceiveFreeze
  <2>3. ASSUME NEW k \in DOMAIN monitors
        PROVE  ~Forgotten(monitors[k].obj)
    <3>1. IsExistInList(monitors[k].obj)
      BY <1>0, PositionOf, LenProperties DEF ListTypes
    <3> QED
      BY <3>1 DEF Forgotten
  <2>4. \A k \in DOMAIN monitors :
          monitors[k].obj \in stranded => monitors[k].obj \in stranded'
    BY <1>4, <2>3 DEF ReceiveFreeze
  <2>5. WaitingHasRequest'
    BY <1>0, <2>2, <2>4, WaitsKept
  <2>6. \A o : o \notin stranded' => Once(monitors', o)
    BY <1>0, <2>1, <2>4 DEF LoadInv, Once
  <2>7. ASSUME agent' # "up"
        PROVE  /\ \A i \in DOMAIN monitors' : monitors'[i].obj \in stranded'
               /\ ToSet(receiver'.todo) \subseteq stranded'
    BY <1>0, <1>4, <2>1, <2>7 DEF ReceiveFreeze, LoadInv
  <2> QED
    BY <2>5, <2>6, <2>7 DEF LoadInv
<1>5. ASSUME quiet, UNCHANGED <<agent, receiver>>, RequestsKept,
             stranded \subseteq stranded'
      PROVE  LoadInv' /\ WaitingHasRequest'
  <2>1. WaitingHasRequest'
    BY <1>0, <1>2, <1>5, WaitsKept
  <2> QED
    BY <1>0, <1>5, <2>1 DEF LoadInv, Once
<1>6. ASSUME NEW t \in ClientTargets, ReceiveUnfreeze(t)
      PROVE  LoadInv' /\ WaitingHasRequest'
  <2>1. quiet /\ UNCHANGED <<agent, receiver>> /\ stranded \subseteq stranded'
    BY <1>6 DEF ReceiveUnfreeze, monitorVars, threadVars
  <2> QED
    BY <1>0, <1>5, <1>6, <2>1, QueueReceiveUnfreeze
<1>7. CASE SaveObject
  <2>1. same /\ receiver'.todo = receiver.todo
    BY <1>0, <1>7 DEF SaveObject, historyVars, ThreadTypes, Thread
  <2> QED
    BY <1>0, <1>1, <1>3, <1>7, <2>1, ListSave, QueueReceiver
<1>8. CASE AddObject
  <2>1. same /\ receiver'.todo = Tail(receiver.todo) /\ receiver.todo # <<>>
        /\ receiver.todo \in Seq(Objects)
    BY <1>0, <1>8 DEF AddObject, historyVars, ThreadTypes, Thread
  <2>2. todo
    BY <2>1, HeadTailHolds
  <2> QED
    BY <1>0, <1>1, <1>8, <2>1, <2>2, ListAdd, QueueReceiver
<1>9. CASE PushFreeze
  <2>1. quiet /\ same /\ receiver' = Idle
    BY <1>9 DEF PushFreeze, monitorVars, historyVars
  <2>2. todo
    BY <2>1, IdleType
  <2> QED
    BY <1>0, <1>1, <1>2, <1>9, <2>1, <2>2, QueuePushFreeze
<1>10. CASE Dispatch
  <2>1. UNCHANGED threadVars /\ quiet /\ same
    BY <1>10 DEF Dispatch, monitorVars, historyVars
  <2>2. RequestsKept
    BY <1>0, <1>10, <2>1, QueuePopReq, QueuePushMsgToWorker, QueuePopRequest,
       QueueRespond DEF Dispatch
  <2> QED
    BY <1>5, <2>1, <2>2 DEF threadVars
<1>11. CASE \E w \in Workers : Invoke(w)
  <2>1. PICK w \in Workers : Invoke(w)
    BY <1>11
  <2>2. RequestsKept
    BY <1>0, <2>1, QueueInvoke DEF ClientTypes
  <2>3. quiet /\ UNCHANGED threadVars /\ same
    BY <2>1 DEF Invoke, monitorVars, historyVars
  <2> QED
    BY <1>5, <2>2, <2>3 DEF threadVars
<1>12. CASE PopRspMsgQueue
  <2>1. quiet /\ UNCHANGED receiver /\ same
    BY <1>12 DEF PopRspMsgQueue, monitorVars, historyVars
  <2> QED
    BY <1>0, <1>5, <1>12, <2>1, QueuePopRsp
<1>13. CASE UpdateSingleFreezeOper
  <2>1. UNCHANGED receiver /\ same
    BY <1>13 DEF UpdateSingleFreezeOper, historyVars
  <2> QED
    BY <1>0, <1>1, <1>13, <2>1, ListUpdate, QueueUpdate
<1>14. CASE Send
  <2>1. quiet /\ UNCHANGED receiver /\ same
    BY <1>14 DEF Send, monitorVars, historyVars
  <2>2. RequestsKept
    BY <1>0, <1>14, QueueSend DEF SenderInv
  <2> QED
    BY <1>5, <2>1, <2>2
<1>15. CASE BeginPass \/ ResponsesDone \/ EndPass
  <2>1. /\ UNCHANGED <<dispatchVars, receiver, sender>> /\ quiet /\ same
        /\ pass' \in {"sleep", "responses", "objects"}
    BY <1>15 DEF BeginPass, ResponsesDone, EndPass, monitorVars, historyVars
  <2>2. RequestsKept
    BY <1>0, <2>1, QueueUnchanged
  <2> QED
    BY <1>5, <2>1, <2>2
<1>16. CASE ProcessInternalRsp
  <2>1. UNCHANGED receiver /\ same
    BY <1>16 DEF ProcessInternalRsp, threadVars, historyVars
  <2>2. ListStep
    BY <1>0, <1>16, ListInternalRsp
  <2>3. \A o : o \notin stranded' => Once(monitors', o)
    BY <1>0, <2>1, <2>2 DEF ListStep, OnceKept, LoadInv
  <2>4. ASSUME agent' # "up"
        PROVE  /\ \A i \in DOMAIN monitors' : monitors'[i].obj \in stranded'
               /\ ToSet(receiver'.todo) \subseteq stranded'
    BY <1>0, <2>1, <2>2, <2>4 DEF ListStep, LoadInv
  <2>5. WaitingHasRequest'
    BY <1>0, <1>16, WaitsAnswered
  <2> QED
    BY <2>3, <2>4, <2>5 DEF LoadInv
<1>17. CASE DropInternalRsp
  <2> DEFINE r == rspQueue[FirstResponse(TRUE)]
  <2>1. /\ quiet /\ UNCHANGED <<agent, receiver>>
        /\ stranded' = stranded \cup ToSet(r.target)
    BY <1>17 DEF DropInternalRsp, monitorVars, threadVars
  <2>2. UnderWay \subseteq UnderWay' \cup {r}
    BY <1>0, <1>17, QueueInternalRsp
  <2> HIDE DEF r
  <2>3. WaitingHasRequest'
    <3> SUFFICES ASSUME NEW j \in DOMAIN monitors',
                        monitors'[j].status # "FREEZED",
                        monitors'[j].obj \notin stranded'
                 PROVE  \E n \in UnderWay' :
                          /\ n.internal
                          /\ n.target = <<monitors'[j].obj>>
                          /\ n.kind = IF monitors'[j].status = "UNFREEZING"
                                        THEN "unfreeze" ELSE "query"
      BY DEF WaitingHasRequest
    <3>1. /\ j \in DOMAIN monitors /\ monitors'[j] = monitors[j]
          /\ monitors[j].obj \notin stranded
          /\ monitors[j].obj \notin ToSet(r.target)
      BY <2>1
    <3>2. PICK m \in UnderWay :
               /\ m.internal
               /\ m.target = <<monitors[j].obj>>
               /\ m.kind = IF monitors[j].status = "UNFREEZING"
                             THEN "unfreeze" ELSE "query"
      BY <1>0, <3>1 DEF WaitingHasRequest
    <3>3. monitors[j].obj \in ToSet(m.target)
      BY <3>2 DEF ToSet
    <3>4. m # r
      BY <3>1, <3>3
    <3> QED
      BY <2>2, <3>1, <3>2, <3>4
  <2> QED
    BY <1>0, <2>1, <2>3 DEF LoadInv, Once
<1>18. CASE HandleNextObject
  <2>1. UNCHANGED receiver /\ same
    BY <1>18 DEF HandleNextObject, threadVars
  <2> QED
    BY <1>0, <1>1, <1>18, <2>1, ListNextObject, QueueNextObject
<1>19. CASE Crash
  <2>1. monitors' = <<>> /\ receiver' = Idle /\ DOMAIN monitors' = {}
    BY <1>19 DEF Crash
  <2>2. ToSet(receiver'.todo) = {}
    BY <2>1, IdleType DEF ToSet
  <2> QED
    BY <2>1, <2>2 DEF LoadInv, Once, WaitingHasRequest
<1>20. CASE Start
  <2>1. /\ agent = "down" /\ stranded' = stranded
        /\ UNCHANGED <<dispatchVars, receiver, sender, pass, monitors, table>>
    BY <1>20 DEF Start, threadVars, monitorVars, historyVars
  <2>2. RequestsKept
    BY <1>0, <2>1, QueueUnchanged DEF ThreadTypes
  <2> QED
    BY <1>1, <1>2, <2>1, <2>2
<1>21. CASE LoadObjects
  <2>1. /\ UNCHANGED <<dispatchVars, receiver, sender, pass, table, stranded>>
        /\ LoadFromDB /\ agent = "starting" /\ agent' = "up"
    BY <1>0, <1>21 DEF LoadObjects, threadVars, historyVars
  <2>2. \A i \in DOMAIN monitors : monitors[i].obj \in stranded
    BY <1>0, <2>1 DEF LoadInv
  <2>3. \A o : o \notin stranded => Once(monitors', o)
    BY <1>0, <2>1, <2>2, RowsLoaded
  <2>4. \A j \in DOMAIN monitors' :
          \/ monitors'[j].status = "FREEZED"
          \/ \E k \in DOMAIN monitors : monitors'[j] = monitors[k]
    BY <1>0, <2>1, RowsLoaded
  <2>5. \A j \in DOMAIN monitors' :
          monitors'[j].status = "FREEZED" \/ monitors'[j].obj \in stranded'
    BY <2>1, <2>2, <2>4
  <2> QED
    BY <2>1, <2>3, <2>5 DEF LoadInv, WaitingHasRequest
<1>22. CASE Tick
  <2>1. same /\ receiver'.todo = receiver.todo
    BY <1>0, <1>22, QueueTick DEF Tick
  <2> QED
    BY <1>0, <1>1, <1>22, <2>1, ListTick, QueueTick
<1>23. CASE UNCHANGED vars
  <2>1. /\ UNCHANGED <<dispatchVars, receiver, sender, pass>> /\ quiet /\ same
    BY <1>23 DEF vars, threadVars, monitorVars, historyVars
  <2>2. RequestsKept
    BY <1>0, <2>1, QueueUnchanged DEF ThreadTypes
  <2> QED
    BY <1>5, <2>1, <2>2
<1> QED
  BY <1>4, <1>6, <1>7, <1>8, <1>9, <1>10, <1>11, <1>12, <1>13, <1>14, <1>15,
     <1>16, <1>17, <1>18, <1>19, <1>20, <1>21, <1>22, <1>23
     DEF Next, Client, Receiver, Sender, Monitor

(***************************************************************************)
(* An object in GETSTATUSING or UNFREEZING always has the query or the     *)
(* unfreeze that ends the wait under way, for any objects, clients,        *)
(* workers, delays, failing calls, crashes and requests served before      *)
(* FreezeObjTable has been loaded: no object is left waiting for ever in   *)
(* the list, but for those asked for before that load and those whose      *)
(* answer could not be read (FTExceptionHandle.cpp:141-152).               *)
(***************************************************************************)
THEOREM NoWaitForgotten == Spec => []WaitingHasRequest
<1>1. Init => AgentInv
  BY InitInv
<1>2. AgentInv /\ [Next]_vars => AgentInv'
  BY TypesStep, WaitsStep DEF AgentInv
<1>3. AgentInv => WaitingHasRequest
  BY DEF AgentInv
<1> QED
  BY <1>1, <1>2, <1>3, PTL DEF Spec

-----------------------------------------------------------------------------
(***************************************************************************)
(* outstanding counts the client requests under way: a place is a queue    *)
(* and a position in it that holds a client's message.                     *)
(***************************************************************************)
Places(Q) ==
    {p \in (DOMAIN Q) \X Nat :
        p[2] \in 1 .. Len(Q[p[1]]) /\ ~Q[p[1]][p[2]].internal}

Count(Q, n) == IsFiniteSet(Places(Q)) /\ Cardinality(Places(Q)) = n

LEMMA SamePairs ==
    ASSUME NEW K, NEW S, NEW T, S \subseteq K \X Nat, T \subseteq K \X Nat,
           \A k \in K : \A i \in Nat : <<k, i>> \in S <=> <<k, i>> \in T
    PROVE  S = T
<1>1. ASSUME NEW p \in K \X Nat
      PROVE  p \in S <=> p \in T
  <2>1. PICK k \in K, i \in Nat : p = <<k, i>>
    OBVIOUS
  <2> QED
    BY <2>1
<1> QED
  BY <1>1

\* The queues P are Q after m has joined queue k, or after the message at
\* position i has left it.
Pushed(K, Q, P, k, m) ==
    /\ Q \in [K -> Seq(Message)] /\ P \in [K -> Seq(Message)]
    /\ k \in K /\ m \in Message
    /\ P[k] = Append(Q[k], m)
    /\ \A j \in K \ {k} : P[j] = Q[j]

Taken(K, Q, P, k, i) ==
    /\ Q \in [K -> Seq(Message)] /\ P \in [K -> Seq(Message)]
    /\ k \in K /\ i \in 1 .. Len(Q[k])
    /\ P[k] = RemoveAt(Q[k], i)
    /\ \A j \in K \ {k} : P[j] = Q[j]

LEMMA PushCounts ==
    ASSUME NEW K, NEW Q, NEW P, NEW k, NEW m, Pushed(K, Q, P, k, m),
           NEW n, Count(Q, n)
    PROVE  /\ m.internal => Count(P, n)
           /\ ~m.internal => Count(P, n + 1)
<1> USE DEF Pushed
<1> DEFINE l == Len(Q[k])
           x == <<k, l + 1>>
<1>1. /\ Q[k] \in Seq(Message) /\ l \in Nat /\ Len(P[k]) = l + 1
      /\ \A i \in 1 .. l : P[k][i] = Q[k][i]
      /\ P[k][l + 1] = m
  BY AppendHolds, LenProperties
<1>2. x \notin Places(Q)
  BY <1>1 DEF Places
<1>3. CASE m.internal
  <2>1. Places(P) = Places(Q)
    <3>1. ASSUME NEW j \in K, NEW i \in Nat
          PROVE  <<j, i>> \in Places(P) <=> <<j, i>> \in Places(Q)
      <4>1. CASE j = k
        BY <1>1, <1>3, <4>1 DEF Places
      <4>2. CASE j # k
        BY <4>2 DEF Places
      <4> QED
        BY <4>1, <4>2
    <3>2. Places(P) \subseteq K \X Nat /\ Places(Q) \subseteq K \X Nat
      BY DEF Places
    <3> QED
      BY <3>1, <3>2, SamePairs
  <2> QED
    BY <1>3, <2>1 DEF Count
<1>4. CASE ~m.internal
  <2>1. Places(P) = Places(Q) \cup {x}
    <3>1. ASSUME NEW j \in K, NEW i \in Nat
          PROVE  <<j, i>> \in Places(P) <=> <<j, i>> \in Places(Q) \cup {x}
      <4>1. CASE j = k
        BY <1>1, <1>4, <4>1 DEF Places
      <4>2. CASE j # k
        BY <4>2 DEF Places
      <4> QED
        BY <4>1, <4>2
    <3> DEFINE T == Places(Q) \cup {x}
    <3>2. Places(P) \subseteq K \X Nat /\ T \subseteq K \X Nat
      BY <1>1 DEF Places
    <3>3. \A j \in K : \A i \in Nat : <<j, i>> \in Places(P) <=> <<j, i>> \in T
      BY <3>1
    <3> HIDE DEF T
    <3>4. Places(P) = T
      BY <3>2, <3>3, SamePairs
    <3> QED
      BY <3>4 DEF T
  <2> HIDE DEF x
  <2>2. IsFiniteSet(Places(P)) /\ Cardinality(Places(P)) = Cardinality(Places(Q)) + 1
    BY <1>2, <2>1, FS_AddElement DEF Count
  <2> QED
    BY <1>4, <2>2 DEF Count
<1> QED
  BY <1>3, <1>4

LEMMA TakeCounts ==
    ASSUME NEW K, NEW Q, NEW P, NEW k, NEW i, Taken(K, Q, P, k, i),
           NEW n, Count(Q, n)
    PROVE  /\ Q[k][i].internal => Count(P, n)
           /\ ~Q[k][i].internal => Count(P, n - 1)
<1> USE DEF Taken
<1> DEFINE l == Len(Q[k])
           x == <<k, i>>
           R == Places(Q) \ {x}
           Shift(j, a) == IF j = k /\ a > i THEN a - 1 ELSE a
           f == [p \in R |-> <<p[1], Shift(p[1], p[2])>>]
<1>1. /\ Q[k] \in Seq(Message) /\ l \in Nat /\ Len(P[k]) = l - 1
      /\ \A j \in 1 .. l - 1 : P[k][j] = IF j < i THEN Q[k][j] ELSE Q[k][j + 1]
      /\ i \in Nat \ {0} /\ i <= l
  <2>1. Q[k] \in Seq(Message) /\ i \in 1 .. Len(Q[k])
    OBVIOUS
  <2>2. l \in Nat
    BY <2>1, LenProperties
  <2>3. /\ Len(RemoveAt(Q[k], i)) = l - 1
        /\ \A j \in 1 .. l - 1 :
             RemoveAt(Q[k], i)[j] = IF j < i THEN Q[k][j] ELSE Q[k][j + 1]
    BY <2>1, RemoveAtHolds
  <2> QED
    BY <2>1, <2>2, <2>3
<1>2. ASSUME NEW p \in R
      PROVE  \E j \in K, a \in Nat :
                /\ p = <<j, a>> /\ a \in 1 .. Len(Q[j]) /\ ~Q[j][a].internal
                /\ j # k \/ a # i
                /\ f[p] = <<j, Shift(j, a)>>
  <2>1. PICK j \in K, a \in Nat : p = <<j, a>>
    BY DEF Places
  <2>2. a \in 1 .. Len(Q[j]) /\ ~Q[j][a].internal /\ (j # k \/ a # i)
    BY <2>1 DEF Places
  <2>3. f[p] = <<j, Shift(j, a)>>
    BY <2>1
  <2> QED
    BY <2>1, <2>2, <2>3
<1>3. f \in [R -> Places(P)]
  <2>1. ASSUME NEW p \in R
        PROVE  f[p] \in Places(P)
    <3>1. PICK j \in K, a \in Nat :
                /\ p = <<j, a>> /\ a \in 1 .. Len(Q[j]) /\ ~Q[j][a].internal
                /\ j # k \/ a # i
                /\ f[p] = <<j, Shift(j, a)>>
      BY <1>2
    <3> DEFINE b == Shift(j, a)
    <3>2. b \in Nat /\ b \in 1 .. Len(P[j]) /\ P[j][b] = Q[j][a]
      <4>1. CASE j = k /\ a > i
        <5>1. b = a - 1 /\ b \in 1 .. l - 1 /\ ~(b < i) /\ b + 1 = a
          BY <1>1, <3>1, <4>1
        <5> QED
          BY <1>1, <4>1, <5>1
      <4>2. CASE j = k /\ ~(a > i)
        <5>1. b = a /\ b \in 1 .. l - 1 /\ b < i
          BY <1>1, <3>1, <4>2
        <5> QED
          BY <1>1, <4>2, <5>1
      <4>3. CASE j # k
        BY <3>1, <4>3
      <4> QED
        BY <4>1, <4>2, <4>3
    <3> HIDE DEF b
    <3>3. <<j, b>> \in Places(P)
      BY <3>1, <3>2 DEF Places
    <3> QED
      BY <3>1, <3>3 DEF b
  <2> QED
    BY <2>1
<1>4. ASSUME NEW p \in R, NEW q \in R, f[p] = f[q]
      PROVE  p = q
  <2>1. PICK j1 \in K, a1 \in Nat :
            /\ p = <<j1, a1>> /\ (j1 # k \/ a1 # i)
            /\ f[p] = <<j1, Shift(j1, a1)>>
    BY <1>2
  <2>2. PICK j2 \in K, a2 \in Nat :
            /\ q = <<j2, a2>> /\ (j2 # k \/ a2 # i)
            /\ f[q] = <<j2, Shift(j2, a2)>>
    BY <1>2
  <2>3. j1 = j2 /\ Shift(j1, a1) = Shift(j2, a2)
    <3>1. <<j1, Shift(j1, a1)>> = <<j2, Shift(j2, a2)>>
      BY <1>4, <2>1, <2>2
    <3> HIDE DEF Shift
    <3> QED
      BY <3>1
  <2>4. a1 = a2
    BY <1>1, <2>1, <2>2, <2>3
  <2>5. p = <<j1, a1>> /\ q = <<j2, a2>>
    BY <2>1, <2>2
  <2>6. j1 = j2
    BY <2>3
  <2> QED
    BY <2>4, <2>5, <2>6, Zenon
<1>5. ASSUME NEW q \in Places(P)
      PROVE  \E p \in R : f[p] = q
  <2>0. PICK j \in K, b \in Nat : q = <<j, b>>
    BY DEF Places
  <2>1. b \in 1 .. Len(P[j]) /\ ~P[j][b].internal
    BY <2>0 DEF Places
  <2> DEFINE a == IF j = k /\ b >= i THEN b + 1 ELSE b
  <2>2. a \in Nat /\ a \in 1 .. Len(Q[j]) /\ P[j][b] = Q[j][a]
        /\ (j # k \/ a # i) /\ Shift(j, a) = b
    <3>1. CASE j = k /\ b >= i
      <4>1. a = b + 1 /\ b \in 1 .. l - 1 /\ ~(b < i) /\ a \in 1 .. l /\ a > i
        BY <1>1, <2>1, <3>1
      <4> QED
        BY <1>1, <3>1, <4>1
    <3>2. CASE j = k /\ ~(b >= i)
      <4>1. a = b /\ b \in 1 .. l - 1 /\ b < i /\ a \in 1 .. l
        BY <1>1, <2>1, <3>2
      <4> QED
        BY <1>1, <3>2, <4>1
    <3>3. CASE j # k
      BY <2>1, <3>3
    <3> QED
      BY <3>1, <3>2, <3>3
  <2> HIDE DEF a
  <2>3. <<j, a>> \in R
    BY <2>1, <2>2 DEF Places
  <2>4. f[<<j, a>>] = q
    BY <2>0, <2>2, <2>3
  <2> QED
    BY <2>3, <2>4
<1>6. IsFiniteSet(R)
      /\ Cardinality(R) = IF x \in Places(Q) THEN n - 1 ELSE n
  BY FS_RemoveElement DEF Count
<1>7. x \in Places(Q) <=> ~Q[k][i].internal
  BY <1>1 DEF Places
<1> HIDE DEF R, f, x
<1>8. f \in Bijection(R, Places(P))
  <2>1. f \in Injection(R, Places(P))
    BY <1>3, <1>4 DEF Injection, IsInjective
  <2>2. f \in Surjection(R, Places(P))
    BY <1>3, <1>5 DEF Surjection
  <2> QED
    BY <2>1, <2>2 DEF Bijection
<1>9. IsFiniteSet(Places(P)) /\ Cardinality(Places(P)) = Cardinality(R)
  BY <1>6, <1>8, FS_Bijection DEF ExistsBijection
<1> QED
  BY <1>6, <1>7, <1>9 DEF Count

Alike(K, Q, P) ==
    /\ Q \in [K -> Seq(Message)] /\ P \in [K -> Seq(Message)]
    /\ \A k \in K : /\ Len(P[k]) = Len(Q[k])
                    /\ \A i \in DOMAIN Q[k] :
                         P[k][i].internal = Q[k][i].internal

LEMMA SameCounts ==
    ASSUME NEW K, NEW Q, NEW P, Alike(K, Q, P), NEW n, Count(Q, n)
    PROVE  Count(P, n)
<1> USE DEF Alike
<1>1. ASSUME NEW k \in K, NEW i \in Nat
      PROVE  <<k, i>> \in Places(P) <=> <<k, i>> \in Places(Q)
  <2>1. DOMAIN Q[k] = 1 .. Len(Q[k])
    BY LenProperties
  <2> QED
    BY <2>1 DEF Places
<1>2. Places(P) \subseteq K \X Nat /\ Places(Q) \subseteq K \X Nat
  BY DEF Places
<1>3. Places(P) = Places(Q)
  BY <1>1, <1>2, SamePairs
<1> QED
  BY <1>3 DEF Count

(***************************************************************************)
(* The queues of the agent as one function.                                *)
(***************************************************************************)
Slots ==
    ({"reqQueue", "dispatching", "rspQueue", "receiver", "sender"} \X {0})
      \cup ({"queue", "current"} \X Workers)

QueuesOf(req, disp, rsp, recv, send, ws) ==
    [k \in Slots |->
        CASE k[1] = "reqQueue"    -> req
          [] k[1] = "dispatching" -> disp
          [] k[1] = "rspQueue"    -> rsp
          [] k[1] = "receiver"    -> recv
          [] k[1] = "sender"      -> send
          [] k[1] = "queue"       -> ws[k[2]].queue
          [] k[1] = "current"     -> ws[k[2]].current]

Queues ==
    QueuesOf(reqQueue, dispatching, rspQueue, receiver.msgs, sender.msgs,
             workers)

RequestSlot  == <<"reqQueue", 0>>
DispatchSlot == <<"dispatching", 0>>
ResponseSlot == <<"rspQueue", 0>>
ReceiverSlot == <<"receiver", 0>>
SenderSlot   == <<"sender", 0>>
QueueSlot(w) == <<"queue", w>>
CurrentSlot(w) == <<"current", w>>

Holds(Q, req, disp, rsp, recv, send, ws) ==
    /\ DOMAIN Q = Slots
    /\ Q[RequestSlot] = req /\ Q[DispatchSlot] = disp
    /\ Q[ResponseSlot] = rsp /\ Q[ReceiverSlot] = recv /\ Q[SenderSlot] = send
    /\ \A w \in Workers : /\ Q[QueueSlot(w)] = ws[w].queue
                          /\ Q[CurrentSlot(w)] = ws[w].current

LEMMA SlotsAre ==
    /\ RequestSlot \in Slots /\ DispatchSlot \in Slots /\ ResponseSlot \in Slots
    /\ ReceiverSlot \in Slots /\ SenderSlot \in Slots
    /\ \A w \in Workers : QueueSlot(w) \in Slots /\ CurrentSlot(w) \in Slots
    /\ \A k \in Slots :
         \/ k \in {RequestSlot, DispatchSlot, ResponseSlot, ReceiverSlot,
                   SenderSlot}
         \/ \E w \in Workers : k = QueueSlot(w) \/ k = CurrentSlot(w)
  BY DEF Slots, RequestSlot, DispatchSlot, ResponseSlot, ReceiverSlot,
         SenderSlot, QueueSlot, CurrentSlot

LEMMA SlotsDiffer ==
    /\ RequestSlot # DispatchSlot /\ RequestSlot # ResponseSlot
    /\ RequestSlot # ReceiverSlot /\ RequestSlot # SenderSlot
    /\ DispatchSlot # ResponseSlot /\ DispatchSlot # ReceiverSlot
    /\ DispatchSlot # SenderSlot /\ ResponseSlot # ReceiverSlot
    /\ ResponseSlot # SenderSlot /\ ReceiverSlot # SenderSlot
    /\ \A w :
         /\ QueueSlot(w) \notin {RequestSlot, DispatchSlot, ResponseSlot,
                                 ReceiverSlot, SenderSlot}
         /\ CurrentSlot(w) \notin {RequestSlot, DispatchSlot, ResponseSlot,
                                   ReceiverSlot, SenderSlot}
    /\ \A v, w : /\ QueueSlot(v) # CurrentSlot(w)
                 /\ QueueSlot(v) = QueueSlot(w) => v = w
                 /\ CurrentSlot(v) = CurrentSlot(w) => v = w
  BY DEF RequestSlot, DispatchSlot, ResponseSlot, ReceiverSlot, SenderSlot,
         QueueSlot, CurrentSlot

LEMMA QueuesHold ==
    ASSUME NEW req, NEW disp, NEW rsp, NEW recv, NEW send, NEW ws,
           NEW Q, Q = QueuesOf(req, disp, rsp, recv, send, ws)
    PROVE  Holds(Q, req, disp, rsp, recv, send, ws)
<1>1. DOMAIN Q = Slots
  BY DEF QueuesOf
<1>2. /\ Q[RequestSlot] = req /\ Q[DispatchSlot] = disp
      /\ Q[ResponseSlot] = rsp /\ Q[ReceiverSlot] = recv /\ Q[SenderSlot] = send
  BY SlotsAre DEF QueuesOf, RequestSlot, DispatchSlot, ResponseSlot,
                  ReceiverSlot, SenderSlot
<1>3. ASSUME NEW w \in Workers
      PROVE  Q[QueueSlot(w)] = ws[w].queue /\ Q[CurrentSlot(w)] = ws[w].current
  BY SlotsAre DEF QueuesOf, QueueSlot, CurrentSlot
<1> QED
  BY <1>1, <1>2, <1>3 DEF Holds

LEMMA QueuesType ==
    ASSUME NEW req \in Seq(Message), NEW disp \in Seq(Message),
           NEW rsp \in Seq(Message), NEW recv \in Seq(Message),
           NEW send \in Seq(Message), NEW ws \in [Workers -> Worker],
           NEW Q, Q = QueuesOf(req, disp, rsp, recv, send, ws)
    PROVE  /\ Holds(Q, req, disp, rsp, recv, send, ws)
           /\ Q \in [Slots -> Seq(Message)]
<1>1. Holds(Q, req, disp, rsp, recv, send, ws)
  BY QueuesHold
<1>2. \A w \in Workers : /\ ws[w].queue \in Seq(Message)
                         /\ ws[w].current \in Seq(Message)
  BY DEF Worker
<1>3. ASSUME NEW k \in Slots
      PROVE  Q[k] \in Seq(Message)
  <2>1. CASE k \in {RequestSlot, DispatchSlot, ResponseSlot, ReceiverSlot,
                    SenderSlot}
    BY <1>1, <2>1 DEF Holds
  <2>2. CASE \E w \in Workers : k = QueueSlot(w) \/ k = CurrentSlot(w)
    BY <1>1, <1>2, <2>2 DEF Holds
  <2> QED
    BY <2>1, <2>2, SlotsAre
<1>4. Q \in [Slots -> Seq(Message)]
  <2> DEFINE F(k) ==
        CASE k[1] = "reqQueue"    -> req
          [] k[1] = "dispatching" -> disp
          [] k[1] = "rspQueue"    -> rsp
          [] k[1] = "receiver"    -> recv
          [] k[1] = "sender"      -> send
          [] k[1] = "queue"       -> ws[k[2]].queue
          [] k[1] = "current"     -> ws[k[2]].current
  <2>1. Q = [k \in Slots |-> F(k)]
    BY DEF QueuesOf
  <2> HIDE DEF F
  <2> QED
    BY <1>3, <2>1
<1> QED
  BY <1>1, <1>4

(***************************************************************************)
(* A message that moves from one queue to another keeps the count.         *)
(***************************************************************************)
LEMMA MoveCounts ==
    ASSUME NEW K, NEW Q, NEW R, NEW P, NEW a, NEW b, NEW i, NEW m,
           Taken(K, Q, R, a, i), Pushed(K, R, P, b, m),
           m.internal = Q[a][i].internal, NEW n, Count(Q, n)
    PROVE  Count(P, n)
<1>1. n \in Nat
  BY FS_CardinalityType DEF Count
<1>2. CASE m.internal
  <2>1. Count(R, n)
    BY <1>2, TakeCounts
  <2> QED
    BY <1>2, <2>1, PushCounts
<1>3. CASE ~m.internal
  <2>1. Count(R, n - 1)
    BY <1>3, TakeCounts
  <2>2. Count(P, (n - 1) + 1)
    BY <1>3, <2>1, PushCounts
  <2>3. (n - 1) + 1 = n
    BY <1>1
  <2> QED
    BY <2>2, <2>3
<1> QED
  BY <1>2, <1>3

\* Taking the head is taking the first.
LEMMA TailIsRemoveAt ==
    ASSUME NEW T, NEW s \in Seq(T), s # <<>>
    PROVE  Tail(s) = RemoveAt(s, 1) /\ 1 \in 1 .. Len(s) /\ Head(s) = s[1]
<1>1. 1 \in 1 .. Len(s) /\ Head(s) = s[1] /\ Len(s) \in Nat
  BY LenProperties, EmptySeq
<1>2. /\ RemoveAt(s, 1) \in Seq(T) /\ Len(RemoveAt(s, 1)) = Len(s) - 1
      /\ \A j \in 1 .. Len(s) - 1 : RemoveAt(s, 1)[j] = s[j + 1]
  <2>1. /\ RemoveAt(s, 1) \in Seq(T) /\ Len(RemoveAt(s, 1)) = Len(s) - 1
        /\ \A j \in 1 .. Len(s) - 1 :
             RemoveAt(s, 1)[j] = IF j < 1 THEN s[j] ELSE s[j + 1]
    BY <1>1, RemoveAtHolds
  <2> QED
    BY <1>1, <2>1
<1>3. /\ Tail(s) \in Seq(T) /\ Len(Tail(s)) = Len(s) - 1
      /\ \A j \in 1 .. Len(s) - 1 : Tail(s)[j] = s[j + 1]
  <2>1. /\ Tail(s) \in Seq(T) /\ Len(Tail(s)) = Len(s) - 1
        /\ \A j \in 1 .. Len(Tail(s)) : Tail(s)[j] = s[j + 1]
    BY HeadTailProperties
  <2> QED
    BY <2>1
<1>4. Tail(s) = RemoveAt(s, 1)
  BY <1>1, <1>2, <1>3, SeqEqual
<1> QED
  BY <1>1, <1>4

LEMMA OnlyIsRemoveAt ==
    ASSUME NEW T, NEW s \in Seq(T), s # <<>>, Len(s) <= 1
    PROVE  <<>> = RemoveAt(s, 1) /\ 1 \in 1 .. Len(s) /\ Head(s) = s[1]
<1>1. Len(s) = 1
  BY AtMostOneHolds
<1>2. Tail(s) \in Seq(T) /\ Len(Tail(s)) = 0
  BY <1>1, HeadTailHolds
<1>3. Tail(s) = <<>>
  BY <1>2, EmptySeq
<1> QED
  BY <1>3, TailIsRemoveAt

LEMMA OnlyIsAppend ==
    ASSUME NEW m
    PROVE  <<m>> = Append(<<>>, m)
  OBVIOUS

Moved(K, Q, P, a, b, i, m) ==
    /\ Q \in [K -> Seq(Message)] /\ P \in [K -> Seq(Message)]
    /\ a \in K /\ b \in K /\ a # b /\ i \in 1 .. Len(Q[a]) /\ m \in Message
    /\ m.internal = Q[a][i].internal
    /\ P[a] = RemoveAt(Q[a], i)
    /\ P[b] = Append(Q[b], m)
    /\ \A j \in K \ {a, b} : P[j] = Q[j]

LEMMA MovedCounts ==
    ASSUME NEW K, NEW Q, NEW P, NEW a, NEW b, NEW i, NEW m,
           Moved(K, Q, P, a, b, i, m), NEW n, Count(Q, n)
    PROVE  Count(P, n)
<1> DEFINE R == [Q EXCEPT ![a] = RemoveAt(Q[a], i)]
<1>1. Q[a] \in Seq(Message) /\ RemoveAt(Q[a], i) \in Seq(Message)
  BY RemoveAtHolds DEF Moved
<1>2. /\ R \in [K -> Seq(Message)]
      /\ R[a] = RemoveAt(Q[a], i)
      /\ \A k \in K \ {a} : R[k] = Q[k]
  BY <1>1 DEF Moved
<1> HIDE DEF R
<1>3. Taken(K, Q, R, a, i) /\ Pushed(K, R, P, b, m)
  BY <1>2 DEF Taken, Pushed, Moved
<1> QED
  BY <1>3, MoveCounts DEF Moved

\* The slots before and after a step.
LEMMA QueuesBoth ==
    ASSUME QueueTypes, QueueTypes', NEW Q, NEW P, Q = Queues, P = Queues'
    PROVE  /\ Holds(Q, reqQueue, dispatching, rspQueue, receiver.msgs,
                    sender.msgs, workers)
           /\ Holds(P, reqQueue', dispatching', rspQueue', receiver'.msgs,
                    sender'.msgs, workers')
           /\ Q \in [Slots -> Seq(Message)] /\ P \in [Slots -> Seq(Message)]
<1>1. /\ reqQueue \in Seq(Message) /\ dispatching \in Seq(Message)
      /\ rspQueue \in Seq(Message) /\ receiver.msgs \in Seq(Message)
      /\ sender.msgs \in Seq(Message) /\ workers \in [Workers -> Worker]
  BY DEF QueueTypes, DispatchTypeOK, ThreadTypes, Thread
<1>2. /\ reqQueue' \in Seq(Message) /\ dispatching' \in Seq(Message)
      /\ rspQueue' \in Seq(Message) /\ receiver'.msgs \in Seq(Message)
      /\ sender'.msgs \in Seq(Message) /\ workers' \in [Workers -> Worker]
  BY DEF QueueTypes, DispatchTypeOK, ThreadTypes, Thread
<1>3. /\ Q = QueuesOf(reqQueue, dispatching, rspQueue, receiver.msgs,
                      sender.msgs, workers)
      /\ P = QueuesOf(reqQueue', dispatching', rspQueue', receiver'.msgs,
                      sender'.msgs, workers')
  BY DEF Queues
<1>4. /\ Holds(Q, reqQueue, dispatching, rspQueue, receiver.msgs,
                    sender.msgs, workers)
      /\ Q \in [Slots -> Seq(Message)]
  BY <1>1, <1>3, QueuesType
<1>5. /\ Holds(P, reqQueue', dispatching', rspQueue', receiver'.msgs,
                    sender'.msgs, workers')
      /\ P \in [Slots -> Seq(Message)]
  BY <1>2, <1>3, QueuesType
<1> QED
  BY <1>4, <1>5

\* What a step leaves as it is.
Untouched(j) ==
    /\ j = RequestSlot => reqQueue' = reqQueue
    /\ j = DispatchSlot => dispatching' = dispatching
    /\ j = ResponseSlot => rspQueue' = rspQueue
    /\ j = ReceiverSlot => receiver'.msgs = receiver.msgs
    /\ j = SenderSlot => sender'.msgs = sender.msgs
    /\ \A w \in Workers :
         /\ j = QueueSlot(w) => workers'[w].queue = workers[w].queue
         /\ j = CurrentSlot(w) => workers'[w].current = workers[w].current

SlotsFacts(Q, P) ==
    /\ Holds(Q, reqQueue, dispatching, rspQueue, receiver.msgs,
             sender.msgs, workers)
    /\ Holds(P, reqQueue', dispatching', rspQueue', receiver'.msgs,
             sender'.msgs, workers')
    /\ Q \in [Slots -> Seq(Message)] /\ P \in [Slots -> Seq(Message)]
    /\ \A j \in Slots : Untouched(j) => P[j] = Q[j]

LEMMA SlotsStep ==
    ASSUME QueueTypes, QueueTypes', NEW Q, NEW P, Q = Queues, P = Queues'
    PROVE  SlotsFacts(Q, P)
<1>1. /\ Holds(Q, reqQueue, dispatching, rspQueue, receiver.msgs,
               sender.msgs, workers)
      /\ Holds(P, reqQueue', dispatching', rspQueue', receiver'.msgs,
               sender'.msgs, workers')
      /\ Q \in [Slots -> Seq(Message)] /\ P \in [Slots -> Seq(Message)]
  BY QueuesBoth
<1>2. ASSUME NEW j \in Slots, Untouched(j)
      PROVE  P[j] = Q[j]
  <2>1. CASE j \in {RequestSlot, DispatchSlot, ResponseSlot, ReceiverSlot,
                    SenderSlot}
    BY <1>1, <1>2, <2>1 DEF Holds, Untouched
  <2>2. ASSUME NEW w \in Workers, j = QueueSlot(w)
        PROVE  P[j] = Q[j]
    BY <1>1, <1>2, <2>2 DEF Holds, Untouched
  <2>3. ASSUME NEW w \in Workers, j = CurrentSlot(w)
        PROVE  P[j] = Q[j]
    BY <1>1, <1>2, <2>3 DEF Holds, Untouched
  <2> QED
    BY <2>1, <2>2, <2>3, SlotsAre
<1> QED
  BY <1>1, <1>2 DEF SlotsFacts

LEMMA CountPushFreeze ==
    ASSUME QueueTypes, QueueTypes', PushFreeze, NEW n, Count(Queues, n)
    PROVE  Count(Queues', n)
<1> DEFINE Q == Queues
           P == Queues'
           m == Head(receiver.msgs)
<1>1. SlotsFacts(Q, P)
  BY SlotsStep
<1> HIDE DEF Q, P
<1>2. /\ <<>> = RemoveAt(receiver.msgs, 1) /\ 1 \in 1 .. Len(receiver.msgs)
      /\ m = receiver.msgs[1] /\ m \in Message
  BY OnlyIsRemoveAt, AtMostOneHolds
     DEF PushFreeze, QueueTypes, ThreadTypes, Thread
<1>3. /\ reqQueue' = Append(reqQueue, m) /\ receiver'.msgs = <<>>
      /\ UNCHANGED <<dispatching, rspQueue, sender, workers>>
  BY IdleType DEF PushFreeze, PushReqMsgQueue
<1> HIDE DEF m
<1>4. \A j \in Slots \ {ReceiverSlot, RequestSlot} : Untouched(j)
  BY <1>3 DEF Untouched
<1>5. Moved(Slots, Q, P, ReceiverSlot, RequestSlot, 1, m)
  BY <1>1, <1>2, <1>3, <1>4, SlotsAre, SlotsDiffer DEF SlotsFacts, Holds, Moved
<1> QED
  BY <1>5, MovedCounts DEF Q, P

LEMMA CountPopReq ==
    ASSUME QueueTypes, QueueTypes', PopReqMsgQueue, UNCHANGED threadVars,
           NEW n, Count(Queues, n)
    PROVE  Count(Queues', n)
<1> DEFINE Q == Queues
           P == Queues'
           m == Head(reqQueue)
<1>1. SlotsFacts(Q, P)
  BY SlotsStep
<1> HIDE DEF Q, P
<1>2. /\ Tail(reqQueue) = RemoveAt(reqQueue, 1) /\ 1 \in 1 .. Len(reqQueue)
      /\ m = reqQueue[1] /\ m \in Message
  BY TailIsRemoveAt, HeadTailHolds
     DEF PopReqMsgQueue, QueueTypes, DispatchTypeOK
<1>3. /\ reqQueue' = Tail(reqQueue) /\ dispatching' = Append(dispatching, m)
      /\ UNCHANGED <<rspQueue, receiver, sender, workers>>
  BY OnlyIsAppend DEF PopReqMsgQueue, threadVars
<1> HIDE DEF m
<1>4. \A j \in Slots \ {RequestSlot, DispatchSlot} : Untouched(j)
  BY <1>3 DEF Untouched
<1>5. Moved(Slots, Q, P, RequestSlot, DispatchSlot, 1, m)
  BY <1>1, <1>2, <1>3, <1>4, SlotsAre, SlotsDiffer DEF SlotsFacts, Holds, Moved
<1> QED
  BY <1>5, MovedCounts DEF Q, P

LEMMA CountPushMsgToWorker ==
    ASSUME QueueTypes, QueueTypes', PushMsgToWorker, UNCHANGED threadVars,
           NEW n, Count(Queues, n)
    PROVE  Count(Queues', n)
<1> DEFINE Q == Queues
           P == Queues'
           m == Head(dispatching)
           w == lastPushed % WorkerCount
           a == Answered(m, "failed")
<1>1. SlotsFacts(Q, P)
  BY SlotsStep
<1>2. /\ <<>> = RemoveAt(dispatching, 1) /\ 1 \in 1 .. Len(dispatching)
      /\ m = dispatching[1] /\ m \in Message
  BY OnlyIsRemoveAt, AtMostOneHolds
     DEF PushMsgToWorker, QueueTypes, DispatchTypeOK
<1>3. w \in Workers
  BY WorkersAssumption DEF QueueTypes, DispatchTypeOK, Workers
<1>4. a \in Message /\ a.internal = m.internal
  BY <1>2, AnsweredType DEF Same
<1>5. /\ UNCHANGED <<reqQueue, receiver, sender>>
      /\ \/ /\ rspQueue' = Append(rspQueue, a)
            /\ dispatching' = <<>> /\ UNCHANGED workers
         \/ UNCHANGED <<dispatching, workers, rspQueue>>
         \/ /\ workers' = [workers EXCEPT ![w].queue =
                             Append(workers[w].queue, m)]
            /\ dispatching' = <<>> /\ UNCHANGED rspQueue
  BY DEF PushMsgToWorker, PushRspMsgQueue, threadVars
<1>6. \A v \in Workers : workers[v] \in Worker
  BY DEF QueueTypes, DispatchTypeOK
<1> HIDE DEF Q, P, m, w, a
<1>7. CASE /\ rspQueue' = Append(rspQueue, a)
           /\ dispatching' = <<>> /\ UNCHANGED workers
  <2>1. \A j \in Slots \ {DispatchSlot, ResponseSlot} : Untouched(j)
    BY <1>5, <1>7 DEF Untouched
  <2>2. Moved(Slots, Q, P, DispatchSlot, ResponseSlot, 1, a)
    BY <1>1, <1>2, <1>4, <1>7, <2>1, SlotsAre, SlotsDiffer
       DEF SlotsFacts, Holds, Moved
  <2> QED
    BY <2>2, MovedCounts DEF Q, P
<1>8. CASE UNCHANGED <<dispatching, workers, rspQueue>>
  <2>1. Queues' = Queues
    BY <1>5, <1>8 DEF Queues
  <2> QED
    BY <2>1
<1>9. CASE /\ workers' = [workers EXCEPT ![w].queue =
                             Append(workers[w].queue, m)]
           /\ dispatching' = <<>> /\ UNCHANGED rspQueue
  <2>1. /\ workers'[w].queue = Append(workers[w].queue, m)
        /\ workers'[w].current = workers[w].current
        /\ \A v \in Workers \ {w} : workers'[v] = workers[v]
    BY <1>3, <1>6, <1>9 DEF QueueTypes, DispatchTypeOK, Worker
  <2>2. \A j \in Slots \ {DispatchSlot, QueueSlot(w)} : Untouched(j)
    BY <1>5, <1>9, <2>1 DEF Untouched
  <2>3. Moved(Slots, Q, P, DispatchSlot, QueueSlot(w), 1, m)
    BY <1>1, <1>2, <1>3, <1>9, <2>1, <2>2, SlotsAre, SlotsDiffer
       DEF SlotsFacts, Holds, Moved
  <2> QED
    BY <2>3, MovedCounts DEF Q, P
<1> QED
  BY <1>5, <1>7, <1>8, <1>9

LEMMA CountPopRequest ==
    ASSUME QueueTypes, QueueTypes', NEW w \in Workers, PopRequest(w),
           UNCHANGED threadVars, NEW n, Count(Queues, n)
    PROVE  Count(Queues', n)
<1> DEFINE Q == Queues
           P == Queues'
           m == Head(workers[w].queue)
           some == workers[w].queue # <<>>
<1>1. SlotsFacts(Q, P)
  BY SlotsStep
<1>2. /\ workers' = [workers EXCEPT ![w] =
             [queue   |-> IF some THEN Tail(workers[w].queue) ELSE <<>>,
              busy    |-> some,
              current |-> IF some THEN <<m>> ELSE <<>>]]
      /\ workers[w].current = <<>>
      /\ UNCHANGED <<reqQueue, dispatching, rspQueue, receiver, sender>>
  BY DEF PopRequest, threadVars
<1>3. workers[w].queue \in Seq(Message) /\ workers \in [Workers -> Worker]
  BY DEF QueueTypes, DispatchTypeOK, Worker
<1>4. /\ workers'[w].queue = IF some THEN Tail(workers[w].queue) ELSE <<>>
      /\ workers'[w].current = IF some THEN <<m>> ELSE <<>>
      /\ \A v \in Workers \ {w} : workers'[v] = workers[v]
  BY <1>2, <1>3
<1> HIDE DEF Q, P
<1>5. CASE some
  <2>1. /\ Tail(workers[w].queue) = RemoveAt(workers[w].queue, 1)
        /\ 1 \in 1 .. Len(workers[w].queue)
        /\ m = workers[w].queue[1] /\ m \in Message
    BY <1>3, <1>5, TailIsRemoveAt, HeadTailHolds
  <2>2. workers'[w].current = Append(workers[w].current, m)
    BY <1>2, <1>4, <1>5, OnlyIsAppend
  <2>3. workers'[w].queue = RemoveAt(workers[w].queue, 1)
    BY <1>4, <1>5, <2>1
  <2> HIDE DEF m, some
  <2>4. \A j \in Slots \ {QueueSlot(w), CurrentSlot(w)} : Untouched(j)
    BY <1>2, <1>4 DEF Untouched
  <2>5. Moved(Slots, Q, P, QueueSlot(w), CurrentSlot(w), 1, m)
    BY <1>1, <2>1, <2>2, <2>3, <2>4, SlotsAre, SlotsDiffer
       DEF SlotsFacts, Holds, Moved
  <2> QED
    BY <2>5, MovedCounts DEF Q, P
<1>6. CASE ~some
  <2>1. \A v \in Workers : /\ workers'[v].queue = workers[v].queue
                           /\ workers'[v].current = workers[v].current
    BY <1>2, <1>4, <1>6
  <2> HIDE DEF m, some
  <2>2. \A j \in Slots : Untouched(j)
    BY <1>2, <2>1 DEF Untouched
  <2>3. P = Q
    BY <1>1, <2>2 DEF SlotsFacts
  <2> QED
    BY <2>3 DEF P, Q
<1> QED
  BY <1>5, <1>6

LEMMA CountRespond ==
    ASSUME QueueTypes, QueueTypes', NEW w \in Workers, Respond(w),
           UNCHANGED threadVars, NEW n, Count(Queues, n)
    PROVE  Count(Queues', n)
<1> DEFINE Q == Queues
           P == Queues'
           m == Head(workers[w].current)
<1>1. SlotsFacts(Q, P)
  BY SlotsStep
<1>2. workers \in [Workers -> Worker] /\ workers[w].current \in Seq(Message)
      /\ Len(workers[w].current) <= 1 /\ workers[w].current # <<>>
  BY DEF QueueTypes, DispatchTypeOK, Worker, Respond
<1>3. /\ <<>> = RemoveAt(workers[w].current, 1)
      /\ 1 \in 1 .. Len(workers[w].current)
      /\ m = workers[w].current[1] /\ m \in Message
  BY <1>2, OnlyIsRemoveAt, AtMostOneHolds
<1>4. /\ rspQueue' = Append(rspQueue, m)
      /\ workers' = [workers EXCEPT ![w].current = <<>>]
      /\ UNCHANGED <<reqQueue, dispatching, receiver, sender>>
  BY DEF Respond, PushRspMsgQueue, threadVars
<1>5. /\ workers'[w].current = <<>>
      /\ workers'[w].queue = workers[w].queue
      /\ \A v \in Workers \ {w} : workers'[v] = workers[v]
  BY <1>2, <1>4 DEF Worker
<1> HIDE DEF Q, P, m
<1>6. \A j \in Slots \ {CurrentSlot(w), ResponseSlot} : Untouched(j)
  BY <1>4, <1>5 DEF Untouched
<1>7. Moved(Slots, Q, P, CurrentSlot(w), ResponseSlot, 1, m)
  BY <1>1, <1>3, <1>4, <1>5, <1>6, SlotsAre, SlotsDiffer
     DEF SlotsFacts, Holds, Moved
<1> QED
  BY <1>7, MovedCounts DEF Q, P

LEMMA CountReceive ==
    ASSUME QueueTypes, QueueTypes', NEW t \in ClientTargets,
           ReceiveFreeze(t) \/ ReceiveUnfreeze(t), NEW n, Count(Queues, n)
    PROVE  Count(Queues', n + 1)
<1> DEFINE Q == Queues
           P == Queues'
           f == Request(t, "freeze", FALSE)
           u == Request(t, "unfreeze", FALSE)
<1>1. SlotsFacts(Q, P)
  BY SlotsStep
<1>2. f \in Message /\ u \in Message /\ ~f.internal /\ ~u.internal
  <2>1. t \in Targets
    BY TargetsAssumption
  <2> QED
    BY <2>1 DEF Request, Message
<1>3. CASE ReceiveFreeze(t)
  <2>1. /\ receiver = Idle /\ receiver' = Busy(f)
        /\ UNCHANGED <<dispatchVars, sender>>
    BY <1>3 DEF ReceiveFreeze
  <2> HIDE DEF Q, P, f
  <2>2. receiver'.msgs = Append(receiver.msgs, f)
    <3>1. receiver.msgs = <<>> /\ receiver'.msgs = <<f>>
      BY <1>2, <2>1, IdleType, BusyType
    <3> QED
      BY <3>1, OnlyIsAppend
  <2>3. \A j \in Slots \ {ReceiverSlot} : Untouched(j)
    BY <2>1 DEF Untouched, dispatchVars
  <2>4. Pushed(Slots, Q, P, ReceiverSlot, f)
    BY <1>1, <1>2, <2>2, <2>3, SlotsAre DEF SlotsFacts, Holds, Pushed
  <2> QED
    BY <1>2, <2>4, PushCounts DEF Q, P
<1>4. CASE ReceiveUnfreeze(t)
  <2>1. /\ reqQueue' = Append(reqQueue, u)
        /\ UNCHANGED <<dispatching, rspQueue, workers, receiver, sender>>
    BY <1>4 DEF ReceiveUnfreeze, PushReqMsgQueue, threadVars
  <2> HIDE DEF Q, P, u
  <2>2. \A j \in Slots \ {RequestSlot} : Untouched(j)
    BY <2>1 DEF Untouched
  <2>3. Pushed(Slots, Q, P, RequestSlot, u)
    BY <1>1, <1>2, <2>1, <2>2, SlotsAre DEF SlotsFacts, Holds, Pushed
  <2> QED
    BY <1>2, <2>3, PushCounts DEF Q, P
<1> QED
  BY <1>3, <1>4

LEMMA CountInvoke ==
    ASSUME QueueTypes, QueueTypes', frozen \in [Objects -> BOOLEAN],
           NEW w \in Workers, Invoke(w), NEW n, Count(Queues, n)
    PROVE  Count(Queues', n)
<1> DEFINE Q == Queues
           P == Queues'
           m == Head(workers[w].current)
<1>1. SlotsFacts(Q, P)
  BY SlotsStep
<1>2. workers \in [Workers -> Worker] /\ workers[w].current \in Seq(Message)
      /\ Len(workers[w].current) <= 1 /\ workers[w].current # <<>>
  BY DEF QueueTypes, DispatchTypeOK, Worker, Invoke
<1>3. /\ workers[w].current = <<m>> /\ Len(workers[w].current) = 1
      /\ m \in Message
  BY <1>2, AtMostOneHolds
<1>4. PICK out \in Outcome(m) \cup FailingOutcome(m) :
        workers' = [workers EXCEPT ![w].current = <<Answered(m, out[2])>>]
  BY DEF Invoke
<1> DEFINE a == Answered(m, out[2])
<1>5. a.internal = m.internal
  BY <1>3, OutcomeType, AnsweredType DEF Same
<1> HIDE DEF a
<1>6. /\ workers'[w].current = <<a>>
      /\ workers'[w].queue = workers[w].queue
      /\ \A v \in Workers \ {w} : workers'[v] = workers[v]
  BY <1>2, <1>4 DEF Worker, a
<1>7. UNCHANGED <<reqQueue, dispatching, rspQueue, receiver, sender>>
  BY DEF Invoke, threadVars
<1> HIDE DEF Q, P, m
<1>8. \A j \in Slots \ {CurrentSlot(w)} : Untouched(j)
  BY <1>6, <1>7 DEF Untouched
<1>9. Q[CurrentSlot(w)] = <<m>> /\ P[CurrentSlot(w)] = <<a>>
  BY <1>1, <1>3, <1>6 DEF SlotsFacts, Holds
<1>10. ASSUME NEW k \in Slots
       PROVE  /\ Len(P[k]) = Len(Q[k])
              /\ \A i \in DOMAIN Q[k] : P[k][i].internal = Q[k][i].internal
  <2>1. CASE k = CurrentSlot(w)
    BY <1>5, <1>9, <2>1
  <2>2. CASE k # CurrentSlot(w)
    BY <1>1, <1>8, <2>2 DEF SlotsFacts
  <2> QED
    BY <2>1, <2>2
<1>11. Q \in [Slots -> Seq(Message)] /\ P \in [Slots -> Seq(Message)]
  BY <1>1 DEF SlotsFacts
<1>12. Count(Q, n)
  BY DEF Q
<1>13. Alike(Slots, Q, P)
  BY <1>10, <1>11 DEF Alike
<1> QED
  BY <1>12, <1>13, SameCounts DEF P

LEMMA CountPopRsp ==
    ASSUME QueueTypes, QueueTypes', PopRspMsgQueue, NEW n, Count(Queues, n)
    PROVE  Count(Queues', n)
<1> DEFINE Q == Queues
           P == Queues'
           i == FirstResponse(FALSE)
           m == rspQueue[i]
<1>1. SlotsFacts(Q, P)
  BY SlotsStep
<1>2. i \in 1 .. Len(rspQueue) /\ m \in Message
  BY FirstResponseOf, ElementOfSeq DEF PopRspMsgQueue, QueueTypes, DispatchTypeOK
<1>3. /\ rspQueue' = RemoveAt(rspQueue, i)
      /\ sender = Idle /\ sender' = Busy(m)
      /\ UNCHANGED <<reqQueue, dispatching, workers, receiver>>
  BY DEF PopRspMsgQueue, PopResponse
<1> HIDE DEF Q, P, i
<1>4. sender'.msgs = Append(sender.msgs, m)
  <2> HIDE DEF m
  <2>1. sender.msgs = <<>> /\ sender'.msgs = <<m>>
    BY <1>2, <1>3, IdleType, BusyType
  <2> QED
    BY <2>1, OnlyIsAppend
<1>5. m = rspQueue[i]
  OBVIOUS
<1> HIDE DEF m
<1>6. \A j \in Slots \ {ResponseSlot, SenderSlot} : Untouched(j)
  BY <1>3 DEF Untouched
<1>7. Moved(Slots, Q, P, ResponseSlot, SenderSlot, i, m)
  BY <1>1, <1>2, <1>3, <1>4, <1>5, <1>6, SlotsAre, SlotsDiffer
     DEF SlotsFacts, Holds, Moved
<1> QED
  BY <1>7, MovedCounts DEF Q, P

LEMMA CountSend ==
    ASSUME QueueTypes, QueueTypes', SenderInv, Send, NEW n, Count(Queues, n)
    PROVE  Count(Queues', n - 1)
<1> DEFINE Q == Queues
           P == Queues'
           m == Head(sender.msgs)
<1>1. SlotsFacts(Q, P)
  BY SlotsStep
<1>2. /\ <<>> = RemoveAt(sender.msgs, 1) /\ 1 \in 1 .. Len(sender.msgs)
      /\ m = sender.msgs[1] /\ m \in ToSet(sender.msgs)
  BY OnlyIsRemoveAt, AtMostOneHolds DEF Send, QueueTypes, ThreadTypes, Thread
<1>3. ~m.internal
  BY <1>2 DEF SenderInv
<1>4. sender'.msgs = <<>> /\ UNCHANGED <<dispatchVars, receiver>>
  BY IdleType DEF Send
<1> HIDE DEF Q, P, m
<1>5. \A j \in Slots \ {SenderSlot} : Untouched(j)
  BY <1>4 DEF Untouched, dispatchVars
<1>6. Taken(Slots, Q, P, SenderSlot, 1) /\ Q[SenderSlot][1] = m
  BY <1>1, <1>2, <1>4, <1>5, SlotsAre DEF SlotsFacts, Holds, Taken
<1> QED
  BY <1>3, <1>6, TakeCounts DEF Q, P

LEMMA CountInternalRsp ==
    ASSUME QueueTypes, QueueTypes', ListTypes,
           ProcessInternalRsp \/ DropInternalRsp, NEW n, Count(Queues, n)
    PROVE  Count(Queues', n)
<1> DEFINE Q == Queues
           P == Queues'
           i == FirstResponse(TRUE)
           o == Head(rspQueue[i].target)
           q == Request(<<o>>, "unfreeze", TRUE)
           R == [Q EXCEPT ![ResponseSlot] = RemoveAt(rspQueue, i)]
<1>1. SlotsFacts(Q, P)
  BY SlotsStep
<1>2. i \in 1 .. Len(rspQueue) /\ rspQueue[i].internal = TRUE
  BY FirstResponseOf DEF ProcessInternalRsp, DropInternalRsp, QueueTypes,
                         DispatchTypeOK
<1>3. /\ rspQueue' = RemoveAt(rspQueue, i)
      /\ UNCHANGED <<dispatching, workers, receiver, sender>>
      /\ \/ UNCHANGED reqQueue
         \/ IsExistInList(o) /\ reqQueue' = Append(reqQueue, q)
  BY DEF ProcessInternalRsp, DropInternalRsp, PopResponse,
         HandleQueryStatusMonitorObj, PushInternalReq, PushFails,
         PushReqMsgQueue, threadVars
<1>4. IsExistInList(o) => q \in Message /\ q.internal
  <2>1. IsExistInList(o) => o \in Objects
    BY EntryType DEF ListTypes
  <2> QED
    BY <2>1, OwnRequestType
<1>5. RemoveAt(rspQueue, i) \in Seq(Message)
  BY <1>2, RemoveAtHolds DEF QueueTypes, DispatchTypeOK
<1> HIDE DEF Q, P, i, o, q
<1>6. /\ R \in [Slots -> Seq(Message)]
      /\ R[ResponseSlot] = RemoveAt(rspQueue, i)
      /\ \A j \in Slots \ {ResponseSlot} : R[j] = Q[j]
  BY <1>1, <1>5, SlotsAre DEF SlotsFacts
<1> HIDE DEF R
<1>7. Taken(Slots, Q, R, ResponseSlot, i) /\ Q[ResponseSlot][i].internal
  BY <1>1, <1>2, <1>6, SlotsAre DEF SlotsFacts, Holds, Taken
<1>8. Count(R, n)
  BY <1>7, TakeCounts DEF Q
<1>9. \A j \in Slots \ {ResponseSlot, RequestSlot} : Untouched(j)
  BY <1>3 DEF Untouched
<1>10. P[ResponseSlot] = R[ResponseSlot]
       /\ \A j \in Slots \ {ResponseSlot, RequestSlot} : P[j] = R[j]
  BY <1>1, <1>3, <1>6, <1>9 DEF SlotsFacts, Holds
<1>11. CASE UNCHANGED reqQueue
  <2>1. P[RequestSlot] = R[RequestSlot]
    BY <1>1, <1>6, <1>11, SlotsAre, SlotsDiffer DEF SlotsFacts, Holds
  <2>2. \A j \in Slots : P[j] = R[j]
    BY <1>10, <2>1
  <2>3. P = R
    BY <1>1, <1>6, <2>2 DEF SlotsFacts
  <2> QED
    BY <1>8, <2>3 DEF P
<1>12. CASE IsExistInList(o) /\ reqQueue' = Append(reqQueue, q)
  <2>1. P[RequestSlot] = Append(R[RequestSlot], q)
    BY <1>1, <1>6, <1>12, SlotsAre, SlotsDiffer DEF SlotsFacts, Holds
  <2>2. Pushed(Slots, R, P, RequestSlot, q)
    BY <1>1, <1>4, <1>6, <1>10, <1>12, <2>1, SlotsAre DEF SlotsFacts, Pushed
  <2> QED
    BY <1>4, <1>8, <1>12, <2>2, PushCounts DEF P
<1> QED
  BY <1>3, <1>11, <1>12

LEMMA CountNextObject ==
    ASSUME QueueTypes, QueueTypes', ListTypes, HandleNextObject,
           NEW n, Count(Queues, n)
    PROVE  Count(Queues', n)
<1> DEFINE Q == Queues
           P == Queues'
           m == monitors[currIndex + 1]
           q == Request(<<m.obj>>, "query", TRUE)
<1>1. SlotsFacts(Q, P)
  BY SlotsStep
<1>2. q \in Message /\ q.internal
  <2>1. currIndex + 1 \in 1 .. Len(monitors)
    BY DEF ListTypes, HandleNextObject
  <2>2. m \in MonitorObj
    BY <2>1, ElementOfSeq DEF ListTypes
  <2>3. m.obj \in Objects
    BY <2>2 DEF MonitorObj
  <2> QED
    BY <2>3, OwnRequestType
<1>3. /\ UNCHANGED <<dispatching, rspQueue, workers, receiver, sender>>
      /\ \/ UNCHANGED reqQueue
         \/ reqQueue' = Append(reqQueue, q)
  BY DEF HandleNextObject, HandleFreezedMonitorObj, PushInternalReq,
         PushFails, PushReqMsgQueue, threadVars
<1> HIDE DEF Q, P, q
<1>4. CASE UNCHANGED reqQueue
  <2>1. Queues' = Queues
    BY <1>3, <1>4 DEF Queues
  <2> QED
    BY <2>1
<1>5. CASE reqQueue' = Append(reqQueue, q)
  <2>1. \A j \in Slots \ {RequestSlot} : Untouched(j)
    BY <1>3 DEF Untouched
  <2>2. Pushed(Slots, Q, P, RequestSlot, q)
    BY <1>1, <1>2, <1>5, <2>1, SlotsAre DEF SlotsFacts, Holds, Pushed
  <2> QED
    BY <1>2, <2>2, PushCounts DEF Q, P
<1> QED
  BY <1>3, <1>4, <1>5

LEMMA CountTick ==
    ASSUME QueueTypes, QueueTypes', Tick, NEW n, Count(Queues, n)
    PROVE  Count(Queues', n)
<1> DEFINE Q == Queues
           P == Queues'
<1>1. SlotsFacts(Q, P)
  BY SlotsStep
<1>2. /\ IsAged(reqQueue, reqQueue') /\ IsAged(dispatching, dispatching')
      /\ IsAged(rspQueue, rspQueue') /\ IsAged(receiver.msgs, receiver'.msgs)
      /\ IsAged(sender.msgs, sender'.msgs)
      /\ \A w \in Workers :
           /\ IsAged(workers[w].queue, workers'[w].queue)
           /\ IsAged(workers[w].current, workers'[w].current)
  BY QueueTick
<1> HIDE DEF Q, P
<1>3. ASSUME NEW k \in Slots
      PROVE  IsAged(Q[k], P[k])
  <2>1. CASE k \in {RequestSlot, DispatchSlot, ResponseSlot, ReceiverSlot,
                    SenderSlot}
    BY <1>1, <1>2, <2>1 DEF SlotsFacts, Holds
  <2>2. ASSUME NEW w \in Workers, k = QueueSlot(w)
        PROVE  IsAged(Q[k], P[k])
    BY <1>1, <1>2, <2>2 DEF SlotsFacts, Holds
  <2>3. ASSUME NEW w \in Workers, k = CurrentSlot(w)
        PROVE  IsAged(Q[k], P[k])
    BY <1>1, <1>2, <2>3 DEF SlotsFacts, Holds
  <2> QED
    BY <2>1, <2>2, <2>3, SlotsAre
<1>4. Alike(Slots, Q, P)
  BY <1>1, <1>3 DEF SlotsFacts, Alike, IsAged, Same
<1> QED
  BY <1>4, SameCounts DEF Q, P

LEMMA EmptyCounts ==
    ASSUME NEW ws,
           \A w \in Workers : ws[w].queue = <<>> /\ ws[w].current = <<>>
    PROVE  Count(QueuesOf(<<>>, <<>>, <<>>, <<>>, <<>>, ws), 0)
<1> DEFINE Q == QueuesOf(<<>>, <<>>, <<>>, <<>>, <<>>, ws)
<1>1. Holds(Q, <<>>, <<>>, <<>>, <<>>, <<>>, ws)
  BY QueuesHold
<1> HIDE DEF Q
<1>3. ASSUME NEW k \in Slots
      PROVE  Len(Q[k]) = 0
  <2>1. CASE k \in {RequestSlot, DispatchSlot, ResponseSlot, ReceiverSlot,
                    SenderSlot}
    BY <1>1, <2>1, EmptyHolds DEF Holds
  <2>2. ASSUME NEW w \in Workers, k = QueueSlot(w) \/ k = CurrentSlot(w)
        PROVE  Len(Q[k]) = 0
    BY <1>1, <2>2, EmptyHolds DEF Holds
  <2> QED
    BY <2>1, <2>2, SlotsAre
<1>4. ASSUME NEW p \in Places(Q)
      PROVE  FALSE
  <2>1. p[1] \in Slots /\ p[2] \in 1 .. Len(Q[p[1]])
    BY <1>1 DEF Places, Holds
  <2>2. Len(Q[p[1]]) = 0
    BY <1>3, <2>1
  <2> QED
    BY <2>1, <2>2
<1>5. Places(Q) = {}
  BY <1>4
<1> QED
  BY <1>5, FS_EmptySet DEF Count, Q

\* Each client request that has not been answered yet is in one place.
OnePlaceEach == Count(Queues, outstanding)

LEMMA InitCounts ==
    ASSUME Init
    PROVE  OnePlaceEach
<1>1. Queues = QueuesOf(<<>>, <<>>, <<>>, <<>>, <<>>, workers)
  BY IdleType DEF Init, DispatchInit, Queues
<1>2. \A w \in Workers : workers[w].queue = <<>> /\ workers[w].current = <<>>
  BY DEF Init, DispatchInit
<1>3. outstanding = 0
  BY DEF Init
<1> QED
  BY <1>1, <1>2, <1>3, EmptyCounts DEF OnePlaceEach

LEMMA CountStep ==
    ASSUME Types, SenderInv, OnePlaceEach, [Next]_vars
    PROVE  OnePlaceEach'
<1>0. ListTypes /\ QueueTypes /\ QueueTypes' /\ Count(Queues, outstanding)
  BY TypesStep DEF Types, OnePlaceEach
<1> DEFINE same == UNCHANGED outstanding
<1> USE DEF OnePlaceEach
<1>1. ASSUME same, Queues' = Queues
      PROVE  OnePlaceEach'
  BY <1>0, <1>1
<1>2. CASE Client
  <2>1. PICK t \in ClientTargets : ReceiveFreeze(t) \/ ReceiveUnfreeze(t)
    BY <1>2 DEF Client
  <2>2. outstanding' = outstanding + 1
    BY <2>1 DEF ReceiveFreeze, ReceiveUnfreeze
  <2> QED
    BY <1>0, <2>1, <2>2, CountReceive
<1>3. CASE SaveObject \/ AddObject \/ UpdateSingleFreezeOper
  <2>1. UNCHANGED <<dispatchVars, outstanding>>
    BY <1>3 DEF SaveObject, AddObject, UpdateSingleFreezeOper, clientVars
  <2>2. receiver'.msgs = receiver.msgs /\ sender'.msgs = sender.msgs
    BY <1>0, <1>3 DEF SaveObject, AddObject, UpdateSingleFreezeOper,
                      QueueTypes, ThreadTypes, Thread
  <2>3. Queues' = Queues
    BY <2>1, <2>2 DEF Queues, dispatchVars
  <2> QED
    BY <1>1, <2>1, <2>3
<1>4. CASE PushFreeze
  <2>1. same
    BY <1>4 DEF PushFreeze, clientVars
  <2> QED
    BY <1>0, <1>4, <2>1, CountPushFreeze
<1>5. CASE Dispatch
  <2>1. UNCHANGED threadVars /\ same
    BY <1>5 DEF Dispatch, clientVars
  <2>2. Count(Queues', outstanding)
    BY <1>0, <1>5, <2>1, CountPopReq, CountPushMsgToWorker, CountPopRequest,
       CountRespond DEF Dispatch
  <2> QED
    BY <2>1, <2>2
<1>6. CASE \E w \in Workers : Invoke(w)
  <2>1. PICK w \in Workers : Invoke(w)
    BY <1>6
  <2>2. same
    BY <2>1 DEF Invoke, clientVars
  <2> QED
    BY <1>0, <2>1, <2>2, CountInvoke DEF Types, ClientTypes
<1>7. CASE PopRspMsgQueue
  <2>1. same
    BY <1>7 DEF PopRspMsgQueue, clientVars
  <2> QED
    BY <1>0, <1>7, <2>1, CountPopRsp
<1>8. CASE Send
  <2>1. outstanding' = outstanding - 1
    BY <1>8 DEF Send
  <2> QED
    BY <1>0, <1>8, <2>1, CountSend
<1>9. CASE BeginPass \/ ResponsesDone \/ EndPass \/ Start \/ LoadObjects
  <2>1. UNCHANGED <<dispatchVars, receiver, sender, outstanding>>
    BY <1>9 DEF BeginPass, ResponsesDone, EndPass, Start, LoadObjects,
                clientVars, threadVars
  <2>2. Queues' = Queues
    BY <2>1 DEF Queues, dispatchVars
  <2> QED
    BY <1>1, <2>1, <2>2
<1>10. CASE ProcessInternalRsp \/ DropInternalRsp
  <2>1. same
    BY <1>10 DEF ProcessInternalRsp, DropInternalRsp, clientVars
  <2> QED
    BY <1>0, <1>10, <2>1, CountInternalRsp
<1>11. CASE HandleNextObject
  <2>1. same
    BY <1>11 DEF HandleNextObject, clientVars
  <2> QED
    BY <1>0, <1>11, <2>1, CountNextObject
<1>12. CASE Crash
  <2>1. Queues' = QueuesOf(<<>>, <<>>, <<>>, <<>>, <<>>, workers')
    BY <1>12, IdleType DEF Crash, DropMessages, Queues
  <2>2. \A w \in Workers : workers'[w].queue = <<>> /\ workers'[w].current = <<>>
    BY <1>12 DEF Crash, DropMessages
  <2>3. outstanding' = 0
    BY <1>12 DEF Crash
  <2> QED
    BY <2>1, <2>2, <2>3, EmptyCounts
<1>13. CASE Tick
  <2>1. same
    BY <1>13 DEF Tick, clientVars
  <2> QED
    BY <1>0, <1>13, <2>1, CountTick
<1>14. CASE UNCHANGED vars
  <2>1. UNCHANGED <<dispatchVars, receiver, sender, outstanding>>
    BY <1>14 DEF vars, threadVars, clientVars
  <2>2. Queues' = Queues
    BY <2>1 DEF Queues, dispatchVars
  <2> QED
    BY <1>1, <2>1, <2>2
<1> QED
  BY <1>2, <1>3, <1>4, <1>5, <1>6, <1>7, <1>8, <1>9, <1>10, <1>11, <1>12, <1>13,
     <1>14 DEF Next, Receiver, Sender, Monitor

(***************************************************************************)
(* The agent neither loses nor duplicates a client's request: as long as   *)
(* it runs, the requests received and not answered yet are as many as the  *)
(* places of its queues, workers and threads that hold one, whatever fails *)
(* and however slow the workers are.                                       *)
(***************************************************************************)
THEOREM NoRequestLost == Spec => []OnePlaceEach
<1> DEFINE Inv == Types /\ SenderInv /\ OnePlaceEach
<1>1. Init => Inv
  BY InitInv, InitCounts DEF AgentInv
<1>2. Inv /\ [Next]_vars => Inv'
  BY TypesStep, CountStep
<1> QED
  BY <1>1, <1>2, PTL DEF Spec

(***************************************************************************)
(* The values of the agent's variables, in particular that no more answers *)
(* are sent than requests received.                                        *)
(***************************************************************************)
THEOREM AgentTypes == Spec => []TypeOK
<1> DEFINE Inv == Types /\ SenderInv /\ OnePlaceEach
<1>1. Init => Inv
  BY InitInv, InitCounts DEF AgentInv
<1>2. Inv /\ [Next]_vars => Inv'
  BY TypesStep, CountStep
<1>3. Inv => TypeOK
  <2> SUFFICES ASSUME Inv
               PROVE  TypeOK
    OBVIOUS
  <2>1. outstanding \in Nat
    BY FS_CardinalityType DEF OnePlaceEach, Count
  <2>2. outstanding \in 0 .. MaxOutstanding
    BY <2>1, BoundsAssumption DEF Types, ClientTypes
  <2> QED
    BY <2>2 DEF Types, ListTypes, TableTypes, QueueTypes, ThreadTypes,
                ClientTypes, TypeOK, MonitorTypeOK
<1> QED
  BY <1>1, <1>2, <1>3, PTL DEF Spec
=============================================================================
