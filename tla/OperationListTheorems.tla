----------------------- MODULE OperationListTheorems -----------------------
(***************************************************************************)
(* What the operators of OperationList compute and preserve: the facts     *)
(* about the list of operations that the proofs of the components use.     *)
(***************************************************************************)
EXTENDS OperationList, SequenceTheorems, WellFoundedInduction, TLAPS

(***************************************************************************)
(* The loops of isOperationExists and getOperation stop at the least       *)
(* matching index.                                                         *)
(***************************************************************************)
LEMMA FirstIsLeast ==
    ASSUME NEW indices, indices \subseteq Nat, indices # {}
    PROVE  First(indices) \in indices /\ \A j \in indices : First(indices) <= j
<1> DEFINE less == {ss \in Nat \X Nat : ss[1] < ss[2]}
<1>1. IsWellFoundedOn(less, Nat)
  BY NatLessThanWellFounded, Zenon DEF OpToRel
<1>2. PICK i \in indices : \A j \in indices : ~(<<j, i>> \in less)
  BY <1>1, WFMin, Zenon
<1>3. ASSUME NEW j \in indices
      PROVE  i <= j
  <2>1. i \in Nat /\ j \in Nat
    OBVIOUS
  <2>2. ~(<<j, i>> \in less)
    BY <1>2
  <2>3. ~(j < i)
    BY <2>1, <2>2
  <2> QED
    BY <2>1, <2>3
<1> QED
  BY <1>3 DEF First

(***************************************************************************)
(* The entry isOperationExists returns is an entry of the list that        *)
(* excludes the operation asked for.                                       *)
(***************************************************************************)
LEMMA PreviousOp ==
    ASSUME NEW ops \in Seq(Operation), NEW v, NEW p,
           isOperationExists(ops, v, p)
    PROVE  /\ previousOpIndex(ops, v, p) \in 1 .. Len(ops)
           /\ v # NoVolume
           /\ ops[previousOpIndex(ops, v, p)].volumeName = v
           /\ Excludes(ops[previousOpIndex(ops, v, p)].podName, p)
<1>1. Matches(ops, v, p) \subseteq Nat /\ Matches(ops, v, p) # {}
  BY DEF Matches, isOperationExists
<1>2. previousOpIndex(ops, v, p) \in Matches(ops, v, p)
  BY <1>1, FirstIsLeast DEF previousOpIndex
<1> QED
  BY <1>2 DEF Matches

(***************************************************************************)
(* getOperation returns the index of an entry with the name asked for,     *)
(* where there is one.                                                     *)
(***************************************************************************)
LEMMA GetOperation ==
    ASSUME NEW ops \in Seq(Operation), NEW v, NEW p,
           EntriesNamed(ops, v, p) # {}
    PROVE  /\ getOperation(ops, v, p) \in 1 .. Len(ops)
           /\ ops[getOperation(ops, v, p)].volumeName = v
           /\ ops[getOperation(ops, v, p)].podName = p
<1>1. EntriesNamed(ops, v, p) \subseteq Nat
  BY DEF EntriesNamed
<1>2. getOperation(ops, v, p) \in EntriesNamed(ops, v, p)
  BY <1>1, FirstIsLeast DEF getOperation
<1> QED
  BY <1>2 DEF EntriesNamed
-----------------------------------------------------------------------------
(***************************************************************************)
(* The back-off: Update keeps the durations within their maximum.          *)
(***************************************************************************)
LEMMA UpdateType ==
    ASSUME NEW b \in ExponentialBackoff
    PROVE  Update(b) \in ExponentialBackoff
<1>1. NextDuration(b.durationBeforeRetry) \in 0 .. MaxDurationBeforeRetry
  BY BackoffAssumption DEF NextDuration, ExponentialBackoff
<1> QED
  BY <1>1 DEF Update, ExponentialBackoff

(***************************************************************************)
(* Time changes nothing of an entry but what is left of its wait.          *)
(***************************************************************************)
LEMMA LaterEntries ==
    ASSUME NEW ops \in Seq(Operation)
    PROVE  /\ Later(ops) \in Seq(Operation)
           /\ Len(Later(ops)) = Len(ops)
           /\ \A i \in 1 .. Len(ops) :
                /\ Later(ops)[i].volumeName = ops[i].volumeName
                /\ Later(ops)[i].podName = ops[i].podName
                /\ Later(ops)[i].operationPending = ops[i].operationPending
<1> DEFINE waited(o) == [o EXCEPT !.expBackoff.remaining =
                                    IF @ > 0 THEN @ - 1 ELSE 0]
<1>1. ASSUME NEW o \in Operation
      PROVE  /\ waited(o) \in Operation
             /\ waited(o).volumeName = o.volumeName
             /\ waited(o).podName = o.podName
             /\ waited(o).operationPending = o.operationPending
  <2> DEFINE b == o.expBackoff
             left == IF b.remaining > 0 THEN b.remaining - 1 ELSE 0
  <2>1. b \in ExponentialBackoff
    BY <1>1 DEF Operation
  <2>2. left \in 0 .. MaxDurationBeforeRetry
    BY <2>1, BackoffAssumption DEF ExponentialBackoff
  <2>3. waited(o) = [o EXCEPT !.expBackoff = [b EXCEPT !.remaining = left]]
    BY <1>1, <2>1 DEF Operation, ExponentialBackoff
  <2> HIDE DEF left, waited
  <2>4. [b EXCEPT !.remaining = left] \in ExponentialBackoff
    BY <2>1, <2>2 DEF ExponentialBackoff
  <2> HIDE DEF b
  <2> QED
    BY <1>1, <2>3, <2>4 DEF Operation
<1>2. Later(ops) = [i \in 1 .. Len(ops) |-> waited(ops[i])]
  BY DEF Later
<1>3. \A i \in 1 .. Len(ops) : ops[i] \in Operation
  BY ElementOfSeq
<1> HIDE DEF waited
<1>4. \A i \in 1 .. Len(ops) : waited(ops[i]) \in Operation
  BY <1>1, <1>3
<1>5. Later(ops) \in Seq(Operation) /\ Len(Later(ops)) = Len(ops)
  BY <1>2, <1>4, IsASeq, LenProperties
<1> QED
  BY <1>1, <1>2, <1>3, <1>5

(***************************************************************************)
(* An entry is replaced: the list of the other entries stays as it is.     *)
(***************************************************************************)
LEMMA ReplaceEntry ==
    ASSUME NEW ops \in Seq(Operation), NEW k, NEW o,
           k \in 1 .. Len(ops) => o \in Operation
    PROVE  /\ [ops EXCEPT ![k] = o] \in Seq(Operation)
           /\ Len([ops EXCEPT ![k] = o]) = Len(ops)
           /\ \A i \in 1 .. Len(ops) :
                [ops EXCEPT ![k] = o][i] = IF i = k THEN o ELSE ops[i]
<1> DEFINE next == [ops EXCEPT ![k] = o]
<1>1. /\ Len(ops) \in Nat
      /\ ops \in [1 .. Len(ops) -> Operation]
  BY LenProperties
<1>2. next = [i \in 1 .. Len(ops) |-> IF i = k THEN o ELSE ops[i]]
  BY <1>1, Zenon
<1> HIDE DEF next
<1>3. \A i \in 1 .. Len(ops) : next[i] = IF i = k THEN o ELSE ops[i]
  BY <1>2
<1>4. next \in [1 .. Len(ops) -> Operation]
  BY <1>1, <1>2
<1>5. next \in Seq(Operation) /\ Len(next) = Len(ops)
  BY <1>1, <1>4, LenProperties, IsASeq
<1> QED
  BY <1>3, <1>5 DEF next

(***************************************************************************)
(* deleteOperation: the last entry moves into the place of the one that    *)
(* goes.                                                                   *)
(***************************************************************************)
LEMMA DeleteEntry ==
    ASSUME NEW ops \in Seq(Operation), NEW v, NEW p
    PROVE  LET k    == getOperation(ops, v, p)
               next == deleteOperation(ops, v, p)
           IN  /\ next \in Seq(Operation)
               /\ ops # << >> => Len(next) = Len(ops) - 1
               /\ \A i \in 1 .. Len(ops) - 1 :
                    next[i] = IF i = k THEN ops[Len(ops)] ELSE ops[i]
<1> DEFINE k    == getOperation(ops, v, p)
           repl == [ops EXCEPT ![k] = ops[Len(ops)]]
<1>1. Len(ops) \in Nat /\ \A i \in 1 .. Len(ops) : ops[i] \in Operation
  BY ElementOfSeq
<1>2. k \in 1 .. Len(ops) => ops[Len(ops)] \in Operation
  BY <1>1
<1> HIDE DEF k
<1>3. /\ repl \in Seq(Operation) /\ Len(repl) = Len(ops)
      /\ \A i \in 1 .. Len(ops) :
           repl[i] = IF i = k THEN ops[Len(ops)] ELSE ops[i]
  BY <1>2, ReplaceEntry
<1>4. deleteOperation(ops, v, p) = SubSeq(repl, 1, Len(ops) - 1)
  BY DEF deleteOperation, k
<1> HIDE DEF repl
<1>5. \A i \in 1 .. Len(ops) - 1 : repl[i] \in Operation
  BY <1>1, <1>3, ElementOfSeq
<1>6. /\ SubSeq(repl, 1, Len(ops) - 1) \in Seq(Operation)
      /\ Len(SubSeq(repl, 1, Len(ops) - 1)) =
           IF 1 <= Len(ops) - 1 THEN (Len(ops) - 1) - 1 + 1 ELSE 0
      /\ \A i \in 1 .. (Len(ops) - 1) - 1 + 1 :
           SubSeq(repl, 1, Len(ops) - 1)[i] = repl[1 + i - 1]
  BY <1>1, <1>5, SubSeqProperties
<1>7. ops # << >> => Len(ops) > 0
  BY <1>1, EmptySeq
<1> QED
  BY <1>1, <1>3, <1>4, <1>6, <1>7 DEF k
-----------------------------------------------------------------------------
(***************************************************************************)
(* Run, where an entry excludes the request: that entry is renamed and     *)
(* marked pending, and the others stay as they are.                        *)
(***************************************************************************)
LEMMA RunTakesOver ==
    ASSUME NEW ops \in Seq(Operation),
           NEW v \in VolumeNames, NEW p \in PodNames,
           isOperationExists(ops, v, p)
    PROVE  LET k    == previousOpIndex(ops, v, p)
               next == AfterRun(ops, v, p)
           IN  /\ next \in Seq(Operation)
               /\ Len(next) = Len(ops)
               /\ k \in 1 .. Len(ops)
               /\ next[k].volumeName = v
               /\ next[k].podName = p
               /\ next[k].operationPending
               /\ \A i \in 1 .. Len(ops) : i # k => next[i] = ops[i]
<1> DEFINE k == previousOpIndex(ops, v, p)
           o == [ops[k] EXCEPT !.operationPending = TRUE,
                               !.volumeName       = v,
                               !.podName          = p]
<1>1. k \in 1 .. Len(ops)
  BY PreviousOp
<1>2. ops[k] \in Operation
  BY <1>1, ElementOfSeq
<1>3. AfterRun(ops, v, p) = [ops EXCEPT ![k] = o]
  BY DEF AfterRun
<1> HIDE DEF k
<1>4. /\ o \in Operation
      /\ o.volumeName = v /\ o.podName = p /\ o.operationPending
  BY <1>2 DEF Operation
<1> HIDE DEF o
<1>5. /\ [ops EXCEPT ![k] = o] \in Seq(Operation)
      /\ Len([ops EXCEPT ![k] = o]) = Len(ops)
      /\ \A i \in 1 .. Len(ops) :
           [ops EXCEPT ![k] = o][i] = IF i = k THEN o ELSE ops[i]
  BY <1>4, ReplaceEntry
<1> QED
  BY <1>1, <1>3, <1>4, <1>5 DEF k

(***************************************************************************)
(* Run, where no entry excludes the request: a pending entry is appended.  *)
(***************************************************************************)
LEMMA RunAppends ==
    ASSUME NEW ops \in Seq(Operation),
           NEW v \in VolumeNames, NEW p \in PodNames,
           ~isOperationExists(ops, v, p)
    PROVE  LET next == AfterRun(ops, v, p)
           IN  /\ next \in Seq(Operation)
               /\ Len(next) = Len(ops) + 1
               /\ next[Len(ops) + 1] = NewOperation(v, p)
               /\ \A i \in 1 .. Len(ops) : next[i] = ops[i]
<1>1. NewOperation(v, p) \in Operation
  BY BackoffAssumption
     DEF NewOperation, Operation, NoBackoff, ExponentialBackoff
<1>2. AfterRun(ops, v, p) = Append(ops, NewOperation(v, p))
  BY DEF AfterRun
<1> QED
  BY <1>1, <1>2, AppendProperties

(***************************************************************************)
(* operationComplete, where the entry is kept for its back-off: nothing of *)
(* the list changes but that entry, which is no longer pending.            *)
(***************************************************************************)
LEMMA CompleteKeeps ==
    ASSUME NEW ops \in Seq(Operation), NEW v, NEW p, NEW failed,
           ~(~failed \/ ~ExponentialBackOffOnError)
    PROVE  LET k    == getOperation(ops, v, p)
               next == operationComplete(ops, v, p, failed)
           IN  /\ next \in Seq(Operation)
               /\ Len(next) = Len(ops)
               /\ \A i \in 1 .. Len(ops) :
                    /\ next[i].volumeName = ops[i].volumeName
                    /\ next[i].podName = ops[i].podName
                    /\ next[i].operationPending <=>
                         i # k /\ ops[i].operationPending
<1> DEFINE k == getOperation(ops, v, p)
           b == Update(ops[k].expBackoff)
           o == [ops[k] EXCEPT !.operationPending = FALSE, !.expBackoff = b]
<1>1. \A i \in 1 .. Len(ops) : ops[i] \in Operation
  BY ElementOfSeq
<1>2. operationComplete(ops, v, p, failed) = [ops EXCEPT ![k] = o]
  BY DEF operationComplete
<1> HIDE DEF k
<1>3. ASSUME k \in 1 .. Len(ops)
      PROVE  /\ o \in Operation
             /\ o.volumeName = ops[k].volumeName
             /\ o.podName = ops[k].podName
             /\ o.operationPending = FALSE
  <2>1. ops[k] \in Operation
    BY <1>1, <1>3
  <2>2. ops[k].expBackoff \in ExponentialBackoff
    BY <2>1 DEF Operation
  <2>3. b \in ExponentialBackoff
    BY <2>2, UpdateType
  <2> HIDE DEF b
  <2> QED
    BY <2>1, <2>3 DEF Operation
<1> HIDE DEF o
<1>4. k \in 1 .. Len(ops) => o \in Operation
  BY <1>3
<1>5. /\ [ops EXCEPT ![k] = o] \in Seq(Operation)
      /\ Len([ops EXCEPT ![k] = o]) = Len(ops)
      /\ \A i \in 1 .. Len(ops) :
           [ops EXCEPT ![k] = o][i] = IF i = k THEN o ELSE ops[i]
  BY <1>4, ReplaceEntry
<1> QED
  BY <1>2, <1>3, <1>5 DEF k

(***************************************************************************)
(* Where the entries of next come from in ops, when the entry at k is done *)
(* with: each has the name of the one it comes from, no two come from the  *)
(* same, none that is pending comes from k, and every other one is there.  *)
(***************************************************************************)
ComesFrom(from, next, ops, k) ==
    /\ \A i \in DOMAIN next :
         /\ next[i].volumeName = ops[from[i]].volumeName
         /\ next[i].podName = ops[from[i]].podName
         /\ next[i].operationPending =>
              from[i] # k /\ ops[from[i]].operationPending
    /\ \A i, j \in DOMAIN next : from[i] = from[j] => i = j
    /\ \A j \in DOMAIN ops : j # k =>
         \E i \in DOMAIN next :
            /\ from[i] = j
            /\ next[i].operationPending <=> ops[j].operationPending

(***************************************************************************)
(* operationComplete moves and marks entries, whether it deletes the one   *)
(* it finds or, when the operation failed, keeps it for its back-off.      *)
(***************************************************************************)
LEMMA CompleteMoves ==
    ASSUME NEW ops \in Seq(Operation), NEW v, NEW p, NEW failed \in BOOLEAN,
           EntriesNamed(ops, v, p) # {},
           NEW k, k = getOperation(ops, v, p),
           NEW next, next = operationComplete(ops, v, p, failed)
    PROVE  \E from \in [DOMAIN next -> DOMAIN ops] :
             /\ ComesFrom(from, next, ops, k)
             /\ \A i \in DOMAIN next : from[i] = k => failed
<1>1. /\ DOMAIN ops = 1 .. Len(ops)
      /\ Len(ops) \in Nat
  BY LenProperties
<1>2. k \in DOMAIN ops
  BY <1>1, GetOperation
<1>3. CASE ~failed \/ ~ExponentialBackOffOnError
  <2>1. next = deleteOperation(ops, v, p)
    BY <1>3 DEF operationComplete
  <2> DEFINE del == deleteOperation(ops, v, p)
  <2>2. ops # << >>
    BY <1>1, <1>2, EmptySeq
  <2>3. /\ del \in Seq(Operation)
        /\ ops # << >> => Len(del) = Len(ops) - 1
        /\ \A i \in 1 .. Len(ops) - 1 :
             del[i] = IF i = getOperation(ops, v, p) THEN ops[Len(ops)]
                                                     ELSE ops[i]
    BY DeleteEntry
  <2> HIDE DEF del
  <2>4. next = del
    BY <2>1 DEF del
  <2>5. /\ DOMAIN next = 1 .. Len(ops) - 1
        /\ \A i \in 1 .. Len(ops) - 1 :
             next[i] = IF i = k THEN ops[Len(ops)] ELSE ops[i]
    BY <2>2, <2>3, <2>4, LenProperties
  <2> DEFINE from == [i \in DOMAIN next |-> IF i = k THEN Len(ops) ELSE i]
  <2>6. from \in [DOMAIN next -> DOMAIN ops]
    BY <1>1, <1>2, <2>5
  <2>7. \A i \in DOMAIN next : next[i] = ops[from[i]] /\ from[i] # k
    BY <1>1, <1>2, <2>5
  <2>8. \A i, j \in DOMAIN next : from[i] = from[j] => i = j
    BY <1>1, <1>2, <2>5
  <2>9. ASSUME NEW j \in DOMAIN ops, j # k
        PROVE  \E i \in DOMAIN next : from[i] = j
    <3>1. CASE j = Len(ops)
      <4>1. k \in DOMAIN next /\ from[k] = j
        BY <1>1, <1>2, <2>5, <2>9, <3>1
      <4> QED
        BY <4>1
    <3>2. CASE j # Len(ops)
      <4>1. j \in DOMAIN next /\ from[j] = j
        BY <1>1, <1>2, <2>5, <2>9, <3>2
      <4> QED
        BY <4>1
    <3> QED
      BY <3>1, <3>2
  <2> HIDE DEF from
  <2> QED
    BY <2>6, <2>7, <2>8, <2>9 DEF ComesFrom
<1>4. CASE ~(~failed \/ ~ExponentialBackOffOnError)
  <2> DEFINE new == operationComplete(ops, v, p, failed)
  <2>1. /\ new \in Seq(Operation)
        /\ Len(new) = Len(ops)
        /\ \A i \in 1 .. Len(ops) :
             /\ new[i].volumeName = ops[i].volumeName
             /\ new[i].podName = ops[i].podName
             /\ new[i].operationPending <=> i # k /\ ops[i].operationPending
    BY <1>4, CompleteKeeps
  <2> HIDE DEF new
  <2>2. next = new /\ DOMAIN next = DOMAIN ops
    BY <1>1, <2>1, LenProperties DEF new
  <2> DEFINE from == [i \in DOMAIN next |-> i]
  <2>3. /\ from \in [DOMAIN next -> DOMAIN ops]
        /\ \A i \in DOMAIN next : from[i] = i
    BY <2>2
  <2> HIDE DEF from
  <2>4. \A i \in DOMAIN next :
          /\ next[i].volumeName = ops[i].volumeName
          /\ next[i].podName = ops[i].podName
          /\ next[i].operationPending <=> i # k /\ ops[i].operationPending
    BY <1>1, <2>1, <2>2
  <2>5. ComesFrom(from, next, ops, k)
    <3>1. ASSUME NEW j \in DOMAIN ops, j # k
          PROVE  \E i \in DOMAIN next :
                    /\ from[i] = j
                    /\ next[i].operationPending <=> ops[j].operationPending
      BY <2>2, <2>3, <2>4, <3>1
    <3> QED
      BY <2>3, <2>4, <3>1 DEF ComesFrom
  <2> QED
    BY <1>4, <2>3, <2>5
<1> QED
  BY <1>3, <1>4

(***************************************************************************)
(* Every failure leaves a wait before the next try.                        *)
(***************************************************************************)
LEMMA UpdateWaits ==
    ASSUME NEW b \in ExponentialBackoff
    PROVE  Update(b).remaining > 0
<1>1. NextDuration(b.durationBeforeRetry) > 0
  BY BackoffAssumption DEF NextDuration, ExponentialBackoff
<1> QED
  BY <1>1 DEF Update

(***************************************************************************)
(* operationComplete leaves the other operations as they are, and of its   *)
(* own, if it failed, an entry that waits.                                 *)
(***************************************************************************)
LEMMA CompleteEntries ==
    ASSUME NEW ops \in Seq(Operation), NEW v, NEW p, NEW failed \in BOOLEAN,
           EntriesNamed(ops, v, p) # {},
           NEW k, k = getOperation(ops, v, p),
           NEW next, next = operationComplete(ops, v, p, failed)
    PROVE  /\ \A j \in DOMAIN ops : j # k => \E i \in DOMAIN next : next[i] = ops[j]
           /\ \A i \in DOMAIN next :
                \/ ~next[i].operationPending
                \/ \E j \in DOMAIN ops : next[i] = ops[j]
           /\ (failed /\ ExponentialBackOffOnError) =>
                \E i \in DOMAIN next : /\ next[i].volumeName = v
                                       /\ next[i].expBackoff.remaining > 0
<1>1. /\ DOMAIN ops = 1 .. Len(ops)
      /\ Len(ops) \in Nat
      /\ \A i \in 1 .. Len(ops) : ops[i] \in Operation
  BY LenProperties, ElementOfSeq
<1>2. k \in 1 .. Len(ops) /\ ops[k].volumeName = v
  BY GetOperation
<1>3. CASE ~failed \/ ~ExponentialBackOffOnError
  <2> DEFINE del == deleteOperation(ops, v, p)
  <2>1. next = del
    BY <1>3 DEF operationComplete
  <2>2. ops # << >>
    BY <1>1, <1>2, EmptySeq
  <2>3. /\ del \in Seq(Operation)
        /\ ops # << >> => Len(del) = Len(ops) - 1
        /\ \A i \in 1 .. Len(ops) - 1 :
             del[i] = IF i = getOperation(ops, v, p) THEN ops[Len(ops)]
                                                     ELSE ops[i]
    BY DeleteEntry
  <2> HIDE DEF del
  <2>4. /\ DOMAIN next = 1 .. Len(ops) - 1
        /\ \A i \in 1 .. Len(ops) - 1 :
             next[i] = IF i = k THEN ops[Len(ops)] ELSE ops[i]
    BY <2>1, <2>2, <2>3, LenProperties
  <2>5. ASSUME NEW j \in DOMAIN ops, j # k
        PROVE  \E i \in DOMAIN next : next[i] = ops[j]
    <3>1. CASE j = Len(ops)
      <4>1. k \in DOMAIN next /\ next[k] = ops[j]
        BY <1>1, <1>2, <2>4, <2>5, <3>1
      <4> QED
        BY <4>1
    <3>2. CASE j # Len(ops)
      <4>1. j \in DOMAIN next /\ next[j] = ops[j]
        BY <1>1, <2>4, <2>5, <3>2
      <4> QED
        BY <4>1
    <3> QED
      BY <3>1, <3>2
  <2>6. ASSUME NEW i \in DOMAIN next
        PROVE  \E j \in DOMAIN ops : next[i] = ops[j]
    <3>1. Len(ops) \in DOMAIN ops /\ i \in DOMAIN ops
      BY <1>1, <1>2, <2>4
    <3>2. next[i] = ops[Len(ops)] \/ next[i] = ops[i]
      BY <2>4
    <3> QED
      BY <3>1, <3>2
  <2> QED
    BY <1>3, <2>5, <2>6
<1>4. CASE failed /\ ExponentialBackOffOnError
  <2> DEFINE b == Update(ops[k].expBackoff)
             o == [ops[k] EXCEPT !.operationPending = FALSE, !.expBackoff = b]
  <2>1. next = [ops EXCEPT ![k] = o]
    BY <1>4 DEF operationComplete
  <2>2. ops[k] \in Operation
    BY <1>1, <1>2
  <2>3. ops[k].expBackoff \in ExponentialBackoff
    BY <2>2 DEF Operation
  <2>4. b \in ExponentialBackoff /\ b.remaining > 0
    BY <2>3, UpdateType, UpdateWaits
  <2> HIDE DEF b
  <2>5. /\ o \in Operation
        /\ o.volumeName = ops[k].volumeName
        /\ o.operationPending = FALSE
        /\ o.expBackoff = b
    BY <2>2, <2>4 DEF Operation
  <2> HIDE DEF o
  <2>6. /\ [ops EXCEPT ![k] = o] \in Seq(Operation)
        /\ Len([ops EXCEPT ![k] = o]) = Len(ops)
        /\ \A i \in 1 .. Len(ops) :
             [ops EXCEPT ![k] = o][i] = IF i = k THEN o ELSE ops[i]
    BY <2>5, ReplaceEntry
  <2>7. /\ DOMAIN next = 1 .. Len(ops)
        /\ \A i \in 1 .. Len(ops) : next[i] = IF i = k THEN o ELSE ops[i]
    BY <2>1, <2>6, LenProperties
  <2>8. ASSUME NEW j \in DOMAIN ops, j # k
        PROVE  \E i \in DOMAIN next : next[i] = ops[j]
    BY <1>1, <2>7, <2>8
  <2>9. ASSUME NEW i \in DOMAIN next
        PROVE  \/ ~next[i].operationPending
               \/ \E j \in DOMAIN ops : next[i] = ops[j]
    <3>1. CASE i = k
      BY <1>2, <2>5, <2>7, <3>1
    <3>2. CASE i # k
      BY <1>1, <2>7, <3>2
    <3> QED
      BY <3>1, <3>2
  <2>10. /\ k \in DOMAIN next
         /\ next[k].volumeName = v
         /\ next[k].expBackoff.remaining > 0
    BY <1>2, <2>4, <2>5, <2>7
  <2> QED
    BY <2>8, <2>9, <2>10
<1> QED
  BY <1>3, <1>4
=============================================================================
