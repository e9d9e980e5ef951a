------------------ MODULE NestedPendingOperations_proofs ------------------
(***************************************************************************)
(* Proofs about nestedPendingOperations, for any requests, any number of   *)
(* goroutines, any length of the list and any durations of the back-off.   *)
(***************************************************************************)
EXTENDS NestedPendingOperations, OperationListTheorems

(***************************************************************************)
(* A request is a pair of the names it is made of.                         *)
(***************************************************************************)
LEMMA RequestNames ==
    ASSUME NEW n \in Requests
    PROVE  n[1] \in VolumeNames /\ n[2] \in PodNames /\ n = <<n[1], n[2]>>
BY RequestsAssumption

(***************************************************************************)
(* Run keeps the type of the list, whether it renames an entry or appends  *)
(* one.                                                                    *)
(***************************************************************************)
LEMMA RunType ==
    ASSUME TypeOK, NEW r \in Routines, NEW n \in Requests, Run(r, n)
    PROVE  TypeOK'
<1>1. operations \in Seq(Operation) /\ operations' = AfterRun(operations, n[1], n[2])
  BY DEF TypeOK, Run
<1>2. n[1] \in VolumeNames /\ n[2] \in PodNames
  BY RequestNames
<1>3. AfterRun(operations, n[1], n[2]) \in Seq(Operation)
  <2>1. CASE isOperationExists(operations, n[1], n[2])
    BY <1>1, <1>2, <2>1, RunTakesOver
  <2>2. CASE ~isOperationExists(operations, n[1], n[2])
    BY <1>1, <1>2, <2>2, RunAppends
  <2> QED
    BY <2>1, <2>2
<1>4. running' \in [Routines -> Requests \cup {Idle}]
  BY DEF TypeOK, Run
<1> QED
  BY <1>1, <1>3, <1>4 DEF TypeOK

(***************************************************************************)
(* operationComplete keeps the type of the list, also where no entry has   *)
(* the name of the goroutine that ends.                                    *)
(***************************************************************************)
LEMMA CompleteType ==
    ASSUME TypeOK, NEW r \in Routines, NEW failed \in BOOLEAN,
           Complete(r, failed)
    PROVE  TypeOK'
<1> DEFINE v == running[r][1]
           p == running[r][2]
<1>1. /\ operations \in Seq(Operation)
      /\ operations' = operationComplete(operations, v, p, failed)
  BY DEF TypeOK, Complete
<1> HIDE DEF v, p
<1>2. operationComplete(operations, v, p, failed) \in Seq(Operation)
  <2>1. CASE ~failed \/ ~ExponentialBackOffOnError
    BY <1>1, <2>1, DeleteEntry DEF operationComplete
  <2>2. CASE ~(~failed \/ ~ExponentialBackOffOnError)
    BY <1>1, <2>2, CompleteKeeps
  <2> QED
    BY <2>1, <2>2
<1>3. running' \in [Routines -> Requests \cup {Idle}]
  BY DEF TypeOK, Complete
<1> QED
  BY <1>1, <1>2, <1>3 DEF TypeOK

(***************************************************************************)
(* Type correctness, without a condition on the requests: the durations of *)
(* the back-off stay within maxDurationBeforeRetry in every entry, and the *)
(* list stays a list of operations whatever operationComplete deletes.     *)
(***************************************************************************)
THEOREM TypeCorrect == Spec => []TypeOK
<1>1. Init => TypeOK
  BY EmptySeq DEF Init, TypeOK
<1>2. ASSUME TypeOK, [Next]_vars
      PROVE  TypeOK'
  <2>1. ASSUME NEW r \in Routines, NEW n \in Requests, Run(r, n)
        PROVE  TypeOK'
    BY <1>2, <2>1, RunType
  <2>2. ASSUME NEW r \in Routines, NEW failed \in BOOLEAN,
               Complete(r, failed)
        PROVE  TypeOK'
    BY <1>2, <2>2, CompleteType
  <2>3. CASE Tick
    BY <1>2, <2>3, LaterEntries DEF TypeOK, Tick
  <2>4. CASE UNCHANGED vars
    BY <1>2, <2>4 DEF TypeOK, vars
  <2> QED
    BY <1>2, <2>1, <2>2, <2>3, <2>4 DEF Next
<1> QED
  BY <1>1, <1>2, PTL DEF Spec
-----------------------------------------------------------------------------
(***************************************************************************)
(* The inductive invariant.                                                *)
(***************************************************************************)
IInv == TypeOK /\ ListMatchesRoutines

(***************************************************************************)
(* Where Run accepts a request, no live goroutine is at work on its        *)
(* volume: such a goroutine has a pending entry, which is the only entry   *)
(* of the volume and hence the one isOperationExists stops at.             *)
(***************************************************************************)
LEMMA AcceptedMeansFree ==
    ASSUME OnePodPerVolume, IInv, NEW n \in Requests,
           RunAccepts(operations, n[1], n[2]),
           NEW q \in Live
    PROVE  running[q][1] # n[1]
<1> SUFFICES ASSUME running[q][1] = n[1]
             PROVE  FALSE
  OBVIOUS
<1>1. running[q] \in Requests
  BY DEF IInv, TypeOK, Live
<1>2. PICK i \in DOMAIN operations :
        /\ operations[i].volumeName = running[q][1]
        /\ operations[i].podName = running[q][2]
        /\ operations[i].operationPending
  BY DEF IInv, ListMatchesRoutines, RoutineHasPendingEntry
<1>3. n[1] # NoVolume /\ Excludes(operations[i].podName, n[2])
  BY <1>1, <1>2 DEF OnePodPerVolume
<1>4. isOperationExists(operations, n[1], n[2])
  BY <1>2, <1>3 DEF isOperationExists, Matches
<1> DEFINE k == previousOpIndex(operations, n[1], n[2])
<1>5. k \in DOMAIN operations /\ operations[k].volumeName = n[1]
  BY <1>4, PreviousOp, LenProperties DEF IInv, TypeOK
<1>6. ~operations[k].operationPending
  BY <1>4 DEF RunAccepts
<1> HIDE DEF k
<1>7. k = i
  BY <1>2, <1>5 DEF IInv, ListMatchesRoutines, OneEntryPerVolume
<1> QED
  BY <1>2, <1>6, <1>7

(***************************************************************************)
(* Run keeps the correspondence.                                           *)
(***************************************************************************)
LEMMA RunInv ==
    ASSUME OnePodPerVolume, IInv, NEW r \in Routines, NEW n \in Requests,
           Run(r, n)
    PROVE  IInv'
<1>1. TypeOK'
  BY RunType DEF IInv
<1>2. /\ operations \in Seq(Operation)
      /\ operations' \in Seq(Operation)
      /\ DOMAIN operations = 1 .. Len(operations)
      /\ DOMAIN operations' = 1 .. Len(operations')
      /\ Len(operations) \in Nat
  BY <1>1, LenProperties DEF IInv, TypeOK
<1>3. /\ n[1] \in VolumeNames /\ n[2] \in PodNames
      /\ n = <<n[1], n[2]>>
  BY RequestNames
<1>4. /\ r \notin Live
      /\ Live' = Live \cup {r}
      /\ running'[r] = n
      /\ \A q \in Live : running'[q] = running[q]
  BY IdleAssumption DEF IInv, TypeOK, Run, Live
<1>5. \A q \in Live : running[q][1] # n[1]
  BY AcceptedMeansFree DEF Run
\* One entry k of the new list is the request's; every other one is an
\* entry of the old list, in its place, and of another volume.
<1>6. PICK k \in DOMAIN operations' :
        /\ operations'[k].volumeName = n[1]
        /\ operations'[k].podName = n[2]
        /\ operations'[k].operationPending
        /\ \A i \in DOMAIN operations' :
             i # k => /\ i \in DOMAIN operations
                      /\ operations'[i] = operations[i]
                      /\ operations[i].volumeName # n[1]
        /\ \A i \in DOMAIN operations :
             operations[i].volumeName # n[1] =>
                i \in DOMAIN operations' /\ i # k
  <2>1. CASE isOperationExists(operations, n[1], n[2])
    <3> DEFINE k == previousOpIndex(operations, n[1], n[2])
    <3>1. /\ k \in DOMAIN operations
          /\ operations[k].volumeName = n[1]
      BY <1>2, <2>1, PreviousOp
    <3>2. /\ Len(operations') = Len(operations)
          /\ operations'[k].volumeName = n[1]
          /\ operations'[k].podName = n[2]
          /\ operations'[k].operationPending
          /\ \A i \in 1 .. Len(operations) :
               i # k => operations'[i] = operations[i]
      BY <1>2, <1>3, <2>1, RunTakesOver DEF Run
    <3> HIDE DEF k
    <3>3. \A i \in DOMAIN operations : i # k => operations[i].volumeName # n[1]
      BY <3>1 DEF IInv, ListMatchesRoutines, OneEntryPerVolume
    <3> QED
      BY <1>2, <3>1, <3>2, <3>3
  <2>2. CASE ~isOperationExists(operations, n[1], n[2])
    <3> DEFINE k == Len(operations) + 1
    <3>1. /\ Len(operations') = k
          /\ operations'[k] = NewOperation(n[1], n[2])
          /\ \A i \in 1 .. Len(operations) : operations'[i] = operations[i]
      BY <1>2, <1>3, <2>2, RunAppends DEF Run
    <3>2. /\ operations'[k].volumeName = n[1]
          /\ operations'[k].podName = n[2]
          /\ operations'[k].operationPending
      BY <3>1 DEF NewOperation
    <3>3. ASSUME NEW i \in DOMAIN operations, operations[i].volumeName = n[1]
          PROVE  FALSE
      <4>1. <<operations[i].volumeName, operations[i].podName>> \in Requests
        BY DEF IInv, ListMatchesRoutines, EntriesRequested
      <4>2. n[1] # NoVolume /\ Excludes(operations[i].podName, n[2])
        BY <3>3, <4>1 DEF OnePodPerVolume
      <4> QED
        BY <2>2, <3>3, <4>2 DEF isOperationExists, Matches
    <3> QED
      BY <1>2, <3>1, <3>2, <3>3
  <2> QED
    BY <2>1, <2>2
<1>7. OneEntryPerVolume'
  BY <1>6 DEF IInv, ListMatchesRoutines, OneEntryPerVolume
<1>8. EntriesRequested'
  BY <1>3, <1>6 DEF IInv, ListMatchesRoutines, EntriesRequested
<1>9. RoutineHasPendingEntry'
  <2> SUFFICES ASSUME NEW q \in Live'
               PROVE  \E i \in DOMAIN operations' :
                        /\ operations'[i].volumeName = running'[q][1]
                        /\ operations'[i].podName = running'[q][2]
                        /\ operations'[i].operationPending
    BY DEF RoutineHasPendingEntry
  <2>1. CASE q = r
    BY <1>4, <1>6, <2>1
  <2>2. CASE q # r
    <3>1. q \in Live /\ running'[q] = running[q]
      BY <1>4, <2>2
    <3>2. PICK i \in DOMAIN operations :
            /\ operations[i].volumeName = running[q][1]
            /\ operations[i].podName = running[q][2]
            /\ operations[i].operationPending
      BY <3>1 DEF IInv, ListMatchesRoutines, RoutineHasPendingEntry
    <3>3. operations[i].volumeName # n[1]
      BY <1>5, <3>1, <3>2
    <3> QED
      BY <1>6, <3>1, <3>2, <3>3
  <2> QED
    BY <2>1, <2>2
<1>10. PendingHasRoutine'
  <2> SUFFICES ASSUME NEW i \in DOMAIN operations',
                      operations'[i].operationPending
               PROVE  \E q \in Live' :
                        running'[q] = <<operations'[i].volumeName,
                                        operations'[i].podName>>
    BY DEF PendingHasRoutine
  <2>1. CASE i = k
    BY <1>3, <1>4, <1>6, <2>1
  <2>2. CASE i # k
    BY <1>4, <1>6, <2>2 DEF IInv, ListMatchesRoutines, PendingHasRoutine
  <2> QED
    BY <2>1, <2>2
<1>11. OneRoutinePerVolume'
  BY <1>4, <1>5 DEF IInv, ListMatchesRoutines, OneRoutinePerVolume
<1> QED
  BY <1>1, <1>7, <1>8, <1>9, <1>10, <1>11 DEF IInv, ListMatchesRoutines

(***************************************************************************)
(* operationComplete keeps the correspondence: the entry it finds is that  *)
(* of the goroutine that ends, and deleteOperation only moves the others.  *)
(***************************************************************************)
LEMMA CompleteInv ==
    ASSUME IInv, NEW r \in Routines, NEW failed \in BOOLEAN,
           Complete(r, failed)
    PROVE  IInv'
<1> DEFINE v == running[r][1]
           p == running[r][2]
           k == getOperation(operations, v, p)
<1>1. TypeOK'
  BY CompleteType DEF IInv
<1>2. /\ operations \in Seq(Operation)
      /\ operations' = operationComplete(operations, v, p, failed)
      /\ DOMAIN operations = 1 .. Len(operations)
      /\ DOMAIN operations' = 1 .. Len(operations')
      /\ Len(operations) \in Nat
  BY <1>1, LenProperties DEF IInv, TypeOK, Complete
<1>3. /\ r \in Live
      /\ Live' = Live \ {r}
      /\ \A q \in Live' : running'[q] = running[q]
  BY DEF IInv, TypeOK, Complete, Live
<1>4. EntriesNamed(operations, v, p) # {}
  BY <1>3 DEF IInv, ListMatchesRoutines, RoutineHasPendingEntry, EntriesNamed
<1> HIDE DEF v, p
<1>5. k \in DOMAIN operations /\ operations[k].volumeName = v
  BY <1>2, <1>4, GetOperation
<1> HIDE DEF k
<1>6. /\ \A i \in DOMAIN operations : operations[i].volumeName = v => i = k
      /\ \A q \in Live' : running[q][1] # v
  BY <1>3, <1>5 DEF IInv, ListMatchesRoutines, OneEntryPerVolume,
                    OneRoutinePerVolume, v
\* Every pending entry of the new list is an entry of the old one other than
\* that of r, and the other way round.
<1>7. PICK from \in [DOMAIN operations' -> DOMAIN operations] :
        ComesFrom(from, operations', operations, k)
  <2>1. k = getOperation(operations, v, p)
    BY DEF k
  <2> QED
    BY <1>2, <1>4, <2>1, CompleteMoves
<1>8. OneEntryPerVolume'
  BY <1>7 DEF ComesFrom, IInv, ListMatchesRoutines, OneEntryPerVolume
<1>9. EntriesRequested'
  BY <1>7 DEF ComesFrom, IInv, ListMatchesRoutines, EntriesRequested
<1>10. RoutineHasPendingEntry'
  <2> SUFFICES ASSUME NEW q \in Live'
               PROVE  \E i \in DOMAIN operations' :
                        /\ operations'[i].volumeName = running'[q][1]
                        /\ operations'[i].podName = running'[q][2]
                        /\ operations'[i].operationPending
    BY DEF RoutineHasPendingEntry
  <2>1. PICK j \in DOMAIN operations :
          /\ operations[j].volumeName = running[q][1]
          /\ operations[j].podName = running[q][2]
          /\ operations[j].operationPending
    BY <1>3 DEF IInv, ListMatchesRoutines, RoutineHasPendingEntry
  <2>2. j # k
    BY <1>5, <1>6, <2>1
  <2> QED
    BY <1>3, <1>7, <2>1, <2>2 DEF ComesFrom
<1>11. PendingHasRoutine'
  <2> SUFFICES ASSUME NEW i \in DOMAIN operations',
                      operations'[i].operationPending
               PROVE  \E q \in Live' :
                        running'[q] = <<operations'[i].volumeName,
                                        operations'[i].podName>>
    BY DEF PendingHasRoutine
  <2>1. PICK q \in Live :
          running[q] = <<operations[from[i]].volumeName,
                         operations[from[i]].podName>>
    BY <1>7 DEF ComesFrom, IInv, ListMatchesRoutines, PendingHasRoutine
  <2>2. q # r
    BY <1>6, <1>7, <2>1 DEF ComesFrom, v
  <2> QED
    BY <1>3, <1>7, <2>1, <2>2 DEF ComesFrom
<1>12. OneRoutinePerVolume'
  BY <1>3 DEF IInv, ListMatchesRoutines, OneRoutinePerVolume
<1> QED
  BY <1>1, <1>8, <1>9, <1>10, <1>11, <1>12 DEF IInv, ListMatchesRoutines

(***************************************************************************)
(* The passing of time disturbs neither the names nor the pending flags.   *)
(***************************************************************************)
LEMMA TickInv ==
    ASSUME IInv, Tick
    PROVE  IInv'
<1>1. /\ operations \in Seq(Operation)
      /\ operations' = Later(operations)
      /\ running' = running
  BY DEF IInv, TypeOK, Tick
<1>2. /\ operations' \in Seq(Operation)
      /\ DOMAIN operations' = DOMAIN operations
      /\ \A i \in DOMAIN operations :
           /\ operations'[i].volumeName = operations[i].volumeName
           /\ operations'[i].podName = operations[i].podName
           /\ operations'[i].operationPending = operations[i].operationPending
  BY <1>1, LaterEntries, LenProperties
<1>3. Live' = Live
  BY <1>1 DEF Live
<1>4. TypeOK'
  BY <1>1, <1>2 DEF IInv, TypeOK
<1>5. OneEntryPerVolume' /\ EntriesRequested'
  BY <1>2 DEF IInv, ListMatchesRoutines, OneEntryPerVolume, EntriesRequested
<1>6. RoutineHasPendingEntry'
  BY <1>1, <1>2, <1>3 DEF IInv, ListMatchesRoutines, RoutineHasPendingEntry
<1>7. PendingHasRoutine'
  BY <1>1, <1>2, <1>3 DEF IInv, ListMatchesRoutines, PendingHasRoutine
<1>8. OneRoutinePerVolume'
  BY <1>1, <1>3 DEF IInv, ListMatchesRoutines, OneRoutinePerVolume
<1> QED
  BY <1>4, <1>5, <1>6, <1>7, <1>8 DEF ComesFrom, IInv, ListMatchesRoutines

(***************************************************************************)
(* IInv holds initially and is kept by Run, by the deferred                *)
(* operationComplete and by the passing of time.                           *)
(***************************************************************************)
LEMMA Inductive ==
    ASSUME OnePodPerVolume
    PROVE  Spec => []IInv
<1>1. Init => IInv
  BY EmptySeq
     DEF Init, IInv, TypeOK, Live, ListMatchesRoutines, OneEntryPerVolume,
         EntriesRequested, RoutineHasPendingEntry, PendingHasRoutine,
         OneRoutinePerVolume
<1>2. ASSUME IInv, [Next]_vars
      PROVE  IInv'
  <2>1. ASSUME NEW r \in Routines, NEW n \in Requests, Run(r, n)
        PROVE  IInv'
    BY <1>2, <2>1, RunInv
  <2>2. ASSUME NEW r \in Routines, NEW failed \in BOOLEAN,
               Complete(r, failed)
        PROVE  IInv'
    BY <1>2, <2>2, CompleteInv
  <2>3. CASE Tick
    BY <1>2, <2>3, TickInv
  <2>4. CASE UNCHANGED vars
    BY <1>2, <2>4
       DEF vars, IInv, TypeOK, Live, ListMatchesRoutines, OneEntryPerVolume,
           EntriesRequested, RoutineHasPendingEntry, PendingHasRoutine,
           OneRoutinePerVolume
  <2> QED
    BY <1>2, <2>1, <2>2, <2>3, <2>4 DEF Next
<1> QED
  BY <1>1, <1>2, PTL DEF Spec
-----------------------------------------------------------------------------
(***************************************************************************)
(* For volumes whose operations all exclude one another, the list and the  *)
(* goroutines correspond in every reachable state: no goroutine is without *)
(* its pending entry, and no entry stays pending without its goroutine.    *)
(***************************************************************************)
THEOREM Correspondence ==
    ASSUME OnePodPerVolume
    PROVE  Spec => []ListMatchesRoutines
<1>1. IInv => ListMatchesRoutines
  BY DEF IInv
<1> QED
  BY <1>1, Inductive, PTL

(***************************************************************************)
(* For such volumes, nestedPendingOperations never lets two goroutines     *)
(* execute operations that exclude one another.                            *)
(***************************************************************************)
THEOREM Exclusion ==
    ASSUME OnePodPerVolume
    PROVE  Spec => []MutualExclusion
<1>1. IInv => MutualExclusion
  BY DEF IInv, ListMatchesRoutines, OneRoutinePerVolume, MutualExclusion,
         Conflict
<1> QED
  BY <1>1, Inductive, PTL

(***************************************************************************)
(* For such volumes, nestedPendingOperations implements the specification  *)
(* of exclusive operations: Run starts an operation only where the         *)
(* abstract Start does, Complete is its End, and time passes unseen.       *)
(***************************************************************************)
THEOREM Implementation ==
    ASSUME OnePodPerVolume
    PROVE  Spec => ExclusiveSpec
<1>1. Init => Exclusive!Init
  BY DEF Init, Exclusive!Init
<1>2. ASSUME IInv, [Next]_vars
      PROVE  [Exclusive!Next]_running
  <2>1. ASSUME NEW r \in Routines, NEW n \in Requests, Run(r, n)
        PROVE  Exclusive!Next
    <3>1. ASSUME NEW q \in Routines, running[q] # Idle
          PROVE  ~Conflict(running[q], n)
      <4>1. q \in Live /\ RunAccepts(operations, n[1], n[2])
        BY <2>1, <3>1 DEF Live, Run
      <4>2. running[q][1] # n[1]
        BY <1>2, <4>1, AcceptedMeansFree
      <4> QED
        BY <4>2 DEF Conflict
    <3>2. Exclusive!Start(r, n)
      BY <2>1, <3>1 DEF Run, Exclusive!Start
    <3> QED
      BY <3>2 DEF Exclusive!Next
  <2>2. ASSUME NEW r \in Routines, NEW failed \in BOOLEAN,
               Complete(r, failed)
        PROVE  Exclusive!Next
    <3>1. Exclusive!End(r)
      BY <2>2 DEF Complete, Exclusive!End
    <3> QED
      BY <3>1 DEF Exclusive!Next
  <2>3. CASE Tick
    BY <2>3 DEF Tick
  <2>4. CASE UNCHANGED vars
    BY <2>4 DEF vars
  <2> QED
    BY <1>2, <2>1, <2>2, <2>3, <2>4 DEF Next
<1> QED
  BY <1>1, <1>2, Inductive, PTL DEF Spec, ExclusiveSpec, Exclusive!Spec
-----------------------------------------------------------------------------
(***************************************************************************)
(* Where volumes are shared, entries of one name become duplicated and a   *)
(* goroutine that ends may complete the entry of another one of its name.  *)
(* What is left of the correspondence is that there are enough pending     *)
(* entries to give each live goroutine one of its own, under its name.     *)
(***************************************************************************)
Owns(own) ==
    /\ own \in [Live -> DOMAIN operations]
    /\ \A r \in Live :
         /\ operations[own[r]].volumeName = running[r][1]
         /\ operations[own[r]].podName = running[r][2]
         /\ operations[own[r]].operationPending
    /\ \A r, q \in Live : own[r] = own[q] => r = q

EnoughEntries == \E own \in [Live -> DOMAIN operations] : Owns(own)

SharedInv == TypeOK /\ EnoughEntries

(***************************************************************************)
(* Run gives its goroutine the entry it appends, or the one it takes over, *)
(* which is not pending and so is nobody's.                                *)
(***************************************************************************)
LEMMA RunOwns ==
    ASSUME SharedInv, NEW r \in Routines, NEW n \in Requests, Run(r, n)
    PROVE  SharedInv'
<1>1. TypeOK'
  BY RunType DEF SharedInv
<1>2. /\ operations \in Seq(Operation)
      /\ DOMAIN operations = 1 .. Len(operations)
      /\ DOMAIN operations' = 1 .. Len(operations')
      /\ Len(operations) \in Nat
  BY <1>1, LenProperties DEF SharedInv, TypeOK
<1>3. n[1] \in VolumeNames /\ n[2] \in PodNames
  BY RequestNames
<1>4. /\ r \notin Live
      /\ Live' = Live \cup {r}
      /\ running'[r] = n
      /\ \A q \in Live : running'[q] = running[q]
  BY IdleAssumption DEF SharedInv, TypeOK, Run, Live
<1>5. PICK own \in [Live -> DOMAIN operations] : Owns(own)
  BY DEF SharedInv, EnoughEntries
<1>6. PICK k \in DOMAIN operations' :
        /\ operations'[k].volumeName = n[1]
        /\ operations'[k].podName = n[2]
        /\ operations'[k].operationPending
        /\ \A i \in DOMAIN operations : operations[i].operationPending =>
             i \in DOMAIN operations' /\ i # k /\ operations'[i] = operations[i]
  <2>1. CASE isOperationExists(operations, n[1], n[2])
    <3> DEFINE k == previousOpIndex(operations, n[1], n[2])
    <3>1. ~operations[k].operationPending
      BY <2>1 DEF Run, RunAccepts
    <3>2. /\ Len(operations') = Len(operations)
          /\ k \in 1 .. Len(operations)
          /\ operations'[k].volumeName = n[1]
          /\ operations'[k].podName = n[2]
          /\ operations'[k].operationPending
          /\ \A i \in 1 .. Len(operations) :
               i # k => operations'[i] = operations[i]
      BY <1>2, <1>3, <2>1, RunTakesOver DEF Run
    <3> HIDE DEF k
    <3> QED
      BY <1>2, <3>1, <3>2
  <2>2. CASE ~isOperationExists(operations, n[1], n[2])
    <3> DEFINE k == Len(operations) + 1
    <3>1. /\ Len(operations') = k
          /\ operations'[k] = NewOperation(n[1], n[2])
          /\ \A i \in 1 .. Len(operations) : operations'[i] = operations[i]
      BY <1>2, <1>3, <2>2, RunAppends DEF Run
    <3>2. /\ operations'[k].volumeName = n[1]
          /\ operations'[k].podName = n[2]
          /\ operations'[k].operationPending
      BY <3>1 DEF NewOperation
    <3> QED
      BY <1>2, <3>1, <3>2
  <2> QED
    BY <2>1, <2>2
<1> DEFINE own2 == [q \in Live' |-> IF q = r THEN k ELSE own[q]]
<1>7. PICK new : new = own2
  OBVIOUS
<1>8. new \in [Live' -> DOMAIN operations']
  BY <1>4, <1>5, <1>6, <1>7 DEF Owns
<1>9. Owns(new)'
  <2>1. \A q \in Live :
          /\ new[q] = own[q]
          /\ own[q] \in DOMAIN operations
          /\ own[q] # k
          /\ operations'[own[q]] = operations[own[q]]
    BY <1>4, <1>5, <1>6, <1>7 DEF Owns
  <2>2. new[r] = k
    BY <1>4, <1>7
  <2> HIDE DEF own2
  <2>3. \A q \in Live' :
         /\ operations'[new[q]].volumeName = running'[q][1]
         /\ operations'[new[q]].podName = running'[q][2]
         /\ operations'[new[q]].operationPending
    BY <1>4, <1>5, <1>6, <2>1, <2>2 DEF Owns
  <2>4. \A q1, q2 \in Live' : new[q1] = new[q2] => q1 = q2
    BY <1>4, <1>5, <2>1, <2>2 DEF Owns
  <2> QED
    BY <1>8, <2>3, <2>4 DEF Owns
<1> QED
  BY <1>1, <1>8, <1>9 DEF SharedInv, EnoughEntries

(***************************************************************************)
(* A goroutine that ends finds an entry of its name.  If it is another     *)
(* goroutine's, that one is left with the entry of the goroutine that      *)
(* ends, which has the same name.                                          *)
(***************************************************************************)
LEMMA CompleteOwns ==
    ASSUME SharedInv, NEW r \in Routines, NEW failed \in BOOLEAN,
           Complete(r, failed)
    PROVE  SharedInv'
<1> DEFINE v == running[r][1]
           p == running[r][2]
           k == getOperation(operations, v, p)
<1>1. TypeOK'
  BY CompleteType DEF SharedInv
<1>2. /\ operations \in Seq(Operation)
      /\ operations' = operationComplete(operations, v, p, failed)
      /\ DOMAIN operations = 1 .. Len(operations)
  BY LenProperties DEF SharedInv, TypeOK, Complete
<1>3. /\ r \in Live
      /\ Live' = Live \ {r}
      /\ \A q \in Live' : running'[q] = running[q]
  BY DEF SharedInv, TypeOK, Complete, Live
<1>4. PICK own \in [Live -> DOMAIN operations] : Owns(own)
  BY DEF SharedInv, EnoughEntries
<1>5. EntriesNamed(operations, v, p) # {}
  BY <1>3, <1>4 DEF Owns, EntriesNamed
<1> HIDE DEF v, p
<1>6. /\ k \in DOMAIN operations
      /\ operations[k].volumeName = v
      /\ operations[k].podName = p
  BY <1>2, <1>5, GetOperation
<1> HIDE DEF k
<1>7. PICK from \in [DOMAIN operations' -> DOMAIN operations] :
        ComesFrom(from, operations', operations, k)
  <2>1. k = getOperation(operations, v, p)
    BY DEF k
  <2> QED
    BY <1>2, <1>5, <2>1, CompleteMoves
\* An entry of the old list that is not the one found, for each goroutine.
<1> DEFINE left(q) == IF own[q] = k THEN own[r] ELSE own[q]
<1>8. ASSUME NEW q \in Live'
      PROVE  /\ left(q) \in DOMAIN operations
             /\ left(q) # k
             /\ operations[left(q)].volumeName = running[q][1]
             /\ operations[left(q)].podName = running[q][2]
             /\ operations[left(q)].operationPending
  <2>1. q \in Live /\ q # r /\ own[q] # own[r]
    BY <1>3, <1>4 DEF Owns
  <2>2. CASE own[q] = k
    BY <1>3, <1>4, <1>6, <2>1, <2>2 DEF Owns, v, p
  <2>3. CASE own[q] # k
    BY <1>3, <1>4, <2>1, <2>3 DEF Owns
  <2> QED
    BY <2>2, <2>3
<1>9. \A q1, q2 \in Live' : left(q1) = left(q2) => q1 = q2
  BY <1>3, <1>4 DEF Owns
<1> HIDE DEF left
<1> DEFINE own2 == [q \in Live' |-> CHOOSE i \in DOMAIN operations' :
                                      from[i] = left(q)]
<1>10. ASSUME NEW q \in Live'
       PROVE  /\ own2[q] \in DOMAIN operations'
              /\ from[own2[q]] = left(q)
  <2>1. \E i \in DOMAIN operations' : from[i] = left(q)
    BY <1>7, <1>8 DEF ComesFrom
  <2> QED
    BY <2>1
<1>11. PICK new : new = own2
  OBVIOUS
<1>12. new \in [Live' -> DOMAIN operations']
  BY <1>10, <1>11
<1> HIDE DEF own2
<1>13. ASSUME NEW q \in Live'
       PROVE  /\ operations'[new[q]].volumeName = running'[q][1]
              /\ operations'[new[q]].podName = running'[q][2]
              /\ operations'[new[q]].operationPending
  <2>1. /\ new[q] \in DOMAIN operations'
        /\ from[new[q]] = left(q)
    BY <1>10, <1>11
  <2>2. operations'[new[q]].operationPending <=>
          operations[left(q)].operationPending
    BY <1>7, <1>8, <2>1 DEF ComesFrom
  <2> QED
    BY <1>3, <1>7, <1>8, <2>1, <2>2 DEF ComesFrom
<1>14. \A q1, q2 \in Live' : new[q1] = new[q2] => q1 = q2
  BY <1>9, <1>10, <1>11
<1>15. Owns(new)'
  BY <1>12, <1>13, <1>14 DEF Owns
<1> QED
  BY <1>1, <1>12, <1>15 DEF SharedInv, EnoughEntries

(***************************************************************************)
(* RoutineHasEntry for any requests, also where pods share a volume and    *)
(* where operations name no volume: a goroutine that ends finds an entry   *)
(* of its name, so that deleteOperation never indexes the list with -1.    *)
(***************************************************************************)
THEOREM EntryFound == Spec => []RoutineHasEntry
<1>1. Init => SharedInv
  <2> SUFFICES ASSUME Init
               PROVE  SharedInv
    OBVIOUS
  <2>1. TypeOK /\ Live = {}
    BY EmptySeq DEF Init, TypeOK, Live
  <2> DEFINE own == [r \in Live |-> 1]
  <2>2. own \in [Live -> DOMAIN operations] /\ Owns(own)
    BY <2>1 DEF Owns
  <2> QED
    BY <2>1, <2>2 DEF SharedInv, EnoughEntries
<1>2. ASSUME SharedInv, [Next]_vars
      PROVE  SharedInv'
  <2>1. ASSUME NEW r \in Routines, NEW n \in Requests, Run(r, n)
        PROVE  SharedInv'
    BY <1>2, <2>1, RunOwns
  <2>2. ASSUME NEW r \in Routines, NEW failed \in BOOLEAN,
               Complete(r, failed)
        PROVE  SharedInv'
    BY <1>2, <2>2, CompleteOwns
  <2>3. CASE Tick
    <3>1. /\ operations \in Seq(Operation)
          /\ operations' \in Seq(Operation)
          /\ Len(operations') = Len(operations)
          /\ \A i \in 1 .. Len(operations) :
               /\ operations'[i].volumeName = operations[i].volumeName
               /\ operations'[i].podName = operations[i].podName
               /\ operations'[i].operationPending =
                    operations[i].operationPending
      BY <1>2, <2>3, LaterEntries DEF SharedInv, TypeOK, Tick
    <3>2. /\ running' = running /\ Live' = Live
          /\ DOMAIN operations = 1 .. Len(operations)
          /\ DOMAIN operations' = 1 .. Len(operations)
      BY <2>3, <3>1, LenProperties DEF Tick, Live
    <3>3. PICK own \in [Live -> DOMAIN operations] : Owns(own)
      BY <1>2 DEF SharedInv, EnoughEntries
    <3>4. Owns(own)'
      BY <3>1, <3>2, <3>3 DEF Owns
    <3> QED
      BY <1>2, <3>1, <3>2, <3>4 DEF SharedInv, EnoughEntries, TypeOK
  <2>4. CASE UNCHANGED vars
    <3>1. operations' = operations /\ running' = running /\ Live' = Live
      BY <2>4 DEF vars, Live
    <3>2. PICK own \in [Live -> DOMAIN operations] : Owns(own)
      BY <1>2 DEF SharedInv, EnoughEntries
    <3>3. Owns(own)'
      BY <3>1, <3>2 DEF Owns
    <3> QED
      BY <1>2, <3>1, <3>2, <3>3 DEF SharedInv, EnoughEntries, TypeOK
  <2> QED
    BY <1>2, <2>1, <2>2, <2>3, <2>4 DEF Next
<1>3. SharedInv => RoutineHasEntry
  BY DEF SharedInv, EnoughEntries, Owns, RoutineHasEntry, EntriesNamed
<1> QED
  BY <1>1, <1>2, <1>3, PTL DEF Spec
=============================================================================
