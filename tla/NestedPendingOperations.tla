---------------------- MODULE NestedPendingOperations ----------------------
(***************************************************************************)
(* nestedPendingOperations of                                              *)
(* pkg/volume/util/nestedpendingoperations: the callers that ask for an    *)
(* operation, the goroutines that execute one, and the list of operations  *)
(* that is to keep conflicting goroutines apart.                           *)
(***************************************************************************)
EXTENDS OperationList

CONSTANTS
    Requests,       \* the <<volumeName, podName>> the callers pass to Run
    Routines,       \* identities for goroutines
    Idle,           \* a goroutine identity that is not in use
    MaxOperations   \* bound on the length of the list

ASSUME RequestsAssumption == Requests \subseteq VolumeNames \X PodNames
ASSUME IdleAssumption == Idle \notin Requests
ASSUME MaxOperationsAssumption == MaxOperations \in Nat

VARIABLES
    operations,     \* nestedPendingOperations.operations
    running         \* the request each live goroutine executes

vars == <<operations, running>>

TypeOK ==
    /\ operations \in Seq(Operation)
    /\ running \in [Routines -> Requests \cup {Idle}]

Init ==
    /\ operations = << >>
    /\ running = [r \in Routines |-> Idle]

\* Run, when it accepts; a refused Run changes nothing.
Run(r, n) ==
    /\ running[r] = Idle
    /\ RunAccepts(operations, n[1], n[2])
    /\ isOperationExists(operations, n[1], n[2])
          \/ Len(operations) < MaxOperations
    /\ operations' = AfterRun(operations, n[1], n[2])
    /\ running' = [running EXCEPT ![r] = n]

\* operationFunc has returned, with an error or without, and the deferred
\* operationComplete runs.
Complete(r, failed) ==
    /\ running[r] # Idle
    /\ operations' =
         operationComplete(operations, running[r][1], running[r][2], failed)
    /\ running' = [running EXCEPT ![r] = Idle]

Tick ==
    /\ BackingOff(operations)
    /\ operations' = Later(operations)
    /\ UNCHANGED running

Next ==
    \/ \E r \in Routines, n \in Requests : Run(r, n)
    \/ \E r \in Routines, failed \in BOOLEAN : Complete(r, failed)
    \/ Tick

Spec == Init /\ [][Next]_vars

\* An operationFunc returns (the volume operations have timeouts), and time
\* passes.
Fairness ==
    /\ \A r \in Routines : WF_vars(\E failed \in BOOLEAN : Complete(r, failed))
    /\ WF_vars(Tick)

FairSpec == Spec /\ Fairness
-----------------------------------------------------------------------------
Live == {r \in Routines : running[r] # Idle}

Conflict(n1, n2) ==
    n1[1] # NoVolume /\ n1[1] = n2[1] /\ Excludes(n1[2], n2[2])

\* Two goroutines that execute operations on the same volume name different
\* pods: what Run documents, and what mount, unmount and device operations
\* rely on.
MutualExclusion ==
    \A r1, r2 \in Live :
        r1 # r2 => ~Conflict(running[r1], running[r2])

\* The goroutines obey the abstract specification of exclusive operations:
\* refinement, with the goroutines as its state.
Exclusive ==
    INSTANCE ExclusiveOperations
        WITH executing <- running, Conflicting <- Conflict

ExclusiveSpec == Exclusive!Spec

\* When a goroutine ends, the entry deleteOperation or getOperation looks
\* for is in the list: deleteOperation never indexes the list with -1, also
\* where entries of one name have become duplicated.
RoutineHasEntry ==
    \A r \in Live :
        EntriesNamed(operations, running[r][1], running[r][2]) # {}

\* Every entry that is marked pending has a goroutine that will complete it.
\* An entry without one would refuse the volume's operations forever.
PendingHasRoutine ==
    \A i \in DOMAIN operations :
        operations[i].operationPending =>
            \E r \in Live :
                running[r] = <<operations[i].volumeName, operations[i].podName>>

\* A volume's operations all exclude one another, and none is without a
\* volume: so the kubelet uses the list for volumes that are not attachable,
\* whose unique name holds the pod's.
OnePodPerVolume ==
    \A n1, n2 \in Requests :
        n1[1] # NoVolume /\ (n1[1] = n2[1] => Excludes(n1[2], n2[2]))

OneEntryPerVolume ==
    \A i, j \in DOMAIN operations :
        operations[i].volumeName = operations[j].volumeName => i = j

EntriesRequested ==
    \A i \in DOMAIN operations :
        <<operations[i].volumeName, operations[i].podName>> \in Requests

RoutineHasPendingEntry ==
    \A r \in Live : \E i \in DOMAIN operations :
        /\ operations[i].volumeName = running[r][1]
        /\ operations[i].podName = running[r][2]
        /\ operations[i].operationPending

OneRoutinePerVolume ==
    \A r1, r2 \in Live : running[r1][1] = running[r2][1] => r1 = r2

\* The list and the goroutines correspond: the pending entries, one for a
\* volume, are those of the live goroutines, one for a volume, through any
\* number of take-overs, failures and deletions that move entries.
ListMatchesRoutines ==
    /\ OneEntryPerVolume
    /\ EntriesRequested
    /\ RoutineHasPendingEntry
    /\ PendingHasRoutine
    /\ OneRoutinePerVolume

\* No request is refused forever: again and again Run would accept it.
NeverStuck ==
    \A n \in Requests : []<>RunAccepts(operations, n[1], n[2])
=============================================================================
