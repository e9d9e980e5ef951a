--------------------------- MODULE OperationList ---------------------------
(***************************************************************************)
(* The list of operations kept by nestedPendingOperations, as pure         *)
(* operators on the list: what Run, IsOperationPending and                 *)
(* operationComplete read from it and leave in it.  The exponential        *)
(* back-off that every entry carries is modelled with the time that is     *)
(* still to pass before a retry is permitted.                              *)
(*                                                                         *)
(* Every operator here runs under nestedPendingOperations.lock, so one     *)
(* evaluation is one atomic step of the components that use this module.   *)
(***************************************************************************)
EXTENDS Integers, Sequences

CONSTANTS
    Volumes,                     \* unique volume names
    Pods,                        \* unique pod names
    NoVolume,                    \* emptyUniqueVolumeName
    NoPod,                       \* emptyUniquePodName
    ExponentialBackOffOnError,   \* argument of NewNestedPendingOperations
    InitialDurationBeforeRetry,  \* in units of time; 500ms in the code
    MaxDurationBeforeRetry       \* in units of time; 2 minutes in the code

ASSUME NamesAssumption ==
    /\ NoVolume \notin Volumes
    /\ NoPod \notin Pods

ASSUME BackoffAssumption ==
    /\ ExponentialBackOffOnError \in BOOLEAN
    /\ InitialDurationBeforeRetry \in Nat \ {0}
    /\ MaxDurationBeforeRetry \in Nat
    /\ InitialDurationBeforeRetry <= MaxDurationBeforeRetry

VolumeNames == Volumes \cup {NoVolume}
PodNames    == Pods \cup {NoPod}
-----------------------------------------------------------------------------
(***************************************************************************)
(* ExponentialBackoff: durationBeforeRetry, and how much of it has not     *)
(* elapsed since lastErrorTime.                                            *)
(***************************************************************************)
ExponentialBackoff ==
    [durationBeforeRetry : 0 .. MaxDurationBeforeRetry,
     remaining           : 0 .. MaxDurationBeforeRetry]

NoBackoff == [durationBeforeRetry |-> 0, remaining |-> 0]

SafeToRetry(expBackoff) == expBackoff.remaining = 0

\* Mutant: the doubled duration is not capped.
UncappedDuration(d) == IF d = 0 THEN InitialDurationBeforeRetry ELSE 2 * d

NextDuration(d) ==
    IF d = 0 THEN InitialDurationBeforeRetry
    ELSE IF 2 * d > MaxDurationBeforeRetry THEN MaxDurationBeforeRetry
    ELSE 2 * d

Update(expBackoff) ==
    LET d == NextDuration(expBackoff.durationBeforeRetry)
    IN  [durationBeforeRetry |-> d, remaining |-> d]
-----------------------------------------------------------------------------
Operation ==
    [volumeName       : VolumeNames,
     podName          : PodNames,
     operationPending : BOOLEAN,
     expBackoff       : ExponentialBackoff]

\* Two operations of a volume exclude each other unless both name a pod and
\* the pods differ.
Excludes(podName1, podName2) ==
    podName1 = NoPod \/ podName2 = NoPod \/ podName1 = podName2

\* Mutant: a volume-wide operation is matched with its own kind only.
MatchesSameNameOnly(ops, volumeName, podName) ==
    {i \in DOMAIN ops :
        /\ volumeName # NoVolume
        /\ ops[i].volumeName = volumeName
        /\ ops[i].podName = podName}

\* The indices at which the loop of isOperationExists would stop.
Matches(ops, volumeName, podName) ==
    {i \in DOMAIN ops :
        /\ volumeName # NoVolume
        /\ ops[i].volumeName = volumeName
        /\ Excludes(ops[i].podName, podName)}

isOperationExists(ops, volumeName, podName) ==
    Matches(ops, volumeName, podName) # {}

\* The first index of a non-empty set: the loops return or break on it.
First(indices) == CHOOSE i \in indices : \A j \in indices : i <= j

previousOpIndex(ops, volumeName, podName) ==
    First(Matches(ops, volumeName, podName))

IsOperationPending(ops, volumeName, podName) ==
    /\ isOperationExists(ops, volumeName, podName)
    /\ ops[previousOpIndex(ops, volumeName, podName)].operationPending

\* Mutant: the pending flag of the entry found is not looked at.
RunAcceptsPending(ops, volumeName, podName) ==
    isOperationExists(ops, volumeName, podName) =>
        SafeToRetry(
            ops[previousOpIndex(ops, volumeName, podName)].expBackoff)

\* Run returns neither an AlreadyExists nor an ExponentialBackoff error.
RunAccepts(ops, volumeName, podName) ==
    isOperationExists(ops, volumeName, podName) =>
        LET previousOp == ops[previousOpIndex(ops, volumeName, podName)]
        IN  /\ ~previousOp.operationPending
            /\ SafeToRetry(previousOp.expBackoff)

NewOperation(volumeName, podName) ==
    [volumeName       |-> volumeName,
     podName          |-> podName,
     operationPending |-> TRUE,
     expBackoff       |-> NoBackoff]

\* Mutant: the entry taken over keeps its old name.
AfterRunKeepingName(ops, volumeName, podName) ==
    IF isOperationExists(ops, volumeName, podName)
    THEN [ops EXCEPT ![previousOpIndex(ops, volumeName, podName)] =
            [@ EXCEPT !.operationPending = TRUE]]
    ELSE Append(ops, NewOperation(volumeName, podName))

\* The list Run leaves when it accepts: the first matching entry is taken
\* over, under the new name, or else an entry is appended.
AfterRun(ops, volumeName, podName) ==
    IF isOperationExists(ops, volumeName, podName)
    THEN [ops EXCEPT ![previousOpIndex(ops, volumeName, podName)] =
            [@ EXCEPT !.operationPending = TRUE,
                      !.volumeName       = volumeName,
                      !.podName          = podName]]
    ELSE Append(ops, NewOperation(volumeName, podName))

-----------------------------------------------------------------------------
EntriesNamed(ops, volumeName, podName) ==
    {i \in DOMAIN ops : /\ ops[i].volumeName = volumeName
                        /\ ops[i].podName = podName}

getOperation(ops, volumeName, podName) ==
    First(EntriesNamed(ops, volumeName, podName))

\* Mutant: the list is cut, and the last entry is not moved.
deleteOperationCut(ops, volumeName, podName) ==
    SubSeq(ops, 1, Len(ops) - 1)

\* "Delete index without preserving order": the last entry moves into the
\* hole and the list is cut.  The index exists in every reachable state
\* (RoutineHasEntry); in the code its absence is an index of -1, a panic.
deleteOperation(ops, volumeName, podName) ==
    LET opIndex == getOperation(ops, volumeName, podName)
    IN  SubSeq([ops EXCEPT ![opIndex] = ops[Len(ops)]], 1, Len(ops) - 1)

operationComplete(ops, volumeName, podName, failed) ==
    IF ~failed \/ ~ExponentialBackOffOnError
    THEN deleteOperation(ops, volumeName, podName)
    ELSE LET opIndex == getOperation(ops, volumeName, podName)
             b       == Update(ops[opIndex].expBackoff)
         IN  [ops EXCEPT ![opIndex] = [@ EXCEPT !.operationPending = FALSE,
                                                !.expBackoff       = b]]

\* Mutant: the wait begins again whenever it is looked at.
LaterRestarting(ops) ==
    [i \in DOMAIN ops |->
        [ops[i] EXCEPT !.expBackoff.remaining =
            IF @ > 0 THEN ops[i].expBackoff.durationBeforeRetry ELSE 0]]

\* One unit of time passes for every entry that waits for its retry.
Later(ops) ==
    [i \in DOMAIN ops |->
        [ops[i] EXCEPT !.expBackoff.remaining = IF @ > 0 THEN @ - 1 ELSE 0]]

BackingOff(ops) == \E i \in DOMAIN ops : ops[i].expBackoff.remaining > 0
=============================================================================
