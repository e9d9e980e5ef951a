----------------------- MODULE AttachDetachController -----------------------
(***************************************************************************)
(* The attach/detach controller (pkg/controller/volume/attachdetach): the  *)
(* handlers of the pod and node informers, the populator, the reconciler   *)
(* with its node status updater, and the goroutines that attach, detach    *)
(* and verify volumes, against the API server, the storage back end and    *)
(* the nodes' kubelets.                                                    *)
(*                                                                         *)
(* Controller and kubelet never talk to one another: the controller takes  *)
(* a volume out of VolumesAttached before it looks at VolumesInUse and     *)
(* detaches, the kubelet puts it into VolumesInUse before it looks at      *)
(* VolumesAttached and mounts.  The kubelet is reduced to that protocol    *)
(* here; VolumeManager models it in full.                                  *)
(***************************************************************************)
EXTENDS AttachDetachCaches, FiniteSets

CONSTANTS
    PodNode,           \* the node a pod is scheduled to
    PodVolumes,        \* the volumes of a pod
    MaxFaults          \* bound on failing calls, missed deletions of pods,
                       \* deletions of node objects and restarts, together

ASSUME PodsAssumption ==
    /\ PodNode \in [Pods -> Nodes]
    /\ PodVolumes \in [Pods -> SUBSET Volumes]
ASSUME MaxFaultsAssumption == MaxFaults \in Nat

VARIABLES
    \* the API server
    livePods, gonePods,        \* pods that exist, pods that have been deleted
    nodeStatus,                \* node objects
    \* the controller's informers
    podStore, nodeStore,
    \* the storage back end: <<volume, node>>
    attachments,
    \* the kubelets: volumes per node
    kubeletAttached, kubeletMounted, kubeletReported,
    kubeletOps,                \* what an operation has done but not marked yet
    \* the controller's goroutines
    rc,                        \* the reconciler's pass
    operations, routines,      \* pending operations, at most one per volume
    verifiers,                 \* VerifyVolumesAreAttached of a node
    \* faults so far, and <<volume, node>> detached by a call that failed
    faults, detachedLate

apiVars     == <<livePods, gonePods, nodeStatus>>
storeVars   == <<podStore, nodeStore>>
kubeletVars == <<kubeletAttached, kubeletMounted, kubeletReported, kubeletOps>>
opVars      == <<operations, routines>>
ctlVars     == <<rc, opVars, verifiers>>
ghostVars   == <<faults, detachedLate>>

vars == <<apiVars, storeVars, attachments, kubeletVars, ctlVars, dswVars,
          aswVars, ghostVars>>

NodeObject == [volumesAttached : SUBSET Volumes, volumesInUse : SUBSET Volumes]

\* What the reconciler is about to do.
Steps ==
    {"idle", "detaches", "collect", "patch", "detach", "attaches", "sync"}

NoPair == <<NoVolume, NoEntry>>

Pass ==
    [step    : Steps,
     todo    : SUBSET (VolumeNodes \X BOOLEAN),  \* pairs, MountedByNode
     current : VolumeNodes \cup {NoPair},        \* pair to detach, if any
     timeout : BOOLEAN,
     updates : SUBSET (Nodes \X SUBSET Volumes)] \* statuses still to patch

IdlePass ==
    [step |-> "idle", todo |-> {}, current |-> NoPair, timeout |-> FALSE,
     updates |-> {}]

Tasks ==
    [node : Nodes,
     step : {"attach", "markAttached", "verifySafe", "forceDetach", "detach",
             "markDetached", "reportAgain", "succeeded", "failed"}]

\* "Nothing" is neither a node object nor a goroutine.
ASSUME NoRecordAssumption == NoEntry \notin NodeObject \cup Tasks

TypeOK ==
    /\ CachesTypeOK
    /\ livePods \subseteq Pods /\ gonePods \subseteq Pods
    /\ podStore \subseteq Pods
    /\ nodeStatus \in [Nodes -> NodeObject \cup {NoEntry}]
    /\ nodeStore \in [Nodes -> NodeObject \cup {NoEntry}]
    /\ attachments \subseteq VolumeNodes
    /\ kubeletAttached \in [Nodes -> SUBSET Volumes]
    /\ kubeletMounted \in [Nodes -> SUBSET Volumes]
    /\ kubeletReported \in [Nodes -> SUBSET Volumes]
    /\ kubeletOps \in [Nodes -> [Volumes -> {"none", "verified", "mounted"}]]
    /\ rc \in Pass
    /\ operations \in Seq(Operation)
    /\ routines \in [Volumes -> Tasks \cup {NoEntry}]
    /\ verifiers \in [Nodes -> [asked : SUBSET Volumes, missing : SUBSET Volumes]]
    /\ detachedLate \subseteq VolumeNodes
    /\ faults \in 0 .. MaxFaults

NoVerifier == [asked |-> {}, missing |-> {}]

NoOps == [v \in Volumes |-> "none"]

Init ==
    /\ CachesInit
    /\ livePods = {} /\ gonePods = {} /\ podStore = {}
    /\ nodeStatus = [n \in Nodes |-> [volumesAttached |-> {}, volumesInUse |-> {}]]
    /\ nodeStore = [n \in Nodes |-> NoEntry]
    /\ attachments = {}
    /\ kubeletAttached = [n \in Nodes |-> {}]
    /\ kubeletMounted = [n \in Nodes |-> {}]
    /\ kubeletReported = [n \in Nodes |-> {}]
    /\ kubeletOps = [n \in Nodes |-> NoOps]
    /\ rc = IdlePass
    /\ operations = << >>
    /\ routines = [v \in Volumes |-> NoEntry]
    /\ verifiers = [n \in Nodes |-> NoVerifier]
    /\ detachedLate = {}
    /\ faults = 0

Fault == faults < MaxFaults /\ faults' = faults + 1
-----------------------------------------------------------------------------
(***************************************************************************)
(* The API server: pods come and go, each at most once; a node object may  *)
(* be deleted, and is created again when its kubelet registers.            *)
(***************************************************************************)
WantedVolumes(n) ==
    UNION {PodVolumes[p] : p \in {q \in livePods : PodNode[q] = n}}

GetVolumesInUse(n) == WantedVolumes(n) \cup kubeletMounted[n]

CreatePod(p) ==
    /\ p \notin livePods \cup gonePods
    /\ livePods' = livePods \cup {p}
    /\ UNCHANGED <<gonePods, nodeStatus, storeVars, attachments, kubeletVars,
                   ctlVars, dswVars, aswVars, ghostVars>>

RemovePod(p) ==
    /\ p \in livePods
    /\ livePods' = livePods \ {p}
    /\ gonePods' = gonePods \cup {p}
    /\ UNCHANGED <<nodeStatus, storeVars, attachments, kubeletVars, ctlVars,
                   dswVars, aswVars, ghostVars>>

RemoveNodeObject(n) ==
    /\ nodeStatus[n] # NoEntry
    /\ Fault
    /\ nodeStatus' = [nodeStatus EXCEPT ![n] = NoEntry]
    /\ UNCHANGED <<livePods, gonePods, storeVars, attachments, kubeletVars,
                   ctlVars, dswVars, aswVars, detachedLate>>

\* A kubelet registers when it is started, not again before it is restarted;
\* then it knows its mounts from the disk and has reported nothing, and the
\* object it creates lists no volumes.
RegisterNode(n) ==
    /\ nodeStatus[n] = NoEntry
    /\ nodeStatus' = [nodeStatus EXCEPT ![n] =
         [volumesAttached |-> {}, volumesInUse |-> {}]]
    /\ kubeletAttached' = [kubeletAttached EXCEPT ![n] = kubeletMounted[n]]
    /\ kubeletReported' = [kubeletReported EXCEPT ![n] = {}]
    /\ kubeletOps' = [kubeletOps EXCEPT ![n] = NoOps]
    /\ UNCHANGED <<livePods, gonePods, storeVars, attachments, kubeletMounted,
                   ctlVars, dswVars, aswVars, ghostVars>>
-----------------------------------------------------------------------------
(***************************************************************************)
(* The kubelet of a node.                                                  *)
(***************************************************************************)
\* tryUpdateNodeStatus.
KubeletReport(n) ==
    /\ nodeStatus[n] # NoEntry
    /\ nodeStatus' = [nodeStatus EXCEPT ![n].volumesInUse = GetVolumesInUse(n)]
    /\ kubeletReported' = [kubeletReported EXCEPT ![n] = GetVolumesInUse(n)]
    /\ UNCHANGED <<livePods, gonePods, storeVars, attachments, kubeletAttached,
                   kubeletMounted, kubeletOps, ctlVars, dswVars, aswVars, ghostVars>>

\* VerifyControllerAttachedVolume: the node's status is read, ...
KubeletVerify(n, v) ==
    /\ v \in WantedVolumes(n) \ kubeletAttached[n]
    /\ v \in kubeletReported[n]
    /\ kubeletOps[n][v] = "none"
    /\ nodeStatus[n] # NoEntry /\ v \in nodeStatus[n].volumesAttached
    /\ kubeletOps' = [kubeletOps EXCEPT ![n][v] = "verified"]
    /\ UNCHANGED <<apiVars, storeVars, attachments, kubeletAttached, kubeletMounted,
                   kubeletReported, ctlVars, dswVars, aswVars, ghostVars>>

\* ... then the volume is marked as attached.
KubeletMarkAttached(n, v) ==
    /\ kubeletOps[n][v] = "verified"
    /\ kubeletOps' = [kubeletOps EXCEPT ![n][v] = "none"]
    /\ kubeletAttached' = [kubeletAttached EXCEPT ![n] = @ \cup {v}]
    /\ UNCHANGED <<apiVars, storeVars, attachments, kubeletMounted,
                   kubeletReported, ctlVars, dswVars, aswVars, ghostVars>>

\* WaitForAttach and MountDevice, ...
KubeletMount(n, v) ==
    /\ v \in (WantedVolumes(n) \cap kubeletAttached[n]) \ kubeletMounted[n]
    /\ kubeletOps[n][v] = "none"
    /\ <<v, n>> \in attachments
    /\ kubeletOps' = [kubeletOps EXCEPT ![n][v] = "mounted"]
    /\ UNCHANGED <<apiVars, storeVars, attachments, kubeletAttached, kubeletMounted,
                   kubeletReported, ctlVars, dswVars, aswVars, ghostVars>>

\* ... then MarkDeviceAsMounted, an error for a volume forgotten meanwhile.
KubeletMarkMounted(n, v) ==
    /\ kubeletOps[n][v] = "mounted"
    /\ kubeletOps' = [kubeletOps EXCEPT ![n][v] = "none"]
    /\ kubeletMounted' = [kubeletMounted EXCEPT ![n] =
         @ \cup ({v} \cap kubeletAttached[n])]
    /\ UNCHANGED <<apiVars, storeVars, attachments, kubeletAttached,
                   kubeletReported, ctlVars, dswVars, aswVars, ghostVars>>

KubeletUnmount(n, v) ==
    /\ v \in kubeletMounted[n] \ WantedVolumes(n)
    /\ kubeletOps[n][v] = "none"
    /\ kubeletMounted' = [kubeletMounted EXCEPT ![n] = @ \ {v}]
    /\ UNCHANGED <<apiVars, storeVars, attachments, kubeletAttached,
                   kubeletReported, kubeletOps, ctlVars, dswVars, aswVars, ghostVars>>

\* The volume leaves the kubelet's actual state of the world, also while an
\* operation on it is under way.
KubeletForget(n, v) ==
    /\ v \in kubeletAttached[n] \ GetVolumesInUse(n)
    /\ kubeletAttached' = [kubeletAttached EXCEPT ![n] = @ \ {v}]
    /\ UNCHANGED <<apiVars, storeVars, attachments, kubeletMounted,
                   kubeletReported, kubeletOps, ctlVars, dswVars, aswVars, ghostVars>>

\* The kubelet's reconciler and its operations on a volume.
KubeletVolume(n, v) ==
    \/ KubeletVerify(n, v) \/ KubeletMarkAttached(n, v)
    \/ KubeletMount(n, v) \/ KubeletMarkMounted(n, v)
    \/ KubeletUnmount(n, v) \/ KubeletForget(n, v)

Kubelet(n) == KubeletReport(n) \/ \E v \in Volumes : KubeletVolume(n, v)
-----------------------------------------------------------------------------
(***************************************************************************)
(* The handlers of the informers, and the populator.                       *)
(***************************************************************************)
podAdd(p) ==
    /\ p \in livePods \ podStore
    /\ podStore' = podStore \cup {p}
    /\ AddPod(p, PodVolumes[p], PodNode[p])
    /\ UNCHANGED <<apiVars, nodeStore, attachments, kubeletVars, ctlVars,
                   aswVars, ghostVars>>

\* An update or a resync of a pod: the flow is the same as add.
podUpdate(p) ==
    /\ p \in podStore
    /\ AddPod(p, PodVolumes[p], PodNode[p])
    /\ UNCHANGED <<apiVars, storeVars, attachments, kubeletVars, ctlVars,
                   aswVars, ghostVars>>

podDelete(p) ==
    /\ p \in podStore \ livePods
    /\ podStore' = podStore \ {p}
    /\ DeletePod(p, PodVolumes[p], PodNode[p])
    /\ UNCHANGED <<apiVars, nodeStore, attachments, kubeletVars, ctlVars,
                   aswVars, ghostVars>>

\* The watch has missed the deletion: the handler is given a tombstone, which
\* is not a pod, and returns.
podDeleteMissed(p) ==
    /\ p \in podStore \ livePods
    /\ Fault
    /\ podStore' = podStore \ {p}
    /\ UNCHANGED <<apiVars, nodeStore, attachments, kubeletVars, ctlVars,
                   dswVars, aswVars, detachedLate>>

\* findAndRemoveDeletedPods: GetPodToAdd keeps one volume of each pod.
findAndRemoveDeletedPods(p, v) ==
    /\ p \notin podStore
    /\ <<v, PodNode[p], p>> \in scheduledPods
    /\ DeletePod(p, {v}, PodNode[p])
    /\ UNCHANGED <<apiVars, storeVars, attachments, kubeletVars, ctlVars,
                   aswVars, ghostVars>>

\* Also every heartbeat of the node, whether or not anything has changed.
nodeUpdate(n) ==
    /\ nodeStatus[n] # NoEntry /\ nodeStore[n] # NoEntry
    /\ nodeStore' = [nodeStore EXCEPT ![n] = nodeStatus[n]]
    /\ AddNode(n)
    /\ processVolumesInUse(n, nodeStatus[n].volumesInUse)
    /\ UNCHANGED <<apiVars, podStore, attachments, kubeletVars, ctlVars,
                   nodesToUpdateStatusFor, ghostVars>>

nodeAdd(n) ==
    /\ nodeStatus[n] # NoEntry /\ nodeStore[n] = NoEntry
    /\ nodeStore' = [nodeStore EXCEPT ![n] = nodeStatus[n]]
    /\ AddNode(n)
    /\ processVolumesInUse(n, nodeStatus[n].volumesInUse)
    /\ SetNodeStatusUpdateNeeded(n)
    /\ UNCHANGED <<apiVars, podStore, attachments, kubeletVars, ctlVars,
                   ghostVars>>

nodeDelete(n) ==
    /\ nodeStatus[n] = NoEntry /\ nodeStore[n] # NoEntry
    /\ nodeStore' = [nodeStore EXCEPT ![n] = NoEntry]
    /\ DeleteNode(n)
    /\ processVolumesInUse(n, nodeStore[n].volumesInUse)
    /\ UNCHANGED <<apiVars, podStore, attachments, kubeletVars, ctlVars,
                   nodesToUpdateStatusFor, ghostVars>>

PodInformer(p) == podAdd(p) \/ podUpdate(p) \/ podDelete(p)

NodeInformer(n) == nodeAdd(n) \/ nodeUpdate(n) \/ nodeDelete(n)
-----------------------------------------------------------------------------
(***************************************************************************)
(* The reconciler.  Its pass takes a copy of the attached volumes and      *)
(* handles them in turn, takes a copy of the volumes to attach and handles *)
(* those, and updates the node statuses.                                   *)
(***************************************************************************)
passFrame == <<livePods, gonePods, storeVars, attachments, kubeletVars, dswVars>>

BeginPass ==
    /\ rc.step = "idle"
    /\ rc' = [rc EXCEPT !.step = "detaches", !.todo =
         {<<vn, attachedVolumes[vn].mountedByNode>> :
            vn \in {x \in VolumeNodes : attachedVolumes[x] # NoEntry}}]
    /\ UNCHANGED <<passFrame, nodeStatus, opVars, verifiers, aswVars, ghostVars>>

\* A volume that is desired, or is gone, needs nothing.
SkipDesired(t) ==
    /\ rc.step = "detaches" /\ t \in rc.todo
    /\ VolumeExists(t[1][1], t[1][2]) \/ attachedVolumes[t[1]] = NoEntry
    /\ rc' = [rc EXCEPT !.todo = @ \ {t}]
    /\ UNCHANGED <<passFrame, nodeStatus, opVars, verifiers, aswVars, ghostVars>>

\* SetDetachRequestTime; the volume is left alone while the copy says it is
\* mounted and the wait is not over, and else no longer reported as attached.
ConsiderDetach(t) ==
    /\ rc.step = "detaches" /\ t \in rc.todo
    /\ ~VolumeExists(t[1][1], t[1][2])
    /\ attachedVolumes[t[1]] # NoEntry
    /\ attachedVolumes' =
         [attachedVolumes EXCEPT ![t[1]] = DetachRequested(attachedVolumes[t[1]])]
    /\ LET timeout == DetachRequested(attachedVolumes[t[1]]).detachRequestedTime
                         = "expired"
       IN  IF t[2] /\ ~timeout
           THEN /\ rc' = [rc EXCEPT !.todo = @ \ {t}]
                /\ UNCHANGED nodesToUpdateStatusFor
           ELSE /\ rc' = [rc EXCEPT !.todo = @ \ {t}, !.step = "collect",
                                    !.current = t[1], !.timeout = timeout]
                /\ removeVolumeFromReportAsAttached(t[1][1], t[1][2])
    /\ UNCHANGED <<passFrame, nodeStatus, opVars, verifiers, ghostVars>>

\* UpdateNodeStatuses begins: every flag is reset, whatever becomes of the
\* patches.
GetVolumesToReportAttached ==
    /\ rc.step = "collect"
    /\ rc' = [rc EXCEPT !.step = "patch", !.updates = VolumesToReportAttached]
    /\ nodesToUpdateStatusFor' = StatusUpdateNeeded(Nodes, FALSE)
    /\ UNCHANGED <<passFrame, nodeStatus, opVars, verifiers, attachedVolumes,
                   ghostVars>>

\* A node the informer does not know is flagged again and passed over.
PatchUnknownNode(u) ==
    /\ rc.step = "patch" /\ u \in rc.updates
    /\ nodeStore[u[1]] = NoEntry
    /\ rc' = [rc EXCEPT !.updates = @ \ {u}]
    /\ SetNodeStatusUpdateNeeded(u[1])
    /\ UNCHANGED <<passFrame, nodeStatus, opVars, verifiers, attachedVolumes,
                   ghostVars>>

\* The patch is the difference to the informer's copy, however old that is.
\* There is none when the lists are equal; lists are in the order of a map,
\* and two equal ones of several volumes may differ in it.
PatchSucceeds(u) ==
    LET n == u[1]
    IN  /\ rc.step = "patch" /\ u \in rc.updates
        /\ nodeStore[n] # NoEntry /\ nodeStatus[n] # NoEntry
        /\ \/ /\ nodeStore[n].volumesAttached # u[2] \/ Cardinality(u[2]) > 1
              /\ nodeStatus' = [nodeStatus EXCEPT ![n].volumesAttached = u[2]]
           \/ /\ nodeStore[n].volumesAttached = u[2]
              /\ UNCHANGED nodeStatus
        /\ rc' = [rc EXCEPT !.updates = @ \ {u}]
        /\ UNCHANGED <<passFrame, opVars, verifiers, aswVars, ghostVars>>

\* UpdateNodeStatuses returns the error: the remaining patches are dropped
\* and the detach is skipped.
AbandonUpdates ==
    [rc EXCEPT !.updates = {}, !.current = NoPair, !.timeout = FALSE,
               !.step = IF rc.current = NoPair THEN "sync" ELSE "detaches"]

PatchFails(u) ==
    /\ rc.step = "patch" /\ u \in rc.updates
    /\ nodeStore[u[1]] # NoEntry
    /\ \/ nodeStatus[u[1]] = NoEntry /\ UNCHANGED faults
       \/ /\ nodeStatus[u[1]] # NoEntry
          /\ Fault
    /\ rc' = AbandonUpdates
    /\ SetNodeStatusUpdateNeeded(u[1])
    /\ UNCHANGED <<passFrame, nodeStatus, opVars, verifiers, attachedVolumes,
                   detachedLate>>

UpdatesDone ==
    /\ rc.step = "patch" /\ rc.updates = {}
    /\ rc' = [rc EXCEPT !.step = IF rc.current = NoPair THEN "sync" ELSE "detach"]
    /\ UNCHANGED <<passFrame, nodeStatus, opVars, verifiers, aswVars, ghostVars>>

\* An operation on a volume is handed to pendingOperations.Run; the
\* AlreadyExists and the ExponentialBackoff error are ignored.
Start(v, n, step) ==
    IF RunAccepts(operations, v, NoPod)
    THEN /\ operations' = AfterRun(operations, v, NoPod)
         /\ routines' = [routines EXCEPT ![v] = [node |-> n, step |-> step]]
    ELSE UNCHANGED opVars

DetachVolume ==
    /\ rc.step = "detach"
    /\ Start(rc.current[1], rc.current[2],
             IF rc.timeout THEN "forceDetach" ELSE "verifySafe")
    /\ rc' = [rc EXCEPT !.step = "detaches", !.current = NoPair, !.timeout = FALSE]
    /\ UNCHANGED <<passFrame, nodeStatus, verifiers, aswVars, ghostVars>>

DetachesDone ==
    /\ rc.step = "detaches" /\ rc.todo = {}
    /\ rc' = [rc EXCEPT !.step = "attaches",
                        !.todo = GetVolumesToAttach \X {FALSE}]
    /\ UNCHANGED <<passFrame, nodeStatus, opVars, verifiers, aswVars, ghostVars>>

AttachVolume(t) ==
    /\ rc.step = "attaches" /\ t \in rc.todo
    /\ rc' = [rc EXCEPT !.todo = @ \ {t}]
    /\ IF VolumeNodeExists(t[1][1], t[1][2])
       THEN ResetDetachRequestTime(t[1][1], t[1][2]) /\ UNCHANGED opVars
       ELSE Start(t[1][1], t[1][2], "attach") /\ UNCHANGED attachedVolumes
    /\ UNCHANGED <<passFrame, nodeStatus, verifiers, nodesToUpdateStatusFor,
                   ghostVars>>

AttachesDone ==
    /\ rc.step = "attaches" /\ rc.todo = {}
    /\ rc' = [rc EXCEPT !.step = "collect"]
    /\ UNCHANGED <<passFrame, nodeStatus, opVars, verifiers, aswVars, ghostVars>>

EndPass ==
    /\ rc.step = "sync"
    /\ rc' = IdlePass
    /\ UNCHANGED <<passFrame, nodeStatus, opVars, verifiers, aswVars, ghostVars>>

\* syncStates, when syncDuration has elapsed: a goroutine for each node.  Its
\* operation has no volume name and excludes nothing, so it is left out of
\* the list; one at a time is modelled for a node.
SyncStates ==
    /\ rc.step = "sync"
    /\ \A n \in Nodes : verifiers[n] = NoVerifier
    /\ verifiers' = [n \in Nodes |->
         [asked |-> {v \in Volumes : VolumeNodeExists(v, n)}, missing |-> {}]]
    /\ rc' = IdlePass
    /\ UNCHANGED <<passFrame, nodeStatus, opVars, aswVars, ghostVars>>

ReconcilerStep ==
    \/ BeginPass \/ GetVolumesToReportAttached \/ UpdatesDone \/ DetachVolume
    \/ DetachesDone \/ AttachesDone \/ EndPass \/ SyncStates
    \/ \E t \in rc.todo : SkipDesired(t) \/ ConsiderDetach(t) \/ AttachVolume(t)
    \/ \E u \in rc.updates : PatchUnknownNode(u) \/ PatchSucceeds(u)
                            \/ PatchFails(u)
-----------------------------------------------------------------------------
(***************************************************************************)
(* The goroutines of the operation executor.                               *)
(***************************************************************************)
At(v, step) == routines[v] # NoEntry /\ routines[v].step = step

Goto(v, step) == routines' = [routines EXCEPT ![v].step = step]

routineFrame ==
    <<livePods, gonePods, nodeStatus, storeVars, kubeletVars, rc, verifiers, dswVars>>

Attach(v) ==
    /\ At(v, "attach")
    /\ attachments' = attachments \cup {<<v, routines[v].node>>}
    /\ detachedLate' = detachedLate \ {<<v, routines[v].node>>}
    /\ Goto(v, "markAttached")
    /\ UNCHANGED <<routineFrame, operations, aswVars, faults>>

MarkAttached(v) ==
    /\ At(v, "markAttached")
    /\ MarkVolumeAsAttached(v, routines[v].node)
    /\ Goto(v, "succeeded")
    /\ UNCHANGED <<routineFrame, attachments, operations, ghostVars>>

\* A node that is not found counts as safe.
verifyVolumeIsSafeToDetach(v) ==
    /\ At(v, "verifySafe")
    /\ LET node == nodeStatus[routines[v].node]
       IN  Goto(v, IF node = NoEntry THEN "forceDetach"
                   ELSE IF v \in node.volumesInUse THEN "reportAgain"
                   ELSE "detach")
    /\ UNCHANGED <<routineFrame, attachments, operations, aswVars, ghostVars>>

Detach(v) ==
    /\ At(v, "detach") \/ At(v, "forceDetach")
    /\ attachments' = attachments \ {<<v, routines[v].node>>}
    /\ Goto(v, "markDetached")
    /\ UNCHANGED <<routineFrame, operations, aswVars, ghostVars>>

\* Mutant: the actual state of the world is not told.
MarkDetachedNot(v) ==
    /\ At(v, "markDetached")
    /\ detachedLate' = detachedLate \ {<<v, routines[v].node>>}
    /\ Goto(v, "succeeded")
    /\ UNCHANGED <<routineFrame, attachments, operations, aswVars, faults>>

MarkDetached(v) ==
    /\ At(v, "markDetached")
    /\ MarkVolumeAsDetached(v, routines[v].node)
    /\ detachedLate' = detachedLate \ {<<v, routines[v].node>>}
    /\ Goto(v, "succeeded")
    /\ UNCHANGED <<routineFrame, attachments, operations, faults>>

\* On failure of a detach, the volume is added back to the report.
ReportAgain(v) ==
    /\ At(v, "reportAgain")
    /\ AddVolumeToReportAsAttached(v, routines[v].node)
    /\ Goto(v, "failed")
    /\ UNCHANGED <<routineFrame, attachments, operations, ghostVars>>

\* A call of the plugin or of the API server fails without effect.
CallFails(v) ==
    /\ \E step \in {"attach", "verifySafe", "detach", "forceDetach"} : At(v, step)
    /\ Fault
    /\ Goto(v, IF At(v, "attach") THEN "failed" ELSE "reportAgain")
    /\ UNCHANGED <<routineFrame, attachments, operations, aswVars, detachedLate>>

\* A call of the plugin takes effect and returns an error.
CallFailsLate(v) ==
    /\ \E step \in {"attach", "detach", "forceDetach"} : At(v, step)
    /\ Fault
    /\ LET vn == <<v, routines[v].node>>
       IN  IF At(v, "attach")
           THEN /\ attachments' = attachments \cup {vn}
                /\ detachedLate' = detachedLate \ {vn}
                /\ Goto(v, "failed")
           ELSE /\ attachments' = attachments \ {vn}
                /\ detachedLate' = detachedLate \cup {vn}
                /\ Goto(v, "reportAgain")
    /\ UNCHANGED <<routineFrame, operations, aswVars>>

\* The goroutine ends and operationComplete runs.
Complete(v) ==
    /\ At(v, "succeeded") \/ At(v, "failed")
    /\ operations' = operationComplete(operations, v, NoPod, At(v, "failed"))
    /\ routines' = [routines EXCEPT ![v] = NoEntry]
    /\ UNCHANGED <<routineFrame, attachments, aswVars, ghostVars>>

RoutineStep(v) ==
    \/ Attach(v) \/ MarkAttached(v) \/ verifyVolumeIsSafeToDetach(v) \/ Detach(v)
    \/ MarkDetached(v) \/ ReportAgain(v) \/ Complete(v)

\* VolumesAreAttached: the plugin is asked, and the volumes it does not find
\* attached are marked as detached afterwards, one by one.
VolumesAreAttached(n) ==
    /\ verifiers[n].asked # {}
    /\ verifiers' = [verifiers EXCEPT ![n] =
         [asked   |-> {},
          missing |-> {v \in verifiers[n].asked : <<v, n>> \notin attachments}]]
    /\ UNCHANGED <<apiVars, storeVars, attachments, kubeletVars, rc, opVars,
                   dswVars, aswVars, ghostVars>>

MarkMissing(n, v) ==
    /\ v \in verifiers[n].missing
    /\ MarkVolumeAsDetached(v, n)
    /\ verifiers' = [verifiers EXCEPT ![n].missing = @ \ {v}]
    /\ UNCHANGED <<apiVars, storeVars, attachments, kubeletVars, rc, opVars,
                   dswVars, ghostVars>>

VerifierStep(n) == VolumesAreAttached(n) \/ \E v \in Volumes : MarkMissing(n, v)
-----------------------------------------------------------------------------
(***************************************************************************)
(* Time and restarts.                                                      *)
(***************************************************************************)
\* A back-off elapses.
Tick ==
    /\ BackingOff(operations)
    /\ operations' = Later(operations)
    /\ UNCHANGED <<routineFrame, attachments, routines, aswVars, ghostVars>>

\* maxWaitForUnmountDuration elapses for a volume.
UnmountWaitElapses(v, n) ==
    /\ VolumeNodeExists(v, n)
    /\ attachedVolumes[<<v, n>>].detachRequestedTime = "recent"
    /\ attachedVolumes' = [attachedVolumes EXCEPT ![<<v, n>>] =
         [attachedVolumes[<<v, n>>] EXCEPT !.detachRequestedTime = "expired"]]
    /\ UNCHANGED <<routineFrame, attachments, opVars, nodesToUpdateStatusFor,
                   ghostVars>>

\* The controller starts again with empty caches.
Restart ==
    /\ Fault
    /\ nodesManaged' = {} /\ scheduledPods' = {}
    /\ attachedVolumes' = [vn \in VolumeNodes |-> NoEntry]
    /\ nodesToUpdateStatusFor' = [n \in Nodes |-> NoEntry]
    /\ podStore' = {} /\ nodeStore' = [n \in Nodes |-> NoEntry]
    /\ rc' = IdlePass
    /\ operations' = << >>
    /\ routines' = [v \in Volumes |-> NoEntry]
    /\ verifiers' = [n \in Nodes |-> NoVerifier]
    /\ UNCHANGED <<apiVars, attachments, kubeletVars, detachedLate>>
-----------------------------------------------------------------------------
Next ==
    \/ \E p \in Pods :
         \/ CreatePod(p) \/ RemovePod(p)
         \/ PodInformer(p) \/ podDeleteMissed(p)
         \/ \E v \in Volumes : findAndRemoveDeletedPods(p, v)
    \/ \E n \in Nodes :
         \/ RemoveNodeObject(n) \/ RegisterNode(n) \/ Kubelet(n)
         \/ NodeInformer(n) \/ VerifierStep(n)
    \/ \E v \in Volumes : RoutineStep(v) \/ CallFails(v) \/ CallFailsLate(v)
    \/ ReconcilerStep
    \/ Tick
    \/ \E v \in Volumes, n \in Nodes : UnmountWaitElapses(v, n)
    \/ Restart

Spec == Init /\ [][Next]_vars

\* Informers, populator, reconciler, goroutines and clocks go on; nothing is
\* asked of the kubelets, nobody has to create or delete anything, and no call
\* has to fail.
Fairness ==
    /\ WF_vars(ReconcilerStep)
    /\ WF_vars(Tick)
    /\ \A p \in Pods :
         /\ WF_vars(PodInformer(p))
         /\ \A v \in Volumes : WF_vars(findAndRemoveDeletedPods(p, v))
    /\ \A n \in Nodes : WF_vars(NodeInformer(n)) /\ WF_vars(VerifierStep(n))
    /\ \A v \in Volumes :
         /\ WF_vars(RoutineStep(v))
         /\ \A n \in Nodes : WF_vars(UnmountWaitElapses(v, n))

FairSpec == Spec /\ Fairness
-----------------------------------------------------------------------------
(***************************************************************************)
(* Properties.                                                             *)
(***************************************************************************)
\* A volume the actual state of the world shows on a node is attached there,
\* or the goroutine that detached it has not said so yet: operations on a
\* volume exclude one another, so none marks what another has undone.  The one
\* exception is a detach that took effect although the call failed.
EntryIsAttached ==
    \A v \in Volumes, n \in Nodes :
        VolumeNodeExists(v, n) =>
            \/ <<v, n>> \in attachments \cup detachedLate
            \/ At(v, "markDetached") /\ routines[v].node = n

\* No volume is in the list for a node's status without an entry that says it
\* is attached there: whatever goroutine removes the entry, a failing detach
\* that ends later does not bring the report back.
ReportedHasEntry ==
    \A n \in Nodes : \A v \in VolumesToReport(n) : VolumeNodeExists(v, n)

\* A volume that no pod needs on a node any more leaves the actual state in
\* the end, by a forced detach if need be: through lost deletions of pods,
\* failing calls and patches and deleted nodes nothing keeps it there forever.
UnneededIsDetached ==
    \A v \in Volumes, n \in Nodes :
        (VolumeNodeExists(v, n) /\ v \notin WantedVolumes(n))
            ~> (~VolumeNodeExists(v, n) \/ v \in WantedVolumes(n))

\* A volume that is attached, and that a kubelet waits for, is listed in the
\* node's status in the end.
NeededIsReported ==
    \A v \in Volumes, n \in Nodes :
        (VolumeNodeExists(v, n) /\ v \in WantedVolumes(n) \ kubeletAttached[n])
            ~> \/ ~VolumeNodeExists(v, n)
               \/ v \notin WantedVolumes(n) \ kubeletAttached[n]
               \/ nodeStatus[n] # NoEntry /\ v \in nodeStatus[n].volumesAttached
=============================================================================
