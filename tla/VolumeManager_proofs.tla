------------------------ MODULE VolumeManager_proofs ------------------------
(***************************************************************************)
(* Proofs about the volume manager, for any pods, volumes and goroutines,  *)
(* with failures and restarts.                                             *)
(***************************************************************************)
EXTENDS VolumeManager, OperationListTheorems, SequenceLemmas

(***************************************************************************)
(* The inductive invariant for ReportedIsInUse.  A volume reported is one  *)
(* some pod is to mount, so that the list computed from the desired state  *)
(* holds it; while a status update is under way no volume of the list can  *)
(* become reported that was not; and between the patch and the marking the *)
(* list that was sent is the one of the API server.                        *)
(***************************************************************************)
ReportedIsDesired ==
    /\ podsToMount = [v \in Volumes |-> podsToMount[v]]
    /\ \A v \in reportedInUse : v \in Volumes /\ podsToMount[v] # {}

ReportedIsSent ==
    /\ statusUpdate \in [pc    : {"idle", "asw", "patch", "mark"},
                         inUse : SUBSET AttachableVolumes]
    /\ statusUpdate.pc \in {"asw", "patch"} => reportedInUse \subseteq statusUpdate.inUse
    /\ statusUpdate.pc = "mark" => statusUpdate.inUse = nodeVolumesInUse
    /\ nodeVolumesInUse \subseteq AttachableVolumes

InUseInv == ReportedIsInUse /\ ReportedIsDesired /\ ReportedIsSent

inUseVars == <<podsToMount, reportedInUse, nodeVolumesInUse, statusUpdate>>

(***************************************************************************)
(* A step that changes neither the desired state of the world nor the      *)
(* status keeps the invariant: pod workers, goroutines, controller.        *)
(***************************************************************************)
LEMMA QuietStep ==
    ASSUME InUseInv, UNCHANGED inUseVars
    PROVE  InUseInv'
BY DEF InUseInv, inUseVars, ReportedIsInUse, ReportedIsDesired, ReportedIsSent

(***************************************************************************)
(* AddPodToVolume and DeletePodFromVolume of the desired state keep it:    *)
(* with its last pod a volume loses the mark that it was reported.         *)
(***************************************************************************)
LEMMA DesiredStep ==
    ASSUME InUseInv, UNCHANGED <<nodeVolumesInUse, statusUpdate>>,
           NEW p, NEW v,
           dsw!AddPodToVolume(p, v) \/ dsw!DeletePodFromVolume(p, v)
    PROVE  InUseInv'
<1>1. podsToMount = [w \in Volumes |-> podsToMount[w]]
  BY DEF InUseInv, ReportedIsDesired
<1>2. reportedInUse' \subseteq reportedInUse
  BY DEF dsw!AddPodToVolume, dsw!DeletePodFromVolume
<1>3. ReportedIsInUse' /\ ReportedIsSent'
  BY <1>2 DEF InUseInv, ReportedIsInUse, ReportedIsSent
<1>4. podsToMount' = [w \in Volumes |-> podsToMount'[w]]
  BY <1>1 DEF dsw!AddPodToVolume, dsw!DeletePodFromVolume
<1>5. ASSUME NEW w \in reportedInUse'
      PROVE  w \in Volumes /\ podsToMount'[w] # {}
  <2>1. w \in Volumes /\ podsToMount[w] # {}
    BY <1>2, <1>5 DEF InUseInv, ReportedIsDesired
  <2>2. CASE dsw!AddPodToVolume(p, v)
    BY <1>1, <2>1, <2>2 DEF dsw!AddPodToVolume
  <2>3. CASE dsw!DeletePodFromVolume(p, v)
    BY <1>1, <1>5, <2>1, <2>3 DEF dsw!DeletePodFromVolume
  <2> QED
    BY <2>2, <2>3
<1> QED
  BY <1>3, <1>4, <1>5 DEF InUseInv, ReportedIsDesired

(***************************************************************************)
(* The steps of tryUpdateNodeStatus keep it.                               *)
(***************************************************************************)
LEMMA StatusUpdateStep ==
    ASSUME InUseInv, StatusStep \/ PatchStatusFails
    PROVE  InUseInv'
<1> USE DEF InUseInv, ReportedIsInUse, ReportedIsDesired, ReportedIsSent
<1>1. CASE UpdateStatus
  <2> DEFINE desired == {v \in AttachableVolumes : dsw!VolumeExists(v)}
  <2>1. reportedInUse \subseteq desired
    BY DEF dsw!VolumeExists
  <2>2. UNCHANGED <<podsToMount, reportedInUse, nodeVolumesInUse>>
    BY <1>1 DEF UpdateStatus, dswVars
  <2>3. \/ statusUpdate' = [pc |-> "asw", inUse |-> desired]
        \/ statusUpdate' = [pc |-> "patch", inUse |-> nodeVolumesInUse]
    BY <1>1 DEF UpdateStatus
  <2>4. desired \subseteq AttachableVolumes
    OBVIOUS
  <2> HIDE DEF desired
  <2> QED
    BY <2>1, <2>2, <2>3, <2>4
<1>2. CASE GetGloballyMounted
  <2>1. UNCHANGED <<podsToMount, reportedInUse, nodeVolumesInUse>>
    BY <1>2 DEF GetGloballyMounted, dswVars
  <2>2. /\ statusUpdate.pc = "asw"
        /\ statusUpdate' = [pc    |-> "patch",
                            inUse |-> statusUpdate.inUse \cup
                                        (globallyMounted \cap AttachableVolumes)]
    BY <1>2 DEF GetGloballyMounted
  <2> QED
    BY <2>1, <2>2
<1>3. CASE PatchStatus
  <2>1. UNCHANGED <<podsToMount, reportedInUse>>
    BY <1>3 DEF PatchStatus, dswVars
  <2>2. /\ statusUpdate.pc = "patch"
        /\ statusUpdate' = [pc |-> "mark", inUse |-> statusUpdate.inUse]
        /\ nodeVolumesInUse' = statusUpdate.inUse
    BY <1>3 DEF PatchStatus
  <2> QED
    BY <2>1, <2>2
<1>4. CASE PatchStatusFails
  BY <1>4 DEF PatchStatusFails, IdleStatus, dswVars
<1>5. CASE MarkVolumesAsReportedInUse
  BY <1>5 DEF MarkVolumesAsReportedInUse, IdleStatus,
              dsw!MarkVolumesReportedInUse, dsw!VolumeExists
<1> QED
  BY <1>1, <1>2, <1>3, <1>4, <1>5 DEF StatusStep

(***************************************************************************)
(* Every step keeps it.                                                    *)
(***************************************************************************)
LEMMA InUseStep ==
    ASSUME InUseInv, [Next]_vars
    PROVE  InUseInv'
<1>1. ASSUME NEW p \in Pods, PodStep(p)
      PROVE  InUseInv'
  <2>1. UNCHANGED inUseVars
    BY <1>1 DEF PodStep, AddPod, StopContainers, TerminatePod, DeletePod,
         dispatchWork, ReprocessPod, MarkRemountRequired,
         WaitSucceeds, WaitTimesOut, StartContainers,
         inUseVars, dswVars, nodeVars
  <2> QED
    BY <2>1, QuietStep
<1>2. CASE PopulatorStep
  <2>1. UNCHANGED <<nodeVolumesInUse, statusUpdate>>
    BY <1>2 DEF PopulatorStep, FindPods, MarkPodProcessed, FindDeletedPods,
         SkipDeletedPods, EndRemove, ProcessPod, AddVolume, RemoveItem,
         populatorUnchanged, nodeVars
  <2>2. \/ UNCHANGED dswVars
        \/ \E p, v : dsw!AddPodToVolume(p, v) \/ dsw!DeletePodFromVolume(p, v)
    BY <1>2 DEF PopulatorStep, FindPods, MarkPodProcessed, FindDeletedPods,
         SkipDeletedPods, EndRemove, ProcessPod, AddVolume, RemoveItem
  <2>3. CASE UNCHANGED dswVars
    BY <2>1, <2>3, QuietStep DEF inUseVars, dswVars
  <2>4. ASSUME NEW p, NEW v,
               dsw!AddPodToVolume(p, v) \/ dsw!DeletePodFromVolume(p, v)
        PROVE  InUseInv'
    BY <2>1, <2>4, DesiredStep
  <2> QED
    BY <2>2, <2>3, <2>4
<1>3. ASSUME \/ \E v \in Volumes : AddVolumeFails(v)
             \/ \E x \in populator.items : GetPodsFails(x)
      PROVE  InUseInv'
  <2>1. UNCHANGED inUseVars
    BY <1>3 DEF AddVolumeFails, GetPodsFails, populatorUnchanged, inUseVars,
                dswVars, nodeVars
  <2> QED
    BY <2>1, QuietStep
<1>4. CASE ReconcilerStep
  <2>1. CASE UpdateDesired
    <3>1. UNCHANGED <<nodeVolumesInUse, statusUpdate>>
      BY <2>1 DEF UpdateDesired, reconcilerUnchanged, nodeVars
    <3>2. dsw!AddPodToVolume(reconciler.item.pod, reconciler.item.vol)
      BY <2>1 DEF UpdateDesired
    <3> QED
      BY <3>1, <3>2, DesiredStep
  <2>2. CASE ~UpdateDesired
    <3>1. UNCHANGED <<dswVars, nodeVars>>
      BY <1>4, <2>2 DEF ReconcilerStep, NextPass, SyncScan, SyncEnd,
           SyncPending, SyncDesired, SyncActual, UpdateMounted, UpdateDevice,
           ReconcileUnmount, ReconcileMount, ReconcileDetach,
           SyncReconstruct, UpdateAttached, reconcilerUnchanged
    <3> QED
      BY <3>1, QuietStep DEF inUseVars, dswVars, nodeVars
  <2> QED
    BY <2>1, <2>2
<1>5. ASSUME \/ \E r \in Routines :
                  Executor(RoutineStep(r) \/ CallFails(r) \/ DeviceStillOpen(r))
             \/ Executor(Tick)
      PROVE  InUseInv'
  <2>1. UNCHANGED inUseVars
    BY <1>5 DEF Executor, inUseVars, dswVars, nodeVars
  <2> QED
    BY <2>1, QuietStep
<1>6. CASE StatusStep \/ PatchStatusFails
  BY <1>6, StatusUpdateStep
<1>7. ASSUME NEW v \in Volumes, ControllerStep(v)
      PROVE  InUseInv'
  <2>1. UNCHANGED inUseVars
    BY <1>7 DEF ControllerStep, ControllerAttach, ProcessVolumesInUse,
         ControllerUnreport, VerifySafeToDetach, ControllerDetach,
         controllerUnchanged, inUseVars, dswVars
  <2> QED
    BY <2>1, QuietStep
<1>8. CASE Restart
  BY <1>8 DEF Restart, IdleStatus, InUseInv, ReportedIsInUse,
       ReportedIsDesired, ReportedIsSent
<1>9. CASE UNCHANGED vars
  BY <1>9, QuietStep DEF vars, inUseVars, dswVars, nodeVars
<1> QED
  BY <1>1, <1>2, <1>3, <1>4, <1>5, <1>6, <1>7, <1>8, <1>9 DEF Next

(***************************************************************************)
(* A volume counts as reported only while it is in the node's status,      *)
(* through failed patches, pods that come and go while an update is under  *)
(* way, and restarts of the kubelet.                                       *)
(***************************************************************************)
THEOREM Reported == Spec => []ReportedIsInUse
<1>1. Init => InUseInv
  BY DEF Init, dsw!Init, IdleStatus, InUseInv, ReportedIsInUse,
         ReportedIsDesired, ReportedIsSent
<1>2. InUseInv /\ [Next]_vars => InUseInv'
  BY InUseStep
<1>3. InUseInv => ReportedIsInUse
  BY DEF InUseInv
<1> QED
  BY <1>1, <1>2, <1>3, PTL DEF Spec

-----------------------------------------------------------------------------
(***************************************************************************)
(* Types.  A pod appears only together with a volume of its specification. *)
(***************************************************************************)
PodsOf(v) == {p \in Pods : v \in PodVolumes[p]}

MountItem == {x \in [vol : Volumes, pod : Pods] : x.pod \in PodsOf(x.vol)}

ToMountItem ==
    {x \in [vol : Volumes, pod : Pods, reportedInUse : BOOLEAN] :
        x.pod \in PodsOf(x.vol)}

UnmountedItem == [vol : Volumes, globallyMounted : BOOLEAN]

\* The operations that are started for a pod that is to have the volume.
MountKinds == {"verify", "attach", "mount"}

\* The steps of a goroutine are those of its kind.
Task ==
    {t \in Tasks :
        /\ t.step \in {"mountDevice", "markDeviceMounted", "setUp", "markMounted"}
             => t.kind = "mount"
        /\ t.step \in {"tearDown", "markUnmounted"} => t.kind = "unmount"
        /\ t.step \in {"checkRefs", "unmountDevice", "markDeviceUnmounted"}
             => t.kind = "unmountDevice"
        /\ t.step \in {"verify", "attach", "detach"} => t.kind = t.step
        /\ t.step = "markAttached" => t.kind \in {"verify", "attach"}
        /\ t.step = "markDetached" => t.kind = "detach"
        /\ t.kind \notin {"unmountDevice", "detach"} => t.pod \in PodsOf(t.vol)}

OpTypes ==
    /\ operations \in Seq(Operation)
    /\ routines \in [Routines -> Task \cup {Idle}]

HostTypes ==
    /\ failures \in 0 .. MaxFailures
    /\ deviceAttached \subseteq Volumes
    /\ volumesAttached \subseteq Volumes
    /\ deviceMounts \subseteq Volumes
    /\ stillOpen \subseteq Volumes
    /\ \A m \in podMounts : \E v \in Volumes : \E p \in PodsOf(v) : m = <<v, p>>

AswTypes ==
    /\ asw!TypeOK
    /\ \A v \in Volumes : mountedPods[v] \subseteq PodsOf(v)

DswTypes ==
    /\ dsw!TypeOK
    /\ \A v \in Volumes : podsToMount[v] \subseteq PodsOf(v)

PopulatorTypes ==
    /\ processedPods \subseteq Pods
    /\ populator \in
         [pc : {"idle", "add", "volumes", "remove"}, pods : SUBSET Pods,
          pod : PodNames, vols : SUBSET Volumes, items : SUBSET ToMountItem,
          fetched : BOOLEAN, runningPods : SUBSET Pods]
    /\ populator.pc = "volumes" =>
         populator.pod \in Pods /\ populator.vols \subseteq PodVolumes[populator.pod]

CheckSteps  == {"checkPending", "checkDesired", "checkActual"}
UpdateSteps == {"updateMounted", "updateDevice", "updateDesired"}
SyncSteps   == {"sync"} \cup CheckSteps \cup UpdateSteps

ReconcilerTypes ==
    /\ synced \in BOOLEAN
    /\ DOMAIN reconciler = {"pc", "work", "item", "updates"}
    /\ reconciler.pc \in {"idle", "unmount", "mount", "detach"} \cup SyncSteps
    /\ reconciler.pc = "idle" => reconciler.work = {}
    /\ reconciler.pc = "unmount" => reconciler.work \subseteq MountItem
    /\ reconciler.pc = "mount" => reconciler.work \subseteq ToMountItem
    /\ reconciler.pc = "detach" => reconciler.work \subseteq UnmountedItem
    /\ reconciler.pc \in SyncSteps => reconciler.work \subseteq MountItem
    /\ reconciler.pc \in SyncSteps \ {"sync"} => reconciler.item \in MountItem
    /\ reconciler.pc \notin SyncSteps => reconciler.updates = NoUpdates
    /\ reconciler.updates \in [Volumes -> PodNames]
    /\ \A v \in Volumes : reconciler.updates[v] # NoPod =>
         reconciler.updates[v] \in PodsOf(v)

Waits == {"idle", "dispatched", "reprocessed", "waiting", "ready"}

PodTypes ==
    /\ phase \in [Pods -> Phases]
    /\ podManager \subseteq Pods
    /\ running \subseteq Pods
    /\ startedLate \subseteq running
    /\ waiter \in [Pods -> Waits]

NodeTypes ==
    /\ nodeVolumesInUse \subseteq AttachableVolumes
    /\ statusUpdate \in [pc    : {"idle", "asw", "patch", "mark"},
                         inUse : SUBSET AttachableVolumes]
    /\ mountedByNode \in [Volumes -> {"assumed", "yes", "no"}]
    /\ detaching \in [Volumes -> {"no", "unreported", "verified"}]
    /\ restarts \in 0 .. MaxRestarts

VMTypes ==
    /\ OpTypes /\ HostTypes /\ AswTypes /\ DswTypes /\ PopulatorTypes
    /\ ReconcilerTypes /\ PodTypes /\ NodeTypes

(***************************************************************************)
(* A pod that is gone has ended and has no containers, or only such as     *)
(* were started after its end; it never comes back.  A pod that is known   *)
(* to the kubelet, if it is active, stays known until the kubelet restarts.*)
(***************************************************************************)
OnTime == running \ startedLate

Gone(p) == phase[p] \in {"terminated", "deleted"} /\ p \notin OnTime

Known(p) ==
    /\ phase[p] # "unscheduled"
    /\ phase[p] = "active" => p \in podManager

\* What a pod that is not gone keeps: its place in the desired state, until
\* the kubelet restarts, and its mount.
Kept(v, p) == Gone(p) \/ p \in podsToMount[v]

Held(v, p) == Gone(p) \/ <<v, p>> \in podMounts

ScheduledInv ==
    /\ \A p \in podManager : phase[p] # "unscheduled"
    /\ \A m \in podMounts : phase[m[2]] # "unscheduled"
    /\ \A r \in Routines :
         routines[r] # Idle /\ routines[r].kind \in {"verify", "attach", "mount"}
           => phase[routines[r].pod] # "unscheduled"

ContainersInv ==
    /\ \A p \in OnTime : \/ phase[p] = "active"
                         \/ ForcedDeletion /\ phase[p] = "deleted"
    /\ \A p \in Pods : waiter[p] = "ready" =>
         \A v \in PodVolumes[p] : Held(v, p)
    /\ \A p \in Pods : waiter[p] # "idle" => phase[p] # "unscheduled"

DesiredKnown == \A v \in Volumes : \A p \in podsToMount[v] : Known(p)

PopulatorKnown ==
    /\ \A p \in populator.pods : Known(p)
    /\ populator.pc = "volumes" => Known(populator.pod)
    /\ \A x \in populator.items : Known(x.pod)

ReconcilerKnown ==
    /\ reconciler.pc = "mount" => \A x \in reconciler.work : Known(x.pod)
    /\ reconciler.pc \in SyncSteps =>
         /\ \A x \in reconciler.work : Known(x.pod)
         /\ reconciler.pc # "sync" => Known(reconciler.item.pod)
    /\ \A v \in Volumes : reconciler.updates[v] # NoPod =>
         Known(reconciler.updates[v])

KnownInv == DesiredKnown /\ PopulatorKnown /\ ReconcilerKnown

\* The listing of the containers, taken once for a pass over the deleted
\* pods, is still good for the pods that are not active.
ListingInv ==
    populator.fetched /\ ForcedDeletion =>
        \A p \in Pods : /\ phase[p] \in {"terminated", "deleted"}
                        /\ p \in OnTime => p \in populator.runningPods

WorkKept ==
    reconciler.pc \in {"unmount", "mount"} =>
        \A x \in reconciler.work : Kept(x.vol, x.pod)

MountsKept ==
    \A v \in Volumes : \A p \in mountedPods[v] :
        \/ Kept(v, p)
        \/ /\ reconciler.pc \in {"updateDevice", "updateDesired"}
           /\ reconciler.item = [vol |-> v, pod |-> p]

RoutinesKept ==
    \A r \in Routines : routines[r] # Idle =>
        /\ routines[r].kind \in MountKinds => Kept(routines[r].vol, routines[r].pod)
        /\ routines[r].kind = "unmount" => Gone(routines[r].pod)

KeptInv == WorkKept /\ MountsKept /\ RoutinesKept

HeldInv ==
    /\ \A v \in Volumes : \A p \in mountedPods[v] : Held(v, p)
    /\ \A r \in Routines :
         routines[r] # Idle /\ routines[r].step = "markMounted" =>
            Held(routines[r].vol, routines[r].pod)
    /\ reconciler.pc \in SyncSteps \ {"sync"} =>
         Held(reconciler.item.vol, reconciler.item.pod)
    /\ \A v \in Volumes : reconciler.updates[v] # NoPod =>
         Held(v, reconciler.updates[v])

KeepInv ==
    /\ ScheduledInv /\ ContainersInv /\ KnownInv /\ ListingInv /\ KeptInv
    /\ HeldInv /\ RunningPodKeepsVolumes

-----------------------------------------------------------------------------
(***************************************************************************)
(* Operations that exclude each other.                                     *)
(***************************************************************************)
OnePod(v) == \A p, q \in PodsOf(v) : p = q

\* Operations fail, or volumes are shared, and not both: with both, the list
\* may let two operations on a volume run (NestedPendingOperations,
\* MutualExclusion).
FailuresOrSharing == MaxFailures = 0 \/ \A v \in Volumes : OnePod(v)

ListInv(ops) ==
    /\ ops \in Seq(Operation)
    /\ \A i \in DOMAIN ops :
         /\ ops[i].volumeName \in Volumes
         /\ ops[i].podName # NoPod => ops[i].podName \in PodsOf(ops[i].volumeName)
         /\ ops[i].podName # NoPod /\ ~ops[i].operationPending =>
              OnePod(ops[i].volumeName)
    /\ \A i, j \in DOMAIN ops :
         i # j /\ ops[i].volumeName = ops[j].volumeName =>
            ~Excludes(ops[i].podName, ops[j].podName)

NameOf(t) == OperationPod(t.kind, t.vol, t.pod)

PendingEntry(ops, v, p) ==
    \E i \in DOMAIN ops : /\ ops[i].operationPending
                          /\ ops[i].volumeName = v /\ ops[i].podName = p

ExclusionInv ==
    /\ ListInv(operations)
    /\ \A r \in Routines : routines[r] # Idle =>
         /\ PendingEntry(operations, routines[r].vol, NameOf(routines[r]))
         /\ routines[r].kind = "unmount" /\ routines[r].step = "failed" =>
              OnePod(routines[r].vol)
    /\ \A r, s \in Routines :
         /\ r # s /\ routines[r] # Idle /\ routines[s] # Idle
         /\ routines[r].vol = routines[s].vol
         => ~Excludes(NameOf(routines[r]), NameOf(routines[s]))

(***************************************************************************)
(* Devices and what is mounted from them.                                  *)
(***************************************************************************)
DeviceInv ==
    /\ PodMountOverDevice
    /\ \A r \in Routines : routines[r] # Idle =>
         /\ routines[r].step = "markDeviceMounted" =>
              routines[r].vol \in deviceMounts
         /\ routines[r].step = "setUp" /\ routines[r].vol \in AttachableVolumes =>
              routines[r].vol \in deviceMounts
         /\ routines[r].step = "unmountDevice" =>
              \A m \in podMounts : m[1] # routines[r].vol
         /\ routines[r].step = "markDeviceUnmounted" =>
              routines[r].vol \notin deviceMounts

\* While the state is synchronized with the disk, the device of a volume
\* that was found there stays mounted: no operation is started meanwhile,
\* and those under way leave it alone.
InSync(v) ==
    \/ reconciler.pc \in SyncSteps /\ \E x \in reconciler.work : x.vol = v
    \/ reconciler.updates[v] # NoPod
    \/ reconciler.pc \in SyncSteps \ {"sync"} /\ reconciler.item.vol = v

DeviceStays(v) ==
    /\ v \in deviceMounts
    /\ \A r \in Routines :
         routines[r] # Idle /\ routines[r].vol = v =>
            /\ routines[r].step \notin {"unmountDevice", "markDeviceUnmounted"}
            /\ routines[r].step = "checkRefs" => \E m \in podMounts : m[1] = v

SyncDeviceInv ==
    /\ \A v \in AttachableVolumes : InSync(v) => DeviceStays(v)
    /\ reconciler.pc = "updateDevice" => reconciler.item.vol \in AttachableVolumes

-----------------------------------------------------------------------------
(***************************************************************************)
(* What the steps do to goroutines: one starts, one goes on, one ends.     *)
(***************************************************************************)
TaskIs(t, kind, v, p, step) ==
    /\ t \in Task
    /\ t.kind = kind /\ t.vol = v /\ t.pod = p /\ t.step = step

Others(r) ==
    /\ routines' = [s \in Routines |-> routines'[s]]
    /\ \A s \in Routines \ {r} : routines'[s] = routines[s]

Starts(r, kind, v, p) ==
    /\ r \in Routines /\ routines[r] = Idle
    /\ TaskIs(routines'[r], kind, v, p, FirstStep(kind, v))
    /\ Others(r)

Started(kind, v, p) ==
    \/ UNCHANGED opVars
    \/ /\ RunAccepts(operations, v, OperationPod(kind, v, p))
       /\ operations' = AfterRun(operations, v, OperationPod(kind, v, p))
       /\ \E r \in Routines : Starts(r, kind, v, p)

Moves(r, step) ==
    /\ r \in Routines /\ routines[r] # Idle
    /\ routines[r] \in Task
    /\ TaskIs(routines'[r], routines[r].kind, routines[r].vol, routines[r].pod,
              step)
    /\ Others(r)
    /\ UNCHANGED operations

Ends(r) ==
    /\ r \in Routines /\ routines[r] # Idle
    /\ routines[r] \in Task
    /\ routines[r].step \in {"succeeded", "failed"}
    /\ routines'[r] = Idle
    /\ Others(r)
    /\ operations' = operationComplete(operations, routines[r].vol,
                        NameOf(routines[r]), routines[r].step = "failed")

\* What an operation may be started for.
Startable(kind, v, p) ==
    /\ kind \in Kinds /\ v \in Volumes /\ p \in PodNames
    /\ kind \notin {"unmountDevice", "detach"} => p \in PodsOf(v)

LEMMA FirstStepType ==
    ASSUME NEW kind, NEW v, NEW p, NEW b \in BOOLEAN, Startable(kind, v, p),
           NEW t, t = [kind |-> kind, vol |-> v, pod |-> p,
                       reportedInUse |-> b, step |-> FirstStep(kind, v)]
    PROVE  TaskIs(t, kind, v, p, FirstStep(kind, v))
<1>1. /\ kind = "mount" => FirstStep(kind, v) \in {"mountDevice", "setUp"}
      /\ kind = "unmount" => FirstStep(kind, v) = "tearDown"
      /\ kind = "unmountDevice" => FirstStep(kind, v) = "checkRefs"
      /\ kind \in {"verify", "attach", "detach"} => FirstStep(kind, v) = kind
  BY DEF FirstStep
<1>2. FirstStep(kind, v) \in Steps
  BY <1>1 DEF Steps, CallSteps, Startable, Kinds
<1> DEFINE s == FirstStep(kind, v)
<1>3. t = [kind |-> kind, vol |-> v, pod |-> p, reportedInUse |-> b, step |-> s]
  OBVIOUS
<1> HIDE DEF s
<1>4. s \in Steps
      /\ (kind = "mount" => s \in {"mountDevice", "setUp"})
      /\ (kind = "unmount" => s = "tearDown")
      /\ (kind = "unmountDevice" => s = "checkRefs")
      /\ (kind \in {"verify", "attach", "detach"} => s = kind)
  BY <1>1, <1>2 DEF s
<1>5. t \in Tasks
  BY <1>3, <1>4 DEF Tasks, Startable
<1>6. t \in Task
  BY <1>3, <1>4, <1>5 DEF Task, Startable, Kinds
<1> QED
  BY <1>3, <1>6 DEF TaskIs, s

LEMMA StartEffect ==
    ASSUME OpTypes, NEW kind, NEW v, NEW p, NEW b \in BOOLEAN,
           Startable(kind, v, p), Start(kind, v, p, b)
    PROVE  Started(kind, v, p)
<1> DEFINE name == OperationPod(kind, v, p)
           r == Min(FreeRoutines)
           t == [kind |-> kind, vol |-> v, pod |-> p,
                 reportedInUse |-> b, step |-> FirstStep(kind, v)]
<1>1. CASE ~RunAccepts(operations, v, name)
  BY <1>1 DEF Start, Started
<1>2. CASE RunAccepts(operations, v, name)
  <2>1. /\ FreeRoutines # {}
        /\ operations' = AfterRun(operations, v, name)
        /\ routines' = [routines EXCEPT ![r] = t]
    BY <1>2 DEF Start
  <2>2. r \in Routines /\ routines[r] = Idle
    <3>1. FreeRoutines \subseteq Nat
      BY RoutinesAssumption DEF FreeRoutines
    <3>2. r \in FreeRoutines
      BY <2>1, <3>1, LeastElement
    <3> HIDE DEF r
    <3> QED
      BY <3>2 DEF FreeRoutines
  <2>3. TaskIs(t, kind, v, p, FirstStep(kind, v))
    BY FirstStepType
  <2> HIDE DEF r, t
  <2>4. routines'[r] = t /\ Others(r)
    BY <2>1, <2>2 DEF OpTypes, Others
  <2>5. Starts(r, kind, v, p)
    BY <2>2, <2>3, <2>4 DEF Starts
  <2> QED
    BY <1>2, <2>1, <2>2, <2>5 DEF Started
<1> QED
  BY <1>1, <1>2

LEMMA TaskMoves ==
    ASSUME OpTypes, NEW r \in Routines, routines[r] # Idle, NEW step,
           routines' = [routines EXCEPT ![r].step = step],
           UNCHANGED operations,
           step \in Steps,
           \/ step \in {"succeeded", "failed"}
           \/ step = "markAttached" /\ routines[r].kind \in {"verify", "attach"}
           \/ step = "markDetached" /\ routines[r].kind = "detach"
           \/ /\ step \in {"markDeviceMounted", "setUp", "markMounted"}
              /\ routines[r].kind = "mount"
           \/ step = "markUnmounted" /\ routines[r].kind = "unmount"
           \/ /\ step \in {"unmountDevice", "markDeviceUnmounted"}
              /\ routines[r].kind = "unmountDevice"
    PROVE  Moves(r, step)
<1> DEFINE t == routines[r]
           u == [t EXCEPT !.step = step]
<1>1. t \in Task
  BY DEF OpTypes
<1>2. routines'[r] = u /\ Others(r)
  BY DEF OpTypes, Others
<1>3. t \in Tasks
  BY <1>1 DEF Task
<1>4. u \in Tasks /\ u.kind = t.kind /\ u.vol = t.vol /\ u.pod = t.pod
      /\ u.step = step
  BY <1>3 DEF Tasks
<1> HIDE DEF t, u
<1>5. u \in Task
  BY <1>1, <1>4 DEF Task, t
<1> QED
  BY <1>1, <1>2, <1>4, <1>5 DEF Moves, TaskIs, t

\* The step of r before one of its actions belongs to its kind.
LEMMA TaskKind ==
    ASSUME OpTypes, NEW r \in Routines, NEW step, At(r, step)
    PROVE  /\ routines[r] # Idle /\ routines[r] \in Task
           /\ routines[r].step = step
           /\ routines[r].vol \in Volumes /\ routines[r].pod \in PodNames
           /\ routines[r].kind \in Kinds
           /\ routines[r].reportedInUse \in BOOLEAN
           /\ step \in {"mountDevice", "markDeviceMounted", "setUp", "markMounted"}
                => routines[r].kind = "mount"
           /\ step \in {"tearDown", "markUnmounted"}
                => routines[r].kind = "unmount"
           /\ step \in {"checkRefs", "unmountDevice", "markDeviceUnmounted"}
                => routines[r].kind = "unmountDevice"
           /\ step \in {"verify", "attach", "detach"} => routines[r].kind = step
           /\ step = "markAttached" => routines[r].kind \in {"verify", "attach"}
           /\ step = "markDetached" => routines[r].kind = "detach"
           /\ routines[r].kind \notin {"unmountDevice", "detach"} =>
                routines[r].pod \in PodsOf(routines[r].vol)
<1>1. routines[r] # Idle /\ routines[r].step = step
  BY DEF At
<1>2. routines[r] \in Task
  BY <1>1 DEF OpTypes
<1>3. routines[r] \in Tasks
  BY <1>2 DEF Task
<1>4. /\ routines[r].vol \in Volumes /\ routines[r].pod \in PodNames
      /\ routines[r].kind \in Kinds /\ routines[r].reportedInUse \in BOOLEAN
  BY <1>3 DEF Tasks
<1> QED
  BY <1>1, <1>2, <1>4 DEF Task

\* A goroutine's own step, whether its call succeeds or fails.
AnyStep(r) == RoutineStep(r) \/ CallFails(r) \/ DeviceStillOpen(r)

LEMMA RoutineEffect ==
    ASSUME OpTypes, NEW r \in Routines, AnyStep(r)
    PROVE  Ends(r) \/ \E step : Moves(r, step)
<1> USE DEF Steps, CallSteps
<1>1. CASE Verify(r)
  <2>1. At(r, "verify") /\ UNCHANGED operations
    BY <1>1 DEF Verify
  <2>2. PICK step \in {"markAttached", "failed"} :
            routines' = [routines EXCEPT ![r].step = step]
    BY <1>1 DEF Verify, Goto
  <2> QED
    BY <2>1, <2>2, TaskKind, TaskMoves
<1>2. CASE Attach(r)
  BY <1>2, TaskKind, TaskMoves DEF Attach, Goto
<1>3. CASE MarkAttached(r)
  BY <1>3, TaskKind, TaskMoves DEF MarkAttached, Goto
<1>4. CASE MountDevice(r)
  <2>1. At(r, "mountDevice") /\ UNCHANGED operations
    BY <1>4 DEF MountDevice
  <2>2. PICK step \in {"markDeviceMounted", "failed"} :
            routines' = [routines EXCEPT ![r].step = step]
    BY <1>4 DEF MountDevice, Goto
  <2> QED
    BY <2>1, <2>2, TaskKind, TaskMoves
<1>5. CASE MarkDeviceMounted(r)
  <2>1. At(r, "markDeviceMounted") /\ UNCHANGED operations
    BY <1>5 DEF MarkDeviceMounted
  <2>2. PICK step \in {"setUp", "failed"} :
            routines' = [routines EXCEPT ![r].step = step]
    BY <1>5 DEF MarkDeviceMounted, Goto
  <2> QED
    BY <2>1, <2>2, TaskKind, TaskMoves
<1>6. CASE SetUp(r)
  BY <1>6, TaskKind, TaskMoves DEF SetUp, Goto
<1>7. CASE MarkMounted(r)
  <2>1. At(r, "markMounted") /\ UNCHANGED operations
    BY <1>7 DEF MarkMounted
  <2>2. PICK step \in {"succeeded", "failed"} :
            routines' = [routines EXCEPT ![r].step = step]
    BY <1>7 DEF MarkMounted, Goto
  <2> QED
    BY <2>1, <2>2, TaskKind, TaskMoves
<1>8. CASE TearDown(r)
  <2>1. At(r, "tearDown") /\ UNCHANGED operations
    BY <1>8 DEF TearDown
  <2>2. PICK step \in {"markUnmounted", "failed"} :
            routines' = [routines EXCEPT ![r].step = step]
    BY <1>8 DEF TearDown, Goto
  <2> QED
    BY <2>1, <2>2, TaskKind, TaskMoves
<1>9. CASE MarkUnmounted(r)
  BY <1>9, TaskKind, TaskMoves DEF MarkUnmounted, Goto
<1>10. CASE CheckRefs(r)
  <2>1. At(r, "checkRefs") /\ UNCHANGED operations
    BY <1>10 DEF CheckRefs
  <2>2. PICK step \in {"unmountDevice", "failed"} :
            routines' = [routines EXCEPT ![r].step = step]
    BY <1>10 DEF CheckRefs, Goto
  <2> QED
    BY <2>1, <2>2, TaskKind, TaskMoves
<1>11. CASE UnmountDevice(r)
  BY <1>11, TaskKind, TaskMoves DEF UnmountDevice, Goto
<1>12. CASE MarkDeviceUnmounted(r)
  <2>1. At(r, "markDeviceUnmounted") /\ UNCHANGED operations
    BY <1>12 DEF MarkDeviceUnmounted
  <2>2. PICK step \in {"succeeded", "failed"} :
            routines' = [routines EXCEPT ![r].step = step]
    BY <1>12 DEF MarkDeviceUnmounted, Goto
  <2> QED
    BY <2>1, <2>2, TaskKind, TaskMoves
<1>13. CASE Detach(r)
  BY <1>13, TaskKind, TaskMoves DEF Detach, Goto
<1>14. CASE MarkDetached(r)
  BY <1>14, TaskKind, TaskMoves DEF MarkDetached, Goto
<1>15. CASE CallFails(r)
  BY <1>15, TaskMoves DEF CallFails, Goto
<1>16. CASE DeviceStillOpen(r)
  BY <1>16, TaskKind, TaskMoves DEF DeviceStillOpen, Goto
<1>17. CASE Complete(r)
  <2>1. /\ routines[r] # Idle /\ routines[r] \in Task
        /\ routines[r].step \in {"succeeded", "failed"}
    BY <1>17, TaskKind DEF Complete
  <2>2. routines'[r] = Idle /\ Others(r)
    BY <1>17 DEF Complete, OpTypes, Others
  <2>3. operations' = operationComplete(operations, routines[r].vol,
                         NameOf(routines[r]), routines[r].step = "failed")
    BY <1>17 DEF Complete, NameOf
  <2> QED
    BY <2>1, <2>2, <2>3 DEF Ends
<1> QED
  BY <1>1, <1>2, <1>3, <1>4, <1>5, <1>6, <1>7, <1>8, <1>9, <1>10, <1>11, <1>12,
     <1>13, <1>14, <1>15, <1>16, <1>17 DEF AnyStep, RoutineStep

-----------------------------------------------------------------------------
(***************************************************************************)
(* The types are kept: the list of operations and the goroutines, ...      *)
(***************************************************************************)
LEMMA NameType ==
    ASSUME NEW kind, NEW v \in Volumes, NEW p \in PodNames
    PROVE  /\ OperationPod(kind, v, p) \in PodNames
           /\ OperationPod(kind, v, p) \in {p, NoPod}
           /\ v \in VolumeNames
  BY DEF OperationPod, PodNames, VolumeNames

LEMMA CompleteType ==
    ASSUME NEW ops \in Seq(Operation), NEW v, NEW p, NEW failed \in BOOLEAN
    PROVE  operationComplete(ops, v, p, failed) \in Seq(Operation)
<1>1. CASE ~failed \/ ~ExponentialBackOffOnError
  BY <1>1, DeleteEntry DEF operationComplete
<1>2. CASE ~(~failed \/ ~ExponentialBackOffOnError)
  BY <1>2, CompleteKeeps
<1> QED
  BY <1>1, <1>2

LEMMA RoutinesType ==
    ASSUME OpTypes, operations' \in Seq(Operation), NEW r \in Routines,
           routines'[r] \in Task \cup {Idle}, Others(r)
    PROVE  OpTypes'
<1>1. \A s \in Routines : routines'[s] \in Task \cup {Idle}
  BY DEF Others, OpTypes
<1> QED
  BY <1>1 DEF OpTypes, Others

LEMMA StartTypes ==
    ASSUME OpTypes, NEW kind, NEW v \in Volumes, NEW p \in PodNames,
           Started(kind, v, p)
    PROVE  OpTypes'
<1> DEFINE name == OperationPod(kind, v, p)
<1>1. CASE UNCHANGED opVars
  BY <1>1 DEF OpTypes, opVars
<1>2. CASE /\ operations' = AfterRun(operations, v, name)
           /\ \E r \in Routines : Starts(r, kind, v, p)
  <2>1. operations \in Seq(Operation) /\ name \in PodNames /\ v \in VolumeNames
    BY NameType DEF OpTypes
  <2> HIDE DEF name
  <2>2. operations' \in Seq(Operation)
    <3>1. CASE isOperationExists(operations, v, name)
      BY <1>2, <2>1, <3>1, RunTakesOver
    <3>2. CASE ~isOperationExists(operations, v, name)
      BY <1>2, <2>1, <3>2, RunAppends
    <3> QED
      BY <3>1, <3>2
  <2>3. PICK r \in Routines : Starts(r, kind, v, p)
    BY <1>2
  <2> QED
    BY <2>2, <2>3, RoutinesType DEF Starts, TaskIs
<1> QED
  BY <1>1, <1>2 DEF Started

LEMMA StepTypes ==
    ASSUME OpTypes, NEW r \in Routines, Ends(r) \/ \E step : Moves(r, step)
    PROVE  OpTypes'
<1>1. ASSUME NEW step, Moves(r, step)
      PROVE  OpTypes'
  BY <1>1, RoutinesType DEF Moves, TaskIs, OpTypes
<1>2. CASE Ends(r)
  <2>1. (routines[r].step = "failed") \in BOOLEAN
    OBVIOUS
  <2>2. operations' \in Seq(Operation)
    BY <1>2, <2>1, CompleteType DEF Ends, OpTypes
  <2> QED
    BY <1>2, <2>2, RoutinesType DEF Ends
<1> QED
  BY <1>1, <1>2

LEMMA TickTypes ==
    ASSUME OpTypes, Tick
    PROVE  OpTypes'
<1>1. operations' = Later(operations) /\ UNCHANGED routines
  BY DEF Tick
<1>2. Later(operations) \in Seq(Operation)
  BY LaterEntries DEF OpTypes
<1> QED
  BY <1>1, <1>2 DEF OpTypes

(***************************************************************************)
(* ... the host, ...                                                       *)
(***************************************************************************)
LEMMA HostSteps ==
    ASSUME OpTypes, HostTypes, NEW r \in Routines, AnyStep(r)
    PROVE  HostTypes'
<1> DEFINE v == routines[r].vol
           p == routines[r].pod
<1> USE DEF HostTypes, hostVars
<1>1. CASE Verify(r) \/ MarkAttached(r) \/ MarkDeviceMounted(r)
           \/ MarkMounted(r) \/ MarkUnmounted(r) \/ CheckRefs(r)
           \/ MarkDeviceUnmounted(r) \/ MarkDetached(r) \/ Complete(r)
  BY <1>1 DEF Verify, MarkAttached, MarkDeviceMounted, MarkMounted,
     MarkUnmounted, CheckRefs, MarkDeviceUnmounted, MarkDetached, Complete
<1>2. CASE Attach(r)
  BY <1>2, TaskKind DEF Attach
<1>3. CASE MountDevice(r)
  BY <1>3, TaskKind DEF MountDevice
<1>4. CASE SetUp(r)
  <2>1. v \in Volumes /\ p \in PodsOf(v)
    BY <1>4, TaskKind DEF SetUp
  <2> QED
    BY <1>4, <2>1 DEF SetUp
<1>5. CASE TearDown(r)
  BY <1>5 DEF TearDown
<1>6. CASE UnmountDevice(r) \/ Detach(r)
  BY <1>6 DEF UnmountDevice, Detach
<1>7. CASE CallFails(r)
  BY <1>7, MaxFailuresAssumption DEF CallFails
<1>8. CASE DeviceStillOpen(r)
  <2>1. v \in Volumes
    BY <1>8, TaskKind DEF DeviceStillOpen
  <2>2. failures' \in 0..MaxFailures
    BY <1>8, MaxFailuresAssumption DEF DeviceStillOpen
  <2> QED
    BY <1>8, <2>1, <2>2 DEF DeviceStillOpen
<1> QED
  BY <1>1, <1>2, <1>3, <1>4, <1>5, <1>6, <1>7, <1>8 DEF AnyStep, RoutineStep

(***************************************************************************)
(* ... the actual and the desired state of the world, ...                  *)
(***************************************************************************)
LEMMA AswOperations ==
    ASSUME AswTypes, NEW v, NEW p,
           \/ UNCHANGED aswVars
           \/ v \in Volumes /\ asw!MarkVolumeAsAttached(v)
           \/ v \in Volumes /\ asw!MarkVolumeAsDetached(v)
           \/ /\ v \in Volumes /\ p \in PodsOf(v)
              /\ asw!VolumeExists(v) /\ asw!MarkVolumeAsMounted(p, v)
           \/ v \in Volumes /\ asw!MarkVolumeAsUnmounted(p, v)
           \/ v \in Volumes /\ asw!VolumeExists(v) /\ asw!MarkDeviceAsMounted(v)
           \/ v \in Volumes /\ asw!MarkDeviceAsUnmounted(v)
           \/ p \in Pods /\ asw!MarkRemountRequired(p)
    PROVE  AswTypes'
<1> USE DEF AswTypes, asw!TypeOK
<1>1. CASE UNCHANGED aswVars
  BY <1>1 DEF aswVars
<1>2. CASE v \in Volumes /\ asw!MarkVolumeAsAttached(v)
  BY <1>2 DEF asw!MarkVolumeAsAttached
<1>3. CASE v \in Volumes /\ asw!MarkVolumeAsDetached(v)
  <2>1. CASE UNCHANGED asw!vars
    BY <2>1 DEF asw!vars
  <2>2. CASE ~UNCHANGED asw!vars
    BY <1>3, <2>2 DEF asw!MarkVolumeAsDetached
  <2> QED
    BY <2>1, <2>2
<1>4. CASE /\ v \in Volumes /\ p \in PodsOf(v)
           /\ asw!VolumeExists(v) /\ asw!MarkVolumeAsMounted(p, v)
  <2>1. p \in Pods
    BY <1>4 DEF PodsOf
  <2> QED
    BY <1>4, <2>1 DEF asw!MarkVolumeAsMounted, asw!VolumeExists
<1>5. CASE v \in Volumes /\ asw!MarkVolumeAsUnmounted(p, v)
  BY <1>5 DEF asw!MarkVolumeAsUnmounted
<1>6. CASE v \in Volumes /\ asw!VolumeExists(v) /\ asw!MarkDeviceAsMounted(v)
  BY <1>6 DEF asw!MarkDeviceAsMounted, asw!VolumeExists
<1>7. CASE v \in Volumes /\ asw!MarkDeviceAsUnmounted(v)
  BY <1>7 DEF asw!MarkDeviceAsUnmounted
<1>8. CASE p \in Pods /\ asw!MarkRemountRequired(p)
  BY <1>8, VolumeKindsAssumption DEF asw!MarkRemountRequired
<1> QED
  BY <1>1, <1>2, <1>3, <1>4, <1>5, <1>6, <1>7, <1>8

LEMMA DswOperations ==
    ASSUME DswTypes, NEW v, NEW p, NEW S,
           \/ UNCHANGED dswVars
           \/ v \in Volumes /\ p \in PodsOf(v) /\ dsw!AddPodToVolume(p, v)
           \/ v \in Volumes /\ dsw!DeletePodFromVolume(p, v)
           \/ dsw!MarkVolumesReportedInUse(S)
    PROVE  DswTypes'
<1> USE DEF DswTypes, dsw!TypeOK
<1>1. CASE UNCHANGED dswVars
  BY <1>1 DEF dswVars
<1>2. CASE v \in Volumes /\ p \in PodsOf(v) /\ dsw!AddPodToVolume(p, v)
  <2>1. p \in Pods
    BY <1>2 DEF PodsOf
  <2> QED
    BY <1>2, <2>1 DEF dsw!AddPodToVolume
<1>3. CASE v \in Volumes /\ dsw!DeletePodFromVolume(p, v)
  <2>1. podsToMount' \in [Volumes -> SUBSET Pods]
        /\ \A w \in Volumes : podsToMount'[w] \subseteq PodsOf(w)
    BY <1>3 DEF dsw!DeletePodFromVolume
  <2>2. reportedInUse' \subseteq {w \in Volumes : podsToMount'[w] # {}}
    BY <1>3 DEF dsw!DeletePodFromVolume
  <2> QED
    BY <2>1, <2>2
<1>4. CASE dsw!MarkVolumesReportedInUse(S)
  BY <1>4 DEF dsw!MarkVolumesReportedInUse, dsw!VolumeExists
<1> QED
  BY <1>1, <1>2, <1>3, <1>4

\* A goroutine tells the actual state of the world.
LEMMA AswSteps ==
    ASSUME OpTypes, AswTypes, NEW r \in Routines, AnyStep(r)
    PROVE  AswTypes'
<1> DEFINE v == routines[r].vol
           p == routines[r].pod
<1> USE DEF AswTypes, asw!TypeOK
<1>1. CASE UNCHANGED aswVars
  BY <1>1 DEF aswVars
<1>2. CASE MarkAttached(r)
  <2>1. v \in Volumes /\ asw!MarkVolumeAsAttached(v)
    BY <1>2, TaskKind DEF MarkAttached
  <2> HIDE DEF v
  <2> QED
    BY <2>1 DEF asw!MarkVolumeAsAttached
<1>3. CASE MarkDeviceMounted(r)
  <2>1. v \in Volumes
    BY <1>3, TaskKind DEF MarkDeviceMounted
  <2>2. CASE asw!VolumeExists(v)
    <3>1. asw!MarkDeviceAsMounted(v) /\ v \in attachedVolumes
      BY <1>3, <2>2 DEF MarkDeviceMounted, asw!VolumeExists
    <3> HIDE DEF v
    <3> QED
      BY <3>1 DEF asw!MarkDeviceAsMounted
  <2>3. CASE ~asw!VolumeExists(v)
    BY <1>1, <1>3, <2>3 DEF MarkDeviceMounted
  <2> QED
    BY <2>2, <2>3
<1>4. CASE MarkMounted(r)
  <2>1. /\ v \in Volumes /\ p \in PodsOf(v)
        /\ UNCHANGED aswVars \/ (asw!VolumeExists(v) /\ asw!MarkVolumeAsMounted(p, v))
    BY <1>4, TaskKind DEF MarkMounted
  <2> HIDE DEF v, p
  <2> QED
    BY <2>1, AswOperations
<1>5. CASE MarkUnmounted(r)
  <2>1. v \in Volumes /\ p \in PodsOf(v) /\ asw!MarkVolumeAsUnmounted(p, v)
    BY <1>5, TaskKind DEF MarkUnmounted
  <2> HIDE DEF v, p
  <2> QED
    BY <2>1, AswOperations
<1>6. CASE MarkDeviceUnmounted(r)
  <2>1. v \in Volumes
        /\ (UNCHANGED aswVars \/ asw!MarkDeviceAsUnmounted(v))
    BY <1>6, TaskKind DEF MarkDeviceUnmounted, asw!VolumeExists
  <2> HIDE DEF v
  <2> QED
    BY <1>1, <2>1 DEF asw!MarkDeviceAsUnmounted
<1>7. CASE MarkDetached(r)
  <2>1. v \in Volumes /\ asw!MarkVolumeAsDetached(v)
    BY <1>7, TaskKind DEF MarkDetached
  <2> HIDE DEF v
  <2>2. CASE mountedPods[v] # {}
    BY <1>1, <2>1, <2>2 DEF asw!MarkVolumeAsDetached, asw!vars, aswVars
  <2>3. CASE mountedPods[v] = {}
    BY <2>1, <2>3 DEF asw!MarkVolumeAsDetached
  <2> QED
    BY <2>2, <2>3
<1>8. CASE \/ Verify(r) \/ Attach(r) \/ MountDevice(r) \/ SetUp(r) \/ TearDown(r)
           \/ CheckRefs(r) \/ UnmountDevice(r) \/ Detach(r) \/ Complete(r)
           \/ CallFails(r) \/ DeviceStillOpen(r)
  <2>1. UNCHANGED aswVars
    BY <1>8 DEF Verify, Attach, MountDevice, SetUp, TearDown, CheckRefs,
       UnmountDevice, Detach, Complete, CallFails, DeviceStillOpen
  <2> QED
    BY <1>1, <2>1
<1> QED
  BY <1>2, <1>3, <1>4, <1>5, <1>6, <1>7, <1>8 DEF AnyStep, RoutineStep

(***************************************************************************)
(* ... the populator, ...                                                  *)
(***************************************************************************)
LEMMA ToMountType ==
    ASSUME DswTypes
    PROVE  /\ dsw!GetVolumesToMount \subseteq ToMountItem
           /\ \A x \in dsw!GetVolumesToMount : x.pod \in podsToMount[x.vol]
<1>1. ASSUME NEW x \in dsw!GetVolumesToMount
      PROVE  x \in ToMountItem /\ x.pod \in podsToMount[x.vol]
  <2>1. PICK y \in Volumes \X Pods :
            /\ y[2] \in podsToMount[y[1]]
            /\ x = [vol |-> y[1], pod |-> y[2],
                    reportedInUse |-> y[1] \in reportedInUse]
    BY DEF dsw!GetVolumesToMount
  <2> DEFINE b == y[1] \in reportedInUse
  <2>2. b \in BOOLEAN /\ x = [vol |-> y[1], pod |-> y[2], reportedInUse |-> b]
    BY <2>1
  <2> HIDE DEF b
  <2>3. y[1] \in Volumes /\ y[2] \in Pods /\ y[2] \in PodsOf(y[1])
    BY <2>1 DEF DswTypes
  <2> QED
    BY <2>1, <2>2, <2>3 DEF ToMountItem
<1> QED
  BY <1>1

LEMMA IdlePopulatorType ==
    /\ IdlePopulator \in
         [pc : {"idle", "add", "volumes", "remove"}, pods : SUBSET Pods,
          pod : PodNames, vols : SUBSET Volumes, items : SUBSET ToMountItem,
          fetched : BOOLEAN, runningPods : SUBSET Pods]
    /\ IdlePopulator.pc = "idle" /\ IdlePopulator.pods = {}
    /\ IdlePopulator.items = {} /\ ~IdlePopulator.fetched
<1> DEFINE b == FALSE
<1>1. b \in BOOLEAN /\ ~b
  OBVIOUS
<1>2. IdlePopulator = [pc |-> "idle", pods |-> {}, pod |-> NoPod, vols |-> {},
                       items |-> {}, fetched |-> b, runningPods |-> {}]
  BY DEF IdlePopulator
<1> HIDE DEF b
<1> QED
  BY <1>1, <1>2 DEF PodNames

LEMMA PopulatorSteps ==
    ASSUME DswTypes, PopulatorTypes, PodTypes,
           \/ PopulatorStep
           \/ \E v \in Volumes : AddVolumeFails(v)
           \/ \E x \in populator.items : GetPodsFails(x)
    PROVE  PopulatorTypes'
<1> USE DEF PopulatorTypes
<1>1. CASE FindPods
  BY <1>1 DEF FindPods, PodTypes
<1>2. CASE MarkPodProcessed
  BY <1>2 DEF MarkPodProcessed, PodNames
<1>3. CASE FindDeletedPods
  BY <1>3, ToMountType DEF FindDeletedPods
<1>4. CASE SkipDeletedPods \/ EndRemove
  <2>1. populator' = IdlePopulator /\ UNCHANGED processedPods
    BY <1>4 DEF SkipDeletedPods, EndRemove
  <2> QED
    BY <2>1, IdlePopulatorType
<1>5. ASSUME NEW p \in Pods, ProcessPod(p)
      PROVE  PopulatorTypes'
  BY <1>5, PodVolumesAssumption DEF ProcessPod, PodNames
<1>6. ASSUME NEW v \in Volumes, AddVolume(v) \/ AddVolumeFails(v)
      PROVE  PopulatorTypes'
  BY <1>6 DEF AddVolume, AddVolumeFails
<1>7. ASSUME NEW x \in populator.items, RemoveItem(x)
      PROVE  PopulatorTypes'
  <2> DEFINE all == IF populator.fetched THEN populator.runningPods ELSE running
  <2>1. all \subseteq Pods
    BY DEF PodTypes
  <2>2. populator.pc = "remove" /\ processedPods' \subseteq processedPods
    BY <1>7 DEF RemoveItem
  <2>3. \/ populator' = [populator EXCEPT !.items = @ \ {x}]
        \/ populator' = [populator EXCEPT !.items = @ \ {x}, !.fetched = TRUE,
                                          !.runningPods = all]
    BY <1>7 DEF RemoveItem
  <2> HIDE DEF all
  <2> QED
    BY <2>1, <2>2, <2>3
<1>8. ASSUME NEW x \in populator.items, GetPodsFails(x)
      PROVE  PopulatorTypes'
  BY <1>8 DEF GetPodsFails
<1> QED
  BY <1>1, <1>2, <1>3, <1>4, <1>5, <1>6, <1>7, <1>8 DEF PopulatorStep

(***************************************************************************)
(* ... and the reconciler, with the operations it starts.                  *)
(***************************************************************************)
LEMMA MountedType ==
    ASSUME AswTypes
    PROVE  /\ asw!GetMountedVolumes \subseteq MountItem
           /\ \A x \in asw!GetMountedVolumes : x.pod \in mountedPods[x.vol]
<1>1. ASSUME NEW x \in asw!GetMountedVolumes
      PROVE  x \in MountItem /\ x.pod \in mountedPods[x.vol]
  <2>1. PICK y \in Volumes \X Pods :
            y[2] \in mountedPods[y[1]] /\ x = [vol |-> y[1], pod |-> y[2]]
    BY DEF asw!GetMountedVolumes
  <2>2. y[1] \in Volumes /\ y[2] \in Pods /\ y[2] \in PodsOf(y[1])
    BY <2>1 DEF AswTypes
  <2> QED
    BY <2>1, <2>2 DEF MountItem
<1> QED
  BY <1>1

LEMMA UnmountedType ==
    ASSUME AswTypes
    PROVE  /\ asw!GetUnmountedVolumes \subseteq UnmountedItem
           /\ \A x \in asw!GetUnmountedVolumes : x.vol \in attachedVolumes
<1>1. ASSUME NEW x \in asw!GetUnmountedVolumes
      PROVE  x \in UnmountedItem /\ x.vol \in attachedVolumes
  <2>1. PICK v \in attachedVolumes :
            x = [vol |-> v, globallyMounted |-> v \in globallyMounted]
    BY DEF asw!GetUnmountedVolumes
  <2> DEFINE b == v \in globallyMounted
  <2>2. b \in BOOLEAN /\ x = [vol |-> v, globallyMounted |-> b]
    BY <2>1
  <2> HIDE DEF b
  <2> QED
    BY <2>1, <2>2 DEF UnmountedItem, AswTypes, asw!TypeOK
<1> QED
  BY <1>1

OnDisk == {[vol |-> m[1], pod |-> m[2]] : m \in podMounts}

LEMMA ScanType ==
    ASSUME HostTypes
    PROVE  /\ OnDisk \subseteq MountItem
           /\ \A x \in OnDisk : <<x.vol, x.pod>> \in podMounts
<1>1. ASSUME NEW x \in OnDisk
      PROVE  x \in MountItem /\ <<x.vol, x.pod>> \in podMounts
  <2>1. PICK m \in podMounts : x = [vol |-> m[1], pod |-> m[2]]
    BY DEF OnDisk
  <2>2. PICK v \in Volumes : \E p \in PodsOf(v) : m = <<v, p>>
    BY <2>1 DEF HostTypes
  <2>3. PICK p \in PodsOf(v) : m = <<v, p>>
    BY <2>2
  <2>4. p \in Pods
    BY DEF PodsOf
  <2> QED
    BY <2>1, <2>3, <2>4 DEF MountItem
<1> QED
  BY <1>1

LEMMA ItemParts ==
    /\ \A x \in MountItem : x.vol \in Volumes /\ x.pod \in PodsOf(x.vol)
                            /\ x = [vol |-> x.vol, pod |-> x.pod]
    /\ \A x \in ToMountItem : x.vol \in Volumes /\ x.pod \in PodsOf(x.vol)
                              /\ x.reportedInUse \in BOOLEAN
    /\ \A x \in UnmountedItem : x.vol \in Volumes /\ x.globallyMounted \in BOOLEAN
    /\ \A v \in Volumes : PodsOf(v) \subseteq Pods
    /\ Pods \subseteq PodNames /\ NoPod \in PodNames
  BY DEF MountItem, ToMountItem, UnmountedItem, PodsOf, PodNames

LEMMA UnmountEffect ==
    ASSUME VMTypes, NEW x \in reconciler.work, ReconcileUnmount(x)
    PROVE  /\ x.vol \in Volumes /\ x.pod \in PodsOf(x.vol)
           /\ \/ UNCHANGED opVars
              \/ /\ x.pod \notin podsToMount[x.vol]
                 /\ Started("unmount", x.vol, x.pod)
<1>1. x.vol \in Volumes /\ x.pod \in PodsOf(x.vol)
  BY ItemParts DEF ReconcileUnmount, VMTypes, ReconcilerTypes
<1>2. CASE x.pod \in podsToMount[x.vol]
  BY <1>1, <1>2 DEF ReconcileUnmount, dsw!PodExistsInVolume
<1>3. CASE x.pod \notin podsToMount[x.vol]
  <2> DEFINE b == FALSE
  <2>1. b \in BOOLEAN /\ Start("unmount", x.vol, x.pod, b)
    BY <1>3 DEF ReconcileUnmount, dsw!PodExistsInVolume
  <2> HIDE DEF b
  <2>2. Startable("unmount", x.vol, x.pod)
    BY <1>1, ItemParts DEF Startable, Kinds
  <2>3. Started("unmount", x.vol, x.pod)
    BY <2>1, <2>2, StartEffect DEF VMTypes
  <2> QED
    BY <1>1, <1>3, <2>3
<1> QED
  BY <1>2, <1>3

LEMMA MountEffect ==
    ASSUME VMTypes, NEW x \in reconciler.work, ReconcileMount(x)
    PROVE  /\ x.vol \in Volumes /\ x.pod \in PodsOf(x.vol)
           /\ \/ UNCHANGED opVars
              \/ \E kind \in MountKinds :
                   /\ kind = "attach" => ~ControllerAttachDetachEnabled
                   /\ Started(kind, x.vol, x.pod)
<1>1. /\ x.vol \in Volumes /\ x.pod \in PodsOf(x.vol)
      /\ x.reportedInUse \in BOOLEAN
  BY ItemParts DEF ReconcileMount, VMTypes, ReconcilerTypes
<1>2. \/ UNCHANGED opVars
      \/ \E kind \in MountKinds :
           /\ kind = "attach" => ~ControllerAttachDetachEnabled
           /\ Start(kind, x.vol, x.pod, x.reportedInUse)
  <2>1. CASE ~asw!VolumeExists(x.vol)
    <3>1. CASE ControllerAttachDetachEnabled \/ x.vol \notin AttachableVolumes
      BY <2>1, <3>1 DEF ReconcileMount, MountKinds
    <3>2. CASE ~(ControllerAttachDetachEnabled \/ x.vol \notin AttachableVolumes)
      BY <2>1, <3>2 DEF ReconcileMount, MountKinds
    <3> QED
      BY <3>1, <3>2
  <2>2. CASE asw!VolumeExists(x.vol)
    BY <2>2 DEF ReconcileMount, MountKinds
  <2> QED
    BY <2>1, <2>2
<1>3. ASSUME NEW kind \in MountKinds, Start(kind, x.vol, x.pod, x.reportedInUse)
      PROVE  Started(kind, x.vol, x.pod)
  <2>1. Startable(kind, x.vol, x.pod)
    BY <1>1, ItemParts DEF Startable, Kinds, MountKinds
  <2> QED
    BY <1>1, <1>3, <2>1, StartEffect DEF VMTypes
<1> QED
  BY <1>1, <1>2, <1>3

LEMMA DetachEffect ==
    ASSUME VMTypes, NEW x \in reconciler.work, ReconcileDetach(x)
    PROVE  /\ x.vol \in Volumes
           /\ \/ UNCHANGED <<opVars, aswVars>>
              \/ podsToMount[x.vol] = {} /\ UNCHANGED opVars
                 /\ asw!MarkVolumeAsDetached(x.vol)
              \/ podsToMount[x.vol] = {} /\ UNCHANGED aswVars
                 /\ \E kind \in {"unmountDevice", "detach"} :
                      /\ kind = "detach" => ~ControllerAttachDetachEnabled
                      /\ Started(kind, x.vol, NoPod)
<1>1. x.vol \in Volumes
  BY ItemParts DEF ReconcileDetach, VMTypes, ReconcilerTypes
<1>2. CASE dsw!VolumeExists(x.vol)
  BY <1>1, <1>2 DEF ReconcileDetach
<1>3. CASE ~dsw!VolumeExists(x.vol)
  <2> DEFINE b == FALSE
  <2>1. podsToMount[x.vol] = {}
    BY <1>3 DEF dsw!VolumeExists
  <2>2. \/ UNCHANGED opVars /\ asw!MarkVolumeAsDetached(x.vol)
        \/ UNCHANGED aswVars /\ Start("unmountDevice", x.vol, NoPod, b)
        \/ UNCHANGED aswVars /\ Start("detach", x.vol, NoPod, b)
             /\ ~ControllerAttachDetachEnabled
    <3>1. CASE x.globallyMounted
      BY <1>3, <3>1 DEF ReconcileDetach
    <3>2. CASE ~x.globallyMounted
      BY <1>3, <3>2 DEF ReconcileDetach
    <3> QED
      BY <3>1, <3>2
  <2>3. b \in BOOLEAN
    OBVIOUS
  <2> HIDE DEF b
  <2>4. ASSUME NEW kind \in {"unmountDevice", "detach"}, Start(kind, x.vol, NoPod, b)
        PROVE  Started(kind, x.vol, NoPod)
    <3>1. Startable(kind, x.vol, NoPod)
      BY <1>1, ItemParts DEF Startable, Kinds
    <3> QED
      BY <2>3, <2>4, <3>1, StartEffect DEF VMTypes
  <2> QED
    BY <1>1, <2>1, <2>2, <2>4
<1> QED
  BY <1>2, <1>3

ReconcilerIs(pc, work, item, updates) ==
    /\ DOMAIN reconciler' = {"pc", "work", "item", "updates"}
    /\ reconciler'.pc = pc /\ reconciler'.work = work
    /\ reconciler'.item = item /\ reconciler'.updates = updates

\* What the steps of syncStates and updateStates do to the reconciler.
LEMMA SyncEffect ==
    ASSUME VMTypes
    PROVE  /\ SyncScan => ReconcilerIs("sync", OnDisk, reconciler.item, NoUpdates)
           /\ \A x \in reconciler.work : SyncReconstruct(x) =>
                /\ x \in MountItem
                /\ ReconcilerIs(IF <<x.vol, x.pod>> \in podMounts
                                THEN "checkPending" ELSE "sync",
                                reconciler.work \ {x}, x, reconciler.updates)
           /\ SyncPending =>
                \E pc \in {"sync", "checkDesired"} :
                   ReconcilerIs(pc, reconciler.work, reconciler.item, reconciler.updates)
           /\ SyncDesired =>
                \E pc \in {"sync", "checkActual"} :
                   ReconcilerIs(pc, reconciler.work, reconciler.item, reconciler.updates)
           /\ SyncActual =>
                \E p \in {reconciler.item.pod, reconciler.updates[reconciler.item.vol]} :
                   ReconcilerIs("sync", reconciler.work, reconciler.item,
                      [reconciler.updates EXCEPT ![reconciler.item.vol] = p])
<1> USE DEF VMTypes, ReconcilerTypes, ReconcilerIs, SyncSteps, CheckSteps, UpdateSteps
<1>1. ASSUME SyncScan
      PROVE  ReconcilerIs("sync", OnDisk, reconciler.item, NoUpdates)
  BY <1>1 DEF SyncScan, Pass, OnDisk
<1>2. ASSUME NEW x \in reconciler.work, SyncReconstruct(x)
      PROVE  /\ x \in MountItem
             /\ ReconcilerIs(IF <<x.vol, x.pod>> \in podMounts
                             THEN "checkPending" ELSE "sync",
                             reconciler.work \ {x}, x, reconciler.updates)
  <2> DEFINE pc == IF <<x.vol, x.pod>> \in podMounts THEN "checkPending" ELSE "sync"
  <2>1. /\ reconciler.pc = "sync"
        /\ reconciler' = [reconciler EXCEPT !.work = @ \ {x}, !.item = x, !.pc = pc]
    BY <1>2 DEF SyncReconstruct
  <2> HIDE DEF pc
  <2>2. ReconcilerIs(pc, reconciler.work \ {x}, x, reconciler.updates)
    BY <2>1
  <2> QED
    BY <2>1, <2>2 DEF pc
<1>3. ASSUME SyncPending
      PROVE  \E pc \in {"sync", "checkDesired"} :
                ReconcilerIs(pc, reconciler.work, reconciler.item, reconciler.updates)
  <2>1. PICK pc \in {"sync", "checkDesired"} : reconciler' = [reconciler EXCEPT !.pc = pc]
    BY <1>3 DEF SyncPending
  <2> QED
    BY <2>1
<1>4. ASSUME SyncDesired
      PROVE  \E pc \in {"sync", "checkActual"} :
                ReconcilerIs(pc, reconciler.work, reconciler.item, reconciler.updates)
  <2>1. PICK pc \in {"sync", "checkActual"} : reconciler' = [reconciler EXCEPT !.pc = pc]
    BY <1>4 DEF SyncDesired
  <2> QED
    BY <2>1
<1>5. ASSUME SyncActual
      PROVE  \E p \in {reconciler.item.pod, reconciler.updates[reconciler.item.vol]} :
                ReconcilerIs("sync", reconciler.work, reconciler.item,
                   [reconciler.updates EXCEPT ![reconciler.item.vol] = p])
  <2>1. PICK p \in {reconciler.item.pod, reconciler.updates[reconciler.item.vol]} :
           reconciler' = [reconciler EXCEPT !.pc = "sync",
                                            !.updates[reconciler.item.vol] = p]
    BY <1>5 DEF SyncActual
  <2> QED
    BY <2>1
<1> QED
  BY <1>1, <1>2, <1>3, <1>4, <1>5

LEMMA UpdateEffect ==
    ASSUME VMTypes
    PROVE  /\ \A v \in Volumes : UpdateAttached(v) =>
                ReconcilerIs("updateMounted", {},
                   [vol |-> v, pod |-> reconciler.updates[v]],
                   [reconciler.updates EXCEPT ![v] = NoPod])
           /\ UpdateMounted =>
                \E pc \in {"updateDevice", "updateDesired", "sync"} :
                   /\ pc = "sync" => UNCHANGED aswVars
                   /\ pc # "sync" => asw!VolumeExists(reconciler.item.vol)
                        /\ asw!MarkVolumeAsMounted(reconciler.item.pod, reconciler.item.vol)
                   /\ ReconcilerIs(pc, reconciler.work, reconciler.item, reconciler.updates)
           /\ UpdateDevice =>
                \E pc \in {"updateDesired", "sync"} :
                   /\ pc = "sync" => UNCHANGED aswVars
                                     /\ ~asw!VolumeExists(reconciler.item.vol)
                   /\ pc # "sync" => asw!VolumeExists(reconciler.item.vol)
                        /\ asw!MarkDeviceAsMounted(reconciler.item.vol)
                   /\ ReconcilerIs(pc, reconciler.work, reconciler.item, reconciler.updates)
           /\ UpdateDesired =>
                ReconcilerIs("sync", reconciler.work, reconciler.item, reconciler.updates)
           /\ SyncEnd => ReconcilerIs("idle", {}, << >>, NoUpdates)
<1> USE DEF VMTypes, ReconcilerTypes, ReconcilerIs
<1>1. ASSUME NEW v \in Volumes, UpdateAttached(v)
      PROVE  ReconcilerIs("updateMounted", {},
                [vol |-> v, pod |-> reconciler.updates[v]],
                [reconciler.updates EXCEPT ![v] = NoPod])
  BY <1>1 DEF UpdateAttached
<1>2. ASSUME UpdateMounted
      PROVE  \E pc \in {"updateDevice", "updateDesired", "sync"} :
                /\ pc = "sync" => UNCHANGED aswVars
                /\ pc # "sync" => asw!VolumeExists(reconciler.item.vol)
                     /\ asw!MarkVolumeAsMounted(reconciler.item.pod, reconciler.item.vol)
                /\ ReconcilerIs(pc, reconciler.work, reconciler.item, reconciler.updates)
  <2>1. PICK pc \in {"updateDevice", "updateDesired", "sync"} :
                /\ pc = "sync" => UNCHANGED aswVars
                /\ pc # "sync" => asw!VolumeExists(reconciler.item.vol)
                     /\ asw!MarkVolumeAsMounted(reconciler.item.pod, reconciler.item.vol)
                /\ reconciler' = [reconciler EXCEPT !.pc = pc]
    BY <1>2 DEF UpdateMounted
  <2> QED
    BY <2>1
<1>3. ASSUME UpdateDevice
      PROVE  \E pc \in {"updateDesired", "sync"} :
                /\ pc = "sync" => UNCHANGED aswVars
                                  /\ ~asw!VolumeExists(reconciler.item.vol)
                /\ pc # "sync" => asw!VolumeExists(reconciler.item.vol)
                     /\ asw!MarkDeviceAsMounted(reconciler.item.vol)
                /\ ReconcilerIs(pc, reconciler.work, reconciler.item, reconciler.updates)
  <2>1. PICK pc \in {"updateDesired", "sync"} :
                /\ pc = "sync" => UNCHANGED aswVars
                                  /\ ~asw!VolumeExists(reconciler.item.vol)
                /\ pc # "sync" => asw!VolumeExists(reconciler.item.vol)
                     /\ asw!MarkDeviceAsMounted(reconciler.item.vol)
                /\ reconciler' = [reconciler EXCEPT !.pc = pc]
    BY <1>3 DEF UpdateDevice
  <2> QED
    BY <2>1
<1>4. ASSUME UpdateDesired
      PROVE  ReconcilerIs("sync", reconciler.work, reconciler.item, reconciler.updates)
  BY <1>4 DEF UpdateDesired
<1>5. ASSUME SyncEnd
      PROVE  ReconcilerIs("idle", {}, << >>, NoUpdates)
  BY <1>5 DEF SyncEnd, IdleReconciler
<1> QED
  BY <1>1, <1>2, <1>3, <1>4, <1>5

LEMMA PassEffect ==
    ASSUME VMTypes
    PROVE  /\ NextPass =>
                \/ /\ reconciler.pc = "idle"
                   /\ ReconcilerIs("unmount", asw!GetMountedVolumes,
                         reconciler.item, NoUpdates)
                \/ /\ reconciler.pc = "unmount"
                   /\ ReconcilerIs("mount", dsw!GetVolumesToMount,
                         reconciler.item, NoUpdates)
                \/ /\ reconciler.pc = "mount"
                   /\ ReconcilerIs("detach", asw!GetUnmountedVolumes,
                         reconciler.item, NoUpdates)
                \/ /\ reconciler.pc = "detach"
                   /\ ReconcilerIs("idle", {}, reconciler.item, NoUpdates)
           /\ \A x \in reconciler.work :
                ReconcileUnmount(x) \/ ReconcileMount(x) \/ ReconcileDetach(x) =>
                   /\ reconciler.pc \in {"unmount", "mount", "detach"}
                   /\ ReconcilerIs(reconciler.pc, reconciler.work \ {x},
                         reconciler.item, NoUpdates)
<1> USE DEF VMTypes, ReconcilerTypes, ReconcilerIs, SyncSteps, CheckSteps, UpdateSteps
<1>1. ASSUME NextPass
      PROVE  \/ /\ reconciler.pc = "idle"
                /\ ReconcilerIs("unmount", asw!GetMountedVolumes,
                      reconciler.item, NoUpdates)
             \/ /\ reconciler.pc = "unmount"
                /\ ReconcilerIs("mount", dsw!GetVolumesToMount,
                      reconciler.item, NoUpdates)
             \/ /\ reconciler.pc = "mount"
                /\ ReconcilerIs("detach", asw!GetUnmountedVolumes,
                      reconciler.item, NoUpdates)
             \/ /\ reconciler.pc = "detach"
                /\ ReconcilerIs("idle", {}, reconciler.item, NoUpdates)
  BY <1>1 DEF NextPass, Pass
<1>2. ASSUME NEW x \in reconciler.work,
             ReconcileUnmount(x) \/ ReconcileMount(x) \/ ReconcileDetach(x)
      PROVE  /\ reconciler.pc \in {"unmount", "mount", "detach"}
             /\ ReconcilerIs(reconciler.pc, reconciler.work \ {x},
                   reconciler.item, NoUpdates)
  BY <1>2 DEF ReconcileUnmount, ReconcileMount, ReconcileDetach, Done
<1> QED
  BY <1>1, <1>2

LEMMA NoUpdatesType ==
    NoUpdates \in [Volumes -> PodNames] /\ \A v \in Volumes : NoUpdates[v] = NoPod
  BY DEF NoUpdates, PodNames

\* The reconciler's own fields.
LEMMA ReconcilerSteps ==
    ASSUME VMTypes, ReconcilerStep
    PROVE  ReconcilerTypes'
<1> USE NoUpdatesType DEF VMTypes, ReconcilerTypes, ReconcilerIs, SyncSteps,
        CheckSteps, UpdateSteps
<1>1. CASE NextPass
  <2>1. UNCHANGED synced
    BY <1>1 DEF NextPass
  <2> QED
    BY <1>1, <2>1, PassEffect, MountedType, ToMountType, UnmountedType
<1>2. ASSUME NEW x \in reconciler.work,
             ReconcileUnmount(x) \/ ReconcileMount(x) \/ ReconcileDetach(x)
      PROVE  ReconcilerTypes'
  <2>1. UNCHANGED synced
    BY <1>2 DEF ReconcileUnmount, ReconcileMount, ReconcileDetach
  <2> QED
    BY <1>2, <2>1, PassEffect
<1>3. CASE SyncScan
  <2>1. UNCHANGED synced
    BY <1>3 DEF SyncScan
  <2> QED
    BY <1>3, <2>1, SyncEffect, ScanType
<1>4. ASSUME NEW x \in reconciler.work, SyncReconstruct(x)
      PROVE  ReconcilerTypes'
  <2>1. UNCHANGED synced /\ reconciler.pc = "sync"
    BY <1>4 DEF SyncReconstruct
  <2>2. PICK pc \in {"sync", "checkPending"} :
           ReconcilerIs(pc, reconciler.work \ {x}, x, reconciler.updates)
    BY <1>4, SyncEffect
  <2> QED
    BY <1>4, <2>1, <2>2, SyncEffect
<1>5. CASE SyncPending \/ SyncDesired
  <2>1. UNCHANGED synced /\ reconciler.pc \in {"checkPending", "checkDesired"}
    BY <1>5 DEF SyncPending, SyncDesired
  <2>2. PICK pc \in {"sync", "checkDesired", "checkActual"} :
           ReconcilerIs(pc, reconciler.work, reconciler.item, reconciler.updates)
    BY <1>5, SyncEffect
  <2> QED
    BY <2>1, <2>2
<1>6. CASE SyncActual
  <2>1. UNCHANGED synced /\ reconciler.pc = "checkActual"
    BY <1>6 DEF SyncActual
  <2> DEFINE v == reconciler.item.vol
  <2>2. v \in Volumes /\ reconciler.item.pod \in PodsOf(v)
    BY <2>1, ItemParts
  <2>3. PICK p \in {reconciler.item.pod, reconciler.updates[v]} :
           ReconcilerIs("sync", reconciler.work, reconciler.item,
                        [reconciler.updates EXCEPT ![v] = p])
    BY <1>6, SyncEffect
  <2> HIDE DEF v
  <2>4. p \in PodNames /\ (p # NoPod => p \in PodsOf(v))
    BY <2>2, <2>3, ItemParts
  <2> QED
    BY <2>1, <2>2, <2>3, <2>4
<1>7. ASSUME NEW v \in Volumes, UpdateAttached(v)
      PROVE  ReconcilerTypes'
  <2>1. UNCHANGED synced /\ reconciler.updates[v] # NoPod
    BY <1>7 DEF UpdateAttached
  <2>2. [vol |-> v, pod |-> reconciler.updates[v]] \in MountItem
    BY <2>1, ItemParts DEF MountItem
  <2>3. NoPod \in PodNames
    BY ItemParts
  <2> DEFINE item == [vol |-> v, pod |-> reconciler.updates[v]]
             rest == [reconciler.updates EXCEPT ![v] = NoPod]
  <2>4. ReconcilerIs("updateMounted", {}, item, rest)
    BY <1>7, UpdateEffect
  <2>5. /\ rest \in [Volumes -> PodNames]
        /\ \A w \in Volumes : rest[w] # NoPod => rest[w] = reconciler.updates[w]
    BY <2>3
  <2> HIDE DEF item, rest
  <2>6. item \in MountItem
    BY <2>2 DEF item
  <2> QED
    BY <2>1, <2>4, <2>5, <2>6
<1>8. CASE UpdateMounted \/ UpdateDevice \/ UpdateDesired
  <2>1. UNCHANGED synced
        /\ reconciler.pc \in {"updateMounted", "updateDevice", "updateDesired"}
    BY <1>8 DEF UpdateMounted, UpdateDevice, UpdateDesired
  <2>2. PICK pc \in {"updateDevice", "updateDesired", "sync"} :
           ReconcilerIs(pc, reconciler.work, reconciler.item, reconciler.updates)
    BY <1>8, UpdateEffect
  <2> QED
    BY <2>1, <2>2
<1>9. CASE SyncEnd
  <2>1. synced' \in BOOLEAN
    BY <1>9 DEF SyncEnd
  <2> QED
    BY <1>9, <2>1, UpdateEffect
<1> QED
  BY <1>1, <1>2, <1>3, <1>4, <1>5, <1>6, <1>7, <1>8, <1>9 DEF ReconcilerStep

(***************************************************************************)
(* The types of the whole volume manager.                                  *)
(***************************************************************************)
LEMMA PodStepTypes ==
    ASSUME VMTypes, NEW p \in Pods, PodStep(p)
    PROVE  VMTypes'
<1> USE DEF VMTypes
<1>1. CASE MarkRemountRequired(p)
  <2>1. /\ UNCHANGED <<opVars, failures, hostVars, dswVars, phase, podManager,
                       running, startedLate, managerVars, nodeVars, restarts>>
        /\ waiter' = [waiter EXCEPT ![p] = "waiting"]
        /\ asw!MarkRemountRequired(p)
    BY <1>1 DEF MarkRemountRequired
  <2>2. AswTypes'
    BY <2>1, AswOperations
  <2>3. OpTypes' /\ HostTypes' /\ DswTypes' /\ ReconcilerTypes' /\ NodeTypes'
    BY <2>1 DEF OpTypes, HostTypes, DswTypes, dsw!TypeOK, ReconcilerTypes,
       NodeTypes, opVars, hostVars, dswVars, managerVars, nodeVars, controllerVars
  <2>4. PopulatorTypes' /\ PodTypes'
    BY <2>1 DEF PopulatorTypes, PodTypes, managerVars, Waits
  <2> QED
    BY <2>2, <2>3, <2>4
<1>3. CASE ReprocessPod(p)
  <2>1. /\ UNCHANGED <<execVars, dswVars, phase, podManager, running, startedLate,
                       populator, reconciler, synced, nodeVars, restarts>>
        /\ processedPods' \subseteq processedPods
        /\ waiter' = [waiter EXCEPT ![p] = "reprocessed"]
    BY <1>3 DEF ReprocessPod
  <2>2. /\ OpTypes' /\ HostTypes' /\ DswTypes' /\ AswTypes' /\ ReconcilerTypes'
        /\ NodeTypes'
    BY <2>1 DEF OpTypes, HostTypes, DswTypes, dsw!TypeOK, AswTypes, asw!TypeOK,
       ReconcilerTypes, NodeTypes, execVars, hostVars, aswVars, dswVars, nodeVars,
       controllerVars
  <2>3. PopulatorTypes' /\ PodTypes'
    BY <2>1 DEF PopulatorTypes, PodTypes, Waits
  <2> QED
    BY <2>2, <2>3
<1>2. CASE ~MarkRemountRequired(p) /\ ~ReprocessPod(p)
  <2>1. UNCHANGED <<execVars, dswVars, managerVars, nodeVars, restarts>>
    BY <1>2 DEF PodStep, AddPod, StopContainers, TerminatePod, DeletePod,
       dispatchWork, WaitSucceeds, WaitTimesOut, StartContainers
  <2>2. /\ OpTypes' /\ HostTypes' /\ DswTypes' /\ AswTypes' /\ ReconcilerTypes'
        /\ PopulatorTypes' /\ NodeTypes'
    BY <2>1 DEF OpTypes, HostTypes, DswTypes, dsw!TypeOK, AswTypes, asw!TypeOK,
       ReconcilerTypes, NodeTypes, PopulatorTypes, execVars, managerVars, hostVars,
       aswVars, dswVars, nodeVars, controllerVars
  <2>3. PodTypes'
    BY <1>2 DEF PodTypes, Phases, Waits, PodStep, AddPod, StopContainers,
       TerminatePod, DeletePod, dispatchWork, WaitSucceeds, WaitTimesOut,
       StartContainers
  <2> QED
    BY <2>2, <2>3
<1> QED
  BY <1>1, <1>2, <1>3

LEMMA PopulatorStepTypes ==
    ASSUME VMTypes,
           \/ PopulatorStep
           \/ \E v \in Volumes : AddVolumeFails(v)
           \/ \E x \in populator.items : GetPodsFails(x)
    PROVE  VMTypes'
<1> USE DEF VMTypes
<1>1. /\ UNCHANGED <<opVars, hostVars, aswVars, podVars, reconciler, synced,
                     nodeVars, restarts>>
      /\ \/ UNCHANGED failures
         \/ failures < MaxFailures /\ failures' = failures + 1
  BY DEF PopulatorStep, FindPods, MarkPodProcessed, FindDeletedPods,
     SkipDeletedPods, EndRemove, ProcessPod, AddVolume, RemoveItem,
     AddVolumeFails, GetPodsFails, populatorUnchanged
<1>2. OpTypes' /\ AswTypes' /\ ReconcilerTypes' /\ PodTypes' /\ NodeTypes'
  BY <1>1 DEF OpTypes, AswTypes, asw!TypeOK, ReconcilerTypes, PodTypes, NodeTypes,
     opVars, hostVars, aswVars, podVars, nodeVars, controllerVars
<1>3. HostTypes'
  BY <1>1, MaxFailuresAssumption DEF HostTypes, hostVars
<1>4. DswTypes'
  <2>1. ASSUME NEW v \in Volumes, AddVolume(v)
        PROVE  DswTypes'
    <3> DEFINE p == populator.pod
    <3>1. p \in PodsOf(v) /\ dsw!AddPodToVolume(p, v)
      BY <2>1 DEF AddVolume, PopulatorTypes, PodsOf
    <3> HIDE DEF p
    <3> QED
      BY <3>1, DswOperations
  <2>2. ASSUME NEW x \in populator.items, RemoveItem(x)
        PROVE  DswTypes'
    <3>1. x.vol \in Volumes
      BY ItemParts DEF PopulatorTypes
    <3>2. UNCHANGED dswVars \/ dsw!DeletePodFromVolume(x.pod, x.vol)
      BY <2>2 DEF RemoveItem
    <3> QED
      BY <3>1, <3>2, DswOperations
  <2>3. ASSUME UNCHANGED dswVars
        PROVE  DswTypes'
    BY <2>3 DEF dswVars, DswTypes, dsw!TypeOK
  <2> QED
    BY <2>1, <2>2, <2>3 DEF PopulatorStep, FindPods, MarkPodProcessed,
       FindDeletedPods, SkipDeletedPods, EndRemove, ProcessPod, AddVolumeFails,
       GetPodsFails
<1>5. PopulatorTypes'
  BY PopulatorSteps
<1> QED
  BY <1>2, <1>3, <1>4, <1>5

LEMMA ReconcilerStepTypes ==
    ASSUME VMTypes, ReconcilerStep
    PROVE  VMTypes'
<1>1. /\ UNCHANGED <<failures, hostVars, podVars, processedPods, populator,
                     nodeVars, restarts>>
  BY DEF ReconcilerStep, NextPass, SyncScan, SyncEnd, SyncPending, SyncDesired,
     SyncActual, UpdateMounted, UpdateDevice, UpdateDesired, ReconcileUnmount,
     ReconcileMount, ReconcileDetach, SyncReconstruct, UpdateAttached,
     reconcilerUnchanged
<1>2. HostTypes' /\ PopulatorTypes' /\ PodTypes' /\ NodeTypes'
  BY <1>1 DEF VMTypes, HostTypes, PopulatorTypes, PodTypes, NodeTypes,
     hostVars, podVars, nodeVars, controllerVars
<1>3. ReconcilerTypes'
  BY ReconcilerSteps
<1>4. ASSUME UNCHANGED <<opVars, aswVars, dswVars>>
      PROVE  OpTypes' /\ AswTypes' /\ DswTypes'
  BY <1>4 DEF VMTypes, OpTypes, AswTypes, asw!TypeOK, DswTypes, dsw!TypeOK,
     opVars, aswVars, dswVars
<1>5. ASSUME NEW x \in reconciler.work, ReconcileUnmount(x)
      PROVE  OpTypes' /\ AswTypes' /\ DswTypes'
  <2>1. UNCHANGED <<aswVars, dswVars>>
    BY <1>5 DEF ReconcileUnmount
  <2>2. OpTypes'
    BY <1>5, UnmountEffect, StartTypes, ItemParts DEF VMTypes, OpTypes, opVars
  <2> QED
    BY <2>1, <2>2 DEF VMTypes, AswTypes, asw!TypeOK, DswTypes, dsw!TypeOK,
       aswVars, dswVars
<1>6. ASSUME NEW x \in reconciler.work, ReconcileMount(x)
      PROVE  OpTypes' /\ AswTypes' /\ DswTypes'
  <2>1. UNCHANGED <<aswVars, dswVars>>
    BY <1>6 DEF ReconcileMount
  <2>2. OpTypes'
    BY <1>6, MountEffect, StartTypes, ItemParts DEF VMTypes, OpTypes, opVars
  <2> QED
    BY <2>1, <2>2 DEF VMTypes, AswTypes, asw!TypeOK, DswTypes, dsw!TypeOK,
       aswVars, dswVars
<1>7. ASSUME NEW x \in reconciler.work, ReconcileDetach(x)
      PROVE  OpTypes' /\ AswTypes' /\ DswTypes'
  <2>1. UNCHANGED dswVars
    BY <1>7 DEF ReconcileDetach
  <2>2. OpTypes'
    BY <1>7, DetachEffect, StartTypes, ItemParts DEF VMTypes, OpTypes, opVars
  <2>3. AswTypes'
    BY <1>7, DetachEffect, AswOperations DEF VMTypes
  <2> QED
    BY <2>1, <2>2, <2>3 DEF VMTypes, DswTypes, dsw!TypeOK, dswVars
<1>8. ASSUME NEW v \in Volumes, UpdateAttached(v)
      PROVE  OpTypes' /\ AswTypes' /\ DswTypes'
  <2>1. UNCHANGED <<opVars, dswVars>> /\ asw!MarkVolumeAsAttached(v)
    BY <1>8 DEF UpdateAttached
  <2>2. AswTypes'
    BY <2>1, AswOperations DEF VMTypes
  <2> QED
    BY <2>1, <2>2 DEF VMTypes, OpTypes, DswTypes, dsw!TypeOK, opVars, dswVars
<1>9. ASSUME UpdateMounted \/ UpdateDevice
      PROVE  OpTypes' /\ AswTypes' /\ DswTypes'
  <2>1. UNCHANGED <<opVars, dswVars>>
    BY <1>9 DEF UpdateMounted, UpdateDevice
  <2>2. /\ reconciler.item.vol \in Volumes
        /\ reconciler.item.pod \in PodsOf(reconciler.item.vol)
    BY <1>9, ItemParts DEF VMTypes, ReconcilerTypes, UpdateMounted, UpdateDevice,
       SyncSteps, UpdateSteps
  <2>3. AswTypes'
    BY <1>9, <2>2, UpdateEffect, AswOperations DEF VMTypes
  <2> QED
    BY <2>1, <2>3 DEF VMTypes, OpTypes, DswTypes, dsw!TypeOK, opVars, dswVars
<1>10. ASSUME UpdateDesired
      PROVE  OpTypes' /\ AswTypes' /\ DswTypes'
  <2> DEFINE v == reconciler.item.vol
             p == reconciler.item.pod
  <2>1. UNCHANGED <<opVars, aswVars>> /\ dsw!AddPodToVolume(p, v)
    BY <1>10 DEF UpdateDesired
  <2>2. v \in Volumes /\ p \in PodsOf(v)
    BY <1>10, ItemParts DEF VMTypes, ReconcilerTypes, UpdateDesired, SyncSteps,
       UpdateSteps
  <2> HIDE DEF v, p
  <2>3. DswTypes'
    BY <2>1, <2>2, DswOperations DEF VMTypes
  <2> QED
    BY <2>1, <2>3 DEF VMTypes, OpTypes, AswTypes, asw!TypeOK, opVars, aswVars
<1>11. ASSUME \/ NextPass \/ SyncScan \/ SyncEnd \/ SyncPending \/ SyncDesired
              \/ SyncActual \/ \E x \in reconciler.work : SyncReconstruct(x)
      PROVE  OpTypes' /\ AswTypes' /\ DswTypes'
  <2>1. UNCHANGED <<opVars, aswVars, dswVars>>
    BY <1>11 DEF NextPass, SyncScan, SyncEnd, SyncPending, SyncDesired,
       SyncActual, SyncReconstruct
  <2> QED
    BY <1>4, <2>1
<1>12. OpTypes' /\ AswTypes' /\ DswTypes'
  BY <1>5, <1>6, <1>7, <1>8, <1>9, <1>10, <1>11 DEF ReconcilerStep
<1> QED
  BY <1>2, <1>3, <1>12 DEF VMTypes

LEMMA ExecutorTypes ==
    ASSUME VMTypes,
           \/ \E r \in Routines : Executor(AnyStep(r))
           \/ Executor(Tick)
    PROVE  VMTypes'
<1>1. UNCHANGED <<dswVars, podVars, managerVars, nodeVars, restarts>>
  BY DEF Executor
<1>2. DswTypes' /\ PopulatorTypes' /\ ReconcilerTypes' /\ PodTypes' /\ NodeTypes'
  BY <1>1 DEF VMTypes, DswTypes, dsw!TypeOK, PopulatorTypes, ReconcilerTypes,
     PodTypes, NodeTypes, dswVars, podVars, managerVars, nodeVars, controllerVars
<1>3. ASSUME NEW r \in Routines, AnyStep(r)
      PROVE  OpTypes' /\ HostTypes' /\ AswTypes'
  BY <1>3, RoutineEffect, StepTypes, HostSteps, AswSteps DEF VMTypes
<1>4. ASSUME Tick
      PROVE  OpTypes' /\ HostTypes' /\ AswTypes'
  <2>1. UNCHANGED <<failures, hostVars, aswVars>>
    BY <1>4 DEF Tick
  <2> QED
    BY <1>4, <2>1, TickTypes DEF VMTypes, HostTypes, AswTypes, asw!TypeOK,
       hostVars, aswVars
<1> QED
  BY <1>2, <1>3, <1>4 DEF VMTypes, Executor

LEMMA StatusTypes ==
    ASSUME VMTypes, StatusStep \/ PatchStatusFails
    PROVE  VMTypes'
<1>1. /\ UNCHANGED <<opVars, hostVars, aswVars, podVars, managerVars,
                     controllerVars, restarts>>
      /\ \/ UNCHANGED failures
         \/ failures < MaxFailures /\ failures' = failures + 1
      /\ UNCHANGED dswVars \/ dsw!MarkVolumesReportedInUse(statusUpdate.inUse)
  BY DEF StatusStep, UpdateStatus, GetGloballyMounted, PatchStatus,
     PatchStatusFails, MarkVolumesAsReportedInUse, statusUnchanged
<1>2. /\ OpTypes' /\ AswTypes' /\ PopulatorTypes' /\ ReconcilerTypes' /\ PodTypes'
  BY <1>1 DEF VMTypes, OpTypes, AswTypes, asw!TypeOK, PopulatorTypes,
     ReconcilerTypes, PodTypes, opVars, aswVars, podVars, managerVars
<1>3. HostTypes'
  BY <1>1, MaxFailuresAssumption DEF VMTypes, HostTypes, hostVars
<1>4. DswTypes'
  BY <1>1, DswOperations DEF VMTypes
<1>5. NodeTypes'
  <2>1. mountedByNode' = mountedByNode /\ detaching' = detaching
        /\ restarts' = restarts
    BY <1>1 DEF controllerVars
  <2> USE DEF VMTypes, NodeTypes
  <2>2. CASE UpdateStatus
    <3> DEFINE desired == {v \in AttachableVolumes : dsw!VolumeExists(v)}
    <3>1. desired \subseteq AttachableVolumes
      OBVIOUS
    <3>2. /\ UNCHANGED nodeVolumesInUse
          /\ \/ statusUpdate' = [pc |-> "asw", inUse |-> desired]
             \/ statusUpdate' = [pc |-> "patch", inUse |-> nodeVolumesInUse]
      BY <2>2 DEF UpdateStatus
    <3> HIDE DEF desired
    <3> QED
      BY <2>1, <3>1, <3>2
  <2>3. CASE GetGloballyMounted
    BY <2>1, <2>3 DEF GetGloballyMounted
  <2>4. CASE PatchStatus
    BY <2>1, <2>4 DEF PatchStatus
  <2>5. CASE PatchStatusFails
    BY <2>1, <2>5 DEF PatchStatusFails, IdleStatus
  <2>6. CASE MarkVolumesAsReportedInUse
    BY <2>1, <2>6 DEF MarkVolumesAsReportedInUse, IdleStatus
  <2> QED
    BY <2>2, <2>3, <2>4, <2>5, <2>6 DEF StatusStep
<1> QED
  BY <1>2, <1>3, <1>4, <1>5 DEF VMTypes

LEMMA ControllerTypes ==
    ASSUME VMTypes, NEW v \in Volumes, ControllerStep(v)
    PROVE  VMTypes'
<1>1. UNCHANGED <<opVars, failures, deviceMounts, podMounts, stillOpen, aswVars,
                  dswVars, podVars, managerVars, nodeVolumesInUse, statusUpdate,
                  restarts>>
  BY DEF ControllerStep, ControllerAttach, ProcessVolumesInUse,
     ControllerUnreport, VerifySafeToDetach, ControllerDetach, controllerUnchanged
<1>2. /\ OpTypes' /\ AswTypes' /\ DswTypes' /\ PopulatorTypes' /\ ReconcilerTypes'
      /\ PodTypes'
  BY <1>1 DEF VMTypes, OpTypes, AswTypes, asw!TypeOK, DswTypes, dsw!TypeOK,
     PopulatorTypes, ReconcilerTypes, PodTypes, opVars, aswVars, dswVars,
     podVars, managerVars
<1>3. deviceAttached' \subseteq Volumes /\ volumesAttached' \subseteq Volumes
  BY DEF VMTypes, HostTypes, ControllerStep, ControllerAttach,
     ProcessVolumesInUse, ControllerUnreport, VerifySafeToDetach, ControllerDetach
<1>4. /\ mountedByNode' \in [Volumes -> {"assumed", "yes", "no"}]
      /\ detaching' \in [Volumes -> {"no", "unreported", "verified"}]
  BY DEF VMTypes, NodeTypes, ControllerStep, ControllerAttach,
     ProcessVolumesInUse, ControllerUnreport, VerifySafeToDetach, ControllerDetach
<1>5. HostTypes' /\ NodeTypes'
  BY <1>1, <1>3, <1>4 DEF VMTypes, HostTypes, NodeTypes
<1> QED
  BY <1>2, <1>5 DEF VMTypes

\* The memory of a kubelet that starts.
Fresh ==
    /\ operations = << >> /\ routines = [r \in Routines |-> Idle]
    /\ attachedVolumes = {} /\ globallyMounted = {} /\ remountRequired = {}
    /\ mountedPods = [v \in Volumes |-> {}]
    /\ podsToMount = [v \in Volumes |-> {}] /\ reportedInUse = {}
    /\ podManager = {} /\ waiter = [p \in Pods |-> "idle"]
    /\ processedPods = {} /\ populator = IdlePopulator
    /\ reconciler = IdleReconciler /\ synced = FALSE /\ statusUpdate = IdleStatus

LEMMA IdleReconcilerParts ==
    /\ DOMAIN IdleReconciler = {"pc", "work", "item", "updates"}
    /\ IdleReconciler.pc = "idle" /\ IdleReconciler.work = {}
    /\ IdleReconciler.updates = NoUpdates
  BY DEF IdleReconciler

LEMMA InitTypes ==
    ASSUME Init
    PROVE  VMTypes /\ Fresh
<1>1. Fresh
  BY DEF Init, ExecutorInit, asw!Init, dsw!Init, Fresh
<1>2. HostTypes
  BY MaxFailuresAssumption DEF Init, ExecutorInit, HostTypes
<1>3. /\ phase \in [Pods -> Phases] /\ running \subseteq Pods
      /\ startedLate \subseteq running
      /\ nodeVolumesInUse \subseteq AttachableVolumes
      /\ mountedByNode \in [Volumes -> {"assumed", "yes", "no"}]
      /\ detaching \in [Volumes -> {"no", "unreported", "verified"}]
      /\ restarts \in 0 .. MaxRestarts
  BY SettingsAssumption DEF Init, Phases
<1>4. OpTypes /\ AswTypes /\ DswTypes
  BY <1>1 DEF Fresh, OpTypes, AswTypes, asw!TypeOK, DswTypes, dsw!TypeOK
<1>5. populator = IdlePopulator /\ reconciler = IdleReconciler /\ synced \in BOOLEAN
  BY <1>1 DEF Fresh
<1>6. PopulatorTypes
  BY <1>1, <1>5, IdlePopulatorType DEF Fresh, PopulatorTypes
<1>7. ReconcilerTypes
  BY <1>5, IdleReconcilerParts, NoUpdatesType
     DEF ReconcilerTypes, SyncSteps, CheckSteps, UpdateSteps
<1>8. /\ podManager \subseteq Pods
      /\ waiter \in [Pods -> Waits]
      /\ statusUpdate \in [pc    : {"idle", "asw", "patch", "mark"},
                           inUse : SUBSET AttachableVolumes]
  BY <1>1 DEF Fresh, IdleStatus, Waits
<1> QED
  BY <1>1, <1>2, <1>3, <1>4, <1>6, <1>7, <1>8 DEF VMTypes, PodTypes, NodeTypes

LEMMA RestartTypes ==
    ASSUME VMTypes, Restart
    PROVE  VMTypes' /\ Fresh'
<1>1. Fresh'
  BY DEF Restart, Fresh
<1>2. UNCHANGED <<failures, hostVars, phase, running, startedLate,
                  nodeVolumesInUse, controllerVars>>
      /\ restarts < MaxRestarts /\ restarts' = restarts + 1
  BY DEF Restart
<1>3. HostTypes'
  BY <1>2 DEF VMTypes, HostTypes, hostVars
<1>4. /\ phase' \in [Pods -> Phases] /\ running' \subseteq Pods
      /\ startedLate' \subseteq running'
      /\ nodeVolumesInUse' \subseteq AttachableVolumes
      /\ mountedByNode' \in [Volumes -> {"assumed", "yes", "no"}]
      /\ detaching' \in [Volumes -> {"no", "unreported", "verified"}]
      /\ restarts' \in 0 .. MaxRestarts
  BY <1>2, SettingsAssumption DEF VMTypes, PodTypes, NodeTypes, controllerVars
<1>5. OpTypes' /\ AswTypes' /\ DswTypes'
  BY <1>1 DEF Fresh, OpTypes, AswTypes, asw!TypeOK, DswTypes, dsw!TypeOK
<1>6. populator' = IdlePopulator /\ reconciler' = IdleReconciler /\ synced' \in BOOLEAN
  BY <1>1 DEF Fresh
<1>7. PopulatorTypes'
  BY <1>1, <1>6, IdlePopulatorType DEF Fresh, PopulatorTypes
<1>8. ReconcilerTypes'
  BY <1>6, IdleReconcilerParts, NoUpdatesType
     DEF ReconcilerTypes, SyncSteps, CheckSteps, UpdateSteps
<1>9. /\ podManager' \subseteq Pods
      /\ waiter' \in [Pods -> Waits]
      /\ statusUpdate' \in [pc    : {"idle", "asw", "patch", "mark"},
                            inUse : SUBSET AttachableVolumes]
  BY <1>1 DEF Fresh, IdleStatus, Waits
<1> QED
  BY <1>1, <1>3, <1>4, <1>5, <1>7, <1>8, <1>9 DEF VMTypes, PodTypes, NodeTypes

(***************************************************************************)
(* The disjuncts of Next that the proofs below treat one by one.           *)
(***************************************************************************)
PopulatorAny ==
    \/ PopulatorStep
    \/ \E v \in Volumes : AddVolumeFails(v)
    \/ \E x \in populator.items : GetPodsFails(x)

LEMMA NextCases ==
    ASSUME [Next]_vars
    PROVE  \/ \E p \in Pods : PodStep(p)
           \/ PopulatorAny
           \/ ReconcilerStep
           \/ \E r \in Routines : Executor(AnyStep(r))
           \/ Executor(Tick)
           \/ StatusStep \/ PatchStatusFails
           \/ \E v \in Volumes : ControllerStep(v)
           \/ Restart
           \/ UNCHANGED vars
  BY DEF Next, PopulatorAny, AnyStep

LEMMA TypesStep ==
    ASSUME VMTypes, [Next]_vars
    PROVE  VMTypes'
<1>1. ASSUME UNCHANGED vars
      PROVE  VMTypes'
  <2>1. OpTypes' /\ HostTypes' /\ AswTypes' /\ DswTypes'
    BY <1>1 DEF VMTypes, vars, OpTypes, HostTypes, AswTypes, asw!TypeOK, DswTypes,
       dsw!TypeOK, execVars, hostVars, aswVars, dswVars
  <2>2. PopulatorTypes' /\ ReconcilerTypes' /\ PodTypes' /\ NodeTypes'
    BY <1>1 DEF VMTypes, vars, PopulatorTypes, ReconcilerTypes, PodTypes,
       NodeTypes, podVars, managerVars, nodeVars, controllerVars
  <2> QED
    BY <2>1, <2>2 DEF VMTypes
<1> QED
  BY <1>1, NextCases, PodStepTypes, PopulatorStepTypes, ReconcilerStepTypes,
     ExecutorTypes, StatusTypes, ControllerTypes, RestartTypes DEF PopulatorAny

(***************************************************************************)
(* The volume manager's variables keep their types, whatever fails and     *)
(* however often the kubelet restarts; in particular the lists the threads *)
(* work through hold only a pod with a volume of its specification, and a  *)
(* goroutine is only ever at a step of its own operation.                  *)
(***************************************************************************)
THEOREM VMTypeCorrect == Spec => []TypeOK
<1>1. Init => VMTypes
  BY InitTypes
<1>2. VMTypes /\ [Next]_vars => VMTypes'
  BY TypesStep
<1>3. VMTypes => TypeOK
  <2> SUFFICES ASSUME VMTypes PROVE TypeOK
    OBVIOUS
  <2>1. routines \in [Routines -> Tasks \cup {Idle}]
    BY DEF VMTypes, OpTypes, Task
  <2>2. podMounts \subseteq Volumes \X Pods
    BY DEF VMTypes, HostTypes, PodsOf
  <2>3. ExecutorTypeOK
    BY <2>1, <2>2 DEF VMTypes, ExecutorTypeOK, OpTypes, HostTypes, AswTypes
  <2>4. dsw!TypeOK
    BY DEF VMTypes, DswTypes
  <2>5. /\ processedPods \subseteq Pods
        /\ populator.pc \in {"idle", "add", "volumes", "remove"}
        /\ populator.pods \subseteq Pods /\ populator.pod \in PodNames
        /\ populator.vols \subseteq Volumes /\ populator.runningPods \subseteq Pods
    BY DEF VMTypes, PopulatorTypes
  <2> QED
    BY <2>3, <2>4, <2>5 DEF VMTypes, TypeOK, ReconcilerTypes, PodTypes, NodeTypes, Waits,
       SyncSteps, CheckSteps, UpdateSteps
<1> QED
  BY <1>1, <1>2, <1>3, PTL DEF Spec

-----------------------------------------------------------------------------
(***************************************************************************)
(* A running pod keeps its volumes.                                        *)
(*                                                                         *)
(* The populator lists the containers once for a pass over the deleted     *)
(* pods.  Where pods may be deleted while their containers run, the list   *)
(* is not good for a pod that is deleted later in the same pass, so that   *)
(* there the theorem is about a node with one pod.                         *)
(***************************************************************************)
OneListing == ForcedDeletion => \A p, q \in Pods : p = q

\* What a step leaves as it is: for good, and until the kubelet restarts.
PodsKept ==
    /\ \A p \in Pods : Gone(p) => Gone(p)'
    /\ \A p \in Pods : phase[p] # "unscheduled" => phase'[p] # "unscheduled"
    /\ \A v \in Volumes : \A p \in PodsOf(v) : Held(v, p) => Held(v, p)'

PlacesKept ==
    /\ \A p \in Pods : Known(p) => Known(p)'
    /\ \A v \in Volumes : \A p \in PodsOf(v) : Kept(v, p) => Kept(v, p)'

keepVars ==
    <<routines, podMounts, mountedPods, podsToMount, podVars, populator, reconciler>>

LEMMA QuietKeeps ==
    ASSUME KeepInv, UNCHANGED keepVars
    PROVE  KeepInv'
<1>1. UNCHANGED <<routines, podMounts, mountedPods, podsToMount, phase, podManager,
                  running, startedLate, waiter, populator, reconciler>>
  BY DEF keepVars, podVars
<1>2. ScheduledInv' /\ ContainersInv' /\ ListingInv' /\ RunningPodKeepsVolumes'
  BY <1>1 DEF KeepInv, ScheduledInv, ContainersInv, ListingInv, OnTime, Held, Gone,
     RunningPodKeepsVolumes
<1>3. KnownInv'
  BY <1>1 DEF KeepInv, KnownInv, DesiredKnown, PopulatorKnown, ReconcilerKnown, Known
<1>4. KeptInv'
  BY <1>1 DEF KeepInv, KeptInv, WorkKept, MountsKept, RoutinesKept, Kept, Gone, OnTime
<1>5. HeldInv'
  BY <1>1 DEF KeepInv, HeldInv, Held, Gone, OnTime
<1> QED
  BY <1>2, <1>3, <1>4, <1>5 DEF KeepInv

LEMMA TaskParts ==
    ASSUME OpTypes, NEW r \in Routines, routines[r] # Idle
    PROVE  /\ routines[r] \in Task
           /\ routines[r].vol \in Volumes /\ routines[r].pod \in PodNames
           /\ routines[r].kind \in Kinds /\ routines[r].step \in Steps
           /\ routines[r].kind \notin {"unmountDevice", "detach"} =>
                routines[r].pod \in PodsOf(routines[r].vol)
           /\ routines[r].step = "markMounted" => routines[r].kind = "mount"
<1>1. routines[r] \in Task
  BY DEF OpTypes
<1>2. routines[r] \in Tasks
  BY <1>1 DEF Task
<1> QED
  BY <1>1, <1>2 DEF Task, Tasks

LEMMA Containment ==
    ASSUME VMTypes, NEW m \in podMounts
    PROVE  m = <<m[1], m[2]>> /\ m[1] \in Volumes /\ m[2] \in PodsOf(m[1])
           /\ m[2] \in Pods
<1>1. PICK v \in Volumes : \E p \in PodsOf(v) : m = <<v, p>>
  BY DEF VMTypes, HostTypes
<1>2. PICK p \in PodsOf(v) : m = <<v, p>>
  BY <1>1
<1> QED
  BY <1>2, ItemParts

(***************************************************************************)
(* The parts of the invariant that only a goroutine or the reconciler can  *)
(* break are kept by a step that keeps what they speak about.              *)
(***************************************************************************)
LEMMA TransferHeld ==
    ASSUME VMTypes, HeldInv, PodsKept, UNCHANGED <<routines, mountedPods, reconciler>>
    PROVE  HeldInv'
<1> USE DEF VMTypes
<1>1. ASSUME NEW v \in Volumes, NEW p \in mountedPods'[v]
      PROVE  Held(v, p)'
  BY <1>1 DEF HeldInv, PodsKept, AswTypes
<1>2. ASSUME NEW r \in Routines, routines'[r] # Idle, routines'[r].step = "markMounted"
      PROVE  Held(routines[r].vol, routines[r].pod)'
  <2>1. /\ routines[r] # Idle /\ routines[r].step = "markMounted"
        /\ routines'[r] = routines[r]
    BY <1>2
  <2> DEFINE v == routines[r].vol
             p == routines[r].pod
  <2>2. v \in Volumes /\ p \in PodsOf(v)
    BY <2>1, TaskParts
  <2>3. Held(v, p)
    BY <2>1 DEF HeldInv
  <2>4. v' = v /\ p' = p
    BY <2>1
  <2> QED
    BY <2>2, <2>3, <2>4 DEF PodsKept, Held, Gone
<1>3. ASSUME reconciler'.pc \in SyncSteps \ {"sync"}
      PROVE  Held(reconciler.item.vol, reconciler.item.pod)'
  <2> DEFINE v == reconciler.item.vol
             p == reconciler.item.pod
  <2>1. v \in Volumes /\ p \in PodsOf(v)
    BY <1>3, ItemParts DEF ReconcilerTypes
  <2>2. Held(v, p)
    BY <1>3 DEF HeldInv
  <2> QED
    BY <2>1, <2>2 DEF PodsKept, Held, Gone
<1>4. ASSUME NEW v \in Volumes, reconciler'.updates[v] # NoPod
      PROVE  Held(v, reconciler.updates[v])'
  <2>1. reconciler.updates[v] \in PodsOf(v) /\ Held(v, reconciler.updates[v])
    BY <1>4 DEF HeldInv, ReconcilerTypes
  <2> QED
    BY <2>1 DEF PodsKept, Held, Gone
<1> QED
  BY <1>1, <1>2, <1>3, <1>4 DEF HeldInv

LEMMA TransferKnown ==
    ASSUME VMTypes, PlacesKept
    PROVE  /\ /\ DesiredKnown
              /\ \A v \in Volumes : podsToMount'[v] \subseteq podsToMount[v]
              => DesiredKnown'
           /\ PopulatorKnown /\ UNCHANGED populator => PopulatorKnown'
           /\ ReconcilerKnown /\ UNCHANGED reconciler => ReconcilerKnown'
<1> USE DEF VMTypes
<1>1. ASSUME DesiredKnown,
             \A v \in Volumes : podsToMount'[v] \subseteq podsToMount[v]
      PROVE  DesiredKnown'
  <2>1. ASSUME NEW v \in Volumes, NEW p \in podsToMount'[v]
        PROVE  Known(p)'
    <3>1. p \in Pods /\ Known(p)
      BY <1>1, <2>1, ItemParts DEF DesiredKnown, DswTypes
    <3> QED
      BY <3>1 DEF PlacesKept
  <2> QED
    BY <2>1 DEF DesiredKnown
<1>2. ASSUME PopulatorKnown, UNCHANGED populator
      PROVE  PopulatorKnown'
  <2>1. ASSUME NEW p \in populator'.pods
        PROVE  Known(p)'
    BY <1>2, <2>1 DEF PopulatorKnown, PlacesKept, PopulatorTypes
  <2>2. ASSUME populator'.pc = "volumes"
        PROVE  Known(populator.pod)'
    <3>1. populator.pod \in Pods /\ Known(populator.pod)
      BY <1>2, <2>2 DEF PopulatorKnown, PopulatorTypes
    <3> QED
      BY <1>2, <3>1 DEF PlacesKept, Known
  <2>3. ASSUME NEW x \in populator'.items
        PROVE  Known(x.pod)'
    <3>1. x.pod \in Pods /\ Known(x.pod)
      BY <1>2, <2>3, ItemParts DEF PopulatorKnown, PopulatorTypes
    <3> QED
      BY <3>1 DEF PlacesKept
  <2> QED
    BY <2>1, <2>2, <2>3 DEF PopulatorKnown
<1>3. ASSUME ReconcilerKnown, UNCHANGED reconciler
      PROVE  ReconcilerKnown'
  <2>1. ASSUME reconciler'.pc \in SyncSteps \cup {"mount"}, NEW x \in reconciler'.work
        PROVE  Known(x.pod)'
    <3>1. x.pod \in Pods /\ Known(x.pod)
      BY <1>3, <2>1, ItemParts DEF ReconcilerKnown, ReconcilerTypes
    <3> QED
      BY <3>1 DEF PlacesKept
  <2>2. ASSUME reconciler'.pc \in SyncSteps \ {"sync"}
        PROVE  Known(reconciler.item.pod)'
    <3>1. reconciler.item.pod \in Pods /\ Known(reconciler.item.pod)
      BY <1>3, <2>2, ItemParts DEF ReconcilerKnown, ReconcilerTypes
    <3> QED
      BY <1>3, <3>1 DEF PlacesKept, Known
  <2>3. ASSUME NEW v \in Volumes, reconciler'.updates[v] # NoPod
        PROVE  Known(reconciler.updates[v])'
    <3>1. reconciler.updates[v] \in Pods /\ Known(reconciler.updates[v])
      BY <1>3, <2>3, ItemParts DEF ReconcilerKnown, ReconcilerTypes
    <3> QED
      BY <1>3, <3>1 DEF PlacesKept, Known
  <2> QED
    BY <2>1, <2>2, <2>3 DEF ReconcilerKnown
<1> QED
  BY <1>1, <1>2, <1>3

LEMMA TransferKept ==
    ASSUME VMTypes, PodsKept, PlacesKept
    PROVE  /\ WorkKept /\ UNCHANGED reconciler => WorkKept'
           /\ MountsKept /\ UNCHANGED <<mountedPods, reconciler>> => MountsKept'
           /\ RoutinesKept /\ UNCHANGED routines => RoutinesKept'
<1> USE DEF VMTypes
<1>1. ASSUME WorkKept, UNCHANGED reconciler
      PROVE  WorkKept'
  <2>1. ASSUME reconciler'.pc \in {"unmount", "mount"}, NEW x \in reconciler'.work
        PROVE  Kept(x.vol, x.pod)'
    <3>1. x.vol \in Volumes /\ x.pod \in PodsOf(x.vol)
      BY <1>1, <2>1, ItemParts DEF ReconcilerTypes
    <3>2. Kept(x.vol, x.pod)
      BY <1>1, <2>1 DEF WorkKept
    <3> QED
      BY <3>1, <3>2 DEF PlacesKept
  <2> QED
    BY <2>1 DEF WorkKept
<1>2. ASSUME MountsKept, UNCHANGED <<mountedPods, reconciler>>
      PROVE  MountsKept'
  <2>1. ASSUME NEW v \in Volumes, NEW p \in mountedPods'[v]
        PROVE  \/ Kept(v, p)'
               \/ /\ reconciler'.pc \in {"updateDevice", "updateDesired"}
                  /\ reconciler'.item = [vol |-> v, pod |-> p]
    BY <1>2, <2>1 DEF MountsKept, PlacesKept, AswTypes
  <2> QED
    BY <2>1 DEF MountsKept
<1>3. ASSUME RoutinesKept, UNCHANGED routines
      PROVE  RoutinesKept'
  <2>1. ASSUME NEW r \in Routines, routines'[r] # Idle
        PROVE  /\ routines'[r].kind \in MountKinds => Kept(routines[r].vol, routines[r].pod)'
               /\ routines'[r].kind = "unmount" => Gone(routines[r].pod)'
    <3> DEFINE v == routines[r].vol
               p == routines[r].pod
    <3>1. /\ v \in Volumes
          /\ routines[r].kind \notin {"unmountDevice", "detach"} => p \in PodsOf(v)
      BY <1>3, <2>1, TaskParts
    <3>2. /\ routines[r].kind \in MountKinds => Kept(v, p)
          /\ routines[r].kind = "unmount" => Gone(p)
      BY <1>3, <2>1 DEF RoutinesKept
    <3>3. v' = v /\ p' = p /\ routines'[r].kind = routines[r].kind
      BY <1>3
    <3>4. PodsOf(v) \subseteq Pods
      BY <3>1, ItemParts
    <3>5. ASSUME routines[r].kind \in MountKinds
          PROVE  Kept(routines[r].vol, routines[r].pod)'
      BY <3>1, <3>2, <3>3, <3>5 DEF PlacesKept, Kept, Gone, MountKinds
    <3>6. ASSUME routines[r].kind = "unmount"
          PROVE  Gone(routines[r].pod)'
      BY <3>1, <3>2, <3>3, <3>4, <3>6 DEF PodsKept, Gone
    <3> QED
      BY <3>3, <3>5, <3>6
  <2> QED
    BY <2>1 DEF RoutinesKept
<1> QED
  BY <1>1, <1>2, <1>3

(***************************************************************************)
(* Pods: what a pod that is gone, known or kept is stays so.               *)
(***************************************************************************)
LEMMA PodStepKeeps ==
    ASSUME VMTypes, KeepInv, OneListing, NEW q \in Pods, PodStep(q)
    PROVE  KeepInv'
<1>1. UNCHANGED <<routines, podMounts, mountedPods, podsToMount, populator, reconciler>>
  BY DEF PodStep, AddPod, StopContainers, TerminatePod, DeletePod, dispatchWork,
     ReprocessPod, MarkRemountRequired, WaitSucceeds, WaitTimesOut, StartContainers,
     asw!MarkRemountRequired, execVars, opVars, hostVars, aswVars, dswVars, managerVars
<1>2. phase \in [Pods -> Phases] /\ waiter \in [Pods -> Waits]
      /\ podManager \subseteq Pods /\ running \subseteq Pods
      /\ startedLate \subseteq running
  BY DEF VMTypes, PodTypes
<1>3. \A p \in Pods : /\ p \in OnTime => phase[p] = "active"
                           \/ (ForcedDeletion /\ phase[p] = "deleted")
                      /\ waiter[p] # "idle" => phase[p] # "unscheduled"
                      /\ p \in podManager => phase[p] # "unscheduled"
  BY DEF KeepInv, ContainersInv, ScheduledInv
<1>4. \/ /\ AddPod(q) /\ q \notin podManager /\ phase[q] # "deleted"
         /\ podManager' = podManager \cup {q}
         /\ phase' = [phase EXCEPT ![q] = IF @ = "unscheduled" THEN "active" ELSE @]
         /\ UNCHANGED <<running, startedLate, waiter>>
      \/ /\ UNCHANGED <<phase, podManager, waiter>>
         /\ running' = running \ {q} /\ startedLate' = startedLate \ {q}
      \/ /\ phase[q] \in {"active", "terminated"}
         /\ q \notin running \/ ForcedDeletion
         /\ phase' = [phase EXCEPT ![q] = "deleted"] /\ podManager' = podManager \ {q}
         /\ UNCHANGED <<running, startedLate, waiter>>
      \/ /\ phase[q] = "active" /\ q \notin running
         /\ phase' = [phase EXCEPT ![q] = "terminated"]
         /\ UNCHANGED <<podManager, running, startedLate, waiter>>
      \/ /\ waiter[q] = "ready" /\ running' = running \cup {q}
         /\ startedLate' = IF q \in running \/ phase[q] = "active" THEN startedLate
                           ELSE startedLate \cup {q}
         /\ waiter' = [waiter EXCEPT ![q] = "idle"] /\ UNCHANGED <<phase, podManager>>
      \/ /\ waiter[q] # "idle" \/ phase[q] = "active"
         /\ \E w \in Waits \ {"ready"} : waiter' = [waiter EXCEPT ![q] = w]
         /\ UNCHANGED <<phase, podManager, running, startedLate>>
      \/ /\ waiter[q] = "waiting" /\ waiter' = [waiter EXCEPT ![q] = "ready"]
         /\ Mounted(q) /\ UNCHANGED <<phase, podManager, running, startedLate>>
  <2> USE DEF Waits
  <2>1. CASE AddPod(q)
    BY <2>1 DEF AddPod
  <2>2. CASE StopContainers(q)
    BY <2>2 DEF StopContainers
  <2>3. CASE TerminatePod(q)
    BY <2>3 DEF TerminatePod
  <2>4. CASE DeletePod(q)
    BY <2>4 DEF DeletePod, MayBeDeleted
  <2>5. CASE dispatchWork(q)
    BY <2>5 DEF dispatchWork
  <2>6. CASE ReprocessPod(q)
    BY <2>6 DEF ReprocessPod
  <2>7. CASE MarkRemountRequired(q)
    BY <2>7 DEF MarkRemountRequired
  <2>8. CASE WaitSucceeds(q)
    BY <2>8 DEF WaitSucceeds
  <2>9. CASE WaitTimesOut(q)
    BY <2>9 DEF WaitTimesOut
  <2>10. CASE StartContainers(q)
    BY <2>10 DEF StartContainers
  <2> QED
    BY <2>1, <2>2, <2>3, <2>4, <2>5, <2>6, <2>7, <2>8, <2>9, <2>10 DEF PodStep
<1>5. /\ \A p \in Pods : Gone(p) => Gone(p)'
      /\ \A p \in Pods : phase[p] # "unscheduled" => phase'[p] # "unscheduled"
      /\ \A p \in Pods : Known(p) => Known(p)'
  BY <1>2, <1>3, <1>4 DEF Gone, OnTime, Known
<1>6. PodsKept /\ PlacesKept
  <2>1. ASSUME NEW v \in Volumes, NEW p \in PodsOf(v)
        PROVE  /\ Held(v, p) => Held(v, p)'
               /\ Kept(v, p) => Kept(v, p)'
    BY <1>1, <1>5, ItemParts DEF Held, Kept
  <2> QED
    BY <1>5, <2>1 DEF PodsKept, PlacesKept
<1>7. KnownInv' /\ KeptInv' /\ HeldInv'
  BY <1>1, <1>6, TransferKnown, TransferKept, TransferHeld
     DEF KeepInv, KnownInv, KeptInv
<1>8. ScheduledInv'
  <2>1. \A p \in podManager' : phase'[p] # "unscheduled"
    BY <1>2, <1>3, <1>4
  <2>2. \A m \in podMounts' : phase'[m[2]] # "unscheduled"
    BY <1>1, <1>5, Containment DEF KeepInv, ScheduledInv
  <2>3. ASSUME NEW r \in Routines, routines'[r] # Idle,
               routines'[r].kind \in {"verify", "attach", "mount"}
        PROVE  phase'[routines'[r].pod] # "unscheduled"
    <3>1. routines[r].pod \in Pods
      BY <1>1, <2>3, TaskParts, ItemParts DEF VMTypes
    <3> QED
      BY <1>1, <1>5, <2>3, <3>1 DEF KeepInv, ScheduledInv
  <2> QED
    BY <2>1, <2>2, <2>3 DEF ScheduledInv
<1>9. ContainersInv'
  <2>1. \A p \in OnTime' : \/ phase'[p] = "active"
                           \/ ForcedDeletion /\ phase'[p] = "deleted"
    BY <1>2, <1>3, <1>4 DEF OnTime
  <2>2. \A p \in Pods : waiter'[p] # "idle" => phase'[p] # "unscheduled"
    BY <1>2, <1>3, <1>4, <1>5
  <2>3. ASSUME NEW p \in Pods, waiter'[p] = "ready", NEW v \in PodVolumes[p]
        PROVE  Held(v, p)'
    <3>1. v \in Volumes /\ p \in PodsOf(v)
      BY PodVolumesAssumption DEF PodsOf
    <3>2. Held(v, p)
      <4>1. CASE waiter[p] = "ready"
        BY <4>1 DEF KeepInv, ContainersInv
      <4>2. CASE waiter[p] # "ready"
        <5>1. p = q /\ Mounted(q)
          BY <1>2, <1>4, <2>3, <4>2
        <5>2. p \in mountedPods[v]
          BY <5>1 DEF Mounted, asw!PodExistsInVolume
        <5> QED
          BY <3>1, <5>2 DEF KeepInv, HeldInv
      <4> QED
        BY <4>1, <4>2
    <3> QED
      BY <1>6, <3>1, <3>2 DEF PodsKept
  <2> QED
    BY <2>1, <2>2, <2>3 DEF ContainersInv
<1>10. ListingInv'
  BY <1>1, <1>2, <1>3, <1>4 DEF KeepInv, ListingInv, OnTime
<1>11. RunningPodKeepsVolumes'
  <2>1. ASSUME NEW p \in OnTime', NEW v \in PodVolumes[p]
        PROVE  <<v, p>> \in podMounts'
    <3>1. CASE p \in OnTime
      BY <1>1, <2>1, <3>1 DEF KeepInv, RunningPodKeepsVolumes, OnTime
    <3>2. CASE p \notin OnTime
      <4>1. p = q /\ waiter[q] = "ready" /\ phase[q] = "active"
        BY <1>2, <1>4, <2>1, <3>2 DEF OnTime
      <4>2. Held(v, p)
        BY <2>1, <4>1 DEF KeepInv, ContainersInv
      <4> QED
        BY <1>1, <4>1, <4>2 DEF Held, Gone
    <3> QED
      BY <3>1, <3>2
  <2> QED
    BY <2>1 DEF RunningPodKeepsVolumes, OnTime
<1> QED
  BY <1>7, <1>8, <1>9, <1>10, <1>11 DEF KeepInv

(***************************************************************************)
(* The populator: a pod it takes out of the desired state is gone.         *)
(***************************************************************************)
LEMMA RemovedIsGone ==
    ASSUME VMTypes, KeepInv, NEW x \in populator.items, RemoveItem(x),
           x.pod \notin podManager,
           x.pod \notin IF populator.fetched THEN populator.runningPods ELSE running
    PROVE  Gone(x.pod)
<1>1. x.pod \in Pods
  BY ItemParts DEF VMTypes, PopulatorTypes
<1>2. Known(x.pod)
  BY DEF KeepInv, KnownInv, PopulatorKnown
<1>3. phase[x.pod] \in {"terminated", "deleted"}
  BY <1>1, <1>2 DEF Known, VMTypes, PodTypes, Phases
<1>4. x.pod \notin OnTime
  <2>1. CASE ~populator.fetched
    BY <2>1 DEF OnTime
  <2>2. CASE populator.fetched /\ ForcedDeletion
    BY <1>1, <2>2 DEF KeepInv, ListingInv
  <2>3. CASE ~ForcedDeletion
    BY <1>3, <2>3 DEF KeepInv, ContainersInv
  <2> QED
    BY <2>1, <2>2, <2>3
<1> QED
  BY <1>3, <1>4 DEF Gone

\* What the populator does to the desired state and to its own fields.
Removes(x) ==
    /\ x \in populator.items
    /\ populator'.items \subseteq populator.items
    /\ populator'.pods = populator.pods /\ populator'.pc = populator.pc
    /\ populator.pc = "remove"
    /\ \/ /\ UNCHANGED podsToMount
          /\ populator'.fetched = populator.fetched
          /\ populator'.runningPods = populator.runningPods
       \/ /\ x.pod \notin podManager
          /\ populator'.fetched
          /\ populator'.runningPods = IF populator.fetched THEN populator.runningPods
                                      ELSE running
          /\ \/ UNCHANGED podsToMount
             \/ /\ Gone(x.pod)
                /\ podsToMount' = [podsToMount EXCEPT ![x.vol] = @ \ {x.pod}]

LEMMA RemoveEffect ==
    ASSUME VMTypes, KeepInv, NEW x \in populator.items, RemoveItem(x)
    PROVE  Removes(x)
<1> DEFINE all == IF populator.fetched THEN populator.runningPods ELSE running
<1>1. populator.pc = "remove"
  BY DEF RemoveItem
<1>2. CASE x.pod \in podManager
  <2>1. /\ populator' = [populator EXCEPT !.items = @ \ {x}]
        /\ UNCHANGED podsToMount
    BY <1>2 DEF RemoveItem, dswVars
  <2> QED
    BY <1>1, <2>1 DEF Removes, VMTypes, PopulatorTypes
<1>3. CASE x.pod \notin podManager
  <2> DEFINE b == TRUE
  <2>1. populator' = [populator EXCEPT !.items = @ \ {x}, !.fetched = b,
                                       !.runningPods = all]
    BY <1>3 DEF RemoveItem
  <2>2. \/ UNCHANGED podsToMount
        \/ /\ x.pod \notin all
           /\ podsToMount' = [podsToMount EXCEPT ![x.vol] = @ \ {x.pod}]
    BY <1>3 DEF RemoveItem, dswVars, dsw!DeletePodFromVolume
  <2>3. x.pod \notin all => Gone(x.pod)
    BY <1>3, RemovedIsGone
  <2>4. b
    OBVIOUS
  <2> HIDE DEF all, b
  <2>5. /\ populator'.items = populator.items \ {x}
        /\ populator'.pods = populator.pods /\ populator'.pc = populator.pc
        /\ populator'.fetched = b /\ populator'.runningPods = all
    BY <2>1 DEF VMTypes, PopulatorTypes
  <2> QED
    BY <1>1, <1>3, <2>2, <2>3, <2>4, <2>5 DEF Removes, all
<1> QED
  BY <1>2, <1>3


\* What is to be shown of each of its steps.
PopulatorGoal ==
    /\ PopulatorKnown' /\ DesiredKnown' /\ ListingInv'
    /\ \A v \in Volumes : \A p \in podsToMount[v] : p \in podsToMount'[v] \/ Gone(p)

LEMMA PopulatorReaches ==
    ASSUME VMTypes, KeepInv, OneListing, PopulatorAny,
           UNCHANGED <<phase, podManager, running, startedLate>>
    PROVE  PopulatorGoal
<1>1. \A p : Known(p) <=> Known(p)'
  BY DEF Known
<1>2. DesiredKnown /\ PopulatorKnown /\ ListingInv
  BY DEF KeepInv, KnownInv
<1> USE <1>1 DEF VMTypes, PopulatorTypes
<1>3. ASSUME UNCHANGED podsToMount
      PROVE  /\ DesiredKnown'
             /\ \A v \in Volumes : \A p \in podsToMount[v] :
                  p \in podsToMount'[v] \/ Gone(p)
  BY <1>2, <1>3 DEF DesiredKnown
<1>4. ASSUME populator'.fetched = populator.fetched,
             populator'.runningPods = populator.runningPods
      PROVE  ListingInv'
  BY <1>2, <1>4 DEF ListingInv, OnTime
<1>5. CASE FindPods
  <2>1. /\ populator' = [populator EXCEPT !.pc = "add",
                           !.pods = {p \in podManager : phase[p] # "terminated"}]
        /\ UNCHANGED podsToMount
    BY <1>5 DEF FindPods, dswVars
  <2>2. \A p \in podManager : Known(p)
    BY DEF Known, KeepInv, ScheduledInv
  <2>3. PopulatorKnown'
    BY <1>2, <2>1, <2>2 DEF PopulatorKnown
  <2> QED
    BY <1>3, <1>4, <2>1, <2>3 DEF PopulatorGoal
<1>6. ASSUME NEW p \in Pods, ProcessPod(p)
      PROVE  PopulatorGoal
  <2>1. /\ p \in populator.pods /\ UNCHANGED podsToMount
        /\ \/ populator' = [populator EXCEPT !.pods = @ \ {p}]
           \/ populator' = [populator EXCEPT !.pc = "volumes", !.pods = @ \ {p},
                                             !.pod = p, !.vols = PodVolumes[p]]
        /\ populator.pc = "add"
    BY <1>6 DEF ProcessPod, dswVars
  <2>2. /\ populator'.pods = populator.pods \ {p}
        /\ populator'.items = populator.items
        /\ populator'.pc = "volumes" => populator'.pod = p
        /\ populator'.fetched = populator.fetched
        /\ populator'.runningPods = populator.runningPods
    <3>1. CASE populator' = [populator EXCEPT !.pods = @ \ {p}]
      BY <2>1, <3>1
    <3>2. CASE populator' = [populator EXCEPT !.pc = "volumes", !.pods = @ \ {p},
                                              !.pod = p, !.vols = PodVolumes[p]]
      BY <3>2
    <3> QED
      BY <2>1, <3>1, <3>2
  <2>3. PopulatorKnown'
    BY <1>2, <2>1, <2>2 DEF PopulatorKnown
  <2> QED
    BY <1>3, <1>4, <2>1, <2>2, <2>3 DEF PopulatorGoal
<1>7. ASSUME NEW v \in Volumes, AddVolume(v)
      PROVE  PopulatorGoal
  <2>1. /\ populator.pc = "volumes"
        /\ populator' = [populator EXCEPT !.vols = @ \ {v}]
        /\ podsToMount' = [podsToMount EXCEPT ![v] = @ \cup {populator.pod}]
    BY <1>7 DEF AddVolume, dsw!AddPodToVolume
  <2>2. PopulatorKnown'
    BY <1>2, <2>1 DEF PopulatorKnown
  <2>3. DesiredKnown'
    BY <1>2, <2>1 DEF PopulatorKnown, DesiredKnown, DswTypes, dsw!TypeOK
  <2>4. \A w \in Volumes : podsToMount[w] \subseteq podsToMount'[w]
    BY <2>1 DEF DswTypes, dsw!TypeOK
  <2> QED
    BY <1>4, <2>1, <2>2, <2>3, <2>4 DEF PopulatorGoal
<1>8. ASSUME NEW v \in Volumes, AddVolumeFails(v)
      PROVE  PopulatorGoal
  <2>1. /\ populator' = [populator EXCEPT !.vols = @ \ {v}] /\ UNCHANGED podsToMount
    BY <1>8 DEF AddVolumeFails, dswVars
  <2>2. PopulatorKnown'
    BY <1>2, <2>1 DEF PopulatorKnown
  <2> QED
    BY <1>3, <1>4, <2>1, <2>2 DEF PopulatorGoal
<1>9. CASE MarkPodProcessed
  <2>1. /\ populator' = [populator EXCEPT !.pc = "add", !.pod = NoPod]
        /\ UNCHANGED podsToMount
    BY <1>9 DEF MarkPodProcessed, dswVars
  <2>2. PopulatorKnown'
    BY <1>2, <2>1 DEF PopulatorKnown
  <2> QED
    BY <1>3, <1>4, <2>1, <2>2 DEF PopulatorGoal
<1>10. CASE FindDeletedPods
  <2>1. /\ populator' = [populator EXCEPT !.pc = "remove",
                                          !.items = dsw!GetVolumesToMount]
        /\ UNCHANGED podsToMount
    BY <1>10 DEF FindDeletedPods, dswVars
  <2>2. \A x \in dsw!GetVolumesToMount : Known(x.pod)
    BY <1>2, ToMountType, ItemParts DEF DesiredKnown
  <2>3. PopulatorKnown'
    BY <1>2, <2>1, <2>2 DEF PopulatorKnown
  <2> QED
    BY <1>3, <1>4, <2>1, <2>3 DEF PopulatorGoal
<1>11. CASE SkipDeletedPods \/ EndRemove
  <2>1. populator' = IdlePopulator /\ UNCHANGED podsToMount
    BY <1>11 DEF SkipDeletedPods, EndRemove, dswVars
  <2>2. PopulatorKnown'
    BY <2>1, IdlePopulatorType DEF PopulatorKnown
  <2>3. ListingInv'
    BY <2>1, IdlePopulatorType DEF ListingInv
  <2> QED
    BY <1>3, <2>1, <2>2, <2>3 DEF PopulatorGoal
<1>12. ASSUME NEW x \in populator.items, GetPodsFails(x)
       PROVE  PopulatorGoal
  <2>1. populator' = [populator EXCEPT !.items = @ \ {x}] /\ UNCHANGED podsToMount
    BY <1>12 DEF GetPodsFails, dswVars
  <2>2. PopulatorKnown'
    BY <1>2, <2>1 DEF PopulatorKnown
  <2> QED
    BY <1>3, <1>4, <2>1, <2>2 DEF PopulatorGoal
<1>13. ASSUME NEW x \in populator.items, RemoveItem(x)
       PROVE  PopulatorGoal
  <2>1. Removes(x)
    BY <1>13, RemoveEffect
  <2>2. x.vol \in Volumes /\ x.pod \in Pods /\ Known(x.pod)
    BY <1>2, ItemParts DEF PopulatorKnown
  <2>3. PopulatorKnown'
    BY <1>2, <2>1 DEF PopulatorKnown, Removes
  <2>4. /\ \A v \in Volumes : podsToMount'[v] \subseteq podsToMount[v]
        /\ \A v \in Volumes : \A p \in podsToMount[v] : p \in podsToMount'[v] \/ Gone(p)
    BY <2>1, <2>2 DEF Removes, DswTypes, dsw!TypeOK
  <2>5. DesiredKnown'
    BY <1>2, <2>4 DEF DesiredKnown
  <2>6. ListingInv'
    <3>1. CASE populator'.fetched = populator.fetched
               /\ populator'.runningPods = populator.runningPods
      BY <1>4, <3>1
    <3>2. CASE x.pod \notin podManager /\ ~populator.fetched
               /\ populator'.runningPods = running
      <4>1. phase[x.pod] \in {"terminated", "deleted"}
        BY <2>2, <3>2 DEF Known, PodTypes, Phases
      <4> QED
        BY <2>2, <3>2, <4>1 DEF ListingInv, OneListing, OnTime
    <3> QED
      BY <2>1, <3>1, <3>2 DEF Removes
  <2> QED
    BY <2>3, <2>4, <2>5, <2>6 DEF PopulatorGoal
<1> QED
  BY <1>5, <1>6, <1>7, <1>8, <1>9, <1>10, <1>11, <1>12, <1>13
     DEF PopulatorAny, PopulatorStep

LEMMA PopulatorKeeps ==
    ASSUME VMTypes, KeepInv, OneListing, PopulatorAny
    PROVE  KeepInv'
<1>1. UNCHANGED <<routines, podMounts, mountedPods, phase, podManager, running,
                  startedLate, waiter, reconciler>>
  BY DEF PopulatorAny, PopulatorStep, FindPods, MarkPodProcessed, FindDeletedPods,
     SkipDeletedPods, EndRemove, ProcessPod, AddVolume, RemoveItem, AddVolumeFails,
     GetPodsFails, populatorUnchanged, opVars, hostVars, aswVars, podVars
<1>2. PopulatorGoal
  BY <1>1, PopulatorReaches
<1>3. ScheduledInv' /\ ContainersInv' /\ RunningPodKeepsVolumes'
  BY <1>1 DEF KeepInv, ScheduledInv, ContainersInv, RunningPodKeepsVolumes, OnTime,
     Held, Gone
<1>4. PodsKept /\ PlacesKept
  <2>1. \A p : /\ Gone(p) => Gone(p)'
               /\ phase[p] # "unscheduled" => phase'[p] # "unscheduled"
               /\ Known(p) => Known(p)'
    BY <1>1 DEF Gone, Known, OnTime
  <2>2. ASSUME NEW v \in Volumes, NEW p \in PodsOf(v)
        PROVE  /\ Held(v, p) => Held(v, p)'
               /\ Kept(v, p) => Kept(v, p)'
    BY <1>1, <1>2, <2>1 DEF Held, Kept, PopulatorGoal
  <2> QED
    BY <2>1, <2>2 DEF PodsKept, PlacesKept
<1>5. KnownInv'
  BY <1>1, <1>2, <1>4, TransferKnown DEF KeepInv, KnownInv, PopulatorGoal
<1>6. KeptInv' /\ HeldInv'
  BY <1>1, <1>4, TransferKept, TransferHeld DEF KeepInv, KeptInv
<1> QED
  BY <1>2, <1>3, <1>5, <1>6 DEF KeepInv, PopulatorGoal

(***************************************************************************)
(* The reconciler: the operations it starts, ...                           *)
(***************************************************************************)
NewTask(t) ==
    /\ t.kind \in MountKinds => phase[t.pod] # "unscheduled"
    /\ t.kind \in MountKinds => Kept(t.vol, t.pod)
    /\ t.kind = "unmount" => Gone(t.pod)
    /\ t.step # "markMounted"

LEMMA StartedRoutines ==
    ASSUME OpTypes, NEW kind \in Kinds, NEW v, NEW p, Started(kind, v, p),
           NEW s \in Routines, routines'[s] # Idle
    PROVE  \/ routines'[s] = routines[s]
           \/ /\ TaskIs(routines'[s], kind, v, p, FirstStep(kind, v))
              /\ routines'[s].step # "markMounted"
<1>1. CASE UNCHANGED opVars
  BY <1>1 DEF opVars
<1>2. ASSUME NEW r \in Routines, Starts(r, kind, v, p)
      PROVE  \/ routines'[s] = routines[s]
             \/ TaskIs(routines'[s], kind, v, p, FirstStep(kind, v))
  BY <1>2 DEF Starts, Others
<1>3. FirstStep(kind, v) # "markMounted"
  BY DEF FirstStep, Kinds
<1> QED
  BY <1>1, <1>2, <1>3 DEF Started, TaskIs

LEMMA ReconcilerStarts ==
    ASSUME VMTypes, KeepInv, ReconcilerStep,
           NEW s \in Routines, routines'[s] # Idle
    PROVE  routines'[s] = routines[s] \/ NewTask(routines'[s])
<1> DEFINE t == routines'[s]
<1>1. ASSUME NEW x \in reconciler.work, ReconcileUnmount(x)
      PROVE  t = routines[s] \/ NewTask(t)
  <2>1. /\ reconciler.pc = "unmount" /\ Kept(x.vol, x.pod)
    BY <1>1 DEF ReconcileUnmount, KeepInv, KeptInv, WorkKept
  <2>2. \/ UNCHANGED opVars
        \/ x.pod \notin podsToMount[x.vol] /\ Started("unmount", x.vol, x.pod)
    BY <1>1, UnmountEffect
  <2>3. CASE UNCHANGED opVars
    BY <2>3 DEF opVars
  <2>4. CASE x.pod \notin podsToMount[x.vol] /\ Started("unmount", x.vol, x.pod)
    <3>1. Gone(x.pod)
      BY <2>1, <2>4 DEF Kept
    <3>2. "unmount" \in Kinds
      BY DEF Kinds
    <3>3. t = routines[s] \/ (t.kind = "unmount" /\ t.pod = x.pod /\ t.step # "markMounted")
      BY <2>4, <3>2, StartedRoutines DEF VMTypes, TaskIs
    <3> QED
      BY <3>1, <3>3 DEF NewTask, MountKinds
  <2> QED
    BY <2>2, <2>3, <2>4
<1>2. ASSUME NEW x \in reconciler.work, ReconcileMount(x)
      PROVE  t = routines[s] \/ NewTask(t)
  <2>1. /\ reconciler.pc = "mount" /\ Kept(x.vol, x.pod) /\ Known(x.pod)
    BY <1>2 DEF ReconcileMount, KeepInv, KeptInv, WorkKept, KnownInv, ReconcilerKnown
  <2>2. UNCHANGED opVars \/ \E kind \in MountKinds : Started(kind, x.vol, x.pod)
    BY <1>2, MountEffect
  <2>3. CASE UNCHANGED opVars
    BY <2>3 DEF opVars
  <2>4. ASSUME NEW kind \in MountKinds, Started(kind, x.vol, x.pod)
        PROVE  t = routines[s] \/ NewTask(t)
    <3>1. kind \in Kinds
      BY DEF Kinds, MountKinds
    <3>2. \/ t = routines[s]
          \/ /\ t.kind = kind /\ t.vol = x.vol /\ t.pod = x.pod
             /\ t.step # "markMounted"
      BY <2>4, <3>1, StartedRoutines DEF VMTypes, TaskIs
    <3> QED
      BY <2>1, <3>2 DEF NewTask, MountKinds, Known
  <2> QED
    BY <2>2, <2>3, <2>4
<1>3. ASSUME NEW x \in reconciler.work, ReconcileDetach(x)
      PROVE  t = routines[s] \/ NewTask(t)
  <2>1. \/ UNCHANGED opVars
        \/ \E kind \in {"unmountDevice", "detach"} : Started(kind, x.vol, NoPod)
    BY <1>3, DetachEffect
  <2>2. CASE UNCHANGED opVars
    BY <2>2 DEF opVars
  <2>3. ASSUME NEW kind \in {"unmountDevice", "detach"}, Started(kind, x.vol, NoPod)
        PROVE  t = routines[s] \/ NewTask(t)
    <3>1. kind \in Kinds
      BY DEF Kinds
    <3>2. t = routines[s] \/ (t.kind = kind /\ t.step # "markMounted")
      BY <2>3, <3>1, StartedRoutines DEF VMTypes, TaskIs
    <3> QED
      BY <3>2 DEF NewTask, MountKinds
  <2> QED
    BY <2>1, <2>2, <2>3
<1>4. CASE UNCHANGED opVars
  BY <1>4 DEF opVars
<1> QED
  BY <1>1, <1>2, <1>3, <1>4 DEF ReconcilerStep, NextPass, SyncScan, SyncEnd,
     SyncPending, SyncDesired, SyncActual, SyncReconstruct, UpdateAttached,
     UpdateMounted, UpdateDevice, UpdateDesired

(***************************************************************************)
(* ... and what it takes from one list to the next.                        *)
(***************************************************************************)
ItemHeld ==
    /\ reconciler.pc \in SyncSteps \ {"sync"} =>
         Held(reconciler.item.vol, reconciler.item.pod)
    /\ \A v \in Volumes : reconciler.updates[v] # NoPod =>
         Held(v, reconciler.updates[v])

ReconcilerGoal ==
    /\ DesiredKnown' /\ ReconcilerKnown' /\ WorkKept' /\ MountsKept' /\ ItemHeld'
    /\ \A v \in Volumes : podsToMount[v] \subseteq podsToMount'[v]
    /\ \A v \in Volumes : \A p \in mountedPods'[v] : Held(v, p)

SamePods ==
    \A p : /\ Gone(p) <=> Gone(p)'
           /\ Known(p) <=> Known(p)'
           /\ \A v : Held(v, p) <=> Held(v, p)'

\* A step that only changes where the reconciler is.
LEMMA ReconcilerMoves ==
    ASSUME VMTypes, KeepInv, SamePods, UNCHANGED <<podsToMount, mountedPods>>,
           ReconcilerKnown', WorkKept', ItemHeld',
           \/ reconciler.pc \notin {"updateDevice", "updateDesired"}
           \/ reconciler.pc = "updateDevice" /\ reconciler'.pc = "updateDesired"
              /\ reconciler'.item = reconciler.item
    PROVE  ReconcilerGoal
<1>1. DesiredKnown' /\ \A v \in Volumes : podsToMount[v] \subseteq podsToMount'[v]
  BY DEF KeepInv, KnownInv, DesiredKnown, SamePods
<1>2. MountsKept'
  BY DEF KeepInv, KeptInv, MountsKept, SamePods, Kept
<1>3. \A v \in Volumes : \A p \in mountedPods'[v] : Held(v, p)
  BY DEF KeepInv, HeldInv
<1> QED
  BY <1>1, <1>2, <1>3 DEF ReconcilerGoal

LEMMA PassKeeps ==
    ASSUME VMTypes, KeepInv, SamePods,
           \/ NextPass
           \/ \E x \in reconciler.work :
                ReconcileUnmount(x) \/ ReconcileMount(x) \/ ReconcileDetach(x)
    PROVE  ReconcilerGoal
<1> USE NoUpdatesType DEF ReconcilerIs, ReconcilerKnown, WorkKept, ItemHeld, SamePods,
        SyncSteps, CheckSteps, UpdateSteps
<1>1. ASSUME NextPass
      PROVE  ReconcilerGoal
  <2>1. UNCHANGED <<podsToMount, mountedPods>>
    BY <1>1 DEF NextPass, aswVars, dswVars
  <2>2. ASSUME NEW x \in asw!GetMountedVolumes, reconciler.pc = "idle"
        PROVE  Kept(x.vol, x.pod)'
    <3>1. x.vol \in Volumes /\ x.pod \in mountedPods[x.vol]
      BY MountedType, ItemParts DEF VMTypes
    <3>2. Kept(x.vol, x.pod)
      BY <2>2, <3>1 DEF KeepInv, KeptInv, MountsKept
    <3> QED
      BY <2>1, <3>2 DEF Kept
  <2>3. ASSUME NEW x \in dsw!GetVolumesToMount
        PROVE  Kept(x.vol, x.pod)' /\ Known(x.pod)'
    <3>1. x.vol \in Volumes /\ x.pod \in podsToMount[x.vol]
      BY ToMountType, ItemParts DEF VMTypes
    <3>2. Known(x.pod)
      BY <3>1 DEF KeepInv, KnownInv, DesiredKnown
    <3> QED
      BY <2>1, <3>1, <3>2 DEF Kept
  <2>4. ReconcilerKnown' /\ WorkKept' /\ ItemHeld'
    BY <1>1, <2>2, <2>3, PassEffect
  <2>5. reconciler.pc \notin {"updateDevice", "updateDesired"}
    BY <1>1 DEF NextPass
  <2> QED
    BY <2>1, <2>4, <2>5, ReconcilerMoves
<1>2. ASSUME NEW x \in reconciler.work,
             ReconcileUnmount(x) \/ ReconcileMount(x) \/ ReconcileDetach(x)
      PROVE  ReconcilerGoal
  <2>1. UNCHANGED <<podsToMount, mountedPods>>
    BY <1>2 DEF ReconcileUnmount, ReconcileMount, ReconcileDetach, aswVars, dswVars,
       asw!MarkVolumeAsDetached, asw!vars
  <2>2. /\ reconciler.pc \in {"unmount", "mount", "detach"}
        /\ reconciler'.pc = reconciler.pc /\ reconciler'.work = reconciler.work \ {x}
        /\ reconciler'.updates = NoUpdates
    BY <1>2, PassEffect
  <2>3. ReconcilerKnown'
    BY <2>2 DEF KeepInv, KnownInv
  <2>4. WorkKept'
    BY <2>1, <2>2 DEF KeepInv, KeptInv, Kept
  <2>5. ItemHeld'
    BY <2>2
  <2> QED
    BY <2>1, <2>2, <2>3, <2>4, <2>5, ReconcilerMoves
<1> QED
  BY <1>1, <1>2

LEMMA SyncKeeps ==
    ASSUME VMTypes, KeepInv, SamePods,
           \/ SyncScan \/ SyncPending \/ SyncDesired \/ SyncActual
           \/ \E x \in reconciler.work : SyncReconstruct(x)
    PROVE  ReconcilerGoal
<1> USE NoUpdatesType DEF ReconcilerIs, ReconcilerKnown, WorkKept, ItemHeld, SamePods,
        SyncSteps, CheckSteps, UpdateSteps
<1>1. /\ UNCHANGED <<podsToMount, mountedPods>>
      /\ reconciler.pc \notin {"updateDevice", "updateDesired"}
  BY DEF SyncScan, SyncPending, SyncDesired, SyncActual, SyncReconstruct, aswVars,
     dswVars
<1>2. ReconcilerKnown /\ ItemHeld
  BY DEF KeepInv, KnownInv, HeldInv
<1>3. CASE SyncScan
  <2>1. ASSUME NEW x \in OnDisk
        PROVE  Known(x.pod)
    <3>1. x.pod \in Pods /\ <<x.vol, x.pod>> \in podMounts
      BY ScanType, ItemParts DEF VMTypes
    <3>2. phase[x.pod] # "unscheduled"
      BY <3>1 DEF KeepInv, ScheduledInv
    <3> QED
      BY <1>3, <3>1, <3>2 DEF SyncScan, SourcesReady, Known
  <2>2. ReconcilerIs("sync", OnDisk, reconciler.item, NoUpdates)
    BY <1>3, SyncEffect
  <2>3. ReconcilerKnown' /\ WorkKept' /\ ItemHeld'
    BY <2>1, <2>2
  <2> QED
    BY <1>1, <2>3, ReconcilerMoves
<1>4. ASSUME NEW x \in reconciler.work, SyncReconstruct(x)
      PROVE  ReconcilerGoal
  <2>1. reconciler.pc = "sync" /\ Known(x.pod)
    BY <1>2, <1>4 DEF SyncReconstruct
  <2>2. PICK pc \in {"sync", "checkPending"} :
           /\ ReconcilerIs(pc, reconciler.work \ {x}, x, reconciler.updates)
           /\ pc = "checkPending" => <<x.vol, x.pod>> \in podMounts
    BY <1>4, SyncEffect
  <2>3. pc = "checkPending" => Held(x.vol, x.pod)
    BY <2>2 DEF Held
  <2>4. ReconcilerKnown'
    BY <1>2, <2>1, <2>2
  <2>5. WorkKept'
    BY <2>2
  <2>6. ItemHeld'
    BY <1>2, <2>1, <2>2, <2>3
  <2> QED
    BY <1>1, <2>4, <2>5, <2>6, ReconcilerMoves
<1>5. CASE SyncPending \/ SyncDesired
  <2>1. reconciler.pc \in {"checkPending", "checkDesired"}
    BY <1>5 DEF SyncPending, SyncDesired
  <2>2. PICK pc \in {"sync", "checkDesired", "checkActual"} :
           ReconcilerIs(pc, reconciler.work, reconciler.item, reconciler.updates)
    BY <1>5, SyncEffect
  <2>3. ReconcilerKnown'
    BY <1>2, <2>1, <2>2
  <2>4. WorkKept'
    BY <2>2
  <2>5. ItemHeld'
    BY <1>2, <2>1, <2>2
  <2> QED
    BY <1>1, <2>3, <2>4, <2>5, ReconcilerMoves
<1>6. CASE SyncActual
  <2> DEFINE v == reconciler.item.vol
             q == reconciler.item.pod
  <2>1. reconciler.pc = "checkActual"
    BY <1>6 DEF SyncActual
  <2>2. v \in Volumes /\ Known(q) /\ Held(v, q)
    BY <1>2, <2>1, ItemParts DEF VMTypes, ReconcilerTypes
  <2>3. PICK p \in {q, reconciler.updates[v]} :
           ReconcilerIs("sync", reconciler.work, reconciler.item,
                        [reconciler.updates EXCEPT ![v] = p])
    BY <1>6, SyncEffect
  <2> HIDE DEF v, q
  <2>4. p # NoPod => Known(p) /\ Held(v, p)
    BY <1>2, <2>2, <2>3
  <2>5. \A w \in Volumes :
           reconciler'.updates[w] = IF w = v THEN p ELSE reconciler.updates[w]
    BY <2>2, <2>3 DEF VMTypes, ReconcilerTypes
  <2>6. ReconcilerKnown'
    BY <1>2, <2>1, <2>3, <2>4, <2>5
  <2>7. WorkKept'
    BY <2>3
  <2>8. ItemHeld'
    BY <1>2, <2>3, <2>4, <2>5
  <2> QED
    BY <1>1, <2>6, <2>7, <2>8, ReconcilerMoves
<1> QED
  BY <1>3, <1>4, <1>5, <1>6

LEMMA UpdateKeeps ==
    ASSUME VMTypes, KeepInv, SamePods,
           \/ UpdateMounted \/ UpdateDevice \/ UpdateDesired \/ SyncEnd
           \/ \E v \in Volumes : UpdateAttached(v)
    PROVE  ReconcilerGoal
<1> USE NoUpdatesType DEF ReconcilerIs, ReconcilerKnown, WorkKept, ItemHeld, SamePods,
        SyncSteps, CheckSteps, UpdateSteps
<1>1. ReconcilerKnown /\ ItemHeld
  BY DEF KeepInv, KnownInv, HeldInv
<1>2. CASE SyncEnd
  <2>1. UNCHANGED <<podsToMount, mountedPods>> /\ reconciler.pc = "sync"
    BY <1>2 DEF SyncEnd, aswVars, dswVars
  <2>2. ReconcilerKnown' /\ WorkKept' /\ ItemHeld'
    BY <1>2, UpdateEffect
  <2> QED
    BY <2>1, <2>2, ReconcilerMoves
<1>3. ASSUME NEW v \in Volumes, UpdateAttached(v)
      PROVE  ReconcilerGoal
  <2>1. /\ UNCHANGED <<podsToMount, mountedPods>> /\ reconciler.pc = "sync"
        /\ reconciler.updates[v] # NoPod
    BY <1>3 DEF UpdateAttached, dswVars, asw!MarkVolumeAsAttached
  <2> DEFINE q == reconciler.updates[v]
  <2>2. Known(q) /\ Held(v, q)
    BY <1>1, <2>1
  <2>3. ReconcilerIs("updateMounted", {}, [vol |-> v, pod |-> q],
                     [reconciler.updates EXCEPT ![v] = NoPod])
    BY <1>3, UpdateEffect
  <2> HIDE DEF q
  <2>4. /\ reconciler'.item.vol = v /\ reconciler'.item.pod = q
        /\ \A w \in Volumes :
             reconciler'.updates[w] = IF w = v THEN NoPod ELSE reconciler.updates[w]
    BY <2>3 DEF VMTypes, ReconcilerTypes
  <2>5. ReconcilerKnown'
    BY <1>1, <2>2, <2>3, <2>4
  <2>6. WorkKept' /\ ItemHeld'
    BY <1>1, <2>2, <2>3, <2>4
  <2> QED
    BY <2>1, <2>5, <2>6, ReconcilerMoves
<1> DEFINE v == reconciler.item.vol
           q == reconciler.item.pod
<1>4. ASSUME reconciler.pc \in UpdateSteps
      PROVE  /\ v \in Volumes /\ q \in PodsOf(v) /\ Known(q) /\ Held(v, q)
             /\ reconciler.item = [vol |-> v, pod |-> q]
  BY <1>1, <1>4, ItemParts DEF VMTypes, ReconcilerTypes
<1> HIDE DEF v, q
<1>5. ASSUME NEW pc \in {"updateDevice", "updateDesired", "sync"},
             reconciler.pc \in UpdateSteps,
             ReconcilerIs(pc, reconciler.work, reconciler.item, reconciler.updates)
      PROVE  ReconcilerKnown' /\ WorkKept' /\ ItemHeld'
  <2>1. ReconcilerKnown'
    BY <1>1, <1>5
  <2>2. WorkKept'
    BY <1>5
  <2>3. ItemHeld'
    BY <1>1, <1>5
  <2> QED
    BY <2>1, <2>2, <2>3
<1>6. CASE UpdateMounted
  <2>1. reconciler.pc = "updateMounted" /\ UNCHANGED podsToMount
    BY <1>6 DEF UpdateMounted, dswVars
  <2>2. PICK pc \in {"updateDevice", "updateDesired", "sync"} :
           /\ pc = "sync" => UNCHANGED aswVars
           /\ pc # "sync" => asw!MarkVolumeAsMounted(q, v)
           /\ ReconcilerIs(pc, reconciler.work, reconciler.item, reconciler.updates)
    BY <1>6, UpdateEffect DEF v, q
  <2>3. ReconcilerKnown' /\ WorkKept' /\ ItemHeld'
    BY <1>5, <2>1, <2>2
  <2>4. CASE pc = "sync"
    BY <2>1, <2>2, <2>3, <2>4, ReconcilerMoves DEF aswVars
  <2>5. CASE pc # "sync"
    <3>1. mountedPods' = [mountedPods EXCEPT ![v] = @ \cup {q}]
      BY <2>2, <2>5 DEF asw!MarkVolumeAsMounted
    <3>2. ASSUME NEW w \in Volumes, NEW p \in mountedPods'[w]
          PROVE  (w = v /\ p = q) \/ p \in mountedPods[w]
      BY <3>1, <3>2 DEF VMTypes, AswTypes, asw!TypeOK
    <3>3. MountsKept'
      <4>1. ASSUME NEW w \in Volumes, NEW p \in mountedPods'[w]
            PROVE  \/ Kept(w, p)'
                   \/ /\ reconciler'.pc \in {"updateDevice", "updateDesired"}
                      /\ reconciler'.item = [vol |-> w, pod |-> p]
        <5>1. CASE w = v /\ p = q
          BY <1>4, <2>1, <2>2, <2>5, <5>1
        <5>2. CASE p \in mountedPods[w]
          BY <2>1, <5>2 DEF KeepInv, KeptInv, MountsKept, Kept
        <5> QED
          BY <3>2, <4>1, <5>1, <5>2
      <4> QED
        BY <4>1 DEF MountsKept
    <3>4. \A w \in Volumes : \A p \in mountedPods'[w] : Held(w, p)
      BY <1>4, <2>1, <3>2 DEF KeepInv, HeldInv
    <3>5. DesiredKnown' /\ \A w \in Volumes : podsToMount[w] \subseteq podsToMount'[w]
      BY <2>1 DEF KeepInv, KnownInv, DesiredKnown
    <3> QED
      BY <2>3, <3>3, <3>4, <3>5 DEF ReconcilerGoal
  <2> QED
    BY <2>4, <2>5
<1>7. CASE UpdateDevice
  <2>1. reconciler.pc = "updateDevice" /\ UNCHANGED podsToMount
    BY <1>7 DEF UpdateDevice, dswVars
  <2>2. PICK pc \in {"updateDesired", "sync"} :
           /\ pc = "sync" => UNCHANGED aswVars /\ ~asw!VolumeExists(v)
           /\ pc # "sync" => asw!MarkDeviceAsMounted(v)
           /\ ReconcilerIs(pc, reconciler.work, reconciler.item, reconciler.updates)
    BY <1>7, UpdateEffect DEF v
  <2>3. UNCHANGED mountedPods
    BY <2>2 DEF aswVars, asw!MarkDeviceAsMounted
  <2>4. ReconcilerKnown' /\ WorkKept' /\ ItemHeld'
    BY <1>5, <2>1, <2>2
  <2>5. CASE pc = "updateDesired"
    BY <2>1, <2>2, <2>3, <2>4, <2>5, ReconcilerMoves
  <2>6. CASE pc = "sync"
    <3>1. mountedPods[v] = {}
      BY <1>4, <2>1, <2>2, <2>6 DEF asw!VolumeExists, VMTypes, AswTypes, asw!TypeOK
    <3>2. MountsKept'
      <4>1. ASSUME NEW w \in Volumes, NEW p \in mountedPods'[w]
            PROVE  Kept(w, p)'
        <5>1. w # v /\ p \in mountedPods[w]
          BY <2>3, <3>1, <4>1
        <5>2. reconciler.item # [vol |-> w, pod |-> p]
          BY <1>4, <2>1, <5>1
        <5>3. Kept(w, p)
          BY <5>1, <5>2 DEF KeepInv, KeptInv, MountsKept
        <5> QED
          BY <2>1, <5>3 DEF Kept
      <4> QED
        BY <4>1 DEF MountsKept
    <3>3. \A w \in Volumes : \A p \in mountedPods'[w] : Held(w, p)
      BY <2>3 DEF KeepInv, HeldInv
    <3>4. DesiredKnown' /\ \A w \in Volumes : podsToMount[w] \subseteq podsToMount'[w]
      BY <2>1 DEF KeepInv, KnownInv, DesiredKnown
    <3> QED
      BY <2>4, <3>2, <3>3, <3>4 DEF ReconcilerGoal
  <2> QED
    BY <2>5, <2>6
<1>8. CASE UpdateDesired
  <2>1. /\ reconciler.pc = "updateDesired" /\ UNCHANGED mountedPods
        /\ podsToMount' = [podsToMount EXCEPT ![v] = @ \cup {q}]
    BY <1>8 DEF UpdateDesired, aswVars, dsw!AddPodToVolume, v, q
  <2>2. ReconcilerIs("sync", reconciler.work, reconciler.item, reconciler.updates)
    BY <1>8, UpdateEffect
  <2>3. ReconcilerKnown' /\ WorkKept' /\ ItemHeld'
    BY <1>5, <2>1, <2>2
  <2>4. \A w \in Volumes : podsToMount'[w] = IF w = v THEN podsToMount[w] \cup {q}
                                             ELSE podsToMount[w]
    BY <1>4, <2>1 DEF VMTypes, DswTypes, dsw!TypeOK
  <2>5. DesiredKnown'
    BY <1>4, <2>1, <2>4 DEF KeepInv, KnownInv, DesiredKnown
  <2>6. MountsKept'
    <3>1. ASSUME NEW w \in Volumes, NEW p \in mountedPods'[w]
          PROVE  Kept(w, p)'
      <4>1. Kept(w, p) \/ reconciler.item = [vol |-> w, pod |-> p]
        BY <2>1, <3>1 DEF KeepInv, KeptInv, MountsKept
      <4>2. CASE Kept(w, p)
        BY <2>4, <4>2 DEF Kept
      <4>3. CASE reconciler.item = [vol |-> w, pod |-> p]
        <5>1. w = v /\ p = q
          BY <4>3 DEF v, q
        <5> QED
          BY <2>4, <5>1 DEF Kept
      <4> QED
        BY <4>1, <4>2, <4>3
    <3> QED
      BY <3>1 DEF MountsKept
  <2>7. \A w \in Volumes : \A p \in mountedPods'[w] : Held(w, p)
    BY <2>1 DEF KeepInv, HeldInv
  <2> QED
    BY <2>3, <2>4, <2>5, <2>6, <2>7 DEF ReconcilerGoal
<1> QED
  BY <1>2, <1>3, <1>6, <1>7, <1>8

LEMMA ReconcilerKeeps ==
    ASSUME VMTypes, KeepInv, ReconcilerStep
    PROVE  KeepInv'
<1>1. UNCHANGED <<podMounts, phase, podManager, running, startedLate, waiter,
                  populator>>
  BY DEF ReconcilerStep, NextPass, SyncScan, SyncEnd, SyncPending, SyncDesired,
     SyncActual, UpdateMounted, UpdateDevice, UpdateDesired, ReconcileUnmount,
     ReconcileMount, ReconcileDetach, SyncReconstruct, UpdateAttached,
     reconcilerUnchanged, hostVars, podVars
<1>2. SamePods
  BY <1>1 DEF SamePods, Gone, Known, Held, OnTime
<1>3. ReconcilerGoal
  BY <1>2, PassKeeps, SyncKeeps, UpdateKeeps DEF ReconcilerStep
<1>4. \A s \in Routines :
        routines'[s] # Idle => routines'[s] = routines[s] \/ NewTask(routines'[s])
  BY ReconcilerStarts
<1>5. ContainersInv' /\ ListingInv' /\ RunningPodKeepsVolumes'
  BY <1>1 DEF KeepInv, ContainersInv, ListingInv, RunningPodKeepsVolumes, OnTime,
     Held, Gone
<1>6. ScheduledInv'
  BY <1>1, <1>4 DEF KeepInv, ScheduledInv, NewTask, MountKinds
<1>7. KnownInv'
  BY <1>1, <1>3 DEF KeepInv, KnownInv, ReconcilerGoal, PopulatorKnown, Known
<1>8. RoutinesKept'
  <2>1. ASSUME NEW s \in Routines, routines'[s] # Idle
        PROVE  /\ routines'[s].kind \in MountKinds => Kept(routines[s].vol, routines[s].pod)'
               /\ routines'[s].kind = "unmount" => Gone(routines[s].pod)'
    <3>1. routines'[s] \in Task
      BY <2>1, ReconcilerStepTypes DEF VMTypes, OpTypes
    <3>2. PICK w, p : w = routines'[s].vol /\ p = routines'[s].pod
      OBVIOUS
    <3>3. w \in Volumes
      BY <3>1, <3>2 DEF Task, Tasks
    <3>4. /\ routines'[s].kind \in MountKinds => Kept(w, p)
          /\ routines'[s].kind = "unmount" => Gone(p)
      <4>1. CASE routines'[s] = routines[s]
        BY <2>1, <3>2, <4>1 DEF KeepInv, KeptInv, RoutinesKept
      <4>2. CASE NewTask(routines'[s])
        BY <3>2, <4>2 DEF NewTask
      <4> QED
        BY <1>4, <2>1, <4>1, <4>2
    <3>5. /\ routines'[s].kind \in MountKinds => Kept(w, p)'
          /\ routines'[s].kind = "unmount" => Gone(p)'
      BY <1>2, <1>3, <3>3, <3>4 DEF Kept, ReconcilerGoal, SamePods
    <3> QED
      BY <3>2, <3>5 DEF Kept, Gone
  <2> QED
    BY <2>1 DEF RoutinesKept
<1>9. KeptInv'
  BY <1>3, <1>8 DEF KeptInv, ReconcilerGoal
<1>10. HeldInv'
  <2>1. \A v \in Volumes : \A p \in mountedPods'[v] : Held(v, p)'
    BY <1>2, <1>3 DEF ReconcilerGoal, SamePods
  <2>2. \A r \in Routines :
          routines'[r] # Idle /\ routines'[r].step = "markMounted" =>
             Held(routines[r].vol, routines[r].pod)'
    BY <1>1, <1>4 DEF KeepInv, HeldInv, NewTask, Held, Gone, OnTime
  <2> QED
    BY <1>3, <2>1, <2>2 DEF HeldInv, ReconcilerGoal, ItemHeld
<1> QED
  BY <1>5, <1>6, <1>7, <1>9, <1>10 DEF KeepInv

(***************************************************************************)
(* What a step of a goroutine does to itself, to the host and to the       *)
(* actual state of the world.                                              *)
(***************************************************************************)
HostEffect(r, v, p, step) ==
    /\ \/ UNCHANGED podMounts
       \/ step = "setUp" /\ podMounts' = podMounts \cup {<<v, p>>}
       \/ step = "tearDown" /\ podMounts' = podMounts \ {<<v, p>>}
    /\ \/ UNCHANGED deviceMounts
       \/ step = "mountDevice" /\ deviceMounts' = deviceMounts \cup {v}
       \/ step = "unmountDevice" /\ deviceMounts' = deviceMounts \ {v}
    /\ \/ UNCHANGED deviceAttached
       \/ step = "attach" /\ deviceAttached' = deviceAttached \cup {v}
       \/ step = "detach" /\ deviceAttached' = deviceAttached \ {v}

AswEffect(r, v, p, step) ==
    /\ \/ UNCHANGED mountedPods
       \/ /\ step = "markMounted"
          /\ mountedPods' = [mountedPods EXCEPT ![v] = @ \cup {p}]
       \/ mountedPods' = [mountedPods EXCEPT ![v] = @ \ {p}]
    /\ \/ attachedVolumes' \subseteq attachedVolumes
       \/ step = "markAttached" /\ attachedVolumes' = attachedVolumes \cup {v}
    /\ \/ UNCHANGED globallyMounted
       \/ step = "markDeviceMounted" /\ globallyMounted' = globallyMounted \cup {v}
       \/ globallyMounted' = globallyMounted \ {v}

\* How the next step of a goroutine comes about.
NextStep(r, v, p, step, next) ==
    /\ next = "markAttached" =>
         \/ step = "attach" /\ deviceAttached' = deviceAttached \cup {v}
         \/ step = "verify" /\ (v \in AttachableVolumes => v \in volumesAttached)
    /\ next = "markDeviceMounted" =>
         /\ step = "mountDevice" /\ v \in deviceAttached
         /\ deviceMounts' = deviceMounts \cup {v}
    /\ next = "setUp" => step = "markDeviceMounted"
    /\ next = "markMounted" => step = "setUp" /\ podMounts' = podMounts \cup {<<v, p>>}
    /\ next = "unmountDevice" => step = "checkRefs" /\ \A m \in podMounts : m[1] # v
    /\ next = "markDeviceUnmounted" =>
         step = "unmountDevice" /\ deviceMounts' = deviceMounts \ {v}
    /\ next \notin {"mountDevice", "checkRefs", "verify", "attach", "detach", "tearDown"}

StepEffect(r) ==
    /\ routines[r] # Idle /\ Others(r)
    /\ HostEffect(r, routines[r].vol, routines[r].pod, routines[r].step)
    /\ AswEffect(r, routines[r].vol, routines[r].pod, routines[r].step)
    /\ routines'[r] # Idle =>
         /\ routines'[r] \in Task
         /\ routines'[r].kind = routines[r].kind
         /\ routines'[r].vol = routines[r].vol /\ routines'[r].pod = routines[r].pod
         /\ NextStep(r, routines[r].vol, routines[r].pod, routines[r].step,
                     routines'[r].step)

LEMMA GotoStep ==
    ASSUME OpTypes, NEW r \in Routines, routines[r] # Idle, NEW step, Goto(r, step)
    PROVE  routines'[r].step = step
<1>1. routines[r] \in Tasks
  BY DEF OpTypes, Task
<1>2. routines'[r] = [routines[r] EXCEPT !.step = step]
  BY DEF Goto, OpTypes
<1> QED
  BY <1>1, <1>2 DEF Tasks

LEMMA AnyEffect ==
    ASSUME OpTypes, AswTypes, NEW r \in Routines, AnyStep(r)
    PROVE  StepEffect(r)
<1> DEFINE v == routines[r].vol
           p == routines[r].pod
           step == routines[r].step
           next == routines'[r].step
<1>1. /\ routines[r] # Idle /\ Others(r)
      /\ routines'[r] # Idle =>
         /\ routines'[r] \in Task
         /\ routines'[r].kind = routines[r].kind
         /\ routines'[r].vol = routines[r].vol /\ routines'[r].pod = routines[r].pod
  BY RoutineEffect DEF Ends, Moves, TaskIs
<1>2. SUFFICES /\ HostEffect(r, v, p, step) /\ AswEffect(r, v, p, step)
               /\ routines'[r] # Idle => NextStep(r, v, p, step, next)
  BY <1>1 DEF StepEffect
<1> USE DEF HostEffect, AswEffect, NextStep, At, hostVars, aswVars
<1>3. CASE Verify(r)
  <2>1. step = "verify" /\ UNCHANGED <<hostVars, aswVars>>
    BY <1>3 DEF Verify
  <2>2. \/ /\ Goto(r, "markAttached")
           /\ v \in AttachableVolumes => v \in volumesAttached
        \/ Goto(r, "failed")
    BY <1>3 DEF Verify
  <2>3. \/ next = "markAttached" /\ (v \in AttachableVolumes => v \in volumesAttached)
        \/ next = "failed"
    BY <1>1, <2>2, GotoStep
  <2> HIDE DEF v, p, step, next
  <2> QED
    BY <2>1, <2>3
<1>4. CASE Attach(r)
  <2>1. next = "markAttached"
    BY <1>1, <1>4, GotoStep DEF Attach
  <2> QED
    BY <1>4, <2>1 DEF Attach
<1>5. CASE MarkAttached(r)
  <2>1. next = "succeeded"
    BY <1>1, <1>5, GotoStep DEF MarkAttached
  <2> QED
    BY <1>5, <2>1 DEF MarkAttached, asw!MarkVolumeAsAttached
<1>6. CASE MountDevice(r)
  <2>1. CASE v \in deviceAttached
    <3>1. next = "markDeviceMounted"
      BY <1>1, <1>6, <2>1, GotoStep DEF MountDevice
    <3> QED
      BY <1>6, <2>1, <3>1 DEF MountDevice
  <2>2. CASE v \notin deviceAttached
    <3>1. next = "failed"
      BY <1>1, <1>6, <2>2, GotoStep DEF MountDevice
    <3> QED
      BY <1>6, <2>2, <3>1 DEF MountDevice
  <2> QED
    BY <2>1, <2>2
<1>7. CASE MarkDeviceMounted(r)
  <2>1. CASE asw!VolumeExists(v)
    <3>1. next = "setUp"
      BY <1>1, <1>7, <2>1, GotoStep DEF MarkDeviceMounted
    <3> QED
      BY <1>7, <2>1, <3>1 DEF MarkDeviceMounted, asw!MarkDeviceAsMounted
  <2>2. CASE ~asw!VolumeExists(v)
    <3>1. next = "failed"
      BY <1>1, <1>7, <2>2, GotoStep DEF MarkDeviceMounted
    <3> QED
      BY <1>7, <2>2, <3>1 DEF MarkDeviceMounted
  <2> QED
    BY <2>1, <2>2
<1>8. CASE SetUp(r)
  <2>1. next = "markMounted"
    BY <1>1, <1>8, GotoStep DEF SetUp
  <2> QED
    BY <1>8, <2>1 DEF SetUp
<1>9. CASE MarkMounted(r)
  <2>1. CASE asw!VolumeExists(v)
    <3>1. next = "succeeded"
      BY <1>1, <1>9, <2>1, GotoStep DEF MarkMounted
    <3> QED
      BY <1>9, <2>1, <3>1 DEF MarkMounted, asw!MarkVolumeAsMounted
  <2>2. CASE ~asw!VolumeExists(v)
    <3>1. next = "failed"
      BY <1>1, <1>9, <2>2, GotoStep DEF MarkMounted
    <3> QED
      BY <1>9, <2>2, <3>1 DEF MarkMounted
  <2> QED
    BY <2>1, <2>2
<1>10. CASE TearDown(r)
  <2>1. Goto(r, "markUnmounted") \/ Goto(r, "failed")
    BY <1>10 DEF TearDown
  <2>2. next \in {"markUnmounted", "failed"}
    BY <1>1, <2>1, GotoStep
  <2> QED
    BY <1>10, <2>2 DEF TearDown
<1>11. CASE MarkUnmounted(r)
  <2>1. next = "succeeded"
    BY <1>1, <1>11, GotoStep DEF MarkUnmounted
  <2> QED
    BY <1>11, <2>1 DEF MarkUnmounted, asw!MarkVolumeAsUnmounted
<1>12. CASE CheckRefs(r)
  <2>1. step = "checkRefs" /\ UNCHANGED <<hostVars, aswVars>>
    BY <1>12 DEF CheckRefs
  <2>2. \/ Goto(r, "failed")
        \/ Goto(r, "unmountDevice") /\ \A m \in podMounts : m[1] # v
    BY <1>12 DEF CheckRefs
  <2>3. next = "failed" \/ (next = "unmountDevice" /\ \A m \in podMounts : m[1] # v)
    BY <1>1, <2>2, GotoStep
  <2> HIDE DEF v, p, step, next
  <2> QED
    BY <2>1, <2>3
<1>13. CASE UnmountDevice(r)
  <2>1. next = "markDeviceUnmounted"
    BY <1>1, <1>13, GotoStep DEF UnmountDevice
  <2> QED
    BY <1>13, <2>1 DEF UnmountDevice
<1>14. CASE MarkDeviceUnmounted(r)
  <2>1. Goto(r, "succeeded") \/ Goto(r, "failed")
    BY <1>14 DEF MarkDeviceUnmounted
  <2>2. next \in {"succeeded", "failed"}
    BY <1>1, <2>1, GotoStep
  <2>3. /\ UNCHANGED <<deviceAttached, deviceMounts, podMounts>>
        /\ UNCHANGED aswVars \/ asw!MarkDeviceAsUnmounted(v)
    BY <1>14 DEF MarkDeviceUnmounted
  <2> HIDE DEF v, p, step, next
  <2> QED
    BY <2>2, <2>3 DEF asw!MarkDeviceAsUnmounted
<1>15. CASE Detach(r)
  <2>1. next = "markDetached"
    BY <1>1, <1>15, GotoStep DEF Detach
  <2> QED
    BY <1>15, <2>1 DEF Detach
<1>16. CASE MarkDetached(r)
  <2>1. next = "succeeded"
    BY <1>1, <1>16, GotoStep DEF MarkDetached
  <2> QED
    BY <1>16, <2>1 DEF MarkDetached, asw!MarkVolumeAsDetached, asw!vars
<1>17. CASE CallFails(r)
  <2>1. next = "failed"
    BY <1>1, <1>17, GotoStep DEF CallFails
  <2> QED
    BY <1>17, <2>1 DEF CallFails
<1>18. CASE DeviceStillOpen(r)
  <2>1. next = "failed"
    BY <1>1, <1>18, GotoStep DEF DeviceStillOpen
  <2> QED
    BY <1>18, <2>1 DEF DeviceStillOpen
<1>19. CASE Complete(r)
  <2>1. routines'[r] = Idle
    BY <1>19 DEF Complete, OpTypes
  <2> QED
    BY <1>19, <2>1 DEF Complete
<1> QED
  BY <1>3, <1>4, <1>5, <1>6, <1>7, <1>8, <1>9, <1>10, <1>11, <1>12, <1>13, <1>14,
     <1>15, <1>16, <1>17, <1>18, <1>19 DEF AnyStep, RoutineStep

(***************************************************************************)
(* Goroutines: only the mounts of a pod that is gone are taken away.       *)
(***************************************************************************)
LEMMA RoutineKeeps ==
    ASSUME VMTypes, KeepInv, NEW r \in Routines, AnyStep(r),
           UNCHANGED <<podsToMount, phase, podManager, running, startedLate, waiter,
                       populator, reconciler>>
    PROVE  KeepInv'
<1> DEFINE v == routines[r].vol
           p == routines[r].pod
           step == routines[r].step
<1>1. StepEffect(r)
  BY AnyEffect DEF VMTypes
<1>2. /\ HostEffect(r, v, p, step) /\ AswEffect(r, v, p, step)
      /\ routines'[r] # Idle =>
           /\ routines'[r].kind = routines[r].kind
           /\ routines'[r].vol = v /\ routines'[r].pod = p
           /\ NextStep(r, v, p, step, routines'[r].step)
      /\ \A s \in Routines \ {r} : routines'[s] = routines[s]
  BY <1>1 DEF StepEffect, Others
<1>3. /\ v \in Volumes /\ routines[r].kind \in Kinds /\ routines[r] # Idle
      /\ routines[r].kind \notin {"unmountDevice", "detach"} => p \in PodsOf(v)
      /\ step \in {"setUp", "markMounted"} => routines[r].kind = "mount"
      /\ step = "tearDown" => routines[r].kind = "unmount"
  <2>1. routines[r] # Idle
    BY <1>1 DEF StepEffect
  <2>2. At(r, step)
    BY <2>1 DEF At
  <2> QED
    BY <2>1, <2>2, TaskKind DEF VMTypes
<1>4. /\ routines[r].kind = "mount" => Kept(v, p) /\ phase[p] # "unscheduled"
      /\ step = "tearDown" => Gone(p)
      /\ step = "markMounted" => Held(v, p)
  BY <1>3 DEF KeepInv, KeptInv, RoutinesKept, ScheduledInv, HeldInv, MountKinds
<1> HIDE DEF v, p, step
<1>5. \A q : /\ Gone(q) <=> Gone(q)'
             /\ Known(q) <=> Known(q)'
             /\ \A w : Kept(w, q) <=> Kept(w, q)'
  BY DEF Gone, Known, Kept, OnTime
<1>6. \A q, w : Held(w, q) => Held(w, q)'
  <2>1. ASSUME NEW q, NEW w, <<w, q>> \in podMounts, ~Gone(q)
        PROVE  <<w, q>> \in podMounts'
    <3>1. CASE UNCHANGED podMounts \/ podMounts' = podMounts \cup {<<v, p>>}
      BY <2>1, <3>1
    <3>2. CASE step = "tearDown" /\ podMounts' = podMounts \ {<<v, p>>}
      BY <1>4, <2>1, <3>2
    <3> QED
      BY <1>2, <3>1, <3>2 DEF HostEffect
  <2> QED
    BY <1>5, <2>1 DEF Held
<1>7. PodsKept /\ PlacesKept
  BY <1>5, <1>6 DEF PodsKept, PlacesKept
<1>8. ScheduledInv'
  <2>1. \A m \in podMounts' : phase'[m[2]] # "unscheduled"
    BY <1>2, <1>3, <1>4 DEF KeepInv, ScheduledInv, HostEffect
  <2>2. ASSUME NEW s \in Routines, routines'[s] # Idle,
               routines'[s].kind \in {"verify", "attach", "mount"}
        PROVE  phase'[routines'[s].pod] # "unscheduled"
    <3>1. CASE s = r
      BY <1>2, <1>3, <2>2, <3>1 DEF KeepInv, ScheduledInv, p
    <3>2. CASE s # r
      BY <1>2, <2>2, <3>2 DEF KeepInv, ScheduledInv
    <3> QED
      BY <3>1, <3>2
  <2> QED
    BY <2>1, <2>2 DEF KeepInv, ScheduledInv
<1>9. ContainersInv' /\ RunningPodKeepsVolumes'
  <2>1. ASSUME NEW q \in OnTime, NEW w, <<w, q>> \in podMounts
        PROVE  <<w, q>> \in podMounts'
    <3>1. Held(w, q)' /\ ~Gone(q)'
      BY <1>5, <1>6, <2>1 DEF Held, Gone, OnTime
    <3> QED
      BY <3>1 DEF Held
  <2>2. RunningPodKeepsVolumes'
    BY <2>1 DEF KeepInv, RunningPodKeepsVolumes, OnTime
  <2>3. ContainersInv'
    BY <1>6 DEF KeepInv, ContainersInv, OnTime
  <2> QED
    BY <2>2, <2>3
<1>10. ListingInv'
  BY DEF KeepInv, ListingInv, OnTime
<1>11. KnownInv'
  BY <1>7, TransferKnown DEF KeepInv, KnownInv
<1>12. ASSUME NEW w \in Volumes, NEW q \in mountedPods'[w]
       PROVE  q \in mountedPods[w] \/ (w = v /\ q = p /\ step = "markMounted")
  BY <1>2, <1>3, <1>12 DEF AswEffect, VMTypes, AswTypes, asw!TypeOK
<1>13. KeptInv'
  <2>1. WorkKept'
    BY <1>7, TransferKept DEF KeepInv, KeptInv
  <2>2. MountsKept'
    BY <1>3, <1>4, <1>5, <1>12 DEF KeepInv, KeptInv, MountsKept
  <2>3. RoutinesKept'
    <3>1. ASSUME NEW s \in Routines, routines'[s] # Idle
          PROVE  /\ routines'[s].kind \in MountKinds => Kept(routines[s].vol, routines[s].pod)'
                 /\ routines'[s].kind = "unmount" => Gone(routines[s].pod)'
      <4>1. /\ routines[s] # Idle /\ routines'[s].kind = routines[s].kind
            /\ routines'[s].vol = routines[s].vol /\ routines'[s].pod = routines[s].pod
        BY <1>2, <1>3, <3>1 DEF v, p
      <4>2. /\ routines[s].kind \in MountKinds => Kept(routines[s].vol, routines[s].pod)
            /\ routines[s].kind = "unmount" => Gone(routines[s].pod)
        BY <4>1 DEF KeepInv, KeptInv, RoutinesKept
      <4> QED
        BY <4>1, <4>2 DEF Kept, Gone, OnTime
    <3> QED
      BY <3>1 DEF RoutinesKept
  <2> QED
    BY <2>1, <2>2, <2>3 DEF KeptInv
<1>14. HeldInv'
  <2>1. \A w \in Volumes : \A q \in mountedPods'[w] : Held(w, q)'
    BY <1>3, <1>4, <1>6, <1>12 DEF KeepInv, HeldInv
  <2>2. ASSUME NEW s \in Routines, routines'[s] # Idle,
               routines'[s].step = "markMounted"
        PROVE  Held(routines[s].vol, routines[s].pod)'
    <3>1. CASE s = r
      <4>1. /\ podMounts' = podMounts \cup {<<v, p>>}
            /\ routines'[s].vol = v /\ routines'[s].pod = p
        BY <1>2, <2>2, <3>1 DEF NextStep
      <4> QED
        BY <4>1 DEF Held
    <3>2. CASE s # r
      <4>1. routines'[s] = routines[s]
        BY <1>2, <3>2
      <4>2. Held(routines[s].vol, routines[s].pod)
        BY <2>2, <4>1 DEF KeepInv, HeldInv
      <4>3. PICK w, q : w = routines[s].vol /\ q = routines[s].pod
        OBVIOUS
      <4>4. Held(w, q)'
        BY <1>6, <4>2, <4>3
      <4> QED
        BY <4>1, <4>3, <4>4 DEF Held, Gone, OnTime
    <3> QED
      BY <3>1, <3>2
  <2>3. /\ reconciler'.pc \in SyncSteps \ {"sync"} =>
             Held(reconciler.item.vol, reconciler.item.pod)'
        /\ \A w \in Volumes : reconciler'.updates[w] # NoPod =>
             Held(w, reconciler.updates[w])'
    <3>1. ASSUME reconciler.pc \in SyncSteps \ {"sync"}
          PROVE  Held(reconciler.item.vol, reconciler.item.pod)'
      <4>1. PICK w, q : w = reconciler.item.vol /\ q = reconciler.item.pod
        OBVIOUS
      <4>2. Held(w, q)'
        BY <1>6, <3>1, <4>1 DEF KeepInv, HeldInv
      <4> QED
        BY <4>1, <4>2 DEF Held, Gone, OnTime
    <3>2. ASSUME NEW w \in Volumes, reconciler.updates[w] # NoPod
          PROVE  Held(w, reconciler.updates[w])'
      <4>1. PICK q : q = reconciler.updates[w]
        OBVIOUS
      <4>2. Held(w, q)'
        BY <1>6, <3>2, <4>1 DEF KeepInv, HeldInv
      <4> QED
        BY <4>1, <4>2 DEF Held, Gone, OnTime
    <3> QED
      BY <3>1, <3>2
  <2> QED
    BY <2>1, <2>2, <2>3 DEF HeldInv
<1> QED
  BY <1>8, <1>9, <1>10, <1>11, <1>13, <1>14 DEF KeepInv

(***************************************************************************)
(* A kubelet that starts knows nothing that could be wrong.                *)
(***************************************************************************)
LEMMA RestartKeeps ==
    ASSUME VMTypes, KeepInv, Restart
    PROVE  KeepInv'
<1>1. UNCHANGED <<podMounts, phase, running, startedLate>>
  BY DEF Restart, hostVars
<1>2. /\ \A s \in Routines : routines'[s] = Idle
      /\ \A v \in Volumes : mountedPods'[v] = {} /\ podsToMount'[v] = {}
      /\ podManager' = {} /\ \A p \in Pods : waiter'[p] = "idle"
      /\ populator' = IdlePopulator /\ reconciler' = IdleReconciler
  BY DEF Restart
<1>3. ScheduledInv' /\ ContainersInv' /\ RunningPodKeepsVolumes'
  BY <1>1, <1>2 DEF KeepInv, ScheduledInv, ContainersInv, RunningPodKeepsVolumes,
     OnTime
<1>4. ListingInv'
  BY <1>2, IdlePopulatorType DEF ListingInv
<1> USE IdleReconcilerParts, NoUpdatesType, IdlePopulatorType
        DEF SyncSteps, CheckSteps, UpdateSteps
<1>5. KnownInv'
  BY <1>2 DEF KnownInv, DesiredKnown, PopulatorKnown, ReconcilerKnown
<1>6. KeptInv'
  BY <1>2 DEF KeptInv, WorkKept, MountsKept, RoutinesKept
<1>7. HeldInv'
  BY <1>2 DEF HeldInv
<1> QED
  BY <1>3, <1>4, <1>5, <1>6, <1>7 DEF KeepInv

LEMMA InitKeeps ==
    ASSUME Init
    PROVE  KeepInv
<1>1. podMounts = {} /\ running = {} /\ Fresh
  BY InitTypes DEF Init, ExecutorInit
<1>2. /\ \A s \in Routines : routines[s] = Idle
      /\ \A v \in Volumes : mountedPods[v] = {} /\ podsToMount[v] = {}
      /\ podManager = {} /\ \A p \in Pods : waiter[p] = "idle"
      /\ populator = IdlePopulator /\ reconciler = IdleReconciler
  BY <1>1 DEF Fresh
<1>3. ScheduledInv /\ ContainersInv /\ RunningPodKeepsVolumes
  BY <1>1, <1>2 DEF ScheduledInv, ContainersInv, RunningPodKeepsVolumes, OnTime
<1>4. ListingInv
  BY <1>2, IdlePopulatorType DEF ListingInv
<1> USE IdleReconcilerParts, NoUpdatesType, IdlePopulatorType
        DEF SyncSteps, CheckSteps, UpdateSteps
<1>5. KnownInv
  BY <1>2 DEF KnownInv, DesiredKnown, PopulatorKnown, ReconcilerKnown
<1>6. KeptInv
  BY <1>2 DEF KeptInv, WorkKept, MountsKept, RoutinesKept
<1>7. HeldInv
  BY <1>2 DEF HeldInv
<1> QED
  BY <1>3, <1>4, <1>5, <1>6, <1>7 DEF KeepInv

LEMMA KeepStep ==
    ASSUME VMTypes, KeepInv, OneListing, [Next]_vars
    PROVE  KeepInv'
<1>1. ASSUME NEW r \in Routines, Executor(AnyStep(r))
      PROVE  KeepInv'
  <2>1. /\ AnyStep(r)
        /\ UNCHANGED <<podsToMount, phase, podManager, running, startedLate, waiter,
                       populator, reconciler>>
    BY <1>1 DEF Executor, dswVars, podVars, managerVars
  <2> QED
    BY <2>1, RoutineKeeps
<1>2. CASE Executor(Tick)
  <2>1. UNCHANGED keepVars
    BY <1>2 DEF Executor, Tick, keepVars, hostVars, aswVars, dswVars, podVars,
       managerVars
  <2> QED
    BY <2>1, QuietKeeps
<1>3. CASE StatusStep \/ PatchStatusFails
  <2>1. UNCHANGED keepVars
    BY <1>3 DEF StatusStep, UpdateStatus, GetGloballyMounted, PatchStatus,
       PatchStatusFails, MarkVolumesAsReportedInUse, statusUnchanged,
       dsw!MarkVolumesReportedInUse, keepVars, opVars, hostVars, aswVars,
       dswVars, podVars, managerVars
  <2> QED
    BY <2>1, QuietKeeps
<1>4. ASSUME NEW v \in Volumes, ControllerStep(v)
      PROVE  KeepInv'
  <2>1. UNCHANGED keepVars
    BY <1>4 DEF ControllerStep, ControllerAttach, ProcessVolumesInUse,
       ControllerUnreport, VerifySafeToDetach, ControllerDetach,
       controllerUnchanged, keepVars, opVars, aswVars, dswVars, podVars, managerVars
  <2> QED
    BY <2>1, QuietKeeps
<1>5. CASE UNCHANGED vars
  <2>1. UNCHANGED keepVars
    BY <1>5 DEF vars, keepVars, execVars, hostVars, aswVars, dswVars, podVars,
       managerVars
  <2> QED
    BY <2>1, QuietKeeps
<1> QED
  BY <1>1, <1>2, <1>3, <1>4, <1>5, NextCases, PodStepKeeps, PopulatorKeeps,
     ReconcilerKeeps, RestartKeeps

(***************************************************************************)
(* A pod whose containers run has all its volumes mounted, unless they     *)
(* were started by a syncPod that outlived the pod: no restart of the      *)
(* kubelet, forced deletion, failed call or stale reading of a cache makes *)
(* the volume manager take a mount from under them.                        *)
(***************************************************************************)
THEOREM RunningPodIsSafe ==
    ASSUME OneListing
    PROVE  Spec => []RunningPodKeepsVolumes
<1>1. Init => VMTypes /\ KeepInv
  BY InitTypes, InitKeeps
<1>2. VMTypes /\ KeepInv /\ [Next]_vars => (VMTypes /\ KeepInv)'
  BY TypesStep, KeepStep
<1>3. VMTypes /\ KeepInv => RunningPodKeepsVolumes
  BY DEF KeepInv
<1> QED
  BY <1>1, <1>2, <1>3, PTL DEF Spec

-----------------------------------------------------------------------------
(***************************************************************************)
(* Operations that change the same mount exclude each other, when there    *)
(* are no failures or no shared volumes.  With both, the entries that two  *)
(* pods leave for their back-off stand in the way of the search of Run:    *)
(* it takes over the first of them and does not look at the second, which  *)
(* may be pending.                                                         *)
(***************************************************************************)
RunLeaves(next, ops, v, name) ==
    /\ ListInv(next)
    /\ PendingEntry(next, v, name)
    /\ \A w, q : PendingEntry(ops, w, q) => PendingEntry(next, w, q)
    /\ \A q : PendingEntry(ops, v, q) => ~Excludes(q, name)

LEMMA RunExcludes ==
    ASSUME NEW ops, ListInv(ops), NEW v \in Volumes, NEW name \in PodNames,
           name # NoPod => name \in PodsOf(v), RunAccepts(ops, v, name),
           NEW next, next = AfterRun(ops, v, name)
    PROVE  RunLeaves(next, ops, v, name)
<1>1. /\ ops \in Seq(Operation) /\ v # NoVolume /\ v \in VolumeNames
      /\ Len(ops) \in Nat /\ DOMAIN ops = 1 .. Len(ops)
  BY NamesAssumption, LenProperties DEF ListInv, VolumeNames
<1>2. CASE isOperationExists(ops, v, name)
  <2> DEFINE k == previousOpIndex(ops, v, name)
             new == AfterRun(ops, v, name)
  <2>1. /\ k \in 1 .. Len(ops) /\ ops[k].volumeName = v
        /\ Excludes(ops[k].podName, name) /\ ~ops[k].operationPending
    BY <1>1, <1>2, PreviousOp DEF RunAccepts
  <2>2. /\ new \in Seq(Operation) /\ Len(new) = Len(ops)
        /\ new[k].volumeName = v /\ new[k].podName = name /\ new[k].operationPending
        /\ \A i \in 1 .. Len(ops) : i # k => new[i] = ops[i]
    BY <1>1, <1>2, RunTakesOver
  <2> HIDE DEF k, new
  <2>3. next = new /\ DOMAIN next = 1 .. Len(ops)
    BY <1>1, <2>2, LenProperties DEF new
  <2>4. ASSUME NEW j \in 1 .. Len(ops), j # k
        PROVE  ops[j].volumeName # v
    <3> SUFFICES ASSUME ops[j].volumeName = v
                 PROVE  FALSE
      OBVIOUS
    <3>1. ~Excludes(ops[j].podName, ops[k].podName)
      BY <1>1, <2>1, <2>4 DEF ListInv
    <3>2. OnePod(v) /\ ops[j].podName \in PodsOf(v) /\ ops[k].podName \in PodsOf(v)
      BY <1>1, <2>1, <2>4, <3>1 DEF ListInv, Excludes
    <3> QED
      BY <3>1, <3>2 DEF OnePod, Excludes
  <2>5. ListInv(next)
    <3>1. \A i \in DOMAIN next :
            /\ next[i].volumeName \in Volumes
            /\ next[i].podName # NoPod => next[i].podName \in PodsOf(next[i].volumeName)
            /\ next[i].podName # NoPod /\ ~next[i].operationPending =>
                 OnePod(next[i].volumeName)
      BY <1>1, <2>1, <2>2, <2>3 DEF ListInv
    <3>2. \A i, j \in DOMAIN next :
            i # j /\ next[i].volumeName = next[j].volumeName =>
               ~Excludes(next[i].podName, next[j].podName)
      BY <1>1, <2>1, <2>2, <2>3, <2>4 DEF ListInv
    <3> QED
      BY <2>2, <2>3, <3>1, <3>2 DEF ListInv
  <2>6. PendingEntry(next, v, name)
    BY <2>1, <2>2, <2>3 DEF PendingEntry
  <2>7. ASSUME NEW w, NEW q, PendingEntry(ops, w, q)
        PROVE  PendingEntry(next, w, q) /\ w # v
    <3>1. PICK i \in DOMAIN ops : /\ ops[i].operationPending
                                  /\ ops[i].volumeName = w /\ ops[i].podName = q
      BY <2>7 DEF PendingEntry
    <3>2. i # k
      BY <2>1, <3>1
    <3> QED
      BY <1>1, <2>2, <2>3, <2>4, <3>1, <3>2 DEF PendingEntry
  <2> QED
    BY <2>5, <2>6, <2>7 DEF RunLeaves
<1>3. CASE ~isOperationExists(ops, v, name)
  <2> DEFINE new == AfterRun(ops, v, name)
             n == Len(ops) + 1
  <2>1. /\ new \in Seq(Operation) /\ Len(new) = n
        /\ new[n] = NewOperation(v, name)
        /\ \A i \in 1 .. Len(ops) : new[i] = ops[i]
    BY <1>1, <1>3, RunAppends
  <2>2. /\ NewOperation(v, name).volumeName = v
        /\ NewOperation(v, name).podName = name
    BY DEF NewOperation
  <2>3. NewOperation(v, name).operationPending
    BY Zenon DEF NewOperation
  <2> HIDE DEF new
  <2>4. /\ next = new /\ DOMAIN next = 1 .. n /\ n \in Nat
        /\ \A i \in 1 .. n : i # n => i \in 1 .. Len(ops)
    BY <1>1, <2>1, LenProperties DEF new
  <2> HIDE DEF n
  <2>5. next[n].volumeName = v /\ next[n].podName = name /\ next[n].operationPending
    BY <2>1, <2>2, <2>3, <2>4
  <2>6. \A j \in DOMAIN ops : ops[j].volumeName = v => ~Excludes(ops[j].podName, name)
    BY <1>1, <1>3 DEF isOperationExists, Matches
  <2>7. ListInv(next)
    <3>1. \A i \in DOMAIN next :
            /\ next[i].volumeName \in Volumes
            /\ next[i].podName # NoPod => next[i].podName \in PodsOf(next[i].volumeName)
            /\ next[i].podName # NoPod /\ ~next[i].operationPending =>
                 OnePod(next[i].volumeName)
      BY <1>1, <2>1, <2>4, <2>5 DEF ListInv
    <3>2. \A i, j \in DOMAIN next :
            i # j /\ next[i].volumeName = next[j].volumeName =>
               ~Excludes(next[i].podName, next[j].podName)
      BY <1>1, <2>1, <2>4, <2>5, <2>6 DEF ListInv, Excludes
    <3> QED
      BY <2>1, <2>4, <3>1, <3>2 DEF ListInv
  <2>8. PendingEntry(next, v, name)
    <3>1. n \in DOMAIN next
      BY <1>1, <2>4 DEF n
    <3> QED
      BY <2>5, <3>1 DEF PendingEntry
  <2>9. \A w, q : PendingEntry(ops, w, q) => PendingEntry(next, w, q)
    <3>1. \A i \in DOMAIN ops : i \in DOMAIN next /\ next[i] = ops[i]
      BY <1>1, <2>1, <2>4 DEF n
    <3> QED
      BY <3>1 DEF PendingEntry
  <2>10. \A q : PendingEntry(ops, v, q) => ~Excludes(q, name)
    BY <2>6 DEF PendingEntry
  <2> QED
    BY <2>7, <2>8, <2>9, <2>10 DEF RunLeaves
<1> QED
  BY <1>2, <1>3

\* operationComplete takes its own entry away, or leaves it for the back-off.
LEMMA CompleteLeaves ==
    ASSUME NEW ops, ListInv(ops), NEW v \in Volumes, NEW name, NEW failed \in BOOLEAN,
           PendingEntry(ops, v, name), failed /\ name # NoPod => OnePod(v),
           NEW next, next = operationComplete(ops, v, name, failed)
    PROVE  /\ ListInv(next)
           /\ \A w, q : PendingEntry(ops, w, q) /\ <<w, q>> # <<v, name>> =>
                PendingEntry(next, w, q)
<1> DEFINE k == getOperation(ops, v, name)
<1>1. ops \in Seq(Operation)
  BY DEF ListInv
<1>2. EntriesNamed(ops, v, name) # {}
  BY DEF PendingEntry, EntriesNamed
<1>3. /\ k \in 1 .. Len(ops) /\ ops[k].volumeName = v /\ ops[k].podName = name
      /\ DOMAIN ops = 1 .. Len(ops)
  BY <1>1, <1>2, GetOperation, LenProperties
<1>4. next \in Seq(Operation)
  BY <1>1, CompleteType
<1>5. PICK from \in [DOMAIN next -> DOMAIN ops] :
         /\ ComesFrom(from, next, ops, k)
         /\ \A i \in DOMAIN next : from[i] = k => failed
  BY <1>1, <1>2, CompleteMoves
<1> HIDE DEF k
<1>6. ASSUME NEW i \in DOMAIN next, next[i].podName # NoPod, ~next[i].operationPending
      PROVE  OnePod(next[i].volumeName)
  <2>1. from[i] \in DOMAIN ops /\ next[i].volumeName = ops[from[i]].volumeName
        /\ next[i].podName = ops[from[i]].podName
    BY <1>5 DEF ComesFrom
  <2>2. CASE from[i] = k
    BY <1>3, <1>5, <1>6, <2>1, <2>2
  <2>3. CASE from[i] # k
    <3>1. PICK h \in DOMAIN next :
             /\ from[h] = from[i]
             /\ next[h].operationPending <=> ops[from[i]].operationPending
      BY <1>5, <2>1, <2>3 DEF ComesFrom
    <3>2. h = i
      BY <1>5, <3>1 DEF ComesFrom
    <3>3. ~ops[from[i]].operationPending
      BY <1>6, <3>1, <3>2
    <3> QED
      BY <1>6, <2>1, <3>3 DEF ListInv
  <2> QED
    BY <2>2, <2>3
<1>7. ASSUME NEW i \in DOMAIN next
      PROVE  /\ next[i].volumeName \in Volumes
             /\ next[i].podName # NoPod => next[i].podName \in PodsOf(next[i].volumeName)
  <2>1. from[i] \in DOMAIN ops /\ next[i].volumeName = ops[from[i]].volumeName
        /\ next[i].podName = ops[from[i]].podName
    BY <1>5 DEF ComesFrom
  <2> QED
    BY <2>1 DEF ListInv
<1>8. ASSUME NEW i \in DOMAIN next, NEW j \in DOMAIN next,
             i # j, next[i].volumeName = next[j].volumeName
      PROVE  ~Excludes(next[i].podName, next[j].podName)
  <2>1. /\ from[i] \in DOMAIN ops /\ from[j] \in DOMAIN ops /\ from[i] # from[j]
        /\ next[i].volumeName = ops[from[i]].volumeName
        /\ next[j].volumeName = ops[from[j]].volumeName
        /\ next[i].podName = ops[from[i]].podName
        /\ next[j].podName = ops[from[j]].podName
    BY <1>5, <1>8 DEF ComesFrom
  <2> QED
    BY <1>8, <2>1 DEF ListInv
<1>9. ASSUME NEW w, NEW q, PendingEntry(ops, w, q), <<w, q>> # <<v, name>>
      PROVE  PendingEntry(next, w, q)
  <2>1. PICK j \in DOMAIN ops : /\ ops[j].operationPending
                                /\ ops[j].volumeName = w /\ ops[j].podName = q
    BY <1>9 DEF PendingEntry
  <2>2. j # k
    BY <1>3, <1>9, <2>1
  <2>3. PICK i \in DOMAIN next :
           /\ from[i] = j
           /\ next[i].operationPending <=> ops[j].operationPending
    BY <1>5, <2>2 DEF ComesFrom
  <2>4. next[i].volumeName = w /\ next[i].podName = q
    BY <1>5, <2>1, <2>3 DEF ComesFrom
  <2> QED
    BY <2>1, <2>3, <2>4 DEF PendingEntry
<1> QED
  BY <1>4, <1>6, <1>7, <1>8, <1>9 DEF ListInv

\* The name an operation is registered under, if it is a pod, is a pod of
\* the volume.
LEMMA RegisteredPod ==
    ASSUME NEW kind, NEW v, NEW p, Startable(kind, v, p)
    PROVE  /\ OperationPod(kind, v, p) \in PodNames
           /\ OperationPod(kind, v, p) # NoPod =>
                /\ OperationPod(kind, v, p) = p /\ p \in PodsOf(v)
                /\ kind \in {"mount", "unmount"}
                /\ kind = "mount" => v \notin AttachableVolumes
  BY DEF Startable, OperationPod, PodNames

LEMMA TaskStartable ==
    ASSUME NEW t \in Task
    PROVE  Startable(t.kind, t.vol, t.pod)
<1>1. t \in Tasks /\ (t.kind \notin {"unmountDevice", "detach"} => t.pod \in PodsOf(t.vol))
  BY DEF Task
<1> QED
  BY <1>1 DEF Tasks, Startable

LEMMA NotAttachableOnePod ==
    ASSUME NEW v \in Volumes, v \notin AttachableVolumes
    PROVE  OnePod(v)
  BY PodVolumesAssumption DEF OnePod, PodsOf

LEMMA StartExcludes ==
    ASSUME OpTypes, ExclusionInv, NEW kind, NEW v, NEW p,
           Startable(kind, v, p), Started(kind, v, p)
    PROVE  ExclusionInv'
<1>1. CASE UNCHANGED opVars
  BY <1>1 DEF ExclusionInv, opVars
<1>2. CASE ~UNCHANGED opVars
  <2> DEFINE name == OperationPod(kind, v, p)
  <2>1. /\ RunAccepts(operations, v, name)
        /\ operations' = AfterRun(operations, v, name)
        /\ \E r \in Routines : Starts(r, kind, v, p)
    BY <1>2 DEF Started
  <2>2. PICK r \in Routines : Starts(r, kind, v, p)
    BY <2>1
  <2>3. /\ routines'[r].kind = kind /\ routines'[r].vol = v /\ routines'[r].pod = p
        /\ routines'[r].step = FirstStep(kind, v) /\ routines[r] = Idle
        /\ \A s \in Routines : s # r => routines'[s] = routines[s]
    BY <2>2 DEF Starts, TaskIs, Others
  <2>4. v \in Volumes /\ name \in PodNames /\ (name # NoPod => name \in PodsOf(v))
    BY RegisteredPod DEF Startable
  <2> HIDE DEF name
  <2>5. RunLeaves(operations', operations, v, name)
    BY <2>1, <2>4, RunExcludes DEF ExclusionInv
  <2>6. ASSUME NEW s \in Routines, s # r, routines'[s] # Idle
        PROVE  /\ PendingEntry(operations, routines[s].vol, NameOf(routines[s]))
               /\ PendingEntry(operations', routines[s].vol, NameOf(routines[s]))
               /\ routines[s].kind = "unmount" /\ routines[s].step = "failed" =>
                    OnePod(routines[s].vol)
               /\ routines'[s].vol = v => ~Excludes(NameOf(routines[s]), name)
    <3>1. routines'[s] = routines[s]
      BY <2>3, <2>6
    <3>2. /\ PendingEntry(operations, routines[s].vol, NameOf(routines[s]))
          /\ routines[s].kind = "unmount" /\ routines[s].step = "failed" =>
                    OnePod(routines[s].vol)
      BY <2>6, <3>1 DEF ExclusionInv
    <3> QED
      BY <2>5, <3>1, <3>2 DEF RunLeaves
  <2>7. NameOf(routines'[r]) = name /\ routines'[r].step # "failed"
    BY <2>3 DEF name, NameOf, FirstStep, Startable, Kinds
  <2>8. \A s \in Routines : routines'[s] # Idle =>
          /\ PendingEntry(operations', routines'[s].vol, NameOf(routines'[s]))
          /\ routines'[s].kind = "unmount" /\ routines'[s].step = "failed" =>
               OnePod(routines'[s].vol)
    BY <2>3, <2>5, <2>6, <2>7 DEF RunLeaves
  <2>9. ASSUME NEW s \in Routines, NEW u \in Routines, s # u,
               routines'[s] # Idle, routines'[u] # Idle,
               routines'[s].vol = routines'[u].vol
        PROVE  ~Excludes(NameOf(routines'[s]), NameOf(routines'[u]))
    <3>1. CASE s = r
      BY <2>3, <2>6, <2>7, <2>9, <3>1 DEF Excludes
    <3>2. CASE u = r
      BY <2>3, <2>6, <2>7, <2>9, <3>2 DEF Excludes
    <3>3. CASE s # r /\ u # r
      BY <2>3, <2>9, <3>3 DEF ExclusionInv
    <3> QED
      BY <3>1, <3>2, <3>3
  <2>10. ListInv(operations')
    BY <2>5 DEF RunLeaves
  <2> QED
    BY <2>8, <2>9, <2>10 DEF ExclusionInv, ListInv, PendingEntry
<1> QED
  BY <1>1, <1>2

\* A goroutine that unmounts fails only where a failure is alone: the volume
\* has one pod, or calls do not fail.
LEMMA FailedUnmount ==
    ASSUME OpTypes, HostTypes, FailuresOrSharing, NEW r \in Routines, AnyStep(r),
           routines'[r] # Idle, routines'[r].kind = "unmount",
           routines'[r].step = "failed"
    PROVE  OnePod(routines[r].vol)
<1>1. /\ routines[r] # Idle /\ routines[r].kind = "unmount"
      /\ routines[r].vol \in Volumes
  <2>1. \E step : Moves(r, step)
    BY RoutineEffect DEF Ends
  <2> QED
    BY <2>1, TaskStartable DEF Moves, TaskIs, Startable
<1>2. CASE CallFails(r) \/ DeviceStillOpen(r)
  <2>1. MaxFailures # 0
    BY <1>2, MaxFailuresAssumption DEF CallFails, DeviceStillOpen, HostTypes
  <2> QED
    BY <1>1, <2>1 DEF FailuresOrSharing
<1>3. CASE TearDown(r)
  <2>1. routines[r].vol \notin AttachableVolumes
    <3> SUFFICES ASSUME routines[r].vol \in AttachableVolumes
                 PROVE  FALSE
      OBVIOUS
    <3>1. Goto(r, "markUnmounted")
      BY <1>3 DEF TearDown
    <3> QED
      BY <1>1, <3>1, GotoStep
  <2> QED
    BY <1>1, <2>1, NotAttachableOnePod
<1>4. CASE MarkAttached(r) \/ MarkUnmounted(r) \/ MarkDetached(r) 
  <2>1. Goto(r, "succeeded")
    BY <1>4 DEF MarkAttached, MarkUnmounted, MarkDetached
  <2> QED
    BY <1>1, <2>1, GotoStep
<1>5. CASE Complete(r)
  BY <1>5 DEF Complete, OpTypes
<1>6. CASE \/ Verify(r) \/ Attach(r) \/ MountDevice(r) \/ MarkDeviceMounted(r)
           \/ SetUp(r) \/ MarkMounted(r) \/ CheckRefs(r) \/ UnmountDevice(r)
           \/ MarkDeviceUnmounted(r) \/ Detach(r)
  <2>1. \E step \in {"verify", "attach", "mountDevice", "markDeviceMounted", "setUp",
                     "markMounted", "checkRefs", "unmountDevice",
                     "markDeviceUnmounted", "detach"} : At(r, step)
    BY <1>6 DEF Verify, Attach, MountDevice, MarkDeviceMounted, SetUp, MarkMounted,
       CheckRefs, UnmountDevice, MarkDeviceUnmounted, Detach
  <2> QED
    BY <1>1, <2>1, TaskKind
<1> QED
  BY <1>2, <1>3, <1>4, <1>5, <1>6 DEF AnyStep, RoutineStep

LEMMA RoutineExcludes ==
    ASSUME OpTypes, HostTypes, ExclusionInv, FailuresOrSharing,
           NEW r \in Routines, AnyStep(r)
    PROVE  ExclusionInv'
<1> DEFINE v == routines[r].vol
           name == NameOf(routines[r])
<1>1. ASSUME NEW step, Moves(r, step)
      PROVE  ExclusionInv'
  <2>1. /\ UNCHANGED operations
        /\ \A s \in Routines : s # r => routines'[s] = routines[s]
        /\ routines[r] # Idle /\ routines'[r].kind = routines[r].kind
        /\ routines'[r].vol = routines[r].vol /\ routines'[r].pod = routines[r].pod
    BY <1>1 DEF Moves, Others, TaskIs
  <2>2. NameOf(routines'[r]) = NameOf(routines[r])
    BY <2>1 DEF NameOf
  <2>3. \A s \in Routines : routines'[s] # Idle =>
          /\ routines[s] # Idle /\ routines'[s].vol = routines[s].vol
          /\ NameOf(routines'[s]) = NameOf(routines[s])
    BY <2>1, <2>2
  <2>4. \A s \in Routines : routines'[s] # Idle =>
          /\ PendingEntry(operations', routines'[s].vol, NameOf(routines'[s]))
          /\ routines'[s].kind = "unmount" /\ routines'[s].step = "failed" =>
               OnePod(routines'[s].vol)
    BY <2>1, <2>3, FailedUnmount DEF ExclusionInv
  <2>5. \A s, u \in Routines :
          /\ s # u /\ routines'[s] # Idle /\ routines'[u] # Idle
          /\ routines'[s].vol = routines'[u].vol
          => ~Excludes(NameOf(routines'[s]), NameOf(routines'[u]))
    BY <2>3 DEF ExclusionInv
  <2>6. ListInv(operations')
    BY <2>1 DEF ExclusionInv
  <2> QED
    BY <2>4, <2>5, <2>6 DEF ExclusionInv, ListInv, PendingEntry
<1>2. CASE Ends(r)
  <2> DEFINE failed == routines[r].step = "failed"
  <2>1. /\ operations' = operationComplete(operations, v, name, failed)
        /\ failed \in BOOLEAN /\ routines[r] \in Task /\ routines[r] # Idle
        /\ routines'[r] = Idle
        /\ \A s \in Routines : s # r => routines'[s] = routines[s]
    BY <1>2 DEF Ends, Others
  <2>2. /\ v \in Volumes /\ PendingEntry(operations, v, name)
        /\ ListInv(operations)
    BY <2>1, TaskStartable DEF ExclusionInv, Startable
  <2>3. failed /\ name # NoPod => OnePod(v)
    <3>1. Startable(routines[r].kind, v, routines[r].pod)
      BY <2>1, TaskStartable
    <3>2. ASSUME failed, name # NoPod
          PROVE  OnePod(v)
      <4>1. \/ routines[r].kind = "unmount"
            \/ v \notin AttachableVolumes
        BY <3>1, <3>2, RegisteredPod DEF NameOf
      <4>2. routines[r].kind = "unmount" => OnePod(v)
        BY <2>1, <3>2 DEF ExclusionInv
      <4> QED
        BY <2>2, <4>1, <4>2, NotAttachableOnePod
    <3> QED
      BY <3>2
  <2> HIDE DEF failed
  <2>4. /\ ListInv(operations')
        /\ \A w, q : PendingEntry(operations, w, q) /\ <<w, q>> # <<v, name>> =>
             PendingEntry(operations', w, q)
    BY <2>1, <2>2, <2>3, CompleteLeaves
  <2>5. ASSUME NEW s \in Routines, routines'[s] # Idle
        PROVE  /\ s # r /\ routines'[s] = routines[s] /\ routines[s] # Idle
               /\ PendingEntry(operations', routines[s].vol, NameOf(routines[s]))
    <3>1. s # r /\ routines'[s] = routines[s] /\ routines[s] # Idle
      BY <2>1, <2>5
    <3>2. PendingEntry(operations, routines[s].vol, NameOf(routines[s]))
      BY <3>1 DEF ExclusionInv
    <3>3. routines[s].vol = v => ~Excludes(NameOf(routines[s]), name)
      BY <2>1, <3>1 DEF ExclusionInv
    <3>4. routines[s].vol = v => NameOf(routines[s]) # name
      BY <3>3 DEF Excludes
    <3> HIDE DEF v, name
    <3> QED
      BY <2>4, <3>1, <3>2, <3>4
  <2>6. \A s \in Routines : routines'[s] # Idle =>
          /\ PendingEntry(operations', routines'[s].vol, NameOf(routines'[s]))
          /\ routines'[s].kind = "unmount" /\ routines'[s].step = "failed" =>
               OnePod(routines'[s].vol)
    BY <2>5 DEF ExclusionInv
  <2>7. \A s, u \in Routines :
          /\ s # u /\ routines'[s] # Idle /\ routines'[u] # Idle
          /\ routines'[s].vol = routines'[u].vol
          => ~Excludes(NameOf(routines'[s]), NameOf(routines'[u]))
    BY <2>5 DEF ExclusionInv
  <2> QED
    BY <2>4, <2>6, <2>7 DEF ExclusionInv, ListInv, PendingEntry
<1> QED
  BY <1>1, <1>2, RoutineEffect

\* The other steps of goroutines and of the clock.
LEMMA QuietExcludes ==
    ASSUME ExclusionInv, UNCHANGED opVars
    PROVE  ExclusionInv'
  BY DEF ExclusionInv, opVars

LEMMA TickExcludes ==
    ASSUME OpTypes, ExclusionInv, Tick
    PROVE  ExclusionInv'
<1> DEFINE next == Later(operations)
<1>1. operations' = next /\ UNCHANGED routines /\ operations \in Seq(Operation)
  BY DEF Tick, OpTypes
<1>2. /\ next \in Seq(Operation) /\ Len(next) = Len(operations)
      /\ \A i \in 1 .. Len(operations) :
           /\ next[i].volumeName = operations[i].volumeName
           /\ next[i].podName = operations[i].podName
           /\ next[i].operationPending = operations[i].operationPending
  BY <1>1, LaterEntries
<1> HIDE DEF next
<1>3. DOMAIN next = DOMAIN operations /\ DOMAIN next = 1 .. Len(operations)
  BY <1>1, <1>2, LenProperties
<1>4. ListInv(next)
  <2>1. \A i \in DOMAIN next :
          /\ next[i].volumeName \in Volumes
          /\ next[i].podName # NoPod => next[i].podName \in PodsOf(next[i].volumeName)
          /\ next[i].podName # NoPod /\ ~next[i].operationPending =>
               OnePod(next[i].volumeName)
    BY <1>2, <1>3 DEF ExclusionInv, ListInv
  <2>2. \A i, j \in DOMAIN next :
          i # j /\ next[i].volumeName = next[j].volumeName =>
             ~Excludes(next[i].podName, next[j].podName)
    BY <1>2, <1>3 DEF ExclusionInv, ListInv
  <2> QED
    BY <1>2, <2>1, <2>2 DEF ListInv
<1>5. \A w, q : PendingEntry(operations, w, q) => PendingEntry(next, w, q)
  BY <1>2, <1>3 DEF PendingEntry
<1>6. \A s \in Routines : routines'[s] # Idle =>
        /\ PendingEntry(operations', routines'[s].vol, NameOf(routines'[s]))
        /\ routines'[s].kind = "unmount" /\ routines'[s].step = "failed" =>
             OnePod(routines'[s].vol)
  BY <1>1, <1>5 DEF ExclusionInv
<1>7. \A s, u \in Routines :
        /\ s # u /\ routines'[s] # Idle /\ routines'[u] # Idle
        /\ routines'[s].vol = routines'[u].vol
        => ~Excludes(NameOf(routines'[s]), NameOf(routines'[u]))
  BY <1>1 DEF ExclusionInv
<1> QED
  BY <1>1, <1>4, <1>6, <1>7 DEF ExclusionInv, ListInv, PendingEntry

LEMMA FreshExcludes ==
    ASSUME NEW ops, ops = << >>, NEW tasks, tasks = [r \in Routines |-> Idle]
    PROVE  ListInv(ops) /\ \A r \in Routines : tasks[r] = Idle
  BY DEF ListInv

\* What the reconciler starts, if anything.
LEMMA ReconcilerStarted ==
    ASSUME VMTypes, ReconcilerStep
    PROVE  \/ UNCHANGED opVars
           \/ \E kind, v, p : Startable(kind, v, p) /\ Started(kind, v, p)
<1>1. ASSUME NEW x \in reconciler.work, ReconcileUnmount(x)
      PROVE  \/ UNCHANGED opVars
             \/ /\ Startable("unmount", x.vol, x.pod)
                /\ Started("unmount", x.vol, x.pod)
  BY <1>1, UnmountEffect DEF Startable, Kinds, PodsOf, PodNames
<1>2. ASSUME NEW x \in reconciler.work, ReconcileMount(x)
      PROVE  UNCHANGED opVars
             \/ \E kind : Startable(kind, x.vol, x.pod) /\ Started(kind, x.vol, x.pod)
  BY <1>2, MountEffect DEF Startable, Kinds, PodsOf, PodNames, MountKinds
<1>3. ASSUME NEW x \in reconciler.work, ReconcileDetach(x)
      PROVE  UNCHANGED opVars
             \/ \E kind : Startable(kind, x.vol, NoPod) /\ Started(kind, x.vol, NoPod)
  BY <1>3, DetachEffect DEF Startable, Kinds, PodNames
<1> QED
  BY <1>1, <1>2, <1>3 DEF ReconcilerStep, NextPass, SyncScan, SyncEnd,
     SyncPending, SyncDesired, SyncActual, SyncReconstruct, UpdateAttached,
     UpdateMounted, UpdateDevice, UpdateDesired

LEMMA OpVarsQuiet ==
    /\ (\E p \in Pods : PodStep(p)) => UNCHANGED opVars
    /\ PopulatorAny => UNCHANGED opVars
    /\ StatusStep \/ PatchStatusFails => UNCHANGED opVars
    /\ (\E v \in Volumes : ControllerStep(v)) => UNCHANGED opVars
    /\ UNCHANGED vars => UNCHANGED opVars
<1>1. (\E p \in Pods : PodStep(p)) => UNCHANGED opVars
  BY DEF PodStep, AddPod, StopContainers, TerminatePod, DeletePod,
     dispatchWork, ReprocessPod, MarkRemountRequired,
     WaitSucceeds, WaitTimesOut, StartContainers,
     execVars, opVars
<1>2. PopulatorAny => UNCHANGED opVars
  BY DEF PopulatorAny, PopulatorStep, FindPods, MarkPodProcessed, FindDeletedPods,
     SkipDeletedPods, EndRemove, ProcessPod, AddVolume, RemoveItem, AddVolumeFails,
     GetPodsFails, populatorUnchanged
<1>3. StatusStep \/ PatchStatusFails => UNCHANGED opVars
  BY DEF StatusStep, UpdateStatus, GetGloballyMounted, PatchStatus,
     PatchStatusFails, MarkVolumesAsReportedInUse, statusUnchanged
<1>4. (\E v \in Volumes : ControllerStep(v)) => UNCHANGED opVars
  BY DEF ControllerStep, ControllerAttach, ProcessVolumesInUse,
     ControllerUnreport, VerifySafeToDetach, ControllerDetach, controllerUnchanged
<1>5. UNCHANGED vars => UNCHANGED opVars
  BY DEF vars, execVars, opVars
<1> QED
  BY <1>1, <1>2, <1>3, <1>4, <1>5

LEMMA ExclusionStep ==
    ASSUME VMTypes, ExclusionInv, FailuresOrSharing, [Next]_vars
    PROVE  ExclusionInv'
<1>1. ASSUME NEW r \in Routines, Executor(AnyStep(r))
      PROVE  ExclusionInv'
  BY <1>1, RoutineExcludes DEF Executor, VMTypes
<1>2. CASE Executor(Tick)
  BY <1>2, TickExcludes DEF Executor, VMTypes
<1>3. CASE ReconcilerStep
  BY <1>3, ReconcilerStarted, StartExcludes, QuietExcludes DEF VMTypes
<1>4. CASE Restart
  <2>1. operations' = << >> /\ routines' = [r \in Routines |-> Idle]
    BY <1>4 DEF Restart
  <2> QED
    BY <2>1, FreshExcludes DEF ExclusionInv
<1> QED
  BY <1>1, <1>2, <1>3, <1>4, NextCases, OpVarsQuiet, QuietExcludes

LEMMA InitExcludes ==
    ASSUME Init
    PROVE  ExclusionInv
<1>1. operations = << >> /\ routines = [r \in Routines |-> Idle]
  BY DEF Init, ExecutorInit
<1> QED
  BY <1>1, FreshExcludes DEF ExclusionInv

(***************************************************************************)
(* Two goroutines never work on the same mount: of two on one volume both  *)
(* unmount, and for different pods.                                        *)
(***************************************************************************)
THEOREM RoutinesExclude ==
    ASSUME FailuresOrSharing
    PROVE  Spec => []OneRoutinePerMount
<1>1. Init => VMTypes /\ ExclusionInv
  BY InitTypes, InitExcludes
<1>2. VMTypes /\ ExclusionInv /\ [Next]_vars => (VMTypes /\ ExclusionInv)'
  BY TypesStep, ExclusionStep
<1>3. VMTypes /\ ExclusionInv => OneRoutinePerMount
  <2> SUFFICES ASSUME VMTypes, ExclusionInv, NEW r \in Routines, NEW s \in Routines,
                      r # s, routines[r] # Idle, routines[s] # Idle,
                      routines[r].vol = routines[s].vol
               PROVE  /\ routines[r].kind = "unmount" /\ routines[s].kind = "unmount"
                      /\ routines[r].pod # routines[s].pod
    BY DEF OneRoutinePerMount
  <2> DEFINE v == routines[r].vol
             p == NameOf(routines[r])
             q == NameOf(routines[s])
  <2>1. ~Excludes(p, q)
    BY DEF ExclusionInv
  <2>2. /\ Startable(routines[r].kind, v, routines[r].pod)
        /\ Startable(routines[s].kind, v, routines[s].pod)
    BY TaskStartable DEF VMTypes, OpTypes
  <2>3. /\ p # NoPod /\ q # NoPod /\ p # q
    BY <2>1 DEF Excludes
  <2>4. /\ p = routines[r].pod /\ q = routines[s].pod
        /\ p \in PodsOf(v) /\ q \in PodsOf(v)
        /\ routines[r].kind \in {"mount", "unmount"}
        /\ routines[r].kind = "mount" => v \notin AttachableVolumes
        /\ routines[s].kind \in {"mount", "unmount"}
        /\ routines[s].kind = "mount" => v \notin AttachableVolumes
    BY <2>2, <2>3, RegisteredPod DEF NameOf
  <2>5. v \in AttachableVolumes
    BY <2>2, <2>3, <2>4, NotAttachableOnePod DEF OnePod, Startable
  <2> QED
    BY <2>3, <2>4, <2>5
<1> QED
  BY <1>1, <1>2, <1>3, PTL DEF Spec

-----------------------------------------------------------------------------
(***************************************************************************)
(* The device under a pod's mount.  An operation registered for the whole  *)
(* volume is alone on it.                                                  *)
(***************************************************************************)
VolumeWide(t) ==
    \/ t.kind \in {"verify", "attach", "unmountDevice", "detach"}
    \/ t.kind = "mount" /\ t.vol \in AttachableVolumes

LEMMA Alone ==
    ASSUME ExclusionInv, NEW r \in Routines, routines[r] # Idle,
           VolumeWide(routines[r]),
           NEW s \in Routines, s # r, routines[s] # Idle
    PROVE  routines[s].vol # routines[r].vol
<1>1. NameOf(routines[r]) = NoPod
  BY DEF VolumeWide, NameOf, OperationPod
<1> QED
  BY <1>1 DEF ExclusionInv, Excludes

LEMMA QuietDevices ==
    ASSUME DeviceInv, UNCHANGED <<routines, deviceMounts, podMounts>>
    PROVE  DeviceInv'
  BY DEF DeviceInv, PodMountOverDevice

LEMMA StartDevices ==
    ASSUME OpTypes, DeviceInv, NEW kind, NEW v, NEW p,
           Startable(kind, v, p), Started(kind, v, p),
           UNCHANGED <<deviceMounts, podMounts>>
    PROVE  DeviceInv'
<1>1. ASSUME NEW s \in Routines, routines'[s] # Idle
      PROVE  \/ routines'[s] = routines[s]
             \/ /\ routines'[s].step \notin {"markDeviceMounted", "unmountDevice",
                                             "markDeviceUnmounted"}
                /\ routines'[s].step = "setUp" =>
                     routines'[s].vol \notin AttachableVolumes
  <2>1. CASE UNCHANGED opVars
    BY <2>1 DEF opVars
  <2>2. ASSUME NEW r \in Routines, Starts(r, kind, v, p)
        PROVE  routines'[s] = routines[s] \/ TaskIs(routines'[s], kind, v, p, FirstStep(kind, v))
    BY <2>2 DEF Starts, Others
  <2>3. /\ FirstStep(kind, v) \notin {"markDeviceMounted", "unmountDevice",
                                      "markDeviceUnmounted"}
        /\ FirstStep(kind, v) = "setUp" => v \notin AttachableVolumes
    BY DEF FirstStep, Startable, Kinds
  <2> QED
    BY <2>1, <2>2, <2>3 DEF Started, TaskIs
<1> QED
  BY <1>1 DEF DeviceInv, PodMountOverDevice

LEMMA RoutineDevices ==
    ASSUME OpTypes, AswTypes, ExclusionInv, DeviceInv, NEW r \in Routines, AnyStep(r)
    PROVE  DeviceInv'
<1> DEFINE v == routines[r].vol
           p == routines[r].pod
           step == routines[r].step
<1>1. StepEffect(r)
  BY AnyEffect
<1>2. /\ routines[r] # Idle /\ HostEffect(r, v, p, step)
      /\ routines'[r] # Idle =>
           /\ routines'[r].kind = routines[r].kind
           /\ routines'[r].vol = v /\ routines'[r].pod = p
           /\ NextStep(r, v, p, step, routines'[r].step)
      /\ \A s \in Routines \ {r} : routines'[s] = routines[s]
  BY <1>1 DEF StepEffect, Others
<1>3. /\ v \in Volumes
      /\ step \in {"mountDevice", "markDeviceMounted", "setUp"} => routines[r].kind = "mount"
      /\ step = "unmountDevice" => routines[r].kind = "unmountDevice"
  BY <1>2, TaskKind DEF At
<1>4. /\ step = "markDeviceMounted" => v \in deviceMounts
      /\ step = "setUp" /\ v \in AttachableVolumes => v \in deviceMounts
      /\ step = "unmountDevice" => \A m \in podMounts : m[1] # v
  BY <1>2 DEF DeviceInv
<1>5. ASSUME NEW s \in Routines, s # r, routines'[s] # Idle
      PROVE  /\ routines'[s] = routines[s]
             /\ routines[s].step = "unmountDevice" => routines[s].vol # v
             /\ routines[s].step = "markDeviceUnmounted" => routines[s].vol # v
             /\ step = "unmountDevice" => routines[s].vol # v
  <2>1. routines'[s] = routines[s] /\ routines[s] # Idle
    BY <1>2, <1>5
  <2>2. routines[s].step \in {"unmountDevice", "markDeviceUnmounted"} =>
          routines[s].kind = "unmountDevice"
    BY <2>1, TaskKind DEF At
  <2> QED
    BY <1>2, <1>3, <1>5, <2>1, <2>2, Alone DEF VolumeWide
<1> HIDE DEF v, p, step
<1>6. PodMountOverDevice'
  <2>1. CASE step = "setUp"
    BY <1>2, <1>4, <2>1 DEF HostEffect, DeviceInv, PodMountOverDevice
  <2>2. CASE step = "unmountDevice"
    BY <1>2, <1>4, <2>2 DEF HostEffect, DeviceInv, PodMountOverDevice
  <2>3. CASE step \notin {"setUp", "unmountDevice"}
    <3>1. podMounts' \subseteq podMounts /\ deviceMounts \subseteq deviceMounts'
      BY <1>2, <2>3 DEF HostEffect
    <3> QED
      BY <3>1 DEF DeviceInv, PodMountOverDevice
  <2> QED
    BY <2>1, <2>2, <2>3
<1>7. ASSUME routines'[r] # Idle
      PROVE  /\ routines'[r].step = "markDeviceMounted" =>
                  routines'[r].vol \in deviceMounts'
             /\ routines'[r].step = "setUp" /\ routines'[r].vol \in AttachableVolumes
                => routines'[r].vol \in deviceMounts'
             /\ routines'[r].step = "unmountDevice" =>
                  \A m \in podMounts' : m[1] # routines'[r].vol
             /\ routines'[r].step = "markDeviceUnmounted" =>
                  routines'[r].vol \notin deviceMounts'
  <2>1. routines'[r].vol = v /\ NextStep(r, v, p, step, routines'[r].step)
    BY <1>2, <1>7
  <2>2. ASSUME routines'[r].step = "markDeviceMounted"
        PROVE  v \in deviceMounts'
    BY <2>1, <2>2 DEF NextStep
  <2>3. ASSUME routines'[r].step = "setUp", v \in AttachableVolumes
        PROVE  v \in deviceMounts'
    BY <1>2, <1>4, <2>1, <2>3 DEF NextStep, HostEffect
  <2>4. ASSUME routines'[r].step = "unmountDevice"
        PROVE  \A m \in podMounts' : m[1] # v
    BY <1>2, <2>1, <2>4 DEF NextStep, HostEffect
  <2>5. ASSUME routines'[r].step = "markDeviceUnmounted"
        PROVE  v \notin deviceMounts'
    BY <2>1, <2>5 DEF NextStep
  <2> QED
    BY <2>1, <2>2, <2>3, <2>4, <2>5
<1>8. ASSUME NEW s \in Routines, s # r, routines'[s] # Idle
      PROVE  /\ routines'[s].step = "markDeviceMounted" =>
                  routines'[s].vol \in deviceMounts'
             /\ routines'[s].step = "setUp" /\ routines'[s].vol \in AttachableVolumes
                => routines'[s].vol \in deviceMounts'
             /\ routines'[s].step = "unmountDevice" =>
                  \A m \in podMounts' : m[1] # routines'[s].vol
             /\ routines'[s].step = "markDeviceUnmounted" =>
                  routines'[s].vol \notin deviceMounts'
  <2> DEFINE w == routines[s].vol
  <2>1. /\ routines'[s] = routines[s]
        /\ routines[s].step = "unmountDevice" => w # v
        /\ routines[s].step = "markDeviceUnmounted" => w # v
        /\ step = "unmountDevice" => w # v
    BY <1>5, <1>8
  <2>2. /\ routines[s].step = "markDeviceMounted" => w \in deviceMounts
        /\ routines[s].step = "setUp" /\ w \in AttachableVolumes => w \in deviceMounts
        /\ routines[s].step = "unmountDevice" => \A m \in podMounts : m[1] # w
        /\ routines[s].step = "markDeviceUnmounted" => w \notin deviceMounts
    BY <1>8, <2>1 DEF DeviceInv
  <2>3. /\ deviceMounts' \subseteq deviceMounts \cup {v}
        /\ podMounts' \subseteq podMounts \cup {<<v, p>>}
        /\ step # "unmountDevice" => deviceMounts \subseteq deviceMounts'
        /\ deviceMounts \ {v} \subseteq deviceMounts'
    BY <1>2 DEF HostEffect
  <2> HIDE DEF w
  <2>4. routines'[s].vol = w
    BY <2>1 DEF w
  <2> QED
    BY <2>1, <2>2, <2>3, <2>4
<1> QED
  BY <1>6, <1>7, <1>8 DEF DeviceInv

\* The host changes with the goroutines alone, and with the controller.
LEMMA MountsQuiet ==
    /\ (\E p \in Pods : PodStep(p)) => UNCHANGED <<deviceMounts, podMounts, stillOpen>>
    /\ PopulatorAny => UNCHANGED <<deviceMounts, podMounts, stillOpen>>
    /\ ReconcilerStep => UNCHANGED <<deviceMounts, podMounts, stillOpen>>
    /\ Executor(Tick) => UNCHANGED <<deviceMounts, podMounts, stillOpen, routines>>
    /\ StatusStep \/ PatchStatusFails => UNCHANGED <<deviceMounts, podMounts, stillOpen>>
    /\ (\E v \in Volumes : ControllerStep(v))
         => UNCHANGED <<deviceMounts, podMounts, stillOpen>>
    /\ Restart => UNCHANGED <<deviceMounts, podMounts, stillOpen>>
    /\ UNCHANGED vars => UNCHANGED <<deviceMounts, podMounts, stillOpen>>
<1> USE DEF hostVars
<1>1. (\E p \in Pods : PodStep(p)) => UNCHANGED <<deviceMounts, podMounts, stillOpen>>
  BY DEF PodStep, AddPod, StopContainers, TerminatePod, DeletePod,
     dispatchWork, ReprocessPod, MarkRemountRequired,
     WaitSucceeds, WaitTimesOut, StartContainers,
     execVars
<1>2. PopulatorAny => UNCHANGED <<deviceMounts, podMounts, stillOpen>>
  BY DEF PopulatorAny, PopulatorStep, FindPods, MarkPodProcessed, FindDeletedPods,
     SkipDeletedPods, EndRemove, ProcessPod, AddVolume, RemoveItem, AddVolumeFails,
     GetPodsFails, populatorUnchanged
<1>3. ReconcilerStep => UNCHANGED <<deviceMounts, podMounts, stillOpen>>
  BY DEF ReconcilerStep, NextPass, SyncScan, SyncEnd, SyncPending, SyncDesired,
     SyncActual, UpdateMounted, UpdateDevice, UpdateDesired, ReconcileUnmount,
     ReconcileMount, ReconcileDetach, SyncReconstruct, UpdateAttached,
     reconcilerUnchanged
<1>4. Executor(Tick) => UNCHANGED <<deviceMounts, podMounts, stillOpen, routines>>
  BY DEF Executor, Tick
<1>5. StatusStep \/ PatchStatusFails => UNCHANGED <<deviceMounts, podMounts, stillOpen>>
  BY DEF StatusStep, UpdateStatus, GetGloballyMounted, PatchStatus,
     PatchStatusFails, MarkVolumesAsReportedInUse, statusUnchanged
<1>6. (\E v \in Volumes : ControllerStep(v))
      => UNCHANGED <<deviceMounts, podMounts, stillOpen>>
  BY DEF ControllerStep, ControllerAttach, ProcessVolumesInUse,
     ControllerUnreport, VerifySafeToDetach, ControllerDetach, controllerUnchanged
<1>7. Restart => UNCHANGED <<deviceMounts, podMounts, stillOpen>>
  BY DEF Restart
<1>8. UNCHANGED vars => UNCHANGED <<deviceMounts, podMounts, stillOpen>>
  BY DEF vars, execVars
<1> QED
  BY <1>1, <1>2, <1>3, <1>4, <1>5, <1>6, <1>7, <1>8

LEMMA DeviceStep ==
    ASSUME VMTypes, ExclusionInv, DeviceInv, [Next]_vars
    PROVE  DeviceInv'
<1>1. ASSUME NEW r \in Routines, Executor(AnyStep(r))
      PROVE  DeviceInv'
  BY <1>1, RoutineDevices DEF Executor, VMTypes
<1>2. CASE ReconcilerStep
  <2>1. UNCHANGED opVars => DeviceInv'
    BY <1>2, MountsQuiet, QuietDevices DEF opVars
  <2> QED
    BY <1>2, <2>1, MountsQuiet, ReconcilerStarted, StartDevices DEF VMTypes
<1>3. CASE Restart
  <2>1. \A s \in Routines : routines'[s] = Idle
    BY <1>3 DEF Restart
  <2> QED
    BY <1>3, <2>1, MountsQuiet DEF DeviceInv, PodMountOverDevice
<1>4. CASE Executor(Tick)
  BY <1>4, MountsQuiet, QuietDevices
<1>5. ASSUME UNCHANGED <<deviceMounts, podMounts>>, UNCHANGED opVars
      PROVE  DeviceInv'
  BY <1>5, QuietDevices DEF opVars
<1> QED
  BY <1>1, <1>2, <1>3, <1>4, <1>5, NextCases, OpVarsQuiet, MountsQuiet

LEMMA InitDevices ==
    ASSUME Init
    PROVE  DeviceInv
<1>1. podMounts = {} /\ \A s \in Routines : routines[s] = Idle
  BY DEF Init, ExecutorInit
<1> QED
  BY <1>1 DEF DeviceInv, PodMountOverDevice

(***************************************************************************)
(* A pod's directory is never left mounted over a device that is not       *)
(* mounted any more: between the check of the references and the unmount   *)
(* of the device no mount of the volume can be under way.                  *)
(***************************************************************************)
THEOREM DeviceUnderMounts ==
    ASSUME FailuresOrSharing
    PROVE  Spec => []PodMountOverDevice
<1>1. Init => VMTypes /\ ExclusionInv /\ DeviceInv
  BY InitTypes, InitExcludes, InitDevices
<1>2. VMTypes /\ ExclusionInv /\ DeviceInv /\ [Next]_vars
        => (VMTypes /\ ExclusionInv /\ DeviceInv)'
  BY TypesStep, ExclusionStep, DeviceStep
<1>3. VMTypes /\ ExclusionInv /\ DeviceInv => PodMountOverDevice
  BY DEF DeviceInv
<1> QED
  BY <1>1, <1>2, <1>3, PTL DEF Spec

-----------------------------------------------------------------------------
(***************************************************************************)
(* The actual state of the world tells the truth about devices, as long as *)
(* calls do not fail (a device that is unmounted but still open is shown   *)
(* as mounted from then on).  A goroutine leaves the device of a volume    *)
(* that is being reconstructed alone, ...                                  *)
(***************************************************************************)
LEMMA RoutineStays ==
    ASSUME OpTypes, AswTypes, ExclusionInv, NEW r \in Routines, AnyStep(r),
           NEW w \in Volumes, DeviceStays(w)
    PROVE  DeviceStays(w)'
<1> DEFINE v == routines[r].vol
           p == routines[r].pod
           step == routines[r].step
<1>1. StepEffect(r)
  BY AnyEffect
<1>2. /\ routines[r] # Idle /\ HostEffect(r, v, p, step)
      /\ routines'[r] # Idle =>
           /\ routines'[r].kind = routines[r].kind
           /\ routines'[r].vol = v /\ routines'[r].pod = p
           /\ NextStep(r, v, p, step, routines'[r].step)
      /\ \A s \in Routines \ {r} : routines'[s] = routines[s]
  BY <1>1 DEF StepEffect, Others
<1>3. /\ v = w => step \notin {"unmountDevice", "markDeviceUnmounted"}
      /\ v = w /\ step = "checkRefs" => \E m \in podMounts : m[1] = w
      /\ w \in deviceMounts
  BY <1>2 DEF DeviceStays
<1>4. ASSUME NEW s \in Routines, s # r, routines'[s] # Idle, routines'[s].vol = w
      PROVE  /\ routines[s].step \notin {"unmountDevice", "markDeviceUnmounted"}
             /\ routines[s].step = "checkRefs" => v # w /\ \E m \in podMounts : m[1] = w
             /\ routines'[s] = routines[s]
  <2>1. routines'[s] = routines[s] /\ routines[s] # Idle
    BY <1>2, <1>4
  <2>2. routines[s].step = "checkRefs" => routines[s].kind = "unmountDevice"
    BY <2>1, TaskKind DEF At
  <2>3. routines[s].step = "checkRefs" => v # w
    BY <1>2, <1>4, <2>1, <2>2, Alone DEF VolumeWide
  <2> QED
    BY <1>4, <2>1, <2>3 DEF DeviceStays
<1> HIDE DEF v, p, step
<1>5. w \in deviceMounts'
  BY <1>2, <1>3 DEF HostEffect
<1>6. v # w => \A m \in podMounts : m[1] = w => m \in podMounts'
  BY <1>2 DEF HostEffect
<1>7. ASSUME routines'[r] # Idle, routines'[r].vol = w
      PROVE  routines'[r].step \notin {"unmountDevice", "markDeviceUnmounted", "checkRefs"}
  BY <1>2, <1>3, <1>7 DEF NextStep
<1> QED
  BY <1>4, <1>5, <1>6, <1>7 DEF DeviceStays

LEMMA QuietStays ==
    ASSUME SyncDeviceInv, UNCHANGED <<reconciler, routines, deviceMounts, podMounts>>
    PROVE  SyncDeviceInv'
<1>1. \A v : (InSync(v) <=> InSync(v)') /\ (DeviceStays(v) <=> DeviceStays(v)')
  BY DEF InSync, DeviceStays
<1> QED
  BY <1>1 DEF SyncDeviceInv

(***************************************************************************)
(* ... and the reconciler reconstructs only what it found on the disk.     *)
(***************************************************************************)
LEMMA ReconcilerInSync ==
    ASSUME VMTypes, ReconcilerStep, NEW v \in Volumes, InSync(v)'
    PROVE  /\ UNCHANGED opVars
           /\ InSync(v) \/ \E m \in podMounts : m[1] = v
<1> USE DEF ReconcilerIs, SyncSteps, CheckSteps, UpdateSteps
<1>1. reconciler.updates \in [Volumes -> PodNames]
  BY DEF VMTypes, ReconcilerTypes
<1>2. ASSUME \/ NextPass
             \/ \E x \in reconciler.work :
                  ReconcileUnmount(x) \/ ReconcileMount(x) \/ ReconcileDetach(x)
      PROVE  FALSE
  <2>1. reconciler'.pc \in {"idle", "unmount", "mount", "detach"}
        /\ reconciler'.updates = NoUpdates
    BY <1>2, PassEffect
  <2> QED
    BY <2>1, NoUpdatesType DEF InSync
<1>3. CASE SyncScan
  <2>1. /\ reconciler'.pc = "sync" /\ reconciler'.work = OnDisk
        /\ reconciler'.updates = NoUpdates /\ UNCHANGED opVars
    BY <1>3, SyncEffect DEF SyncScan
  <2>2. PICK x \in OnDisk : x.vol = v
    BY <2>1, NoUpdatesType DEF InSync
  <2> QED
    BY <2>1, <2>2 DEF OnDisk
<1>4. ASSUME NEW x \in reconciler.work, SyncReconstruct(x)
      PROVE  UNCHANGED opVars /\ InSync(v)
  <2>1. /\ reconciler'.work = reconciler.work \ {x} /\ reconciler'.item = x
        /\ reconciler'.updates = reconciler.updates
        /\ reconciler.pc = "sync" /\ UNCHANGED opVars
    BY <1>4, SyncEffect DEF SyncReconstruct
  <2> QED
    BY <2>1 DEF InSync
<1>5. CASE SyncPending \/ SyncDesired
  <2>1. /\ reconciler'.work = reconciler.work /\ reconciler'.item = reconciler.item
        /\ reconciler'.updates = reconciler.updates
        /\ reconciler.pc \in CheckSteps /\ UNCHANGED opVars
    BY <1>5, SyncEffect DEF SyncPending, SyncDesired
  <2> QED
    BY <2>1 DEF InSync
<1>6. CASE SyncActual
  <2>1. /\ reconciler'.work = reconciler.work /\ reconciler'.item = reconciler.item
        /\ reconciler'.pc = "sync" /\ reconciler.pc = "checkActual" /\ UNCHANGED opVars
        /\ \E p : reconciler'.updates =
                    [reconciler.updates EXCEPT ![reconciler.item.vol] = p]
    BY <1>6, SyncEffect DEF SyncActual
  <2> QED
    BY <1>1, <2>1 DEF InSync
<1>7. ASSUME NEW w \in Volumes, UpdateAttached(w)
      PROVE  UNCHANGED opVars /\ InSync(v)
  <2>1. /\ reconciler'.work = {}
        /\ reconciler'.item.vol = w /\ reconciler.updates[w] # NoPod
        /\ reconciler'.updates = [reconciler.updates EXCEPT ![w] = NoPod]
        /\ UNCHANGED opVars
    BY <1>7, UpdateEffect DEF UpdateAttached
  <2> QED
    BY <1>1, <2>1 DEF InSync
<1>8. CASE UpdateMounted \/ UpdateDevice \/ UpdateDesired
  <2>1. /\ reconciler'.work = reconciler.work /\ reconciler'.item = reconciler.item
        /\ reconciler'.updates = reconciler.updates
        /\ reconciler.pc \in UpdateSteps /\ UNCHANGED opVars
    BY <1>8, UpdateEffect DEF UpdateMounted, UpdateDevice, UpdateDesired
  <2> QED
    BY <2>1 DEF InSync
<1>9. CASE SyncEnd
  <2>1. reconciler'.pc = "idle" /\ reconciler'.updates = NoUpdates
    BY <1>9, UpdateEffect
  <2> QED
    BY <2>1, NoUpdatesType DEF InSync
<1> QED
  BY <1>2, <1>3, <1>4, <1>5, <1>6, <1>7, <1>8, <1>9 DEF ReconcilerStep

\* Only UpdateMounted leads to updateDevice, for a volume with an attacher.
LEMMA UpdatesAttachable ==
    ASSUME VMTypes, ReconcilerStep, reconciler'.pc = "updateDevice"
    PROVE  reconciler'.item.vol \in AttachableVolumes
<1> USE DEF ReconcilerIs
<1>1. CASE UpdateMounted
  <2>1. reconciler'.item = reconciler.item
    BY <1>1, UpdateEffect
  <2>2. ASSUME reconciler.item.vol \notin AttachableVolumes
        PROVE  FALSE
    <3>1. \E pc \in {"sync", "updateDesired"} : reconciler' = [reconciler EXCEPT !.pc = pc]
      BY <1>1, <2>2 DEF UpdateMounted
    <3> QED
      BY <3>1 DEF VMTypes, ReconcilerTypes
  <2> QED
    BY <2>1, <2>2
<1>2. CASE ~UpdateMounted
  BY <1>2, PassEffect, SyncEffect, UpdateEffect DEF ReconcilerStep
<1> QED
  BY <1>1, <1>2

LEMMA SyncDeviceStep ==
    ASSUME VMTypes, ExclusionInv, DeviceInv, SyncDeviceInv, [Next]_vars
    PROVE  SyncDeviceInv'
<1>1. ASSUME NEW r \in Routines, Executor(AnyStep(r))
      PROVE  SyncDeviceInv'
  <2>1. AnyStep(r) /\ UNCHANGED reconciler
    BY <1>1 DEF Executor, managerVars
  <2>2. ASSUME NEW v \in AttachableVolumes, InSync(v)'
        PROVE  DeviceStays(v)'
    <3>1. InSync(v)
      BY <2>1, <2>2 DEF InSync
    <3> QED
      BY <2>1, <3>1, RoutineStays, VolumeKindsAssumption DEF SyncDeviceInv, VMTypes
  <2> QED
    BY <2>1, <2>2 DEF SyncDeviceInv
<1>2. CASE ReconcilerStep
  <2>1. UNCHANGED <<deviceMounts, podMounts>>
    BY <1>2, MountsQuiet
  <2>2. ASSUME NEW v \in AttachableVolumes, InSync(v)'
        PROVE  DeviceStays(v)'
    <3>1. v \in Volumes /\ UNCHANGED routines
          /\ (InSync(v) \/ \E m \in podMounts : m[1] = v)
      BY <1>2, <2>2, ReconcilerInSync, VolumeKindsAssumption DEF opVars
    <3>2. DeviceStays(v)
      BY <3>1 DEF SyncDeviceInv, DeviceStays, DeviceInv, PodMountOverDevice
    <3> QED
      BY <2>1, <3>1, <3>2 DEF DeviceStays
  <2> QED
    BY <1>2, <2>2, UpdatesAttachable DEF SyncDeviceInv
<1>3. CASE Restart
  <2>1. reconciler' = IdleReconciler
    BY <1>3 DEF Restart
  <2> QED
    BY <2>1, IdleReconcilerParts, NoUpdatesType, VolumeKindsAssumption
       DEF SyncDeviceInv, InSync, SyncSteps, CheckSteps, UpdateSteps
<1>4. ASSUME UNCHANGED <<reconciler, routines, deviceMounts, podMounts>>
      PROVE  SyncDeviceInv'
  BY <1>4, QuietStays
<1>5. CASE Executor(Tick) \/ StatusStep \/ PatchStatusFails \/ UNCHANGED vars
  BY <1>4, <1>5, MountsQuiet, OpVarsQuiet DEF Executor, managerVars, opVars, vars,
     StatusStep, UpdateStatus, GetGloballyMounted, PatchStatus, PatchStatusFails,
     MarkVolumesAsReportedInUse, statusUnchanged
<1>6. CASE PopulatorAny
  <2>1. UNCHANGED reconciler
    BY <1>6 DEF PopulatorAny, PopulatorStep, FindPods, MarkPodProcessed,
       FindDeletedPods, SkipDeletedPods, EndRemove, ProcessPod, AddVolume,
       RemoveItem, AddVolumeFails, GetPodsFails, populatorUnchanged
  <2> QED
    BY <1>4, <1>6, <2>1, MountsQuiet, OpVarsQuiet DEF opVars
<1>7. ASSUME (\E p \in Pods : PodStep(p)) \/ (\E v \in Volumes : ControllerStep(v))
      PROVE  SyncDeviceInv'
  <2>1. UNCHANGED reconciler
    BY <1>7 DEF PodStep, AddPod, StopContainers, TerminatePod, DeletePod,
       dispatchWork, ReprocessPod, MarkRemountRequired,
       WaitSucceeds, WaitTimesOut, StartContainers,
       managerVars, ControllerStep, ControllerAttach, ProcessVolumesInUse,
       ControllerUnreport, VerifySafeToDetach, ControllerDetach, controllerUnchanged
  <2> QED
    BY <1>4, <1>7, <2>1, MountsQuiet, OpVarsQuiet DEF opVars
<1> QED
  BY <1>1, <1>2, <1>3, <1>5, <1>6, <1>7, NextCases

\* The goroutine that has unmounted the device of v and not said so yet.
Unmounted(tasks, r, v) ==
    /\ tasks[r] # Idle /\ tasks[r].kind = "unmountDevice"
    /\ tasks[r].step = "markDeviceUnmounted" /\ tasks[r].vol = v

\* A device that is unmounted is marked so next, or was found open; the mark
\* itself cannot fail.
LEMMA UnmountDeviceSteps ==
    ASSUME OpTypes, HostTypes, AswTypes, NEW r \in Routines, AnyStep(r)
    PROVE  /\ At(r, "unmountDevice") =>
                \/ Unmounted(routines', r, routines[r].vol)
                \/ UNCHANGED deviceMounts
                \/ routines[r].vol \in stillOpen'
           /\ At(r, "markDeviceUnmounted") => routines[r].vol \notin globallyMounted'
<1>1. ASSUME At(r, "unmountDevice")
      PROVE  UnmountDevice(r) \/ CallFails(r) \/ DeviceStillOpen(r)
  BY <1>1 DEF At, AnyStep, RoutineStep, Verify, Attach, MarkAttached,
     MountDevice, MarkDeviceMounted, SetUp, MarkMounted, TearDown, MarkUnmounted,
     CheckRefs, MarkDeviceUnmounted, Detach, MarkDetached, Complete
<1>2. ASSUME At(r, "unmountDevice"), UnmountDevice(r)
      PROVE  Unmounted(routines', r, routines[r].vol)
  <2>1. Goto(r, "markDeviceUnmounted") /\ routines[r] # Idle
        /\ routines[r].kind = "unmountDevice"
    BY <1>2, TaskKind DEF UnmountDevice
  <2>2. routines'[r].step = "markDeviceUnmounted"
    BY <2>1, GotoStep
  <2>3. PICK step : Moves(r, step)
    BY <1>2, RoutineEffect DEF Ends, At
  <2>4. routines'[r] \in Tasks /\ routines'[r].kind = routines[r].kind
        /\ routines'[r].vol = routines[r].vol
    BY <2>3 DEF Moves, TaskIs, Task
  <2> QED
    BY <2>1, <2>2, <2>4, IdleAssumption DEF Unmounted
<1>3. CallFails(r) => UNCHANGED deviceMounts
  BY DEF CallFails, hostVars
<1>4. DeviceStillOpen(r) => routines[r].vol \in stillOpen'
  BY DEF DeviceStillOpen
<1>5. ASSUME At(r, "markDeviceUnmounted")
      PROVE  routines[r].vol \notin globallyMounted'
  <2>1. MarkDeviceUnmounted(r)
    BY <1>5 DEF At, AnyStep, RoutineStep, Verify, Attach, MarkAttached,
       MountDevice, MarkDeviceMounted, SetUp, MarkMounted, TearDown, MarkUnmounted,
       CheckRefs, UnmountDevice, Detach, MarkDetached, Complete, CallFails,
       DeviceStillOpen, CallSteps
  <2>2. CASE asw!VolumeExists(routines[r].vol)
    BY <2>1, <2>2 DEF MarkDeviceUnmounted, asw!MarkDeviceAsUnmounted
  <2>3. CASE ~asw!VolumeExists(routines[r].vol)
    BY <2>1, <2>3 DEF MarkDeviceUnmounted, aswVars, asw!VolumeExists, AswTypes, asw!TypeOK
  <2> QED
    BY <2>2, <2>3
<1> QED
  BY <1>1, <1>2, <1>3, <1>4, <1>5

\* The devices found open: another operation on the device settles them.
StillOpenEffect(v, step) ==
    \/ stillOpen \subseteq stillOpen'
    \/ /\ step = "mountDevice" /\ v \in deviceMounts'
       /\ stillOpen' = stillOpen \ {v}
    \/ step = "markDeviceUnmounted" /\ stillOpen' = stillOpen \ {v}

LEMMA StillOpenSteps ==
    ASSUME NEW r \in Routines, AnyStep(r)
    PROVE  StillOpenEffect(routines[r].vol, routines[r].step)
<1> USE DEF StillOpenEffect, hostVars, At
<1>1. CASE Verify(r) \/ MarkAttached(r) \/ MarkDeviceMounted(r)
           \/ MarkMounted(r) \/ MarkUnmounted(r) \/ CheckRefs(r)
           \/ MarkDetached(r) \/ Complete(r)
  BY <1>1 DEF Verify, MarkAttached, MarkDeviceMounted, MarkMounted,
     MarkUnmounted, CheckRefs, MarkDetached, Complete
<1>2. CASE Attach(r) \/ SetUp(r) \/ TearDown(r) \/ UnmountDevice(r) \/ Detach(r)
  BY <1>2 DEF Attach, SetUp, TearDown, UnmountDevice, Detach
<1>3. CASE MountDevice(r)
  BY <1>3 DEF MountDevice
<1>4. CASE CallFails(r) \/ DeviceStillOpen(r)
  BY <1>4 DEF CallFails, DeviceStillOpen
<1>5. CASE MarkDeviceUnmounted(r)
  BY <1>5 DEF MarkDeviceUnmounted
<1> QED
  BY <1>1, <1>2, <1>3, <1>4, <1>5 DEF AnyStep, RoutineStep

LEMMA WorkingUnmounted ==
    /\ DeviceMountedIsTrue <=>
         \A v \in globallyMounted :
            \/ v \in deviceMounts \/ v \in stillOpen
            \/ \E r \in Routines : Unmounted(routines, r, v)
    /\ DeviceMountedIsTrue' <=>
         \A v \in globallyMounted' :
            \/ v \in deviceMounts' \/ v \in stillOpen'
            \/ \E r \in Routines : Unmounted(routines', r, v)
  BY DEF DeviceMountedIsTrue, Working, Unmounted

LEMMA RoutineTells ==
    ASSUME OpTypes, HostTypes, AswTypes, DeviceInv, DeviceMountedIsTrue,
           NEW r \in Routines, AnyStep(r)
    PROVE  DeviceMountedIsTrue'
<1> DEFINE v == routines[r].vol
           p == routines[r].pod
           step == routines[r].step
<1>1. StepEffect(r)
  BY AnyEffect
<1>2. /\ routines[r] # Idle
      /\ HostEffect(r, v, p, step) /\ AswEffect(r, v, p, step)
      /\ \A s \in Routines \ {r} : routines'[s] = routines[s]
  BY <1>1 DEF StepEffect, Others
<1>3. /\ step = "unmountDevice" => \/ Unmounted(routines', r, v)
                                   \/ UNCHANGED deviceMounts
                                   \/ v \in stillOpen'
      /\ step = "markDeviceUnmounted" => v \notin globallyMounted'
  BY <1>2, UnmountDeviceSteps DEF At
<1>4. step = "markDeviceMounted" => v \in deviceMounts
  BY <1>2 DEF DeviceInv
<1>5. \A w : Unmounted(routines, r, w) => w = v /\ step = "markDeviceUnmounted"
  BY DEF Unmounted
<1>6. StillOpenEffect(v, step)
  BY StillOpenSteps
<1> HIDE DEF v, p, step
<1>7. ASSUME NEW w \in globallyMounted'
      PROVE  \/ w \in deviceMounts' \/ w \in stillOpen'
             \/ \E s \in Routines : Unmounted(routines', s, w)
  <2>1. w \in globallyMounted \/ (w = v /\ step = "markDeviceMounted")
    BY <1>2, <1>7 DEF AswEffect
  <2>2. CASE w \in deviceMounts
    BY <1>2, <1>3, <2>2 DEF HostEffect
  <2>3. CASE w \in stillOpen
    BY <1>3, <1>6, <1>7, <2>3 DEF StillOpenEffect
  <2>4. CASE w \notin deviceMounts /\ w \notin stillOpen
    <3>1. PICK s \in Routines : Unmounted(routines, s, w)
      BY <1>4, <2>1, <2>4, WorkingUnmounted
    <3>2. s # r
      BY <1>3, <1>5, <1>7, <3>1
    <3> QED
      BY <1>2, <3>1, <3>2 DEF Unmounted
  <2> QED
    BY <2>2, <2>3, <2>4
<1> QED
  BY <1>7, WorkingUnmounted

LEMMA DeviceTruthQuiet ==
    ASSUME DeviceMountedIsTrue, UNCHANGED <<deviceMounts, stillOpen>>,
           \A v \in globallyMounted' : v \in globallyMounted \/ v \in deviceMounts,
           \A s \in Routines : routines[s] # Idle => routines'[s] = routines[s]
    PROVE  DeviceMountedIsTrue'
<1>1. ASSUME NEW v \in globallyMounted'
      PROVE  \/ v \in deviceMounts' \/ v \in stillOpen'
             \/ \E r \in Routines : Unmounted(routines', r, v)
  BY <1>1, WorkingUnmounted DEF Unmounted
<1> QED
  BY <1>1, WorkingUnmounted

LEMMA ReconcilerTells ==
    ASSUME VMTypes, SyncDeviceInv, DeviceMountedIsTrue, ReconcilerStep
    PROVE  DeviceMountedIsTrue'
<1>1. UNCHANGED <<deviceMounts, stillOpen>>
  BY MountsQuiet
<1>2. \A s \in Routines : routines[s] # Idle => routines'[s] = routines[s]
  <2>1. ASSUME NEW kind, NEW v, NEW p, Started(kind, v, p)
        PROVE  \A s \in Routines : routines[s] # Idle => routines'[s] = routines[s]
    BY <2>1 DEF Started, Starts, Others, opVars
  <2> QED
    BY <2>1, ReconcilerStarted DEF opVars
<1>3. \A v \in globallyMounted' : v \in globallyMounted \/ v \in deviceMounts
  <2>1. ASSUME NEW x \in reconciler.work, ReconcileDetach(x)
        PROVE  globallyMounted' \subseteq globallyMounted
    BY <2>1, DetachEffect DEF asw!MarkVolumeAsDetached, asw!vars, aswVars
  <2>2. CASE UpdateDevice
    <3> DEFINE v == reconciler.item.vol
    <3>1. UNCHANGED aswVars \/ asw!MarkDeviceAsMounted(v)
      BY <2>2, UpdateEffect
    <3>2. v \in AttachableVolumes /\ InSync(v)
      BY <2>2 DEF UpdateDevice, SyncDeviceInv, InSync, SyncSteps, UpdateSteps
    <3>3. v \in deviceMounts
      BY <3>2 DEF SyncDeviceInv, DeviceStays
    <3> QED
      BY <3>1, <3>3 DEF aswVars, asw!MarkDeviceAsMounted
  <2>3. CASE UpdateMounted
    BY <2>3, UpdateEffect DEF aswVars, asw!MarkVolumeAsMounted
  <2>4. CASE UNCHANGED globallyMounted
    BY <2>4
  <2> QED
    BY <2>1, <2>2, <2>3, <2>4 DEF ReconcilerStep, NextPass, SyncScan, SyncEnd,
       SyncPending, SyncDesired, SyncActual, SyncReconstruct, UpdateAttached,
       UpdateDesired, ReconcileUnmount, ReconcileMount, asw!MarkVolumeAsAttached,
       aswVars
<1> QED
  BY <1>1, <1>2, <1>3, DeviceTruthQuiet

LEMMA GloballyMountedQuiet ==
    /\ (\E p \in Pods : PodStep(p)) => UNCHANGED globallyMounted
    /\ PopulatorAny => UNCHANGED globallyMounted
    /\ Executor(Tick) => UNCHANGED globallyMounted
    /\ StatusStep \/ PatchStatusFails => UNCHANGED globallyMounted
    /\ (\E v \in Volumes : ControllerStep(v)) => UNCHANGED globallyMounted
    /\ UNCHANGED vars => UNCHANGED globallyMounted
<1> USE DEF aswVars
<1>1. (\E p \in Pods : PodStep(p)) => UNCHANGED globallyMounted
  BY DEF PodStep, AddPod, StopContainers, TerminatePod, DeletePod,
     dispatchWork, ReprocessPod, MarkRemountRequired,
     WaitSucceeds, WaitTimesOut, StartContainers,
     execVars, asw!MarkRemountRequired
<1>2. PopulatorAny => UNCHANGED globallyMounted
  BY DEF PopulatorAny, PopulatorStep, FindPods, MarkPodProcessed, FindDeletedPods,
     SkipDeletedPods, EndRemove, ProcessPod, AddVolume, RemoveItem, AddVolumeFails,
     GetPodsFails, populatorUnchanged
<1>3. Executor(Tick) => UNCHANGED globallyMounted
  BY DEF Executor, Tick
<1>4. StatusStep \/ PatchStatusFails => UNCHANGED globallyMounted
  BY DEF StatusStep, UpdateStatus, GetGloballyMounted, PatchStatus,
     PatchStatusFails, MarkVolumesAsReportedInUse, statusUnchanged
<1>5. (\E v \in Volumes : ControllerStep(v)) => UNCHANGED globallyMounted
  BY DEF ControllerStep, ControllerAttach, ProcessVolumesInUse,
     ControllerUnreport, VerifySafeToDetach, ControllerDetach, controllerUnchanged
<1>6. UNCHANGED vars => UNCHANGED globallyMounted
  BY DEF vars, execVars
<1> QED
  BY <1>1, <1>2, <1>3, <1>4, <1>5, <1>6

LEMMA DeviceTruthStep ==
    ASSUME VMTypes, DeviceInv, SyncDeviceInv, DeviceMountedIsTrue, [Next]_vars
    PROVE  DeviceMountedIsTrue'
<1>1. ASSUME NEW r \in Routines, Executor(AnyStep(r))
      PROVE  DeviceMountedIsTrue'
  BY <1>1, RoutineTells DEF Executor, VMTypes
<1>2. CASE Restart
  BY <1>2 DEF Restart, DeviceMountedIsTrue
<1>3. ASSUME UNCHANGED <<globallyMounted, deviceMounts, stillOpen, routines>>
      PROVE  DeviceMountedIsTrue'
  BY <1>3, DeviceTruthQuiet
<1> QED
  BY <1>1, <1>2, <1>3, NextCases, ReconcilerTells, GloballyMountedQuiet,
     OpVarsQuiet, MountsQuiet DEF opVars

DeviceTruthInv ==
    VMTypes /\ ExclusionInv /\ DeviceInv /\ SyncDeviceInv /\ DeviceMountedIsTrue

(***************************************************************************)
(* A device the actual state of the world shows as mounted is mounted, or  *)
(* is about to be marked as unmounted, or was found open after its unmount *)
(* (operation_generator.go:698): with failing calls, and after a restart,  *)
(* when the kubelet rebuilds the actual state from the mounts it finds.    *)
(***************************************************************************)
THEOREM DeviceStateIsTrue ==
    ASSUME FailuresOrSharing
    PROVE  Spec => []DeviceMountedIsTrue
<1>1. Init => DeviceTruthInv
  <2> SUFFICES ASSUME Init
               PROVE  DeviceTruthInv
    OBVIOUS
  <2>1. VMTypes /\ ExclusionInv /\ DeviceInv /\ globallyMounted = {}
        /\ reconciler = IdleReconciler
    BY InitTypes, InitExcludes, InitDevices DEF Fresh
  <2> QED
    BY <2>1, IdleReconcilerParts, NoUpdatesType, VolumeKindsAssumption
       DEF DeviceTruthInv, SyncDeviceInv, InSync, SyncSteps, CheckSteps,
           UpdateSteps, DeviceMountedIsTrue
<1>2. DeviceTruthInv /\ [Next]_vars => DeviceTruthInv'
  BY TypesStep, ExclusionStep, DeviceStep, SyncDeviceStep, DeviceTruthStep
     DEF DeviceTruthInv
<1>3. DeviceTruthInv => DeviceMountedIsTrue
  BY DEF DeviceTruthInv
<1> QED
  BY <1>1, <1>2, <1>3, PTL DEF Spec
===========================================================================
