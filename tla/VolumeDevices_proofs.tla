------------------------ MODULE VolumeDevices_proofs ------------------------
(***************************************************************************)
(* The proof that the device under the volumes of a running pod stays      *)
(* attached and mounted, where a volume has one pod.  It follows the       *)
(* volume through both processes: the kubelet's caches, goroutines and     *)
(* node status, and the controller's steps towards a detach.               *)
(***************************************************************************)
EXTENDS VolumeManager_proofs

(***************************************************************************)
(* The volumes the controller is told of.  A volume that a pod which is    *)
(* not gone may have mounted is in the node's status, and in the status    *)
(* that is about to be sent; the desired state it is computed from is      *)
(* complete once the states have been synchronized with the disk.          *)
(***************************************************************************)
InUse(v) ==
    /\ v \in nodeVolumesInUse
    /\ statusUpdate.pc \in {"asw", "patch"} => v \in statusUpdate.inUse

\* The synchronization has the mount still to look at.
Found(v, p) ==
    \/ \E x \in reconciler.work : x.vol = v /\ x.pod = p
    \/ /\ reconciler.pc # "sync"
       /\ reconciler.item.vol = v /\ reconciler.item.pod = p
    \/ reconciler.updates[v] = p

FoundInv ==
    /\ \A v \in AttachableVolumes : \A p \in PodsOf(v) :
         <<v, p>> \in podMounts =>
            /\ synced => Kept(v, p)
            /\ reconciler.pc \in SyncSteps => Kept(v, p) \/ Found(v, p)
    /\ reconciler.pc \in {"updateMounted", "updateDevice"} =>
         reconciler.item.vol \in attachedVolumes

\* The controller has been told of the volume, or need not be.
Told(v, p) == Gone(p) \/ v \in reportedInUse

TellsInv ==
    /\ reconciler.pc = "mount" => \A x \in reconciler.work :
         x.reportedInUse => Told(x.vol, x.pod)
    /\ \A r \in Routines : routines[r] # Idle =>
         /\ routines[r].kind \notin {"attach", "detach"}
         /\ routines[r].step = "verify" /\ routines[r].reportedInUse =>
              Told(routines[r].vol, routines[r].pod)

\* A mount of the volume is there, is made, or may be started.
Used(v, p) ==
    \/ v \in attachedVolumes
    \/ <<v, p>> \in podMounts
    \/ \E r \in Routines :
         /\ routines[r] # Idle /\ routines[r].vol = v /\ routines[r].pod = p
         /\ routines[r].kind = "mount" \/ routines[r].step = "markAttached"

UsedInv ==
    \A v \in AttachableVolumes : \A p \in PodsOf(v) :
        Used(v, p) => Gone(p) \/ InUse(v)

ControllerInv ==
    ControllerAttachDetachEnabled => FoundInv /\ TellsInv /\ UsedInv

(***************************************************************************)
(* The device of a volume of one pod stays attached until that pod is gone.*)
(***************************************************************************)
AttachedScheduled ==
    \A v \in deviceAttached \cap AttachableVolumes : \A p \in PodsOf(v) :
        phase[p] # "unscheduled"

ControllerDetaches ==
    \A v \in AttachableVolumes : \A p \in PodsOf(v) :
        /\ detaching[v] = "unreported" => phase[p] \in {"terminated", "deleted"}
        /\ detaching[v] = "verified" => Gone(p)

DetachWorkKept ==
    reconciler.pc = "detach" =>
        \A x \in reconciler.work : \A p \in PodsOf(x.vol) : Kept(x.vol, p)

\* A volume the kubelet takes to be attached is to be mounted, once the
\* synchronization that has found it is done with it.
AttachedKept ==
    \A v \in attachedVolumes : \A p \in PodsOf(v) :
        \/ Kept(v, p)
        \/ reconciler.pc \in UpdateSteps /\ reconciler.item.vol = v

KubeletDetaches ==
    \A r \in Routines : routines[r] # Idle /\ routines[r].kind = "detach" =>
        \A p \in PodsOf(routines[r].vol) : Gone(p)

DetachInv ==
    /\ AttachedScheduled /\ ControllerDetaches /\ DetachWorkKept
    /\ AttachedKept /\ KubeletDetaches

AttachedInv ==
    /\ \A r \in Routines :
         /\ routines[r] # Idle /\ routines[r].vol \in AttachableVolumes
         /\ routines[r].step \in {"markDeviceMounted", "setUp"}
         => Gone(routines[r].pod) \/ routines[r].vol \in deviceAttached
    /\ \A v \in AttachableVolumes : \A p \in PodsOf(v) :
         <<v, p>> \in podMounts => Gone(p) \/ v \in deviceAttached

-----------------------------------------------------------------------------
(***************************************************************************)
(* What the threads leave alone.                                           *)
(***************************************************************************)
LEMMA PodFrame ==
    ASSUME NEW q \in Pods, PodStep(q)
    PROVE  UNCHANGED <<routines, deviceAttached, deviceMounts, podMounts,
                       attachedVolumes, mountedPods, podsToMount, reportedInUse,
                       reconciler, synced, nodeVolumesInUse, statusUpdate, detaching>>
  BY DEF PodStep, AddPod, StopContainers, TerminatePod, DeletePod,
     dispatchWork, ReprocessPod, MarkRemountRequired,
     WaitSucceeds, WaitTimesOut, StartContainers,
     asw!MarkRemountRequired, execVars, opVars, hostVars, aswVars, dswVars,
     managerVars, nodeVars, controllerVars

LEMMA PopulatorFrame ==
    ASSUME PopulatorAny
    PROVE  UNCHANGED <<routines, deviceAttached, deviceMounts, podMounts,
                       attachedVolumes, mountedPods, phase, running, startedLate,
                       podManager, reconciler, synced, nodeVolumesInUse,
                       statusUpdate, detaching>>
  BY DEF PopulatorAny, PopulatorStep, FindPods, MarkPodProcessed, FindDeletedPods,
     SkipDeletedPods, EndRemove, ProcessPod, AddVolume, RemoveItem, AddVolumeFails,
     GetPodsFails, populatorUnchanged, opVars, hostVars, aswVars, podVars, nodeVars,
     controllerVars

LEMMA ReconcilerFrame ==
    ASSUME ReconcilerStep
    PROVE  UNCHANGED <<deviceAttached, deviceMounts, podMounts, phase, running,
                       startedLate, podManager, reportedInUse, nodeVolumesInUse,
                       statusUpdate, detaching>>
  BY DEF ReconcilerStep, NextPass, SyncScan, SyncEnd, SyncPending, SyncDesired,
     SyncActual, UpdateMounted, UpdateDevice, UpdateDesired, ReconcileUnmount,
     ReconcileMount, ReconcileDetach, SyncReconstruct, UpdateAttached,
     dsw!AddPodToVolume, reconcilerUnchanged, hostVars, podVars, dswVars, nodeVars,
     controllerVars

LEMMA ExecutorFrame ==
    ASSUME (\E r \in Routines : Executor(AnyStep(r))) \/ Executor(Tick)
    PROVE  UNCHANGED <<phase, running, startedLate, podManager, podsToMount,
                       reportedInUse, reconciler, synced, nodeVolumesInUse,
                       statusUpdate, detaching>>
  BY DEF Executor, podVars, dswVars, managerVars, nodeVars, controllerVars

LEMMA TickFrame ==
    ASSUME Executor(Tick)
    PROVE  UNCHANGED <<routines, deviceAttached, deviceMounts, podMounts,
                       attachedVolumes, mountedPods>>
  BY DEF Executor, Tick, hostVars, aswVars

LEMMA StatusFrame ==
    ASSUME StatusStep \/ PatchStatusFails
    PROVE  UNCHANGED <<routines, deviceAttached, deviceMounts, podMounts,
                       attachedVolumes, mountedPods, phase, running, startedLate,
                       podManager, podsToMount, reconciler, synced, detaching>>
  BY DEF StatusStep, UpdateStatus, GetGloballyMounted, PatchStatus, PatchStatusFails,
     MarkVolumesAsReportedInUse, statusUnchanged, dsw!MarkVolumesReportedInUse,
     opVars, hostVars, aswVars, podVars, managerVars, controllerVars, dswVars

LEMMA ControllerFrame ==
    ASSUME NEW w \in Volumes, ControllerStep(w)
    PROVE  /\ ControllerAttachDetachEnabled
           /\ UNCHANGED <<routines, deviceMounts, podMounts, attachedVolumes,
                          mountedPods, phase, running, startedLate,
                          podManager, podsToMount, reportedInUse, reconciler, synced,
                          nodeVolumesInUse, statusUpdate>>
  BY DEF ControllerStep, ControllerAttach, ProcessVolumesInUse, ControllerUnreport,
     VerifySafeToDetach, ControllerDetach, controllerUnchanged, opVars, aswVars,
     dswVars, podVars, managerVars

LEMMA RestartFrame ==
    ASSUME Restart
    PROVE  /\ UNCHANGED <<deviceAttached, deviceMounts, podMounts, phase, running,
                          startedLate, nodeVolumesInUse, detaching>>
           /\ \A r \in Routines : routines'[r] = Idle
           /\ attachedVolumes' = {} /\ reportedInUse' = {} /\ ~synced'
           /\ reconciler' = IdleReconciler /\ statusUpdate' = IdleStatus
  BY DEF Restart, hostVars, controllerVars

LEMMA StutterFrame ==
    ASSUME UNCHANGED vars
    PROVE  UNCHANGED <<routines, deviceAttached, deviceMounts, podMounts,
                       attachedVolumes, mountedPods, phase, running, startedLate,
                       podManager, podsToMount, reportedInUse, reconciler, synced,
                       nodeVolumesInUse, statusUpdate, detaching>>
  BY DEF vars, execVars, opVars, hostVars, aswVars, dswVars, podVars, managerVars,
     nodeVars, controllerVars

(***************************************************************************)
(* A pod that is gone stays gone, and one that is kept is kept until the   *)
(* kubelet restarts.                                                       *)
(***************************************************************************)
LEMMA PodsStay ==
    ASSUME VMTypes, KeepInv, [Next]_vars
    PROVE  /\ \A p \in Pods : Gone(p) => Gone(p)'
           /\ \A p \in Pods : phase[p] # "unscheduled" => phase'[p] # "unscheduled"
           /\ \A p \in Pods : phase[p] \in {"terminated", "deleted"} =>
                phase'[p] \in {"terminated", "deleted"}
<1>1. CASE UNCHANGED <<phase, running, startedLate>>
  BY <1>1 DEF Gone, OnTime
<1>2. ASSUME NEW q \in Pods, PodStep(q)
      PROVE  /\ \A p \in Pods : Gone(p) => Gone(p)'
             /\ \A p \in Pods : phase[p] # "unscheduled" => phase'[p] # "unscheduled"
             /\ \A p \in Pods : phase[p] \in {"terminated", "deleted"} =>
                  phase'[p] \in {"terminated", "deleted"}
  <2>1. phase \in [Pods -> Phases] /\ startedLate \subseteq running
    BY DEF VMTypes, PodTypes
  <2>2. \/ phase' = [phase EXCEPT ![q] = IF @ = "unscheduled" THEN "active" ELSE @]
           /\ UNCHANGED OnTime
        \/ OnTime' \subseteq OnTime
           /\ \/ UNCHANGED phase
              \/ phase' = [phase EXCEPT ![q] = "deleted"]
              \/ phase' = [phase EXCEPT ![q] = "terminated"] /\ phase[q] = "active"
        \/ UNCHANGED phase /\ OnTime' = OnTime \cup {q} /\ phase[q] = "active"
    <3> USE DEF OnTime
    <3>1. CASE AddPod(q) \/ TerminatePod(q) \/ DeletePod(q)
      BY <3>1 DEF AddPod, TerminatePod, DeletePod
    <3>2. CASE StopContainers(q) \/ dispatchWork(q) \/ ReprocessPod(q)
               \/ MarkRemountRequired(q) \/ WaitSucceeds(q) \/ WaitTimesOut(q)
      BY <3>2 DEF StopContainers, dispatchWork, ReprocessPod, MarkRemountRequired,
         WaitSucceeds, WaitTimesOut
    <3>3. CASE StartContainers(q)
      <4>1. UNCHANGED phase /\ running' = running \cup {q}
            /\ startedLate' = IF q \in running \/ phase[q] = "active"
                              THEN startedLate ELSE startedLate \cup {q}
        BY <3>3 DEF StartContainers
      <4>2. CASE q \in running
        BY <4>1, <4>2
      <4>3. CASE q \notin running /\ phase[q] = "active"
        BY <2>1, <4>1, <4>3
      <4>4. CASE q \notin running /\ phase[q] # "active"
        BY <4>1, <4>4
      <4> QED
        BY <4>2, <4>3, <4>4
    <3> QED
      BY <1>2, <3>1, <3>2, <3>3 DEF PodStep
  <2> QED
    BY <2>1, <2>2 DEF Gone
<1> QED
  BY <1>1, <1>2, NextCases, PopulatorFrame, ReconcilerFrame, ExecutorFrame,
     StatusFrame, ControllerFrame, RestartFrame, StutterFrame

LEMMA KeptStays ==
    ASSUME VMTypes, KeepInv, OneListing, [Next]_vars, ~Restart,
           NEW v \in Volumes, NEW p \in PodsOf(v), Kept(v, p)
    PROVE  Kept(v, p)'
<1>1. p \in Pods /\ (Gone(p) => Gone(p)')
  BY ItemParts, PodsStay
<1>2. CASE UNCHANGED podsToMount
  BY <1>1, <1>2 DEF Kept
<1>3. CASE PopulatorAny
  <2>1. PopulatorGoal
    BY <1>3, PopulatorFrame, PopulatorReaches
  <2> QED
    BY <1>1, <2>1 DEF PopulatorGoal, Kept
<1>4. CASE ReconcilerStep
  <2>1. UNCHANGED podsToMount \/ UpdateDesired
    BY <1>4 DEF ReconcilerStep, NextPass, SyncScan, SyncEnd, SyncPending,
       SyncDesired, SyncActual, UpdateMounted, UpdateDevice, ReconcileUnmount,
       ReconcileMount, ReconcileDetach, SyncReconstruct, UpdateAttached, dswVars
  <2>2. CASE UpdateDesired
    <3>1. podsToMount[v] \subseteq podsToMount'[v]
      BY <2>2 DEF UpdateDesired, dsw!AddPodToVolume, VMTypes, DswTypes, dsw!TypeOK
    <3> QED
      BY <1>1, <3>1 DEF Kept
  <2> QED
    BY <1>2, <2>1, <2>2
<1> QED
  BY <1>2, <1>3, <1>4, NextCases, PodFrame, ExecutorFrame, StatusFrame,
     ControllerFrame, StutterFrame

(***************************************************************************)
(* A volume that counts as reported does so until its pod is gone, ...     *)
(***************************************************************************)
LEMMA ReportedStays ==
    ASSUME VMTypes, KeepInv, InUseInv, [Next]_vars, ~Restart,
           NEW v \in Volumes, OnePod(v), NEW p \in PodsOf(v), v \in reportedInUse
    PROVE  v \in reportedInUse' \/ Gone(p)'
<1>1. p \in Pods /\ (Gone(p) => Gone(p)')
  BY ItemParts, PodsStay
<1>2. CASE UNCHANGED reportedInUse
  BY <1>2
<1>3. CASE PopulatorAny
  <2>1. ASSUME NEW x \in populator.items, RemoveItem(x)
        PROVE  v \in reportedInUse' \/ Gone(p)
    <3>1. x.vol \in Volumes /\ x.pod \in PodsOf(x.vol)
      BY ItemParts DEF VMTypes, PopulatorTypes
    <3>2. CASE x.vol = v
      <4>1. x.pod = p
        BY <3>1, <3>2 DEF OnePod
      <4>2. UNCHANGED dswVars \/ Gone(x.pod)
        BY <2>1, RemovedIsGone DEF RemoveItem
      <4> QED
        BY <4>1, <4>2 DEF dswVars
    <3>3. CASE x.vol # v
      BY <2>1, <3>3 DEF RemoveItem, dswVars, dsw!DeletePodFromVolume
    <3> QED
      BY <3>2, <3>3
  <2> QED
    BY <1>1, <1>2, <1>3, <2>1 DEF PopulatorAny, PopulatorStep, FindPods,
       MarkPodProcessed, FindDeletedPods, SkipDeletedPods, EndRemove, ProcessPod,
       AddVolume, AddVolumeFails, GetPodsFails, dsw!AddPodToVolume, dswVars
<1>4. CASE MarkVolumesAsReportedInUse
  BY <1>4 DEF MarkVolumesAsReportedInUse, dsw!MarkVolumesReportedInUse,
     dsw!VolumeExists, InUseInv, ReportedIsInUse, ReportedIsDesired, ReportedIsSent
<1>5. CASE StatusStep \/ PatchStatusFails
  BY <1>2, <1>4, <1>5 DEF StatusStep, UpdateStatus, GetGloballyMounted, PatchStatus,
     PatchStatusFails, dswVars
<1> QED
  BY <1>2, <1>3, <1>5, NextCases, PodFrame, ReconcilerFrame, ExecutorFrame,
     ControllerFrame, StutterFrame

(***************************************************************************)
(* ... and one the controller is told of stays in the status, unless the   *)
(* status is computed from a desired state that does not have it.          *)
(***************************************************************************)
LEMMA InUseStays ==
    ASSUME InUseInv, [Next]_vars, NEW v \in AttachableVolumes, InUse(v),
           UpdateStatus /\ synced => podsToMount[v] # {}
    PROVE  InUse(v)'
<1> USE DEF InUse
<1>1. CASE UNCHANGED <<nodeVolumesInUse, statusUpdate>>
  BY <1>1
<1>2. CASE UpdateStatus
  <2>1. UNCHANGED nodeVolumesInUse
    BY <1>2 DEF UpdateStatus
  <2>2. CASE synced
    BY <1>2, <2>1, <2>2 DEF UpdateStatus, dsw!VolumeExists
  <2>3. CASE ~synced
    BY <1>2, <2>1, <2>3 DEF UpdateStatus
  <2> QED
    BY <2>2, <2>3
<1>3. CASE GetGloballyMounted
  BY <1>3 DEF GetGloballyMounted
<1>4. CASE PatchStatus
  BY <1>4 DEF PatchStatus, InUseInv, ReportedIsSent
<1>5. CASE PatchStatusFails \/ MarkVolumesAsReportedInUse
  BY <1>5 DEF PatchStatusFails, MarkVolumesAsReportedInUse, IdleStatus
<1>6. CASE Restart
  BY <1>6, RestartFrame DEF IdleStatus
<1> QED
  BY <1>1, <1>2, <1>3, <1>4, <1>5, <1>6, NextCases, PodFrame, PopulatorFrame,
     ReconcilerFrame, ExecutorFrame, ControllerFrame, StutterFrame DEF StatusStep

(***************************************************************************)
(* The operations the reconciler starts, and on which readings.            *)
(***************************************************************************)
MountTask(t, x) ==
    /\ t.vol = x.vol /\ t.pod = x.pod /\ t.reportedInUse = x.reportedInUse
    /\ t.kind \in MountKinds /\ t.step = FirstStep(t.kind, t.vol)
    /\ t.kind = "mount" => t.vol \in attachedVolumes
    /\ t.kind = "attach" => ~ControllerAttachDetachEnabled

DetachTask(t, x) ==
    /\ t.vol = x.vol /\ podsToMount[t.vol] = {}
    /\ t.kind \in {"unmountDevice", "detach"} /\ t.step = FirstStep(t.kind, t.vol)
    /\ t.kind = "detach" => ~ControllerAttachDetachEnabled

StartedTask(t) ==
    \/ t.kind = "unmount" /\ t.step = "tearDown"
    \/ reconciler.pc = "mount" /\ \E x \in reconciler.work : MountTask(t, x)
    \/ reconciler.pc = "detach" /\ \E x \in reconciler.work : DetachTask(t, x)

LEMMA StartTask ==
    ASSUME OpTypes, NEW kind, NEW v, NEW p, NEW b, Start(kind, v, p, b),
           NEW s \in Routines
    PROVE  \/ routines'[s] = routines[s]
           \/ /\ routines'[s].kind = kind /\ routines'[s].vol = v
              /\ routines'[s].pod = p /\ routines'[s].reportedInUse = b
              /\ routines'[s].step = FirstStep(kind, v)
<1> DEFINE t == [kind |-> kind, vol |-> v, pod |-> p, reportedInUse |-> b,
                 step |-> FirstStep(kind, v)]
           r == Min(FreeRoutines)
<1>1. UNCHANGED routines \/ routines' = [routines EXCEPT ![r] = t]
  BY DEF Start, opVars
<1>2. /\ t.kind = kind /\ t.vol = v /\ t.pod = p /\ t.reportedInUse = b
      /\ t.step = FirstStep(kind, v)
  OBVIOUS
<1> HIDE DEF t, r
<1>3. routines'[s] \in {routines[s], t}
  BY <1>1 DEF OpTypes
<1> QED
  BY <1>2, <1>3

LEMMA MountStarts ==
    ASSUME VMTypes, NEW x \in reconciler.work, ReconcileMount(x), NEW s \in Routines
    PROVE  routines'[s] = routines[s] \/ MountTask(routines'[s], x)
<1> DEFINE b == x.reportedInUse
<1>1. CASE UNCHANGED opVars
  BY <1>1 DEF opVars
<1>2. ASSUME NEW kind \in MountKinds, Start(kind, x.vol, x.pod, b),
             kind = "mount" => x.vol \in attachedVolumes,
             kind = "attach" => ~ControllerAttachDetachEnabled
      PROVE  routines'[s] = routines[s] \/ MountTask(routines'[s], x)
  <2> HIDE DEF b
  <2>1. \/ routines'[s] = routines[s]
        \/ /\ routines'[s].kind = kind /\ routines'[s].vol = x.vol
           /\ routines'[s].pod = x.pod /\ routines'[s].reportedInUse = b
           /\ routines'[s].step = FirstStep(kind, x.vol)
    BY <1>2, StartTask DEF VMTypes
  <2> QED
    BY <1>2, <2>1 DEF MountTask, b
<1>3. CASE ~asw!VolumeExists(x.vol)
  <2>1. CASE ControllerAttachDetachEnabled \/ x.vol \notin AttachableVolumes
    <3>1. Start("verify", x.vol, x.pod, b)
      BY <1>3, <2>1 DEF ReconcileMount
    <3> QED
      BY <1>2, <3>1 DEF MountKinds
  <2>2. CASE ~(ControllerAttachDetachEnabled \/ x.vol \notin AttachableVolumes)
    <3>1. Start("attach", x.vol, x.pod, b)
      BY <1>3, <2>2 DEF ReconcileMount
    <3> QED
      BY <1>2, <2>2, <3>1 DEF MountKinds
  <2> QED
    BY <2>1, <2>2
<1>4. CASE asw!VolumeExists(x.vol)
  <2>1. UNCHANGED opVars \/ Start("mount", x.vol, x.pod, b)
    BY <1>4 DEF ReconcileMount
  <2> QED
    BY <1>1, <1>2, <1>4, <2>1 DEF MountKinds, asw!VolumeExists
<1> QED
  BY <1>3, <1>4

LEMMA DetachStarts ==
    ASSUME VMTypes, NEW x \in reconciler.work, ReconcileDetach(x), NEW s \in Routines
    PROVE  routines'[s] = routines[s] \/ DetachTask(routines'[s], x)
<1>1. CASE UNCHANGED opVars
  BY <1>1 DEF opVars
<1>2. ASSUME NEW kind \in {"unmountDevice", "detach"}, NEW b,
             Start(kind, x.vol, NoPod, b), podsToMount[x.vol] = {},
             kind = "detach" => ~ControllerAttachDetachEnabled
      PROVE  routines'[s] = routines[s] \/ DetachTask(routines'[s], x)
  <2>1. \/ routines'[s] = routines[s]
        \/ /\ routines'[s].kind = kind /\ routines'[s].vol = x.vol
           /\ routines'[s].step = FirstStep(kind, x.vol)
    BY <1>2, StartTask DEF VMTypes
  <2> QED
    BY <1>2, <2>1 DEF DetachTask
<1>3. CASE dsw!VolumeExists(x.vol)
  BY <1>1, <1>3 DEF ReconcileDetach
<1>4. CASE ~dsw!VolumeExists(x.vol)
  <2> DEFINE b == FALSE
  <2>1. podsToMount[x.vol] = {}
    BY <1>4 DEF dsw!VolumeExists
  <2>2. \/ UNCHANGED opVars
        \/ Start("unmountDevice", x.vol, NoPod, b)
        \/ Start("detach", x.vol, NoPod, b) /\ ~ControllerAttachDetachEnabled
    BY <1>4 DEF ReconcileDetach
  <2> HIDE DEF b
  <2> QED
    BY <1>1, <1>2, <2>1, <2>2
<1> QED
  BY <1>3, <1>4

LEMMA ReconcilerNew ==
    ASSUME VMTypes, ReconcilerStep, NEW s \in Routines
    PROVE  routines'[s] = routines[s] \/ StartedTask(routines'[s])
<1>1. CASE UNCHANGED opVars
  BY <1>1 DEF opVars
<1>2. ASSUME NEW x \in reconciler.work, ReconcileUnmount(x)
      PROVE  routines'[s] = routines[s] \/ StartedTask(routines'[s])
  <2> DEFINE b == FALSE
  <2>1. UNCHANGED opVars \/ Start("unmount", x.vol, x.pod, b)
    BY <1>2 DEF ReconcileUnmount
  <2> HIDE DEF b
  <2>2. CASE Start("unmount", x.vol, x.pod, b)
    <3>1. \/ routines'[s] = routines[s]
          \/ /\ routines'[s].kind = "unmount"
             /\ routines'[s].step = FirstStep("unmount", x.vol)
      BY <2>2, StartTask DEF VMTypes
    <3> QED
      BY <3>1 DEF StartedTask, FirstStep
  <2> QED
    BY <1>1, <2>1, <2>2
<1>3. ASSUME NEW x \in reconciler.work, ReconcileMount(x)
      PROVE  routines'[s] = routines[s] \/ StartedTask(routines'[s])
  <2>1. reconciler.pc = "mount"
    BY <1>3 DEF ReconcileMount
  <2> QED
    BY <1>3, <2>1, MountStarts DEF StartedTask
<1>4. ASSUME NEW x \in reconciler.work, ReconcileDetach(x)
      PROVE  routines'[s] = routines[s] \/ StartedTask(routines'[s])
  <2>1. reconciler.pc = "detach"
    BY <1>4 DEF ReconcileDetach
  <2> QED
    BY <1>4, <2>1, DetachStarts DEF StartedTask
<1> QED
  BY <1>1, <1>2, <1>3, <1>4 DEF ReconcilerStep, NextPass, SyncScan, SyncEnd,
     SyncPending, SyncDesired, SyncActual, SyncReconstruct, UpdateAttached,
     UpdateMounted, UpdateDevice, UpdateDesired

\* A verification succeeds on the strength of the mark it was given, and
\* only a detach takes a volume out of the actual state of the world.
LEMMA VerifyTells ==
    ASSUME OpTypes, NEW r \in Routines, AnyStep(r), routines[r].step = "verify",
           routines'[r] # Idle, routines'[r].step = "markAttached",
           routines[r].vol \in AttachableVolumes
    PROVE  routines[r].reportedInUse
<1>1. routines[r] # Idle
  BY RoutineEffect DEF Ends, Moves
<1>2. Verify(r) \/ CallFails(r)
  BY <1>1 DEF At, AnyStep, RoutineStep, Attach, MarkAttached,
     MountDevice, MarkDeviceMounted, SetUp, MarkMounted, TearDown, MarkUnmounted,
     CheckRefs, UnmountDevice, MarkDeviceUnmounted, Detach, MarkDetached, Complete,
     DeviceStillOpen
<1>3. ~Goto(r, "failed")
  BY <1>1, GotoStep
<1>4. Verify(r)
  BY <1>2, <1>3 DEF CallFails
<1>5. CASE ~routines[r].reportedInUse
  BY <1>3, <1>4, <1>5 DEF Verify
<1> QED
  BY <1>5

LEMMA DetachDrops ==
    ASSUME OpTypes, NEW r \in Routines, AnyStep(r), routines[r].kind # "detach"
    PROVE  attachedVolumes \subseteq attachedVolumes'
<1>1. ~MarkDetached(r)
  BY TaskKind DEF MarkDetached
<1> QED
  BY <1>1 DEF AnyStep, RoutineStep, Verify, Attach, MarkAttached,
     MountDevice, MarkDeviceMounted, SetUp, MarkMounted, TearDown, MarkUnmounted,
     CheckRefs, UnmountDevice, MarkDeviceUnmounted, Detach, Complete, CallFails,
     DeviceStillOpen, aswVars, asw!MarkVolumeAsAttached, asw!MarkDeviceAsMounted,
     asw!MarkVolumeAsMounted, asw!MarkVolumeAsUnmounted, asw!MarkDeviceAsUnmounted

(***************************************************************************)
(* The synchronization loses no mount of a pod that is not kept, ...       *)
(***************************************************************************)
LEMMA SyncFinds ==
    ASSUME VMTypes, KeepInv, FoundInv, ReconcilerStep,
           NEW v \in AttachableVolumes, OnePod(v), NEW p \in PodsOf(v),
           <<v, p>> \in podMounts, ~Kept(v, p), reconciler'.pc \in SyncSteps
    PROVE  Found(v, p)' \/ p \in podsToMount'[v]
<1> USE DEF ReconcilerIs, SyncSteps, CheckSteps, UpdateSteps
<1>1. v \in Volumes /\ ~synced
  BY VolumeKindsAssumption DEF FoundInv
<1>2. reconciler.pc \in SyncSteps => Found(v, p)
  BY DEF FoundInv
<1>3. /\ reconciler.updates \in [Volumes -> PodNames]
      /\ reconciler.pc \in SyncSteps \ {"sync"} => reconciler.item \in MountItem
      /\ reconciler.pc \in SyncSteps => reconciler.work \subseteq MountItem
      /\ DOMAIN reconciler = {"pc", "work", "item", "updates"}
  BY DEF VMTypes, ReconcilerTypes
<1>4. ASSUME \/ NextPass
             \/ \E x \in reconciler.work :
                  ReconcileUnmount(x) \/ ReconcileMount(x) \/ ReconcileDetach(x)
      PROVE  FALSE
  BY <1>4, PassEffect
<1>5. CASE SyncScan
  <2>1. reconciler'.work = OnDisk
    BY <1>5, SyncEffect
  <2>2. [vol |-> <<v, p>>[1], pod |-> <<v, p>>[2]] \in OnDisk
    BY DEF OnDisk
  <2> QED
    BY <2>1, <2>2 DEF Found
<1>6. ASSUME NEW x \in reconciler.work, SyncReconstruct(x)
      PROVE  Found(v, p)'
  <2>1. /\ reconciler'.work = reconciler.work \ {x} /\ reconciler'.item = x
        /\ reconciler'.updates = reconciler.updates /\ reconciler.pc = "sync"
        /\ <<x.vol, x.pod>> \in podMounts => reconciler'.pc = "checkPending"
    BY <1>6, SyncEffect DEF SyncReconstruct
  <2> QED
    BY <1>2, <2>1 DEF Found
<1>7. CASE SyncPending
  <2>1. reconciler' = [reconciler EXCEPT !.pc = "checkDesired"]
        /\ reconciler.pc = "checkPending"
    BY <1>1, <1>7 DEF SyncPending
  <2> QED
    BY <1>2, <1>3, <2>1 DEF Found
<1>8. CASE SyncDesired
  <2>1. reconciler.pc = "checkDesired" /\ Found(v, p)
    BY <1>2, <1>8 DEF SyncDesired
  <2>2. /\ reconciler'.work = reconciler.work /\ reconciler'.item = reconciler.item
        /\ reconciler'.updates = reconciler.updates
    BY <1>8, SyncEffect
  <2>3. CASE reconciler.item.vol \in AttachableVolumes
    <3>1. reconciler' = [reconciler EXCEPT !.pc = "checkActual"]
      BY <1>1, <1>8, <2>3 DEF SyncDesired
    <3> QED
      BY <1>3, <2>1, <2>2, <3>1 DEF Found
  <2>4. CASE reconciler.item.vol \notin AttachableVolumes
    BY <2>1, <2>2, <2>4 DEF Found
  <2> QED
    BY <2>3, <2>4
<1>9. CASE SyncActual
  <2> DEFINE x == reconciler.item
  <2>1. reconciler.pc = "checkActual" /\ Found(v, p) /\ x \in MountItem
    BY <1>2, <1>3, <1>9 DEF SyncActual
  <2>2. PICK q \in {x.pod, reconciler.updates[x.vol]} :
           /\ reconciler'.work = reconciler.work
           /\ reconciler'.updates = [reconciler.updates EXCEPT ![x.vol] = q]
    BY <1>9, SyncEffect
  <2>3. x.vol \in Volumes /\ (x.vol = v => x.pod = p)
    BY <2>1, ItemParts DEF OnePod
  <2>4. CASE x.vol = v
    <3>1. p \notin mountedPods[v]
      BY <1>1, <2>1 DEF KeepInv, KeptInv, MountsKept
    <3>2. reconciler' = [reconciler EXCEPT !.pc = "sync", !.updates[x.vol] = x.pod]
      BY <1>9, <2>3, <2>4, <3>1 DEF SyncActual, asw!PodExistsInVolume
    <3>3. reconciler'.updates = [reconciler.updates EXCEPT ![x.vol] = x.pod]
      BY <1>3, <3>2
    <3>4. reconciler'.updates[v] = p
      BY <1>3, <2>3, <2>4, <3>3
    <3> QED
      BY <3>4 DEF Found
  <2>5. CASE x.vol # v
    <3>1. reconciler'.updates[v] = reconciler.updates[v]
      BY <1>1, <1>3, <2>2, <2>5
    <3> QED
      BY <2>1, <2>2, <2>5, <3>1 DEF Found
  <2> QED
    BY <2>4, <2>5
<1>10. ASSUME NEW w \in Volumes, UpdateAttached(w)
       PROVE  Found(v, p)'
  <2>1. /\ reconciler'.pc = "updateMounted" /\ reconciler'.item.vol = w
        /\ reconciler'.item.pod = reconciler.updates[w]
        /\ reconciler'.updates = [reconciler.updates EXCEPT ![w] = NoPod]
        /\ reconciler.pc = "sync" /\ reconciler.work = {}
    BY <1>10, UpdateEffect DEF UpdateAttached
  <2>2. reconciler.updates[v] = p
    BY <1>2, <2>1 DEF Found
  <2> QED
    BY <1>1, <1>3, <2>1, <2>2 DEF Found
<1>11. CASE UpdateMounted \/ UpdateDevice
  <2>1. /\ reconciler.pc \in {"updateMounted", "updateDevice"}
        /\ asw!VolumeExists(reconciler.item.vol)
    BY <1>11 DEF UpdateMounted, UpdateDevice, FoundInv, asw!VolumeExists
  <2>2. \E pc \in {"updateDevice", "updateDesired"} :
           reconciler' = [reconciler EXCEPT !.pc = pc]
    BY <1>11, <2>1 DEF UpdateMounted, UpdateDevice
  <2> QED
    BY <1>2, <1>3, <2>1, <2>2 DEF Found
<1>12. CASE UpdateDesired
  <2>1. /\ reconciler'.work = reconciler.work /\ reconciler'.updates = reconciler.updates
        /\ reconciler.pc = "updateDesired" /\ reconciler.item \in MountItem
        /\ podsToMount' = [podsToMount EXCEPT ![reconciler.item.vol] =
                             @ \cup {reconciler.item.pod}]
    BY <1>3, <1>12, UpdateEffect DEF UpdateDesired, dsw!AddPodToVolume
  <2>2. CASE reconciler.item.vol = v /\ reconciler.item.pod = p
    BY <1>1, <2>1, <2>2 DEF VMTypes, DswTypes, dsw!TypeOK
  <2>3. CASE ~(reconciler.item.vol = v /\ reconciler.item.pod = p)
    BY <1>2, <2>1, <2>3 DEF Found
  <2> QED
    BY <2>2, <2>3
<1>13. CASE SyncEnd
  BY <1>13, UpdateEffect
<1> QED
  BY <1>4, <1>5, <1>6, <1>7, <1>8, <1>9, <1>10, <1>11, <1>12, <1>13 DEF ReconcilerStep

\* ... and what it enters is not dropped meanwhile.
LEMMA UpdatesAttached ==
    ASSUME VMTypes, FoundInv, ReconcilerStep,
           reconciler'.pc \in {"updateMounted", "updateDevice"}
    PROVE  reconciler'.item.vol \in attachedVolumes'
<1> USE DEF ReconcilerIs
<1>1. ASSUME NEW w \in Volumes, UpdateAttached(w)
      PROVE  reconciler'.item.vol \in attachedVolumes'
  BY <1>1, UpdateEffect DEF UpdateAttached, asw!MarkVolumeAsAttached
<1>2. CASE UpdateMounted
  <2>1. reconciler'.item = reconciler.item /\ reconciler.pc = "updateMounted"
    BY <1>2, UpdateEffect DEF UpdateMounted
  <2>2. UNCHANGED attachedVolumes
    BY <1>2, UpdateEffect DEF aswVars, asw!MarkVolumeAsMounted
  <2> QED
    BY <2>1, <2>2 DEF FoundInv
<1> QED
  BY <1>1, <1>2, PassEffect, SyncEffect, UpdateEffect DEF ReconcilerStep

LEMMA FoundStep ==
    ASSUME VMTypes, KeepInv, OneListing, \A v \in Volumes : OnePod(v),
           FoundInv, TellsInv, [Next]_vars
    PROVE  FoundInv'
<1>1. ASSUME NEW v \in AttachableVolumes, NEW p \in PodsOf(v), <<v, p>> \in podMounts'
      PROVE  /\ synced' => Kept(v, p)'
             /\ reconciler'.pc \in SyncSteps => Kept(v, p)' \/ Found(v, p)'
  <2>1. v \in Volumes /\ OnePod(v) /\ p \in Pods
    BY VolumeKindsAssumption, ItemParts
  <2>2. CASE Restart
    BY <2>2, RestartFrame, IdleReconcilerParts DEF SyncSteps, CheckSteps, UpdateSteps
  <2>3. CASE Kept(v, p) /\ ~Restart
    BY <2>1, <2>3, KeptStays
  <2>4. CASE ~Kept(v, p) /\ ~Restart
    <3>1. <<v, p>> \in podMounts
      <4>1. ASSUME NEW r \in Routines, Executor(AnyStep(r)), <<v, p>> \notin podMounts
            PROVE  FALSE
        <5>1. StepEffect(r)
          BY <4>1, AnyEffect DEF Executor, VMTypes
        <5>2. /\ routines[r].step = "setUp" /\ routines[r] # Idle
              /\ routines[r].vol = v /\ routines[r].pod = p
          BY <1>1, <4>1, <5>1 DEF StepEffect, HostEffect
        <5>3. routines[r].kind = "mount"
          BY <5>2, TaskKind DEF At, VMTypes
        <5> QED
          BY <2>4, <5>2, <5>3 DEF KeepInv, KeptInv, RoutinesKept, MountKinds
      <4> QED
        BY <1>1, <2>4, <4>1, NextCases, PodFrame, PopulatorFrame, ReconcilerFrame,
           TickFrame, StatusFrame, ControllerFrame, StutterFrame
    <3>2. ~synced /\ (reconciler.pc \in SyncSteps => Found(v, p))
      BY <2>4, <3>1 DEF FoundInv
    <3>3. CASE UNCHANGED <<reconciler, synced>>
      BY <3>2, <3>3 DEF Found
    <3>4. CASE ReconcilerStep
      <4>1. ~SyncEnd
        <5> SUFFICES ASSUME SyncEnd PROVE FALSE
          OBVIOUS
        <5>1. /\ reconciler.pc = "sync" /\ reconciler.work = {}
              /\ reconciler.updates = NoUpdates
          BY DEF SyncEnd
        <5>2. reconciler.updates[v] = p
          BY <3>2, <5>1 DEF Found, SyncSteps
        <5>3. reconciler.updates[v] = NoPod
          BY <2>1, <5>1 DEF NoUpdates
        <5> QED
          BY <2>1, <5>2, <5>3, NamesAssumption
      <4>2. UNCHANGED synced
        BY <3>4, <4>1 DEF ReconcilerStep, NextPass, SyncScan, SyncPending,
           SyncDesired, SyncActual, SyncReconstruct, UpdateAttached, UpdateMounted,
           UpdateDevice, UpdateDesired, ReconcileUnmount, ReconcileMount, ReconcileDetach
      <4> QED
        BY <2>1, <2>4, <3>1, <3>2, <3>4, <4>2, SyncFinds DEF Kept
    <3> QED
      BY <2>4, <3>3, <3>4, NextCases, PodFrame, PopulatorFrame, ExecutorFrame,
         StatusFrame, ControllerFrame, StutterFrame
  <2> QED
    BY <2>2, <2>3, <2>4
<1>2. ASSUME reconciler'.pc \in {"updateMounted", "updateDevice"}
      PROVE  reconciler'.item.vol \in attachedVolumes'
  <2>1. CASE UNCHANGED reconciler /\ attachedVolumes \subseteq attachedVolumes'
    BY <1>2, <2>1 DEF FoundInv
  <2>2. ASSUME NEW r \in Routines, Executor(AnyStep(r))
        PROVE  UNCHANGED reconciler /\ attachedVolumes \subseteq attachedVolumes'
    <3>1. AnyStep(r) /\ UNCHANGED reconciler
      BY <2>2 DEF Executor, managerVars
    <3>2. routines[r].kind # "detach"
      BY <3>1, RoutineEffect DEF TellsInv, Ends, Moves, VMTypes
    <3> QED
      BY <3>1, <3>2, DetachDrops DEF VMTypes
  <2>3. CASE Restart
    BY <1>2, <2>3, RestartFrame, IdleReconcilerParts
  <2> QED
    BY <1>2, <2>1, <2>2, <2>3, UpdatesAttached, NextCases, PodFrame, PopulatorFrame,
       ExecutorFrame, TickFrame, StatusFrame, ControllerFrame, StutterFrame
<1> QED
  BY <1>1, <1>2 DEF FoundInv

(***************************************************************************)
(* A goroutine that verifies a volume on the strength of the mark does so  *)
(* while the mark is there, or its pod is gone.                            *)
(***************************************************************************)
LEMMA TellsStep ==
    ASSUME VMTypes, KeepInv, InUseInv, \A v \in Volumes : OnePod(v),
           ControllerAttachDetachEnabled, TellsInv, [Next]_vars
    PROVE  TellsInv'
<1>1. ASSUME ~Restart, NEW v \in Volumes, NEW p \in PodsOf(v), Told(v, p)
      PROVE  Told(v, p)'
  BY <1>1, ReportedStays, PodsStay, ItemParts DEF Told
<1>2. ASSUME reconciler'.pc = "mount", NEW x \in reconciler'.work, x.reportedInUse
      PROVE  Told(x.vol, x.pod)'
  <2>1. CASE reconciler.pc = "mount" /\ x \in reconciler.work /\ ~Restart
    <3>1. x.vol \in Volumes /\ x.pod \in PodsOf(x.vol)
      BY <2>1, ItemParts DEF VMTypes, ReconcilerTypes
    <3>2. Told(x.vol, x.pod)
      BY <1>2, <2>1 DEF TellsInv
    <3> QED
      BY <1>1, <2>1, <3>1, <3>2
  <2>2. CASE ReconcilerStep /\ ~(reconciler.pc = "mount" /\ x \in reconciler.work)
    <3>1. x \in dsw!GetVolumesToMount
      BY <1>2, <2>2, PassEffect, SyncEffect, UpdateEffect DEF ReconcilerStep, ReconcilerIs
    <3>2. x.vol \in reportedInUse
      <4>1. PICK y \in Volumes \X Pods :
              x = [vol |-> y[1], pod |-> y[2], reportedInUse |-> y[1] \in reportedInUse]
        BY <3>1 DEF dsw!GetVolumesToMount
      <4> DEFINE b == y[1] \in reportedInUse
      <4>2. x = [vol |-> y[1], pod |-> y[2], reportedInUse |-> b]
        BY <4>1
      <4> HIDE DEF b
      <4>3. x.vol = y[1] /\ x.reportedInUse = b
        BY <4>2
      <4> QED
        BY <1>2, <4>3 DEF b
    <3> QED
      BY <2>2, <3>2, ReconcilerFrame DEF Told
  <2>3. ~Restart
    BY <1>2, RestartFrame, IdleReconcilerParts
  <2> QED
    BY <1>2, <2>1, <2>2, <2>3, NextCases, PodFrame, PopulatorFrame, ExecutorFrame,
       StatusFrame, ControllerFrame, StutterFrame
<1>3. ASSUME NEW s \in Routines, routines'[s] # Idle
      PROVE  /\ routines'[s].kind \notin {"attach", "detach"}
             /\ routines'[s].step = "verify" /\ routines'[s].reportedInUse =>
                  Told(routines[s].vol, routines[s].pod)'
  <2> DEFINE Goal == /\ routines'[s].kind \notin {"attach", "detach"}
                     /\ routines'[s].step = "verify" /\ routines'[s].reportedInUse =>
                          Told(routines[s].vol, routines[s].pod)'
  <2>1. ~Restart
    BY <1>3, RestartFrame
  <2>2. CASE routines'[s] = routines[s]
    <3>1. routines[s].kind \notin {"attach", "detach"}
      BY <1>3, <2>2 DEF TellsInv
    <3>2. ASSUME routines[s].step = "verify", routines[s].reportedInUse
          PROVE  Told(routines[s].vol, routines[s].pod)'
      <4>1. routines[s].vol \in Volumes /\ routines[s].pod \in PodsOf(routines[s].vol)
        BY <1>3, <2>2, <3>2, TaskKind DEF At, VMTypes
      <4>2. Told(routines[s].vol, routines[s].pod)
        BY <1>3, <2>2, <3>2 DEF TellsInv
      <4>3. Gone(routines[s].pod)' \/ routines[s].vol \in reportedInUse'
        BY <1>1, <2>1, <2>2, <4>1, <4>2 DEF Told, Gone
      <4> QED
        BY <2>2, <4>3 DEF Told, Gone
    <3> QED
      BY <2>2, <3>1, <3>2
  <2>3. CASE ReconcilerStep /\ routines'[s] # routines[s]
    <3>1. StartedTask(routines'[s])
      BY <2>3, ReconcilerNew
    <3>2. CASE routines'[s].kind = "unmount" /\ routines'[s].step = "tearDown"
      BY <3>2
    <3>3. ASSUME reconciler.pc = "mount", NEW x \in reconciler.work,
                 MountTask(routines'[s], x)
          PROVE  Goal
      <4>1. x.vol \in Volumes /\ x.pod \in PodsOf(x.vol)
        BY <3>3, ItemParts DEF VMTypes, ReconcilerTypes
      <4>2. /\ routines'[s].vol = x.vol /\ routines'[s].pod = x.pod
            /\ routines'[s].reportedInUse = x.reportedInUse
            /\ routines'[s].kind \notin {"attach", "detach"}
        BY <3>3 DEF MountTask, MountKinds
      <4>3. routines'[s].reportedInUse => Told(x.vol, x.pod)
        BY <3>3, <4>2 DEF TellsInv
      <4> QED
        BY <1>1, <2>1, <4>1, <4>2, <4>3
    <3>4. ASSUME NEW x \in reconciler.work, DetachTask(routines'[s], x)
          PROVE  Goal
      BY <3>4 DEF DetachTask, FirstStep
    <3> QED
      BY <3>1, <3>2, <3>3, <3>4 DEF StartedTask
  <2>4. ASSUME NEW r \in Routines, Executor(AnyStep(r)), routines'[s] # routines[s]
        PROVE  Goal
    <3>1. StepEffect(r)
      BY <2>4, AnyEffect DEF Executor, VMTypes
    <3>2. s = r
      BY <2>4, <3>1 DEF StepEffect, Others
    <3>3. routines'[s].kind = routines[s].kind /\ routines'[s].step # "verify"
      BY <1>3, <3>1, <3>2 DEF StepEffect, NextStep
    <3>4. routines[s].kind \notin {"attach", "detach"}
      BY <3>1, <3>2 DEF TellsInv, StepEffect
    <3> QED
      BY <3>3, <3>4
  <2> QED
    BY <2>1, <2>2, <2>3, <2>4, NextCases, PodFrame, PopulatorFrame, TickFrame,
       StatusFrame, ControllerFrame, StutterFrame
<1> QED
  BY <1>2, <1>3 DEF TellsInv

(***************************************************************************)
(* The controller is told of a volume before the kubelet uses it, ...      *)
(***************************************************************************)
LEMMA UsedBefore ==
    ASSUME VMTypes, KeepInv, InUseInv, \A w \in Volumes : OnePod(w),
           ControllerAttachDetachEnabled, TellsInv, UsedInv, [Next]_vars,
           NEW v \in AttachableVolumes, NEW p \in PodsOf(v), Used(v, p)'
    PROVE  Gone(p) \/ InUse(v)
<1>1. v \in Volumes /\ p \in Pods /\ \A q \in PodsOf(v) : q = p
  BY VolumeKindsAssumption, ItemParts DEF OnePod
<1>2. Used(v, p) => Gone(p) \/ InUse(v)
  BY DEF UsedInv
<1>3. ASSUME v \in attachedVolumes', v \notin attachedVolumes
      PROVE  Gone(p) \/ InUse(v)
  <2>1. ASSUME NEW w \in Volumes, UpdateAttached(w)
        PROVE  Gone(p) \/ InUse(v)
    <3>1. w = v /\ reconciler.updates[v] # NoPod
      BY <1>3, <2>1 DEF UpdateAttached, asw!MarkVolumeAsAttached
    <3>2. reconciler.updates[v] = p /\ Held(v, reconciler.updates[v])
      BY <1>1, <3>1 DEF VMTypes, ReconcilerTypes, KeepInv, HeldInv
    <3> QED
      BY <1>2, <3>2 DEF Held, Used
  <2>2. CASE ReconcilerStep
    BY <1>3, <2>1, <2>2 DEF ReconcilerStep, NextPass, SyncScan, SyncEnd,
       SyncPending, SyncDesired, SyncActual, SyncReconstruct, UpdateMounted,
       UpdateDevice, UpdateDesired, ReconcileUnmount, ReconcileMount,
       ReconcileDetach, aswVars, asw!vars, asw!MarkVolumeAsDetached,
       asw!MarkVolumeAsMounted, asw!MarkDeviceAsMounted
  <2>3. ASSUME NEW r \in Routines, Executor(AnyStep(r))
        PROVE  Gone(p) \/ InUse(v)
    <3>1. StepEffect(r)
      BY <2>3, AnyEffect DEF Executor, VMTypes
    <3>2. /\ routines[r] # Idle /\ routines[r].step = "markAttached"
          /\ routines[r].vol = v
      BY <1>3, <3>1 DEF StepEffect, AswEffect
    <3>3. routines[r].pod = p
      BY <1>1, <3>2, TaskKind DEF At, VMTypes
    <3> QED
      BY <1>2, <3>2, <3>3 DEF Used
  <2> QED
    BY <1>3, <2>2, <2>3, NextCases, PodFrame, PopulatorFrame, TickFrame,
       StatusFrame, ControllerFrame, RestartFrame, StutterFrame
<1>4. ASSUME <<v, p>> \in podMounts', <<v, p>> \notin podMounts
      PROVE  Gone(p) \/ InUse(v)
  <2>1. ASSUME NEW r \in Routines, Executor(AnyStep(r))
        PROVE  Gone(p) \/ InUse(v)
    <3>1. StepEffect(r)
      BY <2>1, AnyEffect DEF Executor, VMTypes
    <3>2. /\ routines[r] # Idle /\ routines[r].step = "setUp"
          /\ routines[r].vol = v /\ routines[r].pod = p
      BY <1>4, <3>1 DEF StepEffect, HostEffect
    <3>3. routines[r].kind = "mount"
      BY <3>2, TaskKind DEF At, VMTypes
    <3> QED
      BY <1>2, <3>2, <3>3 DEF Used
  <2> QED
    BY <1>4, <2>1, NextCases, PodFrame, PopulatorFrame, ReconcilerFrame, TickFrame,
       StatusFrame, ControllerFrame, RestartFrame, StutterFrame
<1>5. ASSUME NEW s \in Routines, routines'[s] # Idle,
             routines'[s].vol = v, routines'[s].pod = p,
             routines'[s].kind = "mount" \/ routines'[s].step = "markAttached"
      PROVE  Gone(p) \/ InUse(v)
  <2>1. CASE routines'[s] = routines[s]
    BY <1>2, <1>5, <2>1 DEF Used
  <2>2. CASE ReconcilerStep /\ routines'[s] # routines[s]
    <3>1. StartedTask(routines'[s])
      BY <2>2, ReconcilerNew
    <3>2. v \in attachedVolumes
      BY <1>5, <3>1 DEF StartedTask, MountTask, DetachTask, MountKinds, FirstStep
    <3> QED
      BY <1>2, <3>2 DEF Used
  <2>3. ASSUME NEW r \in Routines, Executor(AnyStep(r)), routines'[s] # routines[s]
        PROVE  Gone(p) \/ InUse(v)
    <3>1. StepEffect(r) /\ AnyStep(r)
      BY <2>3, AnyEffect DEF Executor, VMTypes
    <3>2. s = r
      BY <2>3, <3>1 DEF StepEffect, Others
    <3>3. /\ routines[r] # Idle /\ routines[r].vol = v /\ routines[r].pod = p
          /\ routines[r].kind = routines'[r].kind
          /\ NextStep(r, v, p, routines[r].step, routines'[r].step)
      BY <1>5, <3>1, <3>2 DEF StepEffect
    <3>4. CASE routines[r].kind = "mount"
      BY <1>2, <3>3, <3>4 DEF Used
    <3>5. CASE routines'[r].step = "markAttached"
      <4>1. routines[r].step \in {"attach", "verify"}
        BY <3>3, <3>5 DEF NextStep
      <4>2. routines[r].step = "verify"
        BY <3>3, <4>1, TaskKind DEF At, TellsInv, VMTypes
      <4>3. routines[r].reportedInUse
        BY <1>5, <3>1, <3>2, <3>3, <3>5, <4>2, VerifyTells DEF VMTypes
      <4>4. Gone(p) \/ v \in reportedInUse
        BY <3>3, <4>2, <4>3 DEF TellsInv, Told
      <4> QED
        BY <4>4 DEF InUseInv, ReportedIsInUse, ReportedIsSent, InUse
    <3> QED
      BY <1>5, <3>2, <3>3, <3>4, <3>5
  <2> QED
    BY <1>5, <2>1, <2>2, <2>3, NextCases, PodFrame, PopulatorFrame, TickFrame,
       StatusFrame, ControllerFrame, RestartFrame, StutterFrame
<1> QED
  BY <1>2, <1>3, <1>4, <1>5 DEF Used

\* ... and the desired state has the volume whenever the status is computed.
LEMMA UsedKept ==
    ASSUME VMTypes, KeepInv, \A w \in Volumes : OnePod(w), FoundInv, AttachedKept,
           synced, NEW v \in AttachableVolumes, NEW p \in PodsOf(v), Used(v, p)
    PROVE  Kept(v, p)
<1>1. v \in Volumes /\ p \in Pods /\ \A q \in PodsOf(v) : q = p
  BY VolumeKindsAssumption, ItemParts DEF OnePod
<1>2. CASE <<v, p>> \in podMounts
  BY <1>2 DEF FoundInv
<1>3. CASE v \in attachedVolumes /\ ~Kept(v, p)
  <2>1. reconciler.pc \in UpdateSteps /\ reconciler.item.vol = v
    BY <1>3 DEF AttachedKept
  <2>2. reconciler.pc \in SyncSteps \ {"sync"}
    BY <2>1 DEF SyncSteps, UpdateSteps
  <2>3. reconciler.item.pod = p /\ Held(v, reconciler.item.pod)
    BY <1>1, <2>1, <2>2, ItemParts DEF VMTypes, ReconcilerTypes, KeepInv, HeldInv
  <2> QED
    BY <1>2, <2>3 DEF Held, Kept
<1>4. ASSUME NEW r \in Routines, routines[r] # Idle, routines[r].vol = v,
             routines[r].pod = p,
             routines[r].kind = "mount" \/ routines[r].step = "markAttached"
      PROVE  Kept(v, p)
  <2>1. routines[r].kind \in MountKinds
    BY <1>4, TaskKind DEF At, MountKinds, VMTypes
  <2> QED
    BY <1>4, <2>1 DEF KeepInv, KeptInv, RoutinesKept
<1> QED
  BY <1>2, <1>3, <1>4 DEF Used

LEMMA UsedStep ==
    ASSUME VMTypes, KeepInv, InUseInv, \A w \in Volumes : OnePod(w),
           ControllerAttachDetachEnabled, FoundInv, TellsInv, UsedInv,
           AttachedKept, [Next]_vars
    PROVE  UsedInv'
<1> SUFFICES ASSUME NEW v \in AttachableVolumes, NEW p \in PodsOf(v), Used(v, p)'
             PROVE  Gone(p)' \/ InUse(v)'
  BY DEF UsedInv
<1>1. p \in Pods /\ (Gone(p) => Gone(p)')
  BY VolumeKindsAssumption, ItemParts, PodsStay
<1>2. Gone(p) \/ InUse(v)
  BY UsedBefore
<1>3. CASE UpdateStatus /\ synced
  <2>1. Used(v, p)
    BY <1>3, StatusFrame DEF StatusStep, Used
  <2>2. Kept(v, p)
    BY <1>3, <2>1, UsedKept
  <2> QED
    BY <1>1, <1>2, <2>2, InUseStays DEF Kept
<1> QED
  BY <1>1, <1>2, <1>3, InUseStays

-----------------------------------------------------------------------------
(***************************************************************************)
(* No device is detached before the pod of the volume is gone: not by the  *)
(* controller, which finds the volume in the node's status until then, ... *)
(***************************************************************************)
LEMMA ScheduledStep ==
    ASSUME VMTypes, KeepInv, \A w \in Volumes : OnePod(w), AttachedScheduled,
           [Next]_vars
    PROVE  AttachedScheduled'
<1> SUFFICES ASSUME NEW v \in AttachableVolumes, v \in deviceAttached',
                    NEW p \in PodsOf(v)
             PROVE  phase'[p] # "unscheduled"
  BY DEF AttachedScheduled
<1>1. v \in Volumes /\ p \in Pods /\ \A q \in PodsOf(v) : q = p
  BY VolumeKindsAssumption, ItemParts DEF OnePod
<1>2. SUFFICES phase[p] # "unscheduled"
  BY <1>1, PodsStay
<1>3. CASE v \in deviceAttached
  BY <1>3 DEF AttachedScheduled
<1>4. ASSUME NEW w \in Volumes, ControllerStep(w), v \notin deviceAttached
      PROVE  phase[p] # "unscheduled"
  <2>1. w = v /\ Wanted(v)
    BY <1>4 DEF ControllerStep, ControllerAttach, ProcessVolumesInUse,
       ControllerUnreport, VerifySafeToDetach, ControllerDetach
  <2>2. PICK q \in Pods : phase[q] = "active" /\ v \in PodVolumes[q]
    BY <2>1 DEF Wanted
  <2>3. q = p
    BY <1>1, <2>2 DEF PodsOf
  <2> QED
    BY <2>2, <2>3
<1>5. ASSUME NEW r \in Routines, Executor(AnyStep(r)), v \notin deviceAttached
      PROVE  phase[p] # "unscheduled"
  <2>1. StepEffect(r)
    BY <1>5, AnyEffect DEF Executor, VMTypes
  <2>2. /\ routines[r] # Idle /\ routines[r].step = "attach"
        /\ routines[r].vol = v
    BY <1>5, <2>1 DEF StepEffect, HostEffect
  <2>3. routines[r].kind = "attach" /\ routines[r].pod = p
    BY <1>1, <2>2, TaskKind DEF At, VMTypes
  <2> QED
    BY <2>2, <2>3 DEF KeepInv, ScheduledInv
<1> QED
  BY <1>3, <1>4, <1>5, NextCases, PodFrame, PopulatorFrame, ReconcilerFrame,
     TickFrame, StatusFrame, RestartFrame, StutterFrame

LEMMA ControllerDetachStep ==
    ASSUME VMTypes, KeepInv, \A w \in Volumes : OnePod(w), ControllerInv,
           AttachedScheduled, ControllerDetaches, [Next]_vars
    PROVE  ControllerDetaches'
<1> SUFFICES ASSUME NEW v \in AttachableVolumes, NEW p \in PodsOf(v)
             PROVE  /\ detaching'[v] = "unreported" =>
                         phase'[p] \in {"terminated", "deleted"}
                    /\ detaching'[v] = "verified" => Gone(p)'
  BY DEF ControllerDetaches
<1>1. v \in Volumes /\ p \in Pods /\ v \in PodVolumes[p] /\ phase[p] \in Phases
  BY VolumeKindsAssumption, ItemParts DEF PodsOf, VMTypes, PodTypes
<1>2. SUFFICES /\ detaching'[v] = "unreported" => phase[p] \in {"terminated", "deleted"}
               /\ detaching'[v] = "verified" => Gone(p)
  BY <1>1, PodsStay
<1>3. CASE UNCHANGED detaching
  BY <1>3 DEF ControllerDetaches
<1>4. ASSUME NEW w \in Volumes, ControllerStep(w)
      PROVE  /\ detaching'[v] = "unreported" => phase[p] \in {"terminated", "deleted"}
             /\ detaching'[v] = "verified" => Gone(p)
  <2>1. detaching \in [Volumes -> {"no", "unreported", "verified"}]
    BY DEF VMTypes, NodeTypes
  <2>2. CASE ControllerUnreport(w)
    <3>1. /\ w \in deviceAttached /\ ~Wanted(w)
          /\ detaching' = [detaching EXCEPT ![w] = "unreported"]
      BY <2>2 DEF ControllerUnreport
    <3>2. CASE w = v
      <4>1. phase[p] # "active" /\ phase[p] # "unscheduled"
        BY <1>1, <3>1, <3>2 DEF Wanted, AttachedScheduled
      <4> QED
        BY <1>1, <2>1, <3>1, <3>2, <4>1 DEF Phases
    <3>3. CASE w # v
      BY <1>1, <2>1, <3>1, <3>3 DEF ControllerDetaches
    <3> QED
      BY <3>2, <3>3
  <2>3. CASE VerifySafeToDetach(w)
    <3>1. /\ detaching[w] = "unreported" /\ UNCHANGED running
          /\ ControllerAttachDetachEnabled
          /\ \/ detaching' = [detaching EXCEPT ![w] = "no"]
             \/ /\ detaching' = [detaching EXCEPT ![w] = "verified"]
                /\ w \notin nodeVolumesInUse
      BY <2>3 DEF VerifySafeToDetach, controllerUnchanged, podVars
    <3>2. CASE w = v /\ detaching'[v] = "verified"
      <4>1. phase[p] \in {"terminated", "deleted"} /\ v \notin nodeVolumesInUse
        BY <1>1, <2>1, <3>1, <3>2 DEF ControllerDetaches
      <4>2. p \in OnTime => Used(v, p)
        BY <1>1 DEF KeepInv, RunningPodKeepsVolumes, Used, OnTime
      <4>3. Used(v, p) => Gone(p)
        BY <3>1, <4>1 DEF ControllerInv, UsedInv, InUse
      <4> QED
        BY <3>2, <4>1, <4>2, <4>3 DEF Gone
    <3>3. CASE ~(w = v /\ detaching'[v] = "verified")
      BY <1>1, <2>1, <3>1, <3>3 DEF ControllerDetaches
    <3> QED
      BY <3>2, <3>3
  <2>4. CASE ControllerDetach(w)
    BY <1>1, <2>1, <2>4 DEF ControllerDetach, ControllerDetaches
  <2> QED
    BY <1>3, <1>4, <2>2, <2>3, <2>4 DEF ControllerStep, ControllerAttach,
       ProcessVolumesInUse
<1> QED
  BY <1>3, <1>4, NextCases, PodFrame, PopulatorFrame, ReconcilerFrame, ExecutorFrame,
     StatusFrame, RestartFrame, StutterFrame

\* ... nor by the kubelet, which detaches what is not to be mounted.
LEMMA DetachWorkStep ==
    ASSUME VMTypes, KeepInv, OneListing, DetachWorkKept, AttachedKept, [Next]_vars
    PROVE  DetachWorkKept'
<1> SUFFICES ASSUME reconciler'.pc = "detach", NEW x \in reconciler'.work,
                    NEW p \in PodsOf(x.vol)
             PROVE  Kept(x.vol, p)'
  BY DEF DetachWorkKept
<1>1. ~Restart
  BY RestartFrame, IdleReconcilerParts
<1>2. SUFFICES x.vol \in Volumes /\ Kept(x.vol, p)
  BY <1>1, KeptStays
<1>3. CASE reconciler.pc = "detach" /\ x \in reconciler.work
  BY <1>3, ItemParts DEF DetachWorkKept, VMTypes, ReconcilerTypes
<1>4. CASE ReconcilerStep /\ ~(reconciler.pc = "detach" /\ x \in reconciler.work)
  <2>1. x \in asw!GetUnmountedVolumes /\ reconciler.pc = "mount"
    BY <1>4, PassEffect, SyncEffect, UpdateEffect DEF ReconcilerStep, ReconcilerIs
  <2>2. x.vol \in attachedVolumes
    BY <2>1, UnmountedType DEF VMTypes
  <2>3. x.vol \in Volumes
    BY <2>2 DEF VMTypes, AswTypes, asw!TypeOK
  <2> QED
    BY <2>1, <2>2, <2>3 DEF AttachedKept, UpdateSteps
<1> QED
  BY <1>1, <1>3, <1>4, NextCases, PodFrame, PopulatorFrame, ExecutorFrame,
     StatusFrame, ControllerFrame, StutterFrame

LEMMA AttachedKeptStep ==
    ASSUME VMTypes, KeepInv, OneListing, \A w \in Volumes : OnePod(w), AttachedKept,
           [Next]_vars
    PROVE  AttachedKept'
<1> USE DEF ReconcilerIs
<1> SUFFICES ASSUME NEW v \in attachedVolumes', NEW p \in PodsOf(v)
             PROVE  \/ Kept(v, p)'
                    \/ reconciler'.pc \in UpdateSteps /\ reconciler'.item.vol = v
  BY DEF AttachedKept
<1>1. ~Restart
  BY RestartFrame
<1>2. v \in Volumes
  BY TypesStep DEF VMTypes, AswTypes, asw!TypeOK
<1>3. p \in Pods /\ \A q \in PodsOf(v) : q = p
  BY <1>2, ItemParts DEF OnePod
<1>4. CASE Kept(v, p)
  BY <1>1, <1>2, <1>4, KeptStays
<1>5. CASE v \in attachedVolumes /\ ~Kept(v, p)
  <2>1. reconciler.pc \in UpdateSteps /\ reconciler.item.vol = v
    BY <1>5 DEF AttachedKept
  <2>2. CASE UNCHANGED reconciler
    BY <2>1, <2>2
  <2>3. CASE UpdateMounted \/ UpdateDevice
    <3>1. asw!VolumeExists(reconciler.item.vol)
      BY <1>5, <2>1 DEF asw!VolumeExists
    <3>2. \E pc \in {"updateDevice", "updateDesired"} :
             reconciler' = [reconciler EXCEPT !.pc = pc]
      BY <2>3, <3>1 DEF UpdateMounted, UpdateDevice
    <3> QED
      BY <2>1, <3>2 DEF VMTypes, ReconcilerTypes, UpdateSteps
  <2>4. CASE UpdateDesired
    <3>1. reconciler.item.pod = p
      BY <1>3, <2>1, ItemParts DEF VMTypes, ReconcilerTypes, SyncSteps, UpdateSteps
    <3>2. podsToMount' = [podsToMount EXCEPT ![v] = @ \cup {p}]
      BY <2>1, <2>4, <3>1 DEF UpdateDesired, dsw!AddPodToVolume
    <3> QED
      BY <1>2, <3>2 DEF Kept, VMTypes, DswTypes, dsw!TypeOK
  <2>5. CASE ReconcilerStep
    BY <2>1, <2>3, <2>4, <2>5 DEF ReconcilerStep, NextPass, SyncScan, SyncEnd,
       SyncPending, SyncDesired, SyncActual, SyncReconstruct, UpdateAttached,
       ReconcileUnmount, ReconcileMount, ReconcileDetach, UpdateSteps
  <2> QED
    BY <1>1, <2>2, <2>5, NextCases, PodFrame, PopulatorFrame, ExecutorFrame,
       StatusFrame, ControllerFrame, StutterFrame
<1>6. CASE v \notin attachedVolumes
  <2>1. ASSUME NEW w \in Volumes, UpdateAttached(w)
        PROVE  reconciler'.pc \in UpdateSteps /\ reconciler'.item.vol = v
    <3>1. w = v
      BY <1>6, <2>1 DEF UpdateAttached, asw!MarkVolumeAsAttached
    <3>2. /\ reconciler'.pc = "updateMounted"
          /\ reconciler'.item = [vol |-> w, pod |-> reconciler.updates[w]]
      BY <2>1, UpdateEffect
    <3> QED
      BY <3>1, <3>2 DEF UpdateSteps
  <2>2. CASE ReconcilerStep
    BY <1>6, <2>1, <2>2 DEF ReconcilerStep, NextPass, SyncScan, SyncEnd,
       SyncPending, SyncDesired, SyncActual, SyncReconstruct, UpdateMounted,
       UpdateDevice, UpdateDesired, ReconcileUnmount, ReconcileMount,
       ReconcileDetach, aswVars, asw!vars, asw!MarkVolumeAsDetached,
       asw!MarkVolumeAsMounted, asw!MarkDeviceAsMounted
  <2>3. ASSUME NEW r \in Routines, Executor(AnyStep(r))
        PROVE  Kept(v, p)
    <3>1. StepEffect(r)
      BY <2>3, AnyEffect DEF Executor, VMTypes
    <3>2. /\ routines[r] # Idle /\ routines[r].step = "markAttached"
          /\ routines[r].vol = v
      BY <1>6, <3>1 DEF StepEffect, AswEffect
    <3>3. routines[r].pod = p /\ routines[r].kind \in MountKinds
      BY <1>3, <3>2, TaskKind DEF At, VMTypes, MountKinds
    <3> QED
      BY <3>2, <3>3 DEF KeepInv, KeptInv, RoutinesKept
  <2> QED
    BY <1>1, <1>4, <1>6, <2>2, <2>3, NextCases, PodFrame, PopulatorFrame, TickFrame,
       StatusFrame, ControllerFrame, StutterFrame
<1> QED
  BY <1>4, <1>5, <1>6

LEMMA KubeletDetachStep ==
    ASSUME VMTypes, KeepInv, DetachWorkKept, KubeletDetaches, [Next]_vars
    PROVE  KubeletDetaches'
<1> SUFFICES ASSUME NEW s \in Routines, routines'[s] # Idle,
                    routines'[s].kind = "detach", NEW p \in PodsOf(routines'[s].vol)
             PROVE  Gone(p)'
  BY DEF KubeletDetaches
<1>1. p \in Pods
  BY DEF PodsOf
<1>2. SUFFICES Gone(p)
  BY <1>1, PodsStay
<1>3. CASE routines'[s] = routines[s]
  BY <1>3 DEF KubeletDetaches
<1>4. CASE ReconcilerStep /\ routines'[s] # routines[s]
  <2>1. StartedTask(routines'[s])
    BY <1>4, ReconcilerNew
  <2>2. PICK x \in reconciler.work :
          reconciler.pc = "detach" /\ DetachTask(routines'[s], x)
    BY <2>1 DEF StartedTask, MountTask, MountKinds
  <2>3. /\ routines'[s].vol = x.vol /\ podsToMount[x.vol] = {}
        /\ Kept(x.vol, p)
    BY <2>2 DEF DetachTask, DetachWorkKept
  <2> QED
    BY <2>3 DEF Kept
<1>5. ASSUME NEW r \in Routines, Executor(AnyStep(r)), routines'[s] # routines[s]
      PROVE  Gone(p)
  <2>1. StepEffect(r)
    BY <1>5, AnyEffect DEF Executor, VMTypes
  <2>2. s = r
    BY <1>5, <2>1 DEF StepEffect, Others
  <2> QED
    BY <2>1, <2>2 DEF StepEffect, KubeletDetaches
<1> QED
  BY <1>3, <1>4, <1>5, NextCases, PodFrame, PopulatorFrame, TickFrame,
     StatusFrame, ControllerFrame, RestartFrame, StutterFrame

(***************************************************************************)
(* A mount is made from a device that is attached, and the device stays.   *)
(***************************************************************************)
LEMMA DeviceStaysAttached ==
    ASSUME VMTypes, ControllerDetaches, KubeletDetaches, [Next]_vars,
           NEW v \in AttachableVolumes, v \in deviceAttached, NEW p \in PodsOf(v)
    PROVE  Gone(p) \/ v \in deviceAttached'
<1>1. ASSUME NEW w \in Volumes, ControllerStep(w), v \notin deviceAttached'
      PROVE  Gone(p)
  <2>1. w = v /\ detaching[v] = "verified"
    BY <1>1 DEF ControllerStep, ControllerAttach, ProcessVolumesInUse,
       ControllerUnreport, VerifySafeToDetach, ControllerDetach
  <2> QED
    BY <2>1 DEF ControllerDetaches
<1>2. ASSUME NEW r \in Routines, Executor(AnyStep(r)), v \notin deviceAttached'
      PROVE  Gone(p)
  <2>1. StepEffect(r)
    BY <1>2, AnyEffect DEF Executor, VMTypes
  <2>2. /\ routines[r] # Idle /\ routines[r].step = "detach"
        /\ routines[r].vol = v
    BY <1>2, <2>1 DEF StepEffect, HostEffect
  <2>3. routines[r].kind = "detach"
    BY <2>2, TaskKind DEF At, VMTypes
  <2> QED
    BY <2>2, <2>3 DEF KubeletDetaches
<1> QED
  BY <1>1, <1>2, NextCases, PodFrame, PopulatorFrame, ReconcilerFrame, TickFrame,
     StatusFrame, RestartFrame, StutterFrame

LEMMA AttachedStep ==
    ASSUME VMTypes, KeepInv, DetachInv, AttachedInv, [Next]_vars
    PROVE  AttachedInv'
<1>1. ASSUME NEW v \in AttachableVolumes, NEW p \in PodsOf(v),
             Gone(p) \/ v \in deviceAttached
      PROVE  Gone(p)' \/ v \in deviceAttached'
  <2>1. p \in Pods
    BY DEF PodsOf
  <2> QED
    BY <1>1, <2>1, DeviceStaysAttached, PodsStay DEF DetachInv
<1>2. ASSUME NEW s \in Routines, routines'[s] # Idle,
             NEW v \in AttachableVolumes, routines'[s].vol = v,
             NEW p, routines'[s].pod = p,
             routines'[s].step \in {"markDeviceMounted", "setUp"}
      PROVE  Gone(p)' \/ v \in deviceAttached'
  <2>1. VMTypes'
    BY TypesStep
  <2>2. p \in PodsOf(v)
    <3>1. routines'[s] \in Task
      BY <1>2, <2>1 DEF VMTypes, OpTypes
    <3> QED
      BY <1>2, <3>1 DEF Task
  <2>3. CASE routines'[s] = routines[s]
    BY <1>1, <1>2, <2>2, <2>3 DEF AttachedInv
  <2>4. CASE ReconcilerStep /\ routines'[s] # routines[s]
    <3>1. StartedTask(routines'[s])
      BY <2>4, ReconcilerNew
    <3> QED
      BY <1>2, <3>1 DEF StartedTask, MountTask, DetachTask, MountKinds, FirstStep
  <2>5. ASSUME NEW r \in Routines, Executor(AnyStep(r)), routines'[s] # routines[s]
        PROVE  Gone(p)' \/ v \in deviceAttached'
    <3>1. StepEffect(r)
      BY <2>5, AnyEffect DEF Executor, VMTypes
    <3>2. s = r
      BY <2>5, <3>1 DEF StepEffect, Others
    <3>3. /\ routines[r] # Idle /\ routines[r].vol = v /\ routines[r].pod = p
          /\ NextStep(r, v, p, routines[r].step, routines'[r].step)
      BY <1>2, <3>1, <3>2 DEF StepEffect
    <3>4. Gone(p) \/ v \in deviceAttached
      BY <1>2, <3>2, <3>3 DEF NextStep, AttachedInv
    <3> QED
      BY <1>1, <1>2, <2>2, <3>4
  <2> QED
    BY <1>2, <2>3, <2>4, <2>5, NextCases, PodFrame, PopulatorFrame, TickFrame,
       StatusFrame, ControllerFrame, RestartFrame, StutterFrame
<1>3. ASSUME NEW v \in AttachableVolumes, NEW p \in PodsOf(v),
             <<v, p>> \in podMounts'
      PROVE  Gone(p)' \/ v \in deviceAttached'
  <2>1. CASE <<v, p>> \in podMounts
    BY <1>1, <2>1 DEF AttachedInv
  <2>2. ASSUME NEW r \in Routines, Executor(AnyStep(r)), <<v, p>> \notin podMounts
        PROVE  Gone(p) \/ v \in deviceAttached
    <3>1. StepEffect(r)
      BY <2>2, AnyEffect DEF Executor, VMTypes
    <3>2. /\ routines[r] # Idle /\ routines[r].step = "setUp"
          /\ routines[r].vol = v /\ routines[r].pod = p
      BY <1>3, <2>2, <3>1 DEF StepEffect, HostEffect
    <3> QED
      BY <3>2 DEF AttachedInv
  <2> QED
    BY <1>1, <1>3, <2>1, <2>2, NextCases, PodFrame, PopulatorFrame, ReconcilerFrame,
       TickFrame, StatusFrame, ControllerFrame, RestartFrame, StutterFrame
<1> QED
  BY <1>2, <1>3 DEF AttachedInv, Gone

(***************************************************************************)
(* Together.                                                               *)
(***************************************************************************)
DevicesInv ==
    /\ VMTypes /\ KeepInv /\ ExclusionInv /\ DeviceInv /\ InUseInv
    /\ ControllerInv /\ DetachInv /\ AttachedInv

LEMMA InitDevicesInv ==
    ASSUME Init
    PROVE  DevicesInv
<1>1. /\ VMTypes /\ KeepInv /\ ExclusionInv /\ DeviceInv
  BY InitTypes, InitKeeps, InitExcludes, InitDevices
<1>2. InUseInv
  BY DEF Init, dsw!Init, IdleStatus, InUseInv, ReportedIsInUse,
         ReportedIsDesired, ReportedIsSent
<1>3. /\ podMounts = {} /\ attachedVolumes = {} /\ deviceAttached = {}
      /\ \A r \in Routines : routines[r] = Idle
      /\ reconciler.pc = "idle"
      /\ \A v \in Volumes : detaching[v] = "no"
  BY IdleReconcilerParts DEF Init, ExecutorInit, asw!Init
<1>4. ControllerInv
  BY <1>3 DEF ControllerInv, FoundInv, TellsInv, UsedInv, Used
<1>5. DetachInv
  BY <1>3, VolumeKindsAssumption DEF DetachInv, AttachedScheduled,
     ControllerDetaches, DetachWorkKept, AttachedKept, KubeletDetaches
<1>6. AttachedInv
  BY <1>3 DEF AttachedInv
<1> QED
  BY <1>1, <1>2, <1>4, <1>5, <1>6 DEF DevicesInv

LEMMA DevicesInvStep ==
    ASSUME OneListing, \A v \in Volumes : OnePod(v), DevicesInv, [Next]_vars
    PROVE  DevicesInv'
<1> USE DEF DevicesInv
<1>1. FailuresOrSharing
  BY DEF FailuresOrSharing
<1>2. /\ VMTypes' /\ KeepInv' /\ ExclusionInv' /\ DeviceInv' /\ InUseInv'
  BY <1>1, TypesStep, KeepStep, ExclusionStep, DeviceStep, InUseStep
<1>3. ControllerInv'
  <2> SUFFICES ASSUME ControllerAttachDetachEnabled
               PROVE  FoundInv' /\ TellsInv' /\ UsedInv'
    BY DEF ControllerInv
  <2> QED
    BY FoundStep, TellsStep, UsedStep DEF ControllerInv, DetachInv
<1>4. DetachInv'
  BY ScheduledStep, ControllerDetachStep, DetachWorkStep, AttachedKeptStep,
     KubeletDetachStep DEF DetachInv
<1>5. AttachedInv'
  BY AttachedStep
<1> QED
  BY <1>2, <1>3, <1>4, <1>5

(***************************************************************************)
(* As long as the containers of a pod run, unless a syncPod that outlived  *)
(* the pod has started them, the devices of its volumes stay attached and  *)
(* mounted: through failed calls, restarts of the kubelet, a status that   *)
(* is computed from a desired state still incomplete, stale marks that the *)
(* status was sent, and a controller that detaches on what it reads there. *)
(* Where pods share a volume, the controller may have verified the detach  *)
(* for the pod that left when the volume is mounted for another.           *)
(***************************************************************************)
THEOREM RunningPodDeviceIsSafe ==
    ASSUME OneListing, \A v \in Volumes : OnePod(v)
    PROVE  Spec => []RunningPodKeepsDevice
<1>1. Init => DevicesInv
  BY InitDevicesInv
<1>2. DevicesInv /\ [Next]_vars => DevicesInv'
  BY DevicesInvStep
<1>3. DevicesInv => RunningPodKeepsDevice
  <2> SUFFICES ASSUME DevicesInv, NEW p \in OnTime,
                      NEW v \in PodVolumes[p] \cap AttachableVolumes
               PROVE  v \in deviceMounts \cap deviceAttached
    BY DEF RunningPodKeepsDevice, OnTime
  <2>1. p \in PodsOf(v) /\ ~Gone(p)
    BY DEF DevicesInv, VMTypes, PodTypes, PodsOf, Gone, OnTime
  <2>2. <<v, p>> \in podMounts
    BY DEF DevicesInv, KeepInv, RunningPodKeepsVolumes, OnTime
  <2>3. v \in deviceMounts
    BY <2>2 DEF DevicesInv, DeviceInv, PodMountOverDevice
  <2>4. v \in deviceAttached
    BY <2>1, <2>2 DEF DevicesInv, AttachedInv
  <2> QED
    BY <2>3, <2>4
<1> QED
  BY <1>1, <1>2, <1>3, PTL DEF Spec
=============================================================================
