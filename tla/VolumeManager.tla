--------------------------- MODULE VolumeManager ---------------------------
(***************************************************************************)
(* The volume manager of the kubelet (pkg/kubelet/volumemanager): the      *)
(* populator, which keeps the desired state of the world in step with the  *)
(* pods; the reconciler, which starts the operations that bring the host   *)
(* in line with it and rebuilds lost state from the disk; and the callers  *)
(* of the volume manager: pod workers waiting for mounts, and the update   *)
(* of the node status that tells the attach/detach controller which        *)
(* volumes are in use.                                                     *)
(*                                                                         *)
(* Each of them is a thread; a step of one holds a lock of a cache or of   *)
(* the list of operations at most once.  The kubelet may restart: its      *)
(* memory is lost, the host and the containers stay as they are.           *)
(***************************************************************************)
EXTENDS OperationExecutor

CONSTANTS
    PodVolumes,         \* the volumes in the specification of each pod
    ControllerAttachDetachEnabled,
    WorkedPods,         \* bound on the pods whose workers are at work
    ForcedDeletion,     \* pods may be deleted while their containers run
    MaxRestarts         \* bound on the restarts of the kubelet

ASSUME PodVolumesAssumption ==
    /\ PodVolumes \in [Pods -> SUBSET Volumes]
    /\ \A v \in Volumes \ AttachableVolumes : \A p, q \in Pods :
         v \in PodVolumes[p] /\ v \in PodVolumes[q] => p = q
ASSUME SettingsAssumption ==
    /\ ControllerAttachDetachEnabled \in BOOLEAN
    /\ ForcedDeletion \in BOOLEAN
    /\ WorkedPods \subseteq Pods
    /\ MaxRestarts \in Nat

VARIABLES
    \* the desired state of the world
    podsToMount, reportedInUse,
    \* pods, containers and pod workers
    phase,              \* of each pod, as the API server has it
    podManager,         \* the pods the kubelet has been told of
    running,            \* the pods with running containers
    startedLate,        \* those of them started by a syncPod that outlived its pod
    waiter,             \* how far the worker of each pod is in syncPod
    \* the threads of the volume manager
    processedPods,      \* processedPods of the populator
    populator,
    reconciler,
    synced,             \* StatesHasBeenSynced
    \* node status and attach/detach controller
    nodeVolumesInUse,   \* node.Status.VolumesInUse at the API server
    statusUpdate,       \* where tryUpdateNodeStatus is
    mountedByNode,      \* mountedByNode of the controller's actual state
    detaching,          \* how far the controller is in detaching a volume
    restarts

dsw == INSTANCE DesiredStateOfWorld

dswVars     == <<podsToMount, reportedInUse>>
podVars     == <<phase, podManager, running, startedLate, waiter>>
managerVars == <<processedPods, populator, reconciler, synced>>
controllerVars == <<mountedByNode, detaching>>
nodeVars    == <<nodeVolumesInUse, statusUpdate, controllerVars>>
execVars    == <<operations, routines, failures, hostVars, aswVars>>
vars        == <<execVars, dswVars, podVars, managerVars, nodeVars, restarts>>

Phases == {"unscheduled", "active", "terminated", "deleted"}

IdlePopulator ==
    [pc |-> "idle", pods |-> {}, pod |-> NoPod, vols |-> {}, items |-> {},
     fetched |-> FALSE, runningPods |-> {}]

NoUpdates == [v \in Volumes |-> NoPod]

IdleReconciler ==
    [pc |-> "idle", work |-> {}, item |-> << >>, updates |-> NoUpdates]

IdleStatus == [pc |-> "idle", inUse |-> {}]

TypeOK ==
    /\ ExecutorTypeOK
    /\ dsw!TypeOK
    /\ phase \in [Pods -> Phases]
    /\ podManager \subseteq Pods
    /\ running \subseteq Pods
    /\ startedLate \subseteq running
    /\ waiter \in [Pods -> {"idle", "dispatched", "reprocessed", "waiting", "ready"}]
    /\ processedPods \subseteq Pods
    /\ populator.pc \in {"idle", "add", "volumes", "remove"}
    /\ populator.pods \subseteq Pods /\ populator.pod \in PodNames
    /\ populator.vols \subseteq Volumes /\ populator.runningPods \subseteq Pods
    /\ reconciler.pc \in
         {"idle", "unmount", "mount", "detach", "sync", "checkPending",
          "checkDesired", "checkActual", "updateMounted", "updateDevice",
          "updateDesired"}
    /\ reconciler.updates \in [Volumes -> PodNames]
    /\ synced \in BOOLEAN
    /\ nodeVolumesInUse \subseteq AttachableVolumes
    /\ statusUpdate.pc \in {"idle", "asw", "patch", "mark"}
    /\ statusUpdate.inUse \subseteq AttachableVolumes
    /\ mountedByNode \in [Volumes -> {"assumed", "yes", "no"}]
    /\ detaching \in [Volumes -> {"no", "unreported", "verified"}]
    /\ restarts \in 0 .. MaxRestarts

Init ==
    /\ ExecutorInit
    /\ dsw!Init
    /\ podManager = {}
    /\ waiter = [p \in Pods |-> "idle"]
    /\ processedPods = {}
    /\ populator = IdlePopulator
    /\ reconciler = IdleReconciler
    /\ synced = FALSE
    /\ statusUpdate = IdleStatus
    /\ phase = [p \in Pods |-> "unscheduled"]
    /\ running = {}
    /\ startedLate = {}
    /\ nodeVolumesInUse = {}
    /\ mountedByNode = [v \in Volumes |-> "assumed"]
    /\ detaching = [v \in Volumes |-> "no"]
    /\ restarts = 0
-----------------------------------------------------------------------------
(***************************************************************************)
(* Pods, their containers and the pod workers.                             *)
(***************************************************************************)
\* The kubelet is told of a pod: a new one, or after a restart an old one.
AddPod(p) ==
    /\ p \notin podManager /\ phase[p] # "deleted"
    /\ podManager' = podManager \cup {p}
    /\ phase' = [phase EXCEPT ![p] = IF @ = "unscheduled" THEN "active" ELSE @]
    /\ UNCHANGED <<execVars, dswVars, running, startedLate, waiter, managerVars,
                   nodeVars, restarts>>

StopContainers(p) ==
    /\ p \in running
    /\ running' = running \ {p}
    /\ startedLate' = startedLate \ {p}
    /\ UNCHANGED <<execVars, dswVars, phase, podManager, waiter, managerVars,
                   nodeVars, restarts>>

\* The containers have exited for good, and the status says so.  A syncPod
\* that is under way goes on.
TerminatePod(p) ==
    /\ phase[p] = "active" /\ p \in podManager /\ p \notin running
    /\ phase' = [phase EXCEPT ![p] = "terminated"]
    /\ UNCHANGED <<execVars, dswVars, podManager, running, startedLate, waiter,
                   managerVars, nodeVars, restarts>>

\* The status manager deletes a pod from the API server only when no
\* container of it runs; a forced deletion does not wait for the kubelet.
MayBeDeleted(p) == ForcedDeletion \/ p \notin running

\* The pod is gone from the API server and from the pod manager.  ForgetWorker
\* closes the channel of the pod's worker; an update that was taken from it,
\* or is still buffered in it, is carried out all the same.
DeletePod(p) ==
    /\ phase[p] \in {"active", "terminated"} /\ MayBeDeleted(p)
    /\ phase' = [phase EXCEPT ![p] = "deleted"]
    /\ podManager' = podManager \ {p}
    /\ UNCHANGED <<execVars, dswVars, running, startedLate, waiter, managerVars,
                   nodeVars, restarts>>

\* The worker of a pod that is not terminated is sent an update.
dispatchWork(p) ==
    /\ waiter[p] = "idle" /\ phase[p] = "active"
    /\ p \in podManager \cap WorkedPods
    /\ waiter' = [waiter EXCEPT ![p] = "dispatched"]
    /\ UNCHANGED <<execVars, dswVars, phase, podManager, running, startedLate,
                   managerVars, nodeVars, restarts>>

\* Mutant: the pod is not processed again.
ReprocessPodNot(p) ==
    /\ waiter[p] = "dispatched"
    /\ waiter' = [waiter EXCEPT ![p] = "reprocessed"]
    /\ UNCHANGED <<execVars, dswVars, phase, podManager, running, startedLate,
                   managerVars, nodeVars, restarts>>

\* WaitForAttachAndMount has the populator process the pod again, ...
ReprocessPod(p) ==
    /\ waiter[p] = "dispatched"
    /\ processedPods' = processedPods \ {p}
    /\ waiter' = [waiter EXCEPT ![p] = "reprocessed"]
    /\ UNCHANGED <<execVars, dswVars, phase, podManager, running, startedLate,
                   populator, reconciler, synced, nodeVars, restarts>>

\* ... has its volumes mounted again where the plugin wants it, ...
MarkRemountRequired(p) ==
    /\ waiter[p] = "reprocessed"
    /\ asw!MarkRemountRequired(p)
    /\ waiter' = [waiter EXCEPT ![p] = "waiting"]
    /\ UNCHANGED <<opVars, failures, hostVars, dswVars, phase, podManager,
                   running, startedLate, managerVars, nodeVars, restarts>>

\* ... then polls until every volume of the pod is mounted ...
Mounted(p) == \A v \in PodVolumes[p] : asw!PodExistsInVolume(p, v)

\* Mutant: the wait is over when one volume is mounted.
WaitSucceedsEarly(p) ==
    /\ waiter[p] = "waiting"
    /\ \E v \in PodVolumes[p] : asw!VolumeExists(v)
    /\ waiter' = [waiter EXCEPT ![p] = "ready"]
    /\ UNCHANGED <<execVars, dswVars, phase, podManager, running, startedLate,
                   managerVars, nodeVars, restarts>>

WaitSucceeds(p) ==
    /\ waiter[p] = "waiting" /\ Mounted(p)
    /\ waiter' = [waiter EXCEPT ![p] = "ready"]
    /\ UNCHANGED <<execVars, dswVars, phase, podManager, running, startedLate,
                   managerVars, nodeVars, restarts>>

\* ... or until it times out; the pod worker will call again.
WaitTimesOut(p) ==
    /\ waiter[p] = "waiting" /\ ~Mounted(p)
    /\ waiter' = [waiter EXCEPT ![p] = "idle"]
    /\ UNCHANGED <<execVars, dswVars, phase, podManager, running, startedLate,
                   managerVars, nodeVars, restarts>>

\* containerRuntime.SyncPod.  Nothing looks again whether the pod is still
\* there: startedLate records the containers started after its end.
StartContainers(p) ==
    /\ waiter[p] = "ready"
    /\ waiter' = [waiter EXCEPT ![p] = "idle"]
    /\ running' = running \cup {p}
    /\ startedLate' = IF p \in running \/ phase[p] = "active" THEN startedLate
                      ELSE startedLate \cup {p}
    /\ UNCHANGED <<execVars, dswVars, phase, podManager, managerVars, nodeVars,
                   restarts>>

PodStep(p) ==
    \/ AddPod(p) \/ StopContainers(p) \/ TerminatePod(p) \/ DeletePod(p)
    \/ dispatchWork(p) \/ ReprocessPod(p) \/ MarkRemountRequired(p)
    \/ WaitSucceeds(p) \/ WaitTimesOut(p) \/ StartContainers(p)
-----------------------------------------------------------------------------
(***************************************************************************)
(* desiredStateOfWorldPopulator.                                           *)
(***************************************************************************)
populatorUnchanged ==
    UNCHANGED <<opVars, hostVars, aswVars, podVars, reconciler, synced,
                nodeVars, restarts>>

\* findAndAddNewPods takes the pods that are not terminated.
FindPods ==
    /\ populator.pc = "idle"
    /\ populator' = [populator EXCEPT
         !.pc = "add", !.pods = {p \in podManager : phase[p] # "terminated"}]
    /\ UNCHANGED <<failures, dswVars, processedPods>>
    /\ populatorUnchanged

\* processPodVolumes, unless the pod has been processed before.
ProcessPod(p) ==
    /\ populator.pc = "add" /\ p \in populator.pods
    /\ populator' =
         IF p \in processedPods
         THEN [populator EXCEPT !.pods = @ \ {p}]
         ELSE [populator EXCEPT !.pc = "volumes", !.pods = @ \ {p},
                                !.pod = p, !.vols = PodVolumes[p]]
    /\ UNCHANGED <<failures, dswVars, processedPods>>
    /\ populatorUnchanged

AddVolume(v) ==
    /\ populator.pc = "volumes" /\ v \in populator.vols
    /\ dsw!AddPodToVolume(populator.pod, v)
    /\ populator' = [populator EXCEPT !.vols = @ \ {v}]
    /\ UNCHANGED <<failures, processedPods>>
    /\ populatorUnchanged

\* createVolumeSpec fails, as for a claim that is not bound yet: the volume
\* is skipped, and the pod counts as processed all the same.
AddVolumeFails(v) ==
    /\ populator.pc = "volumes" /\ v \in populator.vols
    /\ failures < MaxFailures
    /\ failures' = failures + 1
    /\ populator' = [populator EXCEPT !.vols = @ \ {v}]
    /\ UNCHANGED <<dswVars, processedPods>>
    /\ populatorUnchanged

MarkPodProcessed ==
    /\ populator.pc = "volumes" /\ populator.vols = {}
    /\ processedPods' = processedPods \cup {populator.pod}
    /\ populator' = [populator EXCEPT !.pc = "add", !.pod = NoPod]
    /\ UNCHANGED <<failures, dswVars>>
    /\ populatorUnchanged

\* findAndRemoveDeletedPods, at most once in getPodStatusRetryDuration.
FindDeletedPods ==
    /\ populator.pc = "add" /\ populator.pods = {}
    /\ populator' = [populator EXCEPT !.pc = "remove",
                                      !.items = dsw!GetVolumesToMount]
    /\ UNCHANGED <<failures, dswVars, processedPods>>
    /\ populatorUnchanged

SkipDeletedPods ==
    /\ populator.pc = "add" /\ populator.pods = {}
    /\ populator' = IdlePopulator
    /\ UNCHANGED <<failures, dswVars, processedPods>>
    /\ populatorUnchanged

\* Mutant: the containers of a deleted pod are not looked at.
RemoveItemRunning(x) ==
    /\ populator.pc = "remove" /\ x \in populator.items
    /\ populator' = [populator EXCEPT !.items = @ \ {x}]
    /\ IF x.pod \in podManager
       THEN UNCHANGED <<dswVars, processedPods>>
       ELSE /\ dsw!DeletePodFromVolume(x.pod, x.vol)
            /\ processedPods' = processedPods \ {x.pod}
    /\ UNCHANGED failures
    /\ populatorUnchanged

\* One volume of the pass: pods the kubelet knows keep their volumes (none
\* of the volumes here is memory backed), and so do pods with containers
\* running, by one listing of the containers for the whole pass.
RemoveItem(x) ==
    /\ populator.pc = "remove" /\ x \in populator.items
    /\ IF x.pod \in podManager
       THEN /\ populator' = [populator EXCEPT !.items = @ \ {x}]
            /\ UNCHANGED <<dswVars, processedPods>>
       ELSE LET runningPods == IF populator.fetched THEN populator.runningPods
                               ELSE running
            IN  /\ populator' = [populator EXCEPT !.items = @ \ {x},
                     !.fetched = TRUE, !.runningPods = runningPods]
                /\ IF x.pod \in runningPods
                   THEN UNCHANGED <<dswVars, processedPods>>
                   ELSE /\ dsw!DeletePodFromVolume(x.pod, x.vol)
                        /\ processedPods' = processedPods \ {x.pod}
    /\ UNCHANGED failures
    /\ populatorUnchanged

\* The container runtime cannot be asked: the volume is kept.
GetPodsFails(x) ==
    /\ populator.pc = "remove" /\ x \in populator.items
    /\ x.pod \notin podManager /\ ~populator.fetched
    /\ failures < MaxFailures
    /\ failures' = failures + 1
    /\ populator' = [populator EXCEPT !.items = @ \ {x}]
    /\ UNCHANGED <<dswVars, processedPods>>
    /\ populatorUnchanged

EndRemove ==
    /\ populator.pc = "remove" /\ populator.items = {}
    /\ populator' = IdlePopulator
    /\ UNCHANGED <<failures, dswVars, processedPods>>
    /\ populatorUnchanged

PopulatorStep ==
    \/ FindPods \/ MarkPodProcessed \/ FindDeletedPods \/ SkipDeletedPods
    \/ EndRemove
    \/ \E p \in Pods : ProcessPod(p)
    \/ \E v \in Volumes : AddVolume(v)
    \/ \E x \in populator.items : RemoveItem(x)
-----------------------------------------------------------------------------
(***************************************************************************)
(* reconciler: reconcile, in three passes over readings of the caches.     *)
(***************************************************************************)
reconcilerUnchanged ==
    UNCHANGED <<failures, hostVars, podVars, processedPods, populator,
                nodeVars, restarts>>

Pass(pc, work) == reconciler' = [reconciler EXCEPT !.pc = pc, !.work = work]

\* The next pass begins when the one before has nothing left; after the
\* last the state may be synchronized with the disk (when all sources are
\* ready and the last time is long enough ago), and the loop starts again.
NextPass ==
    /\ reconciler.work = {} /\ reconciler.pc # "sync"
    /\ \/ reconciler.pc = "idle"    /\ Pass("unmount", asw!GetMountedVolumes)
       \/ reconciler.pc = "unmount" /\ Pass("mount", dsw!GetVolumesToMount)
       \/ reconciler.pc = "mount"   /\ Pass("detach", asw!GetUnmountedVolumes)
       \/ reconciler.pc = "detach"  /\ Pass("idle", {})
    /\ UNCHANGED <<opVars, aswVars, dswVars, synced>>
    /\ reconcilerUnchanged

Done(x) == reconciler' = [reconciler EXCEPT !.work = @ \ {x}]

\* Mutant: no volume is ever unmounted.
ReconcileUnmountNot(x) ==
    /\ reconciler.pc = "unmount" /\ x \in reconciler.work
    /\ Done(x)
    /\ UNCHANGED <<opVars, aswVars, dswVars, synced>>
    /\ reconcilerUnchanged

\* "Ensure volumes that should be unmounted are unmounted."
ReconcileUnmount(x) ==
    /\ reconciler.pc = "unmount" /\ x \in reconciler.work
    /\ Done(x)
    /\ IF dsw!PodExistsInVolume(x.pod, x.vol)
       THEN UNCHANGED opVars
       ELSE Start("unmount", x.vol, x.pod, FALSE)
    /\ UNCHANGED <<aswVars, dswVars, synced>>
    /\ reconcilerUnchanged

\* "Ensure volumes that should be attached/mounted are attached/mounted."
ReconcileMount(x) ==
    /\ reconciler.pc = "mount" /\ x \in reconciler.work
    /\ Done(x)
    /\ CASE ~asw!VolumeExists(x.vol) ->
              Start(IF ControllerAttachDetachEnabled \/ x.vol \notin AttachableVolumes
                    THEN "verify" ELSE "attach", x.vol, x.pod, x.reportedInUse)
         [] asw!VolumeExists(x.vol) /\ (\/ ~asw!PodExistsInVolume(x.pod, x.vol)
                                        \/ <<x.vol, x.pod>> \in remountRequired) ->
              Start("mount", x.vol, x.pod, x.reportedInUse)
         [] OTHER -> UNCHANGED opVars
    /\ UNCHANGED <<aswVars, dswVars, synced>>
    /\ reconcilerUnchanged

\* "Ensure devices that should be detached/unmounted are detached/unmounted."
\* Where the kubelet does not detach, the volume is dropped from the actual
\* state of the world at once, also while an operation on it is pending.
ReconcileDetach(x) ==
    /\ reconciler.pc = "detach" /\ x \in reconciler.work
    /\ Done(x)
    /\ CASE dsw!VolumeExists(x.vol) -> UNCHANGED <<opVars, aswVars>>
         [] ~dsw!VolumeExists(x.vol) /\ x.globallyMounted ->
              Start("unmountDevice", x.vol, NoPod, FALSE) /\ UNCHANGED aswVars
         [] OTHER ->
              IF ControllerAttachDetachEnabled \/ x.vol \notin AttachableVolumes
              THEN asw!MarkVolumeAsDetached(x.vol) /\ UNCHANGED opVars
              ELSE Start("detach", x.vol, NoPod, FALSE) /\ UNCHANGED aswVars
    /\ UNCHANGED <<dswVars, synced>>
    /\ reconcilerUnchanged

-----------------------------------------------------------------------------
(***************************************************************************)
(* reconciler: syncStates.                                                 *)
(***************************************************************************)
\* sourcesReady.AllReady(): the kubelet has been told of every pod the API
\* server has for this node.
SourcesReady ==
    \A p \in Pods : phase[p] \in {"active", "terminated"} => p \in podManager

\* getVolumesFromPodDir, after the last pass of reconcile.
SyncScan ==
    /\ reconciler.pc = "detach" /\ reconciler.work = {}
    /\ SourcesReady
    /\ Pass("sync", {[vol |-> m[1], pod |-> m[2]] : m \in podMounts})
    /\ UNCHANGED <<opVars, aswVars, dswVars, synced>>
    /\ reconcilerUnchanged

\* reconstructVolume: ConstructVolumeSpec fails when nothing is mounted.
SyncReconstruct(x) ==
    /\ reconciler.pc = "sync" /\ x \in reconciler.work
    /\ reconciler' = [reconciler EXCEPT
         !.work = @ \ {x}, !.item = x,
         !.pc = IF <<x.vol, x.pod>> \in podMounts THEN "checkPending" ELSE @]
    /\ UNCHANGED <<opVars, aswVars, dswVars, synced>>
    /\ reconcilerUnchanged

\* The readings of the pending operations, of the desired state and of the
\* actual state, in this order.  The first two count only once the states
\* have been synchronized; before that a volume without attacher is skipped.
SyncPending ==
    /\ reconciler.pc = "checkPending"
    /\ LET x == reconciler.item
       IN  reconciler' = [reconciler EXCEPT !.pc =
             IF synced /\ IsOperationPending(operations, x.vol, x.pod)
             THEN "sync" ELSE "checkDesired"]
    /\ UNCHANGED <<opVars, aswVars, dswVars, synced>>
    /\ reconcilerUnchanged

SyncDesired ==
    /\ reconciler.pc = "checkDesired"
    /\ LET x == reconciler.item
       IN  reconciler' = [reconciler EXCEPT !.pc =
             IF IF synced THEN dsw!PodExistsInVolume(x.pod, x.vol)
                ELSE x.vol \notin AttachableVolumes
             THEN "sync" ELSE "checkActual"]
    /\ UNCHANGED <<opVars, aswVars, dswVars, synced>>
    /\ reconcilerUnchanged

\* volumesNeedUpdate is keyed by the volume: one pod of each is kept.
SyncActual ==
    /\ reconciler.pc = "checkActual"
    /\ LET x == reconciler.item
       IN  reconciler' = [reconciler EXCEPT
             !.pc = "sync",
             !.updates[x.vol] = IF asw!PodExistsInVolume(x.pod, x.vol)
                                THEN @ ELSE x.pod]
    /\ UNCHANGED <<opVars, aswVars, dswVars, synced>>
    /\ reconcilerUnchanged

\* updateStates: MarkVolumeAsAttached, AddPodToVolume and, with an attacher,
\* MarkDeviceAsMounted of the actual state, then AddPodToVolume of the
\* desired state.  An error of the actual state drops the volume.
UpdateAttached(v) ==
    /\ reconciler.pc = "sync" /\ reconciler.work = {}
    /\ reconciler.updates[v] # NoPod
    /\ asw!MarkVolumeAsAttached(v)
    /\ reconciler' = [reconciler EXCEPT
         !.pc = "updateMounted", !.updates[v] = NoPod,
         !.item = [vol |-> v, pod |-> reconciler.updates[v]]]
    /\ UNCHANGED <<opVars, dswVars, synced>>
    /\ reconcilerUnchanged

UpdateMounted ==
    /\ reconciler.pc = "updateMounted"
    /\ LET x == reconciler.item
       IN  IF asw!VolumeExists(x.vol)
           THEN /\ asw!MarkVolumeAsMounted(x.pod, x.vol)
                /\ reconciler' = [reconciler EXCEPT !.pc =
                     IF x.vol \in AttachableVolumes THEN "updateDevice"
                     ELSE "updateDesired"]
           ELSE /\ reconciler' = [reconciler EXCEPT !.pc = "sync"]
                /\ UNCHANGED aswVars
    /\ UNCHANGED <<opVars, dswVars, synced>>
    /\ reconcilerUnchanged

UpdateDevice ==
    /\ reconciler.pc = "updateDevice"
    /\ LET v == reconciler.item.vol
       IN  IF asw!VolumeExists(v)
           THEN /\ asw!MarkDeviceAsMounted(v)
                /\ reconciler' = [reconciler EXCEPT !.pc = "updateDesired"]
           ELSE /\ reconciler' = [reconciler EXCEPT !.pc = "sync"]
                /\ UNCHANGED aswVars
    /\ UNCHANGED <<opVars, dswVars, synced>>
    /\ reconcilerUnchanged

UpdateDesired ==
    /\ reconciler.pc = "updateDesired"
    /\ dsw!AddPodToVolume(reconciler.item.pod, reconciler.item.vol)
    /\ reconciler' = [reconciler EXCEPT !.pc = "sync"]
    /\ UNCHANGED <<opVars, aswVars, synced>>
    /\ reconcilerUnchanged

\* updateLastSyncTime.
SyncEnd ==
    /\ reconciler.pc = "sync" /\ reconciler.work = {}
    /\ reconciler.updates = NoUpdates
    /\ reconciler' = IdleReconciler
    /\ synced' = TRUE
    /\ UNCHANGED <<opVars, aswVars, dswVars>>
    /\ reconcilerUnchanged

ReconcilerStep ==
    \/ NextPass \/ SyncScan \/ SyncEnd
    \/ SyncPending \/ SyncDesired \/ SyncActual
    \/ UpdateMounted \/ UpdateDevice \/ UpdateDesired
    \/ \E x \in reconciler.work :
         \/ ReconcileUnmount(x) \/ ReconcileMount(x) \/ ReconcileDetach(x)
         \/ SyncReconstruct(x)
    \/ \E v \in Volumes : UpdateAttached(v)
-----------------------------------------------------------------------------
(***************************************************************************)
(* tryUpdateNodeStatus: GetVolumesInUse, the patch of the node's status,   *)
(* MarkVolumesAsReportedInUse.                                             *)
(***************************************************************************)
statusUnchanged ==
    UNCHANGED <<opVars, hostVars, aswVars, podVars, managerVars,
                controllerVars, restarts>>

\* Mutant: the list is computed without waiting for the synchronization.
UpdateStatusAtOnce ==
    /\ ControllerAttachDetachEnabled /\ AttachableVolumes # {}
    /\ statusUpdate.pc = "idle"
    /\ statusUpdate' = [pc    |-> "asw",
                        inUse |-> {v \in AttachableVolumes : dsw!VolumeExists(v)}]
    /\ UNCHANGED <<failures, dswVars, nodeVolumesInUse>>
    /\ statusUnchanged

\* The list is computed once the states have been synchronized; before that
\* the one of the API server is sent back.  (Nobody reads the list of a
\* kubelet that attaches volumes itself.)
UpdateStatus ==
    /\ ControllerAttachDetachEnabled /\ AttachableVolumes # {}
    /\ statusUpdate.pc = "idle"
    /\ statusUpdate' =
         IF synced
         THEN [pc    |-> "asw",
               inUse |-> {v \in AttachableVolumes : dsw!VolumeExists(v)}]
         ELSE [pc |-> "patch", inUse |-> nodeVolumesInUse]
    /\ UNCHANGED <<failures, dswVars, nodeVolumesInUse>>
    /\ statusUnchanged

GetGloballyMounted ==
    /\ statusUpdate.pc = "asw"
    /\ statusUpdate' = [pc    |-> "patch",
                        inUse |-> statusUpdate.inUse \cup
                                    (globallyMounted \cap AttachableVolumes)]
    /\ UNCHANGED <<failures, dswVars, nodeVolumesInUse>>
    /\ statusUnchanged

PatchStatus ==
    /\ statusUpdate.pc = "patch"
    /\ nodeVolumesInUse' = statusUpdate.inUse
    /\ statusUpdate' = [statusUpdate EXCEPT !.pc = "mark"]
    /\ UNCHANGED <<failures, dswVars>>
    /\ statusUnchanged

\* Mutant: the error of the patch is dropped.
PatchStatusDropped ==
    /\ statusUpdate.pc = "patch"
    /\ statusUpdate' = [statusUpdate EXCEPT !.pc = "mark"]
    /\ failures < MaxFailures
    /\ failures' = failures + 1
    /\ UNCHANGED <<dswVars, nodeVolumesInUse>>
    /\ statusUnchanged

PatchStatusFails ==
    /\ statusUpdate.pc = "patch"
    /\ failures < MaxFailures
    /\ failures' = failures + 1
    /\ statusUpdate' = IdleStatus
    /\ UNCHANGED <<dswVars, nodeVolumesInUse>>
    /\ statusUnchanged

MarkVolumesAsReportedInUse ==
    /\ statusUpdate.pc = "mark"
    /\ dsw!MarkVolumesReportedInUse(statusUpdate.inUse)
    /\ statusUpdate' = IdleStatus
    /\ UNCHANGED <<failures, nodeVolumesInUse>>
    /\ statusUnchanged

StatusStep ==
    \/ UpdateStatus \/ GetGloballyMounted \/ PatchStatus
    \/ MarkVolumesAsReportedInUse
-----------------------------------------------------------------------------
(***************************************************************************)
(* The attach/detach controller, one node and no failures: what it does    *)
(* with a volume of this node.  A forced detach, after the volume has been *)
(* in use for maxWaitForUnmountDuration, is left out.                      *)
(***************************************************************************)
controllerUnchanged ==
    /\ ControllerAttachDetachEnabled
    /\ UNCHANGED <<opVars, failures, deviceMounts, podMounts, stillOpen,
                   aswVars, dswVars, podVars, managerVars,
                   nodeVolumesInUse, statusUpdate, restarts>>

Wanted(v) == \E p \in Pods : phase[p] = "active" /\ v \in PodVolumes[p]

\* A volume that is wanted and not attached is attached, and reported.
ControllerAttach(v) ==
    /\ v \in AttachableVolumes /\ Wanted(v) /\ v \notin deviceAttached
    /\ deviceAttached' = deviceAttached \cup {v}
    /\ volumesAttached' = volumesAttached \cup {v}
    /\ mountedByNode' = [mountedByNode EXCEPT ![v] = "assumed"]
    /\ UNCHANGED detaching
    /\ controllerUnchanged

\* processVolumesInUse: a volume is taken to be mounted until it has been
\* seen in VolumesInUse once.
ProcessVolumesInUse(v) ==
    /\ v \in deviceAttached
    /\ LET seen == IF v \in nodeVolumesInUse THEN "yes"
                   ELSE IF mountedByNode[v] = "assumed" THEN "assumed" ELSE "no"
       IN  /\ mountedByNode[v] # seen
           /\ mountedByNode' = [mountedByNode EXCEPT ![v] = seen]
    /\ UNCHANGED <<deviceAttached, volumesAttached, detaching>>
    /\ controllerUnchanged

\* A volume that is not wanted is no longer reported as attached, ...
ControllerUnreport(v) ==
    /\ v \in deviceAttached /\ ~Wanted(v)
    /\ detaching[v] = "no" /\ mountedByNode[v] = "no"
    /\ volumesAttached' = volumesAttached \ {v}
    /\ detaching' = [detaching EXCEPT ![v] = "unreported"]
    /\ UNCHANGED <<deviceAttached, mountedByNode>>
    /\ controllerUnchanged

\* ... then verifyVolumeIsSafeToDetach reads the node's status, and reports
\* the volume again when it is in use, ...
VerifySafeToDetach(v) ==
    /\ detaching[v] = "unreported"
    /\ IF v \in nodeVolumesInUse
       THEN /\ volumesAttached' = volumesAttached \cup {v}
            /\ detaching' = [detaching EXCEPT ![v] = "no"]
       ELSE /\ detaching' = [detaching EXCEPT ![v] = "verified"]
            /\ UNCHANGED volumesAttached
    /\ UNCHANGED <<deviceAttached, mountedByNode>>
    /\ controllerUnchanged

\* ... and detaches it.
ControllerDetach(v) ==
    /\ detaching[v] = "verified"
    /\ deviceAttached' = deviceAttached \ {v}
    /\ detaching' = [detaching EXCEPT ![v] = "no"]
    /\ UNCHANGED <<volumesAttached, mountedByNode>>
    /\ controllerUnchanged

ControllerStep(v) ==
    \/ ControllerAttach(v) \/ ProcessVolumesInUse(v) \/ ControllerUnreport(v)
    \/ VerifySafeToDetach(v) \/ ControllerDetach(v)
-----------------------------------------------------------------------------
\* The kubelet restarts: goroutines and caches are gone.
Restart ==
    /\ restarts < MaxRestarts
    /\ restarts' = restarts + 1
    /\ operations' = << >>
    /\ routines' = [r \in Routines |-> Idle]
    /\ attachedVolumes' = {} /\ globallyMounted' = {} /\ remountRequired' = {}
    /\ mountedPods' = [v \in Volumes |-> {}]
    /\ podsToMount' = [v \in Volumes |-> {}] /\ reportedInUse' = {}
    /\ podManager' = {}
    /\ waiter' = [p \in Pods |-> "idle"]
    /\ processedPods' = {}
    /\ populator' = IdlePopulator
    /\ reconciler' = IdleReconciler
    /\ synced' = FALSE
    /\ statusUpdate' = IdleStatus
    /\ UNCHANGED <<failures, hostVars, phase, running, startedLate,
                   nodeVolumesInUse, controllerVars>>

\* A step of a goroutine or of the clock; the rest of the kubelet stays.
Executor(A) ==
    A /\ UNCHANGED <<dswVars, podVars, managerVars, nodeVars, restarts>>

Next ==
    \/ \E p \in Pods : PodStep(p)
    \/ PopulatorStep
    \/ \E v \in Volumes : AddVolumeFails(v)
    \/ \E x \in populator.items : GetPodsFails(x)
    \/ ReconcilerStep
    \/ \E r \in Routines :
         Executor(RoutineStep(r) \/ CallFails(r) \/ DeviceStillOpen(r))
    \/ Executor(Tick)
    \/ StatusStep \/ PatchStatusFails
    \/ \E v \in Volumes : ControllerStep(v)
    \/ Restart

Spec == Init /\ [][Next]_vars

(***************************************************************************)
(* Every thread goes on, and the steps that are taken at intervals         *)
(* (findAndRemoveDeletedPods, sync) are taken again and again.             *)
(* HandlePodCleanups kills the containers of pods that are gone.           *)
(***************************************************************************)
Fairness ==
    /\ WF_vars(PopulatorStep) /\ SF_vars(FindDeletedPods)
    /\ WF_vars(ReconcilerStep) /\ SF_vars(SyncScan)
    /\ \A r \in Routines : WF_vars(Executor(RoutineStep(r)))
    /\ WF_vars(Executor(Tick))
    /\ WF_vars(StatusStep)
    /\ \A v \in Volumes : WF_vars(ControllerStep(v))
    /\ \A p \in Pods : /\ WF_vars(dispatchWork(p)) /\ WF_vars(ReprocessPod(p))
                       /\ WF_vars(MarkRemountRequired(p))
                       /\ WF_vars(WaitTimesOut(p))
                       /\ WF_vars(StopContainers(p) /\ phase[p] = "deleted")
                       /\ WF_vars(AddPod(p) /\ phase[p] # "unscheduled")

FairSpec == Spec /\ Fairness
-----------------------------------------------------------------------------
(***************************************************************************)
(* Properties.                                                             *)
(***************************************************************************)
Working(kinds, steps, v, p) ==
    \E r \in Routines : /\ routines[r] # Idle
                        /\ routines[r].kind \in kinds
                        /\ routines[r].step \in steps
                        /\ routines[r].vol = v
                        /\ p = NoPod \/ routines[r].pod = p

\* A pod's directory is never mounted from a device that is not mounted on
\* the global directory any more: UnmountDevice checks the references and
\* is excluded by every other operation on the volume.
PodMountOverDevice ==
    \A m \in podMounts : m[1] \in AttachableVolumes => m[1] \in deviceMounts

\* Two goroutines never change the same mount at the same time.
OneRoutinePerMount ==
    \A r, s \in Routines :
        r # s /\ routines[r] # Idle /\ routines[s] # Idle
              /\ routines[r].vol = routines[s].vol
        => /\ routines[r].kind = "unmount" /\ routines[s].kind = "unmount"
           /\ routines[r].pod # routines[s].pod

\* The actual state of the world shows a pod's mount only while it is there,
\* or while the goroutine that removed it has not said so yet.
MountedIsTrue ==
    \A v \in Volumes : \A p \in mountedPods[v] :
        \/ <<v, p>> \in podMounts
        \/ Working({"unmount"}, {"markUnmounted"}, v, p)

\* The volumes of a pod stay mounted as long as its containers run, forced
\* deletion and restarts included.  Excepted are the containers that a syncPod
\* starts when its pod has ended while it waited (kubelet.go:1514-1528): the
\* volumes may be gone by then.
RunningPodKeepsVolumes ==
    \A p \in running \ startedLate :
        \A v \in PodVolumes[p] : <<v, p>> \in podMounts

\* So does the device under them, and it stays attached.
RunningPodKeepsDevice ==
    \A p \in running \ startedLate :
        \A v \in PodVolumes[p] \cap AttachableVolumes :
            v \in deviceMounts \cap deviceAttached

\* A device the actual state of the world shows as mounted is mounted, or the
\* goroutine that unmounted it has not said so yet.  The one exception is an
\* unmount that was carried out and then failed because the device was still
\* open (operation_generator.go:698), until the next operation settles it.
DeviceMountedIsTrue ==
    \A v \in globallyMounted :
        \/ v \in deviceMounts \cup stillOpen
        \/ Working({"unmountDevice"}, {"markDeviceUnmounted"}, v, NoPod)

\* A volume that counts as reported is in the node's status: an operation
\* started on the strength of it finds the controller informed.
ReportedIsInUse == reportedInUse \subseteq nodeVolumesInUse

\* The mounts of a deleted pod whose containers are gone are removed.
Cleanup ==
    \A p \in Pods :
        (phase[p] = "deleted" /\ p \notin running)
            ~> (\A v \in Volumes : <<v, p>> \notin podMounts)

\* A pod that stays active has its volumes mounted in the end.
MountProgress ==
    \A p \in Pods : \A v \in PodVolumes[p] :
        phase[p] = "active" ~> (phase[p] # "active" \/ <<v, p>> \in podMounts)
=============================================================================
