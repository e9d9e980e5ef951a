# Formal models of the volume stack and the backup agent of opensds/proposals

The repository collects four independent prototypes. This project models, in
TLA+, the two with concurrent logic of their own:

- the Kubernetes fork with an NVMe over Fabrics (NVMe-oF) volume driver,
  `src/k8s-nof-poc`, and in it the path from "a pod wants a volume" to "the
  volume is attached and mounted, and released afterwards", on the node and in
  the attach/detach controller;
- the backup agent of `src/intelligent-protector`, which freezes databases for
  a snapshot, and in it the guarantee that nothing stays frozen.

## 1. Inventory

Paths are relative to `src/k8s-nof-poc/` unless they begin with `src/`.

| component | state | operations | hard because | what makes it correct |
|---|---|---|---|---|
| pending operations, `pkg/volume/util/nestedpendingoperations`, `pkg/util/goroutinemap/exponentialbackoff` | the list of operations: volume, pod, pending, back-off | `Run`, `operationComplete`, `IsOperationPending` | goroutines per volume and pod; entries are taken over, renamed, moved; retries | conflicting operations never overlap; every pending entry is completed; nothing is refused forever |
| NVMe-oF plugin, `pkg/volume/nvmeof`, with `pkg/util/mount` | none of its own: the mount table and the drives of the host | `SetUp`, `TearDown` (`AttachDisk`, `DetachDisk`, connect, disconnect) | no lock between pods; every command may fail halfway | a pod sees its own target; a disk is mounted over one connection; it is disconnected with its last reference |
| desired state of the world, `pkg/kubelet/volumemanager/cache` | pods to mount per volume, reported-in-use marks | add, delete, mark reported | read and written by four threads | a volume that counts as reported is in the node's status |
| actual state of the world, same package | attached volumes, device mounts, mounted pods, remount marks | the `Mark...` methods | told of changes after they happened | what it shows is there |
| operation executor and generator, `pkg/volume/util/operationexecutor` | goroutines | attach, verify, mount, unmount, unmount device, detach | effect on the host and note in the cache are two steps | one goroutine per mount; no pod mount over an unmounted device |
| populator, `pkg/kubelet/volumemanager/populator` | processed pods | add new pods, remove deleted pods | acts on listings that age | a running pod keeps its volumes |
| reconciler, `pkg/kubelet/volumemanager/reconciler` | time of last sync | unmount pass, mount pass, detach pass, `syncStates` | snapshots of two caches, reconstruction from disk after a restart | clean-up, progress, no phantom mounts |
| volume manager and its callers, `volume_manager.go`, `kubelet.go`, `kubelet_node_status.go` | pod workers, node status | `WaitForAttachAndMount`, `GetVolumesInUse`, patch of the status | the status is computed, sent and noted in four steps; restarts | mounted in the end; in use is reported before it is relied on |
| attach/detach controller, `pkg/controller/volume/attachdetach` | desired state (nodes, volumes, pods), actual state (attachments, mounted-by-node, volumes to report), the reconciler's pass | pod and node handlers, populator, detach and attach passes, status updates, verification | another process that sees the node through its status only; reports are withdrawn before, and given back after, an operation that may be refused | what it shows as attached is; no report without an entry; what is not needed is detached |
| freeze monitor, `src/intelligent-protector/src/src/agent/FTExceptionHandle.cpp` | list of frozen objects, `FreezeObjTable`, index of the pass | register a freeze, handle a response, monitor pass, load after a start | four threads under one lock, requests of its own that come back seconds later, crashes | a frozen database is in list and table; it is thawed in the end, and not before its time |
| request dispatch, `Communication.cpp`, `TaskDispatchWorker.cpp`, `TaskWorker.cpp` of the agent | request and response queues, the workers' queues and busy flags, a wrapping counter | receive, dispatch, work, send | one queue for clients and monitor, flags without a lock | every request is answered |
| plugins, plugin manager, SNMP of the agent | plugin map, reference counts | run scripts, load, upgrade | the upgrade has no caller | not modelled |
| SDS controller, `src/intel-sds-proto` | database rows | REST services | - | not modelled |
| storage SDK, `src/coprhd-storage-sdk` | none | adapters to vendor services | - | not modelled |

How they interact: pod workers call `WaitForAttachAndMount` and poll the actual
state; the populator turns the kubelet's pods into the desired state; the
reconciler compares the two states and hands operations to the executor, which
registers each in the list of pending operations and runs it in a goroutine; a
goroutine calls the plugin, and then tells the actual state. The node status
carries VolumesInUse to the controller and VolumesAttached back. The plugin acts
on the host, which all pods share. The caches and the list have a lock each;
nothing holds two. The controller's reconciler shares its two caches with the
informers' handlers, the populator and the goroutines.

In the agent the receiver thread registers a freeze and queues the request, the
dispatcher hands it to an idle worker, the worker invokes the plugin and queues
the response, and the sender notes the outcome and answers the client. The
monitor thread puts requests of its own into the same queue and takes their
responses out of the same response queue. Receiver, sender and monitor share the
list under `m_tMonitorsLock`.

The hazards this leads to are in `PROJECT.json` ("hazards"), each at its line.

## 2. Modules

```
OperationList            operators on the list of pending operations
  NestedPendingOperations    callers, goroutines; refines ExclusiveOperations
  OperationExecutor          goroutines of the kubelet; instance ActualStateOfWorld
    VolumeManager            threads of the kubelet; instance DesiredStateOfWorld
  AttachDetachCaches         the controller's two caches
    AttachDetachController   handlers, reconciler, goroutines; kubelets, API server
NvmeofDriver             the plugin over the host
FreezeMonitor            the agent's list and table of frozen objects
AgentDispatch            the agent's queues, dispatcher and workers
  BackupAgent                threads of the agent over both, plugins, crashes
OperationListTheorems, SequenceLemmas                         lemmas
  NestedPendingOperations_proofs, AttachDetachController_proofs,
  NvmeofDriver_proofs, BackupAgent_proofs,
  VolumeManager_proofs
    VolumeDevices_proofs                                      theorems
MC*                                                           instances for TLC
```

**OperationList.** The list as a sequence of records; every operator is one
critical section of `nestedPendingOperations.lock`. `Matches` is the set of
indices at which the loop of `isOperationExists` would stop, `First` the one it
stops at; `AfterRun` is what an accepted `Run` leaves (the first match is taken
over under the new name, or an entry is appended), `operationComplete` what the
deferred completion leaves, with the removal that moves the last entry into the
hole. Time is relative: an entry carries what remains of its wait, and `Later`
lets one unit pass.

**NestedPendingOperations.** `Run` and `Complete` of goroutines with an identity,
for any set of requests. `ExclusiveOperations` is the promise in the comment of
`Run`: an operation begins only while no conflicting one executes.

**NvmeofDriver.** One process per pod; a step is one call that reads or changes
the host. `mounts` is `/proc/mounts`, oldest first, so that
`GetDeviceNameFromMount` and `GetMountRefs` (which take the first entry of a
path) and `IsLikelyNotMountPoint` and `umount` (which see the last) disagree
where the code's do. The kernel gives a new connection the first free name. Each
call may fail; a bind mount may fail after its effect, because options are set
by a second `mount`; an error of the check in `AttachDisk` is ignored
(`CheckGlobalFails`; `ignored` remembers that it hid a mount), one of the last
check in `diskTearDown` is returned as success (`RemoveCheckFails`).

**ActualStateOfWorld, DesiredStateOfWorld.** The two caches, one operator per
method. Instances: their variables belong to the module that uses them.

**OperationExecutor.** What a goroutine does, call by call: effect on the host
(`deviceAttached`, `deviceMounts`, `podMounts`) and note in the actual state are
steps of their own. `OperationPod` is the name under which it is registered: a
mount of an attachable volume for the volume, an unmount for the pod. A call
fails before it has an effect (`CallFails`: plugins other than NVMe-oF are known
by their contract only); the failure after the effect that the operation itself
has, a device that is still open after its unmount, is `DeviceStillOpen`, and
`stillOpen` remembers it until the next operation on the device.

**VolumeManager.** Pod workers (an update is dispatched, `WaitForAttachAndMount`
has the pod processed again, then marked for remounting, then polls, and
`syncPod` starts the containers), the populator's loop, the reconciler's loop with
its three passes over readings of the caches, `syncStates` reading by reading,
the node's status update in its four steps, the controller's side for one node,
and `Restart`, which empties the memory of the kubelet and leaves the host, the
containers and the API server.

The end of a pod does not end its worker's `syncPod`: `ForgetWorker` closes a
channel, and whoever has taken an update from it goes on. `startedLate` records
the pods whose containers were started that way after the pod had ended.

Abstractions: names instead of specs, device paths and gids; a pod counts as
terminated when its containers have exited (an evicted pod is `Failed` shortly
before they are killed, and stays known to the pod manager, so that the
populator keeps its volumes); no memory-backed
volumes; plugins other than NVMe-oF by their contract (mount and unmount are
idempotent); the controller attaches in one step, does not fail and does not
detach by force; a volume without attacher belongs to one pod, because its
unique name holds the pod's.

**AttachDetachCaches.** The desired and the actual state of the world of the
controller, one operator per method. `attachedVolumes` is a function of volume
and node; `nodesToUpdateStatusFor` keeps, per node, the volumes to report and the
flag that a status update is needed. The time of a detach request is "zero",
"recent" or "expired" (`maxWaitForUnmountDuration`).

**AttachDetachController.** The handlers act on informer stores that lag behind
the API server. A pass of the reconciler is a sequence of steps with the copy it
works on in `rc`: consider a volume, withdraw it from the report, collect and
patch the statuses, start the detach; then the attaches, the statuses once more,
and `syncStates`. Goroutines step through plugin call and note, and use
`OperationList` for acceptance and back-off. The kubelet is reduced to its side
of the protocol: report, verify and mark attached, mount and mark mounted,
unmount, forget, each a step of its own, with a forget possible while a mount is
under way. `VolumeManager` has the kubelet in full, with the controller reduced
in turn. Nothing orders the steps of the two processes, of the informers and of
the pass: a patch may be computed from an old copy of the node, and a back-off
may end within a pass. `faults` counts failing calls (`CallFails` before,
`CallFailsLate` after the effect on the back end), missed deletions, deleted node
objects and restarts; `detachedLate` remembers detaches that took effect although
the call failed. The verification of a node's volumes runs once at a time per
node.

**FreezeMonitor.** List and table, one operator per method. An object's begin
time is the age it gives, in ticks; ages beyond `MAX_MONITOR_TIME` are the same.

**AgentDispatch.** Queues as sequences of messages; `PushMsgToWorker` is one
round of the dispatcher's loop, with the counter that wraps at
`MaxPushedWorkers` and the subtraction that is meant to count the workers tried.

**BackupAgent.** A step is one critical section or one call. A request carries
the objects it freezes; plugins act on `frozen` and may fail with part of their
effect. `Upsets` names further things that may happen, all of which break a
property (see below): slow requests, errors of the agent's database, a missing
query script, a freeze of what is frozen. Requests are served as soon as the
process runs, before the table is loaded, because `AgentInit` starts threads and
workers first. `PushFails` is an internal request that could not be made,
`DropInternalRsp` an answer dropped unread because instance or database cannot be
read from its request. `stranded` holds the objects that clients asked for
before the load, or whose answer was dropped, until such an object is frozen anew
with nothing left of it in databases, list, table and queues (`Forgotten`). The
model begins with an agent that has loaded its empty table; every later start,
after a crash, goes through the time before the load. Plugins are modelled by
what their freeze, unfreeze and query promise.
Without "slow" no request lasts for two ticks, since a tick is the unit of loop
times in minutes; the monitor makes a pass in every tick, since it sleeps for
seconds.

## 3. Runs

Bounds: `MaxOperations` (list), `MaxDrives`, `MaxFailures` (calls that fail),
`MaxInFlight` (plugin operations at once), `MaxRestarts`, `Routines`
(goroutines), `WorkedPods` (pods whose workers run), `MaxDurationBeforeRetry`.
`ForcedDeletion` admits the deletion of pods whose containers run. `MaxFaults`
(failures, crashes and restarts together), `MaxOutstanding` (client requests
under way), `MaxMonitorTime`, `DelayUnfreezeTime`, `LoopTime` (ticks),
`WorkerCount`, `MaxPushedWorkers` (where the dispatcher's counter wraps).

| run | states | shows |
|---|---|---|
| `NPO_PerPod` | 3 229 | two volumes with one pod each, three goroutines, waits of 1, 2, 3: exclusion, correspondence of list and goroutines, no request refused forever, refinement |
| `NPO_Shared` | 226 996 | one volume, three pods and volume-less operations: entries get duplicated, and a goroutine that ends finds one all the same |
| `Nvmeof_Serial` | 373 676 | three pods, two of them on one target, one operation at a time, two failures: until an ignored error hides a mount, each pod sees its target, over one connection, disconnected with its last reference |
| `VM_Nvmeof` | 508 000 | a pod with an NVMe-oF volume, one failure, one restart; safety and liveness |
| `VM_ForcedDeletion` | 3.6 million | an attachable volume, deletion while containers run or `syncPod` is under way, one failure |
| `VM_Restart` | 6.5 million | the same with one restart |
| `VM_SharedVolume` | 1.8 million | two pods, one volume, two goroutines, one restart, attach by the kubelet |
| `ADC_Progress` | 657 093 | a node, a volume, a pod, one fault: entries are attached, reports have entries, and what is not needed leaves the actual state |
| `FM_Monitor` | 1 224 027 | a database, a client, one fault: what is frozen is in list and table, waits have their request, and it is thawed in the end |

Why these bounds: an overlap needs three entries of one volume and three
goroutines; a wrong drive needs two connections, a wrong disconnect a shared
target and a third pod; a hazard of the volume manager needs one pod, one
volume, one goroutine and the threads, except sharing, which needs two pods and
two goroutines, and the aged listing, which needs two pods with a volume each.
One restart or one failure meets every step of every thread; both in one run
fit the NVMe-oF volume only, hence `VM_ForcedDeletion` and `VM_Restart` (the
theorems have any number of both). The controller's hazards concern one volume of
one node; a second pod that comes while the first's volume is being detached is
in `ADC_LostReport`. The agent's need one object; a `MaxMonitorTime` of 3 leaves
room for a loop time of 2 and one attempt to unfreeze: an object whose unfreeze
failed is given up, not tried again, because the doubled loop time is past the
end. The counter wraps within three requests. Runs with
`CHECK_DEADLOCK FALSE` are those in which the bounds let the system stop (no
drive name or no room in the list left); the volume manager's never stops.

Three runs end in a violation; each states what a comment of the code says, and
a finding in `PROJECT.json` quotes it.

| run | what happens |
|---|---|
| `Nvmeof_ConcurrentConnect` | two SetUps take one another's drive, and a pod sees another's disk |
| `ADC_LostReport` | a volume is taken out of VolumesAttached for a detach that the pending operations refuse; a pod that needs it next finds it attached in the controller's cache, nobody reports it again, and its kubelet waits forever |
| `FM_EarlyThaw` | the monitor's unfreeze waits in a queue while the client unfreezes and freezes again, and thaws the new freeze at once |

### Further observations

Met with the same models, and not kept as runs. Where a configuration is named,
the change reproduces the observation.

- Two goroutines of one name: the entries of the list are found by name when an
  operation ends, the wrong one may be completed, and a pending entry is left
  without a goroutine (`PendingHasRoutine`, a part of `ListMatchesRoutines`, in
  `NPO_Shared.cfg`; `MutualExclusion` there shows the overlap without the
  kubelet).
- `isOperationExists` stops at a failed pod's entry and overlooks the executing
  one behind it: a mount runs beside an unmount (`OneRoutinePerMount` in
  `VM_SharedVolume.cfg` with `MaxFailures = 1`).
- With two operations of the plugin at once a disk is disconnected under a pod
  that has just bound it, and one target is mounted over two connections
  (`DetachesLastReference`, `MountedOnce` in `Nvmeof_Serial.cfg` with
  `MaxInFlight = 2`).
- An error of the check in `AttachDisk` after a failed bind mount stacks a
  second drive on the global directory, and TearDown disconnects the lower one
  while it is mounted (drop `~ignored` in `DetachesLastReference`).
- `syncPod` starts containers without another look at their pod
  (`kubelet.go:1514-1528`): a pod that ended while `syncPod` waited has
  containers started over volumes that the populator has released, and that are
  unmounted under them (`RunningPodKeepsVolumes` or `RunningPodKeepsDevice`
  without `startedLate`, in `VM_ForcedDeletion.cfg`).
- Containers started after the listing of running pods are not seen by the
  populator, and their volume is unmounted (`RunningPodKeepsVolumes` with two
  pods that have a volume each).
- An unmount that completes between two readings of `syncStates` leaves a mount
  in the actual state that does not exist.
- `MarkVolumeAsDetached` during a pending mount: `MarkDeviceAsMounted` then
  fails after the device has been mounted, and nothing unmounts it. A restart
  between `MountDevice` and `MarkDeviceAsMounted` has the same effect.
- Where the kubelet detaches itself, it may do so by a reading of the unmounted
  volumes that a mount has overtaken.
- After a restart the old VolumesInUse, sent back, count as reported, and a
  mount starts before the first synchronization, against the comment at
  `reconciler.go:452`.
- Nothing keeps a volume that a kubelet has mounted attached. In
  `ADC_Progress.cfg` with `MaxFaults = 0` the invariant "`v \in
  kubeletMounted[n]` implies `<<v, n>> \in attachments`" is violated: a mount
  under way is in neither list of VolumesInUse once its pod is gone, the kubelet
  reports the volume as unused, and the controller detaches under the mount. With
  a second pod or a fault there are more ways: the kubelet still counts as
  attached what it has reported as unused; a failed detach ends its back-off
  within a pass and puts the report back between patch and detach; the patch is
  the difference to an informer's copy that has not caught up, and is empty. A
  pod whose containers run is not exposed to the first of them
  (`RunningPodKeepsDevice`).
- After a restart of the controller a volume attached before is known again only
  if a pod needs it; if none does it stays attached, without an entry
  (`UnneededIsDetached` is about entries).
- The flags of all nodes are reset before the first status is patched; an error
  drops the remaining patches, and only the node that failed is flagged again
  (several nodes; not run).
- The agent's `FrozenIsMonitored` fails in `FM_Monitor.cfg` with each of
  `Upsets = {"refreeze"}`, `{"table"}`, `{"script"}` and, with `MaxMonitorTime =
  5`, `{"slow"}`; with `MaxOutstanding = 2`; and with two objects of one key (the
  table is searched by instance and database, the list by application type too).
- Without the exception for `stranded` objects both `FrozenIsMonitored` and
  `WaitingHasRequest` fail in `FM_Monitor.cfg`. An unfreeze served before the load
  finds nothing in the list and leaves its row, which a later load takes for a
  freeze; a freeze served before the load is in the list twice afterwards, and
  `DelMonitorObj` removes the first of the two, whichever was meant. An answer
  dropped unread leaves its object waiting until the agent is started again.
- Read in the agent's code, not run: a re-freeze answered with a wrong password
  ends the monitoring of the freeze before it; a query that always fails keeps an
  object until it is dropped, without an alarm; with a loop time of
  `MAX_MONITOR_TIME` or more an object is given up without an attempt.

### Fairness

Only liveness runs use it. Goroutines end, because volume operations have
timeouts; time passes; the populator's and the reconciler's loops (`wait.Until`)
and the status update loop go on; a pod worker whose wait timed out calls again;
after a restart the API server tells the kubelet of its pods. Strong fairness is
assumed of `FindDeletedPods` and `SyncScan` only: they are taken at intervals at
the end of a pass that recurs forever, so each is enabled again and again, and a
pass that skips it forever would contradict the clock. The containers of a pod
that is deleted are stopped in the end (the kubelet kills them in its
housekeeping). Nothing is assumed of other containers, of deletions, failures or
restarts.

In the controller the reconciler (`wait.Until`), the informers' handlers, the
populator, the goroutines and the clocks go on, weakly. Nothing is assumed of the
kubelets: the forced detach does without them.

In the agent every thread goes on, weakly; the receiver and the sender strongly,
because they wait for a lock that the monitor takes again and again and gives up
for three seconds in between. The agent is started again after a crash. Clients
owe nothing: that they unfreeze is never assumed.

## 4. Proofs

`tlapm` checks every theorem to the last leaf. None bounds the number of pods,
volumes, nodes, goroutines, workers, failures or restarts, unless its hypothesis
says so. Every hypothesis is a statement about constants that the instances of
the runs that check the property satisfy. The assumptions on constants are the
types of the parameters, the order of the back-off's durations, and that a value
meaning "nothing" (`Idle`, `NoEntry`) is not an entry.

| module | theorem | hypothesis | states |
|---|---|---|---|
| *NestedPendingOperations_proofs* | `TypeCorrect` | - | `TypeOK` |
| | `EntryFound` | - | `RoutineHasEntry` |
| | `Correspondence`, `Exclusion`, `Implementation` | `OnePodPerVolume` | `ListMatchesRoutines`, `MutualExclusion`, `ExclusiveSpec` |
| *NvmeofDriver_proofs* | `PluginTypes` | - | `TypeOK` |
| *VolumeManager_proofs* | `VMTypeCorrect`, `Reported` | - | `TypeOK`, `ReportedIsInUse` |
| | `RunningPodIsSafe` | `OneListing` | `RunningPodKeepsVolumes` |
| | `RoutinesExclude`, `DeviceUnderMounts`, `DeviceStateIsTrue` | `FailuresOrSharing` | `OneRoutinePerMount`, `PodMountOverDevice`, `DeviceMountedIsTrue` |
| *VolumeDevices_proofs* | `RunningPodDeviceIsSafe` | `OneListing`, one pod per volume | `RunningPodKeepsDevice` |
| *AttachDetachController_proofs* | `ControllerTypes`, `ReportedVolumes`, `EntriesAreAttached` | - | `TypeOK`, `ReportedHasEntry`, `EntryIsAttached` |
| *BackupAgent_proofs* | `AgentTypes`, `NoRequestLost`, `NoWaitForgotten` | - | `TypeOK`, `OnePlaceEach`, `WaitingHasRequest` |

**The list of pending operations.** Exclusion is not inductive: that no
conflicting goroutine executes has to be read off the list, so
`ListMatchesRoutines` says that a volume has one entry, that live goroutines have
a pending entry of their name and pending entries a goroutine. Its hard case is
the deletion that moves the last entry: `DeleteEntry` of *OperationListTheorems*
says which entries the shorter list has and where they come from, `CompleteMoves`
says the same of a completion as a map from new positions to old ones.
`OnePodPerVolume` (a volume's requests all exclude one another) is how NVMe-oF
and every other non-attachable volume uses the list; without it the theorems are
false (`MutualExclusion` fails in the instance of `NPO_Shared`). `EntryFound`
needs no hypothesis: where entries of one name are duplicated, "the goroutine's
entry" means nothing any more, and the invariant `EnoughEntries` says instead
that the live goroutines can be mapped one to one to pending entries of their
names. Whichever of them a completion deletes, the map can be mended.

**The plugin.** `PluginTypes` is about any number of SetUps and TearDowns at once
and any failures: a step that takes `refs[0]`, a drive that was found or a mount
that is removed has one to take. `TypeInv` adds to the types what the program
counter of an operation says about the readings it carries. The four other
properties of `Nvmeof_Serial` are not theorems: they need one operation at a time,
which the kubelet does not guarantee, and are false otherwise
(`Nvmeof_ConcurrentConnect`, further observations).

**The volume manager.** All theorems use the types (`VMTypes`), which include
that a thread's snapshot holds pods with volumes of their specification and that
a goroutine is at a step of its own kind.

- `Reported`: a reported volume is desired (so that a list computed from the
  desired state holds it), no volume becomes reported while a list is on its way,
  and between patch and mark the list sent is the one at the server.
- `RunningPodIsSafe`: a pod is `Gone` once it has ended and its containers do not
  run or were started late, and stays so. `KeptInv`: a mount in the actual state, in the reconciler's
  snapshot or made by a goroutine is of a pod that is gone or desired (`Kept`), so
  an unmount is only ever started for a pod that is gone. `HeldInv`: a mount the
  actual state is told of is there, or its pod is gone (`Held`), also while
  `syncStates` rebuilds the state from the disk after a restart. `KnownInv`: the
  pods the threads' snapshots name are known to the kubelet as long as they are
  active, so that the populator does not take them for deleted. `OneListing`: the
  populator lists the containers once and removes pods one after another; a forced deletion later in the same
  pass meets a stale listing, so there the theorem is about a node with one pod
  (with two pods the property fails, see further observations).
- `RoutinesExclude`: `ExclusionInv` relates goroutines and list, entry by entry.
  `FailuresOrSharing` says that operations do not fail or volumes are not shared.
  With both, the back-off entries of two pods and the swap of the deletion let
  `Run` accept a second operation (further observations).
- `DeviceUnderMounts`: `DeviceInv` says what a goroutine between its check and
  its effect may rely on.
- `DeviceStateIsTrue`: `SyncDeviceInv` adds what `syncStates` knows between its
  readings. Failing operations are included, for volumes of one pod: an unmount of
  a device that is still open fails after its effect
  (`operation_generator.go:698`), which `stillOpen` records.
- `RunningPodDeviceIsSafe` follows a volume through both processes.
  `ControllerInv`: what a pod that is not gone may have mounted is in the status
  the controller reads, and in the one about to be sent. `DetachInv`: a detach,
  wherever it has got to (snapshot, goroutine, the controller's verification), is
  for a volume nobody holds. `AttachedInv`: what is held is attached and mounted.
  One pod per volume: otherwise the controller may already have verified the
  detach for one pod while the next one's mount uses the entry of the actual
  state that still says attached.

**The controller.** `ReportedVolumes`: three kinds of threads write the list
(attach, withdrawal by the reconciler, restoration by a failing detach), and two
remove entries (detach, verification), in any order. `ReportInv` adds the types
of the two maps, and that reconciler and goroutines work on volumes and nodes
that exist. `SetReport` is the lemma about a writer of the list; each operation on
the cache has its own on top (`MarkAttachedAsw`, `RemoveReport`,
`ReportAgainAsw`, and `MarkDetachedAsw`, which removes entry and report).
`ControllerTypes` adds the rest of the state; the list of operations keeps its
type by the lemmas of *OperationListTheorems*.

`EntriesAreAttached`: an entry is written after the attach and removed after the
detach, by goroutines that run beside the reconciler, the verification and a
restart. That no detach comes between an attach and its note is read off the list
of operations: a volume has one entry in it, a pending one for its goroutine, so
that `Run` accepts nothing meanwhile (`OperationsInv`; `CompleteEntries` and
`UpdateWaits` of *OperationListTheorems* say what becomes of entries and waits).
`EntryInv` adds that a goroutine about to mark a volume as attached has it
attached. The exception, `detachedLate`, cannot be avoided: a detach that takes
effect and returns an error leaves an entry until the verification finds out.

**The agent.** `NoWaitForgotten`: the request of an object that waits is in the
request queue, at the dispatcher, in a worker's queue, at a worker, in the
response queue or at the sender; every hand-over moves it from one place to the
next, and only the handler of its response ends the wait. `SenderInv` keeps
internal responses from the sender's batch for clients, `LoadInv` describes the
time between a start and the load of the table. An object that is not `stranded`
is in the list at most once, so that an answer ends the wait it belongs to.
`NoRequestLost`
counts: the requests received and not yet answered are as many as the places
that hold one, so none is lost and none is there twice; that at most
`MaxOutstanding` are under way (`AgentTypes`) follows.

Only model-checked: liveness (`NeverStuck`, `Cleanup`, `MountProgress`,
`UnneededIsDetached`, `FrozenIsThawed`), which is beyond the prover;
`FrozenIsMonitored`, which holds under the clients' good behaviour of the run
only; and the plugin's properties of serial operation. What recursive
definitions compute for every input is out of the prover's reach too; the models
have none.

## 5. Plan

Done: the models of the list of operations, the plugin, the volume manager, the
attach/detach controller and the backup agent; the proofs of section 4. Left: two
pods on one volume across a restart (`volumesNeedUpdate` is keyed by the volume),
and the full kubelet composed with the full controller, which is beyond one run
as it stands.

## 6. Not modelled

The rest of the Kubernetes fork (unchanged upstream, generated and vendored
code), `intel-sds-proto` (service plumbing around a database and vendored oslo
code), `coprhd-storage-sdk` (adapters to vendor REST services). Of the agent: the
plugins (scripts and the formatting of their results), the hot upgrade of plugins
(no code of the repository calls it), SNMP, logging, the worker for VSS on
Windows, the HTTP connection. Of the modelled files: formatting of disks, volume
ownership, the annotation of nodes the controller manages, alarms, logging.
