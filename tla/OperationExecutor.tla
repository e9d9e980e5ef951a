------------------------- MODULE OperationExecutor -------------------------
(***************************************************************************)
(* The volume operations of the kubelet                                    *)
(* (pkg/volume/util/operationexecutor): the goroutines that attach, mount, *)
(* unmount and detach volumes, one step per call that changes the host or  *)
(* the actual state of the world, and their registration in the list of    *)
(* pending operations.                                                     *)
(***************************************************************************)
EXTENDS OperationList, FiniteSets, FiniteSetsExt

CONSTANTS
    AttachableVolumes,  \* volumes whose plugin has an attacher
    RemountVolumes,     \* volumes whose plugin wants SetUp called again
    Routines,           \* identities for goroutines: 1 .. n
    Idle,               \* a goroutine identity that is not in use
    MaxFailures         \* bound on the calls that fail

ASSUME VolumeKindsAssumption ==
    /\ AttachableVolumes \subseteq Volumes
    /\ RemountVolumes \subseteq Volumes
ASSUME RoutinesAssumption == Routines \subseteq Nat
ASSUME MaxFailuresAssumption == MaxFailures \in Nat

VARIABLES
    operations,         \* the list of pending operations
    routines,           \* what each goroutine is doing
    failures,           \* calls that have failed
    \* the host
    deviceAttached,     \* volumes whose device is attached to the node
    volumesAttached,    \* node.Status.VolumesAttached
    deviceMounts,       \* volumes mounted on their global directory
    podMounts,          \* <<volume, pod>> mounted on the pod's directory
    stillOpen,          \* devices found open after they had been unmounted
    \* the actual state of the world
    attachedVolumes, globallyMounted, mountedPods, remountRequired

asw == INSTANCE ActualStateOfWorld

opVars   == <<operations, routines>>
hostVars == <<deviceAttached, volumesAttached, deviceMounts, podMounts, stillOpen>>
aswVars  == <<attachedVolumes, globallyMounted, mountedPods, remountRequired>>

Kinds == {"verify", "attach", "mount", "unmount", "unmountDevice", "detach"}

\* The steps that call a plugin, a mounter or the API server, and may fail.
CallSteps ==
    {"verify", "attach", "mountDevice", "setUp", "tearDown", "checkRefs",
     "unmountDevice", "detach"}

Steps ==
    CallSteps \cup
    {"markAttached", "markDeviceMounted", "markMounted", "markUnmounted",
     "markDeviceUnmounted", "markDetached", "succeeded", "failed"}

Tasks ==
    [kind : Kinds, vol : Volumes, pod : PodNames, reportedInUse : BOOLEAN,
     step : Steps]

ASSUME IdleAssumption == Idle \notin Tasks

ExecutorTypeOK ==
    /\ operations \in Seq(Operation)
    /\ routines \in [Routines -> Tasks \cup {Idle}]
    /\ failures \in 0 .. MaxFailures
    /\ deviceAttached \subseteq Volumes
    /\ volumesAttached \subseteq Volumes
    /\ deviceMounts \subseteq Volumes
    /\ podMounts \subseteq Volumes \X Pods
    /\ stillOpen \subseteq Volumes
    /\ asw!TypeOK

ExecutorInit ==
    /\ operations = << >>
    /\ routines = [r \in Routines |-> Idle]
    /\ failures = 0
    /\ deviceAttached = {}
    /\ volumesAttached = {}
    /\ deviceMounts = {}
    /\ podMounts = {}
    /\ stillOpen = {}
    /\ asw!Init
-----------------------------------------------------------------------------
(***************************************************************************)
(* Starting an operation.                                                  *)
(***************************************************************************)
\* Mutant: mounts of an attachable volume are registered per pod.
OperationPodPerPod(kind, v, p) ==
    IF kind \in {"unmount", "mount"} THEN p ELSE NoPod

\* The pod name an operation is registered under.
OperationPod(kind, v, p) ==
    IF kind = "unmount" \/ (kind = "mount" /\ v \notin AttachableVolumes)
    THEN p ELSE NoPod

FirstStep(kind, v) ==
    CASE kind = "mount" ->
            IF v \in AttachableVolumes THEN "mountDevice" ELSE "setUp"
      [] kind = "unmount"       -> "tearDown"
      [] kind = "unmountDevice" -> "checkRefs"
      [] OTHER                  -> kind

FreeRoutines == {r \in Routines : routines[r] = Idle}

\* An operation is handed to pendingOperations.Run; the AlreadyExists and
\* the ExponentialBackoff error are ignored by the caller.
Start(kind, v, p, isReportedInUse) ==
    LET podName == OperationPod(kind, v, p)
    IN  IF RunAccepts(operations, v, podName)
        THEN /\ FreeRoutines # {}
             /\ operations' = AfterRun(operations, v, podName)
             /\ routines' = [routines EXCEPT ![Min(FreeRoutines)] =
                  [kind |-> kind, vol |-> v, pod |-> p,
                   reportedInUse |-> isReportedInUse,
                   step |-> FirstStep(kind, v)]]
        ELSE UNCHANGED opVars
-----------------------------------------------------------------------------
(***************************************************************************)
(* The steps of a goroutine.                                               *)
(***************************************************************************)
At(r, step) == routines[r] # Idle /\ routines[r].step = step

Goto(r, step) == routines' = [routines EXCEPT ![r].step = step]

\* VerifyControllerAttachedVolume: a volume without attacher is taken to be
\* attached; the others have to be in VolumesInUse, by the reading taken
\* when the operation was started, and in VolumesAttached.
Verify(r) ==
    /\ At(r, "verify")
    /\ LET v == routines[r].vol
       IN  Goto(r, IF \/ v \notin AttachableVolumes
                      \/ routines[r].reportedInUse /\ v \in volumesAttached
                   THEN "markAttached" ELSE "failed")
    /\ UNCHANGED <<operations, failures, hostVars, aswVars>>

\* attacher.Attach, where the kubelet attaches volumes itself.
Attach(r) ==
    /\ At(r, "attach")
    /\ deviceAttached' = deviceAttached \cup {routines[r].vol}
    /\ Goto(r, "markAttached")
    /\ UNCHANGED <<operations, failures, volumesAttached, deviceMounts,
                   podMounts, stillOpen, aswVars>>

MarkAttached(r) ==
    /\ At(r, "markAttached")
    /\ asw!MarkVolumeAsAttached(routines[r].vol)
    /\ Goto(r, "succeeded")
    /\ UNCHANGED <<operations, failures, hostVars>>

\* WaitForAttach and MountDevice: they time out without the device.
MountDevice(r) ==
    /\ At(r, "mountDevice")
    /\ LET v == routines[r].vol
       IN  IF v \in deviceAttached
           THEN /\ deviceMounts' = deviceMounts \cup {v}
                /\ stillOpen' = stillOpen \ {v}
                /\ Goto(r, "markDeviceMounted")
           ELSE UNCHANGED <<deviceMounts, stillOpen>> /\ Goto(r, "failed")
    /\ UNCHANGED <<operations, failures, deviceAttached, volumesAttached,
                   podMounts, aswVars>>

MarkDeviceMounted(r) ==
    /\ At(r, "markDeviceMounted")
    /\ LET v == routines[r].vol
       IN  IF asw!VolumeExists(v)
           THEN asw!MarkDeviceAsMounted(v) /\ Goto(r, "setUp")
           ELSE UNCHANGED aswVars /\ Goto(r, "failed")
    /\ UNCHANGED <<operations, failures, hostVars>>

SetUp(r) ==
    /\ At(r, "setUp")
    /\ podMounts' = podMounts \cup {<<routines[r].vol, routines[r].pod>>}
    /\ Goto(r, "markMounted")
    /\ UNCHANGED <<operations, failures, deviceAttached, volumesAttached,
                   deviceMounts, stillOpen, aswVars>>

MarkMounted(r) ==
    /\ At(r, "markMounted")
    /\ LET v == routines[r].vol
       IN  IF asw!VolumeExists(v)
           THEN asw!MarkVolumeAsMounted(routines[r].pod, v) /\ Goto(r, "succeeded")
           ELSE UNCHANGED aswVars /\ Goto(r, "failed")
    /\ UNCHANGED <<operations, failures, hostVars>>

\* TearDown of a directory that is gone succeeds in the attachable plugins
\* and is an error in the NVMe-oF plugin.
TearDown(r) ==
    /\ At(r, "tearDown")
    /\ LET m == <<routines[r].vol, routines[r].pod>>
       IN  /\ podMounts' = podMounts \ {m}
           /\ Goto(r, IF m \in podMounts \/ m[1] \in AttachableVolumes
                      THEN "markUnmounted" ELSE "failed")
    /\ UNCHANGED <<operations, failures, deviceAttached, volumesAttached,
                   deviceMounts, stillOpen, aswVars>>

\* An error of MarkVolumeAsUnmounted is logged and dropped.
MarkUnmounted(r) ==
    /\ At(r, "markUnmounted")
    /\ asw!MarkVolumeAsUnmounted(routines[r].pod, routines[r].vol)
    /\ Goto(r, "succeeded")
    /\ UNCHANGED <<operations, failures, hostVars>>

\* Mutant: the references are not looked at.
CheckRefsNot(r) ==
    /\ At(r, "checkRefs")
    /\ Goto(r, "unmountDevice")
    /\ UNCHANGED <<operations, failures, hostVars, aswVars>>

\* GetDeviceMountRefs and hasMountRefs.
CheckRefs(r) ==
    /\ At(r, "checkRefs")
    /\ Goto(r, IF \E m \in podMounts : m[1] = routines[r].vol
               THEN "failed" ELSE "unmountDevice")
    /\ UNCHANGED <<operations, failures, hostVars, aswVars>>

UnmountDevice(r) ==
    /\ At(r, "unmountDevice")
    /\ deviceMounts' = deviceMounts \ {routines[r].vol}
    /\ Goto(r, "markDeviceUnmounted")
    /\ UNCHANGED <<operations, failures, deviceAttached, volumesAttached,
                   podMounts, stillOpen, aswVars>>

\* The device is unmounted, but DeviceOpened finds it in use or fails; what
\* the actual state of the world says of it is stale from then on.
DeviceStillOpen(r) ==
    /\ At(r, "unmountDevice")
    /\ failures < MaxFailures
    /\ failures' = failures + 1
    /\ deviceMounts' = deviceMounts \ {routines[r].vol}
    /\ stillOpen' = stillOpen \cup {routines[r].vol}
    /\ Goto(r, "failed")
    /\ UNCHANGED <<operations, deviceAttached, volumesAttached, podMounts,
                   aswVars>>

\* Mutant: the actual state of the world is not told.
MarkDeviceUnmountedNot(r) ==
    /\ At(r, "markDeviceUnmounted")
    /\ stillOpen' = stillOpen \ {routines[r].vol}
    /\ Goto(r, "succeeded")
    /\ UNCHANGED <<operations, failures, deviceAttached, volumesAttached,
                   deviceMounts, podMounts, aswVars>>

MarkDeviceUnmounted(r) ==
    /\ At(r, "markDeviceUnmounted")
    /\ LET v == routines[r].vol
       IN  /\ stillOpen' = stillOpen \ {v}
           /\ IF asw!VolumeExists(v)
              THEN asw!MarkDeviceAsUnmounted(v) /\ Goto(r, "succeeded")
              ELSE UNCHANGED aswVars /\ Goto(r, "failed")
    /\ UNCHANGED <<operations, failures, deviceAttached, volumesAttached,
                   deviceMounts, podMounts>>

\* detacher.Detach, where the kubelet detaches volumes itself.
Detach(r) ==
    /\ At(r, "detach")
    /\ deviceAttached' = deviceAttached \ {routines[r].vol}
    /\ Goto(r, "markDetached")
    /\ UNCHANGED <<operations, failures, volumesAttached, deviceMounts,
                   podMounts, stillOpen, aswVars>>

MarkDetached(r) ==
    /\ At(r, "markDetached")
    /\ asw!MarkVolumeAsDetached(routines[r].vol)
    /\ Goto(r, "succeeded")
    /\ UNCHANGED <<operations, failures, hostVars>>

\* A call fails without effect.
CallFails(r) ==
    /\ routines[r] # Idle /\ routines[r].step \in CallSteps
    /\ failures < MaxFailures
    /\ failures' = failures + 1
    /\ Goto(r, "failed")
    /\ UNCHANGED <<operations, hostVars, aswVars>>

\* The goroutine ends and operationComplete runs.
Complete(r) ==
    /\ At(r, "succeeded") \/ At(r, "failed")
    /\ LET t == routines[r]
       IN  operations' = operationComplete(operations, t.vol,
                            OperationPod(t.kind, t.vol, t.pod), t.step = "failed")
    /\ routines' = [routines EXCEPT ![r] = Idle]
    /\ UNCHANGED <<failures, hostVars, aswVars>>

\* Time passes for the operations that back off.
Tick ==
    /\ BackingOff(operations)
    /\ operations' = Later(operations)
    /\ UNCHANGED <<routines, failures, hostVars, aswVars>>

\* What a goroutine does when its calls succeed.
RoutineStep(r) ==
    \/ Verify(r) \/ Attach(r) \/ MarkAttached(r)
    \/ MountDevice(r) \/ MarkDeviceMounted(r) \/ SetUp(r) \/ MarkMounted(r)
    \/ TearDown(r) \/ MarkUnmounted(r)
    \/ CheckRefs(r) \/ UnmountDevice(r) \/ MarkDeviceUnmounted(r)
    \/ Detach(r) \/ MarkDetached(r)
    \/ Complete(r)
=============================================================================
