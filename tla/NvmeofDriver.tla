--------------------------- MODULE NvmeofDriver ---------------------------
(***************************************************************************)
(* The NVMe over Fabrics volume plugin (pkg/volume/nvmeof): SetUp and      *)
(* TearDown of the volumes of several pods, step by step.  A step is one   *)
(* call that reads or changes the state of the host: the drives the kernel *)
(* is connected to and the mount table, which all pods share and which the *)
(* plugin holds no lock on.                                                *)
(*                                                                         *)
(* The volume of a pod is mounted twice: its drive on the global directory *)
(* of the target, and a bind mount of that on the volume directory of the  *)
(* pod.  The volume names of different pods differ (the plugin is not      *)
(* attachable), so the kubelet runs one operation per pod at a time, and   *)
(* those of different pods in parallel.                                    *)
(***************************************************************************)
EXTENDS Integers, FiniteSets, SequencesExt

CONSTANTS
    Pods,
    Targets,        \* NVMe-oF subsystems (transport, address, service, nqn)
    TargetOf,       \* the target of each pod's volume
    MaxDrives,      \* bound on the drives the kernel can be connected to
    MaxFailures,    \* bound on the system calls and commands that fail
    MaxInFlight,    \* how many pods have an operation in progress at once
    NoTarget        \* a drive that is not connected

ASSUME TargetOfAssumption == TargetOf \in [Pods -> Targets]
ASSUME NoTargetAssumption == NoTarget \notin Targets
ASSUME BoundsAssumption ==
    /\ MaxDrives \in Nat
    /\ MaxFailures \in Nat
    /\ MaxInFlight \in Nat \ {0}

\* Drive names in the order "nvme list" prints them.
Drives  == 1 .. MaxDrives
RootFS  == 0                      \* the file system the directories are on
Devices == Drives \cup {RootFS}

\* The directories that can be mount points.
Global(t)  == <<"global", t>>     \* MakeGlobalPDName
VolPath(p) == <<"pod", p>>        \* GetPath
Paths == {Global(t) : t \in Targets} \cup {VolPath(p) : p \in Pods}

VARIABLES
    target,     \* what each drive is connected to
    mounts,     \* /proc/mounts: the mounts, oldest first
    volDirs,    \* the pods whose volume directory exists
    status,     \* what the kubelet was last told about each pod's volume
    pc,         \* where each pod's operation is
    frame,      \* the local variables of each pod's operation
    failures,   \* calls that have failed
    ignored     \* whether AttachDisk has taken a mounted directory for one
                \* that is not, by ignoring the error of its check

vars == <<target, mounts, volDirs, status, pc, frame, failures, ignored>>

\* The local variables: oldDrvs and drv of connectNVMeoF, refs of
\* diskTearDown, device and cnt of DetachDisk.
EmptyFrame == [oldDrvs |-> {}, drv |-> 0, refs |-> << >>, device |-> 0, cnt |-> 0]

SetUpSteps == {"list", "connect", "find", "checkGlobal", "mountGlobal", "bind"}
TearDownSteps ==
    {"refs", "unmount", "count", "unmountGlobal", "disconnect", "remove"}

Entry(path, device) == [path |-> path, device |-> device]

MountsAt(path) == {i \in DOMAIN mounts : mounts[i].path = path}

\* diskTearDown goes on to DetachDisk, with refs[0], when refs has one path.
OneRef(refs) == Cardinality(DOMAIN refs) = 1
TheRef(refs) == refs[CHOOSE i \in DOMAIN refs : TRUE]

\* The types, and that refs[0] and the drive found are used only where there
\* is one.
TypeOK ==
    /\ target \in [Drives -> Targets \cup {NoTarget}]
    /\ mounts \in Seq([path : Paths, device : Devices])
    /\ volDirs \subseteq Pods
    /\ status \in [Pods -> {"unmounted", "mounted", "tearing"}]
    /\ pc \in [Pods -> {"idle"} \cup SetUpSteps \cup TearDownSteps]
    /\ \A p \in Pods :
         /\ frame[p].oldDrvs \subseteq Drives
         /\ frame[p].drv \in 0 .. MaxDrives
         /\ frame[p].device \in Devices \cup {-1}
         /\ frame[p].cnt \in Nat
         /\ \A i \in DOMAIN frame[p].refs : frame[p].refs[i] \in Paths
         /\ pc[p] \in {"count", "unmountGlobal"} => OneRef(frame[p].refs)
         /\ pc[p] \in {"checkGlobal", "mountGlobal"} => frame[p].drv \in Drives
    /\ failures \in 0 .. MaxFailures
    /\ ignored \in BOOLEAN

Init ==
    /\ target = [d \in Drives |-> NoTarget]
    /\ mounts = << >>
    /\ volDirs = {}
    /\ status = [p \in Pods |-> "unmounted"]
    /\ pc = [p \in Pods |-> "idle"]
    /\ frame = [p \in Pods |-> EmptyFrame]
    /\ failures = 0
    /\ ignored = FALSE
-----------------------------------------------------------------------------
(***************************************************************************)
(* The mount table and the drives.                                         *)
(***************************************************************************)
MountsOf(device) == {i \in DOMAIN mounts : mounts[i].device = device}

\* What a directory shows: the mount made last on it.
DeviceAt(path) ==
    IF MountsAt(path) = {} THEN RootFS ELSE mounts[Max(MountsAt(path))].device

\* IsLikelyNotMountPoint compares devices with the parent directory, so a
\* bind mount of a directory of the root file system goes unnoticed.
IsLikelyNotMountPoint(path) == DeviceAt(path) = RootFS

Unmounted(path) == RemoveAt(mounts, Max(MountsAt(path)))

\* getNvmeofDrives
getNvmeofDrives == {d \in Drives : target[d] # NoTarget}

\* GetMountRefs: the other paths on which the device of a path is mounted,
\* by their places in the mount table.  The device is the one of the first
\* entry with that path.
GetMountRefs(path) ==
    IF MountsAt(path) = {} THEN << >>
    ELSE LET device == mounts[Min(MountsAt(path))].device
             others == {i \in MountsOf(device) : mounts[i].path # path}
         IN  [i \in others |-> mounts[i].path]

\* GetDeviceNameFromMount: the device (-1: none) and its reference count.
GetDeviceNameFromMount(path) ==
    IF MountsAt(path) = {} THEN <<-1, 0>>
    ELSE LET device == mounts[Min(MountsAt(path))].device
         IN  <<device, Cardinality(MountsOf(device))>>
-----------------------------------------------------------------------------
InFlight == {p \in Pods : pc[p] # "idle"}

\* Bound: a SetUp begins only while a drive name is left for it.
DriveLeft ==
    Cardinality(getNvmeofDrives)
        + Cardinality({p \in Pods : pc[p] \in {"list", "connect"}}) < MaxDrives

\* Control goes on to a step, or the operation returns.
Goto(p, step) == pc' = [pc EXCEPT ![p] = step]

Return(p, newStatus) ==
    /\ pc' = [pc EXCEPT ![p] = "idle"]
    /\ frame' = [frame EXCEPT ![p] = EmptyFrame]
    /\ status' = [status EXCEPT ![p] = newStatus]

\* A call of the current step fails without effect; the error is returned
\* and the kubelet's view of the volume stays what it was.  (mountNVMeoF
\* failing after the kernel has made the connection is the failure of the
\* step after Connect.)
Fail(p) ==
    /\ pc[p] \notin {"idle", "checkGlobal"}
    /\ failures < MaxFailures
    /\ failures' = failures + 1
    /\ Return(p, status[p])
    /\ UNCHANGED <<target, mounts, volDirs, ignored>>
-----------------------------------------------------------------------------
(***************************************************************************)
(* SetUp: diskSetUp, AttachDisk, connectNVMeoF.                            *)
(***************************************************************************)
SetUp(p) ==
    /\ pc[p] = "idle" /\ status[p] = "unmounted"
    /\ Cardinality(InFlight) < MaxInFlight /\ DriveLeft
    /\ IF IsLikelyNotMountPoint(VolPath(p))
       THEN Goto(p, "list") /\ UNCHANGED <<frame, status>>
       ELSE Return(p, "mounted")
    /\ UNCHANGED <<target, mounts, volDirs, failures, ignored>>

ListDrives(p) ==
    /\ pc[p] = "list"
    /\ frame' = [frame EXCEPT ![p].oldDrvs = getNvmeofDrives]
    /\ Goto(p, "connect")
    /\ UNCHANGED <<target, mounts, volDirs, status, failures, ignored>>

\* mountNVMeoF: the kernel gives the new connection the first free name.
Connect(p) ==
    /\ pc[p] = "connect"
    /\ target' = [target EXCEPT ![Min(Drives \ getNvmeofDrives)] = TargetOf[p]]
    /\ Goto(p, "find")
    /\ UNCHANGED <<mounts, volDirs, status, frame, failures, ignored>>

\* Mutant: the first drive of the list, whether it is new or not.
FindFirstDrive(p) ==
    /\ pc[p] = "find"
    /\ frame' = [frame EXCEPT ![p].drv = Min(getNvmeofDrives)]
    /\ Goto(p, "checkGlobal")
    /\ UNCHANGED <<target, mounts, volDirs, status, failures, ignored>>

\* The first drive of the new list that is not in the old one.
FindDrive(p) ==
    /\ pc[p] = "find"
    /\ LET newDrvs == getNvmeofDrives \ frame[p].oldDrvs
       IN  IF newDrvs = {}
           THEN Return(p, status[p])
           ELSE /\ frame' = [frame EXCEPT ![p].drv = Min(newDrvs)]
                /\ Goto(p, "checkGlobal")
                /\ UNCHANGED status
    /\ UNCHANGED <<target, mounts, volDirs, failures, ignored>>

\* Mutant: the global directory is mounted without a look at it.
CheckGlobalNot(p) ==
    /\ pc[p] = "checkGlobal"
    /\ Goto(p, "mountGlobal")
    /\ UNCHANGED <<target, mounts, volDirs, status, frame, failures, ignored>>

CheckGlobal(p) ==
    /\ pc[p] = "checkGlobal"
    /\ Goto(p, IF IsLikelyNotMountPoint(Global(TargetOf[p]))
               THEN "mountGlobal" ELSE "bind")
    /\ UNCHANGED <<target, mounts, volDirs, status, frame, failures, ignored>>

\* AttachDisk drops an error of IsLikelyNotMountPoint and goes by its other
\* result, which is true then.
CheckGlobalFails(p) ==
    /\ pc[p] = "checkGlobal"
    /\ failures < MaxFailures
    /\ failures' = failures + 1
    /\ ignored' = (ignored \/ ~IsLikelyNotMountPoint(Global(TargetOf[p])))
    /\ Goto(p, "mountGlobal")
    /\ UNCHANGED <<target, mounts, volDirs, status, frame>>

\* FormatAndMount.  It fails on a drive that is gone, and on one that is
\* already mounted on this directory.
MountGlobal(p) ==
    /\ pc[p] = "mountGlobal"
    /\ LET path == Global(TargetOf[p])
           drv  == frame[p].drv
       IN  IF target[drv] = NoTarget \/ DeviceAt(path) = drv
           THEN Return(p, status[p]) /\ UNCHANGED mounts
           ELSE /\ mounts' = Append(mounts, Entry(path, drv))
                /\ Goto(p, "bind")
                /\ UNCHANGED <<frame, status>>
    /\ UNCHANGED <<target, volDirs, failures, ignored>>

\* MkdirAll, then the bind mount of whatever the global directory shows.
Bind(p) ==
    /\ pc[p] = "bind"
    /\ volDirs' = volDirs \cup {p}
    /\ mounts' =
         Append(mounts, Entry(VolPath(p), DeviceAt(Global(TargetOf[p]))))
    /\ Return(p, "mounted")
    /\ UNCHANGED <<target, failures, ignored>>

\* The directory is made and the bind mount fails, or the bind mount is
\* made and the remount that sets its options fails.
BindFails(p) ==
    /\ pc[p] = "bind"
    /\ failures < MaxFailures
    /\ failures' = failures + 1
    /\ volDirs' = volDirs \cup {p}
    /\ \/ UNCHANGED mounts
       \/ mounts' =
            Append(mounts, Entry(VolPath(p), DeviceAt(Global(TargetOf[p]))))
    /\ Return(p, status[p])
    /\ UNCHANGED <<target, ignored>>
-----------------------------------------------------------------------------
(***************************************************************************)
(* TearDown: diskTearDown, DetachDisk, disconnectNVMeoF.                   *)
(***************************************************************************)
\* os.Remove fails on a mount point, and on a directory that is not there.
RemoveVolPath(p) ==
    IF p \in volDirs /\ MountsAt(VolPath(p)) = {}
    THEN volDirs' = volDirs \ {p} /\ Return(p, "unmounted")
    ELSE UNCHANGED volDirs /\ Return(p, "tearing")

TearDown(p) ==
    /\ pc[p] = "idle" /\ status[p] \in {"mounted", "tearing"}
    /\ Cardinality(InFlight) < MaxInFlight
    /\ IF p \notin volDirs \/ IsLikelyNotMountPoint(VolPath(p))
       THEN RemoveVolPath(p)
       ELSE /\ Goto(p, "refs")
            /\ status' = [status EXCEPT ![p] = "tearing"]
            /\ UNCHANGED <<frame, volDirs>>
    /\ UNCHANGED <<target, mounts, failures, ignored>>

GetRefs(p) ==
    /\ pc[p] = "refs"
    /\ frame' = [frame EXCEPT ![p].refs = GetMountRefs(VolPath(p))]
    /\ Goto(p, "unmount")
    /\ UNCHANGED <<target, mounts, volDirs, status, failures, ignored>>

\* Mutant: DetachDisk gets refs[0], however many references there are.
UnmountAndDetach(p) ==
    /\ pc[p] = "unmount"
    /\ IF MountsAt(VolPath(p)) = {}
       THEN Return(p, status[p]) /\ UNCHANGED mounts
       ELSE /\ mounts' = Unmounted(VolPath(p))
            /\ Goto(p, "count")
            /\ UNCHANGED <<frame, status>>
    /\ UNCHANGED <<target, volDirs, failures, ignored>>

\* umount fails where nothing is mounted any more.
Unmount(p) ==
    /\ pc[p] = "unmount"
    /\ IF MountsAt(VolPath(p)) = {}
       THEN Return(p, status[p]) /\ UNCHANGED mounts
       ELSE /\ mounts' = Unmounted(VolPath(p))
            /\ Goto(p, IF OneRef(frame[p].refs) THEN "count" ELSE "remove")
            /\ UNCHANGED <<frame, status>>
    /\ UNCHANGED <<target, volDirs, failures, ignored>>

CountRefs(p) ==
    /\ pc[p] = "count"
    /\ LET ref == GetDeviceNameFromMount(TheRef(frame[p].refs))
       IN  frame' = [frame EXCEPT ![p].device = ref[1], ![p].cnt = ref[2]]
    /\ Goto(p, "unmountGlobal")
    /\ UNCHANGED <<target, mounts, volDirs, status, failures, ignored>>

\* Mutant: the target is never logged out of.
UnmountGlobalOnly(p) ==
    /\ pc[p] = "unmountGlobal"
    /\ mounts' = Unmounted(TheRef(frame[p].refs))
    /\ Goto(p, "remove")
    /\ UNCHANGED <<target, volDirs, status, frame, failures, ignored>>

\* umount fails where nothing is mounted.
UnmountGlobal(p) ==
    /\ pc[p] = "unmountGlobal"
    /\ LET mntPath == TheRef(frame[p].refs)
       IN  IF MountsAt(mntPath) = {}
           THEN Return(p, status[p]) /\ UNCHANGED mounts
           ELSE /\ mounts' = Unmounted(mntPath)
                /\ Goto(p, IF frame[p].cnt <= 1 THEN "disconnect" ELSE "remove")
                /\ UNCHANGED <<frame, status>>
    /\ UNCHANGED <<target, volDirs, failures, ignored>>

\* Mutant: the first drive of the list is disconnected.
DisconnectFirst(p) ==
    /\ pc[p] = "disconnect"
    /\ target' = [target EXCEPT ![Min(getNvmeofDrives)] = NoTarget]
    /\ Goto(p, "remove")
    /\ UNCHANGED <<mounts, volDirs, status, frame, failures, ignored>>

\* "nvme disconnect -d" fails for what is not a connected drive.
Disconnect(p) ==
    /\ pc[p] = "disconnect"
    /\ LET device == frame[p].device
       IN  IF device \in getNvmeofDrives
           THEN /\ target' = [target EXCEPT ![device] = NoTarget]
                /\ Goto(p, "remove")
                /\ UNCHANGED <<frame, status>>
           ELSE Return(p, status[p]) /\ UNCHANGED target
    /\ UNCHANGED <<mounts, volDirs, failures, ignored>>

\* The volume directory is removed, unless something is mounted on it again.
RemoveDir(p) ==
    /\ pc[p] = "remove"
    /\ IF IsLikelyNotMountPoint(VolPath(p))
       THEN RemoveVolPath(p)
       ELSE Return(p, "unmounted") /\ UNCHANGED volDirs
    /\ UNCHANGED <<target, mounts, failures, ignored>>

\* The last IsLikelyNotMountPoint fails, and diskTearDown returns the nil
\* error of an earlier call.
RemoveCheckFails(p) ==
    /\ pc[p] = "remove"
    /\ failures < MaxFailures
    /\ failures' = failures + 1
    /\ Return(p, "unmounted")
    /\ UNCHANGED <<target, mounts, volDirs, ignored>>
-----------------------------------------------------------------------------
SetUpStep(p) ==
    \/ ListDrives(p) \/ Connect(p) \/ FindDrive(p)
    \/ CheckGlobal(p) \/ MountGlobal(p) \/ Bind(p)

TearDownStep(p) ==
    \/ GetRefs(p) \/ Unmount(p) \/ CountRefs(p)
    \/ UnmountGlobal(p) \/ Disconnect(p) \/ RemoveDir(p)

Next ==
    \E p \in Pods :
        \/ SetUp(p) \/ SetUpStep(p) \/ CheckGlobalFails(p) \/ BindFails(p)
        \/ TearDown(p) \/ TearDownStep(p) \/ RemoveCheckFails(p)
        \/ Fail(p)

Spec == Init /\ [][Next]_vars
-----------------------------------------------------------------------------
(***************************************************************************)
(* The properties hold as long as no error of the check has hidden a mount *)
(* from AttachDisk: after that a second drive covers the first.            *)
(***************************************************************************)
\* A pod whose SetUp has succeeded, and whose TearDown has not begun, sees
\* on its volume directory the disk of its own target, over a live
\* connection.
BackedByTarget ==
    ~ignored => \A p \in Pods :
        status[p] = "mounted" =>
            LET d == DeviceAt(VolPath(p))
            IN  d \in Drives /\ target[d] = TargetOf[p]

\* A disk is in the mount table through one drive only: the same file
\* system mounted over two connections would be corrupted.
MountedOnce ==
    ~ignored => \A i, j \in DOMAIN mounts :
        LET d == mounts[i].device
            e == mounts[j].device
        IN  (/\ d \in getNvmeofDrives /\ e \in getNvmeofDrives
             /\ target[d] = target[e])  =>  d = e

\* TearDown "detaches the disk only if the disk resource was the last
\* reference to that disk on the kubelet": a drive is disconnected only
\* when nothing is mounted from it.
DetachesLastReference ==
    [][\A d \in Drives :
         (~ignored /\ target[d] # NoTarget /\ target'[d] = NoTarget)
            => MountsOf(d) = {}]_vars

\* When no call has failed and every pod of a target has been torn down,
\* the target is not mounted any more, and if only one pod uses it no
\* connection to it is left.
ReleasedWhenUnused ==
    \A t \in Targets :
        LET users == {p \in Pods : TargetOf[p] = t}
        IN  (failures = 0 /\ \A p \in users : status[p] = "unmounted" /\ pc[p] = "idle")
            => /\ MountsAt(Global(t)) = {}
               /\ \A p \in Pods : users = {p} => \A d \in Drives : target[d] # t
=============================================================================
