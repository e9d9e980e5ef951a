------------------------ MODULE NvmeofDriver_proofs ------------------------
(***************************************************************************)
(* The NVMe-oF plugin never uses what is not there, for any number of pods *)
(* and targets, of operations under way at a time and of failing calls.    *)
(* What else holds while one operation runs at a time is left to TLC: the  *)
(* kubelet does not keep the operations of two pods apart.                 *)
(***************************************************************************)
EXTENDS NvmeofDriver, SequenceLemmas

Mount == [path : Paths, device : Devices]

\* The local variables of every operation.
FrameShape ==
    frame = [p \in Pods |->
               [oldDrvs |-> frame[p].oldDrvs, drv |-> frame[p].drv,
                refs |-> frame[p].refs, device |-> frame[p].device,
                cnt |-> frame[p].cnt]]

TypeInv == TypeOK /\ FrameShape

-----------------------------------------------------------------------------
(***************************************************************************)
(* What the code reads in the mount table.                                 *)
(***************************************************************************)

\* The last and the first mount on a directory are there if any is.
LEMMA PlaceOfPath ==
    ASSUME mounts \in Seq(Mount), NEW path, MountsAt(path) # {}
    PROVE  /\ Max(MountsAt(path)) \in MountsAt(path)
           /\ Min(MountsAt(path)) \in MountsAt(path)
           /\ MountsAt(path) \subseteq 1 .. Len(mounts)
<1>1. MountsAt(path) \subseteq 1 .. Len(mounts) /\ Len(mounts) \in Nat
  BY DEF MountsAt
<1>2. MountsAt(path) \subseteq Nat
  BY <1>1
<1> QED
  BY <1>1, <1>2, LeastElement, GreatestElement

LEMMA MountFields ==
    ASSUME mounts \in Seq(Mount), NEW i \in 1 .. Len(mounts)
    PROVE  mounts[i].path \in Paths /\ mounts[i].device \in Devices
<1>1. mounts[i] \in Mount
  BY ElementOfSeq
<1> QED
  BY <1>1 DEF Mount

LEMMA MountType ==
    ASSUME mounts \in Seq(Mount), NEW path
    PROVE  /\ DeviceAt(path) \in Devices
           /\ DeviceAt(path) # RootFS => MountsAt(path) # {}
           /\ GetDeviceNameFromMount(path)[1] \in Devices \cup {-1}
           /\ GetDeviceNameFromMount(path)[2] \in Nat
           /\ MountsAt(path) # {} => Unmounted(path) \in Seq(Mount)
<1>1. CASE MountsAt(path) = {}
  BY <1>1 DEF DeviceAt, GetDeviceNameFromMount, Devices
<1>2. CASE MountsAt(path) # {}
  <2>1. /\ Max(MountsAt(path)) \in 1 .. Len(mounts)
        /\ Min(MountsAt(path)) \in 1 .. Len(mounts)
    BY <1>2, PlaceOfPath
  <2>2. \A i \in 1 .. Len(mounts) : mounts[i].device \in Devices
    BY MountFields
  <2>3. ASSUME NEW d
        PROVE  Cardinality(MountsOf(d)) \in Nat
    <3>1. IsFiniteSet(1 .. Len(mounts)) /\ MountsOf(d) \in SUBSET (1 .. Len(mounts))
      BY FS_Interval DEF MountsOf
    <3> QED
      BY <3>1, FS_Subset, FS_CardinalityType
  <2>4. Unmounted(path) \in Seq(Mount)
    BY <2>1, RemoveAtHolds DEF Unmounted
  <2> QED
    BY <1>2, <2>1, <2>2, <2>3, <2>4 DEF DeviceAt, GetDeviceNameFromMount
<1> QED
  BY <1>1, <1>2

LEMMA RefsType ==
    ASSUME mounts \in Seq(Mount), NEW path, NEW i \in DOMAIN GetMountRefs(path)
    PROVE  GetMountRefs(path)[i] \in Paths
<1>1. \A j \in 1 .. Len(mounts) : mounts[j].path \in Paths
  BY MountFields
<1>2. MountsAt(path) # {}
  BY DEF GetMountRefs
<1> DEFINE others == {j \in MountsOf(mounts[Min(MountsAt(path))].device) :
                          mounts[j].path # path}
<1>3. GetMountRefs(path) = [j \in others |-> mounts[j].path]
  BY <1>2 DEF GetMountRefs
<1>4. i \in others /\ i \in 1 .. Len(mounts)
  BY <1>3 DEF MountsOf
<1> QED
  BY <1>1, <1>3, <1>4

LEMMA TypeInvInit ==
    ASSUME Init
    PROVE  TypeInv
<1>1. mounts \in Seq(Mount)
  BY EmptySeq DEF Init
<1>2. FrameShape
  BY DEF Init, FrameShape, EmptyFrame
<1>3. \A p \in Pods : frame[p] = EmptyFrame /\ pc[p] = "idle"
  BY DEF Init
<1>4. failures \in 0 .. MaxFailures /\ 0 \in 0 .. MaxDrives
  BY BoundsAssumption DEF Init
<1>5. /\ EmptyFrame.oldDrvs \subseteq Drives /\ EmptyFrame.drv = 0
      /\ EmptyFrame.device \in Devices /\ EmptyFrame.cnt \in Nat
      /\ DOMAIN EmptyFrame.refs = {}
  BY DEF EmptyFrame, Devices, RootFS
<1>6. /\ target \in [Drives -> Targets \cup {NoTarget}]
      /\ pc \in [Pods -> {"idle"} \cup SetUpSteps \cup TearDownSteps]
      /\ status \in [Pods -> {"unmounted", "mounted", "tearing"}]
  BY DEF Init
<1>7. TypeOK
  BY <1>1, <1>3, <1>4, <1>5, <1>6 DEF Init, TypeOK, Mount
<1> QED
  BY <1>2, <1>7 DEF TypeInv

\* The part of TypeOK about the operation of a pod.
FieldsOK(f) ==
    /\ f = [oldDrvs |-> f.oldDrvs, drv |-> f.drv, refs |-> f.refs,
            device |-> f.device, cnt |-> f.cnt]
    /\ f.oldDrvs \subseteq Drives
    /\ f.drv \in 0 .. MaxDrives
    /\ f.device \in Devices \cup {-1}
    /\ f.cnt \in Nat
    /\ \A i \in DOMAIN f.refs : f.refs[i] \in Paths

PlaceOK(p) ==
    /\ pc[p] \in {"count", "unmountGlobal"} => OneRef(frame[p].refs)
    /\ pc[p] \in {"checkGlobal", "mountGlobal"} => frame[p].drv \in Drives

Steps == {"idle"} \cup SetUpSteps \cup TearDownSteps

HostType ==
    /\ target \in [Drives -> Targets \cup {NoTarget}]
    /\ mounts \in Seq(Mount)
    /\ volDirs \subseteq Pods
    /\ status \in [Pods -> {"unmounted", "mounted", "tearing"}]
    /\ failures \in 0 .. MaxFailures
    /\ ignored \in BOOLEAN

LEMMA TypeParts ==
    TypeInv <=> /\ HostType
                /\ pc \in [Pods -> Steps]
                /\ frame = [p \in Pods |-> frame[p]]
                /\ \A p \in Pods : FieldsOK(frame[p]) /\ PlaceOK(p)
  BY DEF TypeInv, HostType, TypeOK, FrameShape, FieldsOK, PlaceOK, Steps, Mount

LEMMA EmptyFrameOK == FieldsOK(EmptyFrame)
  BY BoundsAssumption DEF FieldsOK, EmptyFrame, Devices, RootFS

\* A step of an operation keeps the types if it does for the host and for
\* its own pod.
LEMMA StepType ==
    ASSUME TypeInv, NEW p \in Pods,
           NEW step \in Steps, pc' = [pc EXCEPT ![p] = step],
           NEW f, FieldsOK(f), frame' = [frame EXCEPT ![p] = f],
           HostType', PlaceOK(p)'
    PROVE  TypeInv'
<1>1. /\ pc \in [Pods -> Steps] /\ frame = [q \in Pods |-> frame[q]]
      /\ \A q \in Pods : FieldsOK(frame[q]) /\ PlaceOK(q)
  BY TypeParts
<1>2. /\ pc' \in [Pods -> Steps] /\ (frame = [q \in Pods |-> frame[q]])'
      /\ frame'[p] = f /\ pc'[p] = step
      /\ \A q \in Pods : q # p => frame'[q] = frame[q] /\ pc'[q] = pc[q]
  BY <1>1
<1>3. ASSUME NEW q \in Pods
      PROVE  FieldsOK(frame[q])' /\ PlaceOK(q)'
  <2>1. CASE q = p
    BY <1>2, <2>1 DEF FieldsOK
  <2>2. CASE q # p
    BY <1>1, <1>2, <2>2 DEF FieldsOK, PlaceOK
  <2> QED
    BY <2>1, <2>2
<1> QED
  BY <1>2, <1>3
  DEF TypeInv, HostType, TypeOK, FrameShape, FieldsOK, PlaceOK, Steps, Mount

LEMMA TypeInvStep ==
    ASSUME TypeInv, [Next]_vars
    PROVE  TypeInv'
<1>1. CASE UNCHANGED vars
  BY <1>1 DEF vars, TypeInv, TypeOK, FrameShape
<1>2. ASSUME NEW p \in Pods,
             \/ SetUp(p) \/ SetUpStep(p) \/ CheckGlobalFails(p) \/ BindFails(p)
             \/ TearDown(p) \/ TearDownStep(p) \/ RemoveCheckFails(p)
             \/ Fail(p)
      PROVE  TypeInv'
  <2>1. /\ HostType
        /\ pc \in [Pods -> Steps]
        /\ frame = [q \in Pods |-> frame[q]]
        /\ \A q \in Pods : FieldsOK(frame[q]) /\ PlaceOK(q)
    BY TypeParts
  <2>3. ASSUME NEW st \in {"unmounted", "mounted", "tearing"}, Return(p, st),
               mounts' \in Seq(Mount), volDirs' \subseteq Pods,
               target' = target, failures' \in 0 .. MaxFailures,
               ignored' = ignored
        PROVE  TypeInv'
    <3>1. HostType'
      BY <2>1, <2>3 DEF HostType, Return
    <3>2. PlaceOK(p)'
      BY <2>1, <2>3 DEF Return, PlaceOK
    <3>3. "idle" \in Steps
      BY DEF Steps
    <3> QED
      BY <2>3, <3>1, <3>2, <3>3, StepType, EmptyFrameOK DEF Return
  <2>4. ASSUME NEW step \in Steps, Goto(p, step), frame' = frame,
               HostType', PlaceOK(p)'
        PROVE  TypeInv'
    <3>1. frame' = [frame EXCEPT ![p] = frame[p]]
      BY <2>1, <2>4
    <3> QED
      BY <2>1, <2>4, <3>1, StepType DEF Goto
  <2>5. ASSUME NEW step \in Steps, NEW f, Goto(p, step), FieldsOK(f),
               frame' = [frame EXCEPT ![p] = f],
               UNCHANGED <<target, mounts, volDirs, status, failures, ignored>>,
               step \in {"count", "unmountGlobal"} => OneRef(f.refs),
               step \in {"checkGlobal", "mountGlobal"} => f.drv \in Drives
        PROVE  TypeInv'
    <3>1. HostType'
      BY <2>1, <2>5 DEF HostType
    <3>2. pc'[p] = step /\ frame'[p] = f
      BY <2>1, <2>5 DEF Goto
    <3>3. PlaceOK(p)'
      BY <2>1, <2>5, <3>2 DEF PlaceOK
    <3> QED
      BY <2>5, <3>1, <3>3, StepType DEF Goto
  <2>6. \A st \in SetUpSteps \cup TearDownSteps : st \in Steps
    BY DEF Steps
  <2>7. /\ mounts \in Seq(Mount) /\ volDirs \subseteq Pods
        /\ failures \in 0 .. MaxFailures
        /\ status[p] \in {"unmounted", "mounted", "tearing"}
        /\ failures < MaxFailures => failures + 1 \in 0 .. MaxFailures
        /\ TargetOf[p] \in Targets
        /\ Global(TargetOf[p]) \in Paths /\ VolPath(p) \in Paths
    BY <2>1, TargetOfAssumption, BoundsAssumption DEF HostType, Paths
  <2>8. getNvmeofDrives \subseteq Drives /\ Drives \subseteq Nat
    BY BoundsAssumption DEF getNvmeofDrives, Drives
  <2>9. ASSUME NEW path \in Paths, NEW d \in Devices
        PROVE  Append(mounts, Entry(path, d)) \in Seq(Mount)
    <3>1. Entry(path, d) \in Mount
      BY DEF Entry, Mount
    <3> QED
      BY <2>7, <3>1, AppendHolds
  <2>10. CASE SetUp(p)
    <3>1. CASE IsLikelyNotMountPoint(VolPath(p))
      <4>1. HostType' /\ PlaceOK(p)' /\ Goto(p, "list") /\ frame' = frame
        BY <2>1, <2>10, <3>1 DEF SetUp, HostType, PlaceOK, Goto
      <4> QED
        BY <2>4, <2>6, <4>1 DEF SetUpSteps
    <3>2. CASE ~IsLikelyNotMountPoint(VolPath(p))
      BY <2>3, <2>7, <2>10, <3>2 DEF SetUp
    <3> QED
      BY <3>1, <3>2
  <2>11. CASE ListDrives(p)
    <3> DEFINE f == [frame[p] EXCEPT !.oldDrvs = getNvmeofDrives]
    <3>1. FieldsOK(f) /\ frame' = [frame EXCEPT ![p] = f]
      BY <2>1, <2>8, <2>11 DEF ListDrives, FieldsOK
    <3> HIDE DEF f
    <3> QED
      BY <2>5, <2>6, <2>11, <3>1 DEF ListDrives, SetUpSteps
  <2>12. CASE Connect(p)
    <3>1. target' \in [Drives -> Targets \cup {NoTarget}]
      BY <2>1, <2>7, <2>12 DEF Connect, HostType
    <3>2. HostType' /\ PlaceOK(p)' /\ Goto(p, "find") /\ frame' = frame
      BY <2>1, <2>12, <3>1 DEF Connect, HostType, PlaceOK, Goto
    <3> QED
      BY <2>4, <2>6, <3>2 DEF SetUpSteps
  <2>13. CASE FindDrive(p)
    <3> DEFINE newDrvs == getNvmeofDrives \ frame[p].oldDrvs
    <3>1. CASE newDrvs = {}
      BY <2>3, <2>7, <2>13, <3>1 DEF FindDrive
    <3>2. CASE newDrvs # {}
      <4>1. newDrvs \subseteq Nat /\ newDrvs \subseteq Drives
        BY <2>8
      <4>2. Min(newDrvs) \in Drives
        BY <3>2, <4>1, LeastElement
      <4> DEFINE f == [frame[p] EXCEPT !.drv = Min(newDrvs)]
      <4>3. frame' = [frame EXCEPT ![p] = f] /\ Goto(p, "checkGlobal")
            /\ UNCHANGED status
        BY <2>1, <2>13, <3>2 DEF FindDrive
      <4>4. FieldsOK(f) /\ f.drv \in Drives
        BY <2>1, <4>2 DEF FieldsOK, Drives
      <4> HIDE DEF f
      <4> QED
        BY <2>5, <2>6, <2>13, <4>3, <4>4 DEF FindDrive, SetUpSteps
    <3> QED
      BY <3>1, <3>2
  <2>14. CASE CheckGlobal(p) \/ CheckGlobalFails(p)
    <3>1. HostType'
      BY <2>1, <2>7, <2>14 DEF CheckGlobal, CheckGlobalFails, HostType
    <3>2. PICK step \in {"mountGlobal", "bind"} : Goto(p, step)
      BY <2>14 DEF CheckGlobal, CheckGlobalFails
    <3>3. frame' = frame /\ frame[p].drv \in Drives
      BY <2>1, <2>14 DEF CheckGlobal, CheckGlobalFails, PlaceOK
    <3>4. PlaceOK(p)'
      BY <2>1, <3>2, <3>3 DEF PlaceOK, Goto
    <3> QED
      BY <2>4, <2>6, <3>1, <3>2, <3>3, <3>4 DEF SetUpSteps
  <2>15. CASE MountGlobal(p)
    <3> DEFINE drv == frame[p].drv
    <3>1. CASE target[drv] = NoTarget \/ DeviceAt(Global(TargetOf[p])) = drv
      BY <2>3, <2>7, <2>15, <3>1 DEF MountGlobal
    <3>2. CASE ~(target[drv] = NoTarget \/ DeviceAt(Global(TargetOf[p])) = drv)
      <4>1. drv \in Devices
        BY <2>1, <2>15 DEF MountGlobal, PlaceOK, Devices
      <4>2. mounts' \in Seq(Mount)
        BY <2>7, <2>9, <2>15, <3>2, <4>1 DEF MountGlobal
      <4>3. HostType' /\ PlaceOK(p)' /\ Goto(p, "bind") /\ frame' = frame
        BY <2>1, <2>15, <3>2, <4>2 DEF MountGlobal, HostType, PlaceOK, Goto
      <4> QED
        BY <2>4, <2>6, <4>3 DEF SetUpSteps
    <3> QED
      BY <3>1, <3>2
  <2>16. CASE Bind(p) \/ BindFails(p)
    <3>1. DeviceAt(Global(TargetOf[p])) \in Devices
      BY <2>7, MountType
    <3>2. mounts' \in Seq(Mount)
      BY <2>7, <2>9, <2>16, <3>1 DEF Bind, BindFails
    <3> QED
      BY <2>3, <2>7, <2>16, <3>2 DEF Bind, BindFails
  <2>17. CASE TearDown(p)
    <3>1. CASE p \notin volDirs \/ IsLikelyNotMountPoint(VolPath(p))
      BY <2>3, <2>7, <2>17, <3>1 DEF TearDown, RemoveVolPath
    <3>2. CASE ~(p \notin volDirs \/ IsLikelyNotMountPoint(VolPath(p)))
      <4>2. HostType' /\ Goto(p, "refs") /\ frame' = frame
        BY <2>1, <2>17, <3>2 DEF TearDown, HostType
      <4>3. PlaceOK(p)'
        BY <2>1, <4>2 DEF PlaceOK, Goto
      <4> QED
        BY <2>4, <2>6, <4>2, <4>3 DEF TearDownSteps
    <3> QED
      BY <3>1, <3>2
  <2>18. CASE GetRefs(p)
    <3> DEFINE f == [frame[p] EXCEPT !.refs = GetMountRefs(VolPath(p))]
    <3>1. \A i \in DOMAIN GetMountRefs(VolPath(p)) :
             GetMountRefs(VolPath(p))[i] \in Paths
      BY <2>7, RefsType
    <3>2. FieldsOK(f) /\ frame' = [frame EXCEPT ![p] = f]
      BY <2>1, <2>18, <3>1 DEF GetRefs, FieldsOK
    <3> HIDE DEF f
    <3> QED
      BY <2>5, <2>6, <2>18, <3>2 DEF GetRefs, TearDownSteps
  <2>19. CASE Unmount(p)
    <3>1. CASE MountsAt(VolPath(p)) = {}
      BY <2>3, <2>7, <2>19, <3>1 DEF Unmount
    <3>2. CASE MountsAt(VolPath(p)) # {}
      <4>1. mounts' \in Seq(Mount)
        BY <2>7, <2>19, <3>2, MountType DEF Unmount
      <4>2. PICK step \in {"count", "remove"} :
                Goto(p, step) /\ (step = "count" => OneRef(frame[p].refs))
        BY <2>19, <3>2 DEF Unmount
      <4>3. HostType' /\ frame' = frame
        BY <2>1, <2>19, <3>2, <4>1 DEF Unmount, HostType
      <4>4. PlaceOK(p)'
        BY <2>1, <4>2, <4>3 DEF PlaceOK, Goto
      <4> QED
        BY <2>4, <2>6, <4>2, <4>3, <4>4 DEF TearDownSteps
    <3> QED
      BY <3>1, <3>2
  <2>20. CASE CountRefs(p)
    <3> DEFINE ref == GetDeviceNameFromMount(TheRef(frame[p].refs))
               f == [frame[p] EXCEPT !.device = ref[1], !.cnt = ref[2]]
    <3>1. ref[1] \in Devices \cup {-1} /\ ref[2] \in Nat
      BY <2>7, MountType
    <3>2. frame' = [frame EXCEPT ![p] = f] /\ Goto(p, "unmountGlobal")
      <4>1. frame' = [frame EXCEPT ![p].device = ref[1], ![p].cnt = ref[2]]
            /\ Goto(p, "unmountGlobal")
        BY <2>20 DEF CountRefs
      <4> HIDE DEF ref
      <4> QED
        BY <2>1, <4>1
    <3>3. FieldsOK(f) /\ f.refs = frame[p].refs
      <4> DEFINE old == frame[p]
                 g == [old EXCEPT !.device = ref[1]]
      <4>1. FieldsOK(old)
        BY <2>1
      <4> HIDE DEF ref, old
      <4>2. FieldsOK(g) /\ g.refs = old.refs
        BY <3>1, <4>1 DEF FieldsOK
      <4>3. f = [g EXCEPT !.cnt = ref[2]]
        BY DEF old
      <4> HIDE DEF g
      <4>4. FieldsOK([g EXCEPT !.cnt = ref[2]])
            /\ [g EXCEPT !.cnt = ref[2]].refs = g.refs
        BY <3>1, <4>2 DEF FieldsOK
      <4> QED
        BY <4>2, <4>3, <4>4 DEF old
    <3>4. OneRef(f.refs)
      BY <2>1, <2>20, <3>3 DEF CountRefs, PlaceOK
    <3> HIDE DEF f
    <3> QED
      BY <2>5, <2>6, <2>20, <3>2, <3>3, <3>4 DEF CountRefs, TearDownSteps
  <2>21. CASE UnmountGlobal(p)
    <3> DEFINE mntPath == TheRef(frame[p].refs)
    <3>1. CASE MountsAt(mntPath) = {}
      BY <2>3, <2>7, <2>21, <3>1 DEF UnmountGlobal
    <3>2. CASE MountsAt(mntPath) # {}
      <4>1. mounts' \in Seq(Mount)
        BY <2>7, <2>21, <3>2, MountType DEF UnmountGlobal
      <4>2. PICK step \in {"disconnect", "remove"} : Goto(p, step)
        BY <2>21, <3>2 DEF UnmountGlobal
      <4>3. HostType' /\ frame' = frame
        BY <2>1, <2>21, <3>2, <4>1 DEF UnmountGlobal, HostType
      <4>4. PlaceOK(p)'
        BY <2>1, <4>2 DEF PlaceOK, Goto
      <4> QED
        BY <2>4, <2>6, <4>2, <4>3, <4>4 DEF TearDownSteps
    <3> QED
      BY <3>1, <3>2
  <2>22. CASE Disconnect(p)
    <3>1. CASE frame[p].device \in getNvmeofDrives
      <4>1. HostType' /\ Goto(p, "remove") /\ frame' = frame
        BY <2>1, <2>22, <3>1 DEF Disconnect, HostType
      <4>2. PlaceOK(p)'
        BY <2>1, <4>1 DEF PlaceOK, Goto
      <4> QED
        BY <2>4, <2>6, <4>1, <4>2 DEF TearDownSteps
    <3>2. CASE frame[p].device \notin getNvmeofDrives
      BY <2>3, <2>7, <2>22, <3>2 DEF Disconnect
    <3> QED
      BY <3>1, <3>2
  <2>23. CASE RemoveDir(p) \/ RemoveCheckFails(p)
    BY <2>3, <2>7, <2>23 DEF RemoveDir, RemoveCheckFails, RemoveVolPath
  <2>24. CASE Fail(p)
    BY <2>3, <2>7, <2>24 DEF Fail
  <2> QED
    BY <1>2, <2>10, <2>11, <2>12, <2>13, <2>14, <2>15, <2>16, <2>17, <2>18,
       <2>19, <2>20, <2>21, <2>22, <2>23, <2>24
    DEF SetUpStep, TearDownStep
<1> QED
  BY <1>1, <1>2 DEF Next

\* refs[0] and the drive found are used only where there is one, with any
\* number of SetUps and TearDowns interleaved, and also after an error of the
\* check has hidden a mount.
THEOREM PluginTypes == Spec => []TypeOK
<1>1. Init => TypeInv
  BY TypeInvInit
<1>2. TypeInv /\ [Next]_vars => TypeInv'
  BY TypeInvStep
<1>3. TypeInv => TypeOK
  BY DEF TypeInv
<1> QED
  BY <1>1, <1>2, <1>3, PTL DEF Spec
=============================================================================
