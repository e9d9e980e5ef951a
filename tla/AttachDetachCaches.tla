------------------------- MODULE AttachDetachCaches -------------------------
(***************************************************************************)
(* The two caches of the attach/detach controller                          *)
(* (pkg/controller/volume/attachdetach/cache): the desired state of the    *)
(* world, which knows the pods scheduled to the managed nodes, and the     *)
(* actual state of the world, which knows where volumes are attached and   *)
(* what the nodes' status should list.  Each action here is one section    *)
(* under the lock of its cache.                                            *)
(***************************************************************************)
EXTENDS OperationList

CONSTANTS
    Nodes,      \* node names
    NoEntry     \* no entry under a key of a map

VARIABLES
    \* desired state of the world
    nodesManaged,            \* the managed nodes
    scheduledPods,           \* <<volume, node, pod>>
    \* actual state of the world
    attachedVolumes,         \* <<volume, node>> to nodeAttachedTo
    nodesToUpdateStatusFor   \* node to what its status should list

dswVars == <<nodesManaged, scheduledPods>>
aswVars == <<attachedVolumes, nodesToUpdateStatusFor>>

VolumeNodes == Volumes \X Nodes

\* Of mountedByNodeSetCount only whether it is zero is ever looked at; of
\* detachRequestedTime whether it is set, and whether
\* maxWaitForUnmountDuration has elapsed since.
NodeAttachedTo ==
    [mountedByNode         : BOOLEAN,
     mountedByNodeSetCount : {"zero", "positive"},
     detachRequestedTime   : {"zero", "recent", "expired"}]

NodeToUpdateStatusFor ==
    [statusUpdateNeeded : BOOLEAN, volumesToReportAsAttached : SUBSET Volumes]

ASSUME NoEntryAssumption ==
    NoEntry \notin NodeAttachedTo \cup NodeToUpdateStatusFor

CachesTypeOK ==
    /\ nodesManaged \subseteq Nodes
    /\ scheduledPods \subseteq Volumes \X Nodes \X Pods
    /\ attachedVolumes \in [VolumeNodes -> NodeAttachedTo \cup {NoEntry}]
    /\ nodesToUpdateStatusFor \in [Nodes -> NodeToUpdateStatusFor \cup {NoEntry}]

CachesInit ==
    /\ nodesManaged = {}
    /\ scheduledPods = {}
    /\ attachedVolumes = [vn \in VolumeNodes |-> NoEntry]
    /\ nodesToUpdateStatusFor = [n \in Nodes |-> NoEntry]
-----------------------------------------------------------------------------
(***************************************************************************)
(* The desired state of the world.                                         *)
(***************************************************************************)
AddNode(n) ==
    /\ nodesManaged' = nodesManaged \cup {n}
    /\ UNCHANGED scheduledPods

\* DeleteNode refuses a node that still has volumes to attach.
DeleteNode(n) ==
    /\ nodesManaged' = IF \E s \in scheduledPods : s[2] = n
                       THEN nodesManaged ELSE nodesManaged \ {n}
    /\ UNCHANGED scheduledPods

\* AddPod for every volume of a pod: nothing on a node that is not managed.
AddPod(p, volumes, n) ==
    /\ scheduledPods' = IF n \in nodesManaged
                        THEN scheduledPods \cup (volumes \X {n} \X {p})
                        ELSE scheduledPods
    /\ UNCHANGED nodesManaged

DeletePod(p, volumes, n) ==
    /\ scheduledPods' = scheduledPods \ (volumes \X {n} \X {p})
    /\ UNCHANGED nodesManaged

VolumeExists(v, n) == \E p \in Pods : <<v, n, p>> \in scheduledPods

GetVolumesToAttach == {vn \in VolumeNodes : VolumeExists(vn[1], vn[2])}
-----------------------------------------------------------------------------
(***************************************************************************)
(* The actual state of the world.                                          *)
(***************************************************************************)
VolumeNodeExists(v, n) == attachedVolumes[<<v, n>>] # NoEntry

VolumesToReport(n) ==
    IF nodesToUpdateStatusFor[n] = NoEntry THEN {}
    ELSE nodesToUpdateStatusFor[n].volumesToReportAsAttached

\* A node's entry once its list is made to be volumes; the entry is created
\* with statusUpdateNeeded, and a list that stays as it is keeps its flag.
Reporting(n, volumes) ==
    [statusUpdateNeeded |->
        \/ nodesToUpdateStatusFor[n] = NoEntry
        \/ volumes # VolumesToReport(n)
        \/ nodesToUpdateStatusFor[n].statusUpdateNeeded,
     volumesToReportAsAttached |-> volumes]

removeVolumeFromReportAsAttached(v, n) ==
    nodesToUpdateStatusFor' =
        IF v \in VolumesToReport(n)
        THEN [nodesToUpdateStatusFor EXCEPT ![n] =
                Reporting(n, VolumesToReport(n) \ {v})]
        ELSE nodesToUpdateStatusFor

\* AddVolumeNode and addVolumeToReportAsAttached: a new entry is assumed to
\* be mounted until the node says otherwise.
MarkVolumeAsAttached(v, n) ==
    /\ attachedVolumes' =
         IF VolumeNodeExists(v, n) THEN attachedVolumes
         ELSE [attachedVolumes EXCEPT ![<<v, n>>] =
                 [mountedByNode         |-> TRUE,
                  mountedByNodeSetCount |-> "zero",
                  detachRequestedTime   |-> "zero"]]
    /\ nodesToUpdateStatusFor' =
         [nodesToUpdateStatusFor EXCEPT ![n] =
            Reporting(n, VolumesToReport(n) \cup {v})]

\* DeleteVolumeNode returns at once when no node has the volume.
MarkVolumeAsDetached(v, n) ==
    IF \E m \in Nodes : VolumeNodeExists(v, m)
    THEN /\ attachedVolumes' = [attachedVolumes EXCEPT ![<<v, n>>] = NoEntry]
         /\ removeVolumeFromReportAsAttached(v, n)
    ELSE UNCHANGED aswVars

\* Mutant: the volume is reported although its entry is gone.
AddVolumeToReportAsAttachedAlways(v, n) ==
    /\ nodesToUpdateStatusFor' =
         [nodesToUpdateStatusFor EXCEPT ![n] =
            Reporting(n, VolumesToReport(n) \cup {v})]
    /\ UNCHANGED attachedVolumes

AddVolumeToReportAsAttached(v, n) ==
    /\ nodesToUpdateStatusFor' =
         IF VolumeNodeExists(v, n)
         THEN [nodesToUpdateStatusFor EXCEPT ![n] =
                 Reporting(n, VolumesToReport(n) \cup {v})]
         ELSE nodesToUpdateStatusFor
    /\ UNCHANGED attachedVolumes

\* The entry after SetVolumeMountedByNode: mountedByNode is not reset before
\* it has been set once.
MountedByNode(entry, mounted) ==
    IF mounted
    THEN [entry EXCEPT !.mountedByNode = TRUE, !.mountedByNodeSetCount = "positive"]
    ELSE [entry EXCEPT !.mountedByNode = entry.mountedByNodeSetCount = "zero"
                                         /\ entry.mountedByNode]

\* processVolumesInUse: SetVolumeMountedByNode for each volume of the node.
processVolumesInUse(n, volumesInUse) ==
    attachedVolumes' =
        [vn \in VolumeNodes |->
            IF vn[2] = n /\ attachedVolumes[vn] # NoEntry
            THEN MountedByNode(attachedVolumes[vn], vn[1] \in volumesInUse)
            ELSE attachedVolumes[vn]]

ResetDetachRequestTime(v, n) ==
    attachedVolumes' =
        [attachedVolumes EXCEPT ![<<v, n>>] =
            [attachedVolumes[<<v, n>>] EXCEPT !.detachRequestedTime = "zero"]]

\* Mutant: every pass begins the wait anew.
DetachRequestedAnew(entry) == [entry EXCEPT !.detachRequestedTime = "recent"]

\* The entry after SetDetachRequestTime: a request already made keeps its time.
DetachRequested(entry) ==
    IF entry.detachRequestedTime = "zero"
    THEN [entry EXCEPT !.detachRequestedTime = "recent"] ELSE entry

\* What the map of the nodes becomes when the flags of some are set to needed;
\* a node without an entry is left alone.
StatusUpdateNeeded(nodes, needed) ==
    [n \in Nodes |->
        IF n \in nodes /\ nodesToUpdateStatusFor[n] # NoEntry
        THEN [nodesToUpdateStatusFor[n] EXCEPT !.statusUpdateNeeded = needed]
        ELSE nodesToUpdateStatusFor[n]]

SetNodeStatusUpdateNeeded(n) ==
    nodesToUpdateStatusFor' = StatusUpdateNeeded({n}, TRUE)

\* The nodes and lists GetVolumesToReportAttached returns; it resets the flag
\* of every node.
VolumesToReportAttached ==
    {<<n, VolumesToReport(n)>> : n \in
        {m \in Nodes : /\ nodesToUpdateStatusFor[m] # NoEntry
                       /\ nodesToUpdateStatusFor[m].statusUpdateNeeded}}
=============================================================================
