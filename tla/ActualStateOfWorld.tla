------------------------- MODULE ActualStateOfWorld -------------------------
(***************************************************************************)
(* actualStateOfWorld of pkg/kubelet/volumemanager/cache: which volumes    *)
(* the kubelet takes to be attached to this node, which of them have their *)
(* device mounted, and which pods they are mounted for.  Every method runs *)
(* under the cache's lock and is one step.                                 *)
(***************************************************************************)
CONSTANTS
    Volumes, Pods,
    RemountVolumes      \* volumes whose plugin's RequiresRemount() is true

VARIABLES
    attachedVolumes,    \* the keys of attachedVolumes
    globallyMounted,    \* the volumes with globallyMounted set
    mountedPods,        \* mountedPods of each volume
    remountRequired     \* the <<volume, pod>> with remountRequired set

vars == <<attachedVolumes, globallyMounted, mountedPods, remountRequired>>

TypeOK ==
    /\ attachedVolumes \subseteq Volumes
    /\ globallyMounted \subseteq attachedVolumes
    /\ mountedPods \in [Volumes -> SUBSET Pods]
    /\ \A v \in Volumes : mountedPods[v] # {} => v \in attachedVolumes
    /\ \A x \in remountRequired : x \in Volumes \X Pods /\ x[2] \in mountedPods[x[1]]

Init ==
    /\ attachedVolumes = {}
    /\ globallyMounted = {}
    /\ mountedPods = [v \in Volumes |-> {}]
    /\ remountRequired = {}

VolumeExists(v) == v \in attachedVolumes

PodExistsInVolume(p, v) == p \in mountedPods[v]

\* addVolume: a volume that is there already keeps its state.
MarkVolumeAsAttached(v) ==
    /\ attachedVolumes' = attachedVolumes \cup {v}
    /\ UNCHANGED <<globallyMounted, mountedPods, remountRequired>>

\* DeleteVolume: refused, and the error dropped, while pods are mounted.
MarkVolumeAsDetached(v) ==
    IF mountedPods[v] # {} THEN UNCHANGED vars
    ELSE /\ attachedVolumes' = attachedVolumes \ {v}
         /\ globallyMounted' = globallyMounted \ {v}
         /\ UNCHANGED <<mountedPods, remountRequired>>

\* AddPodToVolume, for a volume that is attached (an error otherwise).
MarkVolumeAsMounted(p, v) ==
    /\ mountedPods' = [mountedPods EXCEPT ![v] = @ \cup {p}]
    /\ remountRequired' = remountRequired \ {<<v, p>>}
    /\ UNCHANGED <<attachedVolumes, globallyMounted>>

\* Mutant: a remount stays required after the unmount.
MarkVolumeAsUnmountedOnly(p, v) ==
    /\ mountedPods' = [mountedPods EXCEPT ![v] = @ \ {p}]
    /\ UNCHANGED <<attachedVolumes, globallyMounted, remountRequired>>

\* DeletePodFromVolume; for a volume that is not attached nothing changes.
MarkVolumeAsUnmounted(p, v) ==
    /\ mountedPods' = [mountedPods EXCEPT ![v] = @ \ {p}]
    /\ remountRequired' = remountRequired \ {<<v, p>>}
    /\ UNCHANGED <<attachedVolumes, globallyMounted>>

\* SetVolumeGloballyMounted, for a volume that is attached.
MarkDeviceAsMounted(v) ==
    /\ globallyMounted' = globallyMounted \cup {v}
    /\ UNCHANGED <<attachedVolumes, mountedPods, remountRequired>>

MarkDeviceAsUnmounted(v) ==
    /\ globallyMounted' = globallyMounted \ {v}
    /\ UNCHANGED <<attachedVolumes, mountedPods, remountRequired>>

MarkRemountRequired(p) ==
    /\ remountRequired' = remountRequired \cup
         {<<v, p>> : v \in {w \in RemountVolumes : p \in mountedPods[w]}}
    /\ UNCHANGED <<attachedVolumes, globallyMounted, mountedPods>>

GetMountedVolumes ==
    {[vol |-> x[1], pod |-> x[2]] :
        x \in {y \in Volumes \X Pods : y[2] \in mountedPods[y[1]]}}

GetUnmountedVolumes ==
    {[vol |-> v, globallyMounted |-> v \in globallyMounted] :
        v \in {w \in attachedVolumes : mountedPods[w] = {}}}
=============================================================================
