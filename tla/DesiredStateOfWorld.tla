------------------------ MODULE DesiredStateOfWorld ------------------------
(***************************************************************************)
(* desiredStateOfWorld of pkg/kubelet/volumemanager/cache: which volumes   *)
(* are to be attached and mounted on this node, for which pods.  Every     *)
(* method runs under the cache's lock and is one step.                     *)
(***************************************************************************)
CONSTANTS Volumes, Pods

VARIABLES
    podsToMount,    \* podsToMount of each volume of volumesToMount
    reportedInUse   \* the volumes of volumesToMount with reportedInUse set

vars == <<podsToMount, reportedInUse>>

TypeOK ==
    /\ podsToMount \in [Volumes -> SUBSET Pods]
    /\ reportedInUse \subseteq {v \in Volumes : podsToMount[v] # {}}

Init ==
    /\ podsToMount = [v \in Volumes |-> {}]
    /\ reportedInUse = {}

\* A volume is in the cache as long as a pod is to mount it.
VolumeExists(v) == podsToMount[v] # {}

PodExistsInVolume(p, v) == p \in podsToMount[v]

\* A volume that is not there yet begins with reportedInUse = false.
AddPodToVolume(p, v) ==
    /\ podsToMount' = [podsToMount EXCEPT ![v] = @ \cup {p}]
    /\ UNCHANGED reportedInUse

\* Mutant: the mark outlives the volume.
DeletePodFromVolumeStillReported(p, v) ==
    /\ podsToMount' = [podsToMount EXCEPT ![v] = @ \ {p}]
    /\ UNCHANGED reportedInUse

\* The volume goes with its last pod.
DeletePodFromVolume(p, v) ==
    /\ podsToMount' = [podsToMount EXCEPT ![v] = @ \ {p}]
    /\ reportedInUse' = IF podsToMount'[v] = {} THEN reportedInUse \ {v}
                        ELSE reportedInUse

MarkVolumesReportedInUse(reportedVolumes) ==
    /\ reportedInUse' = {v \in Volumes : VolumeExists(v)} \cap reportedVolumes
    /\ UNCHANGED podsToMount

GetVolumesToMount ==
    {[vol |-> x[1], pod |-> x[2], reportedInUse |-> x[1] \in reportedInUse] :
        x \in {y \in Volumes \X Pods : y[2] \in podsToMount[y[1]]}}
=============================================================================
