--------------------- MODULE MCNestedPendingOperations ---------------------
(***************************************************************************)
(* Instances of NestedPendingOperations: the ways the volume manager uses  *)
(* it.                                                                     *)
(***************************************************************************)
EXTENDS NestedPendingOperations, TLC

CONSTANTS v1, v2, p1, p2, p3, r1, r2, r3

\* Volumes that are not attachable (NVMe-oF): every volume has one pod.
PerPodRequests ==
    {<<v1, NoPod>>, <<v1, p1>>, <<v2, NoPod>>, <<v2, p2>>}

\* An attachable volume that pods share, and volume-less bulk verification.
SharedRequests ==
    {<<v1, NoPod>>, <<v1, p1>>, <<v1, p2>>, <<v1, p3>>, <<NoVolume, NoPod>>}

RoutineAndPodSymmetry == Permutations(Routines) \cup Permutations(Pods)
=============================================================================
