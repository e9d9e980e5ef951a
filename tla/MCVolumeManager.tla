-------------------------- MODULE MCVolumeManager --------------------------
(***************************************************************************)
(* Instances of VolumeManager for TLC.                                     *)
(***************************************************************************)
EXTENDS VolumeManager, TLC

CONSTANTS p1, p2, v1, v2

SharedVolume  == p1 :> {v1} @@ p2 :> {v1}
OnePod        == p1 :> {v1}
OneRoutine    == {1}
TwoRoutines   == 1 .. 2
=============================================================================
