---------------------- MODULE MCAttachDetachController ----------------------
(***************************************************************************)
(* Instances of AttachDetachController for TLC.                            *)
(***************************************************************************)
EXTENDS AttachDetachController, TLC

CONSTANTS n1, v1, p1, p2

OneNode    == [p \in Pods |-> n1]
SameVolume == [p \in Pods |-> {v1}]
=============================================================================
