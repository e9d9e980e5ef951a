---------------------------- MODULE MCBackupAgent ----------------------------
(* Instances of BackupAgent for TLC. *)
EXTENDS BackupAgent, TLC

CONSTANT o1

OwnKeys == [o \in Objects |-> o]

Singles == {<<o>> : o \in Objects}
=============================================================================
