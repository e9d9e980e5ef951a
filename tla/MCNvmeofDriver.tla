-------------------------- MODULE MCNvmeofDriver --------------------------
EXTENDS NvmeofDriver, TLC

CONSTANTS p1, p2, p3, t1, t2

\* Two pods share a target, a third has its own.
SharedAndOwn == (p1 :> t1) @@ (p2 :> t1) @@ (p3 :> t2)

OwnTarget == (p1 :> t1) @@ (p2 :> t2)
=============================================================================
