----------------------- MODULE ExclusiveOperations -----------------------
(***************************************************************************)
(* What nestedPendingOperations promises its callers (the comment on       *)
(* NestedPendingOperations.Run): an operation is started only while no     *)
(* operation that conflicts with it is executing, and one that has ended   *)
(* is out of the way.                                                      *)
(***************************************************************************)
CONSTANTS Requests, Routines, Idle, Conflicting(_, _)

VARIABLE executing      \* the request each goroutine executes, or Idle

Init == executing = [r \in Routines |-> Idle]

Start(r, n) ==
    /\ executing[r] = Idle
    /\ \A q \in Routines :
         executing[q] # Idle => ~Conflicting(executing[q], n)
    /\ executing' = [executing EXCEPT ![r] = n]

End(r) ==
    /\ executing[r] # Idle
    /\ executing' = [executing EXCEPT ![r] = Idle]

Next == \E r \in Routines : End(r) \/ \E n \in Requests : Start(r, n)

Spec == Init /\ [][Next]_executing
=============================================================================
