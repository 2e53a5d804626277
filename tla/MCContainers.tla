----------------------------- MODULE MCContainers -----------------------------
(***************************************************************************)
(* The ring queue and the object pool side by side.  They have no state in *)
(* common and no call in common: a step is a step of the one or of the     *)
(* other, and what is checked of each is what it does alone.               *)
(***************************************************************************)
EXTENDS RingQueue, ObjectPool

ContainersInit == Init /\ PoolInit

ContainersNext ==
    \/ Next /\ UNCHANGED poolVars
    \/ PoolNext /\ UNCHANGED vars

ContainersSpec == ContainersInit /\ [][ContainersNext]_<<vars, poolVars>>
=============================================================================
