------------------------------- MODULE Gather -------------------------------
(***************************************************************************)
(* What a reduction promises its root: the contribution of every process   *)
(* reaches the root, each one once, and the root is not done before.       *)
(***************************************************************************)
CONSTANTS Proc, Root

VARIABLES collected,   \* the processes whose contribution the root holds
          finished     \* whether the root's reduction has returned

gather == <<collected, finished>>

Init ==
  /\ collected = {Root}
  /\ finished = FALSE

(* A batch of contributions arrives, none of which arrived before. *)
Collect(batch) ==
  /\ ~finished
  /\ batch # {}
  /\ collected' = collected \cup batch
  /\ UNCHANGED finished

Finish ==
  /\ collected = Proc
  /\ finished' = TRUE
  /\ UNCHANGED collected

Next ==
  \/ \E batch \in SUBSET (Proc \ collected) : Collect(batch)
  \/ Finish

Spec == Init /\ [][Next]_gather
==============================================================================
