----------------------------- MODULE LeastProgress -----------------------------
(***************************************************************************)
(* What the dependency matrix is for.  Between some of the states the      *)
(* processes hang in there is an order: one is ahead of (depends on) the   *)
(* other.  Evidence comes from several processes; where it contradicts     *)
(* itself, neither of the two is ahead.  The answer is the set of states   *)
(* that are ahead of nobody: their tasks have progressed least.            *)
(***************************************************************************)
EXTENDS Naturals

VARIABLES
  states,  \* the states the processes hang in, by their places in a vector
  ahead,   \* the pairs <<i, j>> such that i is ahead of j
  stage,   \* "evidence", "resolving", "answered"
  least    \* the answer

vars == <<states, ahead, stage, least>>

Mutual(i, j) == <<i, j>> \in ahead /\ <<j, i>> \in ahead

Init ==
  /\ states \in SUBSET Nat
  /\ ahead = {}
  /\ stage = "evidence"
  /\ least = {}

(* Evidence accumulates; more of it may also make a relation undecided. *)
Learn ==
  /\ stage = "evidence"
  /\ ahead' \in SUBSET {p \in states \X states : p[1] # p[2]}
  /\ UNCHANGED <<states, stage, least>>

Judge ==
  /\ stage = "evidence"
  /\ stage' = "resolving"
  /\ UNCHANGED <<states, ahead, least>>

(* Two states that are ahead of each other: neither is. *)
Resolve(i, j) ==
  /\ stage = "resolving"
  /\ Mutual(i, j)
  /\ ahead' = ahead \ {<<i, j>>, <<j, i>>}
  /\ UNCHANGED <<states, stage, least>>

Answer ==
  /\ stage = "resolving"
  /\ \A i, j \in states : ~Mutual(i, j)
  /\ stage' = "answered"
  /\ least' = {i \in states : \A j \in states : <<i, j>> \notin ahead}
  /\ UNCHANGED <<states, ahead>>

Next ==
  \/ Learn
  \/ Judge
  \/ \E i, j \in states : Resolve(i, j)
  \/ Answer

Spec == Init /\ [][Next]_vars
==============================================================================
