------------------------------- MODULE TaskSet -------------------------------
(***************************************************************************)
(* What a RangeSet promises the rest of the program: it is a set of tasks  *)
(* (MPI ranks) to which disjoint sets can be added and that answers        *)
(* whether a task is in it.  A set that overlaps it is refused.            *)
(***************************************************************************)
CONSTANT Tasks

VARIABLES tasks,    \* the tasks of the set
          call,     \* "none", "add", "ask" or, after an overlap, "error"
          given,    \* the tasks the call is about
          answer    \* what the last "ask" returned

taskset == <<tasks, call, given, answer>>

Init ==
  /\ tasks \in SUBSET Tasks
  /\ call = "none"
  /\ given = {}
  /\ answer = FALSE

Add ==
  /\ call = "none"
  /\ call' = "add"
  /\ given' \in SUBSET Tasks
  /\ UNCHANGED <<tasks, answer>>

(* Adding gives the union of two disjoint sets ... *)
Unite ==
  /\ call = "add"
  /\ given \cap tasks = {}
  /\ tasks' = tasks \cup given
  /\ call' = "none"
  /\ given' = {}
  /\ UNCHANGED answer

(* ... and is an error when, and only when, they are not disjoint. *)
Refuse ==
  /\ call = "add"
  /\ given \cap tasks # {}
  /\ call' = "error"
  /\ UNCHANGED <<tasks, given, answer>>

Ask ==
  /\ call = "none"
  /\ call' = "ask"
  /\ \E t \in Tasks : given' = {t}
  /\ UNCHANGED <<tasks, answer>>

Answer ==
  /\ call = "ask"
  /\ answer' = (given \subseteq tasks)
  /\ call' = "none"
  /\ given' = {}
  /\ UNCHANGED tasks

Next == Add \/ Unite \/ Refuse \/ Ask \/ Answer

Spec == Init /\ [][Next]_taskset
==============================================================================
