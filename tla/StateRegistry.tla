---------------------------- MODULE StateRegistry ----------------------------
(***************************************************************************)
(* What a StateFactory promises its callers: the names of states (call     *)
(* paths) are numbered 1, 2, 3, ... in the order in which they are first   *)
(* asked for, a number is never taken back or given to another name, and   *)
(* every caller that asks for a name is told its number.                   *)
(***************************************************************************)
EXTENDS Naturals, FiniteSets

CONSTANTS Threads,   \* the threads that share the factory
          Names      \* the names (call paths) they may ask for

VARIABLES ids,       \* ids[n]: the number of name n, 0 while it has none
          answer     \* answer[t]: the last <<name, number>> told to thread t

registry == <<ids, answer>>

Numbered == {n \in Names : ids[n] # 0}

NoAnswer == <<>>

Init ==
  /\ ids = [n \in Names |-> 0]
  /\ answer = [t \in Threads |-> NoAnswer]

(* A name nobody asked for before gets the next number. *)
Register(n) ==
  /\ ids[n] = 0
  /\ ids' = [ids EXCEPT ![n] = Cardinality(Numbered) + 1]
  /\ UNCHANGED answer

(* A thread learns the number of a name that has one. *)
Answer(t, n) ==
  /\ ids[n] # 0
  /\ answer' = [answer EXCEPT ![t] = <<n, ids[n]>>]
  /\ UNCHANGED ids

Next ==
  \/ \E n \in Names : Register(n)
  \/ \E t \in Threads, n \in Names : Answer(t, n)

Spec == Init /\ [][Next]_registry
==============================================================================
