--------------------------- MODULE BinomialReducer ---------------------------
(***************************************************************************)
(* One tree reduction (template class BinomialReducer): every process runs *)
(* reduce() on its own object, whose send and receive exchange messages    *)
(* with a named peer.  What an object has merged is the set of processes   *)
(* whose contribution it holds.  send() may return before the message is   *)
(* received or only afterwards: MPI_Send promises neither.                 *)
(***************************************************************************)
EXTENDS BinomialTree

VARIABLES mask,     \* loop variable of each process's reduce()
          status,   \* "looping", "sending" (inside send()) or "done"
          merged,   \* whose contributions each process's object holds
          net       \* messages on their way

vars == <<mask, status, merged, net>>

Message == [from : Proc, to : Proc, merged : SUBSET Proc]

Init ==
  /\ mask = [p \in Proc |-> 1]
  /\ status = [p \in Proc |-> "looping"]
  /\ merged = [p \in Proc |-> {p}]
  /\ net = {}

Looping(p) == status[p] = "looping" /\ mask[p] < N

(* A receiver whose source exists waits for that source's message. *)
Receive(p) ==
  /\ Looping(p)
  /\ ~BitSet(RelRank(p), mask[p])
  /\ Source(p, mask[p]) < N
  /\ \E m \in net :
       /\ m.from = SourceRank(p, mask[p])
       /\ m.to = p
       /\ merged' = [merged EXCEPT ![p] = @ \cup m.merged]
       /\ net' = net \ {m}
  /\ mask' = [mask EXCEPT ![p] = 2 * @]
  /\ UNCHANGED status

(* MUTANT of Skip: a source that exists is skipped as well. *)
SkipAny(p) ==
  /\ Looping(p)
  /\ ~BitSet(RelRank(p), mask[p])
  /\ mask' = [mask EXCEPT ![p] = 2 * @]
  /\ UNCHANGED <<status, merged, net>>

(* A receiver whose source does not exist goes to the next level. *)
Skip(p) ==
  /\ Looping(p)
  /\ ~BitSet(RelRank(p), mask[p])
  /\ Source(p, mask[p]) >= N
  /\ mask' = [mask EXCEPT ![p] = 2 * @]
  /\ UNCHANGED <<status, merged, net>>

(* MUTANT of Send: the loop goes on after the object was sent. *)
SendAndGoOn(p) ==
  /\ Looping(p)
  /\ BitSet(RelRank(p), mask[p])
  /\ net' = net \cup {[from |-> p, to |-> DestinationRank(p, mask[p]),
                       merged |-> merged[p]]}
  /\ mask' = [mask EXCEPT ![p] = 2 * @]
  /\ UNCHANGED <<status, merged>>

(* A sender hands what it merged to its parent, and is done when send() is. *)
Send(p) ==
  /\ Looping(p)
  /\ BitSet(RelRank(p), mask[p])
  /\ net' = net \cup {[from |-> p, to |-> DestinationRank(p, mask[p]),
                       merged |-> merged[p]]}
  /\ status' = [status EXCEPT ![p] = "sending"]
  /\ UNCHANGED <<mask, merged>>

Received(p) == \A m \in net : m.from # p

SendReturns(p) ==
  /\ status[p] = "sending"
  /\ status' = [status EXCEPT ![p] = "done"]
  /\ UNCHANGED <<mask, merged, net>>

(* The loop ends without a send: this is the root. *)
LoopEnds(p) ==
  /\ status[p] = "looping"
  /\ mask[p] >= N
  /\ status' = [status EXCEPT ![p] = "done"]
  /\ UNCHANGED <<mask, merged, net>>

Step(p) == Receive(p) \/ Skip(p) \/ Send(p) \/ LoopEnds(p)

Next == \E p \in Proc : Step(p) \/ SendReturns(p)

(* Every process runs; a send is only sure to return once it is received. *)
Fairness ==
  \A p \in Proc : WF_vars(Step(p)) /\ WF_vars(Received(p) /\ SendReturns(p))

SafeSpec == Init /\ [][Next]_vars
Spec == SafeSpec /\ Fairness

-----------------------------------------------------------------------------
(* Types of the variables. *)
TypeOK ==
  /\ mask \in [Proc -> Nat \ {0}]
  /\ status \in [Proc -> {"looping", "sending", "done"}]
  /\ merged \in [Proc -> SUBSET Proc]
  /\ net \subseteq Message

(* The objects that still take part and the messages on their way hold every
   contribution, and none is held twice: transition counts are never added
   up twice and the RangeSets of two objects never overlap. *)
Holding == {p \in Proc : status[p] = "looping" \/ p = Root}
EachContributionHeldOnce ==
  \A q \in Proc :
    \/ /\ \E p \in Holding : q \in merged[p] /\ \A o \in Holding \ {p} : q \notin merged[o]
       /\ \A m \in net : q \notin m.merged
    \/ /\ \A p \in Holding : q \notin merged[p]
       /\ \E m \in net : q \in m.merged /\ \A o \in net \ {m} : q \notin o.merged

(* The reduction implements the gather that the analysis relies on. *)
GatherAtRoot == INSTANCE Gather
                  WITH collected <- merged[Root], finished <- status[Root] = "done"
ImplementsGather == GatherAtRoot!Spec

(* Every process gets out of reduce(), whether its sends are buffered or have
   to meet their receive. *)
EveryProcessReturns == <>[](\A p \in Proc : status[p] = "done")
==============================================================================
