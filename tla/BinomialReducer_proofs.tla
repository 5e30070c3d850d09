------------------------ MODULE BinomialReducer_proofs ------------------------
(***************************************************************************)
(* Proofs about the tree reduction, for any number of processes and any    *)
(* root.  The inductive invariant Inv: numbered from the root, a process   *)
(* at mask m holds the contributions of the m processes from itself on,    *)
(* and a message carries what its sender holds to the process as far below *)
(* the sender.                                                             *)
(***************************************************************************)
EXTENDS BinomialReducer, CommonLemmas, TLAPS

From(p, length) == {q \in Proc : RelRank(p) <= RelRank(q) /\ RelRank(q) < RelRank(p) + length}

HoldsInterval == \A p \in Proc : merged[p] = From(p, mask[p])

(* A process that still takes part is a multiple of its mask, so a process
   other than the root sends before the masks run out. *)
Aligned == \A p \in Proc : status[p] = "looping" => RelRank(p) % mask[p] = 0

RootNeverSends == status[Root] # "sending"
RootRunsOut == status[Root] = "done" => mask[Root] >= N

MessagesFit ==
  \A m \in net :
    /\ m.from # Root
    /\ status[m.from] # "looping"
    /\ m.to = DestinationRank(m.from, mask[m.from])
    /\ mask[m.from] <= RelRank(m.from)
    /\ m.merged = merged[m.from]

Inv ==
  /\ TypeOK
  /\ HoldsInterval
  /\ Aligned
  /\ RootNeverSends
  /\ RootRunsOut
  /\ MessagesFit

-----------------------------------------------------------------------------
(* Renumbering relative to the root, without the modulo. *)
LEMMA RelRankValue ==
  ASSUME NEW p \in Proc
  PROVE  RelRank(p) = IF p >= Root THEN p - Root ELSE p - Root + N
<1>1. CASE p >= Root
  <2>1. p - Root + N \in N .. 2 * N - 1
    BY <1>1, TreeAssumption DEF Proc
  <2>2. (p - Root + N) % N = p - Root + N - N
    BY <2>1, ModOnce, TreeAssumption DEF Proc
  <2>3. QED
    BY <1>1, <2>2, TreeAssumption DEF RelRank, Proc
<1>2. CASE p < Root
  <2>1. p - Root + N \in 0 .. N - 1
    BY <1>2, TreeAssumption DEF Proc
  <2>2. (p - Root + N) % N = p - Root + N
    BY <2>1, TreeAssumption
  <2>3. QED
    BY <1>2, <2>2, TreeAssumption DEF RelRank, Proc
<1>3. QED
  BY <1>1, <1>2, TreeAssumption DEF Proc

LEMMA RankOfValue ==
  ASSUME NEW r \in Proc
  PROVE  RankOf(r) = IF r + Root < N THEN r + Root ELSE r + Root - N
<1>1. CASE r + Root < N
  <2>1. r + Root \in 0 .. N - 1
    BY <1>1, TreeAssumption DEF Proc
  <2>2. QED
    BY <1>1, <2>1, TreeAssumption DEF RankOf
<1>2. CASE r + Root >= N
  <2>1. r + Root \in N .. 2 * N - 1
    BY <1>2, TreeAssumption DEF Proc
  <2>2. (r + Root) % N = r + Root - N
    BY <2>1, ModOnce, TreeAssumption DEF Proc
  <2>3. QED
    BY <1>2, <2>2, TreeAssumption DEF RankOf, Proc
<1>3. QED
  BY <1>1, <1>2, TreeAssumption DEF Proc

(* The two renumberings are inverse to each other, on the ranks. *)
LEMMA Renumbering ==
  ASSUME NEW p \in Proc
  PROVE  /\ RelRank(p) \in Proc
         /\ RankOf(p) \in Proc
         /\ RelRank(RankOf(p)) = p
         /\ RankOf(RelRank(p)) = p
<1>1. RelRank(p) \in Proc
  BY RelRankValue, TreeAssumption DEF Proc
<1>2. RankOf(p) \in Proc
  BY RankOfValue, TreeAssumption DEF Proc
<1>3. RelRank(RankOf(p)) = p
  <2>1. RelRank(RankOf(p)) = IF RankOf(p) >= Root THEN RankOf(p) - Root
                             ELSE RankOf(p) - Root + N
    BY <1>2, RelRankValue
  <2>2. QED
    BY <2>1, RankOfValue, TreeAssumption DEF Proc
<1>4. RankOf(RelRank(p)) = p
  <2>1. RankOf(RelRank(p)) = IF RelRank(p) + Root < N THEN RelRank(p) + Root
                             ELSE RelRank(p) + Root - N
    BY <1>1, RankOfValue
  <2>2. QED
    BY <2>1, RelRankValue, TreeAssumption DEF Proc
<1>5. QED
  BY <1>1, <1>2, <1>3, <1>4

(* Only the root is numbered 0. *)
LEMMA RelRankOfRoot ==
  /\ Root \in Proc
  /\ RelRank(Root) = 0
  /\ \A p \in Proc : RelRank(p) = 0 => p = Root
<1>1. Root \in Proc
  BY TreeAssumption DEF Proc
<1>2. QED
  BY <1>1, RelRankValue, TreeAssumption DEF Proc

-----------------------------------------------------------------------------
LEMMA InvInit == Init => Inv
<1> SUFFICES ASSUME Init PROVE Inv
  OBVIOUS
<1> USE DEF Init
<1>1. TypeOK
  BY DEF TypeOK
<1>2. HoldsInterval
  <2>1. ASSUME NEW p \in Proc, NEW q \in Proc, RelRank(q) = RelRank(p) PROVE q = p
    BY <2>1, Renumbering
  <2>2. \A p \in Proc : RelRank(p) \in Nat
    BY Renumbering, TreeAssumption DEF Proc
  <2>3. QED
    BY <2>1, <2>2 DEF HoldsInterval, From
<1>3. Aligned
  BY Renumbering, TreeAssumption DEF Aligned, Proc
<1>4. RootNeverSends /\ RootRunsOut /\ MessagesFit
  BY RelRankOfRoot DEF RootNeverSends, RootRunsOut, MessagesFit
<1>5. QED
  BY <1>1, <1>2, <1>3, <1>4 DEF Inv

(* The message a receiver takes is the interval right above its own, disjoint
   from it and not empty. *)
LEMMA ReceivedInterval ==
  ASSUME Inv, NEW p \in Proc, Source(p, mask[p]) < N, NEW m \in net,
         m.from = SourceRank(p, mask[p]), m.to = p
  PROVE  /\ merged[p] \cup m.merged = From(p, 2 * mask[p])
         /\ merged[p] \cap m.merged = {}
         /\ m.from \in m.merged
<1> DEFINE s == m.from
<1>1. /\ s \in Proc /\ mask[p] \in Nat /\ mask[s] \in Nat /\ mask[p] # 0 /\ mask[s] # 0
      /\ RelRank(p) \in 0 .. N - 1 /\ RelRank(s) \in 0 .. N - 1
  BY Renumbering DEF Inv, TypeOK, Message, Proc
<1>2. RelRank(s) = RelRank(p) + mask[p]
  <2>1. RelRank(p) + mask[p] \in Proc
    BY <1>1, TreeAssumption DEF Source, Proc
  <2>2. QED
    BY <2>1, Renumbering DEF SourceRank, Source
<1>3. RelRank(p) = RelRank(s) - mask[s]
  <2>1. m.to = RankOf(RelRank(s) - mask[s]) /\ mask[s] <= RelRank(s)
    BY DEF Inv, MessagesFit, DestinationRank
  <2>2. RelRank(s) - mask[s] \in Proc
    BY <2>1, <1>1, TreeAssumption DEF Proc
  <2>3. QED
    BY <2>1, <2>2, Renumbering
<1>4. mask[s] = mask[p]
  BY <1>1, <1>2, <1>3
<1>5. m.merged = From(s, mask[p])
  BY <1>1, <1>4 DEF Inv, MessagesFit, HoldsInterval
<1>6. merged[p] = From(p, mask[p])
  BY DEF Inv, HoldsInterval
<1>7. \A q \in Proc : RelRank(q) \in Int
  BY Renumbering, TreeAssumption DEF Proc
<1>8. QED
  BY <1>1, <1>2, <1>5, <1>6, <1>7 DEF From

(* A process that goes to the next level, with what it then has to hold. *)
LEMMA InvNextLevel ==
  ASSUME Inv, NEW p \in Proc, Looping(p), ~BitSet(RelRank(p), mask[p]),
         mask' = [mask EXCEPT ![p] = 2 * @], UNCHANGED status,
         merged' = [merged EXCEPT ![p] = From(p, 2 * mask[p])],
         net' \subseteq net
  PROVE  Inv'
<1> USE DEF Inv
<1>1. mask[p] \in Nat \ {0} /\ RelRank(p) \in Nat
  BY Renumbering, TreeAssumption DEF TypeOK, Proc
<1>2. TypeOK'
  <2>1. 2 * mask[p] \in Nat \ {0}
    BY <1>1
  <2>2. QED
    BY <2>1 DEF TypeOK, From
<1>3. HoldsInterval'
  BY DEF HoldsInterval, TypeOK, From
<1>4. Aligned'
  <2>1. RelRank(p) % (2 * mask[p]) = 0
    BY <1>1, NextBit DEF Aligned, Looping, BitSet
  <2>2. QED
    BY <2>1 DEF Aligned, TypeOK
<1>5. RootNeverSends'
  BY DEF RootNeverSends
<1>6. RootRunsOut'
  BY DEF RootRunsOut, Looping, TypeOK
<1>7. MessagesFit'
  <2>1. ASSUME NEW m \in net' PROVE m \in net /\ m.from \in Proc /\ m.from # p
    BY DEF MessagesFit, Looping, TypeOK, Message
  <2>2. QED
    BY <2>1 DEF MessagesFit, TypeOK
<1>8. QED
  BY <1>2, <1>3, <1>4, <1>5, <1>6, <1>7

LEMMA InvReceive ==
  ASSUME Inv, NEW p \in Proc, Receive(p)
  PROVE  Inv'
<1>1. PICK m \in net : /\ m.from = SourceRank(p, mask[p])
                       /\ m.to = p
                       /\ merged' = [merged EXCEPT ![p] = @ \cup m.merged]
                       /\ net' = net \ {m}
  BY DEF Receive
<1>2. merged' = [merged EXCEPT ![p] = From(p, 2 * mask[p])]
  BY <1>1, ReceivedInterval DEF Receive, Inv, TypeOK
<1>3. QED
  BY <1>1, <1>2, InvNextLevel DEF Receive

(* What a skipped source would have sent is beyond the last process. *)
LEMMA InvSkip ==
  ASSUME Inv, NEW p \in Proc, Skip(p)
  PROVE  Inv'
<1>1. /\ mask[p] \in Nat \ {0}
      /\ \A q \in Proc : RelRank(q) \in 0 .. N - 1
  BY Renumbering DEF Inv, TypeOK, Proc
<1>2. From(p, mask[p]) = From(p, 2 * mask[p])
  BY <1>1, TreeAssumption DEF From, Skip, Source
<1>3. merged' = [merged EXCEPT ![p] = From(p, 2 * mask[p])]
  BY <1>2 DEF Skip, Inv, HoldsInterval, TypeOK
<1>4. QED
  BY <1>3, InvNextLevel DEF Skip

(* The root has no bit set, so it is never the sender. *)
LEMMA SenderIsNotRoot ==
  ASSUME Inv, NEW p \in Proc, BitSet(RelRank(p), mask[p])
  PROVE  p # Root /\ mask[p] <= RelRank(p)
<1>1. mask[p] \in Nat \ {0} /\ RelRank(p) \in Nat
  BY Renumbering, TreeAssumption DEF Inv, TypeOK, Proc
<1>2. RelRank(p) >= mask[p]
  BY <1>1, BitSetBound DEF BitSet
<1>3. QED
  BY <1>1, <1>2, RelRankOfRoot

LEMMA InvSend ==
  ASSUME Inv, NEW p \in Proc, Send(p)
  PROVE  Inv'
<1> USE DEF Inv, Send
<1> DEFINE m == [from |-> p, to |-> DestinationRank(p, mask[p]), merged |-> merged[p]]
<1>1. p # Root /\ mask[p] <= RelRank(p)
  BY SenderIsNotRoot
<1>2. DestinationRank(p, mask[p]) \in Proc
  <2>1. mask[p] \in Nat /\ RelRank(p) \in 0 .. N - 1
    BY Renumbering DEF TypeOK, Proc
  <2>2. RelRank(p) - mask[p] \in Proc
    BY <1>1, <2>1, TreeAssumption DEF Proc
  <2>3. QED
    BY <2>2, Renumbering DEF DestinationRank
<1>3. TypeOK'
  BY <1>2 DEF TypeOK, Message
<1>4. HoldsInterval' /\ Aligned' /\ RootNeverSends' /\ RootRunsOut'
  BY <1>1, RelRankOfRoot DEF HoldsInterval, Aligned, RootNeverSends, RootRunsOut, TypeOK
<1>5. MessagesFit'
  BY <1>1 DEF MessagesFit, TypeOK, Message
<1>6. QED
  BY <1>3, <1>4, <1>5

LEMMA InvDone ==
  ASSUME Inv, NEW p \in Proc, SendReturns(p) \/ LoopEnds(p)
  PROVE  Inv'
<1> USE DEF Inv, SendReturns, LoopEnds
<1>1. TypeOK'
  BY DEF TypeOK
<1>2. HoldsInterval' /\ Aligned'
  BY DEF HoldsInterval, Aligned, From, TypeOK
<1>3. RootNeverSends' /\ RootRunsOut'
  BY RelRankOfRoot DEF RootNeverSends, RootRunsOut, TypeOK
<1>4. MessagesFit'
  BY DEF MessagesFit, TypeOK, Message
<1>5. QED
  BY <1>1, <1>2, <1>3, <1>4

LEMMA InvNext == Inv /\ [Next]_vars => Inv'
<1> SUFFICES ASSUME Inv, [Next]_vars PROVE Inv'
  OBVIOUS
<1>1. ASSUME NEW p \in Proc, Step(p) \/ SendReturns(p) PROVE Inv'
  BY <1>1, InvReceive, InvSkip, InvSend, InvDone DEF Step
<1>2. CASE UNCHANGED vars
  BY <1>2 DEF vars, Inv, TypeOK, HoldsInterval, Aligned, RootNeverSends, RootRunsOut, MessagesFit
<1>3. QED
  BY <1>1, <1>2 DEF Next

(* Inv holds in every state of every reduction. *)
THEOREM Invariance == SafeSpec => []Inv
<1>1. QED
  BY InvInit, InvNext, PTL DEF SafeSpec

-----------------------------------------------------------------------------
(***************************************************************************)
(* The results.                                                            *)
(***************************************************************************)

(* The variables have their types: in particular, messages go to processes. *)
THEOREM TypeCorrect == Spec => []TypeOK
<1>1. Inv => TypeOK
  BY DEF Inv
<1>2. QED
  BY <1>1, Invariance, PTL DEF Spec

(* Only the root gets through all levels without sending. *)
LEMMA OnlyRootRunsOut ==
  ASSUME Inv, NEW p \in Proc, LoopEnds(p)
  PROVE  p = Root
<1>1. /\ mask[p] \in Nat \ {0} /\ RelRank(p) \in 0 .. N - 1 /\ N <= mask[p]
      /\ RelRank(p) % mask[p] = 0
  BY Renumbering, TreeAssumption DEF Inv, TypeOK, Aligned, LoopEnds, Proc
<1>2. RelRank(p) \in 0 .. mask[p] - 1
  BY <1>1, TreeAssumption
<1>3. RelRank(p) = 0
  BY <1>1, <1>2
<1>4. QED
  BY <1>3, RelRankOfRoot

HeldByOne(q) ==
  /\ \E p \in Holding : q \in merged[p] /\ \A o \in Holding \ {p} : q \notin merged[o]
  /\ \A m \in net : q \notin m.merged
OnItsWay(q) ==
  /\ \A p \in Holding : q \notin merged[p]
  /\ \E m \in net : q \in m.merged /\ \A o \in net \ {m} : q \notin o.merged

LEMMA HeldOnceReceive ==
  ASSUME Inv, NEW p \in Proc, Receive(p), NEW q \in Proc, HeldByOne(q) \/ OnItsWay(q)
  PROVE  HeldByOne(q)' \/ OnItsWay(q)'
<1>1. PICK m \in net : /\ merged' = [merged EXCEPT ![p] = @ \cup m.merged]
                       /\ net' = net \ {m}
  BY DEF Receive
<1>2. Holding' = Holding /\ p \in Holding /\ Holding \subseteq Proc
  BY DEF Receive, Looping, Holding
<1>3. /\ merged'[p] = merged[p] \cup m.merged
      /\ \A o \in Holding \ {p} : merged'[o] = merged[o]
  BY <1>1, <1>2 DEF Inv, TypeOK
<1>4. CASE HeldByOne(q)
  <2>1. PICK h \in Holding : q \in merged[h] /\ \A o \in Holding \ {h} : q \notin merged[o]
    BY <1>4 DEF HeldByOne
  <2>2. q \notin m.merged
    BY <1>4 DEF HeldByOne
  <2>3. q \in merged'[h] /\ \A o \in Holding \ {h} : q \notin merged'[o]
    BY <2>1, <2>2, <1>2, <1>3
  <2>4. \A o \in net' : q \notin o.merged
    BY <1>1, <1>4 DEF HeldByOne
  <2>5. QED
    BY <2>3, <2>4, <1>2 DEF HeldByOne
<1>5. CASE OnItsWay(q)
  <2>1. PICK w \in net : q \in w.merged /\ \A o \in net \ {w} : q \notin o.merged
    BY <1>5 DEF OnItsWay
  <2>2. \A o \in Holding : q \notin merged[o]
    BY <1>5 DEF OnItsWay
  <2>3. CASE w = m
    <3>1. q \in merged'[p] /\ \A o \in Holding \ {p} : q \notin merged'[o]
      BY <2>1, <2>2, <2>3, <1>3
    <3>2. \A o \in net' : q \notin o.merged
      BY <2>1, <2>3, <1>1
    <3>3. QED
      BY <3>1, <3>2, <1>2 DEF HeldByOne
  <2>4. CASE w # m
    <3>1. \A o \in Holding : q \notin merged'[o]
      BY <2>1, <2>2, <2>4, <1>2, <1>3
    <3>2. w \in net' /\ \A o \in net' \ {w} : q \notin o.merged
      BY <2>1, <2>4, <1>1
    <3>3. QED
      BY <3>1, <3>2, <2>1, <1>2 DEF OnItsWay
  <2>5. QED
    BY <2>3, <2>4
<1>6. QED
  BY <1>4, <1>5

LEMMA HeldOnceSend ==
  ASSUME Inv, NEW p \in Proc, Send(p), NEW q \in Proc, HeldByOne(q) \/ OnItsWay(q)
  PROVE  HeldByOne(q)' \/ OnItsWay(q)'
<1> DEFINE m == [from |-> p, to |-> DestinationRank(p, mask[p]), merged |-> merged[p]]
<1>1. Holding' = Holding \ {p} /\ p \in Holding
  BY SenderIsNotRoot DEF Send, Looping, Holding, Inv, TypeOK
<1>2. net' = net \cup {m} /\ merged' = merged
  BY DEF Send
<1>3. m \notin net
  BY DEF Inv, MessagesFit, Send, Looping
<1>4. m.merged = merged[p]
  OBVIOUS
<1> HIDE DEF m
<1>5. CASE HeldByOne(q)
  <2>1. PICK h \in Holding : q \in merged[h] /\ \A o \in Holding \ {h} : q \notin merged[o]
    BY <1>5 DEF HeldByOne
  <2>2. \A o \in net : q \notin o.merged
    BY <1>5 DEF HeldByOne
  <2>3. CASE h = p
    <3>1. \A o \in Holding' : q \notin merged'[o]
      BY <2>1, <2>3, <1>1, <1>2
    <3>2. m \in net' /\ q \in m.merged /\ \A o \in net' \ {m} : q \notin o.merged
      BY <2>1, <2>2, <2>3, <1>2, <1>4
    <3>3. QED
      BY <3>1, <3>2 DEF OnItsWay
  <2>4. CASE h # p
    <3>1. h \in Holding' /\ q \in merged'[h] /\ \A o \in Holding' \ {h} : q \notin merged'[o]
      BY <2>1, <2>4, <1>1, <1>2
    <3>2. \A o \in net' : q \notin o.merged
      BY <2>1, <2>2, <2>4, <1>1, <1>2, <1>4
    <3>3. QED
      BY <3>1, <3>2 DEF HeldByOne
  <2>5. QED
    BY <2>3, <2>4
<1>6. CASE OnItsWay(q)
  <2>1. PICK w \in net : q \in w.merged /\ \A o \in net \ {w} : q \notin o.merged
    BY <1>6 DEF OnItsWay
  <2>2. \A o \in Holding : q \notin merged[o]
    BY <1>6 DEF OnItsWay
  <2>3. \A o \in Holding' : q \notin merged'[o]
    BY <2>2, <1>1, <1>2
  <2>4. w \in net' /\ \A o \in net' \ {w} : q \notin o.merged
    BY <2>1, <2>2, <1>1, <1>2, <1>4
  <2>5. QED
    BY <2>1, <2>3, <2>4 DEF OnItsWay
<1>7. QED
  BY <1>5, <1>6

(* Every contribution is in exactly one place: an object that still takes part,
   or a message. *)
THEOREM HeldOnce == Spec => []EachContributionHeldOnce
<1> DEFINE Once == \A q \in Proc : HeldByOne(q) \/ OnItsWay(q)
<1>1. Init => Once
  BY DEF Init, HeldByOne, Holding
<1>2. Inv /\ Once /\ [Next]_vars => Once'
  <2> SUFFICES ASSUME Inv, Once, [Next]_vars, NEW q \in Proc
               PROVE  HeldByOne(q)' \/ OnItsWay(q)'
    BY DEF HeldByOne, OnItsWay
  <2>1. ASSUME UNCHANGED <<merged, net>>, Holding' = Holding
        PROVE  HeldByOne(q)' \/ OnItsWay(q)'
    BY <2>1 DEF HeldByOne, OnItsWay
  <2>2. ASSUME NEW p \in Proc, Skip(p) \/ SendReturns(p)
        PROVE  UNCHANGED <<merged, net>> /\ Holding' = Holding
    BY <2>2 DEF Skip, SendReturns, Holding, Inv, TypeOK
  <2>3. ASSUME NEW p \in Proc, LoopEnds(p)
        PROVE  UNCHANGED <<merged, net>> /\ Holding' = Holding
    BY <2>3, OnlyRootRunsOut DEF LoopEnds, Holding, Inv, TypeOK
  <2>4. ASSUME UNCHANGED vars
        PROVE  UNCHANGED <<merged, net>> /\ Holding' = Holding
    BY <2>4 DEF vars, Holding
  <2>5. QED
    BY <2>1, <2>2, <2>3, <2>4, HeldOnceReceive, HeldOnceSend DEF Next, Step
<1>3. Once => EachContributionHeldOnce
  BY DEF HeldByOne, OnItsWay, EachContributionHeldOnce
<1>4. QED
  BY <1>1, <1>2, <1>3, Invariance, PTL DEF Spec, SafeSpec

(* The reduction implements the gather: a receive of the root collects a batch
   that is new, and the root's loop ends when its interval is everybody. *)
THEOREM Refinement == Spec => ImplementsGather
<1>1. Init => GatherAtRoot!Init
  BY RelRankOfRoot DEF Init, GatherAtRoot!Init
<1>2. Inv /\ [Next]_vars => [GatherAtRoot!Next]_(GatherAtRoot!gather)
  <2> SUFFICES ASSUME Inv, [Next]_vars
               PROVE  \/ GatherAtRoot!Next
                      \/ UNCHANGED <<merged[Root], status[Root] = "done">>
    BY DEF GatherAtRoot!gather
  <2> USE RelRankOfRoot DEF Inv, TypeOK
  <2>1. ASSUME Receive(Root) PROVE GatherAtRoot!Next
    <3>1. PICK m \in net : /\ m.from = SourceRank(Root, mask[Root])
                           /\ m.to = Root
                           /\ merged' = [merged EXCEPT ![Root] = @ \cup m.merged]
      BY <2>1 DEF Receive
    <3>2. m.merged \cap merged[Root] = {} /\ m.merged # {} /\ m.merged \subseteq Proc
      BY <2>1, <3>1, ReceivedInterval DEF Receive, Message
    <3>3. m.merged \in SUBSET (Proc \ merged[Root])
      BY <3>2
    <3>4. GatherAtRoot!Collect(m.merged)
      BY <2>1, <3>1, <3>2 DEF Receive, Looping, GatherAtRoot!Collect
    <3>5. QED
      BY <3>3, <3>4 DEF GatherAtRoot!Next
  <2>2. ASSUME NEW p \in Proc, p # Root, Receive(p)
        PROVE  UNCHANGED <<merged[Root], status[Root] = "done">>
    BY <2>2 DEF Receive
  <2>3. ASSUME NEW p \in Proc, Skip(p)
        PROVE  UNCHANGED <<merged[Root], status[Root] = "done">>
    BY <2>3 DEF Skip
  <2>4. ASSUME NEW p \in Proc, Send(p)
        PROVE  UNCHANGED <<merged[Root], status[Root] = "done">>
    BY <2>4, SenderIsNotRoot DEF Send
  <2>5. ASSUME NEW p \in Proc, SendReturns(p)
        PROVE  UNCHANGED <<merged[Root], status[Root] = "done">>
    BY <2>5 DEF SendReturns, RootNeverSends
  <2>6. ASSUME NEW p \in Proc, LoopEnds(p) PROVE GatherAtRoot!Next
    <3>1. p = Root
      BY <2>6, OnlyRootRunsOut
    <3>2. merged[Root] = From(Root, mask[Root]) /\ mask[Root] >= N /\ mask[Root] \in Nat
      BY <2>6, <3>1 DEF LoopEnds, HoldsInterval
    <3>3. \A q \in Proc : RelRank(q) \in 0 .. N - 1
      BY Renumbering DEF Proc
    <3>4. merged[Root] = Proc
      <4>1. \A q \in Proc : RelRank(Root) <= RelRank(q)
                            /\ RelRank(q) < RelRank(Root) + mask[Root]
        BY <3>2, <3>3, TreeAssumption
      <4>2. QED
        BY <3>2, <4>1 DEF From
    <3>5. GatherAtRoot!Finish
      BY <2>6, <3>1, <3>4 DEF LoopEnds, GatherAtRoot!Finish
    <3>6. QED
      BY <3>5 DEF GatherAtRoot!Next
  <2>7. ASSUME UNCHANGED vars
        PROVE  UNCHANGED <<merged[Root], status[Root] = "done">>
    BY <2>7 DEF vars
  <2>8. QED
    BY <2>1, <2>2, <2>3, <2>4, <2>5, <2>6, <2>7 DEF Next, Step
<1>3. QED
  BY <1>1, <1>2, Invariance, PTL DEF Spec, SafeSpec, ImplementsGather, GatherAtRoot!Spec
==============================================================================
