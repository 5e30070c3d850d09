--------------------------- MODULE GatheredAnalysis ---------------------------
(***************************************************************************)
(* The distributed part of AnalysisDriver::gatheredLPTAlgorithm: how the   *)
(* helper threads of all processes bring the last states, the Markov       *)
(* models and the table of task ranges to the root.  One gather, then      *)
(* three reductions along the same tree, a broadcast between the first two *)
(* and a barrier at the end.  The reductions use one communicator and one  *)
(* tag, and there is no barrier between them: a process may be in its last *)
(* reduction while its parent is still in the first.                       *)
(*                                                                         *)
(* A message is two MPI messages: the size of a buffer, then the buffer.   *)
(* MPI keeps the messages from one process to another in order and matches *)
(* a receive with the oldest one.                                          *)
(***************************************************************************)
EXTENDS BinomialTree, AnalysisData, FiniteSets, FiniteSetsExt

CONSTANTS Trails,     \* what the processes may have recorded before the hang
          LateNames,  \* call paths the application may record afterwards
          LateBudget  \* bound: transitions recorded during the analysis

ASSUME AnalysisAssumption ==
  /\ Root = 0   \* every caller of reduce() passes root 0
  /\ \A trail \in Trails : trail \in [Proc -> Seq(Nat)] /\ \A p \in Proc : trail[p] # <<>>
  /\ LateNames \subseteq Nat
  /\ LateBudget \in Nat

VARIABLES
  noBarrier,  \* AUT_NO_BARRIER
  data,       \* factory, model, current and last state of each process
  late,       \* transitions recorded during the analysis
  phase,      \* the operation the helper thread of each process is in
  fault,      \* why its process called handleError or MPI_Abort, or "none"
  mask,       \* loop variable of the current or last reduce()
  io,         \* in reduce(): "loop", inside receive or inside send
  sized,      \* factory entries packed_size counted for the current send
  arrived,    \* processes that entered the gather
  atBarrier,  \* processes that entered the barrier
  lastState,  \* the local lastState of gatheredLPTAlgorithm
  lastNames,  \* StateReduction::lastStates
  cast,       \* what the root broadcast, <<>> before
  vector,     \* ReducedStateVector of each process
  edges,      \* EdgeReduction::edges of each process
  table,      \* RangeSetTable::table of each process
  chan,       \* messages from one process to another, oldest first
  copied      \* history: the edges each process put into the reduction

local == <<data, late, lastState, lastNames, vector, edges, table, copied>>
collective == <<arrived, atBarrier, cast>>
loop == <<mask, io, sized, chan>>
vars == <<noBarrier, data, late, phase, fault, mask, io, sized, arrived, atBarrier,
          lastState, lastNames, cast, vector, edges, table, chan, copied>>

Reductions == {"states", "edges", "table"}

NoEdges == <<>>

Init ==
  /\ noBarrier \in BOOLEAN
  /\ \E trail \in Trails : data = [p \in Proc |-> AfterTrail(trail[p])]
  /\ late = 0
  /\ phase = [p \in Proc |-> "gather"]
  /\ fault = [p \in Proc |-> "none"]
  /\ mask = [p \in Proc |-> 1]
  /\ io = [p \in Proc |-> "loop"]
  /\ sized = [p \in Proc |-> 0]
  /\ arrived = {}
  /\ atBarrier = {}
  /\ lastState = [p \in Proc |-> NoId]
  /\ lastNames = [p \in Proc |-> {}]
  /\ cast = <<>>
  /\ vector = [p \in Proc |-> [states |-> <<>>, index |-> 0]]
  /\ edges = [p \in Proc |-> NoEdges]
  /\ table = [p \in Proc |-> <<>>]
  /\ chan = [pair \in Proc \X Proc |-> <<>>]
  /\ copied = [p \in Proc |-> NoEdges]

In(p, operation) == phase[p] = operation /\ fault[p] = "none"
GoTo(p, operation) == phase' = [phase EXCEPT ![p] = operation]

-----------------------------------------------------------------------------
(* The application thread of a process that hangs less than it seemed. *)
RecordLate(p) ==
  /\ phase[p] # "done"
  /\ fault[p] = "none"
  /\ late < LateBudget
  /\ late' = late + 1
  /\ \E n \in LateNames : data' = [data EXCEPT ![p] = Recorded(@, n)]
  /\ UNCHANGED <<noBarrier, phase, fault, lastState, lastNames, vector, edges, table, copied,
                 collective, loop>>

-----------------------------------------------------------------------------
(***************************************************************************)
(* Before the reductions.                                                  *)
(***************************************************************************)

(* printTaskAndProcessIDMap: MPI_Gather, in which only its root has to wait. *)
LeaveGather(p) ==
  /\ In(p, "gather")
  /\ p = Root => arrived = Proc \ {Root}
  /\ arrived' = arrived \cup {p}
  /\ GoTo(p, "lastState")
  /\ UNCHANGED <<noBarrier, fault, local, atBarrier, cast, loop>>

GetLastState(p) ==
  /\ In(p, "lastState")
  /\ lastState' = [lastState EXCEPT ![p] = data[p].last]
  /\ GoTo(p, "annotate")
  /\ UNCHANGED <<noBarrier, data, late, fault, lastNames, vector, edges, table, copied,
                 collective, loop>>

(* updateEdgeTransitionCountTaskMap, then the start of getLastStates: a
   process without a transition has no last state, and gives up here. *)
Annotate(p) ==
  /\ In(p, "annotate")
  /\ data' = [data EXCEPT ![p].edges = Annotated(@, p)]
  /\ IF lastState[p] = NoId
       THEN /\ fault' = [fault EXCEPT ![p] = "last state unknown"]
            /\ UNCHANGED <<phase, lastNames>>
       ELSE /\ lastNames' = [lastNames EXCEPT ![p] = {data[p].names[lastState[p]]}]
            /\ GoTo(p, "states")
            /\ UNCHANGED fault
  /\ UNCHANGED <<noBarrier, late, lastState, vector, edges, table, copied, collective, loop>>

-----------------------------------------------------------------------------
(***************************************************************************)
(* reduce(), in the three phases that call it.                             *)
(***************************************************************************)
Reducing(p) == phase[p] \in Reductions /\ fault[p] = "none"
Looping(p) == Reducing(p) /\ io[p] = "loop" /\ mask[p] < N
Receives(p) == Looping(p) /\ ~BitSet(RelRank(p), mask[p])

After(operation) ==
  CASE operation = "states" -> "bcast"
    [] operation = "edges" -> "newTable"
    [] operation = "table" -> "barrier"

(* Channels of the tree's edge at p's current level. *)
Incoming(p) == <<SourceRank(p, mask[p]), p>>
Outgoing(p) == <<p, DestinationRank(p, mask[p])>>

Skip(p) ==
  /\ Receives(p)
  /\ Source(p, mask[p]) >= N
  /\ mask' = [mask EXCEPT ![p] = 2 * @]
  /\ UNCHANGED <<noBarrier, phase, fault, local, collective, io, sized, chan>>

ReceiveSize(p) ==
  /\ Receives(p)
  /\ Source(p, mask[p]) < N
  /\ chan[Incoming(p)] # <<>>
  /\ chan' = [chan EXCEPT ![Incoming(p)] = Tail(@)]
  /\ io' = [io EXCEPT ![p] = "receiving"]
  /\ UNCHANGED <<noBarrier, phase, fault, local, collective, mask, sized>>

(* StateReduction::updateLocalData: the factory learns the names too. *)
AddLastNames(p, names) ==
  /\ data' = [data EXCEPT ![p].names = InternAll(@, InOrder(names, <))]
  /\ lastNames' = [lastNames EXCEPT ![p] = @ \cup names]
  /\ UNCHANGED <<fault, edges, table>>

AddEdges(p, remote) ==
  LET own == [names |-> data[p].names, edges |-> edges[p]]
      all == Merged(own, remote)
  IN /\ fault' = [fault EXCEPT ![p] = IF MergeOverlaps(own, remote) THEN "overlap" ELSE @]
     /\ edges' = [edges EXCEPT ![p] = all.edges]
     /\ data' = [data EXCEPT ![p].names = all.names]
     /\ UNCHANGED <<lastNames, table>>

AddRanks(p, remote) ==
  /\ fault' = [fault EXCEPT ![p] = IF TableOverlaps(table[p], remote) THEN "overlap" ELSE @]
  /\ table' = [table EXCEPT ![p] = MergedTable(@, remote)]
  /\ UNCHANGED <<data, lastNames, edges>>

ReceiveData(p) ==
  /\ Reducing(p)
  /\ io[p] = "receiving"
  /\ chan[Incoming(p)] # <<>>
  /\ LET body == Head(chan[Incoming(p)]).body
     IN CASE phase[p] = "states" -> AddLastNames(p, body)
          [] phase[p] = "edges" -> AddEdges(p, body)
          [] phase[p] = "table" -> AddRanks(p, body)
  /\ chan' = [chan EXCEPT ![Incoming(p)] = Tail(@)]
  /\ io' = [io EXCEPT ![p] = "loop"]
  /\ mask' = [mask EXCEPT ![p] = 2 * @]
  /\ UNCHANGED <<noBarrier, late, phase, lastState, vector, copied, collective, sized>>

(* MUTANT of SendSize: the size is computed and not sent. *)
SizeNotSent(p) ==
  /\ Looping(p)
  /\ BitSet(RelRank(p), mask[p])
  /\ sized' = [sized EXCEPT ![p] = Len(data[p].names)]
  /\ io' = [io EXCEPT ![p] = "sized"]
  /\ UNCHANGED <<noBarrier, phase, fault, local, collective, mask, chan>>

(* packed_size; its result is sent ahead. *)
SendSize(p) ==
  /\ Looping(p)
  /\ BitSet(RelRank(p), mask[p])
  /\ chan' = [chan EXCEPT ![Outgoing(p)] =
                Append(@, [phase |-> phase[p], kind |-> "size", body |-> {}])]
  /\ sized' = [sized EXCEPT ![p] = Len(data[p].names)]
  /\ io' = [io EXCEPT ![p] = "sized"]
  /\ UNCHANGED <<noBarrier, phase, fault, local, collective, mask>>

Body(p) ==
  CASE phase[p] = "states" -> lastNames[p]
    [] phase[p] = "edges" -> [names |-> data[p].names, edges |-> edges[p]]
    [] phase[p] = "table" -> table[p]

(* pack, into a buffer of the size computed before: a factory that has grown
   since does not fit, and MPI_Pack aborts. *)
SendData(p) ==
  /\ Reducing(p)
  /\ io[p] = "sized"
  /\ IF phase[p] = "edges" /\ Len(data[p].names) > sized[p]
       THEN /\ fault' = [fault EXCEPT ![p] = "buffer too small"]
            /\ UNCHANGED <<chan, io>>
       ELSE /\ chan' = [chan EXCEPT ![Outgoing(p)] =
                          Append(@, [phase |-> phase[p], kind |-> "data", body |-> Body(p)])]
            /\ io' = [io EXCEPT ![p] = "sent"]
            /\ UNCHANGED fault
  /\ UNCHANGED <<noBarrier, phase, local, collective, mask, sized>>

SendReturns(p) ==
  /\ Reducing(p)
  /\ io[p] = "sent"
  /\ io' = [io EXCEPT ![p] = "loop"]
  /\ GoTo(p, After(phase[p]))
  /\ UNCHANGED <<noBarrier, fault, local, collective, mask, sized, chan>>

LoopEnds(p) ==
  /\ Reducing(p)
  /\ io[p] = "loop"
  /\ mask[p] >= N
  /\ GoTo(p, After(phase[p]))
  /\ UNCHANGED <<noBarrier, fault, local, collective, loop>>

-----------------------------------------------------------------------------
(***************************************************************************)
(* Between the reductions.                                                 *)
(***************************************************************************)

(* MUTANT of Ordered: the vector keeps the order of the ids. *)
OrderedById(names, list) ==
  InOrder({IdOf(names, n) : n \in ToSet(list)}, <)

(* getLastStatesOrdered: the states in the order of their names. *)
Ordered(names, list) ==
  [i \in DOMAIN list |-> IdOf(names, InOrder(ToSet(list), <)[i])]

TakeList(p, list) ==
  LET names == InternAll(data[p].names, list)
      states == Ordered(names, list)
  IN /\ data' = [data EXCEPT ![p].names = names]
     /\ \E i \in DOMAIN states :
          /\ states[i] = lastState[p]
          /\ vector' = [vector EXCEPT ![p] = [states |-> states, index |-> i]]
     /\ GoTo(p, "copy")

(* broadcastListOfStates at the root, which does not wait for the others. *)
Broadcast ==
  /\ In(Root, "bcast")
  /\ cast' = InOrder(lastNames[Root], <)
  /\ TakeList(Root, cast')
  /\ UNCHANGED <<noBarrier, late, fault, lastState, lastNames, edges, table, copied,
                 arrived, atBarrier, loop>>

ReceiveBroadcast(p) ==
  /\ p # Root
  /\ In(p, "bcast")
  /\ cast # <<>>
  /\ TakeList(p, cast)
  /\ UNCHANGED <<noBarrier, late, fault, lastState, lastNames, edges, table, copied,
                 collective, loop>>

(* EdgeReduction::reduce copies the edges of the Markov model. *)
CopyEdges(p) ==
  /\ In(p, "copy")
  /\ edges' = [edges EXCEPT ![p] = data[p].edges]
  /\ copied' = [copied EXCEPT ![p] = data[p].edges]
  /\ mask' = [mask EXCEPT ![p] = 1]
  /\ GoTo(p, "edges")
  /\ UNCHANGED <<noBarrier, data, late, fault, lastState, lastNames, vector, table,
                 collective, io, sized, chan>>

(* MUTANT of NewTable: the loop variable keeps its value of the last reduce. *)
NewTableOldMask(p) ==
  /\ In(p, "newTable")
  /\ table' = [table EXCEPT ![p] = [i \in {vector[p].index} |-> {p}]]
  /\ GoTo(p, "table")
  /\ UNCHANGED <<noBarrier, data, late, fault, lastState, lastNames, vector, edges, copied,
                 collective, mask, io, sized, chan>>

(* RangeSetTable(mpiState, numStates, lastStateIndex) *)
NewTable(p) ==
  /\ In(p, "newTable")
  /\ table' = [table EXCEPT ![p] = [i \in {vector[p].index} |-> {p}]]
  /\ mask' = [mask EXCEPT ![p] = 1]
  /\ GoTo(p, "table")
  /\ UNCHANGED <<noBarrier, data, late, fault, lastState, lastNames, vector, edges, copied,
                 collective, io, sized, chan>>

EnterBarrier(p) ==
  /\ In(p, "barrier")
  /\ ~noBarrier
  /\ p \notin atBarrier
  /\ atBarrier' = atBarrier \cup {p}
  /\ UNCHANGED <<noBarrier, phase, fault, local, arrived, cast, loop>>

(* The distributed part is over; the root goes on alone. *)
LeaveBarrier(p) ==
  /\ In(p, "barrier")
  /\ noBarrier \/ atBarrier = Proc
  /\ GoTo(p, "done")
  /\ UNCHANGED <<noBarrier, fault, local, collective, loop>>

-----------------------------------------------------------------------------
Reduce(p) ==
  \/ Skip(p)
  \/ ReceiveSize(p)
  \/ ReceiveData(p)
  \/ SendSize(p)
  \/ LoopEnds(p)

Advance(p) ==
  \/ LeaveGather(p)
  \/ GetLastState(p)
  \/ Annotate(p)
  \/ ReceiveBroadcast(p)
  \/ CopyEdges(p)
  \/ NewTable(p)
  \/ EnterBarrier(p)
  \/ LeaveBarrier(p)

(* MPI_Send returns before or after the message is received. *)
Sent(p) == chan[Outgoing(p)] = <<>>
SendStep(p) == SendData(p) \/ SendReturns(p)

Next ==
  \/ \E p \in Proc : RecordLate(p) \/ Advance(p) \/ Reduce(p) \/ SendStep(p)
  \/ Broadcast

(* Helper threads run; a send is only sure to go on once it is received. *)
Fairness ==
  /\ \A p \in Proc : /\ WF_vars(Advance(p))
                     /\ WF_vars(Reduce(p))
                     /\ WF_vars(Sent(p) /\ SendStep(p))
  /\ WF_vars(Broadcast)

SafeSpec == Init /\ [][Next]_vars
Spec == SafeSpec /\ Fairness

-----------------------------------------------------------------------------
Message == [phase : Reductions, kind : {"size", "data"}]

(* Types of the variables; an edge, a state or a table entry only mentions
   ids and indices that exist. *)
Annotations(p) ==
  \A e \in DOMAIN edges[p] :
    /\ e \in (DOMAIN data[p].names) \X (DOMAIN data[p].names)
    /\ edges[p][e].count \in Nat
    /\ \A c \in DOMAIN edges[p][e].tasks : edges[p][e].tasks[c] \subseteq Proc
TypeOK ==
  /\ noBarrier \in BOOLEAN
  /\ late \in 0 .. LateBudget
  /\ phase \in [Proc -> {"gather", "lastState", "annotate", "bcast", "copy", "newTable",
                         "barrier", "done"} \cup Reductions]
  /\ fault \in [Proc -> {"none", "last state unknown", "buffer too small", "overlap"}]
  /\ io \in [Proc -> {"loop", "receiving", "sized", "sent"}]
  /\ arrived \subseteq Proc /\ atBarrier \subseteq Proc
  /\ \A p \in Proc :
       /\ mask[p] \in 1 .. 2 * N
       /\ lastState[p] \in {NoId} \cup DOMAIN data[p].names
       /\ Annotations(p)
       /\ ToSet(vector[p].states) \subseteq DOMAIN data[p].names
       /\ DOMAIN table[p] \subseteq DOMAIN vector[p].states
       /\ \A i \in DOMAIN table[p] : table[p][i] \subseteq Proc
  /\ \A pair \in Proc \X Proc : \A k \in DOMAIN chan[pair] :
       [phase |-> chan[pair][k].phase, kind |-> chan[pair][k].kind] \in Message

(* The three reductions share a communicator and a tag and run one after the
   other without a barrier: even so, the message a process is about to receive
   is always the one its phase expects, size before data. *)
PhasesMatch ==
  \A p \in Proc : (Receives(p) \/ io[p] = "receiving") =>
    LET pair == Incoming(p)
    IN pair \in DOMAIN chan /\ chan[pair] # <<>> =>
         /\ Head(chan[pair]).phase = phase[p]
         /\ Head(chan[pair]).kind = IF io[p] = "receiving" THEN "data" ELSE "size"

NameOf(p, s) == data[p].names[s]
LastName(p) == NameOf(p, lastState[p])

(* Processes number states in different orders, and agree on the vector of
   last states all the same: place i of the vector is the same state
   everywhere, and a process's own index is the place of its own last state.
   The table of ranks is indexed by it. *)
SameVectorEverywhere ==
  \A p, q \in Proc : vector[p].index # 0 /\ vector[q].index # 0 =>
    /\ [i \in DOMAIN vector[p].states |-> NameOf(p, vector[p].states[i])]
       = [i \in DOMAIN vector[q].states |-> NameOf(q, vector[q].states[i])]
    /\ NameOf(p, vector[p].states[vector[p].index]) = LastName(p)

RootHasAll == phase[Root] \in {"barrier", "done"}

(* When the root goes on to analyse, its table says of every last state which
   ranks are in it: each rank in the one it was in when the analysis began,
   whatever its application did since, and in no other. *)
TableIsPartition ==
  RootHasAll =>
    \A i \in DOMAIN vector[Root].states :
      Entry(table[Root], i, {})
        = {p \in Proc : LastName(p) = NameOf(Root, vector[Root].states[i])}

(* The edge of process p between two names, in a set of edges of p. *)
EdgeOf(p, set, src, dst) ==
  Entry(set, <<IdOf(data[p].names, src), IdOf(data[p].names, dst)>>,
        [count |-> 0, tasks |-> NoTasks])

(* The root's edges are the sum of those of all processes, state names being
   what identifies an edge: counts add up, and a rank is listed under a count
   exactly when it took the edge that often. *)
EdgesSummed ==
  RootHasAll =>
    \A src, dst \in ToSet(data[Root].names) :
      LET all == EdgeOf(Root, edges[Root], src, dst)
          own == [p \in Proc |-> EdgeOf(p, copied[p], src, dst)]
      IN /\ all.count = SumFunctionOnSet([p \in Proc |-> own[p].count], Proc)
         /\ \A c \in 1 .. all.count :
              Entry(all.tasks, c, {})
                = {p \in Proc : p \in Entry(own[p].tasks, c, {})}

(* No RangeSet ever meets a rank it holds already: RangeSet::operator+= never
   takes the process down in the middle of a reduction. *)
RangeSetsNeverOverlap == \A p \in Proc : fault[p] # "overlap"

(* Unless some process gives up, all of them get through the analysis. *)
AnalysisEnds ==
  <>(\/ \E p \in Proc : fault[p] # "none"
     \/ \A p \in Proc : phase[p] = "done")

(* The last reduction, run by processes that come to it one by one with
   messages of the earlier ones still on their way, is the tree reduction. *)
Before(p) == phase[p] \notin {"table", "barrier", "done"}
Ranks(rows) == UNION {rows[i] : i \in DOMAIN rows}
tableMask == [p \in Proc |-> IF Before(p) THEN 1 ELSE mask[p]]
tableStatus ==
  [p \in Proc |-> IF Before(p) \/ (phase[p] = "table" /\ io[p] # "sent") THEN "looping"
                  ELSE IF phase[p] = "table" THEN "sending" ELSE "done"]
tableMerged ==
  [p \in Proc |-> IF Before(p) THEN {p} ELSE Ranks(table[p])]
TableData(pair) ==
  {k \in DOMAIN chan[pair] : chan[pair][k].phase = "table" /\ chan[pair][k].kind = "data"}
tableNet ==
  UNION {{[from |-> pair[1], to |-> pair[2], merged |-> Ranks(chan[pair][k].body)] :
            k \in TableData(pair)} : pair \in DOMAIN chan}
TableReduction ==
  INSTANCE BinomialReducer
    WITH mask <- tableMask, status <- tableStatus, merged <- tableMerged, net <- tableNet
ImplementsTreeReduction == TableReduction!SafeSpec
==============================================================================
