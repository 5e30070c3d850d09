------------------------------ MODULE Compression ------------------------------
(***************************************************************************)
(* What the root does with its graph in gatheredLPTAlgorithm: the edges of *)
(* the merged Markov model and the boundary nodes are added, and           *)
(* compressGraph walks the graph twice, one node per step.                 *)
(*                                                                         *)
(* The model is the sum of the walks the processes took through the        *)
(* states; what its edges say of the walks, the graph has to go on saying. *)
(***************************************************************************)
EXTENDS GraphModel

VARIABLES
  walks,          \* the states each process has been in, by the root's ids
  doNotCompress,  \* AUT_DO_NOT_COMPRESS
  model,          \* mm at the root after the reduction of edges
  vector,         \* reducedStateVector.vec
  phase

merged == <<walks, doNotCompress, model, vector>>

Ranks == DOMAIN walks
LastStates == {Last(walks[p]) : p \in Ranks}

(* The first state, that of afterInit, is created once: a call path through
   MPI_Init is none through another MPI call. *)
IsWalk(walk) ==
  /\ walk \in Seq(Nat)
  /\ Len(walk) >= 2
  /\ \A k \in DOMAIN walk : walk[k] = Entrance <=> k = 1

(* How often a walk takes an edge, and what the reduction makes of them all. *)
Times(walk, e) == Cardinality({k \in 1 .. Len(walk) - 1 : <<walk[k], walk[k + 1]>> = e})

Summed ==
  [e \in UNION {{<<walks[p][k], walks[p][k + 1]>> : k \in 1 .. Len(walks[p]) - 1} : p \in Ranks} |->
     [count |-> MapThenSumSet(LAMBDA p : Times(walks[p], e), Ranks),
      tasks |-> [c \in {Times(walks[p], e) : p \in Ranks} \ {0} |-> {p \in Ranks : Times(walks[p], e) = c}]]]

MergedFromWalks ==
  /\ IsFiniteSet(Ranks) /\ Ranks # {}
  /\ \A p \in Ranks : IsWalk(walks[p])
  /\ model = Summed
  /\ ToSet(vector) = LastStates

GraphInit ==
  /\ MergedFromWalks
  /\ doNotCompress \in BOOLEAN
  /\ phase = "graph"
  /\ InitGraph

At(here, next) == phase = here /\ phase' = next

-----------------------------------------------------------------------------
(* The graph gets the edges of the merged model, *)
BuildGraph ==
  /\ At("graph", "boundary")
  /\ AddEdges(model)
  /\ UNCHANGED merged

(* the last states as boundary nodes, *)
MarkBoundary ==
  /\ At("boundary", IF doNotCompress THEN "populate" ELSE "compress")
  /\ AddBoundaryNodes(ToSet(vector))
  /\ UNCHANGED merged

(* and is compressed in two passes. *)
Compress ==
  /\ \/ At("compress", "loopPass") /\ StartPass(Min(DOMAIN adjacencyListSimple))
     \/ phase = "loopPass" /\ Visit(FALSE) /\ UNCHANGED phase
     \/ stack = <<>> /\ At("loopPass", "chainPass") /\ StartPass(Min(DOMAIN adjacencyListSimple))
     \/ phase = "chainPass" /\ Visit(TRUE) /\ UNCHANGED phase
     \/ stack = <<>> /\ At("chainPass", "populate") /\ RebuildAdjacency
  /\ UNCHANGED merged

(* From then on it is only read. *)
ReadGraph ==
  /\ phase \notin {"graph", "boundary", "compress", "loopPass", "chainPass"}
  /\ phase' \in {"matrix", "endless", "done"}
  /\ UNCHANGED <<merged, graphVars>>

GraphNext ==
  \/ BuildGraph
  \/ MarkBoundary
  \/ Compress
  \/ ReadGraph

GraphSpec == GraphInit /\ [][GraphNext]_<<merged, phase, graphVars>>

-----------------------------------------------------------------------------
(* The merged model as a graph. *)
Leads == [s \in {e[1] : e \in DOMAIN model} |-> {d \in {e[2] : e \in DOMAIN model} : <<s, d>> \in DOMAIN model}]
Known == DOMAIN Leads \cup UNION {Leads[s] : s \in DOMAIN Leads}

Compressing == phase \in {"loopPass", "chainPass"}

(* Types.  The simple adjacency list, from which loops are found, is that of
   the graph except while it is compressed. *)
GraphTypeOK ==
  /\ phase \in {"graph", "boundary", "compress", "loopPass", "chainPass", "populate", "matrix",
                "endless", "done"}
  /\ Sources \subseteq Known
  /\ \A s \in Sources : /\ Successors(s) # {} /\ Successors(s) \subseteq Known
                        /\ \A d \in Successors(s) : \E e \in DOMAIN model : nodeSourceMap[s][d] = model[e]
  /\ ~Compressing => adjacencyListSimple = [s \in Sources |-> Successors(s)]
  /\ boundaryNodes = IF phase \in {"graph", "boundary"} THEN {} ELSE LastStates

Flow(edges, p) == MapThenSumSet(LAMBDA e : IterationCount(e, p), edges)
GraphEdges == {e \in Sources \X Known : e[2] \in Successors(e[1])}

(* Compression leaves the counts of rounds usable: at a node where nobody
   waits, every process has left as often as it has come, by the annotations of
   the edges that remain, although annotations are moved from one edge to
   another and nodeDestMap is not kept up to date. *)
FlowConserved ==
  Compressing \/ phase = "populate" =>
    \A n \in Known \ (LastStates \cup {Entrance}) : \A p \in Ranks :
      Flow({e \in GraphEdges : e[2] = n}, p) = Flow({e \in GraphEdges : e[1] = n}, p)

(* There is a way of one edge or more from s to d: d is in every set of states
   that has what follows s, and what follows each of its states. *)
LeadsTo(next, s, d) ==
  \A set \in SUBSET Known :
    (\A n \in set \cup {s} : Entry(next, n, {}) \subseteq set) => d \in set

(* Compression neither adds nor removes a way between states in which processes
   wait, nor from the first state to them. *)
ReachabilityKept ==
  phase = "populate" =>
    \A s \in LastStates \cup {Entrance}, d \in LastStates :
      LeadsTo(Leads, s, d) <=> LeadsTo(adjacencyListSimple, s, d)
==============================================================================
