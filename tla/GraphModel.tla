------------------------------ MODULE GraphModel ------------------------------
(***************************************************************************)
(* Class Graph_Adjacency: the root's graph of the merged Markov model, and *)
(* its compression before loops are looked for.  Two depth-first passes    *)
(* edit the maps they walk: the first removes the back edges of loops of   *)
(* two nodes, the second replaces chains of nodes by one edge.  Nodes in   *)
(* which processes wait (boundary nodes) are to be kept.                   *)
(***************************************************************************)
EXTENDS AnalysisData, Integers, FiniteSetsExt

VARIABLES
  nodeSourceMap,        \* of each source, its destinations with their annotations
  nodeDestMap,          \* of each destination, its sources
  boundaryNodes,
  adjacencyListSimple,  \* of each source, its destinations; what LoopAnalysis gets
  visited,              \* of the depth-first pass
  stack                 \* nodes it still has to visit, the next one last

maps == <<nodeSourceMap, nodeDestMap>>
graphVars == <<nodeSourceMap, nodeDestMap, boundaryNodes, adjacencyListSimple, visited, stack>>

Sources == DOMAIN nodeSourceMap
Successors(n) == DOMAIN Entry(nodeSourceMap, n, <<>>)
Predecessors(n) == Entry(nodeDestMap, n, {})
TheOnly(set) == CHOOSE x \in set : TRUE

Entrance == 1   \* the state with id 1; where loopAnalysis enters the graph

InitGraph ==
  /\ nodeSourceMap = <<>>
  /\ nodeDestMap = <<>>
  /\ boundaryNodes = {}
  /\ adjacencyListSimple = <<>>
  /\ visited = {}
  /\ stack = <<>>

(* addEdge, for each edge of a model. *)
AddEdges(edges) ==
  /\ nodeSourceMap' = [s \in {e[1] : e \in DOMAIN edges} |->
                         [d \in {e[2] : e \in {f \in DOMAIN edges : f[1] = s}} |-> edges[<<s, d>>]]]
  /\ nodeDestMap' = [d \in {e[2] : e \in DOMAIN edges} |-> {s \in DOMAIN nodeSourceMap' : <<s, d>> \in DOMAIN edges}]
  /\ adjacencyListSimple' = [s \in DOMAIN nodeSourceMap' |-> DOMAIN nodeSourceMap'[s]]
  /\ UNCHANGED <<boundaryNodes, visited, stack>>

AddBoundaryNodes(nodes) ==
  /\ boundaryNodes' = boundaryNodes \cup nodes
  /\ UNCHANGED <<maps, adjacencyListSimple, visited, stack>>

(* getIterationCountForEdgeAndProcess: the count under which proc is in the
   annotation of the edge, 0 if it is in none or there is no edge. *)
IterationCount(e, proc) ==
  LET tasks == IF e[2] \in Successors(e[1]) THEN nodeSourceMap[e[1]][e[2]].tasks ELSE NoTasks
      counts == {c \in DOMAIN tasks : proc \in tasks[c]}
  IN IF counts = {} THEN 0 ELSE Min(counts)

-----------------------------------------------------------------------------
(***************************************************************************)
(* compressGraph.                                                          *)
(***************************************************************************)

(* DFS: a pass starts at the smallest source there is. *)
StartPass(start) ==
  /\ visited' = {}
  /\ stack' = <<start>>
  /\ UNCHANGED <<maps, boundaryNodes, adjacencyListSimple>>

(* The small loop that begins at node: its only successor leads back to it and
   is reached from nowhere else.  Waiting processes are in neither of them. *)
IsSmallLoop(node) ==
  LET neighbor == TheOnly(Successors(node))
  IN /\ {node, neighbor} \cap boundaryNodes = {}
     /\ Cardinality(Predecessors(node)) = 2
     /\ Cardinality(Predecessors(neighbor)) = 1
     /\ node \in Successors(neighbor)
     /\ Cardinality(Successors(neighbor)) \in {1, 2}

(* MUTANT of EliminateSmallLoop: the edge into the loop keeps the annotation it
   had, which counts the rounds. *)
EliminateKeepingRounds(node) ==
  LET neighbor == TheOnly(Successors(node))
      others == Successors(neighbor) \ {node}
  IN /\ nodeSourceMap' = IF others = {} THEN Restrict(nodeSourceMap, Sources \ {neighbor})
                         ELSE [nodeSourceMap EXCEPT ![neighbor] = Restrict(@, others)]
     /\ nodeDestMap' = [nodeDestMap EXCEPT ![node] = @ \ {neighbor}]

(* eliminateSmallLoops: the edge back to node is removed, and the edge to the
   neighbor gets the annotation of the edge by which processes leave. *)
EliminateSmallLoop(node) ==
  LET neighbor == TheOnly(Successors(node))
      others == Successors(neighbor) \ {node}
  IN /\ nodeSourceMap' =
          IF others = {} THEN Restrict(nodeSourceMap, Sources \ {neighbor})
          ELSE [nodeSourceMap EXCEPT
                  ![node] = [d \in {neighbor} |-> nodeSourceMap[neighbor][TheOnly(others)]],
                  ![neighbor] = Restrict(@, others)]
     /\ nodeDestMap' = [nodeDestMap EXCEPT ![node] = @ \ {neighbor}]

(* MUTANT of InChain: nodes in which processes wait are compressed as well. *)
InChainThoughWaiting(n) ==
  /\ n \in Sources
  /\ Cardinality(Successors(n)) = 1
  /\ Cardinality(Predecessors(n)) <= 1

(* A node a chain may run through. *)
InChain(n) ==
  /\ n \in Sources
  /\ n \notin boundaryNodes
  /\ Cardinality(Successors(n)) = 1
  /\ Cardinality(Predecessors(n)) <= 1

(* Where a chain goes from n. *)
Onward(n) == IF InChain(n) THEN TheOnly(Successors(n)) ELSE n

(* followChainInGraph: the nodes the chain from node runs through, and the node
   where it ends, one that is visited or is not to be compressed. *)
Chain(node, seen) ==
  LET at[k \in Nat] == IF k = 0 THEN node ELSE Onward(at[k - 1])
      ends == {k \in 0 .. Cardinality(Sources) : ~InChain(at[k]) \/ (k > 0 /\ at[k] \in seen)}
  IN [end |-> at[Min(ends)], traversed |-> {at[k] : k \in 0 .. Min(ends) - 1}]

(* The chain from node becomes one edge, annotated like the edge out of the
   traversed node with the largest id (doCompressionAndClean); nodeDestMap is
   left alone. *)
CompressChain(node, chain) ==
  LET rest == Restrict(nodeSourceMap, Sources \ chain.traversed)
      last == Max(chain.traversed)
      annotation == nodeSourceMap[last][TheOnly(Successors(last))]
  IN /\ nodeSourceMap' = IF chain.end = node THEN rest
                         ELSE Put(rest, node, [d \in {chain.end} |-> annotation])
     /\ UNCHANGED nodeDestMap

(* Nodes are visited in the order of their ids: the smallest is pushed last. *)
Push(nodes) == stack' = Front(stack) \o Reverse(InOrder(nodes, <))

(* DFSUtil at the next node, in the pass for loops or that for chains.  A node
   with several successors is left alone. *)
Visit(followChain) ==
  LET node == Last(stack)
      seen == visited \cup {node}
      chain == Chain(node, seen)
  IN /\ stack # <<>>
     /\ visited' = seen
     /\ IF node \in visited \/ Cardinality(Successors(node)) # 1
          THEN /\ UNCHANGED maps
               /\ Push(IF node \in visited THEN {} ELSE Successors(node))
        ELSE IF followChain
          THEN /\ CompressChain(node, chain)
               /\ Push({IF chain.end # node THEN chain.end ELSE TheOnly(Successors(node))})
        ELSE /\ IF IsSmallLoop(node) THEN EliminateSmallLoop(node) ELSE UNCHANGED maps
             /\ Push(Successors(node))
     /\ UNCHANGED <<boundaryNodes, adjacencyListSimple>>

(* MUTANT of RebuildAdjacency: the list is not cleared before. *)
RebuildUncleared ==
  /\ adjacencyListSimple' = [s \in DOMAIN adjacencyListSimple \cup Sources |->
                               IF s \in Sources THEN Successors(s) ELSE adjacencyListSimple[s]]
  /\ UNCHANGED <<maps, boundaryNodes, visited, stack>>

(* The end of compressGraph. *)
RebuildAdjacency ==
  /\ adjacencyListSimple' = [s \in Sources |-> Successors(s)]
  /\ UNCHANGED <<maps, boundaryNodes, visited, stack>>
==============================================================================
