----------------------------- MODULE LoopAnalysis -----------------------------
(***************************************************************************)
(* Class loopAnalysis: finds the loops of the root's graph, and answers    *)
(* which of them two states share, in which order they are to be compared, *)
(* and how many hops a state is from the entry of a loop.                  *)
(*                                                                         *)
(* A loop is a list of nodes whose first and last node is its entry; the   *)
(* code knows it by a hash of the list and keeps sets of hashes in order.  *)
(* That order is left open, and different loops have different hashes.     *)
(***************************************************************************)
EXTENDS GraphModel

CONSTANT CircuitLimit   \* calls of circuit() for one start node; 500 in the code

VARIABLES
  loops,          \* the loops, in the order of their hashes
  characteristic  \* backEdgeCharecteristicEdgeMap

loopVars == <<loops, characteristic>>

InitLoops ==
  /\ loops = <<>>
  /\ characteristic = <<>>

-----------------------------------------------------------------------------
(***************************************************************************)
(* findAllLoopsWithBoost.                                                  *)
(***************************************************************************)
Adjacent(n) == Entry(adjacencyListSimple, n, {})

(* createBoostGraph: the vertices in the order in which addVertex meets them. *)
Vertices ==
  InternAll(<<>>, FlattenSeq([k \in 1 .. Cardinality(DOMAIN adjacencyListSimple) |->
    LET source == InOrder(DOMAIN adjacencyListSimple, <)[k]
    IN <<source>> \o InOrder(Adjacent(source), <)]))

(* What a set of nodes reaches within a set, by the successors next gives. *)
RECURSIVE Reach(_, _, _)
Reach(next, nodes, within) ==
  LET more == nodes \cup (UNION {Entry(next, n, {}) : n \in nodes} \cap within)
  IN IF more = nodes THEN nodes ELSE Reach(next, more, within)

(* The strict dominators of n: on every way from the entrance to n. *)
Dominators(n) ==
  LET all == ToSet(Vertices)
  IN IF n \notin Reach(adjacencyListSimple, {Entrance}, all) THEN {}
     ELSE {d \in all \ {n} : d = Entrance \/ n \notin Reach(adjacencyListSimple, {Entrance}, all \ {d})}

(* getAllBackEdges: the edges whose destination dominates their source, which
   an edge from a state to itself does not. *)
BackEdges ==
  {e \in (DOMAIN adjacencyListSimple) \X ToSet(Vertices) :
     e[2] \in Adjacent(e[1]) /\ e[2] \in Dominators(e[1])}

(* The sources of the in-edges of v, in the order of boost's descriptors. *)
Incoming(v) ==
  SelectSeq(Vertices, LAMBDA u : u \in DOMAIN adjacencyListSimple /\ v \in Adjacent(u))

(* insertInLoop for each of a list of nodes, on the list of the loop. *)
Inserted(list, nodes) == InternAll(list, nodes)

(* The walk of findNaturalLoops with its stack. *)
RECURSIVE Gathered(_, _)
Gathered(list, walk) ==
  IF walk = <<>> THEN list
  ELSE LET longer == Inserted(list, Incoming(Last(walk)))
       IN Gathered(longer, Front(walk) \o SubSeq(longer, Len(list) + 1, Len(longer)))

(* findNaturalLoops: the head of the back edge at both ends, its source last
   but one. *)
NaturalLoop(e) ==
  Reverse(Gathered(Inserted(<<e[2]>>, <<e[1]>>), <<e[1]>>) \o <<e[2]>>)

-----------------------------------------------------------------------------
(***************************************************************************)
(* findAllLoops: Johnson's algorithm.                                      *)
(***************************************************************************)

(* getSubgraph: the edges between nodes of a set. *)
Subgraph(nodes) ==
  LET sources == {s \in DOMAIN adjacencyListSimple \cap nodes : Adjacent(s) \cap nodes # {}}
  IN [s \in sources |-> Adjacent(s) \cap nodes]

(* getSCCFromGraph: components of more than one node that are strongly
   connected in the subgraph of these nodes. *)
Components(nodes) ==
  {c \in {{m \in Reach(adjacencyListSimple, {n}, nodes) : n \in Reach(adjacencyListSimple, {m}, nodes)} : n \in nodes} : Cardinality(c) > 1}

(* unblock, on the record of a search: n, and what was put off because of n. *)
RECURSIVE Unblocked(_, _)
Unblocked(search, n) ==
  IF n \notin search.blocked THEN search
  ELSE FoldLeft(Unblocked,
                [search EXCEPT !.blocked = @ \ {n}, !.B = [@ EXCEPT ![n] = {}]],
                SetToSeq(search.B[n]))

(* MUTANT of Closed: a node stays blocked after a circuit. *)
ClosedStaysBlocked(search, n, component) == search

(* What circuit does before it returns: n is unblocked, or waits for one of its
   successors to be. *)
Closed(search, n, component) ==
  IF search.closed THEN Unblocked(search, n)
  ELSE [search EXCEPT !.B = [m \in DOMAIN @ |-> IF m \in component[n] THEN @[m] \cup {n} ELSE @[m]]]

(* circuit from path's last node: search holds the blocked nodes, B, the
   number of calls and the circuits found. *)
RECURSIVE Circuit(_, _, _)
Circuit(search, path, component) ==
  LET n == Last(path)
      Step(s, next) ==
        IF next = Head(path)
          THEN [s EXCEPT !.closed = TRUE, !.found = @ \cup {Append(path, next)}]
        ELSE IF next \in s.blocked \/ s.calls >= CircuitLimit THEN s
        ELSE LET deeper == Circuit(s, Append(path, next), component)
             IN [deeper EXCEPT !.closed = @ \/ s.closed]
      begun == [search EXCEPT !.calls = @ + 1, !.blocked = @ \cup {n}, !.closed = FALSE]
  IN Closed(FoldLeft(Step, begun, InOrder(component[n], <)), n, component)

(* One start: the component with the least node, among the nodes that are not
   less than s. *)
CircuitsFrom(s) ==
  LET components == Components({n \in ToSet(Vertices) : n >= s})
      nodes == CHOOSE c \in components : \A d \in components : Min(c) <= Min(d)
  IN IF components = {} THEN {}
     ELSE Circuit([blocked |-> {}, B |-> [n \in nodes |-> {}], calls |-> 0, found |-> {}, closed |-> FALSE],
                  <<Min(nodes)>>, Subgraph(nodes)).found

AllCircuits == UNION {CircuitsFrom(s) : s \in DOMAIN adjacencyListSimple}

-----------------------------------------------------------------------------
(***************************************************************************)
(* populateAllLoopInformation, and the maps it fills.                      *)
(***************************************************************************)
LoopIds == DOMAIN loops

(* getListOfLoops *)
LoopsOf(n) == {k \in LoopIds : n \in ToSet(loops[k])}

(* loopEdgeMap: pairs of neighbours in the list. *)
LoopEdges(k) == {<<loops[k][i], loops[k][i + 1]>> : i \in 1 .. Len(loops[k]) - 1}

(* edgeLoopMap *)
LoopsWith(e) == {k \in LoopIds : e \in LoopEdges(k)}

(* getBackEdge: the first pair that ends in the entry, the first node. *)
BackEdge(list) ==
  LET i == CHOOSE j \in 2 .. Len(list) :
             list[j] = list[1] /\ \A h \in 2 .. j - 1 : list[h] # list[1]
  IN <<list[i - 1], list[i]>>

Populate(useJohnson) ==
  LET all == IF useJohnson THEN AllCircuits ELSE {NaturalLoop(e) : e \in BackEdges}
  IN /\ loops' \in SetToSeqs(all)
     /\ characteristic' = [e \in {BackEdge(list) : list \in all} |-> e]

-----------------------------------------------------------------------------
(***************************************************************************)
(* The loops two states share.                                             *)
(***************************************************************************)

(* getCommonBackEdges and getSetOfHeaders *)
BackEdgesOf(n) == {BackEdge(loops[k]) : k \in LoopsOf(n)}
Headers(n) == {e[2] : e \in BackEdgesOf(n)}

(* getCommonMergedLoopsBackEdges, populateCommonHeaderBackEdgeMap: the back
   edges to a header a and b share, those of a first; one may be listed twice. *)
SharedBackEdges(a, b, header) ==
  InOrder({e \in BackEdgesOf(a) : e[2] = header}, EdgeBefore)
  \o InOrder({e \in BackEdgesOf(b) : e[2] = header}, EdgeBefore)

(* The loops through a list of edges, each edge's in the order of the hashes. *)
LoopsThrough(list) ==
  FlattenSeq([k \in DOMAIN list |-> InOrder(LoopsWith(list[k]), <)])

(* The first of the longest loops. *)
Longest(ids) ==
  ids[CHOOSE i \in DOMAIN ids : \A j \in DOMAIN ids :
        LET li == Cardinality(LoopEdges(ids[i]))
            lj == Cardinality(LoopEdges(ids[j]))
        IN lj < li \/ (lj = li /\ i <= j)]

(* The intersection of their edges, which starts over when it becomes empty. *)
CommonEdges(ids) ==
  FoldLeft(LAMBDA common, k : IF common = {} THEN LoopEdges(k) ELSE common \cap LoopEdges(k), {}, ids)

NoEdge == <<0, 0>>   \* what is read where an empty set of edges ends
SmallestEdge(edges) == IF edges = {} THEN NoEdge ELSE InOrder(edges, EdgeBefore)[1]

(* getBackEdgesForCommonLoops for one header: several back edges are taken for
   one loop, represented by the back edge of the longest, and its rounds are
   counted by an edge they all have in common. *)
ForHeader(acc, list) ==
  LET ids == LoopsThrough(list)
      effective == BackEdge(loops[Longest(ids)])
  IN IF Cardinality(ToSet(list)) = 1 THEN [acc EXCEPT !.useful = @ \cup {list[1]}]
     ELSE [useful |-> acc.useful \cup {effective},
           characteristic |-> [acc.characteristic EXCEPT ![effective] = SmallestEdge(CommonEdges(ids))]]

(* The back edges that stand for the common loops of a and b, and the
   characteristic edges from then on. *)
CommonLoops(a, b) ==
  LET headers == InOrder(Headers(a) \cap Headers(b), <)
  IN FoldLeft(LAMBDA acc, header : ForHeader(acc, SharedBackEdges(a, b, header)),
              [useful |-> {}, characteristic |-> characteristic], headers)

-----------------------------------------------------------------------------
(***************************************************************************)
(* The order in which loops are compared, outer loops first.               *)
(***************************************************************************)
SmallestLength(e) == Min({Cardinality(LoopEdges(k)) : k \in LoopsWith(e)})

(* loopLexicographicComparator, which may hold both ways. *)
ComesBefore(e, f) == e[2] < f[2] \/ SmallestLength(e) > SmallestLength(f)

(* std::list::merge and std::list::sort: parts of 1, 2, 4, ... elements. *)
RECURSIVE MergedLists(_, _)
MergedLists(s, t) ==
  IF s = <<>> THEN t
  ELSE IF t = <<>> THEN s
  ELSE IF ComesBefore(Head(t), Head(s)) THEN <<Head(t)>> \o MergedLists(s, Tail(t))
  ELSE <<Head(s)>> \o MergedLists(Tail(s), t)

RECURSIVE Sorted(_)
Sorted(s) ==
  IF Len(s) <= 1 THEN s
  ELSE LET k == Max({2 ^ i : i \in {j \in 0 .. Len(s) : 2 ^ j < Len(s)}})
       IN MergedLists(Sorted(SubSeq(s, 1, k)), Sorted(SubSeq(s, k + 1, Len(s))))

(* getLexicographicOrderdedLoop *)
OutermostFirst(backEdges) == Sorted(InOrder(backEdges, EdgeBefore))

-----------------------------------------------------------------------------
(***************************************************************************)
(* Hops from the entry of a loop: giveMeHops follows the smallest          *)
(* predecessor, in the map compression leaves alone, up to the entry.  It  *)
(* fails at a node without one, and never returns from a cycle that does   *)
(* not pass the entry.                                                     *)
(***************************************************************************)
Failed == -1
Endless == -2   \* no value: the call does not return

RECURSIVE Hops(_, _, _)
Hops(n, entry, path) ==
  IF n \in path THEN Endless
  ELSE IF Predecessors(n) = {} THEN Failed
  ELSE IF Min(Predecessors(n)) = entry THEN Cardinality(path) + 1
  ELSE Hops(Min(Predecessors(n)), entry, path \cup {n})

(* MUTANT of HopCount: the entry is taken for any other state of the loop. *)
HopCountAroundLoop(e, n) == Hops(n, e[2], {})

(* getHopCountFromLoopEntry *)
HopCount(e, n) == IF n = e[2] THEN 0 ELSE Hops(n, e[2], {})
==============================================================================
