----------------------------- MODULE RootAnalysis -----------------------------
(***************************************************************************)
(* What the root computes alone at the end of gatheredLPTAlgorithm, from   *)
(* the merged Markov model, the vector of last states and the table of     *)
(* ranks: the graph, its compression, its loops, the matrix of             *)
(* dependencies and the least-progressed tasks.                            *)
(*                                                                         *)
(* A behaviour begins with what each process recorded, a trail of names;   *)
(* the data the reductions bring to the root is computed from it.          *)
(***************************************************************************)
EXTENDS LoopAnalysis, Compression

CONSTANT Trails   \* what the processes may have recorded, by rank

ASSUME RootAssumption ==
  /\ CircuitLimit \in Nat
  /\ \A trail \in Trails :
       \E n \in 1 .. 3 :   \* with four ranks, some would send to others than the root
         /\ DOMAIN trail = 0 .. n - 1
         /\ \A p \in 0 .. n - 1 :
              /\ trail[p] \in Seq(Nat)
              /\ Len(trail[p]) >= 2
              /\ \A k \in DOMAIN trail[p] : trail[p][k] = Head(trail[0]) <=> k = 1

VARIABLES
  useJohnson,     \* AUT_USE_JOHNSON
  table,          \* rsTable: the ranks in each last state, by index
  dim, matrix, pass, row, col, free,   \* the DependencyMatrix module's
  printed         \* the tasks printed as least progressed

given == <<merged, useJohnson, table>>
matrixVars == <<dim, matrix, pass, row, col, free>>
vars == <<given, phase, printed, graphVars, loopVars, matrixVars>>

Matrix == INSTANCE DependencyMatrix WITH Dims <- Nat \ {0}

-----------------------------------------------------------------------------
(***************************************************************************)
(* What the reductions leave at the root, when each rank but 0 sends to 0. *)
(***************************************************************************)
Recorder(trail, p) ==
  [names |-> AfterTrail(trail[p]).names, edges |-> Annotated(AfterTrail(trail[p]).edges, p)]

(* The root gets ids for the names of the others' last states before it gets
   those of their edges. *)
AtRoot(trail) ==
  LET others == [p \in 1 .. Cardinality(DOMAIN trail) - 1 |-> Recorder(trail, p)]
      own == Recorder(trail, 0)
      known == InternAll(own.names, [p \in DOMAIN others |-> Last(trail[p])])
  IN FoldLeft(Merged, [own EXCEPT !.names = known], others)

LastNames(trail) == InOrder({Last(trail[p]) : p \in DOMAIN trail}, <)

Init ==
  /\ \E trail \in Trails :
       LET root == AtRoot(trail)
           last == LastNames(trail)
       IN /\ walks = [p \in DOMAIN trail |-> [k \in DOMAIN trail[p] |-> IdOf(root.names, trail[p][k])]]
          /\ model = root.edges
          /\ vector = [k \in DOMAIN last |-> IdOf(root.names, last[k])]
          /\ table = [i \in 0 .. Len(last) - 1 |-> {p \in DOMAIN trail : Last(trail[p]) = last[i + 1]}]
          /\ dim = Len(last)
  /\ doNotCompress \in BOOLEAN
  /\ useJohnson \in BOOLEAN
  /\ phase = "graph"
  /\ printed = {}
  /\ InitGraph
  /\ InitLoops
  /\ matrix = Matrix!Zero
  /\ pass = "build"
  /\ row = 0
  /\ col = 0
  /\ free = {}

-----------------------------------------------------------------------------
(* The graph is built and compressed, *)
PrepareGraph ==
  /\ BuildGraph \/ MarkBoundary \/ Compress
  /\ UNCHANGED <<useJohnson, table, printed, loopVars, matrixVars>>

(* before its loops are found. *)
FindLoops ==
  /\ At("populate", "matrix")
  /\ Populate(useJohnson)
  /\ UNCHANGED <<given, printed, graphVars, matrixVars>>

-----------------------------------------------------------------------------
(***************************************************************************)
(* Probabilities in the merged model: zero, one, or between.  The sum over *)
(* all paths is one exactly when no edge on the way leads back or to a     *)
(* dead end; the doubles it is computed with may miss one on either side,  *)
(* unless all of them are exact.                                           *)
(***************************************************************************)
Taken(s) == MapThenSumSet(LAMBDA d : model[<<s, d>>].count, Leads[s])

RECURSIVE Surely(_, _, _)
Surely(n, d, path) ==
  /\ n \in DOMAIN Leads
  /\ \A m \in Leads[n] \ {d} : m \notin path /\ Surely(m, d, path \cup {m})

IsPowerOfTwo(n) == \E k \in 0 .. n : n = 2 ^ k

Inexact(s, d) ==
  \E n \in Reach(Leads, {s}, Known \ {d}) \cap DOMAIN Leads :
    Cardinality(Leads[n]) > 1 /\ ~IsPowerOfTwo(Taken(n))

(* What transitionProbability may give. *)
Probabilities(s, d) ==
  IF d \notin Reach(Leads, {s}, Known) THEN {"zero"}
  ELSE IF ~Surely(s, d, {s}) THEN {"part"}
  ELSE IF Inexact(s, d) THEN {"part", "one", "over"}
  ELSE {"one"}

(* translateDepFromProbability, with its exact comparisons. *)
DependencyOf(x, y) ==
  CASE x = "part" /\ y = "part" -> 3
    [] x = "one" /\ y = "one" -> 3
    [] x = "zero" /\ y # "zero" -> 1
    [] x = "part" /\ y = "one" -> 1
    [] x # "zero" /\ y = "zero" -> 2
    [] x = "one" /\ y = "part" -> 2
    [] OTHER -> 0

ByProbability(s, d) ==
  {DependencyOf(x, y) : x \in Probabilities(s, d), y \in Probabilities(d, s)}

-----------------------------------------------------------------------------
(***************************************************************************)
(* calculateDependencyBasedOnLoop.                                         *)
(***************************************************************************)
Compared(x, y) == IF x > y THEN 1 ELSE IF x < y THEN 2 ELSE 0

(* lowestItem of the ranks in a last state. *)
LowestProc(i) == Min(table[i])

(* The first loop of which one process has done more rounds than the other. *)
ByRounds(order, edgeOf, i, j) ==
  LET rounds(k, s) == IterationCount(edgeOf[order[k]], LowestProc(s))
      decides == {k \in DOMAIN order : rounds(k, i) # rounds(k, j)}
  IN IF decides = {} THEN 0 ELSE Compared(rounds(Min(decides), i), rounds(Min(decides), j))

(* The first loop of which one state is farther from the entry. *)
ByHops(order, i, j) ==
  LET hops(k, s) == HopCount(order[k], vector[s + 1])
      ends == {k \in DOMAIN order : Endless \in {hops(k, i), hops(k, j)}}
      decides == {k \in DOMAIN order : /\ Failed \notin {hops(k, i), hops(k, j)}
                                       /\ hops(k, i) # hops(k, j)}
      first == Min(ends \cup decides)
  IN IF ends \cup decides = {} THEN 0
     ELSE IF first \in ends THEN Endless ELSE Compared(hops(first, i), hops(first, j))

ByLoops(common, i, j) ==
  LET order == OutermostFirst(common.useful)
      rounds == ByRounds(order, common.characteristic, i, j)
  IN IF rounds # 0 THEN rounds ELSE ByHops(order, i, j)

(* loopAwareDepMatrixBuilder at one entry; below the diagonal it is 0. *)
BuildEntry ==
  /\ phase = "matrix"
  /\ pass = "build"
  /\ LET common == CommonLoops(vector[row + 1], vector[col + 1])
         byLoops == ByLoops(common, row, col)
     IN IF col <= row
          THEN /\ matrix' = Matrix!WithDependency(matrix, row, col, 0)
               /\ Matrix!Walk("cycles")
               /\ UNCHANGED <<phase, loopVars, dim, free>>
        ELSE IF byLoops = Endless
          THEN /\ phase' = "endless"
               /\ UNCHANGED <<loopVars, matrixVars>>
        ELSE /\ \E d \in IF byLoops # 0 THEN {byLoops}
                         ELSE ByProbability(vector[row + 1], vector[col + 1]) :
                   matrix' = Matrix!WithDependency(matrix, row, col, d)
             /\ Matrix!Walk("cycles")
             /\ characteristic' = common.characteristic
             /\ UNCHANGED <<phase, loops, dim, free>>
  /\ UNCHANGED <<given, printed, graphVars>>

(* The passes over the matrix. *)
Resolve ==
  /\ Matrix!RemoveCycle \/ Matrix!RemoveUndefined \/ Matrix!FindFree
  /\ UNCHANGED <<given, phase, printed, graphVars, loopVars>>

(* printLeastProgressedTasks *)
PrintTasks ==
  /\ pass = "done"
  /\ At("matrix", "done")
  /\ printed' = UNION {table[i] : i \in free}
  /\ UNCHANGED <<given, graphVars, loopVars, matrixVars>>

Next ==
  \/ PrepareGraph
  \/ FindLoops
  \/ BuildEntry
  \/ Resolve
  \/ PrintTasks

Spec == Init /\ [][Next]_vars

-----------------------------------------------------------------------------
Found == phase \in {"matrix", "done", "endless"}

(* Type invariant.  The reductions leave what Compression begins with, and
   every loop found has a characteristic edge. *)
TypeOK ==
  /\ phase = "graph" => MergedFromWalks
  /\ GraphTypeOK
  /\ DOMAIN nodeDestMap \subseteq Known
  /\ visited \subseteq Known /\ ToSet(stack) \subseteq Known
  /\ Found => DOMAIN characteristic = {BackEdge(loops[k]) : k \in LoopIds}
  /\ \A e \in DOMAIN characteristic : characteristic[e] \in (Known \X Known) \cup {NoEdge}
  /\ dim = Len(vector)
  /\ \A i, j \in 0 .. dim - 1 : matrix[i][j] \in 0 .. 3
  /\ pass \in {"build", "cycles", "undefined", "find", "done"}
  /\ free \subseteq DOMAIN table
  /\ printed \subseteq Ranks

(* The circuits from a path on that pass no node less than its first, by plain
   backtracking. *)
RECURSIVE CircuitsOn(_)
CircuitsOn(path) ==
  {Append(path, n) : n \in Adjacent(Last(path)) \cap {Head(path)}}
  \cup UNION {CircuitsOn(Append(path, n)) :
                n \in {m \in Adjacent(Last(path)) \ ToSet(path) : m > Head(path)}}

(* The loops found are loops.  Johnson's algorithm, with its blocking and the
   limit on its calls, finds each elementary circuit of two nodes or more; the
   natural loops are entered at their entry only, which every one of their
   nodes is reached from and leads back to inside the loop. *)
LoopsAreRight ==
  Found =>
    IF useJohnson
      THEN {c \in ToSet(loops) : Len(c) > 2}
             = {c \in UNION {CircuitsOn(<<n>>) : n \in Known} : Len(c) > 2}
      ELSE \A k \in LoopIds :
             LET entry == loops[k][1]
                 body == ToSet(loops[k])
             IN /\ body \cap Reach(adjacencyListSimple, {Entrance} \ {entry}, Known \ {entry}) = {}
                /\ body = Reach(adjacencyListSimple, {entry}, body)
                /\ \A n \in body : entry \in Reach(adjacencyListSimple, {n}, body)

(* Programs of nested loops without branches that join: a state has at most one
   edge by which it is first reached, and at most one that leads back to it. *)
SimplyNested ==
  \A n \in Known :
    LET into == {m \in DOMAIN Leads : n \in Leads[m]}
        first == into \cap Reach(Leads, {Entrance}, Known \ {n})
    IN Cardinality(first) <= 1 /\ Cardinality(into \ first) <= 1

(* The processes run along the same path and stop at different points of it;
   those in the same state at the same point. *)
SamePath ==
  \A p, q \in Ranks :
    /\ IsPrefix(walks[p], walks[q]) \/ IsPrefix(walks[q], walks[p])
    /\ Last(walks[p]) = Last(walks[q]) => walks[p] = walks[q]

(* What the tool is for: of processes on the same path through nested loops, it
   names those that got least far, and only them, with compression and without
   it, with natural loops and with circuits, however the root numbers the
   states of the others. *)
LeastProgressFound ==
  phase = "done" /\ SimplyNested /\ SamePath =>
    printed = {p \in Ranks : \A q \in Ranks : Len(walks[p]) <= Len(walks[q])}

(* "Thus first is always P->S ... and we can go up to predecessor to count hops
   upto loop entry" (graph_algorithm.C:736): the walk comes to an end. *)
HopWalksEnd == phase # "endless"
==============================================================================
