----------------------------- MODULE AnalysisData -----------------------------
(***************************************************************************)
(* The data the analysis moves between processes, as values: a process's   *)
(* state factory, its Markov model (edges between state ids, each with a   *)
(* transition count and, per count, the set of ranks that took the edge so *)
(* often), and what receiving another process's data does to them.         *)
(*                                                                         *)
(* Names are natural numbers, ordered as the code orders strings.  A       *)
(* factory is the sequence of its names: the name at place i has id i.     *)
(* Sets of ranks stand for RangeSets.                                      *)
(***************************************************************************)
EXTENDS Naturals, FiniteSets, Sequences, SequencesExt, Functions

NoId == 0

(* The elements of a finite set in increasing order. *)
InOrder(set, Before(_, _)) ==
  [i \in 1 .. Cardinality(set) |->
     CHOOSE x \in set : Cardinality({y \in set : Before(y, x)}) = i - 1]

IdOf(names, n) ==
  IF n \in ToSet(names) THEN CHOOSE i \in DOMAIN names : names[i] = n ELSE NoId

(* createState on a factory. *)
Intern(names, n) == IF n \in ToSet(names) THEN names ELSE Append(names, n)

(* MUTANT of InternAll: the names are looked up but not created. *)
InternNone(names, list) == names

(* createState on each name of a list: the new ones, where they first occur. *)
InternAll(names, list) ==
  LET new == {k \in DOMAIN list : /\ list[k] \notin ToSet(names)
                                  /\ \A j \in 1 .. k - 1 : list[j] # list[k]}
  IN names \o [i \in 1 .. Cardinality(new) |-> list[InOrder(new, <)[i]]]

-----------------------------------------------------------------------------
Entry(f, k, default) == IF k \in DOMAIN f THEN f[k] ELSE default
Put(f, k, v) == [x \in DOMAIN f \cup {k} |-> IF x = k THEN v ELSE f[x]]

UnionTasks(a, b) ==
  [c \in DOMAIN a \cup DOMAIN b |-> Entry(a, c, {}) \cup Entry(b, c, {})]

(* MUTANT of Combined: the counts of one side are lost. *)
CombinedTasksOnly(a, b) ==
  [count |-> a.count, tasks |-> UnionTasks(a.tasks, b.tasks)]

(* EdgeAnnotation + EdgeAnnotation, and when its RangeSet union gives up. *)
Combined(a, b) ==
  [count |-> a.count + b.count, tasks |-> UnionTasks(a.tasks, b.tasks)]
Overlaps(a, b) ==
  \E c \in DOMAIN a.tasks \cap DOMAIN b.tasks : a.tasks[c] \cap b.tasks[c] # {}

NoTasks == <<>>
Once == [count |-> 1, tasks |-> NoTasks]

(* ProbabilityMatrix::updateMatrix, and the same on a map of edges. *)
AddEdge(edges, e, annotation) ==
  Put(edges, e, IF e \in DOMAIN edges THEN Combined(edges[e], annotation) ELSE annotation)

-----------------------------------------------------------------------------
(***************************************************************************)
(* What the application thread does to its process's data.                 *)
(***************************************************************************)

(* afterInit: the first state is created, the model has no edge and no last
   state yet. *)
Launched(n) == [names |-> <<n>>, edges |-> <<>>, current |-> 1, last |-> NoId]

(* transitionBeforeMPICall, transitionAfterMPICall *)
Recorded(process, n) ==
  LET names == Intern(process.names, n)
      state == IdOf(names, n)
  IN [names |-> names,
      edges |-> AddEdge(process.edges, <<process.current, state>>, Once),
      current |-> state,
      last |-> state]

(* The process after its application has made the calls of a trail. *)
AfterTrail(trail) ==
  LET after[k \in DOMAIN trail] ==
        IF k = 1 THEN Launched(trail[1]) ELSE Recorded(after[k - 1], trail[k])
  IN after[Len(trail)]

-----------------------------------------------------------------------------
(***************************************************************************)
(* What the helper thread does to it.                                      *)
(***************************************************************************)

(* MUTANT of Annotated: everybody annotates as rank 0. *)
AnnotatedAsRoot(edges, rank) ==
  [e \in DOMAIN edges |->
     [edges[e] EXCEPT !.tasks =
        Put(@, edges[e].count, Entry(@, edges[e].count, {}) \cup {0})]]

(* updateTransitionCountTaskMap: rank took each edge as often as counted. *)
Annotated(edges, rank) ==
  [e \in DOMAIN edges |->
     [edges[e] EXCEPT !.tasks =
        Put(@, edges[e].count, Entry(@, edges[e].count, {}) \cup {rank})]]

EdgeBefore(e, f) == e[1] < f[1] \/ (e[1] = f[1] /\ e[2] < f[2])

(* An edge of a remote process, in the ids of this process. *)
Translated(names, remote, e) ==
  <<IdOf(names, remote.names[e[1]]), IdOf(names, remote.names[e[2]])>>

(* The names of the states of remote edges, in the order of the remote ids. *)
NamesInOrder(remote) ==
  LET order == InOrder(DOMAIN remote.edges, EdgeBefore)
  IN [k \in 1 .. 2 * Len(order) |-> remote.names[order[(k + 1) \div 2][2 - (k % 2)]]]

(* EdgeReduction::updateLocalData: edge by edge, names that are new here are
   given ids and annotations are added up. *)
Merged(own, remote) ==
  LET names == InternAll(own.names, NamesInOrder(remote))
      new == {Translated(names, remote, e) : e \in DOMAIN remote.edges}
      Received(edge) == CHOOSE e \in DOMAIN remote.edges : Translated(names, remote, e) = edge
  IN [names |-> names,
      edges |-> [edge \in DOMAIN own.edges \cup new |->
                   IF edge \notin new THEN own.edges[edge]
                   ELSE AddEdge(own.edges, edge, remote.edges[Received(edge)])[edge]]]

(* When one of the RangeSet unions of Merged finds a rank on both sides. *)
MergeOverlaps(own, remote) ==
  \E e \in DOMAIN remote.edges :
    LET edge == Translated(own.names, remote, e)
    IN edge \in DOMAIN own.edges /\ Overlaps(own.edges[edge], remote.edges[e])

(* MUTANT of MergedTable: a row that arrives replaces the row that is there. *)
ReplacedTable(own, remote) ==
  [i \in DOMAIN own \cup DOMAIN remote |-> Entry(remote, i, Entry(own, i, {}))]

(* RangeSetTable::unpack, and when its RangeSet union gives up. *)
MergedTable(own, remote) == UnionTasks(own, remote)
TableOverlaps(own, remote) ==
  \E i \in DOMAIN own \cap DOMAIN remote : own[i] \cap remote[i] # {}
==============================================================================
