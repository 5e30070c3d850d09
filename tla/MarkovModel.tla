------------------------------ MODULE MarkovModel ------------------------------
(***************************************************************************)
(* Class MarkovModel<State>: the transitions a process has seen, with a    *)
(* count each, and the search that evaluates the probability of getting    *)
(* from one state to another.  A query holds the model's mutex, so no edge *)
(* is added while it runs; one step of the search is one call of DFSearch  *)
(* or the return from one.  The order in which DFSearch takes the          *)
(* neighbours of a state (that of boost's setS) is left open.              *)
(***************************************************************************)
EXTENDS Naturals, Sequences, FiniteSets, FiniteSetsExt, SequencesExt

CONSTANTS States,          \* the states a process can create
          Unset,           \* the last state before the first transition
          RecurLimit,      \* calls of DFSearch before it gives up; 1000 in the code
          MaxTransitions   \* bound of the model: transitions that are counted

ASSUME MarkovAssumption ==
  /\ IsFiniteSet(States)
  /\ Unset \notin States
  /\ RecurLimit \in Nat
  /\ MaxTransitions \in Nat

VARIABLES
  transitions,   \* ProbabilityMatrix: the count of each edge, 0 if it is absent
  states,        \* states and statesInv: the states that are vertices of the graph
  lastState,     \* ProbabilityMatrix::lastState
  useClosure,    \* the constructor's flag
  closureKnown,  \* transitiveClosure is not NULL
  closure,       \* the pairs in it
  pc,            \* "search" while a query holds the mutex, "answered" after it
  query,         \* the source and destination of the last query
  visited,       \* visitedVertices
  sequence,      \* vertexSequence
  remaining,     \* for each active DFSearch, the calls it still has to make
  paths,         \* the paths found so far
  recurCount     \* the static counter of DFSearch; counts no further once it cuts

model == <<transitions, states, lastState, useClosure>>
search == <<visited, sequence, remaining, paths, recurCount>>
vars == <<transitions, states, lastState, useClosure, closureKnown, closure, pc, query,
          visited, sequence, remaining, paths, recurCount>>

Known(s, d) == transitions[<<s, d>>] > 0
Adjacent(s) == {d \in States : Known(s, d)}

(* The total of the transitions out of s, and of all. *)
Total(s) == MapThenSumSet(LAMBDA d : transitions[<<s, d>>], States)
Counted == MapThenSumSet(Total, States)

(* MUTANT of Probability: out of the edges, not out of their transitions. *)
ProbabilityPerEdge(s, d) ==
  IF Known(s, d) THEN <<transitions[<<s, d>>], Cardinality(Adjacent(s))>> ELSE <<0, 1>>

(* ProbabilityMatrix::probability, as numerator and denominator. *)
Probability(s, d) == IF Known(s, d) THEN <<transitions[<<s, d>>], Total(s)>> ELSE <<0, 1>>

Init ==
  /\ transitions = [e \in States \X States |-> 0]
  /\ states = {}
  /\ lastState = Unset
  /\ useClosure \in BOOLEAN
  /\ closureKnown = FALSE
  /\ closure = {}
  /\ pc = "idle"
  /\ query = <<Unset, Unset>>
  /\ visited = {}
  /\ sequence = <<>>
  /\ remaining = <<>>
  /\ paths = {}
  /\ recurCount = 0

-----------------------------------------------------------------------------
(* MUTANT of AddEdge: the closure outlives the graph it was computed from. *)
AddEdgeKeepsClosure(s, d) ==
  /\ pc # "search"
  /\ Counted < MaxTransitions
  /\ states' = states \cup {s, d}
  /\ transitions' = [transitions EXCEPT ![<<s, d>>] = @ + 1]
  /\ lastState' = d
  /\ pc' = "idle"
  /\ UNCHANGED <<useClosure, closureKnown, closure, query>>
  /\ UNCHANGED search

(* addEdge: the transition is counted and a closure is thrown away. *)
AddEdge(s, d) ==
  /\ pc # "search"
  /\ Counted < MaxTransitions
  /\ states' = states \cup {s, d}
  /\ transitions' = [transitions EXCEPT ![<<s, d>>] = @ + 1]
  /\ lastState' = d
  /\ closureKnown' = (closureKnown /\ ~useClosure)
  /\ closure' = IF closureKnown' THEN closure ELSE {}
  /\ pc' = "idle"
  /\ UNCHANGED <<useClosure, query>>
  /\ UNCHANGED search

(* What boost's transitive_closure computes: who reaches whom by a path of
   one edge or more, in rounds of one edge each. *)
Edges == {e \in States \X States : Known(e[1], e[2])}
Longer(reached) == {e \in States \X States : \E d \in Adjacent(e[1]) : <<d, e[2]>> \in reached}
ClosureOfGraph ==
  LET reached[n \in Nat] ==
        IF n = 0 THEN Edges ELSE reached[n - 1] \cup Longer(reached[n - 1])
  IN reached[Cardinality(States)]

(* MUTANT of Begin: the paths of the query before are not cleared. *)
BeginUncleared(s, d) ==
  /\ pc # "search"
  /\ {s, d} \subseteq states
  /\ s # d
  /\ query' = <<s, d>>
  /\ pc' = "search"
  /\ closureKnown' = useClosure
  /\ closure' = IF useClosure /\ ~closureKnown THEN ClosureOfGraph ELSE closure
  /\ remaining' = <<IF useClosure /\ <<s, d>> \notin closure' THEN {} ELSE {s}>>
  /\ UNCHANGED <<visited, sequence, paths, recurCount>>
  /\ UNCHANGED model

(* transitionProbability, largestPathProbability: what the query before left
   behind is cleared; with the closure, a destination that cannot be reached is
   not searched for.  The closure is computed when there is none. *)
Begin(s, d) ==
  /\ pc # "search"
  /\ {s, d} \subseteq states
  /\ s # d
  /\ query' = <<s, d>>
  /\ pc' = "search"
  /\ closureKnown' = useClosure
  /\ closure' = IF useClosure /\ ~closureKnown THEN ClosureOfGraph ELSE closure
  /\ visited' = {}
  /\ sequence' = <<>>
  /\ paths' = {}
  /\ remaining' = <<IF useClosure /\ <<s, d>> \notin closure' THEN {} ELSE {s}>>
  /\ UNCHANGED recurCount
  /\ UNCHANGED model

-----------------------------------------------------------------------------
(***************************************************************************)
(* DFSearch.  The innermost active call picks the next vertex and calls    *)
(* itself on it; the outermost entry of remaining is the query's own call. *)
(***************************************************************************)

Innermost == Len(remaining)
Calls(v) == v \in remaining[Innermost]
Made(v) == [remaining EXCEPT ![Innermost] = @ \ {v}]

CountCall == recurCount' = IF recurCount <= RecurLimit THEN recurCount + 1 ELSE recurCount

(* The counter has passed the limit: the call returns at once. *)
Cut(v) ==
  /\ pc = "search"
  /\ Calls(v)
  /\ recurCount >= RecurLimit
  /\ remaining' = Made(v)
  /\ CountCall
  /\ UNCHANGED <<visited, sequence, paths, closureKnown, closure, pc, query>>
  /\ UNCHANGED model

(* A vertex of the current path: a cycle, the call returns. *)
Cycle(v) ==
  /\ pc = "search"
  /\ Calls(v)
  /\ recurCount < RecurLimit
  /\ v \in visited
  /\ remaining' = Made(v)
  /\ CountCall
  /\ UNCHANGED <<visited, sequence, paths, closureKnown, closure, pc, query>>
  /\ UNCHANGED model

(* MUTANT of Found: the limit is looked at after the destination. *)
FoundPastLimit(v) ==
  /\ pc = "search"
  /\ Calls(v)
  /\ v \notin visited
  /\ v = query[2]
  /\ paths' = paths \cup {Append(sequence, v)}
  /\ remaining' = Made(v)
  /\ CountCall
  /\ UNCHANGED <<visited, sequence, closureKnown, closure, pc, query>>
  /\ UNCHANGED model

(* The destination: the path is saved, the destination leaves it again. *)
Found(v) ==
  /\ pc = "search"
  /\ Calls(v)
  /\ recurCount < RecurLimit
  /\ v \notin visited
  /\ v = query[2]
  /\ paths' = paths \cup {Append(sequence, v)}
  /\ remaining' = Made(v)
  /\ CountCall
  /\ UNCHANGED <<visited, sequence, closureKnown, closure, pc, query>>
  /\ UNCHANGED model

(* Any other vertex joins the path, and its neighbours are searched. *)
Expand(v) ==
  /\ pc = "search"
  /\ Calls(v)
  /\ recurCount < RecurLimit
  /\ v \notin visited
  /\ v # query[2]
  /\ visited' = visited \cup {v}
  /\ sequence' = Append(sequence, v)
  /\ remaining' = Append(Made(v), Adjacent(v))
  /\ CountCall
  /\ UNCHANGED <<paths, closureKnown, closure, pc, query>>
  /\ UNCHANGED model

(* MUTANT of Leave: the vertex leaves the path but stays in the known set. *)
LeaveVisited ==
  /\ pc = "search"
  /\ Innermost > 1
  /\ remaining[Innermost] = {}
  /\ sequence' = Front(sequence)
  /\ remaining' = Front(remaining)
  /\ UNCHANGED <<visited, paths, recurCount, closureKnown, closure, pc, query>>
  /\ UNCHANGED model

(* All neighbours are searched: eliminateFromKnownSet. *)
Leave ==
  /\ pc = "search"
  /\ Innermost > 1
  /\ remaining[Innermost] = {}
  /\ visited' = visited \ {Last(sequence)}
  /\ sequence' = Front(sequence)
  /\ remaining' = Front(remaining)
  /\ UNCHANGED <<paths, recurCount, closureKnown, closure, pc, query>>
  /\ UNCHANGED model

(* The query's own call has returned: the caller gets its answer. *)
Answer ==
  /\ pc = "search"
  /\ Innermost = 1
  /\ remaining[1] = {}
  /\ pc' = "answered"
  /\ UNCHANGED <<closureKnown, closure, query>>
  /\ UNCHANGED search
  /\ UNCHANGED model

Next ==
  \/ \E s, d \in States : AddEdge(s, d) \/ Begin(s, d)
  \/ \E v \in States : Cut(v) \/ Cycle(v) \/ Found(v) \/ Expand(v)
  \/ Leave
  \/ Answer

Spec == Init /\ [][Next]_vars

-----------------------------------------------------------------------------
(***************************************************************************)
(* What a query answers: vectorOfProbabilities and its sum.  The           *)
(* probabilities of the paths share the product of all totals as their     *)
(* denominator.                                                            *)
(***************************************************************************)

Denominator == MapThenFoldSet(LAMBDA x, y : x * y, 1, LAMBDA s : Max({1, Total(s)}),
                              LAMBDA set : CHOOSE s \in set : TRUE, States)

(* The probability of a path is the product of those of its edges. *)
PathProbability(path) ==
  LET product == FoldLeft(LAMBDA p, i : <<p[1] * Probability(path[i], path[i + 1])[1],
                                          p[2] * Probability(path[i], path[i + 1])[2]>>,
                          <<1, 1>>, [i \in 1 .. Len(path) - 1 |-> i])
  IN (product[1] * Denominator) \div product[2]

(* transitionProbability, in units of one in Denominator. *)
TransitionProbability == MapThenSumSet(PathProbability, paths)

-----------------------------------------------------------------------------
(* The references the properties compare with: the paths from s to d that pass
   no state twice. *)
Simple(path) == \A i, j \in DOMAIN path : path[i] = path[j] => i = j
Connected(path) == \A i \in 1 .. Len(path) - 1 : Known(path[i], path[i + 1])
SimplePaths(s, d) ==
  {path \in UNION {[1 .. n -> States] : n \in 2 .. Cardinality(States)} :
     path[1] = s /\ path[Len(path)] = d /\ Simple(path) /\ Connected(path)}

(* Type invariant; the shared set and vector of vertices hold the same ones,
   one for each active call but the query's own. *)
TypeOK ==
  /\ transitions \in [States \X States -> Nat]
  /\ states \in SUBSET States
  /\ lastState \in States \cup {Unset}
  /\ useClosure \in BOOLEAN
  /\ closureKnown \in BOOLEAN
  /\ closure \in SUBSET (States \X States)
  /\ pc \in {"idle", "search", "answered"}
  /\ query \in (States \cup {Unset}) \X (States \cup {Unset})
  /\ visited \in SUBSET States
  /\ sequence \in Seq(States)
  /\ remaining \in Seq(SUBSET States)
  /\ paths \in SUBSET Seq(States)
  /\ recurCount \in 0 .. RecurLimit + 1
  /\ visited = ToSet(sequence)
  /\ pc = "search" => Len(remaining) = Len(sequence) + 1

(* Every path that is found is one the process can take: its edges are in the
   model, it starts at the source of the query, ends at the destination and
   passes no state twice (DFSearch pushes, pops and saves one shared vector). *)
PathsAreReal ==
  pc # "idle" =>
    \A path \in paths :
      /\ path # <<>>
      /\ path[1] = query[1]
      /\ path[Len(path)] = query[2]
      /\ Simple(path)
      /\ Connected(path)

(* Unless the counter of calls has passed the limit, a search evaluates all the
   paths there are, with the closure and without it, whatever edges were added
   since the closure was first computed. *)
SearchIsExhaustive ==
  pc = "answered" /\ recurCount <= RecurLimit =>
    SimplePaths(query[1], query[2]) \subseteq paths

(* "It should be <= 1.0" (markov_model.h:566): the probabilities of the paths,
   each a product over its edges, add up to at most one. *)
SumAtMostOne == pc = "answered" => TransitionProbability <= Denominator

(* Once the counter has passed the limit it stays there, and no search finds
   a path any more: every later query answers zero. *)
CutFindsNothing == [][recurCount > RecurLimit => recurCount' = recurCount /\ paths' \subseteq paths]_vars
==============================================================================
