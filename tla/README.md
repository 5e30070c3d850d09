# AutomaDeD: a verification project

AutomaDeD finds out why an MPI program hangs.  A library between the program
and MPI turns every MPI call into a transition of a per-process Markov model
whose states are call paths.  A helper thread in every process watches for a
long silence; when it sees one, the helper threads of all processes bring their
models to rank 0, which computes the least-progressed tasks.

The modules in this directory model that system from its source (`src/`, the
program itself is in `src/src/`).  `PROJECT.json` says which lines each
definition stands for, which runs check which property, and which hazards of
the code each property is about.

## 1. Inventory

| Component | Source | State | Operations |
|---|---|---|---|
| State factory | `model_components.*` | two tables, name -> id and id -> name, and a mutex | `createState`, `findAndGetName`, `findAndGetState` under the mutex; `packed_size`, `pack` without it |
| Transitions | `transitions.C`, `main_controller.C` | last state | record a transition before and after each MPI call, signal the helper |
| Markov model | `markov_model.h` | edges with counts and, per count, the set of ranks; last state; graph, closure, and the structures all searches share | `addEdge`, `updateEdgeTransitionCountTaskMap`, `transitionProbability`, `largestPathProbability` |
| Helper thread | `helper_thread.C` | mutex, condition, time of the last transition it saw | wait, time out, analyse between two barriers, exit or sleep |
| Tree reduction | `reduction.h` | loop variable per process | `reduce` over any object with `send` and `receive` |
| Reduction of last states | `state_reduction.*` | set of names | reduce, broadcast, order by name |
| Reduction of edges | `edge_reduction.*` | map of edges | copy, send with the factory, translate, add up |
| Table of task ranges | `range_set_table.*`, `range_set.*` | one set of ranks per last state | reduce by disjoint union |
| Analysis driver | `analysis_driver.C` | the above | the order of all of it; then, at the root alone, compression, loops, dependencies |
| Graph compression | `graph_model.C` | edges by source with annotations, sources by destination, simple adjacency, boundary nodes | add edges, remove small loops, merge chains, count rounds |
| Loop analysis | `graph_algorithm.C` | loops by node, edge and hash; back edges and characteristic edges | natural loops (dominators), Johnson's circuits, common loops of two states, order of loops, hops from an entry |
| Dependency matrix | `dependency_matrix.*`, `dep_matrix_mutator.*` | matrix of dependencies between last states | add, or, translate, remove cycles and undefined entries, states without dependencies |
| Call paths, output, configuration | `backtrace.*`, `io_utilities.*`, `timer.*`, `config.*`, `debugging.*` | - | I/O |

How they interact.  The application thread and the helper thread of a process
share the state factory and the Markov model (the copy that would separate them
is disabled, `helper_thread.C:163`) and one condition variable, which the
application thread signals without the mutex.  Helper threads of different
processes interact through MPI only: a gather, three tree reductions on one
communicator and one tag, a broadcast, and three barriers.

What is hard.  (1) Two threads on data that is only partly locked.  (2) A
condition variable without a predicate.  (3) A collective verdict that every
process reaches alone.  (4) Reductions that overlap in time on the same tag.
(5) Processes that number the same states differently.  (6) Processes that end
(`handleError`, `exit`) while others wait for them.  (7) At the root, graph
algorithms that change what they walk.  The hazards of `PROJECT.json` list each
at its line.

What makes each part correct: the factory hands out one dense id per name and
can always translate back; the helper calls a hang only after a silence and
never without all others; a reduction brings each contribution to the root
exactly once and ends for all; the reduced model is the sum of the models and
the table a partition of the ranks.  At the root, a search evaluates all the
paths there are; compression keeps the counts of rounds and who reaches whom;
the loops found are the loops of the graph; the passes over the matrix find the
states that are ahead of nobody; and together they name the processes that got
least far.

## 2. Modules

`StateRegistry` (abstract) and `StateFactory`.  Threads that call `createState`
take one step per access of a table: `Call`, `Lock`, `LookupFound` or
`LookupMissing`, `InsertName`, `InsertState`, `Unlock`; `FindName` is a lookup
by id of a state the thread was told.  The helper thread also packs: `PackedSize`,
`PackHeader`, one `PackEntry` per entry, `PackEnd`, `PackSent`, all without the
mutex.  The walk of a `std::map` during an insertion is undefined behaviour; the
model gives it the mildest outcome, a walk in the order of the ids that sees
what is there when it gets there.  `StateRegistry` says what callers rely on:
names get the numbers 1, 2, 3, ... once and for all, and a caller is told the
number of its name.  The refinement mapping reads the ids from the first table.

`HangDetection`.  Per process, `app` is the application thread (`Record` puts
the transition into the model, `Signal` calls `pthread_cond_signal`, `Hang` is
the end of its MPI calls) and `helper` is the position of the helper thread in
`helperThread`: `start` (about to set the deadline), `entering` (before
`pthread_cond_timedwait`), `waiting`, `woken` (it returned 0), `barrier1`,
`analysis`, `barrier2`, `exited`, `sleeping`.  Times are ages in seconds that
stop counting at the value the code compares them with: `expire` counts down to
`expireTime`, `seen` counts up from `lastTransition`.  A collective is left when
all processes entered theirs (`coll` counts entries).  `quiet` and `heard` are
history variables for properties.

`BinomialTree`, `BinomialReducer` and `Gather` (abstract).  `BinomialTree` is
the arithmetic of ranks, `BinomialReducer` the loop of `reduce` with a message
per `send`, `Gather` the promise to the root.  What an object has merged is the
set of the processes whose contribution it holds.

`AnalysisData` and `GatheredAnalysis`.  `AnalysisData` holds the data as values
and what the operations do to it: interning a name, adding an edge, annotating,
translating and adding the edges of another process, merging a table.
`GatheredAnalysis` is `gatheredLPTAlgorithm` up to its barrier in every process,
with the queues of messages between them; a message is the size and then the
data, as in the code, and `late` transitions of the application may come at any
time.  `phase` follows the function: `gather`, `lastState`, `annotate`, `states`
(reduction), `bcast`, `copy`, `edges` (reduction), `newTable`, `table`
(reduction), `barrier`, `done`.  Within `reduce`, `mask` and `io` say where.

`TaskSet` (abstract) and `RangeSet`.  `RangeSet` is the vector of ranges with
`operator+=` and `isPresent`.  `search` is a call of `findClosestRange` with its
bounds `first` and `last` (`SearchRight` and `SearchLeft` are the recursive calls,
`InsertAfter`, `InsertBefore` and `Fail` its results 1, -1 and the others);
`joinBefore` and `joinAfter` are the two blocks after the insertion; `look` is a
call of `isPresentInRangeSet`.  `TaskSet` says that adding is union of disjoint
sets, an error exactly on overlap, and asking is membership.  While an addition
is under way, the abstract set is the list without the ranges inserted so far.
It is what allows the other modules to use sets of ranks.

`MarkovModel`.  `AddEdge` is `addEdge` as a whole, which holds the mutex.  A query
holds it too but is taken apart, since what can go wrong is in the recursion:
`Begin` clears what the last query left and decides whether to search, then each
step is one call of `DFSearch` (`Cut` by the counter, `Cycle`, `Found`, `Expand`)
or the return from one (`Leave`), and `Answer` is the end.  `remaining` is the
stack of active calls, each with the neighbours it still has to call itself on;
their order, that of boost's `setS`, is left open.  The counter of calls is
counted up to one past the limit, where it has no further effect.
`TransitionProbability` is the answer, as a fraction.

`LeastProgress` (abstract) and `DependencyMatrix`.  A matrix is put together from
rows (`BuildRow`, then `ReceiveRow` for rows of others, or-ed in) and walked three
times, entry by entry, by `RemoveCycle`, `RemoveUndefined` and `FindFree`; `Walk`
is the iterator.  `LeastProgress` speaks of who is ahead of whom: contradictions
are resolved, and the answer is the states ahead of nobody.  The refinement reads
`i` ahead of `j` as a 1 at (i,j) or a 2 at (j,i), so that turning a 2 round is a
stutter.  In both, three states that are ahead of one another in a ring leave no
answer at all: the code removes pairs only.

`GraphModel`, `Compression`, `LoopAnalysis`, `RootAnalysis`: the root after the reductions.
`GraphModel` is `Graph_Adjacency`; its two depth-first passes edit the maps they
walk, so `Visit` is one node, with the recursion as a stack, and the chain
`followChainInGraph` recurses along is the sequence of the nodes it looks at.
`Compression` is what `gatheredLPTAlgorithm` does with that class: `BuildGraph`,
`MarkBoundary`, `Compress` (both passes), and from then on `ReadGraph`.  It begins
with any finite number of processes, any walks they took through the root's states,
and the model that is the sum of these walks.  `LoopAnalysis` is class `loopAnalysis`
as operators on the graph, with the loops and the characteristic edges as state.
`RootAnalysis` composes them with the operators of `DependencyMatrix`: `PrepareGraph`
(the steps of `Compression`), `FindLoops`, `BuildEntry` for each entry of the matrix,
`Resolve` (the three passes of `DependencyMatrix`), `PrintTasks`.  It begins with what
each process recorded, in names, and computes the walks, the merged model, the vector and
the table with the operators of `AnalysisData`, in the order in which a root receives when
every other rank sends to it.  `phase = "endless"` is a call of `giveMeHops` that never returns.

A walk begins in the first state and never comes back to it: `afterInit` creates that
state once (`main_controller.C:104-113`), from a call path that ends in the wrapper of
`MPI_Init` or `MPI_Init_thread` (`wrap_template.w:16-54`), and no other wrapper has that
call path.  It has two states or more: a process without a transition brings no edge.

## 3. Runs

| Run | Instance | What it shows |
|---|---|---|
| `state_factory` | 2 application threads, helper, 3 names | tables inverse outside `createState`; lookups succeed; an unlocked pack sends everything that was there when sizing began; refinement of `StateRegistry` |
| `factory_pack_race` | the same | *violation*: what `pack` writes may exceed what `packed_size` computed |
| `hang_detection` | 2 processes, timeout 2 s, wait 1 s, 2 rounds, 1 spurious wake-up | nobody gives up alone; collectives pair up; a heard signal defers the alarm; a hang of all is reported |
| `lost_wakeup` | 1 process | *violation*: an alarm although a transition was signalled within the timeout |
| `binomial_reduction` | 9 processes, root 4 | contributions held once; refinement of `Gather`; all return |
| `gathered_analysis` | 4 processes, 1 late transition | phases match; same vector everywhere; table is a partition; edges are the sum; no overlap; the last reduction implements `BinomialReducer` |
| `analysis_ends` | 3 processes, with and without transitions | all get through, unless one gives up |
| `range_set` | 9 tasks, operands of 1 or 2 ranges | list sorted and joined between calls; number of tasks and lowest item right; refinement of `TaskSet`; both searches end |
| `markov_search` | 3 states, 5 transitions, limit 8 | found paths are real; all are found below the limit, none after it; probabilities add up to at most one |
| `dependency_matrix` | 1 to 3 states, all matrices | no entry 2 or 3 after the second pass; refinement of `LeastProgress` |
| `root_analysis` | 3 processes that stop anywhere on a path through nested loops; 2 on another path with a loop of one state, a chain and a loop of three; 2 on walks of their own; 2 that number states badly; with and without compression and Johnson's algorithm | counts of rounds balance at every node while the graph is compressed; compression keeps who reaches whom; loops are right; the least-progressed processes are found |
| `hop_walk` | 2 processes through nested loops with a branch | *violation*: the walk for hops goes round a loop for ever |

Bounds.  Three names and three threads contain two threads racing for one name
while the third packs.  In `HangDetection`, times above the timeout are not told
apart, `MaxRounds` = 2 lets a process come back from a round
(`AUT_DO_NOT_EXIT`), and the wait is shorter than the timeout, as 3 s is shorter
than 60 s, so that a timeout too early happens.  Nine processes with root 4 have a
tree that is not full and ranks that wrap around.  Four processes in the
analysis give an inner node that is both receiver and sender, two levels and
trails in which the same names get different ids, an edge is taken by several
ranks as often, and one late transition brings a name nobody else knows.  Three
processes, the odd number of `analysis_ends`, give the level at which a process
has no partner.  Nine tasks make lists of up to five ranges: parts of one to five
elements for the searches, with neighbours that touch, are apart or overlap.
Three states have paths with and without a detour, cycles and loops of one state;
a limit of eight calls (1000 in the code) is passed in the second or third query, in
the middle of a path as well as between two.  Three states make both the pairs that the
first pass removes and the ring it does not.  The trails of `root_analysis` were
chosen for what the compression and the loops tell apart: a small loop in which
nobody waits and one in which somebody does, chains inside and outside of loops, a loop
with two back edges, a loop of one state, branches that join, a root whose own
trail is shorter than the others' so that ids do not follow the program.  With up to
three ranks all others send to the root.  The limit of 500 calls of `circuit` is the
code's and is not reached.
Deadlock is not checked in these runs: the program does stop (all done, exited
or, with a fault, blocked); the liveness properties say when it may.

Fairness.  Threads that can run do run, and time passes.  Nothing makes the
application call MPI.  A spurious wake-up is never owed.  A send is only sure to
return once its message was received: MPI may buffer or not.  The liveness of
`GatheredAnalysis` is a run of its own on shorter trails, without late
transitions, since the tableau makes it slow.

## 4. What the violations say

`lost_wakeup`.  `helper_thread.C:145-146` says the test is for "a long time
between a transition".  `signalCondition` signals without the mutex (the lock is
commented out) and there is no predicate, so a signal counts only when the
helper is inside `pthread_cond_timedwait`.  The shortest behaviour: a second
passes before the helper waits first, a transition is recorded and signalled
then, and one second later the alarm is raised, with a timeout of two seconds.
`HeardSignalDefersAlarm` is what does hold, and it is proved.

`factory_pack_race`.  `model_components.h:88` calls all public functions thread
safe.  `packed_size` and `pack` do not lock.  A state created between them makes
`pack` write more than the buffer is sized for; `MPI_Pack` then aborts.  What
does hold is `ReceiverKnowsSizedStates`: no state that was there is left out.

`hop_walk`.  `graph_algorithm.C:728-736` argues that the smallest predecessor of a node
is always the one it is first reached from, "since all the nodes are numbered in
increasing order".  At the root they are not: the reduction of last states gives ids
to the last states of the others before the reduction of edges does to the rest.  In
the run, rank 1 waits at the end of an inner loop whose state so gets a smaller id
than the state that leads into the loop.  The loop's back edge is then taken for the way to
the entry, the walk goes round the inner loop and never meets the entry of the outer
one; `giveMeHops` has no test for that.  The root never prints its result.

Two more disagreements, without a run of their own.  `markov_model.h:564-566`
promises to evaluate all the possible paths; after a thousand calls in the life of the
process the static counter of `DFSearch` makes every query answer zero
(`CutFindsNothing` and `SearchIsExhaustive` say exactly what holds).
And outside of what `LeastProgressFound` demands (one way into a state and one back
to it, equal trails for processes in the same state) the ranking is a heuristic: with two back
edges to one header, trails such as 1,2,3,2,3 and 1,2,3,2,3,4,2 are ranked the wrong
way round, since the edge that counts rounds is one the process at the header has yet
to take again.

## 5. Proofs

Each proof module extends the module it is about.

`StateFactory_proofs`: for any set of threads and any finite set of names, the
types, `TablesAreInverse`, `LookupNeverFails`, and that the factory implements
the registry.  The inductive invariant adds what the steps rely on: only the
owner of the mutex is inside `createState`; ids in use are `1 .. k`; the tables
are inverse but for one name, the one that the thread between `InsertName` and
`InsertState` is about to enter; what a thread was told is in the table.
`InsertName` is the step that implements `Register`, `Unlock` implements
`Answer`, all others stutter.  `ReceiverKnowsSizedStates` needs a second invariant,
`PackInv`: ids in the table are a prefix `1 .. k` that only grows and the buffer
holds 1, 2, 3, ..., so that what was counted is at most the header and the header at
most what is packed.

`HangDetection_proofs`: for any set of processes and any times, the types,
`UnanimousVerdict`, `CollectivesMatch`, `HeardSignalDefersAlarm`.  The invariant
ties `coll` to `rounds` and to the place of the helper (each round is three
collectives, or one with `AUT_NO_BARRIER`), says that no process is more than one
collective ahead, and that the age of the last heard signal is never below what the
helper believes unless it is about to observe it.

`CommonLemmas` holds what several proofs need and the library does not state in a form these
provers can use.  Its induction theorems take an operator, which no installed prover
instantiates; `SetInduction` takes a set of numbers instead, and `FoldsAgree` says that two
functions of the subsets of a finite set are equal when they agree on the empty set and follow the
same step.  With them a function defined by recursion is known to exist (`RecursionExists`), and a
sum that a fold computes is shown to be a number of elements: `SumOver(f, S)` counts the pairs of
an `x` in `S` and one of `f[x]` units, `ProductOver(f, S)` the ways to choose an element of
`f[x]` for every `x`.  So the laws of sums and products come from those of cardinalities.
Three facts about `%` and `\div` are the arithmetic of masks; the provers get linear arithmetic
only.

`BinomialReducer_proofs`: for any number of processes and any root, the types,
`EachContributionHeldOnce`, that the reduction implements `Gather`, and that renumbering
relative to the root is a bijection.  The invariant describes the loop variable as a power of two dividing the relative
rank.  That contributions are held once is itself inductive given the types, as a
receive moves a set and a send puts it into a message; that the root is done only
when it holds everything follows because only the root can get through the loop
without sending.

`RangeSet_proofs`: for any number of tasks and any operands, the types (among them
that each position is in the vector), `CanonicalBetweenCalls`, and that `RangeSet`
implements `TaskSet`.  The invariant says that the list is sorted at every moment
and free of touching neighbours but at the place of the insertion (`Ordered`), that
what a search has left out lies on the side it was left out on (`SearchBounds`,
`LookBounds`), that only a list of one range is searched with `first = last`, and
that the ranges of the operand inserted so far are in the list.  From it follow
that the place found fits (`InsertAfterFits`, `InsertBeforeFits`) and so that the
range was disjoint; that an error is a common task of the two sets; and the
answer of `isPresent`.  What inserting, removing and joining do to a list and to
the tasks it stands for are lemmas of their own.  `SummariesAreRight` follows from
`CanonicalBetweenCalls`: the ranges of such a list are disjoint intervals, so the sum of their
lengths counts the tasks, and the first range holds the lowest.

`MarkovModel_proofs`: for any finite set of states and any limit, the types, `PathsAreReal`,
`CutFindsNothing`, `SearchIsExhaustive` and `SumAtMostOne`.  The invariant relates the recursion to
the path: the vector is a path without repetition from the source, its states are the visited
ones, and there is one entry of `remaining` for each.  That no path is missed is an invariant of
the search in progress: each simple path from source to destination is already found, or it agrees
with the vector up to some active call that has its next state still to make.  With the closure a
search may be skipped; this is right because a closure that is kept is that of the present edges
(`ClosureRight`: `addEdge` throws it away), and because the closure, computed in as many rounds as
there are states, holds the ends of every simple path (`ClosureOfPath`).  The sum of the
probabilities is a sum of products, with no inductive bound along the search that would give it.
It is a count instead: let every state choose one of the transitions counted out of it.  There are
`Denominator` ways to choose (`DenominatorCounts`), a path is followed in as many of them as its
probability says (`PathCounts`: its states are distinct, so their choices are independent), and
two paths from the same source to the same destination are not followed in the same way
(`PathsApart`: none is a prefix of the other).  So the sum counts distinct ways and is no larger
than their number.  That paths pass no state twice is thus what the sum depends on.

`RootAnalysis_proofs`, first part, the matrix: for any dimension, the types, `OnlyPlainLeft` and
`ImplementsRanking`.  The invariant says, of the entries the walk has passed, what the pass
has made of them, and of those it has not, what earlier passes left: in the second pass a
passed entry is 0 or 1 although entries behind the walk are still written, because only a 1 is
ever written there; in the third, `free` holds the states without a 1 in the part of the
matrix that was passed.

`RootAnalysis_proofs`, second part, the compression: for any finite number of processes and walks
of any length, the types of `Compression`, `FlowConserved` and `ReachabilityKept`.  The two
properties are not inductive: each step removes edges whose right to go rests on the other.  The
invariant is that the graph is `Sound`: no edge leads to the first state; every edge can be
reached from it; every process's counts are even at every node where nobody waits; and the ways
from last states and the first state to last states are those of the model.
The model itself is sound because a walk leaves a state as often as it comes, but for its two ends
(`WalkEven`), and an annotation of the sum gives back each process's own count (`RoundsOfModel`).
(1) What `eliminateSmallLoops` takes for a loop of two nodes is one with a single way in and a
single way out (`SmallLoopIs`).  The code also foresees a loop without a way out; counts exclude it:
what comes in over the edge from outside could not leave again.  The edge into the loop gets the
annotation of the edge out of it, and the count over both is the same (`LoopFlow`), so the nodes
stay even, and nothing but the removed edge depended on it (`LoopCutCovers`, `LoopCutWay`).
(2) What `followChainInGraph` runs through is a `Run` of edges, each the only one out of its node and,
but for the first, the only one into it.  It meets no node twice (`RunDistinct`), hence ends after no
more steps than there are sources, which is what makes the recursion's end exist; it cannot close to a
ring, as a ring would not be reached from the first state; and all its edges have the same count
(`RunEven`), so that the annotation of any of them, the code takes that of the largest id, will do.
(3) Both passes trust `nodeDestMap`.  In the first pass it is exact, and `eliminateSmallLoops` keeps it
so.  The second pass leaves it alone while it removes edges and adds others; what it needs is less
(`Suffice`): a node for which the map names at most one source has at most one edge into it.  A new edge
leads to a node to which an edge is removed in exchange, so that is kept.
`FlowConserved` would be false of walks that come back to the first state: after 1,2,1,3,2,1,3,4 the
states 2 and 1 are taken for a small loop, and processes leave the first state once more than they come.

`Compression` is proved alone, in the variables of `RootAnalysis`, since the latter reaches recursive
operators.  Its theorems hold there because `RootAnalysis` begins where `Compression` may
begin (`TypeOK` says so of the first phase), because `PrepareGraph` is `BuildGraph`,
`MarkBoundary` or `Compress` word for word, because `FindLoops`, `BuildEntry` and `PrintTasks` change at
most `phase`, as `ReadGraph` does, and `Resolve` nothing.  TLC agrees: `MCRootAnalysis` with `PROPERTY
GraphSpec` in place of its invariants passes.

`GatheredAnalysis_proofs`: for any number of processes, any trails and any number of late
transitions, every invariant of the run and the refinement.  The inductive invariant has two
parts.  The control part: a mask is a power of two and divides the rank of a process that still
takes part; of each of the three reductions the invariant counts, for every edge of the tree, the
messages its lower end has sent and its upper end has taken, from their places alone, and says
that the queue holds exactly the difference, in order, size before data.  `PhasesMatch`
follows: nothing in the messages tells the reductions apart, it is their number that does.
The data part says whose data a process or a message holds, in each reduction: the ranks from its
own on, as many as its mask (`Span`).  Tables of different ranks are disjoint because they list
only ranks of the span, hence `RangeSetsNeverOverlap`; a broadcast vector is the list of the last
states in everybody's own ids, hence `SameVectorEverywhere`; with all spans joined at the root,
`TableIsPartition`.  The data part rests on the control part, since whose data arrives depends on which message is
taken.  A second
invariant, `EdgeSums`, is about counts: the edges a process holds are, by names, the sum of what the
ranks of its span contributed, whatever ids each process gave to the names; merging disjoint spans adds
two sums.  `EdgesSummed` is that for the root.  The last reduction implements `BinomialReducer`
under the mapping of `Mapping`: before it, a process stands at the beginning of its loop, and
messages of earlier reductions are invisible, so all earlier steps stutter.

Assumptions: only those on the constants, `FactoryAssumption`, `HangAssumption`,
`TreeAssumption`, `AnalysisAssumption`, `RangeSetAssumption`, `MarkovAssumption`,
`DimsAssumption`.

`Compression` has no constants; its initial states are all those that walks as
described in section 2 lead to.

Only model-checked: all liveness (fairness and `ENABLED` are beyond the provers); of `RootAnalysis`,
the parts of `TypeOK` about loops, matrix and output, `LoopsAreRight` and `LeastProgressFound`, which speak of what recursive
operators compute (Johnson's circuits, natural loops, hops, sums along paths).  Induction in the proofs
is over sets and functions, never over an operator.

## 6. Abstractions and what is not modelled

- Names are model values or numbers; a factory in `AnalysisData` is the sequence
  of its names, which is what `StateFactory` justifies.
- A transition is two steps (record, signal) in `HangDetection`, several in
  `StateFactory`, and one in `GatheredAnalysis`; there, copying the model's edges
  is one step and so is packing.
- RangeSets are sets of ranks in `AnalysisData`, with the error of `operator+=`
  when they overlap, as `RangeSet` justifies; `RangeSet` does not model `toString`
  and the packing of its pairs of numbers, nor empty lists, which nobody makes.
  That copies of an annotation share RangeSets (`model_components.C:361-365`) has
  no effect within one round: the model's edges are not read again after they
  were copied.
- The broadcasts of size and data are one.
- The gather of `printTaskAndProcessIDMap` always runs, as the code's test
  (`utilities.C:111`) returns only when a parameter is both set to false and absent.
  `AUT_DUMP_MM_PER_RANK`, which ends all processes on purpose, is left out.
- A process that calls `handleError` stops; MPI does not stop the others here.
- Environment flags are the same in all processes.
- `RootAnalysis` starts with what the reductions give, without late transitions; the
  order of the sends of more than three ranks is that of `GatheredAnalysis`, to which it
  is not yet joined.  Its queries of probabilities are answered by reachability and by
  whether all ways lead there (zero, part, one), since `translateDepFromProbability`
  tells no more apart, with a sum of doubles that may miss one; the limit of `DFSearch`
  is in `MarkovModel` only.
- Loops have different hashes, and the order of the hashes is left open.  Dominators
  come from boost and the sort from the standard library (a merge sort from the front).
  A natural loop's list is the order in which its nodes were met; neighbours in it need
  not be joined by an edge, in the code as in the model.
- `EdgeInfoContainer::operator<` has no return statement
  (`model_components.C:610-613`).  The modules take the outcome of a build without
  optimisation, which the CMake files produce by default: the result of the comparison it made.  An optimised
  build may do anything there.
- The first of an empty set of edges (`graph_algorithm.C:1050`) is an edge nobody has.
- Not modelled: `distributedLPTAlgorithm` but for its matrix, `buildDepMatrixLocally` and
  `IntraReducer` (never called; `AUT_USE_DISTRIBUTED_ANALYSIS` is read and ignored), the
  walk of the native stack, output, timers, signal handlers (not registered),
  the GUI, the wrapper generator, tests and examples.

## 7. Plan

Done: (1) state factory, (2) hang detection, (3) tree reduction, (4) the
distributed analysis, (5) range sets, (6) the dependency matrix, (7) the Markov
model's searches, (8) compression, loops and the root's analysis, with the proofs above.

Next: a second round of the analysis (`AUT_DO_NOT_EXIT`) on shared RangeSets and tables
of loops that are never cleared; `HangDetection` composed with `GatheredAnalysis`, and
`GatheredAnalysis` with `RootAnalysis`.

Theorems to prove next: that the lists of natural loops and circuits are loops, for every graph, once
these walks are written as recursive functions.
