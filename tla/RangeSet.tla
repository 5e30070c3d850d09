------------------------------- MODULE RangeSet -------------------------------
(***************************************************************************)
(* A set of tasks (MPI ranks) as a sorted vector of ranges, class          *)
(* RangeSet.  operator+= inserts the ranges of its operand one by one:     *)
(* findClosestRange looks for the place by binary search, then the new     *)
(* range is joined with the neighbours it touches.  isPresent is a second, *)
(* different binary search.  A step is one recursive call or one of the    *)
(* blocks between them.  Positions count from 1, where the code counts     *)
(* from 0.  Operands are lists that other calls made: operator+, copies    *)
(* and unpack bring them here as they are.                                 *)
(***************************************************************************)
EXTENDS Integers, Sequences, SequencesExt, FiniteSets

CONSTANTS MaxTask,    \* the tasks are 0 .. MaxTask
          Operands    \* the range lists that are added

Tasks == 0 .. MaxTask
Ranges == {r \in [low : Tasks, high : Tasks] : r.low <= r.high}

(* The ranges of a list are sorted and do not even touch. *)
Apart(x, y) == x.high + 1 < y.low
Canonical(list) == \A i, j \in DOMAIN list : i < j => Apart(list[i], list[j])

ASSUME RangeSetAssumption ==
  /\ MaxTask \in Nat
  /\ \A list \in Operands :
       list \in Seq(Ranges) /\ list # <<>> /\ Canonical(list)

VARIABLES
  rangeList,   \* the ranges of the set
  operand,     \* the rangeList of operator+='s operand
  next,        \* the range of the operand that is being inserted
  val,         \* the argument of isPresent
  first,       \* the bounds of the part of rangeList the search is in
  last,
  spot,        \* where the new range is in rangeList
  pc,
  answer       \* what the last isPresent returned

searching == <<first, last, spot>>
calling == <<operand, next, val, answer>>
vars == <<rangeList, operand, next, val, first, last, spot, pc, answer>>

None == 0

Init ==
  /\ \E r \in Ranges : rangeList = <<r>>
  /\ operand = <<>>
  /\ next = 1
  /\ val = None
  /\ first = 1 /\ last = 1 /\ spot = 1
  /\ pc = "idle"
  /\ answer = FALSE

Idle ==
  /\ pc' = "idle"
  /\ operand' = <<>>
  /\ next' = 1
  /\ val' = None
  /\ first' = 1 /\ last' = 1 /\ spot' = 1

-----------------------------------------------------------------------------
(* operator+= *)

(* The whole list is searched for the place of the next range, if any. *)
Search(list) ==
  /\ pc' = "search"
  /\ first' = 1 /\ last' = Len(list) /\ spot' = 1

Add(list) ==
  /\ pc = "idle"
  /\ operand' = list
  /\ Search(rangeList)
  /\ UNCHANGED <<rangeList, next, val, answer>>

range == operand[next]

GoesAfter(i) == range.low > rangeList[i].high
GoesBefore(i) == range.high < rangeList[i].low

(* Mutant: the search goes on until its part has one element. *)
LeafIsOneElement == first = last

Leaf == first = last - 1
Middle == first + ((last - first + 1) \div 2)

SearchRight ==
  /\ pc = "search"
  /\ ~Leaf
  /\ GoesAfter(Middle)
  /\ Middle < Len(rangeList)
  /\ first' = Middle
  /\ UNCHANGED <<rangeList, last, spot, pc, calling>>

SearchLeft ==
  /\ pc = "search"
  /\ ~Leaf
  /\ GoesBefore(Middle)
  /\ Middle > 1
  /\ last' = Middle
  /\ UNCHANGED <<rangeList, first, spot, pc, calling>>

(* Mutant: it is enough that the range begins behind the first element. *)
FoundAfterStart(i) ==
  IF Leaf THEN \/ i = first /\ GoesAfter(first) /\ ~GoesAfter(last)
               \/ i = last /\ GoesAfter(last)
  ELSE i = Middle /\ GoesAfter(i) /\ i = Len(rangeList)

(* The search ends: the range belongs right after or right before i ... *)
FoundAfter(i) ==
  IF Leaf THEN \/ i = first /\ GoesAfter(first) /\ GoesBefore(last)
               \/ i = last /\ GoesAfter(last)
  ELSE i = Middle /\ GoesAfter(i) /\ i = Len(rangeList)

FoundBefore(i) ==
  IF Leaf THEN i = first /\ GoesBefore(first)
  ELSE i = Middle /\ GoesBefore(i) /\ i = 1

(* ... or it overlaps one of the list, which ends the process. *)
Overlapping ==
  IF Leaf THEN /\ ~GoesBefore(first)
               /\ ~GoesAfter(last)
               /\ ~(GoesAfter(first) /\ GoesBefore(last))
  ELSE ~GoesAfter(Middle) /\ ~GoesBefore(Middle)

InsertRange(at) ==
  /\ rangeList' = InsertAt(rangeList, at, range)
  /\ spot' = at
  /\ pc' = "joinBefore"
  /\ UNCHANGED <<first, last, calling>>

InsertAfter ==
  /\ pc = "search"
  /\ \E i \in {first, last, Middle} : FoundAfter(i) /\ InsertRange(i + 1)

InsertBefore ==
  /\ pc = "search"
  /\ \E i \in {first, Middle} : FoundBefore(i) /\ InsertRange(i)

Fail ==
  /\ pc = "search"
  /\ Overlapping
  /\ pc' = "error"
  /\ UNCHANGED <<rangeList, searching, calling>>

(* Mutant: only ranges that overlap by one are joined. *)
areJoinableOnOverlap(x, y) == x.high = y.low

areJoinable(x, y) == x.high + 1 = y.low
joinRanges(x, y) == [low |-> x.low, high |-> y.high]

(* The ranges at i and i + 1 become one, at position i. *)
JoinAt(list, i) ==
  RemoveAt([list EXCEPT ![i + 1] = joinRanges(list[i], list[i + 1])], i)

(* Mutant: the position is not corrected after the join (no j--). *)
JoinBeforeKeepsSpot ==
  /\ pc = "joinBefore"
  /\ rangeList' = IF spot > 1 /\ areJoinable(rangeList[spot - 1], rangeList[spot])
                  THEN JoinAt(rangeList, spot - 1)
                  ELSE rangeList
  /\ pc' = "joinAfter"
  /\ UNCHANGED <<spot, first, last, calling>>

JoinBefore ==
  /\ pc = "joinBefore"
  /\ IF spot > 1 /\ areJoinable(rangeList[spot - 1], rangeList[spot])
     THEN rangeList' = JoinAt(rangeList, spot - 1) /\ spot' = spot - 1
     ELSE UNCHANGED <<rangeList, spot>>
  /\ pc' = "joinAfter"
  /\ UNCHANGED <<first, last, calling>>

(* The last block of the loop's body, with the step to the next range. *)
JoinAfter ==
  /\ pc = "joinAfter"
  /\ IF spot < Len(rangeList) /\ areJoinable(rangeList[spot], rangeList[spot + 1])
     THEN rangeList' = JoinAt(rangeList, spot)
     ELSE UNCHANGED rangeList
  /\ IF next < Len(operand)
     THEN next' = next + 1 /\ Search(rangeList') /\ UNCHANGED <<operand, val>>
     ELSE Idle
  /\ UNCHANGED answer

-----------------------------------------------------------------------------
(* isPresent *)

Ask(v) ==
  /\ pc = "idle"
  /\ val' = v
  /\ pc' = "look"
  /\ first' = 1 /\ last' = Len(rangeList) /\ spot' = 1
  /\ UNCHANGED <<rangeList, operand, next, answer>>

Holds(i) == rangeList[i].low <= val /\ val <= rangeList[i].high
Outside == val < rangeList[first].low \/ rangeList[last].high < val
Narrow == ~Outside /\ first # last /\ \A i \in {first, last, Middle} : ~Holds(i)
LeftHalf == val < rangeList[Middle].low

Return(found) ==
  /\ answer' = found
  /\ Idle
  /\ UNCHANGED rangeList

LookFound ==
  /\ pc = "look"
  /\ ~Outside
  /\ \/ Holds(first)
     \/ Holds(last)
     \/ first # last /\ Holds(Middle)
  /\ Return(TRUE)

LookMissing ==
  /\ pc = "look"
  /\ \/ Outside
     \/ first = last /\ ~Holds(first)
     \/ Narrow /\ Middle = (IF LeftHalf THEN 1 ELSE Len(rangeList))
  /\ Return(FALSE)

LookLeft ==
  /\ pc = "look"
  /\ Narrow
  /\ LeftHalf
  /\ Middle # 1
  /\ last' = Middle - 1
  /\ UNCHANGED <<rangeList, first, spot, pc, calling>>

LookRight ==
  /\ pc = "look"
  /\ Narrow
  /\ ~LeftHalf
  /\ Middle # Len(rangeList)
  /\ first' = Middle + 1
  /\ UNCHANGED <<rangeList, last, spot, pc, calling>>

-----------------------------------------------------------------------------
Step ==
  \/ SearchRight \/ SearchLeft
  \/ InsertAfter \/ InsertBefore \/ Fail
  \/ JoinBefore \/ JoinAfter
  \/ LookFound \/ LookMissing \/ LookLeft \/ LookRight

Next ==
  \/ \E list \in Operands : Add(list)
  \/ \E v \in Tasks : Ask(v)
  \/ Step

Spec == Init /\ [][Next]_vars

(* A call that was made runs on; nothing makes the program call. *)
FairSpec == Spec /\ WF_vars(Step)

-----------------------------------------------------------------------------
(* What the list stands for, and what is computed from it. *)
TasksOf(r) == r.low .. r.high
Denotes(list) == UNION {TasksOf(list[i]) : i \in DOMAIN list}

(* Mutant: the bounds of a range are not both counted. *)
getNumberOfTasksHalfOpen ==
  FoldLeft(LAMBDA sum, r : sum + (r.high - r.low), 0, rangeList)

getNumberOfTasks ==
  FoldLeft(LAMBDA sum, r : sum + (r.high - r.low + 1), 0, rangeList)

lowestItem == rangeList[1].low

(* The types; the positions the code uses as indexes are in the vector.    *)
TypeOK ==
  /\ rangeList \in Seq(Ranges) /\ rangeList # <<>>
  /\ pc \in {"idle", "search", "joinBefore", "joinAfter", "error", "look"}
  /\ operand \in Seq(Ranges)
  /\ operand = <<>> <=> pc \in {"idle", "look"}
  /\ next \in Nat
  /\ IF operand = <<>> THEN next = 1 ELSE next \in DOMAIN operand
  /\ val \in Tasks
  /\ pc \in {"search", "look"} =>
       first \in DOMAIN rangeList /\ last \in first .. Len(rangeList)
  /\ spot \in DOMAIN rangeList
  /\ answer \in BOOLEAN

(* Between two calls the ranges are sorted, disjoint and maximal: ranges   *)
(* that touch were joined, on both sides of each insertion.  Both binary   *)
(* searches and the output of the tool rely on it.                         *)
CanonicalBetweenCalls == pc \in {"idle", "look"} => Canonical(rangeList)

(* The number of tasks, which the output gives for each state, is the size *)
(* of the set, and the lowest item, the process whose counts the analysis  *)
(* compares, is its least element.                                         *)
SummariesAreRight ==
  pc = "idle" =>
    /\ getNumberOfTasks = Cardinality(Denotes(rangeList))
    /\ lowestItem \in Denotes(rangeList)
    /\ \A t \in Denotes(rangeList) : lowestItem <= t

(* operator+= is the union of disjoint sets, an overlap is an error and    *)
(* never anything else, and isPresent is membership.                       *)
Adding == pc \in {"search", "joinBefore", "joinAfter", "error"}
Inserted == IF pc = "joinBefore" \/ pc = "joinAfter" THEN next ELSE next - 1

Abstract ==
  INSTANCE TaskSet WITH
    tasks <- Denotes(rangeList) \ Denotes(SubSeq(operand, 1, Inserted)),
    call <- CASE pc = "idle" -> "none" [] pc = "look" -> "ask"
              [] pc = "error" -> "error" [] OTHER -> "add",
    given <- IF pc = "look" THEN {val} ELSE Denotes(operand)

ImplementsTaskSet == Abstract!Spec

(* Both searches end, so that each call returns or ends the process.       *)
CallsReturn == pc \notin {"idle", "error"} ~> pc \in {"idle", "error"}
==============================================================================
