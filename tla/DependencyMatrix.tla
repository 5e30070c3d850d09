--------------------------- MODULE DependencyMatrix ---------------------------
(***************************************************************************)
(* The matrix of dependencies between the last states (DependencyMatrix),  *)
(* how it is put together, and the three passes of DepMatrixMutator, which *)
(* walk it entry by entry and edit it while they walk.                     *)
(*                                                                         *)
(* An entry is a set of two bits: 1, the row depends on (is ahead of) the  *)
(* column, 2, the column on the row; 0 is no dependency and 3 undefined.   *)
(***************************************************************************)
EXTENDS Naturals

CONSTANT Dims   \* dimensions the matrix may have

ASSUME DimsAssumption == Dims \subseteq Nat \ {0}

VARIABLES
  dim,      \* number of states
  matrix,   \* the entries, by row and column
  pass,     \* "build", "reduce", "cycles", "undefined", "find", "done"
  row,      \* DependencyMatrixIterator: i
  col,      \* and j
  free      \* the set findStatesWithoutDependencies works on

vars == <<dim, matrix, pass, row, col, free>>

Indices == 0 .. dim - 1
Deps == 0 .. 3
Zero == [i \in Indices |-> [j \in Indices |-> 0]]

Init ==
  /\ dim \in Dims
  /\ matrix = Zero
  /\ pass = "build"
  /\ row = 0
  /\ col = 0
  /\ free = {}

(* addDependency, on a matrix. *)
WithDependency(m, i, j, d) == [m EXCEPT ![i][j] = d]

(* The rows a process can fill in for its own last state s. *)
RowsOf(s) == {entries \in [Indices -> Deps] : entries[s] = 0}

(* buildDepMatrix: a process relates its own last state to all the others. *)
BuildRow(s) ==
  /\ pass = "build"
  /\ \E entries \in RowsOf(s) : matrix' = [matrix EXCEPT ![s] = entries]
  /\ pass' = "reduce"
  /\ UNCHANGED <<dim, row, col, free>>

(* MUTANT of Or: entries are added up. *)
OrAdds(a, b) == a + b

Bit(n, b) == (n \div b) % 2 = 1
Or(a, b) == (IF Bit(a, 1) \/ Bit(b, 1) THEN 1 ELSE 0) + (IF Bit(a, 2) \/ Bit(b, 2) THEN 2 ELSE 0)

(* receive, updateLocalData: what other processes found is or-ed in.  A matrix
   that arrives is received one row at a time. *)
ReceiveRow(s) ==
  /\ pass = "reduce"
  /\ \E entries \in RowsOf(s) :
       matrix' = [matrix EXCEPT ![s] = [j \in Indices |-> Or(matrix[s][j], entries[j])]]
  /\ UNCHANGED <<dim, pass, row, col, free>>

Reduced ==
  /\ pass = "reduce"
  /\ pass' = "cycles"
  /\ UNCHANGED <<dim, matrix, row, col, free>>

-----------------------------------------------------------------------------
(***************************************************************************)
(* The walks.                                                              *)
(***************************************************************************)

(* MUTANT of Walk: a walk ends before the last row. *)
WalkEndsEarly(next) ==
  LET r == IF col + 1 = dim THEN row + 1 ELSE row
      c == IF col + 1 = dim THEN 0 ELSE col + 1
      isDone == r + 1 >= dim /\ c = 0
  IN /\ row' = IF isDone THEN 0 ELSE r
     /\ col' = c
     /\ pass' = IF isDone THEN next ELSE pass

(* nextState and isDone; the next pass starts with firstState. *)
Walk(next) ==
  LET r == IF col + 1 = dim THEN row + 1 ELSE row
      c == IF col + 1 = dim THEN 0 ELSE col + 1
      isDone == r = dim /\ c = 0
  IN /\ row' = IF isDone THEN 0 ELSE r
     /\ col' = c
     /\ pass' = IF isDone THEN next ELSE pass

Current == matrix[row][col]

(* removeCycles at one entry. *)
RemoveCycle ==
  /\ pass = "cycles"
  /\ matrix' = IF col > row /\ Current > 0 /\ Current = matrix[col][row]
               THEN WithDependency(WithDependency(matrix, row, col, 0), col, row, 0)
               ELSE matrix
  /\ Walk("undefined")
  /\ UNCHANGED <<dim, free>>

(* MUTANT of RemoveUndefined: the dependency is dropped, not turned around. *)
RemoveUndefinedDrops ==
  /\ pass = "undefined"
  /\ matrix' = IF Current \in {2, 3} THEN WithDependency(matrix, row, col, 0) ELSE matrix
  /\ Walk("find")
  /\ free' = IF pass' = "find" THEN Indices ELSE free
  /\ UNCHANGED dim

(* removeUndefinedDependencies at one entry; findStatesWithoutDependencies then
   starts with the set of all states. *)
RemoveUndefined ==
  /\ pass = "undefined"
  /\ matrix' = CASE Current = 3 -> WithDependency(matrix, row, col, 0)
                 [] Current = 2 -> WithDependency(WithDependency(matrix, row, col, 0), col, row, 1)
                 [] OTHER -> matrix
  /\ Walk("find")
  /\ free' = IF pass' = "find" THEN Indices ELSE free
  /\ UNCHANGED dim

(* findStatesWithoutDependencies at one entry. *)
FindFree ==
  /\ pass = "find"
  /\ free' = free \ ({i \in {row} : Current \in {1, 3}} \cup {j \in {col} : Current \in {2, 3}})
  /\ Walk("done")
  /\ UNCHANGED <<dim, matrix>>

Next ==
  \/ \E s \in Indices : BuildRow(s) \/ ReceiveRow(s)
  \/ Reduced
  \/ RemoveCycle
  \/ RemoveUndefined
  \/ FindFree

Spec == Init /\ [][Next]_vars

-----------------------------------------------------------------------------
(* Type invariant.  No state depends on itself, and a finished walk has
   returned to the first entry. *)
TypeOK ==
  /\ dim \in Dims
  /\ matrix \in [Indices -> [Indices -> Deps]]
  /\ \A i \in Indices : matrix[i][i] = 0
  /\ pass \in {"build", "reduce", "cycles", "undefined", "find", "done"}
  /\ row \in Indices /\ col \in Indices
  /\ pass \in {"build", "reduce", "done"} => row = 0 /\ col = 0
  /\ free \in SUBSET Indices

(* After the walk of removeUndefinedDependencies no entry is 2 or 3, although
   the walk writes entries it has already left behind. *)
OnlyPlainLeft ==
  pass \in {"find", "done"} => \A i, j \in Indices : matrix[i][j] \in {0, 1}

(* i is ahead of j: the entry says so from one side or from the other. *)
AheadOf(i, j) == matrix[i][j] = 1 \/ matrix[j][i] = 2

(* The passes implement the abstract answer: the first removes contradictions
   and nothing else, the second changes how an order is written and not what it
   is, and the third finds the states that are ahead of nobody. *)
Ranking == INSTANCE LeastProgress WITH
  states <- Indices,
  ahead <- {p \in Indices \X Indices : AheadOf(p[1], p[2])},
  stage <- CASE pass \in {"build", "reduce"} -> "evidence"
             [] pass \in {"cycles", "undefined", "find"} -> "resolving"
             [] OTHER -> "answered",
  least <- IF pass = "done" THEN free ELSE {}
ImplementsRanking == Ranking!Spec
==============================================================================
