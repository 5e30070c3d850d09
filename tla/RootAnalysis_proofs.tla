-------------------------- MODULE RootAnalysis_proofs --------------------------
(***************************************************************************)
(* Proofs about what the root computes, the passes over the dependency     *)
(* matrix first: for every dimension and all matrices that can be put      *)
(* together, the inductive invariant says, for each pass, what holds of    *)
(* the entries it has walked over; the passes implement LeastProgress.     *)
(*                                                                         *)
(* Then the compression of the graph, for any number of processes and      *)
(* walks of any length: a loop of two nodes that loses an edge and a chain *)
(* that becomes one edge leave the counts of rounds even and the ways      *)
(* between last states as they were.                                       *)
(***************************************************************************)
EXTENDS Compression, DependencyMatrix, CommonLemmas, TLAPS

(* The walk has left the entry behind. *)
Walked(i, j) == i < row \/ (i = row /\ j < col)

(* Each of the two claims the other depends on it, or both the contrary. *)
Contradict(i, j) == matrix[i][j] > 0 /\ matrix[i][j] = matrix[j][i]

CyclesInv ==
  pass = "cycles" =>
    \A i, j \in Indices : i < j /\ Walked(i, j) => ~Contradict(i, j)

(* Contradiction, but for the undefined entries. *)
NoMutual ==
  pass \in {"undefined", "find", "done"} =>
    \A i, j \in Indices : ~(AheadOf(i, j) /\ AheadOf(j, i))

UndefinedInv ==
  pass = "undefined" =>
    \A i, j \in Indices : Walked(i, j) => matrix[i][j] \in {0, 1}

FindInv ==
  pass = "find" =>
    free = {i \in Indices : \A j \in Indices : Walked(i, j) => matrix[i][j] = 0}

DoneInv ==
  pass = "done" => free = {i \in Indices : \A j \in Indices : matrix[i][j] = 0}

Inv ==
  /\ TypeOK
  /\ CyclesInv
  /\ NoMutual
  /\ UndefinedInv
  /\ OnlyPlainLeft
  /\ FindInv
  /\ DoneInv

-----------------------------------------------------------------------------
LEMMA DimNat == TypeOK => dim \in Nat /\ dim > 0 /\ row \in Nat /\ col \in Nat
BY DimsAssumption DEF TypeOK, Indices

(* One step of a walk: on to the next entry, or all entries are walked. *)
LEMMA WalkStep ==
  ASSUME TypeOK, NEW next, Walk(next), next # pass, dim' = dim
  PROVE  /\ row' \in Indices /\ col' \in Indices
         /\ \/ /\ pass' = pass
               /\ \A i, j \in Indices : Walked(i, j)' <=> (Walked(i, j) \/ (i = row /\ j = col))
            \/ /\ pass' = next /\ row' = 0 /\ col' = 0
               /\ \A i, j \in Indices : Walked(i, j) \/ (i = row /\ j = col)
<1> USE DimNat
<1>1. row \in 0 .. dim - 1 /\ col \in 0 .. dim - 1
  BY DEF TypeOK, Indices
<1>2. CASE col + 1 # dim
  <2>1. row' = row /\ col' = col + 1 /\ pass' = pass
    BY <1>1, <1>2 DEF Walk
  <2>2. QED
    BY <1>1, <1>2, <2>1 DEF Walked, Indices
<1>3. CASE col + 1 = dim /\ row + 1 # dim
  <2>1. row' = row + 1 /\ col' = 0 /\ pass' = pass
    BY <1>1, <1>3 DEF Walk
  <2>2. QED
    BY <1>1, <1>3, <2>1 DEF Walked, Indices
<1>4. CASE col + 1 = dim /\ row + 1 = dim
  <2>1. row' = 0 /\ col' = 0 /\ pass' = next
    BY <1>1, <1>4 DEF Walk
  <2>2. QED
    BY <1>1, <1>4, <2>1 DEF Walked, Indices
<1>5. QED
  BY <1>2, <1>3, <1>4

LEMMA OrType == \A a, b \in Deps : Or(a, b) \in Deps
BY DEF Or, Deps

LEMMA OrZero == Or(0, 0) = 0
BY DEF Or, Bit

-----------------------------------------------------------------------------
LEMMA InitInv == Init => Inv
<1> SUFFICES ASSUME Init PROVE Inv
  OBVIOUS
<1>1. dim \in Nat /\ dim > 0 /\ 0 \in Indices
  BY DimsAssumption DEF Init, Indices
<1>2. pass = "build"
  BY DEF Init
<1>3. TypeOK
  BY <1>1, <1>2 DEF Init, TypeOK, Zero, Deps
<1>4. QED
  BY <1>2, <1>3 DEF Inv, CyclesInv, NoMutual, UndefinedInv, OnlyPlainLeft, FindInv, DoneInv

(* While the matrix is put together. *)
LEMMA BuildInv ==
  ASSUME Inv, NEW s \in Indices, BuildRow(s) \/ ReceiveRow(s)
  PROVE  Inv'
<1>1. /\ pass' = "reduce" /\ UNCHANGED <<dim, row, col, free>>
      /\ pass \in {"build", "reduce"}
  BY DEF BuildRow, ReceiveRow
<1>2. Indices' = Indices
  BY <1>1 DEF Indices
<1>3. /\ matrix' \in [Indices -> [Indices -> Deps]]
      /\ \A i \in Indices : matrix'[i][i] = 0
  <2>1. matrix \in [Indices -> [Indices -> Deps]] /\ \A i \in Indices : matrix[i][i] = 0
    BY DEF Inv, TypeOK
  <2>2. CASE BuildRow(s)
    BY <2>1, <2>2 DEF BuildRow, RowsOf
  <2>3. CASE ReceiveRow(s)
    <3>1. PICK entries \in RowsOf(s) :
            matrix' = [matrix EXCEPT ![s] = [j \in Indices |-> Or(matrix[s][j], entries[j])]]
      BY <2>3 DEF ReceiveRow
    <3>2. entries \in [Indices -> Deps] /\ entries[s] = 0
      BY <3>1 DEF RowsOf
    <3>3. [j \in Indices |-> Or(matrix[s][j], entries[j])] \in [Indices -> Deps]
      BY <2>1, <3>2, OrType
    <3>4. Or(matrix[s][s], entries[s]) = 0
      BY <2>1, <3>2, OrZero
    <3>5. QED
      BY <2>1, <3>1, <3>3, <3>4
  <2>4. QED
    BY <2>2, <2>3
<1>4. TypeOK'
  BY <1>1, <1>2, <1>3 DEF Inv, TypeOK
<1>5. QED
  BY <1>1, <1>4 DEF Inv, CyclesInv, NoMutual, UndefinedInv, OnlyPlainLeft, FindInv, DoneInv

LEMMA ReducedInv == Inv /\ Reduced => Inv'
<1> SUFFICES ASSUME Inv, Reduced PROVE Inv'
  OBVIOUS
<1>1. pass = "reduce" /\ pass' = "cycles" /\ UNCHANGED <<dim, matrix, row, col, free>>
  BY DEF Reduced
<1>2. Indices' = Indices
  BY <1>1 DEF Indices
<1>3. TypeOK'
  BY <1>1, <1>2 DEF Inv, TypeOK
<1>4. row = 0 /\ col = 0
  BY <1>1 DEF Inv, TypeOK
<1>5. \A i, j \in Indices : ~Walked(i, j)'
  BY <1>1, <1>4, DimNat DEF Walked, Indices, Inv
<1>6. QED
  BY <1>1, <1>2, <1>3, <1>5
     DEF Inv, CyclesInv, NoMutual, UndefinedInv, OnlyPlainLeft, FindInv, DoneInv

-----------------------------------------------------------------------------
(* removeCycles: the entry and its mirror become 0 together, or nothing does. *)
LEMMA CycleRemoved ==
  ASSUME TypeOK, RemoveCycle
  PROVE  /\ matrix' \in [Indices -> [Indices -> Deps]]
         /\ \/ /\ row < col /\ Contradict(row, col)
               /\ matrix'[row][col] = 0 /\ matrix'[col][row] = 0
               /\ \A i, j \in Indices :
                    <<i, j>> \notin {<<row, col>>, <<col, row>>} => matrix'[i][j] = matrix[i][j]
            \/ /\ ~(row < col /\ Contradict(row, col))
               /\ matrix' = matrix
<1>1. matrix \in [Indices -> [Indices -> Deps]] /\ row \in Indices /\ col \in Indices
      /\ row \in Nat /\ col \in Nat /\ 0 \in Deps
  BY DimNat DEF TypeOK, Deps
<1>2. CASE row < col /\ Contradict(row, col)
  <2>1. matrix' = WithDependency(WithDependency(matrix, row, col, 0), col, row, 0)
    BY <1>1, <1>2 DEF RemoveCycle, Contradict, Current
  <2>2. QED
    BY <1>1, <1>2, <2>1 DEF WithDependency
<1>3. CASE ~(row < col /\ Contradict(row, col))
  <2>1. matrix' = matrix
    BY <1>1, <1>3 DEF RemoveCycle, Contradict, Current
  <2>2. QED
    BY <1>1, <1>3, <2>1
<1>4. QED
  BY <1>2, <1>3

LEMMA RemoveCycleInv == Inv /\ RemoveCycle => Inv'
<1> SUFFICES ASSUME Inv, RemoveCycle PROVE Inv'
  OBVIOUS
<1>1. /\ TypeOK /\ pass = "cycles" /\ UNCHANGED <<dim, free>> /\ Indices' = Indices
      /\ Walk("undefined")
  BY DEF Inv, RemoveCycle, Indices
<1>2. /\ row \in Indices /\ col \in Indices /\ row \in Nat /\ col \in Nat
      /\ matrix \in [Indices -> [Indices -> Deps]]
      /\ \A i \in Indices : matrix[i][i] = 0
  BY <1>1, DimNat DEF TypeOK
<1>3. /\ row' \in Indices /\ col' \in Indices
      /\ \/ /\ pass' = "cycles"
            /\ \A i, j \in Indices : Walked(i, j)' <=> (Walked(i, j) \/ (i = row /\ j = col))
         \/ /\ pass' = "undefined" /\ row' = 0 /\ col' = 0
            /\ \A i, j \in Indices : Walked(i, j) \/ (i = row /\ j = col)
  BY <1>1, WalkStep
<1>4. \A i \in Indices : matrix'[i][i] = 0
  BY <1>1, <1>2, CycleRemoved
<1>5. TypeOK'
  BY <1>1, <1>2, <1>3, <1>4, CycleRemoved DEF TypeOK
<1>6. ASSUME NEW i \in Indices, NEW j \in Indices, i < j, Walked(i, j) \/ (i = row /\ j = col)
      PROVE  ~(matrix'[i][j] > 0 /\ matrix'[i][j] = matrix'[j][i])
  <2>1. i # j /\ i \in Nat /\ j \in Nat
    BY <1>6, DimNat, <1>1 DEF Indices
  <2>2. CASE i = row /\ j = col
    BY <1>1, <1>6, <2>2, CycleRemoved DEF Contradict
  <2>3. CASE ~(i = row /\ j = col)
    <3>1. ~Contradict(i, j)
      BY <1>1, <1>6, <2>3 DEF Inv, CyclesInv
    <3>2. (matrix'[i][j] = matrix[i][j] /\ matrix'[j][i] = matrix[j][i]) \/ matrix'[i][j] = 0
      BY <1>1, <1>2, CycleRemoved
    <3>3. QED
      BY <3>1, <3>2 DEF Contradict
  <2>4. QED
    BY <2>2, <2>3
<1>7. CyclesInv'
  BY <1>1, <1>3, <1>6 DEF CyclesInv, Contradict
<1>8. NoMutual'
  <2>1. CASE pass' = "cycles"
    BY <2>1 DEF NoMutual
  <2>2. CASE pass' = "undefined"
    <3>1. SUFFICES ASSUME NEW i \in Indices, NEW j \in Indices
                   PROVE  ~(AheadOf(i, j)' /\ AheadOf(j, i)')
      BY <1>1 DEF NoMutual
    <3>2. i \in Nat /\ j \in Nat
      BY <1>1, DimNat DEF Indices
    <3>3. \A k, l \in Indices : Walked(k, l) \/ (k = row /\ l = col)
      BY <1>3, <2>2
    <3>4. matrix'[i][i] = 0 /\ (i < j \/ j < i => ~(matrix'[i][j] > 0 /\ matrix'[i][j] = matrix'[j][i]))
      BY <1>4, <1>6, <3>3
    <3>5. QED
      BY <3>2, <3>4 DEF AheadOf
  <2>3. QED
    BY <1>3, <2>1, <2>2
<1>9. UndefinedInv'
  <2>1. pass' = "undefined" => \A i, j \in Indices : ~Walked(i, j)'
    BY <1>1, <1>3, DimNat DEF Walked, Indices
  <2>2. QED
    BY <1>1, <2>1 DEF UndefinedInv
<1>10. QED
  BY <1>3, <1>5, <1>7, <1>8, <1>9 DEF Inv, OnlyPlainLeft, FindInv, DoneInv

-----------------------------------------------------------------------------
(* removeUndefinedDependencies: what an entry and its mirror become. *)
LEMMA UndefinedRemoved ==
  ASSUME Inv, RemoveUndefined
  PROVE  /\ matrix' \in [Indices -> [Indices -> Deps]]
         /\ \A i \in Indices : matrix'[i][i] = 0
         /\ matrix'[row][col] \in {0, 1}
         /\ \/ Current \in {0, 1} /\ matrix' = matrix
            \/ /\ Current = 3 /\ matrix'[row][col] = 0
               /\ \A i, j \in Indices : <<i, j>> # <<row, col>> => matrix'[i][j] = matrix[i][j]
            \/ /\ Current = 2 /\ row # col
               /\ matrix'[row][col] = 0 /\ matrix'[col][row] = 1
               /\ \A i, j \in Indices :
                    <<i, j>> \notin {<<row, col>>, <<col, row>>} => matrix'[i][j] = matrix[i][j]
<1>1. /\ matrix \in [Indices -> [Indices -> Deps]] /\ row \in Indices /\ col \in Indices
      /\ \A i \in Indices : matrix[i][i] = 0
      /\ 0 \in Deps /\ 1 \in Deps
  BY DEF Inv, TypeOK, Deps
<1>2. Current = matrix[row][col] /\ Current \in 0 .. 3
  BY <1>1 DEF Current, Deps
<1>3. CASE Current = 3
  <2>1. matrix' = WithDependency(matrix, row, col, 0)
    BY <1>3 DEF RemoveUndefined
  <2>2. QED
    BY <1>1, <1>2, <1>3, <2>1 DEF WithDependency
<1>4. CASE Current = 2
  <2>1. matrix' = WithDependency(WithDependency(matrix, row, col, 0), col, row, 1)
    BY <1>4 DEF RemoveUndefined
  <2>2. row # col
    <3>1. matrix[row][row] = 0 /\ matrix[row][col] = 2
      BY <1>1, <1>2, <1>4
    <3>2. QED
      BY <3>1
  <2>3. /\ matrix' \in [Indices -> [Indices -> Deps]]
        /\ matrix'[row][col] = 0 /\ matrix'[col][row] = 1
    BY <1>1, <2>1, <2>2 DEF WithDependency
  <2>4. \A i, j \in Indices :
          <<i, j>> \notin {<<row, col>>, <<col, row>>} => matrix'[i][j] = matrix[i][j]
    BY <1>1, <2>1, <2>2 DEF WithDependency
  <2>5. \A i \in Indices : matrix'[i][i] = 0
    BY <1>1, <2>2, <2>4
  <2>6. QED
    BY <1>4, <2>2, <2>3, <2>4, <2>5
<1>5. CASE Current \in {0, 1}
  <2>1. matrix' = matrix
    BY <1>5 DEF RemoveUndefined
  <2>2. QED
    BY <1>1, <1>2, <1>5, <2>1
<1>6. QED
  BY <1>2, <1>3, <1>4, <1>5

(* Who is ahead of whom stays the same. *)
LEMMA OrderKept ==
  ASSUME Inv, RemoveUndefined, NEW i \in Indices, NEW j \in Indices
  PROVE  AheadOf(i, j)' <=> AheadOf(i, j)
<1>1. pass = "undefined" /\ row \in Indices /\ col \in Indices
      /\ Current = matrix[row][col]
  BY DEF Inv, TypeOK, RemoveUndefined, Current
<1>2. ~(AheadOf(row, col) /\ AheadOf(col, row))
  BY <1>1 DEF Inv, NoMutual
<1>3. CASE Current = 2
  <2>1. matrix[col][row] # 2 /\ matrix[row][col] = 2
    BY <1>1, <1>2, <1>3 DEF AheadOf
  <2>2. matrix'[row][col] = 0 /\ matrix'[col][row] = 1 /\ row # col
    BY <1>3, UndefinedRemoved
  <2>3. CASE <<i, j>> = <<row, col>>
    BY <1>1, <1>2, <2>1, <2>2, <2>3 DEF AheadOf
  <2>4. CASE <<i, j>> = <<col, row>>
    BY <2>1, <2>2, <2>4 DEF AheadOf
  <2>5. CASE <<i, j>> \notin {<<row, col>>, <<col, row>>}
    <3>1. matrix'[i][j] = matrix[i][j] /\ matrix'[j][i] = matrix[j][i]
      BY <1>3, <2>5, UndefinedRemoved
    <3>2. QED
      BY <3>1 DEF AheadOf
  <2>6. QED
    BY <2>3, <2>4, <2>5
<1>4. CASE Current = 3
  <2>1. /\ \A k, l \in Indices : <<k, l>> # <<row, col>> => matrix'[k][l] = matrix[k][l]
        /\ matrix'[row][col] = 0 /\ matrix[row][col] = 3
    BY <1>1, <1>4, UndefinedRemoved
  <2>2. \A k, l \in Indices : /\ matrix'[k][l] = 1 <=> matrix[k][l] = 1
                              /\ matrix'[k][l] = 2 <=> matrix[k][l] = 2
    BY <1>1, <2>1
  <2>3. QED
    BY <2>2 DEF AheadOf
<1>5. CASE Current \in {0, 1}
  <2>1. matrix' = matrix
    BY <1>5, UndefinedRemoved
  <2>2. QED
    BY <2>1 DEF AheadOf
<1>6. QED
  BY <1>3, <1>4, <1>5, UndefinedRemoved

LEMMA RemoveUndefinedInv == Inv /\ RemoveUndefined => Inv'
<1> SUFFICES ASSUME Inv, RemoveUndefined PROVE Inv'
  OBVIOUS
<1>1. /\ TypeOK /\ pass = "undefined" /\ dim' = dim /\ Indices' = Indices
      /\ Walk("find") /\ row \in Indices /\ col \in Indices
      /\ free' = IF pass' = "find" THEN Indices ELSE free
      /\ free \in SUBSET Indices
  BY DEF Inv, TypeOK, RemoveUndefined, Indices
<1>2. /\ row' \in Indices /\ col' \in Indices
      /\ \/ /\ pass' = "undefined"
            /\ \A i, j \in Indices : Walked(i, j)' <=> (Walked(i, j) \/ (i = row /\ j = col))
         \/ /\ pass' = "find" /\ row' = 0 /\ col' = 0
            /\ \A i, j \in Indices : Walked(i, j) \/ (i = row /\ j = col)
  BY <1>1, WalkStep
<1>3. TypeOK'
  BY <1>1, <1>2, UndefinedRemoved DEF TypeOK
<1>4. NoMutual'
  BY <1>1, OrderKept DEF NoMutual, Inv
<1>5. ASSUME NEW i \in Indices, NEW j \in Indices, Walked(i, j) \/ (i = row /\ j = col)
      PROVE  matrix'[i][j] \in {0, 1}
  <2>1. CASE i = row /\ j = col
    BY <2>1, UndefinedRemoved
  <2>2. CASE ~(i = row /\ j = col)
    <3>1. matrix[i][j] \in {0, 1}
      BY <1>1, <1>5, <2>2 DEF Inv, UndefinedInv
    <3>2. matrix'[i][j] = matrix[i][j] \/ matrix'[i][j] \in {0, 1}
      BY <1>1, UndefinedRemoved
    <3>3. QED
      BY <3>1, <3>2
  <2>3. QED
    BY <2>1, <2>2
<1>6. UndefinedInv' /\ OnlyPlainLeft'
  BY <1>1, <1>2, <1>5 DEF UndefinedInv, OnlyPlainLeft
<1>7. FindInv'
  <2>1. pass' = "find" => \A i, j \in Indices : ~Walked(i, j)'
    BY <1>1, <1>2, DimNat DEF Walked, Indices
  <2>2. QED
    BY <1>1, <2>1 DEF FindInv
<1>8. QED
  BY <1>2, <1>3, <1>4, <1>6, <1>7 DEF Inv, CyclesInv, DoneInv

-----------------------------------------------------------------------------
LEMMA FindFreeInv == Inv /\ FindFree => Inv'
<1> SUFFICES ASSUME Inv, FindFree PROVE Inv'
  OBVIOUS
<1>1. /\ TypeOK /\ pass = "find" /\ UNCHANGED <<dim, matrix>> /\ Indices' = Indices
      /\ Walk("done") /\ row \in Indices /\ col \in Indices
      /\ Current = matrix[row][col]
  BY DEF Inv, TypeOK, FindFree, Indices, Current
<1>2. /\ row' \in Indices /\ col' \in Indices
      /\ \/ /\ pass' = "find"
            /\ \A i, j \in Indices : Walked(i, j)' <=> (Walked(i, j) \/ (i = row /\ j = col))
         \/ /\ pass' = "done" /\ row' = 0 /\ col' = 0
            /\ \A i, j \in Indices : Walked(i, j) \/ (i = row /\ j = col)
  BY <1>1, WalkStep
<1>3. \A i, j \in Indices : matrix[i][j] \in {0, 1}
  BY <1>1 DEF Inv, OnlyPlainLeft
<1>4. free' = free \ {i \in {row} : matrix[row][col] = 1}
  BY <1>1, <1>3 DEF FindFree
<1>5. free = {i \in Indices : \A j \in Indices : Walked(i, j) => matrix[i][j] = 0}
  BY <1>1 DEF Inv, FindInv
<1>6. free' = {i \in Indices : \A j \in Indices :
                 Walked(i, j) \/ (i = row /\ j = col) => matrix[i][j] = 0}
  BY <1>1, <1>3, <1>4, <1>5
<1>7. TypeOK'
  BY <1>1, <1>2, <1>6 DEF TypeOK
<1>8. FindInv' /\ DoneInv'
  BY <1>1, <1>2, <1>6 DEF FindInv, DoneInv
<1>9. NoMutual' /\ OnlyPlainLeft'
  BY <1>1, <1>2 DEF Inv, NoMutual, OnlyPlainLeft, AheadOf
<1>10. QED
  BY <1>2, <1>7, <1>8, <1>9 DEF Inv, CyclesInv, UndefinedInv

LEMMA StepInv == Inv /\ [Next]_vars => Inv'
<1> SUFFICES ASSUME Inv, [Next]_vars PROVE Inv'
  OBVIOUS
<1>1. CASE UNCHANGED vars
  BY <1>1 DEF vars, Inv, TypeOK, CyclesInv, NoMutual, UndefinedInv, OnlyPlainLeft, FindInv,
              DoneInv, Walked, Contradict, AheadOf, Indices
<1>2. QED
  BY <1>1, BuildInv, ReducedInv, RemoveCycleInv, RemoveUndefinedInv, FindFreeInv DEF Next

(* What the passes have made of the entries they walked over, and what they
   have left of the others (DepMatrixMutator), holds in every state. *)
THEOREM MatrixInvariant == Spec => []Inv
BY InitInv, StepInv, PTL DEF Spec

(* Entries keep their type and the diagonal stays 0, for every dimension. *)
THEOREM MatrixTypeOK == Spec => []TypeOK
<1>1. Inv => TypeOK
  BY DEF Inv
<1>2. QED
  BY <1>1, MatrixInvariant, PTL

(* The second pass leaves no entry that is undefined or the wrong way round. *)
THEOREM OnlyPlainEntriesLeft == Spec => []OnlyPlainLeft
<1>1. Inv => OnlyPlainLeft
  BY DEF Inv
<1>2. QED
  BY <1>1, MatrixInvariant, PTL

-----------------------------------------------------------------------------
(***************************************************************************)
(* The refinement.                                                         *)
(***************************************************************************)

Pairs == {p \in Indices \X Indices : AheadOf(p[1], p[2])}
Stage == CASE pass \in {"build", "reduce"} -> "evidence"
           [] pass \in {"cycles", "undefined", "find"} -> "resolving"
           [] OTHER -> "answered"
Least == IF pass = "done" THEN free ELSE {}

LEMMA StageIs ==
  /\ pass \in {"build", "reduce"} => Stage = "evidence"
  /\ pass \in {"cycles", "undefined", "find"} => Stage = "resolving"
  /\ pass = "done" => Stage = "answered"
BY DEF Stage

LEMMA RankingInit == Init => Ranking!Init
<1> SUFFICES ASSUME Init PROVE Ranking!Init
  OBVIOUS
<1>1. pass = "build" /\ matrix = Zero /\ dim \in Nat /\ dim > 0
  BY DimsAssumption DEF Init
<1>2. \A i, j \in Indices : ~AheadOf(i, j)
  BY <1>1 DEF AheadOf, Zero
<1>3. Pairs = {}
  BY <1>2 DEF Pairs
<1>4. Indices \in SUBSET Nat
  BY <1>1 DEF Indices
<1>5. Stage = "evidence" /\ Least = {}
  BY <1>1 DEF Stage, Least
<1>6. QED
  BY <1>3, <1>4, <1>5 DEF Ranking!Init, Pairs, Stage, Least

LEMMA RankingStep == Inv /\ Inv' /\ [Next]_vars => [Ranking!Next]_(Ranking!vars)
<1> SUFFICES ASSUME Inv, Inv', [Next]_vars
             PROVE  [Ranking!Next]_<<Indices, Pairs, Stage, Least>>
  BY DEF Ranking!vars, Pairs, Stage, Least
<1> USE DEF Ranking!Next
<1>1. ASSUME NEW s \in Indices, BuildRow(s) \/ ReceiveRow(s) PROVE Ranking!Learn
  <2>1. /\ pass \in {"build", "reduce"} /\ pass' = "reduce" /\ Indices' = Indices
    BY <1>1 DEF BuildRow, ReceiveRow, Indices
  <2>2. \A i \in Indices : ~AheadOf(i, i)'
    BY <2>1 DEF Inv, TypeOK, AheadOf
  <2>3. Pairs' \in SUBSET {p \in Indices \X Indices : p[1] # p[2]}
    BY <2>1, <2>2 DEF Pairs
  <2>4. Stage = "evidence" /\ Stage' = Stage /\ Least' = Least
    BY <2>1 DEF Stage, Least
  <2>5. QED
    BY <2>1, <2>3, <2>4 DEF Ranking!Learn, Pairs, Stage, Least
<1>2. CASE Reduced
  <2>1. /\ pass = "reduce" /\ pass' = "cycles" /\ Indices' = Indices /\ matrix' = matrix
    BY <1>2 DEF Reduced, Indices
  <2>2. Pairs' = Pairs /\ Stage = "evidence" /\ Stage' = "resolving" /\ Least' = Least
    BY <2>1 DEF Pairs, AheadOf, Stage, Least
  <2>3. Ranking!Judge
    BY <2>1, <2>2 DEF Ranking!Judge, Pairs, Stage, Least
  <2>4. QED
    BY <2>3
<1>3. CASE RemoveCycle
  <2>1. /\ pass = "cycles" /\ pass' \in {"cycles", "undefined"} /\ Indices' = Indices
        /\ row \in Indices /\ col \in Indices /\ TypeOK
    BY <1>3, WalkStep DEF Inv, TypeOK, RemoveCycle, Walk, Indices
  <2>2. Stage = "resolving" /\ Stage' = "resolving" /\ Least = {} /\ Least' = {}
    BY <2>1 DEF Stage, Least
  <2>3. CASE matrix' = matrix
    <3>1. Pairs' = Pairs
      BY <2>1, <2>3 DEF Pairs, AheadOf
    <3>2. QED
      BY <2>1, <2>2, <3>1
  <2>4. CASE row < col /\ Contradict(row, col)
    <3>1. /\ matrix'[row][col] = 0 /\ matrix'[col][row] = 0
          /\ \A i, j \in Indices :
               <<i, j>> \notin {<<row, col>>, <<col, row>>} => matrix'[i][j] = matrix[i][j]
      BY <1>3, <2>1, <2>4, CycleRemoved
    <3>2. \A i, j \in Indices : <<i, j>> \in {<<row, col>>, <<col, row>>} => ~AheadOf(i, j)'
      BY <3>1 DEF AheadOf
    <3>3. \A i, j \in Indices : <<i, j>> \notin {<<row, col>>, <<col, row>>} =>
            (AheadOf(i, j)' <=> AheadOf(i, j))
      BY <3>1 DEF AheadOf
    <3>4. Pairs' = Pairs \ {<<row, col>>, <<col, row>>}
      BY <2>1, <3>2, <3>3 DEF Pairs
    <3>5. matrix[row][col] = matrix[col][row] /\ matrix[row][col] \in {1, 2, 3}
      BY <2>1, <2>4 DEF Contradict, TypeOK, Deps
    <3>6. CASE matrix[row][col] = 3
      <4>1. ~AheadOf(row, col) /\ ~AheadOf(col, row)
        BY <3>5, <3>6 DEF AheadOf
      <4>2. <<row, col>> \notin Pairs /\ <<col, row>> \notin Pairs
        BY <4>1 DEF Pairs
      <4>3. Pairs' = Pairs
        BY <3>4, <4>2
      <4>4. QED
        BY <2>1, <2>2, <4>3
    <3>7. CASE matrix[row][col] \in {1, 2}
      <4>1. <<row, col>> \in Pairs /\ <<col, row>> \in Pairs
        BY <2>1, <3>5, <3>7 DEF Pairs, AheadOf
      <4>2. Ranking!Resolve(row, col)
        BY <2>1, <2>2, <3>4, <4>1
           DEF Ranking!Resolve, Ranking!Mutual, Pairs, Stage, Least
      <4>3. QED
        BY <2>1, <4>2
    <3>8. QED
      BY <3>5, <3>6, <3>7
  <2>5. QED
    BY <1>3, <2>1, <2>3, <2>4, CycleRemoved
<1>4. CASE RemoveUndefined
  <2>1. /\ pass = "undefined" /\ pass' \in {"undefined", "find"} /\ Indices' = Indices
    BY <1>4 DEF RemoveUndefined, Walk, Indices
  <2>2. Stage = "resolving" /\ Stage' = "resolving" /\ Least = {} /\ Least' = {}
    BY <2>1 DEF Stage, Least
  <2>3. Pairs' = Pairs
    BY <1>4, <2>1, OrderKept DEF Pairs
  <2>4. QED
    BY <2>1, <2>2, <2>3
<1>5. CASE FindFree
  <2>1. /\ pass = "find" /\ pass' \in {"find", "done"} /\ UNCHANGED <<Indices, matrix>>
    BY <1>5 DEF FindFree, Walk, Indices
  <2>2. Pairs' = Pairs /\ Stage = "resolving" /\ Least = {}
    BY <2>1 DEF Pairs, AheadOf, Stage, Least
  <2>3. CASE pass' = "find"
    BY <2>1, <2>2, <2>3 DEF Stage, Least
  <2>4. CASE pass' = "done"
    <3>1. Stage' = "answered" /\ Least' = free'
      BY <2>4 DEF Stage, Least
    <3>2. \A i, j \in Indices : matrix[i][j] \in {0, 1} /\ ~(AheadOf(i, j) /\ AheadOf(j, i))
      BY <2>1 DEF Inv, OnlyPlainLeft, NoMutual
    <3>3. \A i, j \in Indices : <<i, j>> \in Pairs <=> matrix[i][j] = 1
      BY <3>2 DEF Pairs, AheadOf
    <3>4. free' = {i \in Indices : \A j \in Indices : matrix[i][j] = 0}
      BY <2>1, <2>4 DEF Inv, DoneInv
    <3>5. free' = {i \in Indices : \A j \in Indices : <<i, j>> \notin Pairs}
      <4>1. \A i, j \in Indices : matrix[i][j] = 0 <=> <<i, j>> \notin Pairs
        <5>1. ASSUME NEW i \in Indices, NEW j \in Indices
              PROVE  matrix[i][j] = 0 <=> <<i, j>> \notin Pairs
          <6>1. matrix[i][j] = 0 \/ matrix[i][j] = 1
            BY <3>2
          <6>2. <<i, j>> \in Pairs <=> matrix[i][j] = 1
            BY <3>3
          <6>3. QED
            BY <6>1, <6>2
        <5>2. QED
          BY <5>1
      <4>2. ASSUME NEW i \in Indices
            PROVE  i \in free' <=> \A j \in Indices : <<i, j>> \notin Pairs
        <5>1. i \in free' <=> \A j \in Indices : matrix[i][j] = 0
          BY <3>4
        <5>2. \A j \in Indices : matrix[i][j] = 0 <=> <<i, j>> \notin Pairs
          BY <4>1
        <5>3. QED
          BY <5>1, <5>2
      <4>3. free' \subseteq Indices
        BY <3>4
      <4>4. QED
        BY <4>2, <4>3
    <3>6. \A i, j \in Indices : ~(<<i, j>> \in Pairs /\ <<j, i>> \in Pairs)
      BY <3>2 DEF Pairs
    <3>7. Ranking!Answer
      BY <2>1, <2>2, <3>1, <3>5, <3>6 DEF Ranking!Answer, Ranking!Mutual, Pairs, Stage, Least
    <3>8. QED
      BY <3>7
  <2>5. QED
    BY <2>1, <2>3, <2>4
<1>6. CASE UNCHANGED vars
  BY <1>6 DEF vars, Pairs, AheadOf, Indices, Stage, Least
<1>7. QED
  BY <1>1, <1>2, <1>3, <1>4, <1>5, <1>6 DEF Next

(* The three passes over the matrix answer what LeastProgress promises, whatever
   the processes found and however many states there are. *)
THEOREM PassesImplementRanking == Spec => ImplementsRanking
<1>1. Spec => Ranking!Init /\ [][Ranking!Next]_(Ranking!vars)
  BY RankingInit, RankingStep, MatrixInvariant, PTL DEF Spec
<1>2. QED
  BY <1>1 DEF ImplementsRanking, Ranking!Spec

-----------------------------------------------------------------------------
(* Edges at a node, and a count that is even there: as much comes as leaves. *)
Into(E, n) == {e \in E : e[2] = n}
OutOf(E, n) == {e \in E : e[1] = n}
Even(f, E, n) == SumOver(f, Into(E, n)) = SumOver(f, OutOf(E, n))

(* Sums over the edges at a node, when another function or another set of
   edges agrees on them. *)
LEMMA EvenDepends ==
  ASSUME NEW E, NEW F, NEW f, NEW g, NEW n,
         Into(F, n) = Into(E, n), OutOf(F, n) = OutOf(E, n),
         \A e \in Into(E, n) \cup OutOf(E, n) : g[e] = f[e],
         Even(f, E, n)
  PROVE  Even(g, F, n)
<1> DEFINE I == Into(E, n)
           O == OutOf(E, n)
<1>1. (\A e \in I : g[e] = f[e]) /\ (\A e \in O : g[e] = f[e])
  OBVIOUS
<1> HIDE DEF I, O
<1>2. SumOver(g, I) = SumOver(f, I) /\ SumOver(g, O) = SumOver(f, O)
  BY <1>1, SumOverDepends
<1>3. QED
  BY <1>2 DEF I, O, Even

(* A sum over two edges. *)
LEMMA SumOverTwo ==
  ASSUME NEW f, NEW x, NEW y, x # y, f[x] \in Nat, f[y] \in Nat
  PROVE  SumOver(f, {x, y}) = f[x] + f[y]
<1>1. IsFiniteSet({x}) /\ IsFiniteSet({y})
  BY FS_Singleton
<1>2. SumOver(f, {x}) = f[x] /\ SumOver(f, {y}) = f[y]
  BY SumOverOne
<1> DEFINE S == {x}
           T == {y}
<1>3. S \cap T = {} /\ {x, y} = S \cup T /\ \A z \in S \cup T : f[z] \in Nat
  OBVIOUS
<1>4. IsFiniteSet(S) /\ IsFiniteSet(T)
  BY <1>1
<1> HIDE DEF S, T
<1>5. SumOver(f, S \cup T) = SumOver(f, S) + SumOver(f, T)
  BY <1>3, <1>4, SumOverBoth
<1>6. QED
  BY <1>2, <1>3, <1>5 DEF S, T

-----------------------------------------------------------------------------
(* A loop of two nodes a and b, entered from x and left for o. *)
LoopAt(E, a, b, x, o) ==
  /\ a # b /\ x # b /\ o # a
  /\ Into(E, a) = {<<b, a>>, <<x, a>>}
  /\ OutOf(E, a) = {<<a, b>>}
  /\ Into(E, b) = {<<a, b>>}
  /\ OutOf(E, b) = {<<b, a>>, <<b, o>>}

(* Where the ways into and out of a loop of two nodes lead. *)
LEMMA LoopApart ==
  ASSUME NEW E, NEW a, NEW b, NEW x, NEW o, LoopAt(E, a, b, x, o)
  PROVE  x # a /\ o # b /\ {<<a, b>>, <<b, a>>, <<x, a>>, <<b, o>>} \subseteq E
<1>1. \A e : e \in Into(E, a) <=> e \in E /\ e[2] = a
  BY DEF Into
<1>2. \A e : e \in OutOf(E, a) <=> e \in E /\ e[1] = a
  BY DEF OutOf
<1>3. \A e : e \in Into(E, b) <=> e \in E /\ e[2] = b
  BY DEF Into
<1>4. \A e : e \in OutOf(E, b) <=> e \in E /\ e[1] = b
  BY DEF OutOf
<1>5. <<a, b>> \in E /\ <<b, a>> \in E /\ <<x, a>> \in E /\ <<b, o>> \in E
  BY <1>1, <1>2, <1>3, <1>4 DEF LoopAt
<1>6. x # a
  <2> SUFFICES ASSUME x = a PROVE FALSE
    OBVIOUS
  <2>1. <<a, a>> \in OutOf(E, a)
    BY <1>2, <1>5
  <2>2. <<a, a>> = <<a, b>>
    BY <2>1 DEF LoopAt
  <2>3. QED
    BY <2>2 DEF LoopAt
<1>7. o # b
  <2> SUFFICES ASSUME o = b PROVE FALSE
    OBVIOUS
  <2>1. <<b, b>> \in Into(E, b)
    BY <1>3, <1>5
  <2>2. <<b, b>> = <<a, b>>
    BY <2>1 DEF LoopAt
  <2>3. QED
    BY <2>2 DEF LoopAt
<1>8. QED
  BY <1>5, <1>6, <1>7

(* What comes in over the edge from x leaves over the edge to o. *)
LEMMA LoopFlow ==
  ASSUME NEW E, NEW a, NEW b, NEW x, NEW o, LoopAt(E, a, b, x, o),
         NEW f, \A e \in E : f[e] \in Nat, Even(f, E, a), Even(f, E, b)
  PROVE  f[<<x, a>>] = f[<<b, o>>]
<1>1. x # a /\ o # b /\ <<a, b>> \in E /\ <<b, a>> \in E /\ <<x, a>> \in E /\ <<b, o>> \in E
  BY LoopApart
<1>2. /\ f[<<a, b>>] \in Nat /\ f[<<b, a>>] \in Nat /\ f[<<x, a>>] \in Nat /\ f[<<b, o>>] \in Nat
      /\ <<b, a>> # <<x, a>> /\ <<b, a>> # <<b, o>>
  BY <1>1 DEF LoopAt
<1>3. SumOver(f, {<<b, a>>, <<x, a>>}) = f[<<b, a>>] + f[<<x, a>>]
  BY <1>2, SumOverTwo
<1>4. SumOver(f, {<<b, a>>, <<b, o>>}) = f[<<b, a>>] + f[<<b, o>>]
  BY <1>2, SumOverTwo
<1>5. SumOver(f, {<<a, b>>}) = f[<<a, b>>]
  BY <1>2, SumOverOne
<1>6. f[<<b, a>>] + f[<<x, a>>] = f[<<a, b>>] /\ f[<<a, b>>] = f[<<b, a>>] + f[<<b, o>>]
  BY <1>3, <1>4, <1>5 DEF LoopAt, Even
<1>7. QED
  BY <1>2, <1>6

(* Without the edge from b to a, and with the count of b's other edge on the
   edge to b, the nodes stay even. *)
LEMMA LoopCutEven ==
  ASSUME NEW E, NEW a, NEW b, NEW x, NEW o, LoopAt(E, a, b, x, o),
         NEW f, \A e \in E : f[e] \in Nat, Even(f, E, a), Even(f, E, b),
         NEW g, g[<<a, b>>] = f[<<b, o>>],
         \A e \in E \ {<<b, a>>, <<a, b>>} : g[e] = f[e],
         NEW n, Even(f, E, n)
  PROVE  Even(g, E \ {<<b, a>>}, n)
<1> DEFINE F == E \ {<<b, a>>}
<1>1. /\ a # b /\ x # b /\ o # a /\ x # a /\ o # b
      /\ <<a, b>> \in E /\ <<b, a>> \in E /\ <<x, a>> \in E /\ <<b, o>> \in E
  <2>1. x # a /\ o # b /\ {<<a, b>>, <<b, a>>, <<x, a>>, <<b, o>>} \subseteq E
    BY LoopApart
  <2>2. a # b /\ x # b /\ o # a
    BY DEF LoopAt
  <2>3. QED
    BY <2>1, <2>2
<1>2. f[<<x, a>>] = f[<<b, o>>] /\ f[<<b, o>>] \in Nat
  BY <1>1, LoopFlow
<1>3. /\ <<x, a>> # <<b, a>> /\ <<x, a>> # <<a, b>> /\ <<b, o>> # <<b, a>> /\ <<b, o>> # <<a, b>>
      /\ <<a, b>> # <<b, a>>
  BY <1>1
<1>4. g[<<x, a>>] = f[<<b, o>>] /\ g[<<b, o>>] = f[<<b, o>>] /\ g[<<a, b>>] = f[<<b, o>>]
  BY <1>1, <1>2, <1>3
<1>5. CASE n = a
  <2>1. Into(F, a) = {<<x, a>>}
    <3>1. Into(F, a) = Into(E, a) \ {<<b, a>>}
      BY DEF Into
    <3>2. QED
      BY <1>3, <3>1 DEF LoopAt
  <2>2. OutOf(F, a) = {<<a, b>>}
    <3>1. OutOf(F, a) = OutOf(E, a) \ {<<b, a>>}
      BY DEF OutOf
    <3>2. QED
      BY <1>3, <3>1 DEF LoopAt
  <2>3. SumOver(g, {<<x, a>>}) = g[<<x, a>>] /\ SumOver(g, {<<a, b>>}) = g[<<a, b>>]
    BY <1>2, <1>4, SumOverOne
  <2>4. QED
    BY <1>4, <1>5, <2>1, <2>2, <2>3 DEF Even
<1>6. CASE n = b
  <2>1. Into(F, b) = {<<a, b>>}
    <3>1. Into(F, b) = Into(E, b) \ {<<b, a>>}
      BY DEF Into
    <3>2. QED
      BY <1>3, <3>1 DEF LoopAt
  <2>2. OutOf(F, b) = {<<b, o>>}
    <3>1. OutOf(F, b) = OutOf(E, b) \ {<<b, a>>}
      BY DEF OutOf
    <3>2. QED
      BY <1>3, <3>1 DEF LoopAt
  <2>3. SumOver(g, {<<b, o>>}) = g[<<b, o>>] /\ SumOver(g, {<<a, b>>}) = g[<<a, b>>]
    BY <1>2, <1>4, SumOverOne
  <2>4. QED
    BY <1>4, <1>6, <2>1, <2>2, <2>3 DEF Even
<1>7. CASE n \notin {a, b}
  <2>1. Into(F, n) = Into(E, n) /\ OutOf(F, n) = OutOf(E, n)
    BY <1>7 DEF Into, OutOf
  <2>2. \A e \in Into(E, n) \cup OutOf(E, n) : e \in E /\ e # <<b, a>> /\ e # <<a, b>>
    BY <1>7 DEF Into, OutOf
  <2>3. \A e \in Into(E, n) \cup OutOf(E, n) : g[e] = f[e]
    BY <2>2
  <2> HIDE DEF F
  <2>4. Even(g, F, n)
    BY <2>1, <2>3, EvenDepends
  <2>5. QED
    BY <2>4 DEF F
<1>8. QED
  BY <1>5, <1>6, <1>7

-----------------------------------------------------------------------------
(* A chain of nodes T from node to end: its edges lead from one of its nodes
   to the next or from last to end, and only node is reached from elsewhere. *)
ChainAt(E, T, node, last, end) ==
  /\ node \in T /\ end \notin T
  /\ \A e \in E : e[1] \in T => e[2] \in (T \ {node}) \cup {end}
  /\ \A e \in E : e[2] \in T \ {node} => e[1] \in T
  /\ {e \in E : e[1] \in T /\ e[2] = end} = {<<last, end>>}

Shortened(E, T, node, end) == {e \in E : e[1] \notin T} \cup {<<node, end>>}

(* A graph whose chain is shortened to one edge stays even. *)
LEMMA ChainCutEven ==
  ASSUME NEW E, NEW T, NEW node, NEW last, NEW end, ChainAt(E, T, node, last, end),
         \A e \in E : e = <<e[1], e[2]>>,
         NEW f, \A e \in E : f[e] \in Nat, \A n : IsFiniteSet(Into(E, n)),
         SumOver(f, OutOf(E, node)) = f[<<last, end>>],
         NEW g, g[<<node, end>>] = f[<<last, end>>],
         \A e \in E : e[1] \notin T => g[e] = f[e],
         NEW n, Even(f, E, n) \/ n \in T \ {node}
  PROVE  Even(g, Shortened(E, T, node, end), n)
<1> DEFINE F == Shortened(E, T, node, end)
           Kept == {e \in E : e[1] \notin T}
<1>1. node \in T /\ end \notin T /\ node # end /\ <<last, end>> \in E /\ last \in T
  BY DEF ChainAt
<1>2. CASE n \in T \ {node}
  <2>1. Into(F, n) = {} /\ OutOf(F, n) = {}
    BY <1>1, <1>2 DEF Into, OutOf, Shortened, ChainAt
  <2>2. QED
    BY <2>1 DEF Even
<1>3. CASE n = node
  <2>1. Into(F, n) = Into(E, n)
    BY <1>1, <1>3 DEF Into, Shortened, ChainAt
  <2>2. OutOf(F, n) = {<<node, end>>}
    BY <1>1, <1>3 DEF OutOf, Shortened
  <2>3. \A e \in Into(E, n) : e \in E /\ e[1] \notin T
    BY <1>1, <1>3 DEF Into, ChainAt
  <2>4. \A e \in Into(E, n) : g[e] = f[e]
    BY <2>3
  <2>5. SumOver(g, Into(E, n)) = SumOver(f, Into(E, n))
    <3> DEFINE I == Into(E, n)
    <3>1. \A e \in I : g[e] = f[e]
      BY <2>4
    <3> HIDE DEF I
    <3>2. SumOver(g, I) = SumOver(f, I)
      BY <3>1, SumOverDepends
    <3>3. QED
      BY <3>2 DEF I
  <2>6. SumOver(g, {<<node, end>>}) = f[<<last, end>>]
    BY <1>1, SumOverOne
  <2>7. Even(f, E, n)
    BY <1>3
  <2>8. QED
    BY <1>3, <2>1, <2>2, <2>5, <2>6, <2>7 DEF Even
<1>4. CASE n = end
  <2> DEFINE R == {e \in E : e[1] \notin T /\ e[2] = end}
  <2>1. Into(E, n) = R \cup {<<last, end>>} /\ R \cap {<<last, end>>} = {}
    <3>1. Into(E, n) = R \cup {e \in E : e[1] \in T /\ e[2] = end}
      BY <1>4 DEF Into
    <3>2. QED
      BY <1>1, <3>1 DEF ChainAt
  <2>2. Into(F, n) = R \cup {<<node, end>>} /\ R \cap {<<node, end>>} = {}
    BY <1>1, <1>4 DEF Into, Shortened
  <2>3. OutOf(F, n) = OutOf(E, n) /\ \A e \in OutOf(E, n) : e \in E /\ e[1] \notin T
    BY <1>1, <1>4 DEF OutOf, Shortened
  <2>4. IsFiniteSet(R)
    <3>1. R \subseteq Into(E, n) /\ IsFiniteSet(Into(E, n))
      BY <2>1
    <3>2. QED
      BY <3>1, FS_Subset
  <2>5. \A e \in R : f[e] \in Nat /\ g[e] = f[e] /\ g[e] \in Nat
    OBVIOUS
  <2> DEFINE c == f[<<last, end>>]
             I == {<<last, end>>}
             J == {<<node, end>>}
             O == OutOf(E, n)
  <2>6. c \in Nat
    BY <1>1
  <2>7. SumOver(f, R) = SumOver(g, R)
    <3> HIDE DEF R
    <3>1. QED
      BY <2>5, SumOverDepends
  <2>8. SumOver(f, I) = c /\ SumOver(g, J) = c
    BY <2>6, SumOverOne
  <2>9. IsFiniteSet(I) /\ IsFiniteSet(J)
    BY FS_Singleton
  <2>10. (\A e \in R \cup I : f[e] \in Nat) /\ (\A e \in R \cup J : g[e] \in Nat)
    BY <2>5, <2>6
  <2>11. R \cap I = {} /\ R \cap J = {}
    BY <2>1, <2>2
  <2>12. \A e \in O : g[e] = f[e]
    BY <2>3
  <2>13. Into(E, n) = R \cup I /\ Into(F, n) = R \cup J /\ OutOf(E, n) = O /\ OutOf(F, n) = O
    BY <2>1, <2>2, <2>3
  <2>14. Even(f, E, n)
    BY <1>1, <1>4
  <2> HIDE DEF R, I, J, O, c, F
  <2>15. SumOver(f, R \cup I) = SumOver(f, R) + SumOver(f, I)
    BY <2>4, <2>9, <2>10, <2>11, SumOverBoth
  <2>16. SumOver(g, R \cup J) = SumOver(g, R) + SumOver(g, J)
    BY <2>4, <2>9, <2>10, <2>11, SumOverBoth
  <2>17. SumOver(g, O) = SumOver(f, O)
    BY <2>12, SumOverDepends
  <2>18. Even(g, F, n)
    BY <2>7, <2>8, <2>13, <2>14, <2>15, <2>16, <2>17 DEF Even
  <2>19. QED
    BY <2>18 DEF F
<1>5. CASE n \notin T \cup {end}
  <2>1. Into(F, n) = Into(E, n) /\ OutOf(F, n) = OutOf(E, n)
    BY <1>1, <1>5 DEF Into, OutOf, Shortened, ChainAt
  <2>2. \A e \in Into(E, n) \cup OutOf(E, n) : e \in E /\ e[1] \notin T
    BY <1>5 DEF Into, OutOf, ChainAt
  <2>3. \A e \in Into(E, n) \cup OutOf(E, n) : g[e] = f[e]
    BY <2>2
  <2>4. Even(f, E, n)
    BY <1>5
  <2> HIDE DEF F
  <2>5. Even(g, F, n)
    BY <2>1, <2>3, <2>4, EvenDepends
  <2>6. QED
    BY <2>5 DEF F
<1>6. QED
  BY <1>2, <1>3, <1>4, <1>5

-----------------------------------------------------------------------------
(* Sets of nodes closed under the edges.  All edges are reached from root if
   each such set with root has their sources; there is a way from s to d if
   each that has what follows s has d. *)
Closed(E, X) == \A e \in E : e[1] \in X => e[2] \in X
Covers(K, E, root) == \A X \in SUBSET K : root \in X /\ Closed(E, X) => \A e \in E : e[1] \in X
Way(K, E, s, d) == \A X \in SUBSET K : (\A e \in E : e[1] \in X \cup {s} => e[2] \in X) => d \in X

(* Without the edge from b to a, a set that is closed becomes so for all edges
   with a, which is in it already if it is reached from root. *)
LEMMA LoopCutClosed ==
  ASSUME NEW E, NEW a, NEW b, NEW x, NEW o, LoopAt(E, a, b, x, o),
         NEW X, Closed(E \ {<<b, a>>}, X)
  PROVE  (b \in X => Closed(E, X \cup {a})) /\ (b \notin X => Closed(E, X)) /\ (x \in X => a \in X)
<1>1. \A e \in E : e[1] = a => e = <<a, b>>
  BY DEF LoopAt, OutOf
<1>2. <<x, a>> \in E /\ x # b /\ a # b /\ <<a, b>> \in E
  BY LoopApart DEF LoopAt
<1>3. x \in X => a \in X
  BY <1>2 DEF Closed
<1>4. b \notin X => Closed(E, X)
  BY DEF Closed
<1>5. b \in X => Closed(E, X \cup {a})
  BY <1>1 DEF Closed
<1>6. QED
  BY <1>3, <1>4, <1>5

(* So nothing else becomes reached or is no longer reached. *)
LEMMA LoopCutCovers ==
  ASSUME NEW K, NEW E, \A e \in E : e[1] \in K /\ e[2] \in K, NEW root, Covers(K, E, root),
         NEW a, NEW b, NEW x, NEW o, LoopAt(E, a, b, x, o)
  PROVE  Covers(K, E \ {<<b, a>>}, root)
<1> SUFFICES ASSUME NEW X \in SUBSET K, root \in X, Closed(E \ {<<b, a>>}, X)
             PROVE  \A e \in E \ {<<b, a>>} : e[1] \in X
  BY DEF Covers
<1>1. (b \in X => Closed(E, X \cup {a})) /\ (b \notin X => Closed(E, X)) /\ (x \in X => a \in X)
  BY LoopCutClosed
<1>2. x # a /\ <<x, a>> \in E
  BY LoopApart
<1>3. CASE b \notin X
  BY <1>1, <1>3 DEF Covers
<1>4. CASE b \in X
  <2>1. X \cup {a} \in SUBSET K
    BY <1>2
  <2>2. \A e \in E : e[1] \in X \cup {a}
    BY <1>1, <1>4, <2>1 DEF Covers
  <2>3. <<x, a>>[1] \in X \cup {a}
    BY <1>2, <2>2
  <2>4. a \in X
    BY <1>1, <1>2, <2>3
  <2>5. QED
    BY <2>2, <2>4
<1>5. QED
  BY <1>3, <1>4

(* Nor does it change where other nodes lead, but for ways to the node the loop
   is entered by. *)
LEMMA LoopCutWay ==
  ASSUME NEW K, NEW E, \A e \in E : e[1] \in K /\ e[2] \in K,
         NEW a, NEW b, NEW x, NEW o, LoopAt(E, a, b, x, o),
         NEW s, s \notin {a, b}, NEW d, d # a
  PROVE  Way(K, E \ {<<b, a>>}, s, d) <=> Way(K, E, s, d)
<1>1. ASSUME Way(K, E \ {<<b, a>>}, s, d) PROVE Way(K, E, s, d)
  BY <1>1 DEF Way
<1>2. ASSUME Way(K, E, s, d), NEW X \in SUBSET K,
             \A e \in E \ {<<b, a>>} : e[1] \in X \cup {s} => e[2] \in X
      PROVE  d \in X
  <2>1. Closed(E \ {<<b, a>>}, X)
    BY <1>2 DEF Closed
  <2>2. (b \in X => Closed(E, X \cup {a})) /\ (b \notin X => Closed(E, X))
    BY <2>1, LoopCutClosed
  <2>3. \A e \in E : e[1] = s => e[2] \in X
    BY <1>2
  <2>4. a \in K
    <3>1. <<a, b>> \in E /\ <<a, b>>[1] = a
      BY LoopApart
    <3>2. QED
      BY <3>1
  <2>5. CASE b \notin X
    BY <1>2, <2>2, <2>3, <2>5 DEF Closed, Way
  <2>6. CASE b \in X
    <3>1. X \cup {a} \in SUBSET K
      BY <2>4
    <3>2. \A e \in E : e[1] \in (X \cup {a}) \cup {s} => e[2] \in X \cup {a}
      BY <2>2, <2>3, <2>6 DEF Closed
    <3>3. d \in X \cup {a}
      BY <1>2, <3>1, <3>2 DEF Way
    <3>4. QED
      BY <3>3
  <2>7. QED
    BY <2>5, <2>6
<1>3. ASSUME Way(K, E, s, d) PROVE Way(K, E \ {<<b, a>>}, s, d)
  BY <1>2, <1>3 DEF Way
<1>4. QED
  BY <1>1, <1>3

-----------------------------------------------------------------------------
(* The chain leads to its end. *)
Leading(E, T, node, end) == \A X : node \in X /\ Closed(E, X) => T \subseteq X /\ end \in X

(* A set closed under the edges of the shortened graph, without the nodes of
   the chain, or with all of them if the chain is entered. *)
WithChain(X, T, entered) == (X \ T) \cup (IF entered THEN T ELSE {})

(* A set that is closed in the shortened graph is closed in the whole one once
   the chain is in it, or left out. *)
LEMMA ChainCutClosed ==
  ASSUME NEW E, NEW T, NEW node, NEW last, NEW end, ChainAt(E, T, node, last, end),
         NEW X, Closed(Shortened(E, T, node, end), X),
         NEW entered \in BOOLEAN, node \in X => entered, entered => end \in X
  PROVE  Closed(E, WithChain(X, T, entered))
<1> SUFFICES ASSUME NEW e \in E, e[1] \in WithChain(X, T, entered)
             PROVE  e[2] \in WithChain(X, T, entered)
  BY DEF Closed
<1>1. CASE e[1] \notin T
  <2>1. e[1] \in X
    BY <1>1 DEF WithChain
  <2>2. e[2] \in X
    BY <1>1, <2>1 DEF Closed, Shortened
  <2>3. e[2] \in T => e[2] = node
    BY <1>1 DEF ChainAt
  <2>4. QED
    BY <2>2, <2>3 DEF WithChain
<1>2. CASE e[1] \in T
  <2>1. entered
    BY <1>2 DEF WithChain
  <2>2. e[2] \in T \cup {end} /\ end \notin T
    BY <1>2 DEF ChainAt
  <2>3. QED
    BY <2>1, <2>2 DEF WithChain
<1>3. QED
  BY <1>1, <1>2

(* The shortened graph is covered from where the whole one was, *)
LEMMA ChainCutCovers ==
  ASSUME NEW K, NEW E, \A e \in E : e[1] \in K /\ e[2] \in K, NEW root, Covers(K, E, root),
         NEW T \in SUBSET K, NEW node, NEW last, NEW end, ChainAt(E, T, node, last, end),
         root \in T => root = node, \E e \in E : e[1] = node
  PROVE  Covers(K, Shortened(E, T, node, end), root)
<1> SUFFICES ASSUME NEW X \in SUBSET K, root \in X, Closed(Shortened(E, T, node, end), X)
             PROVE  \A e \in Shortened(E, T, node, end) : e[1] \in X
  BY DEF Covers
<1> DEFINE entered == node \in X
           Y == WithChain(X, T, entered)
<1>1. node \in T /\ end \notin T
  BY DEF ChainAt
<1>2. node \in X => end \in X
  <2>1. <<node, end>> \in Shortened(E, T, node, end) /\ <<node, end>>[1] = node /\ <<node, end>>[2] = end
    BY DEF Shortened
  <2>2. QED
    BY <2>1 DEF Closed
<1>3. Closed(E, Y)
  <2>1. entered \in BOOLEAN /\ (node \in X => entered) /\ (entered => end \in X)
    BY <1>2
  <2> HIDE DEF entered
  <2>2. QED
    BY <2>1, ChainCutClosed
<1>4. Y \in SUBSET K /\ root \in Y
  BY DEF WithChain
<1>5. \A e \in E : e[1] \in Y
  <2> HIDE DEF Y
  <2>1. QED
    BY <1>3, <1>4 DEF Covers
<1>6. node \in X
  BY <1>1, <1>5 DEF WithChain
<1>7. \A e \in E : e[1] \notin T => e[1] \in X
  BY <1>5 DEF WithChain
<1>8. QED
  BY <1>6, <1>7 DEF Shortened

(* and leads where the whole one did, but for the nodes of the chain. *)
LEMMA ChainCutWay ==
  ASSUME NEW K, NEW E, \A e \in E : e[1] \in K /\ e[2] \in K,
         NEW T \in SUBSET K, NEW node, NEW last, NEW end, ChainAt(E, T, node, last, end),
         Leading(E, T, node, end), NEW s, s \in T => s = node, NEW d, d \notin T
  PROVE  Way(K, Shortened(E, T, node, end), s, d) <=> Way(K, E, s, d)
<1> DEFINE F == Shortened(E, T, node, end)
<1>1. node \in T /\ end \notin T /\ node # end /\ node \in K
  BY DEF ChainAt
<1>2. ASSUME Way(K, F, s, d), NEW X \in SUBSET K, \A e \in E : e[1] \in X \cup {s} => e[2] \in X
      PROVE  d \in X
  <2>1. Closed(E, X)
    BY <1>2 DEF Closed
  <2>2. node \in X => end \in X
    BY <2>1 DEF Leading
  <2>3. s = node => end \in X
    <3> SUFFICES ASSUME s = node PROVE end \in X
      OBVIOUS
    <3>1. Closed(E, X \cup {node})
      BY <1>2 DEF Closed
    <3>2. end \in X \cup {node}
      BY <3>1 DEF Leading
    <3>3. QED
      BY <1>1, <3>2
  <2>4. \A e \in F : e[1] \in X \cup {s} => e[2] \in X
    BY <1>2, <2>2, <2>3 DEF Shortened
  <2>5. QED
    BY <1>2, <2>4 DEF Way
<1>3. ASSUME Way(K, E, s, d), NEW X \in SUBSET K, \A e \in F : e[1] \in X \cup {s} => e[2] \in X
      PROVE  d \in X
  <2> DEFINE entered == node \in X \/ s = node
             Y == WithChain(X, T, entered)
  <2>1. Closed(F, X)
    BY <1>3 DEF Closed
  <2>2. entered => end \in X
    <3>1. <<node, end>> \in F /\ <<node, end>>[1] = node /\ <<node, end>>[2] = end
      BY DEF Shortened
    <3>2. QED
      BY <1>3, <3>1
  <2>3. Closed(E, Y)
    BY <2>1, <2>2, ChainCutClosed
  <2>4. ASSUME NEW e \in E, e[1] = s PROVE e[2] \in Y
    <3>1. CASE s \in T
      <4>1. e[2] \in T \cup {end}
        BY <2>4, <3>1 DEF ChainAt
      <4>2. QED
        BY <1>1, <2>2, <3>1, <4>1 DEF WithChain
    <3>2. CASE s \notin T
      <4>1. e \in F
        BY <2>4, <3>2 DEF Shortened
      <4>2. e[2] \in X
        BY <1>3, <2>4, <4>1
      <4>3. e[2] \in T => e[2] = node
        BY <2>4, <3>2 DEF ChainAt
      <4>4. QED
        BY <4>2, <4>3 DEF WithChain
    <3>3. QED
      BY <3>1, <3>2
  <2>5. Y \in SUBSET K
    BY DEF WithChain
  <2>6. d \in Y
    <3> HIDE DEF Y
    <3>1. \A e \in E : e[1] \in Y \cup {s} => e[2] \in Y
      BY <2>3, <2>4 DEF Closed
    <3>2. QED
      BY <1>3, <2>5, <3>1 DEF Way
  <2>7. QED
    BY <2>6 DEF WithChain
<1>4. Way(K, F, s, d) => Way(K, E, s, d)
  <2> HIDE DEF F
  <2>1. QED
    BY <1>2 DEF Way
<1>5. Way(K, E, s, d) => Way(K, F, s, d)
  <2> HIDE DEF F
  <2>1. QED
    BY <1>3 DEF Way
<1>6. QED
  BY <1>4, <1>5

-----------------------------------------------------------------------------
(* A run of N edges, each the only one out of the node it begins in and the
   only one into it but for the first, that does not meet its first node in
   between. *)
Run(E, at, N) ==
  /\ \A k \in 0 .. N - 1 : /\ OutOf(E, at[k]) = {<<at[k], at[k + 1]>>}
                           /\ \A e, f \in E : e[2] = at[k] /\ f[2] = at[k] => e = f
  /\ \A k \in 1 .. N - 1 : at[k] # at[0]

Nodes(at, N) == {at[k] : k \in 0 .. N - 1}

(* What is at the nodes of a run. *)
LEMMA RunEdges ==
  ASSUME NEW E, NEW at, NEW N \in Nat, Run(E, at, N), NEW k \in 0 .. N - 1
  PROVE  /\ <<at[k], at[k + 1]>> \in E
         /\ \A e \in E : e[1] = at[k] => e = <<at[k], at[k + 1]>>
         /\ k > 0 => \A e \in E : e[2] = at[k] => e = <<at[k - 1], at[k]>>
<1>1. OutOf(E, at[k]) = {<<at[k], at[k + 1]>>}
  BY DEF Run
<1>2. <<at[k], at[k + 1]>> \in E /\ \A e \in E : e[1] = at[k] => e = <<at[k], at[k + 1]>>
  BY <1>1 DEF OutOf
<1>3. ASSUME k > 0, NEW e \in E, e[2] = at[k] PROVE e = <<at[k - 1], at[k]>>
  <2>1. k - 1 \in 0 .. N - 1 /\ (k - 1) + 1 = k
    BY <1>3
  <2>2. OutOf(E, at[k - 1]) = {<<at[k - 1], at[k]>>}
    BY <2>1 DEF Run
  <2>3. <<at[k - 1], at[k]>> \in E /\ <<at[k - 1], at[k]>>[2] = at[k]
    BY <2>2 DEF OutOf
  <2>4. QED
    BY <1>3, <2>3 DEF Run
<1>4. QED
  BY <1>2, <1>3

(* It meets no node twice, *)
LEMMA RunDistinct ==
  ASSUME NEW E, NEW at, NEW N \in Nat, Run(E, at, N)
  PROVE  \A i, j \in 0 .. N - 1 : at[i] = at[j] => i = j
<1> DEFINE Good == {i \in Nat : \A j \in 0 .. N - 1 : i < j => at[i] # at[j]}
<1>1. 0 \in Good
  <2>1. \A j \in 0 .. N - 1 : 0 < j => j \in 1 .. N - 1
    OBVIOUS
  <2>2. QED
    BY <2>1 DEF Run
<1>2. ASSUME NEW i \in Nat, i \in Good PROVE i + 1 \in Good
  <2> SUFFICES ASSUME NEW j \in 0 .. N - 1, i + 1 < j, at[i + 1] = at[j] PROVE FALSE
    OBVIOUS
  <2>1. /\ i + 1 \in 0 .. N - 1 /\ i + 1 > 0 /\ (i + 1) - 1 = i
        /\ j > 0 /\ j - 1 \in 0 .. N - 1 /\ i < j - 1
        /\ i \in 0 .. N - 1 /\ (j - 1) + 1 = j
    OBVIOUS
  <2>2. <<at[i], at[i + 1]>> \in E /\ <<at[j - 1], at[j]>> \in E
    BY <2>1, RunEdges
  <2>3. <<at[i], at[i + 1]>>[2] = at[j] /\ <<at[j - 1], at[j]>>[2] = at[j]
    OBVIOUS
  <2>4. <<at[i], at[i + 1]>> = <<at[j - 1], at[j]>>
    BY <2>2, <2>3 DEF Run
  <2>5. at[i] = at[j - 1]
    BY <2>4
  <2>6. QED
    BY <1>2, <2>1, <2>5
<1> HIDE DEF Good
<1>3. Nat \subseteq Good
  BY <1>1, <1>2, SetInduction
<1>4. ASSUME NEW i \in 0 .. N - 1, NEW j \in 0 .. N - 1, at[i] = at[j] PROVE i = j
  <2>1. i \in Good /\ j \in Good
    BY <1>3
  <2>2. ~(i < j) /\ ~(j < i)
    BY <1>4, <2>1 DEF Good
  <2>3. QED
    BY <2>2
<1>5. QED
  BY <1>4

(* It leads to its end. *)
LEMMA RunLeads ==
  ASSUME NEW E, NEW at, NEW N \in Nat, Run(E, at, N), NEW X, at[0] \in X, Closed(E, X)
  PROVE  \A k \in 0 .. N : at[k] \in X
<1> DEFINE Good == {k \in Nat : k <= N => at[k] \in X}
<1>1. 0 \in Good
  OBVIOUS
<1>2. ASSUME NEW k \in Nat, k \in Good PROVE k + 1 \in Good
  <2> SUFFICES ASSUME k + 1 <= N PROVE at[k + 1] \in X
    OBVIOUS
  <2>1. k \in 0 .. N - 1 /\ k <= N
    OBVIOUS
  <2>2. <<at[k], at[k + 1]>> \in E /\ <<at[k], at[k + 1]>>[1] = at[k] /\ <<at[k], at[k + 1]>>[2] = at[k + 1]
    BY <2>1, RunEdges
  <2>3. QED
    BY <1>2, <2>1, <2>2 DEF Closed
<1> HIDE DEF Good
<1>3. Nat \subseteq Good
  BY <1>1, <1>2, SetInduction
<1>4. QED
  BY <1>3 DEF Good

(* so it is a chain that can be shortened. *)
LEMMA RunIsChain ==
  ASSUME NEW E, NEW at, NEW N \in Nat \ {0}, Run(E, at, N), at[N] \notin Nodes(at, N)
  PROVE  /\ ChainAt(E, Nodes(at, N), at[0], at[N - 1], at[N])
         /\ Leading(E, Nodes(at, N), at[0], at[N])
<1> DEFINE T == Nodes(at, N)
           node == at[0]
           end == at[N]
<1>1. \A k \in 0 .. N - 1 : at[k] \in T
  BY DEF Nodes
<1>2. node \in T /\ end \notin T
  BY <1>1
<1>3. ASSUME NEW e \in E, e[1] \in T
      PROVE  e[2] \in (T \ {node}) \cup {end} /\ (e[2] = end => e = <<at[N - 1], end>>)
  <2>1. PICK k \in 0 .. N - 1 : e[1] = at[k]
    BY <1>3 DEF Nodes
  <2>2. e = <<at[k], at[k + 1]>>
    BY <2>1, RunEdges
  <2>3. CASE k + 1 = N
    <3>1. k = N - 1
      BY <2>3
    <3>2. QED
      BY <2>2, <2>3, <3>1
  <2>4. CASE k + 1 # N
    <3>1. k + 1 \in 0 .. N - 1 /\ 0 \in 0 .. N - 1 /\ k + 1 # 0
      BY <2>4
    <3>2. at[k + 1] \in T /\ at[k + 1] # at[0]
      BY <1>1, <3>1, RunDistinct
    <3>3. QED
      BY <1>2, <2>2, <3>2
  <2>5. QED
    BY <2>3, <2>4
<1>4. ASSUME NEW e \in E, e[2] \in T \ {node} PROVE e[1] \in T
  <2>1. PICK k \in 0 .. N - 1 : e[2] = at[k]
    BY <1>4 DEF Nodes
  <2>2. k > 0 /\ k - 1 \in 0 .. N - 1
    <3>1. k # 0
      BY <1>4, <2>1
    <3>2. QED
      BY <3>1
  <2>3. e = <<at[k - 1], at[k]>>
    BY <2>1, <2>2, RunEdges
  <2>4. QED
    BY <1>1, <2>2, <2>3
<1>5. <<at[N - 1], end>> \in E /\ at[N - 1] \in T
  <2>1. N - 1 \in 0 .. N - 1 /\ (N - 1) + 1 = N
    OBVIOUS
  <2>2. <<at[N - 1], at[(N - 1) + 1]>> \in E
    BY <2>1, RunEdges
  <2>3. QED
    BY <1>1, <2>1, <2>2
<1>6. {e \in E : e[1] \in T /\ e[2] = end} = {<<at[N - 1], end>>}
  <2>1. <<at[N - 1], end>>[1] = at[N - 1] /\ <<at[N - 1], end>>[2] = end
    OBVIOUS
  <2> HIDE DEF end, T
  <2>2. QED
    BY <1>3, <1>5, <2>1
<1>7. ChainAt(E, T, node, at[N - 1], end)
  <2> HIDE DEF T, node, end
  <2>1. QED
    BY <1>2, <1>3, <1>4, <1>6 DEF ChainAt
<1>8. Leading(E, T, node, end)
  <2> SUFFICES ASSUME NEW X, at[0] \in X, Closed(E, X) PROVE T \subseteq X /\ at[N] \in X
    BY DEF Leading
  <2>1. \A k \in 0 .. N : at[k] \in X
    BY RunLeads
  <2>2. 0 .. N - 1 \subseteq 0 .. N /\ N \in 0 .. N
    OBVIOUS
  <2>3. QED
    BY <2>1, <2>2 DEF Nodes
<1>9. QED
  BY <1>7, <1>8

(* It does not return to its first node: nothing would lead into it. *)
LEMMA RunLeaves ==
  ASSUME NEW K, NEW E, \A e \in E : e[1] \in K /\ e[2] \in K, NEW root \in K, Covers(K, E, root),
         \A e \in E : e[2] # root,
         NEW at, NEW N \in Nat \ {0}, Run(E, at, N)
  PROVE  at[N] # at[0]
<1> SUFFICES ASSUME at[N] = at[0] PROVE FALSE
  OBVIOUS
<1> DEFINE T == Nodes(at, N)
           X == K \ T
<1>1. \A k \in 0 .. N - 1 : at[k] \in T
  BY DEF Nodes
<1>2. ASSUME NEW e \in E, e[2] \in T PROVE e[1] \in T
  <2>1. PICK k \in 0 .. N - 1 : e[2] = at[k]
    BY <1>2 DEF Nodes
  <2>2. CASE k # 0
    <3>1. k > 0 /\ k - 1 \in 0 .. N - 1
      BY <2>2
    <3>2. k > 0 => \A d \in E : d[2] = at[k] => d = <<at[k - 1], at[k]>>
      <4>1. N \in Nat /\ k \in 0 .. N - 1 /\ Run(E, at, N)
        OBVIOUS
      <4>2. QED
        BY ONLY <4>1, RunEdges
    <3>3. e = <<at[k - 1], at[k]>>
      BY <2>1, <3>1, <3>2
    <3>4. QED
      BY <1>1, <3>1, <3>3
  <2>3. CASE k = 0
    <3>1. N - 1 \in 0 .. N - 1 /\ (N - 1) + 1 = N
      OBVIOUS
    <3>2. <<at[N - 1], at[N]>> \in E
      BY <3>1, RunEdges
    <3>3. <<at[N - 1], at[N]>>[2] = at[0] /\ <<at[N - 1], at[N]>>[1] = at[N - 1]
      OBVIOUS
    <3>4. e = <<at[N - 1], at[N]>>
      BY <2>1, <2>3, <3>2, <3>3 DEF Run
    <3>5. QED
      BY <1>1, <3>1, <3>3, <3>4
  <2>4. QED
    BY <2>2, <2>3
<1>3. Closed(E, X)
  BY <1>2 DEF Closed
<1>4. root \notin T
  <2> SUFFICES ASSUME NEW k \in 0 .. N - 1, root = at[k] PROVE FALSE
    BY DEF Nodes
  <2>1. CASE k = 0
    <3>1. N - 1 \in 0 .. N - 1 /\ (N - 1) + 1 = N
      OBVIOUS
    <3>2. <<at[N - 1], at[N]>> \in E /\ <<at[N - 1], at[N]>>[2] = at[N]
      BY <3>1, RunEdges
    <3>3. QED
      BY <2>1, <3>2
  <2>2. CASE k # 0
    <3>1. k - 1 \in 0 .. N - 1 /\ (k - 1) + 1 = k
      BY <2>2
    <3>2. <<at[k - 1], at[k]>> \in E /\ <<at[k - 1], at[k]>>[2] = at[k]
      BY <3>1, RunEdges
    <3>3. QED
      BY <3>2
  <2>3. QED
    BY <2>1, <2>2
<1>5. \A e \in E : e[1] \in X
  <2>1. X \in SUBSET K /\ root \in X
    BY <1>4
  <2> HIDE DEF X
  <2>2. QED
    BY <1>3, <2>1 DEF Covers
<1>6. 0 \in 0 .. N - 1
  OBVIOUS
<1>7. <<at[0], at[0 + 1]>> \in E /\ <<at[0], at[0 + 1]>>[1] = at[0]
  BY <1>6, RunEdges
<1>8. QED
  BY <1>1, <1>5, <1>6, <1>7

(* The same count on all of its edges. *)
EvenAlong(f, E, at, N) == (\A e \in E : f[e] \in Nat) /\ \A k \in 1 .. N - 1 : Even(f, E, at[k])
Level(f, at, N) == \A k \in 0 .. N - 1 : f[<<at[k], at[k + 1]>>] = f[<<at[0], at[0 + 1]>>]

LEMMA RunEven ==
  ASSUME NEW E, NEW at, NEW N \in Nat, Run(E, at, N), NEW f, EvenAlong(f, E, at, N)
  PROVE  Level(f, at, N)
<1> DEFINE Good == {j \in Nat : j <= N - 1 => f[<<at[j], at[j + 1]>>] = f[<<at[0], at[0 + 1]>>]}
<1>1. 0 \in Good
  OBVIOUS
<1>2. ASSUME NEW j \in Nat, j \in Good PROVE j + 1 \in Good
  <2> SUFFICES ASSUME j + 1 <= N - 1
               PROVE  f[<<at[j + 1], at[(j + 1) + 1]>>] = f[<<at[0], at[0 + 1]>>]
    OBVIOUS
  <2>1. /\ j \in 0 .. N - 1 /\ j <= N - 1
        /\ j + 1 \in 0 .. N - 1 /\ j + 1 \in 1 .. N - 1 /\ j + 1 > 0 /\ (j + 1) - 1 = j
    OBVIOUS
  <2>2. <<at[j], at[j + 1]>> \in E /\ <<at[j + 1], at[(j + 1) + 1]>> \in E
    BY <2>1, RunEdges
  <2>3. OutOf(E, at[j + 1]) = {<<at[j + 1], at[(j + 1) + 1]>>}
    BY <2>1 DEF Run
  <2>4. Into(E, at[j + 1]) = {<<at[j], at[j + 1]>>}
    <3>1. \A e \in E : e[2] = at[j + 1] => e = <<at[j], at[j + 1]>>
      <4> DEFINE i == j + 1
      <4>1. i \in 0 .. N - 1 /\ i > 0 /\ i - 1 = j
        BY <2>1
      <4> HIDE DEF i
      <4>2. i > 0 => \A e \in E : e[2] = at[i] => e = <<at[i - 1], at[i]>>
        BY <4>1, RunEdges
      <4>3. \A e \in E : e[2] = at[i] => e = <<at[j], at[i]>>
        BY <4>1, <4>2
      <4>4. QED
        BY <4>3 DEF i
    <3>2. <<at[j], at[j + 1]>>[2] = at[j + 1]
      OBVIOUS
    <3>3. QED
      BY <2>2, <3>1, <3>2 DEF Into
  <2>5. SumOver(f, {<<at[j], at[j + 1]>>}) = f[<<at[j], at[j + 1]>>]
    BY <2>2, SumOverOne DEF EvenAlong
  <2>6. SumOver(f, {<<at[j + 1], at[(j + 1) + 1]>>}) = f[<<at[j + 1], at[(j + 1) + 1]>>]
    BY <2>2, SumOverOne DEF EvenAlong
  <2>7. Even(f, E, at[j + 1])
    BY <2>1 DEF EvenAlong
  <2>8. QED
    BY <1>2, <2>1, <2>3, <2>4, <2>5, <2>6, <2>7 DEF Even
<1> HIDE DEF Good
<1>3. Nat \subseteq Good
  BY <1>1, <1>2, SetInduction
<1>4. \A k \in 0 .. N - 1 : k \in Good /\ k <= N - 1
  BY <1>3
<1>5. QED
  BY <1>4 DEF Good, Level

-----------------------------------------------------------------------------
(* The edges of a walk, the places where it takes one, and the model. *)
Steps(walk) == 1 .. Len(walk) - 1
StepOf(walk, k) == <<walk[k], walk[k + 1]>>
Places(walk, e) == {k \in Steps(walk) : StepOf(walk, k) = e}
Trace(walk) == {StepOf(walk, k) : k \in Steps(walk)}

(* How often a walk takes an edge is a number. *)
LEMMA TimesIsNat ==
  ASSUME NEW walk, IsWalk(walk), NEW e
  PROVE  /\ IsFiniteSet(Places(walk, e)) /\ Times(walk, e) = Cardinality(Places(walk, e))
         /\ Times(walk, e) \in Nat /\ (e \in Trace(walk) => Times(walk, e) # 0)
         /\ IsFiniteSet(Steps(walk)) /\ Len(walk) \in Nat
<1>1. Len(walk) \in Nat
  BY DEF IsWalk
<1>2. IsFiniteSet(Steps(walk))
  BY <1>1, FS_Interval DEF Steps
<1>3. IsFiniteSet(Places(walk, e))
  BY <1>2, FS_Subset DEF Places
<1>4. Times(walk, e) = Cardinality(Places(walk, e))
  BY DEF Times, Places, Steps, StepOf
<1>5. Cardinality(Places(walk, e)) \in Nat
  BY <1>3, FS_CardinalityType
<1>6. ASSUME e \in Trace(walk), Cardinality(Places(walk, e)) = 0 PROVE FALSE
  <2>1. Places(walk, e) = {}
    BY <1>3, <1>6, FS_EmptySet
  <2>2. QED
    BY <1>6, <2>1 DEF Trace, Places
<1>7. QED
  BY <1>1, <1>2, <1>3, <1>4, <1>5, <1>6

(* A walk never comes back to the first state, *)
LEMMA WalkStates ==
  ASSUME NEW walk, IsWalk(walk), NEW k \in Steps(walk)
  PROVE  /\ walk[k] \in Nat /\ walk[k + 1] \in Nat /\ walk[k + 1] # Entrance
         /\ k \in DOMAIN walk /\ k + 1 \in DOMAIN walk /\ k \in Nat \ {0} /\ k + 1 <= Len(walk)
<1>1. walk \in Seq(Nat) /\ Len(walk) \in Nat /\ DOMAIN walk = 1 .. Len(walk)
  BY DEF IsWalk
<1>2. k \in DOMAIN walk /\ k + 1 \in DOMAIN walk /\ k \in Nat \ {0} /\ k + 1 <= Len(walk) /\ k + 1 # 1
  BY <1>1 DEF Steps
<1>3. QED
  BY <1>1, <1>2 DEF IsWalk

(* begins there and ends elsewhere. *)
LEMMA WalkEnds ==
  ASSUME NEW walk, IsWalk(walk)
  PROVE  /\ 1 \in Steps(walk) /\ walk[1] = Entrance
         /\ Last(walk) = walk[Len(walk)] /\ Len(walk) \in Nat /\ Len(walk) - 1 \in Steps(walk)
         /\ Last(walk) # Entrance /\ (Len(walk) - 1) + 1 = Len(walk)
<1>1. walk \in Seq(Nat) /\ Len(walk) \in Nat /\ DOMAIN walk = 1 .. Len(walk) /\ Len(walk) >= 2
  BY DEF IsWalk
<1>2. 1 \in DOMAIN walk /\ Len(walk) \in DOMAIN walk /\ Len(walk) # 1
  BY <1>1
<1>3. Last(walk) = walk[Len(walk)]
  BY DEF Last
<1>4. QED
  BY <1>1, <1>2, <1>3 DEF IsWalk, Steps

(* The edges of the merged model are those of the walks. *)
LEMMA ModelEdges ==
  ASSUME MergedFromWalks
  PROVE  /\ DOMAIN model = UNION {Trace(walks[p]) : p \in Ranks}
         /\ \A e \in DOMAIN model : e \in Nat \X Nat /\ e[2] # Entrance
         /\ \A e \in DOMAIN model : e[1] \in Known /\ e[2] \in Known
         /\ \A n \in Known : n \in Nat /\ \E e \in DOMAIN model : n = e[1] \/ n = e[2]
         /\ Entrance \in Known /\ LastStates \subseteq Known
<1>1. DOMAIN model = UNION {Trace(walks[p]) : p \in Ranks}
  BY DEF MergedFromWalks, Summed, Trace, Steps, StepOf
<1>2. \A p \in Ranks : IsWalk(walks[p])
  BY DEF MergedFromWalks
<1>3. ASSUME NEW e \in DOMAIN model PROVE e \in Nat \X Nat /\ e[2] # Entrance
  <2>1. PICK p \in Ranks : e \in Trace(walks[p])
    BY <1>1
  <2>2. PICK k \in Steps(walks[p]) : e = <<walks[p][k], walks[p][k + 1]>>
    BY <2>1 DEF Trace, StepOf
  <2>3. walks[p][k] \in Nat /\ walks[p][k + 1] \in Nat /\ walks[p][k + 1] # Entrance
    BY <1>2, WalkStates
  <2>4. QED
    BY <2>2, <2>3
<1>4. DOMAIN Leads = {e[1] : e \in DOMAIN model}
  BY DEF Leads
<1>5. ASSUME NEW e \in DOMAIN model PROVE e[1] \in Known /\ e[2] \in Known
  <2>1. e[1] \in DOMAIN Leads
    BY <1>4
  <2>2. e[2] \in Leads[e[1]]
    <3>1. <<e[1], e[2]>> = e
      BY <1>3
    <3>2. QED
      BY <2>1, <3>1 DEF Leads
  <2>3. QED
    BY <2>1, <2>2 DEF Known
<1>6. ASSUME NEW n \in Known PROVE \E e \in DOMAIN model : n = e[1] \/ n = e[2]
  <2>1. CASE n \in DOMAIN Leads
    BY <1>4, <2>1
  <2>2. CASE n \notin DOMAIN Leads
    <3>1. PICK s \in DOMAIN Leads : n \in Leads[s]
      BY <2>2 DEF Known
    <3>2. <<s, n>> \in DOMAIN model /\ <<s, n>>[2] = n
      BY <3>1 DEF Leads
    <3>3. QED
      BY <3>2
  <2>3. QED
    BY <2>1, <2>2
<1>7. \A n \in Known : n \in Nat
  BY <1>3, <1>6
<1>8. \A p \in Ranks : \A k \in Steps(walks[p]) : StepOf(walks[p], k) \in DOMAIN model
  BY <1>1 DEF Trace
<1>9. Entrance \in Known
  <2>1. PICK p \in Ranks : TRUE
    BY DEF MergedFromWalks
  <2>2. StepOf(walks[p], 1) \in DOMAIN model /\ StepOf(walks[p], 1)[1] = Entrance
    BY <1>2, <1>8, WalkEnds DEF StepOf
  <2>3. QED
    BY <1>5, <2>2
<1>10. ASSUME NEW d \in LastStates PROVE d \in Known
  <2>1. PICK p \in Ranks : d = Last(walks[p])
    BY DEF LastStates
  <2>2. Len(walks[p]) - 1 \in Steps(walks[p]) /\ d = walks[p][(Len(walks[p]) - 1) + 1]
    BY <1>2, <2>1, WalkEnds
  <2>3. StepOf(walks[p], Len(walks[p]) - 1)[2] = d
    BY <2>2 DEF StepOf
  <2>4. QED
    BY <1>5, <1>8, <2>2, <2>3
<1>11. QED
  BY <1>1, <1>3, <1>5, <1>6, <1>7, <1>9, <1>10

(* The model is finite. *)
LEMMA KnownFinite == ASSUME MergedFromWalks PROVE IsFiniteSet(Known) /\ IsFiniteSet(DOMAIN model)
<1> DEFINE Traces == {Trace(walks[p]) : p \in Ranks}
           h == [p \in Ranks |-> Trace(walks[p])]
<1>1. \A p \in Ranks : IsFiniteSet(Trace(walks[p]))
  <2> SUFFICES ASSUME NEW p \in Ranks PROVE IsFiniteSet(Trace(walks[p]))
    OBVIOUS
  <2> DEFINE S == Steps(walks[p])
             T == Trace(walks[p])
             g == [k \in S |-> StepOf(walks[p], k)]
  <2>1. IsFiniteSet(S)
    BY TimesIsNat DEF MergedFromWalks
  <2>2. g \in Surjection(S, T)
    BY DEF Surjection, Trace
  <2> HIDE DEF S, T, g
  <2>3. IsFiniteSet(T)
    BY <2>1, <2>2, FS_Surjection
  <2>4. QED
    BY <2>3 DEF T
<1>2. h \in Surjection(Ranks, Traces) /\ IsFiniteSet(Ranks)
  BY DEF Surjection, MergedFromWalks
<1>3. IsFiniteSet(Traces)
  <2> HIDE DEF h, Traces
  <2>1. QED
    BY <1>2, FS_Surjection
<1>4. IsFiniteSet(UNION Traces)
  <2>1. \A t \in Traces : IsFiniteSet(t)
    BY <1>1
  <2> HIDE DEF Traces
  <2>2. QED
    BY <1>3, <2>1, FS_UNION
<1>5. IsFiniteSet(DOMAIN model)
  BY <1>4, ModelEdges
<1> DEFINE M == DOMAIN model
           A == {e[1] : e \in M}
           B == {e[2] : e \in M}
           ga == [e \in M |-> e[1]]
           gb == [e \in M |-> e[2]]
<1>6. ga \in Surjection(M, A) /\ gb \in Surjection(M, B)
  BY DEF Surjection
<1>7. Known \subseteq A \cup B
  BY ModelEdges
<1>8. IsFiniteSet(M)
  BY <1>5
<1> HIDE DEF M, A, B, ga, gb
<1>9. IsFiniteSet(A) /\ IsFiniteSet(B)
  BY <1>6, <1>8, FS_Surjection
<1>10. IsFiniteSet(A \cup B)
  BY <1>9, FS_Union
<1>11. QED
  BY <1>5, <1>7, <1>10, FS_Subset

(* The walks begin in the first state and get everywhere. *)
LEMMA ModelCovered == ASSUME MergedFromWalks PROVE Covers(Known, DOMAIN model, Entrance)
<1> SUFFICES ASSUME NEW X \in SUBSET Known, Entrance \in X, Closed(DOMAIN model, X), NEW e \in DOMAIN model
             PROVE  e[1] \in X
  BY DEF Covers
<1>1. PICK p \in Ranks : e \in Trace(walks[p])
  BY ModelEdges
<1> DEFINE w == walks[p]
<1>2. IsWalk(w)
  BY DEF MergedFromWalks
<1>3. \A k \in Steps(w) : StepOf(w, k) \in DOMAIN model
  BY ModelEdges DEF Trace
<1> DEFINE Good == {k \in Nat : k \in Steps(w) => w[k] \in X}
<1> HIDE DEF w
<1>4. 0 \in Good
  <2>1. 0 \notin Steps(w)
    BY <1>2, WalkStates
  <2>2. QED
    BY <2>1
<1>5. ASSUME NEW k \in Nat, k \in Good PROVE k + 1 \in Good
  <2> SUFFICES ASSUME k + 1 \in Steps(w) PROVE w[k + 1] \in X
    OBVIOUS
  <2>1. CASE k = 0
    <3>1. w[1] = Entrance
      BY <1>2, WalkEnds
    <3>2. QED
      BY <2>1, <3>1
  <2>2. CASE k # 0
    <3>1. k \in Steps(w)
      <4>1. Len(w) \in Nat
        BY <1>2, WalkEnds
      <4>2. QED
        BY <2>2, <4>1 DEF Steps
    <3>2. w[k] \in X
      BY <1>5, <3>1
    <3>3. StepOf(w, k) \in DOMAIN model
      BY <1>3, <3>1
    <3>4. StepOf(w, k)[1] = w[k] /\ StepOf(w, k)[2] = w[k + 1]
      BY DEF StepOf
    <3>5. QED
      BY <3>2, <3>3, <3>4 DEF Closed
  <2>3. QED
    BY <2>1, <2>2
<1>6. Nat \subseteq Good
  <2> HIDE DEF Good
  <2>1. QED
    BY <1>4, <1>5, SetInduction
<1>7. PICK k \in Steps(w) : e = StepOf(w, k)
  BY <1>1 DEF Trace, w
<1>8. k \in Nat
  BY <1>2, WalkStates
<1>9. e[1] = w[k]
  BY <1>7 DEF StepOf
<1>10. QED
  BY <1>6, <1>7, <1>8, <1>9

(* The sum of the times is the number of the places. *)
LEMMA SumOfTimes ==
  ASSUME NEW w, IsWalk(w), NEW S, IsFiniteSet(S), NEW f, \A e \in S : f[e] = Times(w, e)
  PROVE  SumOver(f, S) = Cardinality({k \in Steps(w) : StepOf(w, k) \in S})
<1> DEFINE g == [e \in S |-> Places(w, e)]
           F == [t \in SUBSET S |-> SumOver(f, t)]
           G == [t \in SUBSET S |-> Cardinality(Together(g, t))]
<1>1. \A e \in S : /\ f[e] \in Nat /\ f[e] = Cardinality(g[e]) /\ IsFiniteSet(g[e])
  BY TimesIsNat
<1>2. \A x, y \in S : x # y => g[x] \cap g[y] = {}
  BY DEF Places
<1>3. Together(g, S) = {k \in Steps(w) : StepOf(w, k) \in S}
  BY DEF Together, Places
<1> HIDE DEF g
<1>4. F[{}] = G[{}]
  <2>1. SumOver(f, {}) = 0
    BY <1>1, SumOverElements
  <2>2. Together(g, {}) = {}
    BY DEF Together
  <2>3. QED
    BY <2>1, <2>2, FS_EmptySet
<1>5. ASSUME NEW s \in SUBSET S, s # {} PROVE \E x \in s : F[s \ {x}] = G[s \ {x}] => F[s] = G[s]
  <2>1. PICK x \in s : TRUE
    BY <1>5
  <2>2. SumOver(f, s) = f[x] + SumOver(f, s \ {x})
    BY <1>1, SumOverElements
  <2>3. Cardinality(Together(g, s)) = Cardinality(g[x]) + Cardinality(Together(g, s \ {x}))
    BY <1>1, <1>2, DisjointSets
  <2>4. x \in S
    BY <2>1
  <2>5. f[x] = Cardinality(g[x])
    BY <1>1, <2>4
  <2>6. QED
    BY <2>2, <2>3, <2>5
<1> HIDE DEF F, G
<1>6. F[S] = G[S]
  BY <1>4, <1>5, FoldsAgree
<1>7. QED
  BY <1>3, <1>6 DEF F, G

(* A walk leaves a state that is not its first or last as often as it comes. *)
LEMMA WalkEven ==
  ASSUME NEW w, IsWalk(w), NEW E, IsFiniteSet(E), Trace(w) \subseteq E,
         NEW f, \A e \in E : f[e] = Times(w, e),
         NEW n, n # Entrance, n # Last(w)
  PROVE  Even(f, E, n)
<1> DEFINE A == {k \in Steps(w) : StepOf(w, k) \in Into(E, n)}
           B == {k \in Steps(w) : StepOf(w, k) \in OutOf(E, n)}
           h == [k \in A |-> k + 1]
<1>1. A = {k \in Steps(w) : w[k + 1] = n}
  BY DEF Into, Trace, StepOf
<1>2. B = {k \in Steps(w) : w[k] = n}
  BY DEF OutOf, Trace, StepOf
<1>3. Len(w) \in Nat /\ w[1] # n /\ w[Len(w)] # n
  BY WalkEnds
<1>4. \A k \in A : k + 1 \in B
  <2> SUFFICES ASSUME NEW k \in Steps(w), w[k + 1] = n PROVE k + 1 \in Steps(w)
    BY <1>1, <1>2
  <2>1. k \in Nat /\ k + 1 # Len(w) /\ k <= Len(w) - 1 /\ k >= 1
    BY <1>3 DEF Steps
  <2>2. QED
    BY <1>3, <2>1 DEF Steps
<1>5. \A b \in B : b - 1 \in A /\ (b - 1) + 1 = b
  <2> SUFFICES ASSUME NEW b \in Steps(w), w[b] = n PROVE b - 1 \in Steps(w) /\ (b - 1) + 1 = b
    BY <1>1, <1>2
  <2>1. b \in Nat /\ b # 1 /\ b <= Len(w) - 1 /\ b >= 1
    BY <1>3 DEF Steps
  <2>2. QED
    BY <1>3, <2>1 DEF Steps
<1>6. A \subseteq Nat
  BY <1>3 DEF Steps
<1> HIDE DEF A, B
<1>7. h \in Bijection(A, B)
  <2>1. h \in Injection(A, B)
    BY <1>4, <1>6 DEF Injection, IsInjective
  <2>2. h \in Surjection(A, B)
    BY <1>4, <1>5 DEF Surjection
  <2>3. QED
    BY <2>1, <2>2 DEF Bijection
<1>8. IsFiniteSet(A)
  <2>1. IsFiniteSet(Steps(w))
    BY TimesIsNat
  <2>2. QED
    BY <2>1, FS_Subset DEF A
<1>9. Cardinality(A) = Cardinality(B)
  <2> HIDE DEF h
  <2>1. QED
    BY <1>7, <1>8, FS_Bijection DEF ExistsBijection
<1> DEFINE I == Into(E, n)
           O == OutOf(E, n)
<1>10. I \subseteq E /\ O \subseteq E
  BY DEF Into, OutOf
<1>11. IsFiniteSet(I) /\ IsFiniteSet(O) /\ (\A e \in I : f[e] = Times(w, e)) /\ (\A e \in O : f[e] = Times(w, e))
  BY <1>10, FS_Subset
<1> HIDE DEF I, O
<1>12. SumOver(f, I) = Cardinality({k \in Steps(w) : StepOf(w, k) \in I})
  BY <1>11, SumOfTimes
<1>13. SumOver(f, O) = Cardinality({k \in Steps(w) : StepOf(w, k) \in O})
  BY <1>11, SumOfTimes
<1>14. QED
  BY <1>9, <1>12, <1>13 DEF Even, A, B, I, O

-----------------------------------------------------------------------------
(* The rounds of a process by an annotation. *)
Rounds(annotation, p) ==
  LET counts == {c \in DOMAIN annotation.tasks : p \in annotation.tasks[c]}
  IN IF counts = {} THEN 0 ELSE Min(counts)

(* The annotations of the merged model tell the rounds of every process. *)
LEMMA RoundsOfModel ==
  ASSUME MergedFromWalks, NEW e \in DOMAIN model, NEW p \in Ranks
  PROVE  Rounds(model[e], p) = Times(walks[p], e) /\ Rounds(model[e], p) \in Nat
<1> DEFINE c == Times(walks[p], e)
           tasks == model[e].tasks
           counts == {d \in DOMAIN tasks : p \in tasks[d]}
<1>1. c \in Nat
  BY TimesIsNat DEF MergedFromWalks
<1>2. tasks = [d \in {Times(walks[q], e) : q \in Ranks} \ {0} |-> {q \in Ranks : Times(walks[q], e) = d}]
  <2> DEFINE ann(x) == [count |-> MapThenSumSet(LAMBDA q : Times(walks[q], x), Ranks),
                        tasks |-> [d \in {Times(walks[q], x) : q \in Ranks} \ {0} |-> {q \in Ranks : Times(walks[q], x) = d}]]
             M == UNION {{<<walks[q][k], walks[q][k + 1]>> : k \in 1 .. Len(walks[q]) - 1} : q \in Ranks}
  <2>1. model = [x \in M |-> ann(x)]
    BY DEF MergedFromWalks, Summed
  <2>2. model[e] = ann(e)
    <3> HIDE DEF M, ann
    <3>1. QED
      BY <2>1
  <2>3. QED
    BY <2>2
<1>3. counts = IF c = 0 THEN {} ELSE {c}
  <2> HIDE DEF tasks
  <2>1. QED
    BY <1>2
<1>4. Rounds(model[e], p) = IF counts = {} THEN 0 ELSE Min(counts)
  BY DEF Rounds
<1> HIDE DEF c, counts
<1>5. Min({c}) = c
  BY <1>1 DEF Min
<1>6. Rounds(model[e], p) = c
  BY <1>3, <1>4, <1>5
<1>7. QED
  BY <1>1, <1>6 DEF c

-----------------------------------------------------------------------------
(* The edges of a graph m between nodes of K, and how often a process took
   them by their annotations. *)
Arcs(m, K) == {e \in K \X K : e[1] \in DOMAIN m /\ e[2] \in DOMAIN m[e[1]]}
Counts(m, K, p) == [e \in Arcs(m, K) |-> Rounds(m[e[1]][e[2]], p)]

(* What compression keeps, of a graph m with the nodes K that was made from the
   edges M, for the processes R that wait in the nodes W. *)
Sound(m, K, W, R, M) ==
  /\ DOMAIN m \subseteq K
  /\ \A e \in Arcs(m, K) : e[2] # Entrance
  /\ \A p \in R : \A e \in Arcs(m, K) : Counts(m, K, p)[e] \in Nat
  /\ \A p \in R : \A n \in K \ (W \cup {Entrance}) : Even(Counts(m, K, p), Arcs(m, K), n)
  /\ Covers(K, Arcs(m, K), Entrance)
  /\ \A s \in W \cup {Entrance} : \A d \in W : Way(K, Arcs(m, K), s, d) <=> Way(K, M, s, d)

(* The edges of a graph are pairs of its nodes. *)
LEMMA ArcsInside ==
  ASSUME NEW m, NEW K, DOMAIN m \subseteq K
  PROVE  /\ \A e \in Arcs(m, K) : e[1] \in K /\ e[2] \in K /\ e = <<e[1], e[2]>>
         /\ \A s, d : <<s, d>> \in Arcs(m, K) <=> s \in DOMAIN m /\ d \in K /\ d \in DOMAIN m[s]
<1>1. \A c \in Arcs(m, K) : c \in K \X K
  BY DEF Arcs
<1>2. \A c \in K \X K : c[1] \in K /\ c[2] \in K /\ c = <<c[1], c[2]>>
  OBVIOUS
<1>3. ASSUME NEW s, NEW d PROVE <<s, d>> \in Arcs(m, K) <=> s \in DOMAIN m /\ d \in K /\ d \in DOMAIN m[s]
  BY DEF Arcs
<1>4. QED
  BY <1>1, <1>2, <1>3

(* The graph of the merged model is sound. *)
LEMMA ModelSound ==
  ASSUME MergedFromWalks, NEW m, DOMAIN m \subseteq Known, Arcs(m, Known) = DOMAIN model,
         \A e \in DOMAIN model : m[e[1]][e[2]] = model[e]
  PROVE  Sound(m, Known, LastStates, Ranks, DOMAIN model)
<1>1. \A p \in Ranks : \A e \in DOMAIN model : Counts(m, Known, p)[e] = Times(walks[p], e)
                                              /\ Counts(m, Known, p)[e] \in Nat
  BY RoundsOfModel DEF Counts
<1>2. \A e \in DOMAIN model : e[2] # Entrance
  BY ModelEdges
<1>3. ASSUME NEW p \in Ranks, NEW n \in Known \ (LastStates \cup {Entrance})
      PROVE  Even(Counts(m, Known, p), Arcs(m, Known), n)
  <2>1. IsWalk(walks[p]) /\ IsFiniteSet(DOMAIN model) /\ Trace(walks[p]) \subseteq DOMAIN model
    BY KnownFinite, ModelEdges DEF MergedFromWalks
  <2>2. n # Entrance /\ n # Last(walks[p])
    BY DEF LastStates
  <2> DEFINE f == Counts(m, Known, p)
             w == walks[p]
             E == DOMAIN model
  <2>3. \A e \in E : f[e] = Times(w, e)
    BY <1>1
  <2>4. IsWalk(w) /\ IsFiniteSet(E) /\ Trace(w) \subseteq E /\ n # Last(w)
    BY <2>1, <2>2
  <2> HIDE DEF f, w, E
  <2>5. Even(f, E, n)
    BY <2>2, <2>3, <2>4, WalkEven
  <2>6. QED
    BY <2>5 DEF f, E
<1>4. Covers(Known, Arcs(m, Known), Entrance)
  BY ModelCovered
<1>5. QED
  BY <1>1, <1>2, <1>3, <1>4 DEF Sound

(* The removal of a small loop keeps a graph sound. *)
LEMMA LoopKeeps ==
  ASSUME NEW K, NEW W, NEW R, NEW M, NEW m, Sound(m, K, W, R, M),
         NEW a, NEW b, NEW x, NEW o, LoopAt(Arcs(m, K), a, b, x, o),
         a \notin W \cup {Entrance}, b \notin W \cup {Entrance},
         NEW m2, DOMAIN m2 \subseteq K, Arcs(m2, K) = Arcs(m, K) \ {<<b, a>>},
         m2[a][b] = m[b][o],
         \A e \in Arcs(m, K) \ {<<b, a>>, <<a, b>>} : m2[e[1]][e[2]] = m[e[1]][e[2]]
  PROVE  Sound(m2, K, W, R, M)
<1> DEFINE E == Arcs(m, K)
           F == Arcs(m2, K)
<1>1. \A e \in E : e[1] \in K /\ e[2] \in K
  BY ArcsInside DEF Sound
<1>2. a # b /\ {<<a, b>>, <<b, a>>, <<x, a>>, <<b, o>>} \subseteq E /\ o # a
  <2>1. {<<a, b>>, <<b, a>>, <<x, a>>, <<b, o>>} \subseteq E
    <3>1. LoopAt(E, a, b, x, o)
      OBVIOUS
    <3> HIDE DEF E
    <3>2. QED
      BY ONLY <3>1, LoopApart
  <2>2. a # b /\ o # a
    BY DEF LoopAt
  <2>3. QED
    BY <2>1, <2>2
<1>3. <<a, b>> # <<b, a>> /\ <<b, o>> # <<b, a>>
  BY <1>2
<1>4. ASSUME NEW p \in R
      PROVE  /\ \A e \in F : Counts(m2, K, p)[e] \in Nat
             /\ \A n \in K \ (W \cup {Entrance}) : Even(Counts(m2, K, p), F, n)
  <2> DEFINE f == Counts(m, K, p)
             g == Counts(m2, K, p)
  <2>1. g[<<a, b>>] = f[<<b, o>>]
    <3>1. <<a, b>> \in F /\ <<b, o>> \in E
      BY <1>2, <1>3
    <3>2. QED
      BY <3>1 DEF Counts
  <2>2. \A e \in E \ {<<b, a>>, <<a, b>>} : g[e] = f[e]
    BY DEF Counts
  <2>3. (\A e \in E : f[e] \in Nat) /\ \A n \in K \ (W \cup {Entrance}) : Even(f, E, n)
    BY DEF Sound
  <2>4. \A e \in F : g[e] \in Nat
    BY <1>2, <2>1, <2>2, <2>3
  <2>5. a \in K \ (W \cup {Entrance}) /\ b \in K \ (W \cup {Entrance})
    <3>1. <<a, b>>[1] \in K /\ <<a, b>>[2] \in K
      BY <1>1, <1>2
    <3>2. QED
      BY <3>1
  <2>6. Even(f, E, a) /\ Even(f, E, b)
    BY <2>3, <2>5
  <2>7. LoopAt(E, a, b, x, o) /\ F = E \ {<<b, a>>}
    OBVIOUS
  <2> HIDE DEF E, F, f, g
  <2>8. ASSUME NEW n \in K \ (W \cup {Entrance}) PROVE Even(g, F, n)
    <3>1. Even(f, E, n)
      BY <2>3
    <3>2. Even(g, E \ {<<b, a>>}, n)
      BY ONLY <2>1, <2>2, <2>3, <2>6, <2>7, <3>1, LoopCutEven
    <3>3. QED
      BY <2>7, <3>2
  <2>9. QED
    BY <2>4, <2>8 DEF g
<1>5. Covers(K, F, Entrance)
  <2>1. Covers(K, E, Entrance)
    BY DEF Sound
  <2>2. LoopAt(E, a, b, x, o) /\ F = E \ {<<b, a>>}
    OBVIOUS
  <2> HIDE DEF E, F
  <2>3. Covers(K, E \ {<<b, a>>}, Entrance)
    BY ONLY <1>1, <2>1, <2>2, LoopCutCovers
  <2>4. QED
    BY <2>2, <2>3
<1>6. ASSUME NEW s \in W \cup {Entrance}, NEW d \in W PROVE Way(K, F, s, d) <=> Way(K, M, s, d)
  <2>1. Way(K, E, s, d) <=> Way(K, M, s, d)
    BY DEF Sound
  <2>2. LoopAt(E, a, b, x, o) /\ F = E \ {<<b, a>>} /\ s \notin {a, b} /\ d # a
    OBVIOUS
  <2> HIDE DEF E, F
  <2>3. Way(K, E \ {<<b, a>>}, s, d) <=> Way(K, E, s, d)
    BY ONLY <1>1, <2>2, LoopCutWay
  <2>4. QED
    BY <2>1, <2>2, <2>3
<1>7. \A e \in F : e[2] # Entrance
  BY DEF Sound
<1>8. QED
  BY <1>4, <1>5, <1>6, <1>7 DEF Sound

(* So does the replacement of a chain by an edge. *)
LEMMA ChainKeeps ==
  ASSUME NEW K, IsFiniteSet(K), NEW W, NEW R, NEW M, NEW m, Sound(m, K, W, R, M),
         NEW at, NEW N \in Nat \ {0}, Run(Arcs(m, K), at, N), at[N] \notin Nodes(at, N),
         \A k \in 0 .. N - 1 : at[k] \notin W,
         NEW j \in 0 .. N - 1,
         NEW m2, DOMAIN m2 \subseteq K,
         Arcs(m2, K) = Shortened(Arcs(m, K), Nodes(at, N), at[0], at[N]),
         m2[at[0]][at[N]] = m[at[j]][at[j + 1]],
         \A e \in Arcs(m, K) : e[1] \notin Nodes(at, N) => m2[e[1]][e[2]] = m[e[1]][e[2]]
  PROVE  Sound(m2, K, W, R, M)
<1> DEFINE E == Arcs(m, K)
           F == Arcs(m2, K)
           T == Nodes(at, N)
           node == at[0]
           last == at[N - 1]
           end == at[N]
<1>1. \A e \in E : e[1] \in K /\ e[2] \in K /\ e = <<e[1], e[2]>>
  BY ArcsInside DEF Sound
<1>2. ChainAt(E, T, node, last, end) /\ Leading(E, T, node, end)
  BY RunIsChain
<1>3. N - 1 \in 0 .. N - 1 /\ (N - 1) + 1 = N /\ 0 \in 0 .. N - 1 /\ N \in Nat
  OBVIOUS
<1>4. \A k \in 0 .. N - 1 : <<at[k], at[k + 1]>> \in E
  BY <1>3, RunEdges
<1>5. \A k \in 0 .. N : at[k] \in K /\ (k # 0 => at[k] # Entrance)
  <2> SUFFICES ASSUME NEW k \in 0 .. N PROVE at[k] \in K /\ (k # 0 => at[k] # Entrance)
    OBVIOUS
  <2>1. CASE k = 0
    <3>1. <<at[0], at[0 + 1]>>[1] \in K
      BY <1>1, <1>3, <1>4
    <3>2. QED
      BY <2>1, <3>1
  <2>2. CASE k # 0
    <3>1. k - 1 \in 0 .. N - 1 /\ (k - 1) + 1 = k
      BY <2>2
    <3>2. <<at[k - 1], at[k]>> \in E /\ <<at[k - 1], at[k]>>[2] = at[k]
      BY <1>4, <3>1
    <3>3. QED
      BY <1>1, <3>2 DEF Sound
  <2>3. QED
    BY <2>1, <2>2
<1>6. T \in SUBSET K /\ (Entrance \in T => Entrance = node)
  <2>1. 0 .. N - 1 \subseteq 0 .. N
    OBVIOUS
  <2>2. QED
    BY <1>5, <2>1 DEF Nodes
<1>7. <<node, end>> \in F /\ F = Shortened(E, T, node, end)
  BY DEF Shortened
<1>8. ASSUME NEW p \in R
      PROVE  /\ \A e \in F : Counts(m2, K, p)[e] \in Nat
             /\ \A n \in K \ (W \cup {Entrance}) : Even(Counts(m2, K, p), F, n)
  <2> DEFINE f == Counts(m, K, p)
             g == Counts(m2, K, p)
             c == f[<<last, end>>]
  <2>1. (\A e \in E : f[e] \in Nat) /\ \A n \in K \ (W \cup {Entrance}) : Even(f, E, n)
    BY DEF Sound
  <2>2. \A k \in 1 .. N - 1 : Even(f, E, at[k])
    <3>1. \A k \in 1 .. N - 1 : at[k] \in K \ (W \cup {Entrance})
      <4>1. \A k \in 1 .. N - 1 : k \in 0 .. N - 1 /\ k \in 0 .. N /\ k # 0
        OBVIOUS
      <4>2. QED
        BY <1>5, <4>1
    <3> HIDE DEF f, E
    <3>2. QED
      BY <2>1, <3>1
  <2>3. \A k \in 0 .. N - 1 : f[<<at[k], at[k + 1]>>] = f[<<at[0], at[0 + 1]>>]
    <3>1. Run(E, at, N) /\ N \in Nat
      OBVIOUS
    <3>2. EvenAlong(f, E, at, N)
      BY <2>1, <2>2 DEF EvenAlong
    <3> HIDE DEF f, E
    <3>3. Level(f, at, N)
      BY <3>1, <3>2, RunEven
    <3>4. QED
      BY <3>3 DEF Level
  <2>4. c = f[<<at[0], at[0 + 1]>>] /\ f[<<at[j], at[j + 1]>>] = c
    BY <1>3, <2>3
  <2>5. OutOf(E, node) = {<<at[0], at[0 + 1]>>}
    BY <1>3 DEF Run
  <2>6. SumOver(f, OutOf(E, node)) = c
    <3>1. f[<<at[0], at[0 + 1]>>] \in Nat
      BY <1>3, <1>4, <2>1
    <3> HIDE DEF f, E, c
    <3>2. QED
      BY <2>4, <2>5, <3>1, SumOverOne
  <2>7. g[<<node, end>>] = c
    <3>1. g[<<node, end>>] = Rounds(m2[node][end], p)
      BY <1>7 DEF Counts
    <3>2. f[<<at[j], at[j + 1]>>] = Rounds(m[at[j]][at[j + 1]], p)
      BY <1>4 DEF Counts
    <3>3. QED
      BY <2>4, <3>1, <3>2
  <2>8. \A e \in E : e[1] \notin T => g[e] = f[e]
    <3>1. \A e \in E : e[1] \notin T => e \in F
      BY <1>7 DEF Shortened
    <3>2. QED
      BY <3>1 DEF Counts
  <2>9. \A n : IsFiniteSet(Into(E, n))
    <3>1. IsFiniteSet(K \X K)
      BY FS_Product
    <3>2. \A n : Into(E, n) \subseteq K \X K
      BY <1>1 DEF Into
    <3>3. QED
      BY <3>1, <3>2, FS_Subset
  <2>10. \A e \in F : g[e] \in Nat
    <3>1. c \in Nat
      BY <1>3, <1>4, <2>1, <2>4
    <3>2. \A e \in F : e = <<node, end>> \/ (e \in E /\ e[1] \notin T)
      BY <1>7 DEF Shortened
    <3> HIDE DEF E, F, f, g, c
    <3>3. QED
      BY <2>1, <2>7, <2>8, <3>1, <3>2
  <2>11. \A e \in E : e = <<e[1], e[2]>>
    BY <1>1
  <2>12. c = f[<<last, end>>]
    OBVIOUS
  <2> HIDE DEF E, F, T, node, last, end, f, g, c
  <2>13. ASSUME NEW n \in K \ (W \cup {Entrance}) PROVE Even(g, F, n)
    <3>1. Even(f, E, n)
      BY <2>1
    <3>2. g[<<node, end>>] = f[<<last, end>>] /\ SumOver(f, OutOf(E, node)) = f[<<last, end>>]
      BY <2>6, <2>7, <2>12
    <3>3. \A e \in E : f[e] \in Nat
      BY <2>1
    <3>4. Even(g, Shortened(E, T, node, end), n)
      BY ONLY <1>2, <2>8, <2>9, <2>11, <3>1, <3>2, <3>3, ChainCutEven
    <3>5. QED
      BY <1>7, <3>4
  <2>14. QED
    BY <2>10, <2>13 DEF g
<1>9. Covers(K, F, Entrance)
  <2>1. Covers(K, E, Entrance) /\ \A e \in E : e[1] \in K /\ e[2] \in K
    BY <1>1 DEF Sound
  <2>2. \E e \in E : e[1] = node
    <3>1. <<at[0], at[0 + 1]>> \in E /\ <<at[0], at[0 + 1]>>[1] = node
      BY <1>3, <1>4
    <3>2. QED
      BY <3>1
  <2> HIDE DEF E, F, T, node, last, end
  <2>3. Covers(K, Shortened(E, T, node, end), Entrance)
    BY ONLY <1>2, <1>6, <2>1, <2>2, ChainCutCovers
  <2>4. QED
    BY <1>7, <2>3
<1>10. ASSUME NEW s \in W \cup {Entrance}, NEW d \in W PROVE Way(K, F, s, d) <=> Way(K, M, s, d)
  <2>1. Way(K, E, s, d) <=> Way(K, M, s, d)
    BY DEF Sound
  <2>2. \A t \in T : t \notin W
    BY DEF Nodes
  <2>3. (s \in T => s = node) /\ d \notin T
    BY <1>6, <2>2
  <2>4. \A e \in E : e[1] \in K /\ e[2] \in K
    BY <1>1
  <2> HIDE DEF E, F, T, node, last, end
  <2>5. Way(K, Shortened(E, T, node, end), s, d) <=> Way(K, E, s, d)
    BY ONLY <1>2, <1>6, <2>3, <2>4, ChainCutWay
  <2>6. QED
    BY <1>7, <2>1, <2>5
<1>11. \A e \in F : e[2] # Entrance
  <2>1. end # Entrance
    <3>1. N \in 0 .. N /\ N # 0
      OBVIOUS
    <3>2. QED
      BY <1>5, <3>1
  <2>2. \A e \in E : e[2] # Entrance
    BY DEF Sound
  <2>3. <<node, end>>[2] = end
    OBVIOUS
  <2> HIDE DEF E, F, T, node, end
  <2>4. QED
    BY <1>7, <2>1, <2>2, <2>3 DEF Shortened
<1>12. QED
  BY <1>8, <1>9, <1>10, <1>11 DEF Sound

-----------------------------------------------------------------------------
(* The flow over some edges is the sum of the counts on them. *)
LEMMA FlowIsSum ==
  ASSUME NEW S, IsFiniteSet(S), NEW p, NEW f,
         \A e \in S : f[e] \in Nat /\ IterationCount(e, p) = f[e]
  PROVE  Flow(S, p) = SumOver(f, S)
<1> DEFINE first(t) == CHOOSE x \in t : TRUE
           Sums(iter) ==
             iter = [t \in SUBSET S |->
                       IF t = {} THEN 0 ELSE IterationCount(first(t), p) + iter[t \ {first(t)}]]
           F == CHOOSE iter : Sums(iter)
           G == [t \in SUBSET S |-> SumOver(f, t)]
<1>1. Flow(S, p) = F[S]
  BY DEF Flow, MapThenSumSet, MapThenFoldSet
<1>2. \A t \in SUBSET S : t # {} => first(t) \in t
  OBVIOUS
<1> HIDE DEF first
<1>3. ASSUME NEW t \in SUBSET S
      PROVE  G[t] = IF t = {} THEN 0 ELSE IterationCount(first(t), p) + G[t \ {first(t)}]
  <2>1. SumOver(f, {}) = 0
    BY SumOverElements
  <2>2. CASE t # {}
    <3>1. first(t) \in t /\ t \ {first(t)} \in SUBSET S
      BY <1>2, <2>2
    <3>2. SumOver(f, t) = f[first(t)] + SumOver(f, t \ {first(t)})
      BY <3>1, SumOverElements
    <3>3. f[first(t)] = IterationCount(first(t), p)
      BY <3>1
    <3>4. QED
      BY <2>2, <3>1, <3>2, <3>3
  <2>3. QED
    BY <2>1, <2>2
<1>4. Sums(G)
  <2> DEFINE H == [t \in SUBSET S |-> IF t = {} THEN 0
                                      ELSE IterationCount(first(t), p) + G[t \ {first(t)}]]
  <2>1. \A t \in SUBSET S : G[t] = H[t]
    BY <1>3
  <2>2. G = [t \in SUBSET S |-> G[t]] /\ H = [t \in SUBSET S |-> H[t]]
    OBVIOUS
  <2>3. G = H
    <3> HIDE DEF G, H
    <3>1. QED
      BY <2>1, <2>2
  <2>4. QED
    BY <2>3
<1>5. Sums(F)
  <2> HIDE DEF Sums, G
  <2>1. QED
    BY <1>4
<1>6. \A t \in SUBSET S :
        F[t] = IF t = {} THEN 0 ELSE IterationCount(first(t), p) + F[t \ {first(t)}]
  <2> HIDE DEF F
  <2>1. QED
    BY <1>5
<1> HIDE DEF F, G, Sums
<1>7. F[S] = G[S]
  <2>1. F[{}] = G[{}]
    BY <1>3, <1>6
  <2>2. \A t \in SUBSET S : t # {} => \E x \in t : F[t \ {x}] = G[t \ {x}] => F[t] = G[t]
    BY <1>2, <1>3, <1>6
  <2>3. QED
    BY <2>1, <2>2, FoldsAgree
<1>8. QED
  BY <1>1, <1>7 DEF G

-----------------------------------------------------------------------------
(* The edges of the graph as the maps have them. *)
LEMMA SuccessorsAre ==
  \A n : Successors(n) = IF n \in Sources THEN DOMAIN nodeSourceMap[n] ELSE {}
<1>1. DOMAIN <<>> = {}
  OBVIOUS
<1>2. QED
  BY <1>1 DEF Successors, Sources, Entry

(* The edges of nodeSourceMap in the words of GraphModel, *)
LEMMA EdgesAre ==
  ASSUME Sources \subseteq Known
  PROVE  /\ GraphEdges = Arcs(nodeSourceMap, Known)
         /\ \A s, d : <<s, d>> \in Arcs(nodeSourceMap, Known) <=> d \in Known /\ d \in Successors(s)
<1>1. \A e : e \in Sources \X Known <=> e \in Known \X Known /\ e[1] \in Sources
  <2> DEFINE S == Sources
  <2> HIDE DEF S
  <2>1. S \subseteq Known
    BY DEF S
  <2>2. \A e : e \in S \X Known <=> e \in Known \X Known /\ e[1] \in S
    BY <2>1
  <2>3. QED
    BY <2>2 DEF S
<1>2. \A e : e \in GraphEdges <=> e \in Sources \X Known /\ e[2] \in Successors(e[1])
  BY DEF GraphEdges
<1>3. \A e : e \in Arcs(nodeSourceMap, Known)
               <=> e \in Known \X Known /\ e[1] \in Sources /\ e[2] \in DOMAIN nodeSourceMap[e[1]]
  BY DEF Arcs, Sources
<1>4. \A e : e \in GraphEdges <=> e \in Arcs(nodeSourceMap, Known)
  BY <1>1, <1>2, <1>3, SuccessorsAre
<1>5. GraphEdges = Arcs(nodeSourceMap, Known)
  BY <1>4 DEF GraphEdges, Arcs
<1>6. \A s, d : <<s, d>> \in Arcs(nodeSourceMap, Known) <=> s \in Sources /\ d \in Known /\ d \in DOMAIN nodeSourceMap[s]
  BY ArcsInside DEF Sources
<1>7. QED
  BY <1>5, <1>6, SuccessorsAre

(* and what it says of the rounds on them. *)
LEMMA CountsAre ==
  ASSUME NEW p, NEW e \in Arcs(nodeSourceMap, Known)
  PROVE  IterationCount(e, p) = Counts(nodeSourceMap, Known, p)[e]
<1>1. e[2] \in Successors(e[1])
  BY SuccessorsAre DEF Arcs, Sources
<1>2. Counts(nodeSourceMap, Known, p)[e] = Rounds(nodeSourceMap[e[1]][e[2]], p)
  BY DEF Counts
<1>3. QED
  BY <1>1, <1>2 DEF IterationCount, Rounds

(* For a sound graph the properties of the compression hold. *)
LEMMA SoundFlow ==
  ASSUME MergedFromWalks, Sound(nodeSourceMap, Known, LastStates, Ranks, DOMAIN model),
         NEW n \in Known \ (LastStates \cup {Entrance}), NEW p \in Ranks
  PROVE  Flow({e \in GraphEdges : e[2] = n}, p) = Flow({e \in GraphEdges : e[1] = n}, p)
<1> DEFINE E == Arcs(nodeSourceMap, Known)
           f == Counts(nodeSourceMap, Known, p)
<1>1. GraphEdges = E
  BY EdgesAre DEF Sound, Sources
<1>2. \A e \in E : f[e] \in Nat /\ IterationCount(e, p) = f[e]
  BY CountsAre DEF Sound
<1>3. IsFiniteSet(E)
  <2>1. IsFiniteSet(Known \X Known)
    BY KnownFinite, FS_Product
  <2>2. QED
    BY <2>1, FS_Subset DEF Arcs
<1>4. Even(f, E, n)
  BY DEF Sound
<1> DEFINE I == Into(E, n)
           O == OutOf(E, n)
<1>5. /\ I = {e \in GraphEdges : e[2] = n} /\ O = {e \in GraphEdges : e[1] = n}
      /\ I \subseteq E /\ O \subseteq E
  BY <1>1 DEF Into, OutOf
<1>6. SumOver(f, I) = SumOver(f, O)
  BY <1>4 DEF Even
<1> HIDE DEF E, f, I, O
<1>7. IsFiniteSet(I) /\ IsFiniteSet(O)
  BY <1>3, <1>5, FS_Subset
<1>8. Flow(I, p) = SumOver(f, I) /\ Flow(O, p) = SumOver(f, O)
  BY <1>2, <1>5, <1>7, FlowIsSum
<1>9. QED
  BY <1>5, <1>6, <1>8

(* The ways by an adjacency list. *)
LEMMA WaysAre ==
  ASSUME NEW next, NEW E, \A e \in E : e[1] \in Known /\ e[2] \in Known /\ e = <<e[1], e[2]>>,
         \A s, d : <<s, d>> \in E <=> d \in Known /\ d \in Entry(next, s, {}),
         \A s : Entry(next, s, {}) \subseteq Known,
         NEW s, NEW d
  PROVE  LeadsTo(next, s, d) <=> Way(Known, E, s, d)
<1>1. ASSUME NEW X \in SUBSET Known
      PROVE  (\A n \in X \cup {s} : Entry(next, n, {}) \subseteq X)
               <=> (\A e \in E : e[1] \in X \cup {s} => e[2] \in X)
  <2>1. ASSUME \A n \in X \cup {s} : Entry(next, n, {}) \subseteq X, NEW e \in E, e[1] \in X \cup {s}
        PROVE  e[2] \in X
    <3>1. <<e[1], e[2]>> \in E
      OBVIOUS
    <3>2. QED
      BY <2>1, <3>1
  <2>2. ASSUME \A e \in E : e[1] \in X \cup {s} => e[2] \in X, NEW n \in X \cup {s},
               NEW x \in Entry(next, n, {})
        PROVE  x \in X
    <3>1. <<n, x>> \in E /\ <<n, x>>[1] = n /\ <<n, x>>[2] = x
      OBVIOUS
    <3>2. QED
      BY <2>2, <3>1
  <2>3. QED
    BY <2>1, <2>2
<1>2. QED
  BY <1>1 DEF LeadsTo, Way

(* LeadsTo in the model is a way along its edges, *)
LEMMA ModelWays ==
  ASSUME MergedFromWalks, NEW s, NEW d
  PROVE  LeadsTo(Leads, s, d) <=> Way(Known, DOMAIN model, s, d)
<1> DEFINE E == DOMAIN model
<1>1. \A e \in E : e[1] \in Known /\ e[2] \in Known /\ e = <<e[1], e[2]>>
  BY ModelEdges
<1>2. DOMAIN Leads = {e[1] : e \in E}
  BY DEF Leads
<1>3. \A x \in DOMAIN Leads : Leads[x] = {y \in {e[2] : e \in E} : <<x, y>> \in E}
  BY DEF Leads
<1>4. ASSUME NEW x, NEW y PROVE <<x, y>> \in E <=> y \in Known /\ y \in Entry(Leads, x, {})
  <2>1. ASSUME <<x, y>> \in E PROVE y \in Known /\ y \in Entry(Leads, x, {})
    <3>1. <<x, y>>[1] = x /\ <<x, y>>[2] = y
      OBVIOUS
    <3>2. x \in DOMAIN Leads /\ y \in {e[2] : e \in E} /\ y \in Known
      BY <1>1, <1>2, <2>1, <3>1
    <3>3. y \in Leads[x]
      BY <1>3, <2>1, <3>2
    <3>4. QED
      BY <3>2, <3>3 DEF Entry
  <2>2. ASSUME y \in Entry(Leads, x, {}) PROVE <<x, y>> \in E
    <3>1. x \in DOMAIN Leads /\ y \in Leads[x]
      BY <2>2 DEF Entry
    <3>2. QED
      BY <1>3, <3>1
  <2>3. QED
    BY <2>1, <2>2
<1>5. \A x : Entry(Leads, x, {}) \subseteq Known
  BY DEF Entry, Known
<1> HIDE DEF E
<1>6. LeadsTo(Leads, s, d) <=> Way(Known, E, s, d)
  BY <1>1, <1>4, <1>5, WaysAre
<1>7. QED
  BY <1>6 DEF E

(* and so in the simple adjacency list, when that is up to date. *)
LEMMA GraphWays ==
  ASSUME GraphTypeOK, ~Compressing, NEW s, NEW d
  PROVE  LeadsTo(adjacencyListSimple, s, d) <=> Way(Known, Arcs(nodeSourceMap, Known), s, d)
<1> DEFINE E == Arcs(nodeSourceMap, Known)
           next == adjacencyListSimple
<1>1. next = [n \in Sources |-> Successors(n)] /\ Sources \subseteq Known
      /\ \A n \in Sources : Successors(n) \subseteq Known
  BY DEF GraphTypeOK
<1>2. \A n : Entry(next, n, {}) = Successors(n)
  BY <1>1, SuccessorsAre DEF Entry
<1>3. \A x, y : <<x, y>> \in E <=> y \in Known /\ y \in Successors(x)
  BY <1>1, EdgesAre
<1>4. \A e \in E : e[1] \in Known /\ e[2] \in Known /\ e = <<e[1], e[2]>>
  BY <1>1, ArcsInside DEF Sources
<1>5. \A n : Successors(n) \subseteq Known
  BY <1>1, SuccessorsAre
<1> HIDE DEF E, next
<1>6. LeadsTo(next, s, d) <=> Way(Known, E, s, d)
  <2>1. \A x, y : <<x, y>> \in E <=> y \in Known /\ y \in Entry(next, x, {})
    BY <1>2, <1>3
  <2>2. \A x : Entry(next, x, {}) \subseteq Known
    BY <1>2, <1>5
  <2>3. QED
    BY <1>4, <2>1, <2>2, WaysAre
<1>7. QED
  BY <1>6 DEF E, next

-----------------------------------------------------------------------------
(* The types of the map: its annotations are those of the model, which name a
   process each. *)
MapOK(m) ==
  /\ DOMAIN m \subseteq Known
  /\ \A s \in DOMAIN m : /\ DOMAIN m[s] # {} /\ DOMAIN m[s] \subseteq Known
                         /\ \A d \in DOMAIN m[s] : \E e \in DOMAIN model : m[s][d] = model[e]

(* The map has these types. *)
LEMMA MapIsOK == ASSUME GraphTypeOK PROVE MapOK(nodeSourceMap)
BY SuccessorsAre DEF GraphTypeOK, MapOK, Sources

(* Every edge that is left was taken by a process. *)
LEMMA SomeoneTook ==
  ASSUME MergedFromWalks, NEW m, MapOK(m), NEW e \in Arcs(m, Known)
  PROVE  \E p \in Ranks : Counts(m, Known, p)[e] # 0
<1>1. e[1] \in DOMAIN m /\ e[2] \in DOMAIN m[e[1]]
  BY DEF Arcs
<1>2. PICK x \in DOMAIN model : m[e[1]][e[2]] = model[x]
  BY <1>1 DEF MapOK
<1>3. PICK p \in Ranks : x \in Trace(walks[p])
  BY ModelEdges
<1>4. Times(walks[p], x) # 0
  BY <1>3, TimesIsNat DEF MergedFromWalks
<1>5. Counts(m, Known, p)[e] = Rounds(model[x], p)
  BY <1>2 DEF Counts
<1>6. QED
  BY <1>4, <1>5, RoundsOfModel

(* What addEdge makes of the model. *)
LEMMA BuiltMap ==
  ASSUME MergedFromWalks, NEW m,
         m = [s \in {e[1] : e \in DOMAIN model} |->
                [d \in {e[2] : e \in {f \in DOMAIN model : f[1] = s}} |-> model[<<s, d>>]]]
  PROVE  /\ MapOK(m) /\ Sound(m, Known, LastStates, Ranks, DOMAIN model)
         /\ Arcs(m, Known) = DOMAIN model
<1> DEFINE M == DOMAIN model
           S == {e[1] : e \in M}
           D(s) == {e[2] : e \in {f \in M : f[1] = s}}
<1>1. \A e \in M : e[1] \in Known /\ e[2] \in Known /\ e = <<e[1], e[2]>>
  BY ModelEdges
<1>2. DOMAIN m = S /\ \A s \in S : m[s] = [d \in D(s) |-> model[<<s, d>>]]
  OBVIOUS
<1>3. \A s \in S : DOMAIN m[s] = D(s) /\ \A d \in D(s) : m[s][d] = model[<<s, d>>]
  BY <1>2
<1>4. \A s, d : <<s, d>> \in M <=> s \in S /\ d \in D(s)
  <2> SUFFICES ASSUME NEW s, NEW d PROVE <<s, d>> \in M <=> s \in S /\ d \in D(s)
    OBVIOUS
  <2>1. <<s, d>>[1] = s /\ <<s, d>>[2] = d
    OBVIOUS
  <2> HIDE DEF M
  <2>2. <<s, d>> \in M => s \in S /\ d \in D(s)
    BY <2>1
  <2>3. d \in D(s) => <<s, d>> \in M
    BY <1>1
  <2>4. QED
    BY <2>2, <2>3
<1>5. \A e \in M : e[1] \in S /\ e[2] \in D(e[1])
  BY <1>1, <1>4
<1>6. S \subseteq Known /\ \A s \in S : D(s) # {} /\ D(s) \subseteq Known
  BY <1>1
<1> HIDE DEF M, S, D
<1>7. MapOK(m)
  <2>1. ASSUME NEW s \in DOMAIN m, NEW d \in DOMAIN m[s] PROVE \E e \in M : m[s][d] = model[e]
    BY <1>2, <1>3, <1>4
  <2>2. \A s \in DOMAIN m : DOMAIN m[s] # {} /\ DOMAIN m[s] \subseteq Known
    BY <1>2, <1>3, <1>6
  <2>3. DOMAIN m \subseteq Known
    BY <1>2, <1>6
  <2>4. QED
    BY <2>1, <2>2, <2>3 DEF MapOK, M
<1>8. Arcs(m, Known) = M
  <2>1. ASSUME NEW e \in Known \X Known PROVE e \in Arcs(m, Known) <=> e \in M
    <3>1. PICK s \in Known, d \in Known : e = <<s, d>>
      OBVIOUS
    <3>2. <<s, d>> \in Arcs(m, Known) <=> s \in S /\ d \in Known /\ d \in DOMAIN m[s]
      BY <1>2, <1>6, ArcsInside
    <3>3. QED
      BY <1>3, <1>4, <3>1, <3>2
  <2>2. M \subseteq Known \X Known
    BY <1>1
  <2>3. Arcs(m, Known) \subseteq Known \X Known
    BY DEF Arcs
  <2>4. QED
    BY <2>1, <2>2, <2>3
<1>9. \A e \in M : m[e[1]][e[2]] = model[e]
  BY <1>1, <1>3, <1>5
<1>10. Sound(m, Known, LastStates, Ranks, DOMAIN model)
  <2>1. DOMAIN m \subseteq Known /\ Arcs(m, Known) = DOMAIN model
        /\ \A e \in DOMAIN model : m[e[1]][e[2]] = model[e]
    BY <1>2, <1>6, <1>8, <1>9 DEF M
  <2>2. QED
    BY <2>1, ModelSound
<1>11. QED
  BY <1>7, <1>8, <1>10 DEF M

-----------------------------------------------------------------------------
(* nodeDestMap is exact until chains are compressed. *)
PredecessorsExact == \A n \in Known : Predecessors(n) = {s \in Sources : n \in Successors(s)}

(* Sets of one or two nodes, told by their sizes. *)
LEMMA Singles ==
  ASSUME NEW K, IsFiniteSet(K), NEW S, S \subseteq K
  PROVE  /\ IsFiniteSet(S) /\ Cardinality(S) \in Nat
         /\ Cardinality(S) = 1 => \E x : S = {x}
         /\ Cardinality(S) <= 1 => \A x, y \in S : x = y
         /\ \A x \in S : Cardinality(S) = 2 => \E y \in S : y # x /\ S = {x, y}
<1>1. IsFiniteSet(S)
  BY FS_Subset
<1>2. Cardinality(S) \in Nat
  BY <1>1, FS_CardinalityType
<1>3. Cardinality(S) = 1 => \E x : S = {x}
  BY <1>1, FS_Singleton
<1>4. Cardinality(S) = 0 => S = {}
  BY <1>1, FS_EmptySet
<1>5. Cardinality(S) <= 1 => \A x, y \in S : x = y
  <2>1. Cardinality(S) <= 1 => Cardinality(S) = 0 \/ Cardinality(S) = 1
    BY <1>2
  <2>2. QED
    BY <1>3, <1>4, <2>1
<1>6. ASSUME NEW x \in S, Cardinality(S) = 2 PROVE \E y \in S : y # x /\ S = {x, y}
  <2>1. IsFiniteSet(S \ {x}) /\ Cardinality(S \ {x}) = 1
    BY <1>1, <1>6, FS_RemoveElement
  <2>2. PICK y : S \ {x} = {y}
    BY <2>1, FS_Singleton
  <2>3. QED
    BY <2>2
<1>7. QED
  BY <1>1, <1>2, <1>3, <1>5, <1>6

(* What IsSmallLoop finds is a loop of two nodes with one way in and one way
   out, apart from the boundary and from the first state. *)
LEMMA SmallLoopIs ==
  ASSUME MergedFromWalks, MapOK(nodeSourceMap), boundaryNodes = LastStates,
         Sound(nodeSourceMap, Known, LastStates, Ranks, DOMAIN model), PredecessorsExact,
         NEW a, Cardinality(Successors(a)) = 1, IsSmallLoop(a)
  PROVE  \E b, x, o : /\ LoopAt(Arcs(nodeSourceMap, Known), a, b, x, o)
                      /\ a \in Sources /\ b \in Sources
                      /\ Successors(a) = {b} /\ Successors(b) = {a, o}
                      /\ Predecessors(a) # {}
                      /\ a \notin LastStates \cup {Entrance} /\ b \notin LastStates \cup {Entrance}
<1> DEFINE E == Arcs(nodeSourceMap, Known)
           b == TheOnly(Successors(a))
<1>1. IsFiniteSet(Known) /\ Sources \subseteq Known /\ \A n : Successors(n) \subseteq Known
  BY KnownFinite, SuccessorsAre DEF MapOK, Sources
<1>2. Successors(a) = {b}
  <2>1. PICK x : Successors(a) = {x}
    BY <1>1, Singles
  <2>2. QED
    BY <2>1 DEF TheOnly
<1>3. /\ a \notin boundaryNodes /\ b \notin boundaryNodes
      /\ Cardinality(Predecessors(a)) = 2 /\ Cardinality(Predecessors(b)) = 1
      /\ a \in Successors(b) /\ Cardinality(Successors(b)) \in {1, 2}
  BY DEF IsSmallLoop
<1> HIDE DEF b
<1>4. a \in Sources /\ b \in Sources /\ a \in Known /\ b \in Known
  BY <1>1, <1>2, <1>3, SuccessorsAre
<1>5. \A s, d : <<s, d>> \in E <=> d \in Known /\ d \in Successors(s)
  BY <1>1, EdgesAre
<1>6. \A n \in Known : \A s : s \in Predecessors(n) <=> <<s, n>> \in E
  BY <1>1, <1>5, SuccessorsAre DEF PredecessorsExact
<1>7. \A n \in Known : Predecessors(n) \subseteq Known
  BY <1>1 DEF PredecessorsExact
<1>8. <<a, b>> \in E /\ <<b, a>> \in E
  BY <1>2, <1>3, <1>4, <1>5
<1>9. Predecessors(b) = {a}
  <2>1. a \in Predecessors(b)
    BY <1>4, <1>6, <1>8
  <2>2. \E x : Predecessors(b) = {x}
    BY <1>1, <1>3, <1>4, <1>7, Singles
  <2>3. QED
    BY <2>1, <2>2
<1>10. a # b
  <2> SUFFICES ASSUME a = b PROVE FALSE
    OBVIOUS
  <2>1. Cardinality(Predecessors(a)) = Cardinality(Predecessors(b))
    OBVIOUS
  <2>2. QED
    BY <1>3, <2>1
<1>11. PICK x : x # b /\ Predecessors(a) = {b, x}
  <2>1. b \in Predecessors(a)
    BY <1>4, <1>6, <1>8
  <2> DEFINE P == Predecessors(a)
  <2>2. P \subseteq Known /\ b \in P /\ Cardinality(P) = 2
    BY <1>3, <1>4, <1>7, <2>1
  <2> HIDE DEF P
  <2>3. \E y \in P : y # b /\ P = {b, y}
    BY <1>1, <2>2, Singles
  <2>4. QED
    BY <2>3 DEF P
<1>12. \A e \in E : e[1] \in Known /\ e[2] \in Known /\ e = <<e[1], e[2]>>
  BY <1>1, ArcsInside DEF Sources
<1>13. /\ \A s, n : <<s, n>> \in Into(E, n) <=> <<s, n>> \in E
       /\ \A s, n : <<s, n>> \in OutOf(E, s) <=> <<s, n>> \in E
       /\ \A n : \A e \in Into(E, n) : e = <<e[1], n>> /\ e \in E
       /\ \A n : \A e \in OutOf(E, n) : e = <<n, e[2]>> /\ e \in E
  <2>1. \A s, n : <<s, n>>[1] = s /\ <<s, n>>[2] = n
    OBVIOUS
  <2> HIDE DEF E
  <2>2. QED
    BY <1>12, <2>1 DEF Into, OutOf
<1> HIDE DEF E
<1>14. Into(E, a) = {<<b, a>>, <<x, a>>}
  <2>1. <<b, a>> \in E /\ <<x, a>> \in E
    BY <1>4, <1>6, <1>11
  <2>2. ASSUME NEW e \in Into(E, a) PROVE e \in {<<b, a>>, <<x, a>>}
    <3>1. e = <<e[1], a>> /\ e \in E
      BY <1>13
    <3>2. e[1] \in Predecessors(a)
      BY <1>4, <1>6, <3>1
    <3>3. QED
      BY <1>11, <3>1, <3>2
  <2>3. QED
    BY <1>13, <2>1, <2>2
<1>15. Into(E, b) = {<<a, b>>}
  <2>1. ASSUME NEW e \in Into(E, b) PROVE e = <<a, b>>
    <3>1. e = <<e[1], b>> /\ e \in E
      BY <1>13
    <3>2. e[1] \in Predecessors(b)
      BY <1>4, <1>6, <3>1
    <3>3. QED
      BY <1>9, <3>1, <3>2
  <2>2. QED
    BY <1>8, <1>13, <2>1
<1>16. OutOf(E, a) = {<<a, b>>}
  <2>1. ASSUME NEW e \in OutOf(E, a) PROVE e = <<a, b>>
    <3>1. e = <<a, e[2]>> /\ e \in E
      BY <1>13
    <3>2. e[2] \in Successors(a)
      BY <1>5, <3>1
    <3>3. QED
      BY <1>2, <3>1, <3>2
  <2>2. QED
    BY <1>8, <1>13, <2>1
<1>17. /\ a \notin LastStates \cup {Entrance} /\ b \notin LastStates \cup {Entrance}
  <2>1. <<b, a>>[2] = a /\ <<a, b>>[2] = b
    OBVIOUS
  <2>2. \A e \in E : e[2] # Entrance
    BY DEF Sound, E
  <2>3. QED
    BY <1>3, <1>8, <2>1, <2>2
<1>18. PICK o : o # a /\ Successors(b) = {a, o}
  <2>1. CASE Cardinality(Successors(b)) = 2
    <3> DEFINE P == Successors(b)
    <3>1. P \subseteq Known /\ a \in P /\ Cardinality(P) = 2
      BY <1>1, <1>3, <2>1
    <3> HIDE DEF P
    <3>2. \E y \in P : y # a /\ P = {a, y}
      BY <1>1, <3>1, Singles
    <3>3. QED
      BY <3>2 DEF P
  <2>2. ASSUME Cardinality(Successors(b)) = 1 PROVE FALSE
    <3>1. PICK y : Successors(b) = {y}
      BY <1>1, <2>2, Singles
    <3>2. Successors(b) = {a}
      BY <1>3, <3>1
    <3>3. OutOf(E, b) = {<<b, a>>}
      <4>1. ASSUME NEW e \in OutOf(E, b) PROVE e = <<b, a>>
        <5>1. e = <<b, e[2]>> /\ e \in E
          BY <1>13
        <5>2. e[2] \in Successors(b)
          BY <1>5, <5>1
        <5>3. QED
          BY <3>2, <5>1, <5>2
      <4>2. QED
        BY <1>8, <1>13, <4>1
    <3>4. <<x, a>> \in E /\ <<b, a>> # <<x, a>>
      BY <1>4, <1>6, <1>11
    <3>5. PICK p \in Ranks : Counts(nodeSourceMap, Known, p)[<<x, a>>] # 0
      BY <3>4, SomeoneTook DEF E
    <3> DEFINE f == Counts(nodeSourceMap, Known, p)
    <3>6. (\A e \in E : f[e] \in Nat) /\ Even(f, E, a) /\ Even(f, E, b)
      <4>1. a \in Known \ (LastStates \cup {Entrance}) /\ b \in Known \ (LastStates \cup {Entrance})
        BY <1>4, <1>17
      <4>2. QED
        BY <4>1 DEF Sound, E
    <3>7. f[<<x, a>>] # 0
      BY <3>5
    <3> HIDE DEF f
    <3>8. f[<<a, b>>] \in Nat /\ f[<<b, a>>] \in Nat /\ f[<<x, a>>] \in Nat
      BY <1>8, <3>4, <3>6
    <3>9. SumOver(f, {<<b, a>>, <<x, a>>}) = f[<<b, a>>] + f[<<x, a>>]
      BY <3>4, <3>8, SumOverTwo
    <3>10. SumOver(f, {<<a, b>>}) = f[<<a, b>>] /\ SumOver(f, {<<b, a>>}) = f[<<b, a>>]
      BY <3>8, SumOverOne
    <3>11. f[<<b, a>>] + f[<<x, a>>] = f[<<a, b>>] /\ f[<<a, b>>] = f[<<b, a>>]
      BY <1>14, <1>15, <1>16, <3>3, <3>6, <3>9, <3>10 DEF Even
    <3>12. QED
      BY <3>7, <3>8, <3>11
  <2>3. QED
    BY <1>3, <2>1, <2>2
<1>19. OutOf(E, b) = {<<b, a>>, <<b, o>>}
  <2>1. <<b, o>> \in E
    BY <1>1, <1>5, <1>18
  <2>2. ASSUME NEW e \in OutOf(E, b) PROVE e \in {<<b, a>>, <<b, o>>}
    <3>1. e = <<b, e[2]>> /\ e \in E
      BY <1>13
    <3>2. e[2] \in Successors(b)
      BY <1>5, <3>1
    <3>3. QED
      BY <1>18, <3>1, <3>2
  <2>3. QED
    BY <1>8, <1>13, <2>1, <2>2
<1>20. LoopAt(E, a, b, x, o)
  BY <1>10, <1>11, <1>14, <1>15, <1>16, <1>18, <1>19 DEF LoopAt
<1>21. QED
  BY <1>2, <1>4, <1>11, <1>17, <1>18, <1>20 DEF E

Exact(m, from) == \A n \in Known : Entry(from, n, {}) = {s \in DOMAIN m : n \in DOMAIN m[s]}

(* nodeDestMap is exact when every node has its predecessors. *)
LEMMA ExactIs == PredecessorsExact <=> Exact(nodeSourceMap, nodeDestMap)
<1>1. ASSUME NEW n PROVE {s \in Sources : n \in Successors(s)} = {s \in DOMAIN nodeSourceMap : n \in DOMAIN nodeSourceMap[s]}
  BY SuccessorsAre DEF Sources
<1>2. QED
  BY <1>1 DEF PredecessorsExact, Exact, Predecessors

(* The edits of eliminateSmallLoops: the edge from b to a is gone, and the
   others but that from a to b are as before. *)
LEMMA LoopMap ==
  ASSUME NEW m, NEW K, DOMAIN m \subseteq K, NEW a \in DOMAIN m, NEW b \in DOMAIN m, a # b,
         NEW o \in K, o # a, DOMAIN m[a] = {b}, DOMAIN m[b] = {a, o},
         NEW m2, DOMAIN m2 = DOMAIN m, DOMAIN m2[a] = {b}, DOMAIN m2[b] = {o}, m2[b][o] = m[b][o],
         \A s \in DOMAIN m \ {a, b} : m2[s] = m[s]
  PROVE  /\ Arcs(m2, K) = Arcs(m, K) \ {<<b, a>>}
         /\ \A e \in Arcs(m, K) \ {<<b, a>>, <<a, b>>} : m2[e[1]][e[2]] = m[e[1]][e[2]]
<1>1. ASSUME NEW s, NEW d PROVE <<s, d>> \in Arcs(m2, K) <=> <<s, d>> \in Arcs(m, K) \ {<<b, a>>}
  <2>1. <<s, d>> \in Arcs(m2, K) <=> s \in DOMAIN m /\ d \in K /\ d \in DOMAIN m2[s]
    BY ArcsInside
  <2>2. <<s, d>> \in Arcs(m, K) <=> s \in DOMAIN m /\ d \in K /\ d \in DOMAIN m[s]
    BY ArcsInside
  <2>3. <<s, d>> = <<b, a>> <=> s = b /\ d = a
    OBVIOUS
  <2>4. CASE s \notin {a, b}
    BY <2>1, <2>2, <2>3, <2>4
  <2>5. CASE s = a
    BY <2>1, <2>2, <2>3, <2>5
  <2>6. CASE s = b
    BY <2>1, <2>2, <2>3, <2>6
  <2>7. QED
    BY <2>4, <2>5, <2>6
<1>2. (\A e \in Arcs(m2, K) : e = <<e[1], e[2]>>) /\ (\A e \in Arcs(m, K) : e = <<e[1], e[2]>>)
  BY ArcsInside
<1>3. Arcs(m2, K) = Arcs(m, K) \ {<<b, a>>}
  BY <1>1, <1>2
<1>4. ASSUME NEW e \in Arcs(m, K) \ {<<b, a>>, <<a, b>>} PROVE m2[e[1]][e[2]] = m[e[1]][e[2]]
  <2>1. PICK s, d : e = <<s, d>>
    BY <1>2
  <2>2. s \in DOMAIN m /\ d \in DOMAIN m[s]
    BY <2>1, ArcsInside
  <2>3. ~(s = b /\ d = a) /\ ~(s = a /\ d = b)
    BY <2>1
  <2>4. m2[s][d] = m[s][d]
    BY <2>2, <2>3
  <2>5. QED
    BY <2>1, <2>4
<1>5. QED
  BY <1>3, <1>4

(* They keep the graph sound and both maps in step. *)
LEMMA LoopStep ==
  ASSUME MergedFromWalks, MapOK(nodeSourceMap), boundaryNodes = LastStates,
         Sound(nodeSourceMap, Known, LastStates, Ranks, DOMAIN model), PredecessorsExact,
         NEW a, Cardinality(Successors(a)) = 1, IsSmallLoop(a), EliminateSmallLoop(a)
  PROVE  /\ MapOK(nodeSourceMap') /\ Exact(nodeSourceMap', nodeDestMap')
         /\ Sound(nodeSourceMap', Known, LastStates, Ranks, DOMAIN model)
<1> DEFINE m == nodeSourceMap
           E == Arcs(m, Known)
<1>1. PICK b, x, o : /\ LoopAt(E, a, b, x, o)
                     /\ a \in Sources /\ b \in Sources
                     /\ Successors(a) = {b} /\ Successors(b) = {a, o}
                     /\ Predecessors(a) # {}
                     /\ a \notin LastStates \cup {Entrance} /\ b \notin LastStates \cup {Entrance}
  BY SmallLoopIs
<1>2. a # b /\ o # a
  BY <1>1 DEF LoopAt
<1>3. TheOnly(Successors(a)) = b /\ Successors(b) \ {a} = {o} /\ TheOnly({o}) = o
  BY <1>1, <1>2 DEF TheOnly
<1>4. /\ nodeSourceMap' = [m EXCEPT ![a] = [d \in {b} |-> m[b][o]], ![b] = Restrict(@, {o})]
      /\ nodeDestMap' = [nodeDestMap EXCEPT ![a] = @ \ {b}]
  BY <1>3 DEF EliminateSmallLoop
<1>5. DOMAIN m \subseteq Known /\ a \in DOMAIN m /\ b \in DOMAIN m /\ DOMAIN m[a] = {b} /\ DOMAIN m[b] = {a, o}
  BY <1>1, SuccessorsAre DEF MapOK, Sources
<1>6. a \in Known /\ b \in Known /\ o \in Known
  BY <1>5 DEF MapOK
<1> DEFINE m2 == nodeSourceMap'
           from == nodeDestMap
           from2 == nodeDestMap'
<1>7. PICK n2 : n2 = m2
  OBVIOUS
<1>8. n2 = [m EXCEPT ![a] = [d \in {b} |-> m[b][o]], ![b] = Restrict(@, {o})]
  BY <1>4, <1>7
<1>9. Exact(m, from) /\ a \in DOMAIN from /\ from2 = [from EXCEPT ![a] = @ \ {b}]
  BY <1>1, <1>4, ExactIs DEF Predecessors, Entry
<1>10. MapOK(m) /\ Sound(m, Known, LastStates, Ranks, DOMAIN model)
  OBVIOUS
<1> HIDE DEF m, m2, from, from2
<1>11. /\ DOMAIN n2 = DOMAIN m /\ DOMAIN n2[a] = {b} /\ DOMAIN n2[b] = {o}
       /\ n2[a][b] = m[b][o] /\ n2[b][o] = m[b][o]
       /\ \A s \in DOMAIN m \ {a, b} : n2[s] = m[s]
  <2>1. n2[a] = [d \in {b} |-> m[b][o]] /\ n2[b] = [d \in {o} |-> m[b][d]]
    BY <1>2, <1>5, <1>8 DEF Restrict
  <2>2. DOMAIN n2 = DOMAIN m /\ \A s \in DOMAIN m \ {a, b} : n2[s] = m[s]
    BY <1>8
  <2>3. QED
    BY ONLY <2>1, <2>2
<1>12. /\ Arcs(n2, Known) = Arcs(m, Known) \ {<<b, a>>}
       /\ \A e \in Arcs(m, Known) \ {<<b, a>>, <<a, b>>} : n2[e[1]][e[2]] = m[e[1]][e[2]]
  BY ONLY <1>2, <1>5, <1>6, <1>11, LoopMap
<1>13. Sound(n2, Known, LastStates, Ranks, DOMAIN model)
  <2>1. LoopAt(Arcs(m, Known), a, b, x, o) /\ DOMAIN n2 \subseteq Known
    BY <1>1, <1>5, <1>11
  <2>2. a \notin LastStates \cup {Entrance} /\ b \notin LastStates \cup {Entrance}
    BY <1>1
  <2>3. QED
    BY ONLY <1>10, <1>11, <1>12, <2>1, <2>2, LoopKeeps
<1>14. MapOK(n2)
  <2>1. \E e \in DOMAIN model : m[b][o] = model[e]
    BY <1>5, <1>10 DEF MapOK
  <2>2. DOMAIN n2 \subseteq Known
    BY <1>5, <1>11
  <2>3. ASSUME NEW s \in DOMAIN n2
        PROVE  /\ DOMAIN n2[s] # {} /\ DOMAIN n2[s] \subseteq Known
               /\ \A d \in DOMAIN n2[s] : \E e \in DOMAIN model : n2[s][d] = model[e]
    <3>1. CASE s = a
      BY <1>6, <1>11, <2>1, <3>1
    <3>2. CASE s = b
      BY <1>6, <1>11, <2>1, <3>2
    <3>3. CASE s \notin {a, b}
      <4>1. s \in DOMAIN m /\ n2[s] = m[s]
        BY <1>11, <3>3
      <4>2. QED
        BY <1>10, <4>1 DEF MapOK
    <3>4. QED
      BY <3>1, <3>2, <3>3
  <2>4. QED
    BY <2>2, <2>3 DEF MapOK
<1>15. Exact(n2, from2)
  <2> SUFFICES ASSUME NEW n \in Known PROVE Entry(from2, n, {}) = {s \in DOMAIN n2 : n \in DOMAIN n2[s]}
    BY DEF Exact
  <2>1. Entry(from, n, {}) = {s \in DOMAIN m : n \in DOMAIN m[s]}
    BY <1>9 DEF Exact
  <2>2. Entry(from2, n, {}) = IF n = a THEN Entry(from, n, {}) \ {b} ELSE Entry(from, n, {})
    BY <1>9 DEF Entry
  <2>3. \A s \in DOMAIN m : n \in DOMAIN n2[s] <=> n \in DOMAIN m[s] /\ ~(s = b /\ n = a)
    <3> SUFFICES ASSUME NEW s \in DOMAIN m PROVE n \in DOMAIN n2[s] <=> n \in DOMAIN m[s] /\ ~(s = b /\ n = a)
      OBVIOUS
    <3>1. CASE s = a
      BY <1>2, <1>5, <1>11, <3>1
    <3>2. CASE s = b
      BY <1>2, <1>5, <1>11, <3>2
    <3>3. CASE s \notin {a, b}
      BY <1>11, <3>3
    <3>4. QED
      BY <3>1, <3>2, <3>3
  <2>4. DOMAIN n2 = DOMAIN m
    BY <1>11
  <2>5. QED
    BY <2>1, <2>2, <2>3, <2>4
<1>16. QED
  BY <1>7, <1>13, <1>14, <1>15 DEF m2, from2

-----------------------------------------------------------------------------
(* While chains are compressed nodeDestMap may name too many sources, or too
   few of them, but a node that has two of them is not left with one. *)
Suffice(m, from) ==
  \A n \in Known : Cardinality(Entry(from, n, {})) <= 1 =>
    \A e, f \in Arcs(m, Known) : e[2] = n /\ f[2] = n => e = f

(* An exact nodeDestMap suffices. *)
LEMMA ExactSuffices ==
  ASSUME MergedFromWalks, NEW m, NEW from, DOMAIN m \subseteq Known, Exact(m, from)
  PROVE  Suffice(m, from)
<1> SUFFICES ASSUME NEW n \in Known, Cardinality(Entry(from, n, {})) <= 1,
                    NEW e \in Arcs(m, Known), NEW f \in Arcs(m, Known), e[2] = n, f[2] = n
             PROVE  e = f
  BY DEF Suffice
<1> DEFINE P == Entry(from, n, {})
<1>1. P = {s \in DOMAIN m : n \in DOMAIN m[s]}
  BY DEF Exact
<1>2. e[1] \in P /\ f[1] \in P
  BY <1>1 DEF Arcs
<1>3. IsFiniteSet(Known) /\ P \subseteq Known /\ Cardinality(P) <= 1
  BY <1>1, KnownFinite
<1> HIDE DEF P
<1>4. e[1] = f[1]
  BY <1>2, <1>3, Singles
<1>5. e = <<e[1], e[2]>> /\ f = <<f[1], f[2]>>
  BY ArcsInside
<1>6. QED
  BY <1>4, <1>5

(* A node of a chain has one edge out and not more than one in, *)
LEMMA InChainIs ==
  ASSUME MergedFromWalks, MapOK(nodeSourceMap), Suffice(nodeSourceMap, nodeDestMap),
         NEW n, InChain(n)
  PROVE  /\ n \in Known /\ n \in Sources /\ Successors(n) = {Onward(n)} /\ Onward(n) \in Known
         /\ n \notin boundaryNodes
         /\ OutOf(Arcs(nodeSourceMap, Known), n) = {<<n, Onward(n)>>}
         /\ \A e, f \in Arcs(nodeSourceMap, Known) : e[2] = n /\ f[2] = n => e = f
<1> DEFINE E == Arcs(nodeSourceMap, Known)
<1>1. IsFiniteSet(Known) /\ Sources \subseteq Known /\ Successors(n) \subseteq Known
  BY KnownFinite, SuccessorsAre DEF MapOK, Sources
<1>2. /\ n \in Sources /\ n \notin boundaryNodes /\ Cardinality(Successors(n)) = 1
      /\ Cardinality(Predecessors(n)) <= 1 /\ Onward(n) = TheOnly(Successors(n))
  BY DEF InChain, Onward
<1>3. PICK x : Successors(n) = {x}
  BY <1>1, <1>2, Singles
<1>4. Onward(n) = x /\ x \in Known
  BY <1>1, <1>2, <1>3 DEF TheOnly
<1>5. \A s, d : <<s, d>> \in E <=> d \in Known /\ d \in Successors(s)
  BY <1>1, EdgesAre
<1>6. \A e \in E : e = <<e[1], e[2]>>
  BY <1>1, ArcsInside DEF Sources
<1>7. OutOf(E, n) = {<<n, x>>}
  <2>1. <<n, x>> \in E /\ <<n, x>>[1] = n
    BY <1>3, <1>4, <1>5
  <2>2. ASSUME NEW e \in E, e[1] = n PROVE e = <<n, x>>
    <3>1. <<e[1], e[2]>> \in E
      BY <1>6
    <3>2. e[2] \in Successors(n)
      BY <1>5, <2>2, <3>1
    <3>3. QED
      BY <1>3, <1>6, <2>2, <3>2
  <2> HIDE DEF E
  <2>3. QED
    BY <2>1, <2>2 DEF OutOf
<1>8. \A e, f \in E : e[2] = n /\ f[2] = n => e = f
  BY <1>1, <1>2 DEF Suffice, Predecessors
<1>9. QED
  BY <1>1, <1>2, <1>3, <1>4, <1>7, <1>8

(* so going from one to the next is a run. *)
LEMMA ChainIsRun ==
  ASSUME MergedFromWalks, MapOK(nodeSourceMap), Suffice(nodeSourceMap, nodeDestMap),
         NEW at, NEW N \in Nat,
         \A k \in 0 .. N - 1 : InChain(at[k]) /\ at[k + 1] = Onward(at[k]),
         \A k \in 1 .. N - 1 : at[k] # at[0]
  PROVE  Run(Arcs(nodeSourceMap, Known), at, N)
<1> DEFINE E == Arcs(nodeSourceMap, Known)
<1>1. ASSUME NEW k \in 0 .. N - 1
      PROVE  /\ OutOf(E, at[k]) = {<<at[k], at[k + 1]>>}
             /\ \A e, f \in E : e[2] = at[k] /\ f[2] = at[k] => e = f
  <2>1. InChain(at[k]) /\ at[k + 1] = Onward(at[k])
    OBVIOUS
  <2>2. OutOf(E, at[k]) = {<<at[k], Onward(at[k])>>} /\ \A e, f \in E : e[2] = at[k] /\ f[2] = at[k] => e = f
    BY <2>1, InChainIs
  <2>3. QED
    BY <2>1, <2>2
<1>2. QED
  BY <1>1 DEF Run

(* The nodes that followChainInGraph comes to, and where it may stop. *)
Ends(at, seen) ==
  {k \in 0 .. Cardinality(Sources) : ~InChain(at[k]) \/ (k > 0 /\ at[k] \in seen)}

(* What followChainInGraph finds, along the nodes it looks at. *)
LEMMA ChainWalk ==
  ASSUME MergedFromWalks, MapOK(nodeSourceMap), Suffice(nodeSourceMap, nodeDestMap),
         NEW node \in Known, NEW seen
  PROVE  \E at : /\ at[0] = node /\ \A k \in Nat : at[k + 1] = Onward(at[k])
                 /\ Chain(node, seen) = [end |-> at[Min(Ends(at, seen))],
                                         traversed |-> {at[k] : k \in 0 .. Min(Ends(at, seen)) - 1}]
<1> DEFINE Goes(f) == f = [k \in Nat |-> IF k = 0 THEN node ELSE Onward(f[k - 1])]
           at == CHOOSE f : Goes(f)
<1>1. Chain(node, seen) = [end |-> at[Min(Ends(at, seen))],
                           traversed |-> {at[k] : k \in 0 .. Min(Ends(at, seen)) - 1}]
  BY DEF Chain, Ends
<1>2. node \in Known
  OBVIOUS
<1>3. \E f : Goes(f)
  <2> DEFINE step == [v \in Known |-> Onward(v)]
  <2>1. step \in [Known -> Known]
    <3>1. ASSUME NEW v \in Known PROVE Onward(v) \in Known
      <4>1. CASE InChain(v)
        BY <4>1, InChainIs
      <4>2. CASE ~InChain(v)
        BY <4>2 DEF Onward
      <4>3. QED
        BY <4>1, <4>2
    <3>2. QED
      BY <3>1
  <2>2. \E f \in [Nat -> Known] : f[0] = node /\ \A n \in Nat : f[n + 1] = step[f[n]]
    <3> HIDE DEF step
    <3>1. QED
      BY ONLY <1>2, <2>1, RecursionExists
  <2>3. PICK f \in [Nat -> Known] : f[0] = node /\ \A n \in Nat : f[n + 1] = step[f[n]]
    BY <2>2
  <2> DEFINE g == [k \in Nat |-> IF k = 0 THEN node ELSE Onward(f[k - 1])]
  <2>4. ASSUME NEW k \in Nat PROVE f[k] = g[k]
    <3>1. CASE k = 0
      BY <2>3, <3>1
    <3>2. CASE k # 0
      <4>1. k - 1 \in Nat /\ (k - 1) + 1 = k /\ f[k - 1] \in Known
        BY <3>2
      <4>2. f[k] = step[f[k - 1]]
        BY <2>3, <4>1
      <4>3. step[f[k - 1]] = Onward(f[k - 1])
        BY <4>1
      <4>4. QED
        BY <3>2, <4>2, <4>3
    <3>3. QED
      BY <3>1, <3>2
  <2>5. f = [k \in Nat |-> f[k]] /\ g = [k \in Nat |-> g[k]]
    OBVIOUS
  <2>6. f = g
    <3> HIDE DEF g
    <3>1. QED
      BY <2>4, <2>5
  <2>7. QED
    BY <2>6
<1>4. Goes(at)
  <2> HIDE DEF Goes
  <2>1. QED
    BY <1>3
<1>5. at[0] = node /\ \A k \in Nat : at[k + 1] = Onward(at[k])
  <2>1. at = [k \in Nat |-> IF k = 0 THEN node ELSE Onward(at[k - 1])]
    BY <1>4
  <2> HIDE DEF at, Goes
  <2>2. at[0] = node
    BY <2>1
  <2>3. ASSUME NEW k \in Nat PROVE at[k + 1] = Onward(at[k])
    <3> DEFINE j == k + 1
    <3>1. j \in Nat /\ j # 0 /\ j - 1 = k
      OBVIOUS
    <3> HIDE DEF j
    <3>2. at[j] = Onward(at[j - 1])
      BY <2>1, <3>1
    <3>3. QED
      BY <3>1, <3>2 DEF j
  <2>4. QED
    BY <2>2, <2>3
<1> HIDE DEF at, Goes
<1>6. QED
  BY <1>1, <1>5

(* followChainInGraph finds a run of the graph. *)
LEMMA ChainFound ==
  ASSUME MergedFromWalks, MapOK(nodeSourceMap), Suffice(nodeSourceMap, nodeDestMap),
         Sound(nodeSourceMap, Known, LastStates, Ranks, DOMAIN model),
         NEW node, NEW seen, node \in seen, InChain(node)
  PROVE  \E at : \E N \in Nat \ {0} :
           /\ Run(Arcs(nodeSourceMap, Known), at, N) /\ at[0] = node /\ at[N] \notin Nodes(at, N)
           /\ \A k \in 0 .. N - 1 : InChain(at[k]) /\ at[k + 1] = Onward(at[k])
           /\ Chain(node, seen) = [end |-> at[N], traversed |-> Nodes(at, N)]
<1> DEFINE E == Arcs(nodeSourceMap, Known)
           C == Cardinality(Sources)
<1>1. node \in Known
  BY InChainIs
<1>2. PICK at : /\ at[0] = node /\ \A k \in Nat : at[k + 1] = Onward(at[k])
                /\ Chain(node, seen) = [end |-> at[Min(Ends(at, seen))],
                                        traversed |-> {at[k] : k \in 0 .. Min(Ends(at, seen)) - 1}]
  BY <1>1, ChainWalk
<1> DEFINE ends == {k \in 0 .. C : ~InChain(at[k]) \/ (k > 0 /\ at[k] \in seen)}
           N == Min(ends)
<1>3. Chain(node, seen) = [end |-> at[N], traversed |-> {at[k] : k \in 0 .. N - 1}]
  BY <1>2 DEF Ends
<1>4. at[0] = node /\ \A k \in Nat : at[k + 1] = Onward(at[k])
  BY <1>2
<1>5. IsFiniteSet(Sources) /\ C \in Nat
  <2>1. Sources \subseteq Known
    BY DEF MapOK, Sources
  <2>2. QED
    BY <2>1, KnownFinite, FS_Subset, FS_CardinalityType
<1> HIDE DEF C
<1>6. ASSUME NEW n \in 0 .. C + 1, \A k \in 0 .. C : k < n => k \notin ends
      PROVE  /\ \A k \in 0 .. n - 1 : InChain(at[k]) /\ at[k + 1] = Onward(at[k]) /\ (k # 0 => at[k] \notin seen)
             /\ Run(E, at, n)
  <2>1. ASSUME NEW k \in 0 .. n - 1
        PROVE  InChain(at[k]) /\ at[k + 1] = Onward(at[k]) /\ (k # 0 => at[k] \notin seen)
    <3>1. k \in 0 .. C /\ k < n /\ k \in Nat
      BY <1>5
    <3>2. k \notin ends
      BY <1>6, <3>1
    <3>3. QED
      BY <1>4, <3>1, <3>2
  <2>2. \A k \in 1 .. n - 1 : at[k] # at[0]
    <3>1. \A k \in 1 .. n - 1 : k \in 0 .. n - 1 /\ k # 0
      BY <1>5
    <3>2. QED
      BY <1>4, <2>1, <3>1
  <2>3. n \in Nat
    BY <1>5
  <2>4. QED
    BY <2>1, <2>2, <2>3, ChainIsRun
<1>7. ends # {}
  <2> SUFFICES ASSUME ends = {} PROVE FALSE
    OBVIOUS
  <2>1. C + 1 \in 0 .. C + 1 /\ \A k \in 0 .. C : k < C + 1 => k \notin ends
    BY <1>5
  <2> DEFINE n == C + 1
  <2>2. n \in 0 .. C + 1 /\ n \in Nat /\ n - 1 = C
    BY <1>5
  <2>3. \A k \in 0 .. C : k < n => k \notin ends
    BY <2>1
  <2> HIDE DEF ends, n
  <2>4. Run(E, at, n) /\ \A k \in 0 .. C : InChain(at[k])
    BY <1>6, <2>2, <2>3
  <2>5. \A i, j \in 0 .. C : at[i] = at[j] => i = j
    BY <2>2, <2>4, RunDistinct
  <2> DEFINE h == [k \in 0 .. C |-> at[k]]
             I == 0 .. C
  <2>6. h \in Injection(I, Sources)
    BY <2>4, <2>5 DEF Injection, IsInjective, InChain
  <2>7. Cardinality(I) = C + 1
    BY <1>5, FS_Interval
  <2> HIDE DEF h, I
  <2>8. Cardinality(I) <= Cardinality(Sources)
    BY <1>5, <2>6, FS_Injection
  <2>9. QED
    BY <1>5, <2>7, <2>8 DEF C
<1>8. N \in ends /\ \A k \in ends : N <= k
  <2>1. ends \in SUBSET Nat
    BY <1>5
  <2> HIDE DEF ends
  <2>2. \E x \in ends : \A y \in ends : x <= y
    BY <1>7, <2>1, LeastElement
  <2>3. QED
    BY <2>2 DEF Min
<1> HIDE DEF N
<1>9. N \in 0 .. C /\ (~InChain(at[N]) \/ (N > 0 /\ at[N] \in seen))
  BY <1>8
<1>10. N \in Nat \ {0}
  <2>1. N # 0
    BY <1>4, <1>9
  <2>2. QED
    BY <1>5, <1>9, <2>1
<1>11. /\ \A k \in 0 .. N - 1 : InChain(at[k]) /\ at[k + 1] = Onward(at[k]) /\ (k # 0 => at[k] \notin seen)
       /\ Run(E, at, N)
  <2>1. N \in 0 .. C + 1
    BY <1>5, <1>9
  <2>2. \A k \in 0 .. C : k < N => k \notin ends
    <3> SUFFICES ASSUME NEW k \in 0 .. C, k < N, k \in ends PROVE FALSE
      OBVIOUS
    <3>1. N <= k
      BY <1>8
    <3>2. QED
      BY <1>5, <1>10, <3>1
  <2> HIDE DEF ends
  <2>3. QED
    BY <1>6, <2>1, <2>2
<1>12. at[N] \notin Nodes(at, N)
  <2> SUFFICES ASSUME NEW j \in 0 .. N - 1, at[N] = at[j] PROVE FALSE
    BY DEF Nodes
  <2>1. at[N] \in seen
    BY <1>9, <1>11
  <2>2. j = 0
    BY <1>11, <2>1
  <2>3. at[N] # at[0]
    <3>1. (\A e \in E : e[1] \in Known /\ e[2] \in Known) /\ Covers(Known, E, Entrance)
          /\ (\A e \in E : e[2] # Entrance) /\ Entrance \in Known
      BY ArcsInside, ModelEdges DEF Sound
    <3> HIDE DEF E
    <3>2. Run(E, at, N)
      BY <1>11
    <3>3. QED
      BY ONLY <1>10, <3>1, <3>2, RunLeaves
  <2>4. QED
    BY <2>2, <2>3
<1>13. Chain(node, seen) = [end |-> at[N], traversed |-> Nodes(at, N)]
  BY <1>3 DEF Nodes
<1>14. \A k \in 0 .. N - 1 : InChain(at[k]) /\ at[k + 1] = Onward(at[k])
  BY <1>11
<1>15. Run(E, at, N)
  BY <1>11
<1> HIDE DEF E
<1>16. QED
  BY <1>4, <1>10, <1>12, <1>13, <1>14, <1>15 DEF E

(* A finite set of numbers has a largest. *)
LEMMA LargestElement ==
  ASSUME NEW S \in SUBSET Nat, IsFiniteSet(S), S # {}
  PROVE  Max(S) \in S
<1> DEFINE Tops(s) == \E x \in s : \A y \in s : y <= x
           F == [s \in SUBSET S |-> IF s = {} \/ Tops(s) THEN 0 ELSE 1]
           G == [s \in SUBSET S |-> 0]
<1>1. F[{}] = G[{}]
  OBVIOUS
<1>2. ASSUME NEW s \in SUBSET S, s # {} PROVE \E x \in s : F[s \ {x}] = G[s \ {x}] => F[s] = G[s]
  <2>1. PICK x \in s : TRUE
    BY <1>2
  <2>2. ASSUME s \ {x} = {} \/ Tops(s \ {x}) PROVE Tops(s)
    <3>1. CASE s \ {x} = {}
      BY <2>1, <3>1
    <3>2. CASE Tops(s \ {x})
      <4>1. PICK z \in s \ {x} : \A y \in s \ {x} : y <= z
        BY <3>2
      <4>2. x \in Nat /\ z \in Nat
        OBVIOUS
      <4>3. CASE x <= z
        BY <4>1, <4>3
      <4>4. CASE z <= x
        <5>1. \A y \in s : y \in Nat
          OBVIOUS
        <5>2. \A y \in s : y <= x
          BY <4>1, <4>2, <4>4, <5>1
        <5>3. QED
          BY <5>2
      <4>5. QED
        BY <4>2, <4>3, <4>4
    <3>3. QED
      BY <2>2, <3>1, <3>2
  <2>3. F[s \ {x}] = G[s \ {x}] => s \ {x} = {} \/ Tops(s \ {x})
    OBVIOUS
  <2>4. Tops(s) => F[s] = G[s]
    OBVIOUS
  <2> HIDE DEF F, G, Tops
  <2>5. QED
    BY <2>2, <2>3, <2>4
<1>3. F[S] = G[S]
  <2> HIDE DEF F, G
  <2>1. QED
    BY <1>1, <1>2, FoldsAgree
<1>4. Tops(S)
  <2>1. ~Tops(S) => F[S] = 1
    <3> HIDE DEF Tops
    <3>1. QED
      OBVIOUS
  <2>2. G[S] = 0
    OBVIOUS
  <2> HIDE DEF F, G, Tops
  <2>3. QED
    BY <1>3, <2>1, <2>2
<1>5. \E x \in S : \A y \in S : x >= y
  BY <1>4
<1>6. QED
  BY <1>5 DEF Max

(* Two maps with the same entries are equally sound. *)
LEMMA SameMap ==
  ASSUME NEW m, MapOK(m), Sound(m, Known, LastStates, Ranks, DOMAIN model),
         NEW from, Suffice(m, from),
         NEW m2, DOMAIN m2 = DOMAIN m, \A s \in DOMAIN m : m2[s] = m[s]
  PROVE  /\ MapOK(m2) /\ Suffice(m2, from)
         /\ Sound(m2, Known, LastStates, Ranks, DOMAIN model)
<1>1. Arcs(m2, Known) = Arcs(m, Known)
  BY DEF Arcs
<1>2. \A p : Counts(m2, Known, p) = Counts(m, Known, p)
  <2> SUFFICES ASSUME NEW p PROVE Counts(m2, Known, p) = Counts(m, Known, p)
    OBVIOUS
  <2>1. \A e \in Arcs(m, Known) : m2[e[1]][e[2]] = m[e[1]][e[2]]
    BY DEF Arcs
  <2>2. QED
    BY <1>1, <2>1 DEF Counts
<1>3. MapOK(m2)
  BY DEF MapOK
<1>4. Sound(m2, Known, LastStates, Ranks, DOMAIN model)
  BY <1>1, <1>2 DEF Sound
<1>5. QED
  BY <1>1, <1>3, <1>4 DEF Suffice

(* The edits of doCompressionAndClean. *)
LEMMA ChainMap ==
  ASSUME NEW m, NEW K, DOMAIN m \subseteq K, NEW T, NEW node, node \in T, NEW end, end \in K,
         node \in DOMAIN m,
         NEW m2, \A s : s \in DOMAIN m2 <=> (s \in DOMAIN m /\ s \notin T) \/ s = node,
         \A d : d \in DOMAIN m2[node] <=> d = end,
         \A s \in DOMAIN m : s \notin T => m2[s] = m[s]
  PROVE  /\ Arcs(m2, K) = Shortened(Arcs(m, K), T, node, end)
         /\ \A e \in Arcs(m, K) : e[1] \notin T => m2[e[1]][e[2]] = m[e[1]][e[2]]
<1>1. DOMAIN m2 \subseteq K
  OBVIOUS
<1>2. ASSUME NEW s, NEW d PROVE <<s, d>> \in Arcs(m2, K) <=> <<s, d>> \in Shortened(Arcs(m, K), T, node, end)
  <2>1. <<s, d>> \in Arcs(m2, K) <=> s \in DOMAIN m2 /\ d \in K /\ d \in DOMAIN m2[s]
    BY <1>1, ArcsInside
  <2>2. <<s, d>> \in Arcs(m, K) <=> s \in DOMAIN m /\ d \in K /\ d \in DOMAIN m[s]
    BY ArcsInside
  <2>3. <<s, d>> \in Shortened(Arcs(m, K), T, node, end)
          <=> (<<s, d>> \in Arcs(m, K) /\ s \notin T) \/ (s = node /\ d = end)
    <3>1. <<s, d>>[1] = s /\ (<<s, d>> = <<node, end>> <=> s = node /\ d = end)
      OBVIOUS
    <3>2. QED
      BY <3>1 DEF Shortened
  <2>4. CASE s = node
    BY <2>1, <2>3, <2>4
  <2>5. CASE s # node
    <3>1. s \in DOMAIN m2 <=> s \in DOMAIN m \ T
      BY <2>5
    <3>2. s \in DOMAIN m \ T => m2[s] = m[s]
      OBVIOUS
    <3>3. QED
      BY <2>1, <2>2, <2>3, <2>5, <3>1, <3>2
  <2>6. QED
    BY <2>4, <2>5
<1>3. (\A e \in Arcs(m2, K) : e = <<e[1], e[2]>>) /\ (\A e \in Arcs(m, K) : e = <<e[1], e[2]>>)
  BY <1>1, ArcsInside
<1>4. \A e \in Shortened(Arcs(m, K), T, node, end) : e = <<e[1], e[2]>>
  BY <1>3 DEF Shortened
<1>5. Arcs(m2, K) = Shortened(Arcs(m, K), T, node, end)
  BY <1>2, <1>3, <1>4
<1>6. \A e \in Arcs(m, K) : e[1] \notin T => m2[e[1]][e[2]] = m[e[1]][e[2]]
  BY DEF Arcs
<1>7. QED
  BY <1>5, <1>6

(* doCompressionAndClean keeps the counts and the ways. *)
LEMMA ChainStep ==
  ASSUME MergedFromWalks, MapOK(nodeSourceMap), boundaryNodes = LastStates,
         Suffice(nodeSourceMap, nodeDestMap),
         Sound(nodeSourceMap, Known, LastStates, Ranks, DOMAIN model),
         NEW node, NEW seen, node \in seen, Cardinality(Successors(node)) = 1,
         CompressChain(node, Chain(node, seen))
  PROVE  /\ MapOK(nodeSourceMap') /\ Suffice(nodeSourceMap', nodeDestMap')
         /\ Sound(nodeSourceMap', Known, LastStates, Ranks, DOMAIN model)
<1> DEFINE m == nodeSourceMap
           from == nodeDestMap
           chain == Chain(node, seen)
           rest == Restrict(m, Sources \ chain.traversed)
           last == Max(chain.traversed)
           annotation == m[last][TheOnly(Successors(last))]
<1>1. /\ nodeSourceMap' = IF chain.end = node THEN rest
                          ELSE Put(rest, node, [d \in {chain.end} |-> annotation])
      /\ nodeDestMap' = nodeDestMap
  BY DEF CompressChain
<1>2. PICK m2 : m2 = nodeSourceMap'
  OBVIOUS
<1>3. MapOK(m) /\ Sound(m, Known, LastStates, Ranks, DOMAIN model) /\ Suffice(m, from) /\ Sources = DOMAIN m
  BY DEF Sources
<1>4. node \in DOMAIN m /\ DOMAIN m \subseteq Known
  <2>1. Successors(node) # {}
    BY FS_EmptySet
  <2>2. QED
    BY <1>3, <2>1, SuccessorsAre DEF MapOK
<1>5. CASE ~InChain(node)
  <2>1. PICK at : /\ at[0] = node
                  /\ Chain(node, seen) = [end |-> at[Min(Ends(at, seen))],
                                          traversed |-> {at[k] : k \in 0 .. Min(Ends(at, seen)) - 1}]
    BY <1>3, <1>4, ChainWalk
  <2>2. Min(Ends(at, seen)) = 0
    <3>1. Cardinality(Sources) \in Nat
      BY <1>3, <1>4, KnownFinite, FS_Subset, FS_CardinalityType
    <3>2. 0 \in Ends(at, seen) /\ \A k \in Ends(at, seen) : k \in Nat
      BY <1>5, <2>1, <3>1 DEF Ends
    <3> DEFINE ends == Ends(at, seen)
    <3> HIDE DEF ends
    <3>3. Min(ends) \in ends /\ \A k \in ends : Min(ends) <= k
      <4>1. \E x \in ends : \A y \in ends : x <= y
        BY <3>2 DEF ends
      <4>2. QED
        BY <4>1 DEF Min
    <3>4. Min(ends) \in Nat /\ Min(ends) <= 0
      BY <3>2, <3>3 DEF ends
    <3>5. QED
      BY <3>4 DEF ends
  <2>3. chain.end = node /\ chain.traversed = {}
    BY <2>1, <2>2
  <2> HIDE DEF chain
  <2>4. m2 = [s \in DOMAIN m |-> m[s]]
    BY <1>1, <1>2, <1>3, <2>3 DEF Restrict
  <2>5. DOMAIN m2 = DOMAIN m /\ \A s \in DOMAIN m : m2[s] = m[s]
    BY <2>4
  <2> HIDE DEF m, from
  <2>6. MapOK(m2) /\ Suffice(m2, from) /\ Sound(m2, Known, LastStates, Ranks, DOMAIN model)
    BY <1>3, <2>5, SameMap
  <2>7. QED
    BY <1>1, <1>2, <2>6 DEF from
<1>6. CASE InChain(node)
  <2>1. PICK at : \E N \in Nat \ {0} :
           /\ Run(Arcs(m, Known), at, N) /\ at[0] = node /\ at[N] \notin Nodes(at, N)
           /\ \A k \in 0 .. N - 1 : InChain(at[k]) /\ at[k + 1] = Onward(at[k])
           /\ Chain(node, seen) = [end |-> at[N], traversed |-> Nodes(at, N)]
    BY <1>3, <1>6, ChainFound
  <2>2. PICK N \in Nat \ {0} :
           /\ Run(Arcs(m, Known), at, N) /\ at[0] = node /\ at[N] \notin Nodes(at, N)
           /\ \A k \in 0 .. N - 1 : InChain(at[k]) /\ at[k + 1] = Onward(at[k])
           /\ chain = [end |-> at[N], traversed |-> Nodes(at, N)]
    BY <2>1
  <2> DEFINE T == Nodes(at, N)
             end == at[N]
  <2>3. chain.end = end /\ chain.traversed = T
    BY <2>2
  <2>4. 0 \in 0 .. N - 1 /\ N - 1 \in 0 .. N - 1 /\ (N - 1) + 1 = N
    OBVIOUS
  <2>5. node \in T /\ end # node /\ \A t \in T : t \in Sources /\ t \in Known /\ t \notin LastStates
    <3>1. node \in T
      BY <2>2, <2>4 DEF Nodes
    <3>2. \A t \in T : InChain(t)
      BY <2>2 DEF Nodes
    <3>3. QED
      BY <1>3, <2>2, <3>1, <3>2, InChainIs
  <2>6. last \in T
    <3> DEFINE S == chain.traversed
    <3>1. S \in SUBSET Nat /\ S # {} /\ IsFiniteSet(S)
      <4>1. S \subseteq Known /\ S # {}
        BY <2>3, <2>5
      <4>2. QED
        BY <4>1, KnownFinite, ModelEdges, FS_Subset
    <3> HIDE DEF S
    <3>2. Max(S) \in S
      BY <3>1, LargestElement
    <3>3. QED
      BY <2>3, <3>2 DEF S
  <2>7. PICK j \in 0 .. N - 1 : last = at[j]
    BY <2>6 DEF Nodes
  <2>8. TheOnly(Successors(last)) = at[j + 1] /\ at[j + 1] \in Successors(at[j])
    <3>1. InChain(last) /\ at[j + 1] = Onward(last)
      BY <2>2, <2>7
    <3>2. Successors(last) = {at[j + 1]}
      BY <1>3, <3>1, InChainIs
    <3>3. QED
      BY <2>7, <3>2 DEF TheOnly
  <2>9. annotation = m[at[j]][at[j + 1]]
    BY <2>7, <2>8
  <2>10. end \in Known
    <3>1. InChain(at[N - 1]) /\ end = Onward(at[N - 1])
      BY <2>2, <2>4
    <3>2. QED
      BY <1>3, <3>1, InChainIs
  <2>11. \E e \in DOMAIN model : annotation = model[e]
    <3>1. at[j] \in DOMAIN m /\ at[j + 1] \in DOMAIN m[at[j]]
      BY <1>3, <2>8, SuccessorsAre
    <3>2. QED
      BY <1>3, <2>9, <3>1 DEF MapOK
  <2> HIDE DEF annotation, chain
  <2>12. m2 = Put(Restrict(m, DOMAIN m \ T), node, [d \in {end} |-> annotation])
    BY <1>1, <1>2, <1>3, <2>3, <2>5
  <2> HIDE DEF T, end
  <2>13. /\ DOMAIN m2 = (DOMAIN m \ T) \cup {node} /\ m2[node] = [d \in {end} |-> annotation]
         /\ \A s \in DOMAIN m \ T : m2[s] = m[s]
    BY <2>5, <2>12 DEF Put, Restrict
  <2>14. DOMAIN m2[node] = {end} /\ m2[node][end] = annotation
    BY <2>13
  <2>15. T \subseteq DOMAIN m
    BY <1>3, <2>5
  <2> HIDE DEF m, from
  <2>16. /\ Arcs(m2, Known) = Shortened(Arcs(m, Known), T, node, end)
         /\ \A e \in Arcs(m, Known) : e[1] \notin T => m2[e[1]][e[2]] = m[e[1]][e[2]]
    <3>1. DOMAIN m \subseteq Known /\ node \in T /\ end \in Known /\ node \in DOMAIN m
      BY <1>4, <2>5, <2>10
    <3>2. /\ \A s : s \in DOMAIN m2 <=> (s \in DOMAIN m /\ s \notin T) \/ s = node
          /\ \A d : d \in DOMAIN m2[node] <=> d = end
          /\ \A s \in DOMAIN m : s \notin T => m2[s] = m[s]
      BY <2>13, <2>14
    <3>3. QED
      BY ONLY <3>1, <3>2, ChainMap
  <2>17. Sound(m2, Known, LastStates, Ranks, DOMAIN model)
    <3>1. \A k \in 0 .. N - 1 : at[k] \notin LastStates
      BY <2>5 DEF T, Nodes
    <3>2. DOMAIN m2 \subseteq Known /\ IsFiniteSet(Known)
      BY <1>4, <2>13, KnownFinite
    <3>3. m2[at[0]][at[N]] = m[at[j]][at[j + 1]]
      BY <2>2, <2>9, <2>14 DEF end
    <3>4. Arcs(m2, Known) = Shortened(Arcs(m, Known), Nodes(at, N), at[0], at[N])
      BY <2>2, <2>16 DEF T, end
    <3>5. \A e \in Arcs(m, Known) : e[1] \notin Nodes(at, N) => m2[e[1]][e[2]] = m[e[1]][e[2]]
      BY <2>16 DEF T
    <3>6. Run(Arcs(m, Known), at, N) /\ at[N] \notin Nodes(at, N) /\ Sound(m, Known, LastStates, Ranks, DOMAIN model)
      BY <1>3, <2>2
    <3>7. N \in Nat \ {0} /\ j \in 0 .. N - 1
      OBVIOUS
    <3>8. QED
      BY ONLY <3>1, <3>2, <3>3, <3>4, <3>5, <3>6, <3>7, ChainKeeps
  <2>18. MapOK(m2)
    <3>1. ASSUME NEW s \in DOMAIN m2
          PROVE  /\ DOMAIN m2[s] # {} /\ DOMAIN m2[s] \subseteq Known
                 /\ \A d \in DOMAIN m2[s] : \E e \in DOMAIN model : m2[s][d] = model[e]
      <4>1. CASE s = node
        BY <2>10, <2>11, <2>14, <4>1
      <4>2. CASE s # node
        <5>1. s \in DOMAIN m /\ m2[s] = m[s]
          BY <2>13, <4>2
        <5>2. QED
          BY <1>3, <5>1 DEF MapOK
      <4>3. QED
        BY <4>1, <4>2
    <3>2. DOMAIN m2 \subseteq Known
      BY <1>4, <2>13
    <3>3. QED
      BY <3>1, <3>2 DEF MapOK
  <2>19. Suffice(m2, from)
    <3>1. <<at[N - 1], end>> \in Arcs(m, Known) /\ at[N - 1] \in T
      <4>1. <<at[N - 1], at[(N - 1) + 1]>> \in Arcs(m, Known)
        BY <2>2, <2>4, RunEdges
      <4>2. at[N - 1] \in T
        BY <2>4 DEF T, Nodes
      <4>3. QED
        BY <2>4, <4>1, <4>2 DEF end
    <3>2. <<at[N - 1], end>>[1] = at[N - 1] /\ <<at[N - 1], end>>[2] = end /\ <<node, end>>[2] = end
      OBVIOUS
    <3> SUFFICES ASSUME NEW n \in Known, Cardinality(Entry(from, n, {})) <= 1,
                        NEW e \in Arcs(m2, Known), NEW f \in Arcs(m2, Known), e[2] = n, f[2] = n
                 PROVE  e = f
      BY DEF Suffice
    <3>3. \A x, y \in Arcs(m, Known) : x[2] = n /\ y[2] = n => x = y
      BY <1>3 DEF Suffice
    <3>4. /\ (e \in Arcs(m, Known) /\ e[1] \notin T) \/ e = <<node, end>>
          /\ (f \in Arcs(m, Known) /\ f[1] \notin T) \/ f = <<node, end>>
      BY <2>16 DEF Shortened
    <3>5. n = end => \A x \in Arcs(m, Known) : x[2] = n => x[1] \in T
      BY <3>1, <3>2, <3>3
    <3>6. QED
      BY <3>2, <3>3, <3>4, <3>5
  <2>20. QED
    BY <1>1, <1>2, <2>17, <2>18, <2>19 DEF from
<1>7. QED
  BY <1>5, <1>6

-----------------------------------------------------------------------------
(* The inductive invariant: the graph is sound, and nodeDestMap is exact until
   the pass over chains, which needs no more than that it suffices. *)
GraphInv ==
  /\ MergedFromWalks
  /\ GraphTypeOK
  /\ phase # "graph" => Sound(nodeSourceMap, Known, LastStates, Ranks, DOMAIN model)
  /\ phase \in {"boundary", "compress", "loopPass"} => Exact(nodeSourceMap, nodeDestMap)
  /\ phase = "chainPass" => Suffice(nodeSourceMap, nodeDestMap)

(* GraphInv holds at first and is kept by every step. *)
LEMMA GraphInitInv == GraphInit => GraphInv
<1> SUFFICES ASSUME GraphInit PROVE GraphInv
  OBVIOUS
<1>1. MergedFromWalks /\ phase = "graph" /\ InitGraph
  BY DEF GraphInit
<1>2. DOMAIN nodeSourceMap = {} /\ nodeSourceMap = <<>> /\ adjacencyListSimple = <<>> /\ boundaryNodes = {}
  BY <1>1 DEF InitGraph
<1>3. Sources = {} /\ adjacencyListSimple = [s \in Sources |-> Successors(s)]
  <2>1. Sources = {}
    BY <1>2 DEF Sources
  <2>2. <<>> = [s \in {} |-> Successors(s)]
    OBVIOUS
  <2>3. QED
    BY <1>2, <2>1, <2>2
<1>4. GraphTypeOK
  BY <1>1, <1>2, <1>3 DEF GraphTypeOK
<1>5. QED
  BY <1>1, <1>4 DEF GraphInv

(* What was merged stays as it is, *)
LEMMA MergedStays ==
  ASSUME UNCHANGED merged
  PROVE  /\ Known' = Known /\ LastStates' = LastStates /\ Ranks' = Ranks /\ model' = model
         /\ MergedFromWalks' = MergedFromWalks
<1>1. walks' = walks /\ model' = model /\ vector' = vector
  BY DEF merged
<1>2. Leads' = Leads
  BY <1>1 DEF Leads
<1>3. Known' = Known
  BY <1>2 DEF Known
<1>4. Ranks' = Ranks
  BY <1>1 DEF Ranks
<1>5. LastStates' = LastStates
  BY <1>1, <1>4 DEF LastStates
<1>6. Summed' = Summed
  <2> DEFINE SummedOf(w) ==
        [e \in UNION {{<<w[p][k], w[p][k + 1]>> : k \in 1 .. Len(w[p]) - 1} : p \in DOMAIN w} |->
           [count |-> MapThenSumSet(LAMBDA p : Times(w[p], e), DOMAIN w),
            tasks |-> [c \in {Times(w[p], e) : p \in DOMAIN w} \ {0} |-> {p \in DOMAIN w : Times(w[p], e) = c}]]]
  <2>1. Summed = SummedOf(walks)
    BY DEF Summed, Ranks
  <2>2. Summed' = SummedOf(walks')
    BY DEF Summed, Ranks, MapThenSumSet, MapThenFoldSet, Times
  <2> HIDE DEF SummedOf
  <2>3. QED
    BY <1>1, <2>1, <2>2
<1>7. MergedFromWalks' = MergedFromWalks
  BY <1>1, <1>4, <1>5, <1>6 DEF MergedFromWalks
<1>8. QED
  BY <1>1, <1>3, <1>4, <1>5, <1>7

(* and the types hold again if those of the map do. *)
LEMMA NextInv ==
  ASSUME UNCHANGED merged, MergedFromWalks, MapOK(nodeSourceMap'),
         phase' \in {"boundary", "compress", "loopPass", "chainPass", "populate", "matrix", "endless", "done"},
         phase' \notin {"loopPass", "chainPass"} =>
           adjacencyListSimple' = [s \in DOMAIN nodeSourceMap' |-> DOMAIN nodeSourceMap'[s]],
         boundaryNodes' = IF phase' = "boundary" THEN {} ELSE LastStates,
         Sound(nodeSourceMap', Known, LastStates, Ranks, DOMAIN model),
         phase' \in {"boundary", "compress", "loopPass"} => Exact(nodeSourceMap', nodeDestMap'),
         phase' = "chainPass" => Suffice(nodeSourceMap', nodeDestMap')
  PROVE  GraphInv'
<1>1. /\ Known' = Known /\ LastStates' = LastStates /\ Ranks' = Ranks /\ model' = model
      /\ MergedFromWalks'
  BY MergedStays
<1>2. Sources' = DOMAIN nodeSourceMap' /\ \A s \in DOMAIN nodeSourceMap' : Successors(s)' = DOMAIN nodeSourceMap'[s]
  BY DEF Sources, Successors, Entry
<1>3. (Sources \subseteq Known)' /\ phase' # "graph"
  BY <1>1, <1>2 DEF MapOK
<1>4. (\A s \in Sources : /\ Successors(s) # {} /\ Successors(s) \subseteq Known
                          /\ \A d \in Successors(s) : \E e \in DOMAIN model : nodeSourceMap[s][d] = model[e])'
  BY <1>1, <1>2 DEF MapOK
<1>5. (~Compressing => adjacencyListSimple = [s \in Sources |-> Successors(s)])'
  BY <1>2 DEF Compressing
<1>6. (boundaryNodes = IF phase \in {"graph", "boundary"} THEN {} ELSE LastStates)'
  BY <1>1, <1>3
<1>7. GraphTypeOK'
  BY <1>3, <1>4, <1>5, <1>6 DEF GraphTypeOK
<1>8. Sound(nodeSourceMap, Known, LastStates, Ranks, DOMAIN model)'
  BY <1>1
<1>9. (phase \in {"boundary", "compress", "loopPass"} => Exact(nodeSourceMap, nodeDestMap))'
  BY <1>1 DEF Exact
<1>10. (phase = "chainPass" => Suffice(nodeSourceMap, nodeDestMap))'
  BY <1>1 DEF Suffice
<1>11. QED
  BY <1>1, <1>7, <1>8, <1>9, <1>10 DEF GraphInv

LEMMA BuildGraphInv == GraphInv /\ BuildGraph => GraphInv'
<1> SUFFICES ASSUME GraphInv, BuildGraph PROVE GraphInv'
  OBVIOUS
<1> DEFINE M == DOMAIN model
<1>1. UNCHANGED merged /\ MergedFromWalks /\ phase = "graph" /\ phase' = "boundary"
      /\ boundaryNodes' = boundaryNodes /\ boundaryNodes = {}
  BY DEF GraphInv, BuildGraph, At, AddEdges, GraphTypeOK
<1>2. /\ nodeSourceMap' = [s \in {e[1] : e \in M} |-> [d \in {e[2] : e \in {f \in M : f[1] = s}} |-> model[<<s, d>>]]]
      /\ nodeDestMap' = [d \in {e[2] : e \in M} |-> {s \in DOMAIN nodeSourceMap' : <<s, d>> \in M}]
      /\ adjacencyListSimple' = [s \in DOMAIN nodeSourceMap' |-> DOMAIN nodeSourceMap'[s]]
  BY DEF BuildGraph, AddEdges
<1>3. /\ MapOK(nodeSourceMap') /\ Sound(nodeSourceMap', Known, LastStates, Ranks, DOMAIN model)
      /\ Arcs(nodeSourceMap', Known) = M
  <2>1. PICK m : m = nodeSourceMap'
    OBVIOUS
  <2>2. m = [s \in {e[1] : e \in DOMAIN model} |->
               [d \in {e[2] : e \in {f \in DOMAIN model : f[1] = s}} |-> model[<<s, d>>]]]
    BY <1>2, <2>1
  <2>3. MapOK(m) /\ Sound(m, Known, LastStates, Ranks, DOMAIN model) /\ Arcs(m, Known) = DOMAIN model
    BY <1>1, <2>2, BuiltMap
  <2>4. QED
    BY <2>1, <2>3
<1>4. Exact(nodeSourceMap', nodeDestMap')
  <2> SUFFICES ASSUME NEW n \in Known
               PROVE  Entry(nodeDestMap', n, {}) = {s \in DOMAIN nodeSourceMap' : n \in DOMAIN nodeSourceMap'[s]}
    BY DEF Exact
  <2>1. PICK m : m = nodeSourceMap'
    OBVIOUS
  <2>2. DOMAIN m \subseteq Known
    BY <1>3, <2>1 DEF MapOK
  <2>3. \A s : <<s, n>> \in M <=> s \in DOMAIN m /\ n \in DOMAIN m[s]
    BY <1>3, <2>1, <2>2, ArcsInside
  <2>4. Entry(nodeDestMap', n, {}) = IF n \in {e[2] : e \in M} THEN {s \in DOMAIN m : <<s, n>> \in M} ELSE {}
    BY <1>2, <2>1 DEF Entry
  <2>5. \A s : <<s, n>> \in M => n \in {e[2] : e \in M}
    <3>1. \A s : <<s, n>>[2] = n
      OBVIOUS
    <3> HIDE DEF M
    <3>2. QED
      BY <3>1
  <2> HIDE DEF M
  <2>6. QED
    BY <2>1, <2>3, <2>4, <2>5
<1>5. QED
  BY <1>1, <1>2, <1>3, <1>4, NextInv

LEMMA MarkBoundaryInv == GraphInv /\ MarkBoundary => GraphInv'
<1> SUFFICES ASSUME GraphInv, MarkBoundary PROVE GraphInv'
  OBVIOUS
<1>1. /\ UNCHANGED merged /\ MergedFromWalks /\ phase = "boundary" /\ phase' \in {"populate", "compress"}
      /\ nodeSourceMap' = nodeSourceMap /\ nodeDestMap' = nodeDestMap
      /\ adjacencyListSimple' = adjacencyListSimple /\ GraphTypeOK
      /\ boundaryNodes' = boundaryNodes \cup ToSet(vector)
  BY DEF GraphInv, MarkBoundary, At, AddBoundaryNodes, maps
<1>2. boundaryNodes' = LastStates
  BY <1>1 DEF GraphTypeOK, MergedFromWalks
<1>3. MapOK(nodeSourceMap') /\ adjacencyListSimple' = [s \in DOMAIN nodeSourceMap' |-> DOMAIN nodeSourceMap'[s]]
  <2>1. adjacencyListSimple = [s \in Sources |-> Successors(s)]
    BY <1>1 DEF GraphTypeOK, Compressing
  <2>2. Sources = DOMAIN nodeSourceMap /\ \A s \in Sources : Successors(s) = DOMAIN nodeSourceMap[s]
    BY SuccessorsAre DEF Sources
  <2>3. QED
    BY <1>1, <2>1, <2>2, MapIsOK
<1>4. Sound(nodeSourceMap', Known, LastStates, Ranks, DOMAIN model) /\ Exact(nodeSourceMap', nodeDestMap')
  BY <1>1 DEF GraphInv
<1>5. QED
  BY <1>1, <1>2, <1>3, <1>4, NextInv

(* The passes. *)
LEMMA CompressInv == GraphInv /\ Compress => GraphInv'
<1> SUFFICES ASSUME GraphInv, Compress PROVE GraphInv'
  OBVIOUS
<1>1. /\ UNCHANGED merged /\ MergedFromWalks /\ GraphTypeOK /\ MapOK(nodeSourceMap)
  BY MapIsOK DEF GraphInv, Compress
<1>2. phase \in {"compress", "loopPass", "chainPass"} /\ boundaryNodes' = boundaryNodes
      /\ Sound(nodeSourceMap, Known, LastStates, Ranks, DOMAIN model)
  BY DEF Compress, At, StartPass, Visit, RebuildAdjacency, GraphInv
<1>3. boundaryNodes = LastStates
  BY <1>1, <1>2 DEF GraphTypeOK
<1>4. CASE At("compress", "loopPass") /\ StartPass(Min(DOMAIN adjacencyListSimple))
  <2>1. phase = "compress" /\ phase' = "loopPass" /\ nodeSourceMap' = nodeSourceMap /\ nodeDestMap' = nodeDestMap
    BY <1>4 DEF At, StartPass, maps
  <2>2. Exact(nodeSourceMap, nodeDestMap)
    BY <2>1 DEF GraphInv
  <2>3. QED
    BY <1>1, <1>2, <1>3, <2>1, <2>2, NextInv
<1>5. CASE phase = "loopPass" /\ Visit(FALSE) /\ UNCHANGED phase
  <2> DEFINE node == Last(stack)
  <2>1. Exact(nodeSourceMap, nodeDestMap) /\ PredecessorsExact /\ phase' = "loopPass"
    BY <1>5, ExactIs DEF GraphInv
  <2>2. CASE nodeSourceMap' = nodeSourceMap /\ nodeDestMap' = nodeDestMap
    BY <1>1, <1>2, <1>3, <2>1, <2>2, NextInv
  <2>3. CASE Cardinality(Successors(node)) = 1 /\ IsSmallLoop(node) /\ EliminateSmallLoop(node)
    <3> HIDE DEF node
    <3>1. /\ MapOK(nodeSourceMap') /\ Exact(nodeSourceMap', nodeDestMap')
          /\ Sound(nodeSourceMap', Known, LastStates, Ranks, DOMAIN model)
      BY <1>1, <1>2, <1>3, <2>1, <2>3, LoopStep
    <3>2. QED
      BY <1>1, <1>2, <1>3, <2>1, <3>1, NextInv
  <2>4. QED
    BY <1>5, <2>2, <2>3 DEF Visit, maps
<1>6. CASE At("loopPass", "chainPass") /\ StartPass(Min(DOMAIN adjacencyListSimple))
  <2>1. phase = "loopPass" /\ phase' = "chainPass" /\ nodeSourceMap' = nodeSourceMap /\ nodeDestMap' = nodeDestMap
    BY <1>6 DEF At, StartPass, maps
  <2>2. Exact(nodeSourceMap, nodeDestMap) /\ DOMAIN nodeSourceMap \subseteq Known
    BY <1>1, <2>1 DEF GraphInv, MapOK
  <2>3. Suffice(nodeSourceMap, nodeDestMap)
    BY <1>1, <2>2, ExactSuffices
  <2>4. QED
    BY <1>1, <1>2, <1>3, <2>1, <2>3, NextInv
<1>7. CASE phase = "chainPass" /\ Visit(TRUE) /\ UNCHANGED phase
  <2> DEFINE node == Last(stack)
             seen == visited \cup {node}
  <2>1. Suffice(nodeSourceMap, nodeDestMap) /\ phase' = "chainPass" /\ node \in seen
    BY <1>7 DEF GraphInv
  <2>2. CASE nodeSourceMap' = nodeSourceMap /\ nodeDestMap' = nodeDestMap
    BY <1>1, <1>2, <1>3, <2>1, <2>2, NextInv
  <2>3. CASE Cardinality(Successors(node)) = 1 /\ CompressChain(node, Chain(node, seen))
    <3> HIDE DEF node, seen
    <3>1. /\ MapOK(nodeSourceMap') /\ Suffice(nodeSourceMap', nodeDestMap')
          /\ Sound(nodeSourceMap', Known, LastStates, Ranks, DOMAIN model)
      BY <1>1, <1>2, <1>3, <2>1, <2>3, ChainStep
    <3>2. QED
      BY <1>1, <1>2, <1>3, <2>1, <3>1, NextInv
  <2>4. QED
    BY <1>7, <2>2, <2>3 DEF Visit, maps
<1>8. CASE At("chainPass", "populate") /\ RebuildAdjacency
  <2>1. /\ phase' = "populate" /\ nodeSourceMap' = nodeSourceMap
        /\ adjacencyListSimple' = [s \in Sources |-> Successors(s)]
    BY <1>8 DEF At, RebuildAdjacency, maps
  <2>2. Sources = DOMAIN nodeSourceMap /\ \A s \in Sources : Successors(s) = DOMAIN nodeSourceMap[s]
    BY SuccessorsAre DEF Sources
  <2>3. adjacencyListSimple' = [s \in DOMAIN nodeSourceMap' |-> DOMAIN nodeSourceMap'[s]]
    BY <2>1, <2>2
  <2>4. QED
    BY <1>1, <1>2, <1>3, <2>1, <2>3, NextInv
<1>9. QED
  BY <1>4, <1>5, <1>6, <1>7, <1>8 DEF Compress

LEMMA ReadGraphInv == GraphInv /\ ReadGraph => GraphInv'
<1> SUFFICES ASSUME GraphInv, ReadGraph PROVE GraphInv'
  OBVIOUS
<1>1. /\ UNCHANGED merged /\ MergedFromWalks /\ phase \notin {"graph", "boundary", "compress", "loopPass", "chainPass"}
      /\ phase' \in {"matrix", "endless", "done"}
      /\ nodeSourceMap' = nodeSourceMap /\ adjacencyListSimple' = adjacencyListSimple /\ GraphTypeOK
      /\ boundaryNodes' = boundaryNodes
  BY DEF GraphInv, ReadGraph, graphVars
<1>2. boundaryNodes = LastStates
  BY <1>1 DEF GraphTypeOK
<1>3. MapOK(nodeSourceMap') /\ adjacencyListSimple' = [s \in DOMAIN nodeSourceMap' |-> DOMAIN nodeSourceMap'[s]]
  <2>1. adjacencyListSimple = [s \in Sources |-> Successors(s)]
    BY <1>1 DEF GraphTypeOK, Compressing
  <2>2. Sources = DOMAIN nodeSourceMap /\ \A s \in Sources : Successors(s) = DOMAIN nodeSourceMap[s]
    BY SuccessorsAre DEF Sources
  <2>3. QED
    BY <1>1, <2>1, <2>2, MapIsOK
<1>4. Sound(nodeSourceMap', Known, LastStates, Ranks, DOMAIN model)
  BY <1>1 DEF GraphInv
<1>5. QED
  BY <1>1, <1>2, <1>3, <1>4, NextInv

LEMMA GraphStutterInv == GraphInv /\ UNCHANGED <<merged, phase, graphVars>> => GraphInv'
<1> SUFFICES ASSUME GraphInv, UNCHANGED <<merged, phase, graphVars>> PROVE GraphInv'
  OBVIOUS
<1>1. UNCHANGED merged /\ UNCHANGED graphVars /\ phase' = phase
  OBVIOUS
<1>2. /\ Known' = Known /\ LastStates' = LastStates /\ Ranks' = Ranks /\ model' = model
      /\ MergedFromWalks' = MergedFromWalks
  BY <1>1, MergedStays
<1>3. /\ nodeSourceMap' = nodeSourceMap /\ nodeDestMap' = nodeDestMap /\ boundaryNodes' = boundaryNodes
      /\ adjacencyListSimple' = adjacencyListSimple
  BY <1>1 DEF graphVars
<1>4. Sources' = Sources /\ \A s : Successors(s)' = Successors(s)
  BY <1>3 DEF Sources, Successors
<1>5. GraphTypeOK'
  BY <1>1, <1>2, <1>3, <1>4 DEF GraphInv, GraphTypeOK, Compressing
<1>6. QED
  BY <1>1, <1>2, <1>3, <1>5 DEF GraphInv, Exact, Suffice

(* GraphInv holds always. *)
LEMMA GraphInvariant == GraphSpec => []GraphInv
<1>1. GraphInv /\ [GraphNext]_<<merged, phase, graphVars>> => GraphInv'
  BY BuildGraphInv, MarkBoundaryInv, CompressInv, ReadGraphInv, GraphStutterInv DEF GraphNext
<1>2. QED
  BY <1>1, GraphInitInv, PTL DEF GraphSpec

(* The types of the graph hold always: every edge of nodeSourceMap carries an
   annotation of the merged model, and the simple adjacency list is that of
   nodeSourceMap except while compressGraph is at work. *)
THEOREM GraphTypes == GraphSpec => []GraphTypeOK
<1>1. GraphInv => GraphTypeOK
  BY DEF GraphInv
<1>2. QED
  BY <1>1, GraphInvariant, PTL

(* Whatever the processes recorded, eliminateSmallLoops and
   doCompressionAndClean leave the rounds usable: while compressGraph is at work
   and after it, every process has left a node where nobody waits as often as
   it has come, by the annotations in nodeSourceMap. *)
THEOREM FlowIsConserved == GraphSpec => []FlowConserved
<1>1. GraphInv => FlowConserved
  <2> SUFFICES ASSUME GraphInv, Compressing \/ phase = "populate",
                      NEW n \in Known \ (LastStates \cup {Entrance}), NEW p \in Ranks
               PROVE  Flow({e \in GraphEdges : e[2] = n}, p) = Flow({e \in GraphEdges : e[1] = n}, p)
    BY DEF FlowConserved
  <2>1. MergedFromWalks /\ Sound(nodeSourceMap, Known, LastStates, Ranks, DOMAIN model)
    BY DEF GraphInv, Compressing
  <2>2. QED
    BY <2>1, SoundFlow
<1>2. QED
  BY <1>1, GraphInvariant, PTL

(* Whatever the processes recorded, addEdge, addBoundaryNodes and compressGraph
   neither add nor remove a way between boundary nodes, or from the first
   state to one. *)
THEOREM ReachabilityIsKept == GraphSpec => []ReachabilityKept
<1>1. GraphInv => ReachabilityKept
  <2> SUFFICES ASSUME GraphInv, phase = "populate", NEW s \in LastStates \cup {Entrance}, NEW d \in LastStates
               PROVE  LeadsTo(Leads, s, d) <=> LeadsTo(adjacencyListSimple, s, d)
    BY DEF ReachabilityKept
  <2>1. /\ MergedFromWalks /\ GraphTypeOK /\ ~Compressing
        /\ Sound(nodeSourceMap, Known, LastStates, Ranks, DOMAIN model)
    BY DEF GraphInv, Compressing
  <2>2. LeadsTo(Leads, s, d) <=> Way(Known, DOMAIN model, s, d)
    BY <2>1, ModelWays
  <2>3. LeadsTo(adjacencyListSimple, s, d) <=> Way(Known, Arcs(nodeSourceMap, Known), s, d)
    BY <2>1, GraphWays
  <2>4. QED
    BY <2>1, <2>2, <2>3 DEF Sound
<1>2. QED
  BY <1>1, GraphInvariant, PTL
================================================================================
