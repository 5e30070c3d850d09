----------------------- MODULE GatheredAnalysis_proofs ------------------------
(***************************************************************************)
(* Theorems about GatheredAnalysis, for every number of processes, every   *)
(* set of trails and every number of late transitions: one inductive       *)
(* invariant, from which follow the types, that the three reductions never *)
(* mix up their messages, that no RangeSet meets a rank twice, that all    *)
(* processes agree on the vector of last states, and that the root ends    *)
(* with the partition of the ranks; a second one, by which the edges of    *)
(* the root are the sum of those of all processes; and that the last       *)
(* reduction implements the tree reduction.                                *)
(***************************************************************************)
EXTENDS GatheredAnalysis, CommonLemmas, SequenceTheorems, TLAPS

-----------------------------------------------------------------------------
(***************************************************************************)
(* Lists of the elements of a finite set in order.                         *)
(***************************************************************************)

(* In a finite set that a strict order ranks, the numbers of elements below
   the elements are 0, 1, 2, and so on, each once. *)
LEMMA Ranking ==
  ASSUME NEW S, IsFiniteSet(S), NEW below \in [S -> SUBSET S],
         \A x \in S : x \notin below[x],
         \A x, y \in S : x # y => x \in below[y] \/ y \in below[x],
         \A x, y \in S : y \in below[x] => below[y] \subseteq below[x]
  PROVE  /\ Cardinality(S) \in Nat
         /\ \A i \in 1 .. Cardinality(S) : \E x \in S : Cardinality(below[x]) = i - 1
         /\ \A x \in S : /\ Cardinality(below[x]) \in Nat
                        /\ Cardinality(below[x]) + 1 \in 1 .. Cardinality(S)
         /\ \A x, y \in S : Cardinality(below[x]) = Cardinality(below[y]) => x = y
         /\ \A x, y \in S : y \in below[x] => Cardinality(below[y]) < Cardinality(below[x])
<1> DEFINE n == Cardinality(S)
           T == 0 .. n - 1
           f == [x \in S |-> Cardinality(below[x])]
<1>1. n \in Nat
  BY FS_CardinalityType
<1>2. ASSUME NEW x \in S
      PROVE  IsFiniteSet(below[x]) /\ Cardinality(below[x]) \in T
  <2>1. IsFiniteSet(below[x]) /\ Cardinality(below[x]) <= n /\ (Cardinality(S) = Cardinality(below[x]) => S = below[x])
    BY FS_Subset
  <2>2. Cardinality(below[x]) \in Nat
    BY <2>1, FS_CardinalityType
  <2>3. Cardinality(below[x]) # n
    BY <2>1
  <2>4. QED
    BY <1>1, <2>1, <2>2, <2>3
<1>3. ASSUME NEW x \in S, NEW y \in S, y \in below[x]
      PROVE  Cardinality(below[y]) < Cardinality(below[x])
  <2>1. below[y] \in SUBSET below[x] /\ below[y] # below[x]
    BY <1>3
  <2>2. /\ Cardinality(below[y]) <= Cardinality(below[x])
        /\ Cardinality(below[x]) = Cardinality(below[y]) => below[x] = below[y]
    BY <1>2, <2>1, FS_Subset
  <2>3. Cardinality(below[x]) \in T /\ Cardinality(below[y]) \in T
    BY <1>2
  <2>4. QED
    BY <1>1, <2>1, <2>2, <2>3
<1>4. ASSUME NEW x \in S, NEW y \in S, Cardinality(below[x]) = Cardinality(below[y])
      PROVE  x = y
  <2>1. Cardinality(below[x]) \in T /\ Cardinality(below[y]) \in T
    BY <1>2
  <2>2. x \notin below[y] /\ y \notin below[x]
    BY <1>1, <1>3, <1>4, <2>1
  <2>3. QED
    BY <2>2
<1>5. IsFiniteSet(T) /\ Cardinality(T) = n
  <2>1. IsFiniteSet(0 .. n - 1) /\ Cardinality(0 .. n - 1) = IF 0 > n - 1 THEN 0 ELSE (n - 1) - 0 + 1
    BY <1>1, FS_Interval
  <2>2. QED
    BY <1>1, <2>1
<1>6. f \in Injection(S, T)
  BY <1>2, <1>4 DEF Injection, IsInjective
<1>7. f \in Surjection(S, T)
  <2> HIDE DEF f, T
  <2>1. QED
    BY <1>5, <1>6, FS_Injection
<1>8. ASSUME NEW i \in 1 .. n PROVE \E x \in S : Cardinality(below[x]) = i - 1
  <2>1. i - 1 \in T
    BY <1>1
  <2>2. QED
    BY <1>7, <2>1 DEF Surjection
<1>9. ASSUME NEW x \in S
      PROVE  Cardinality(below[x]) \in Nat /\ Cardinality(below[x]) + 1 \in 1 .. Cardinality(S)
  BY <1>1, <1>2
<1>10. QED
  BY <1>1, <1>3, <1>4, <1>8, <1>9

-----------------------------------------------------------------------------
(* A strict order of a set, given by what is below each element, and the set
   listed by it. *)
Orders(below, S) ==
  /\ below \in [S -> SUBSET S]
  /\ \A x \in S : x \notin below[x]
  /\ \A x, y \in S : x # y => x \in below[y] \/ y \in below[x]
  /\ \A x, y \in S : y \in below[x] => below[y] \subseteq below[x]
ByRank(S, below) ==
  [i \in 1 .. Cardinality(S) |-> CHOOSE x \in S : Cardinality(below[x]) = i - 1]

(* A finite set listed by rank has each element once. *)
LEMMA ListedByRank ==
  ASSUME NEW S, IsFiniteSet(S), NEW below, Orders(below, S)
  PROVE  /\ ByRank(S, below) \in Seq(S)
         /\ ToSet(ByRank(S, below)) = S
         /\ IsInjective(ByRank(S, below))
<1> DEFINE n == Cardinality(S)
           order == ByRank(S, below)
<1> USE DEF Orders
<1>1. /\ n \in Nat
      /\ \A i \in 1 .. n : \E x \in S : Cardinality(below[x]) = i - 1
      /\ \A x, y \in S : Cardinality(below[x]) = Cardinality(below[y]) => x = y
      /\ \A x, y \in S : y \in below[x] => Cardinality(below[y]) < Cardinality(below[x])
  BY Ranking
<1>2. \A x \in S : Cardinality(below[x]) \in Nat /\ Cardinality(below[x]) + 1 \in 1 .. n
  BY Ranking
<1>3. order = [i \in 1 .. n |-> CHOOSE x \in S : Cardinality(below[x]) = i - 1]
  BY DEF ByRank
<1> HIDE DEF n, order, Orders
<1>4. ASSUME NEW i \in 1 .. n
      PROVE  order[i] \in S /\ Cardinality(below[order[i]]) = i - 1
  <2>1. order[i] = CHOOSE x \in S : Cardinality(below[x]) = i - 1
    BY <1>3
  <2>2. \E x \in S : Cardinality(below[x]) = i - 1
    BY <1>1
  <2>3. QED
    BY ONLY <2>1, <2>2
<1>5. order \in [1 .. n -> S]
  BY ONLY <1>3, <1>4
<1>6. \A x \in S : \E k \in 1 .. n : order[k] = x
  <2> SUFFICES ASSUME NEW x \in S PROVE \E k \in 1 .. n : order[k] = x
    OBVIOUS
  <2>1. PICK k \in 1 .. n : k = Cardinality(below[x]) + 1
    BY <1>2
  <2>2. order[k] \in S /\ Cardinality(below[order[k]]) = k - 1
    BY <1>4
  <2>3. k - 1 = Cardinality(below[x])
    BY <1>2, <2>1
  <2>4. QED
    BY <1>1, <2>2, <2>3
<1>7. ToSet(order) = S
  BY ONLY <1>5, <1>6 DEF ToSet
<1>8. order \in Seq(S) /\ DOMAIN order = 1 .. n
  BY ONLY <1>1, <1>5
<1>9. ASSUME NEW i \in 1 .. n, NEW j \in 1 .. n
    PROVE  order[i] = order[j] => i = j
  <2>1. i \in Nat /\ j \in Nat
    BY <1>1
  <2>2. order[i] = order[j] => i - 1 = j - 1
    BY <1>4
  <2>3. QED
    BY <2>1, <2>2
<1>10. IsInjective(order)
  BY <1>8, <1>9 DEF IsInjective
<1>11. QED
  BY <1>7, <1>8, <1>10 DEF order

(* The elements of a finite set of names, in order. *)
LEMMA SortedNames ==
  ASSUME NEW S \in SUBSET Nat, IsFiniteSet(S)
  PROVE  /\ InOrder(S, <) \in Seq(S)
         /\ ToSet(InOrder(S, <)) = S
         /\ IsInjective(InOrder(S, <))
<1> DEFINE below == [x \in S |-> {y \in S : y < x}]
           n == Cardinality(S)
           order == InOrder(S, <)
<1>1. below \in [S -> SUBSET S]
  OBVIOUS
<1>2. /\ \A x \in S : x \notin below[x]
      /\ \A x, y \in S : x # y => x \in below[y] \/ y \in below[x]
      /\ \A x, y \in S : y \in below[x] => below[y] \subseteq below[x]
  <2>1. \A x \in S : x \in Nat
    OBVIOUS
  <2>2. \A x, y, z \in Nat : z < y /\ y < x => z < x
    OBVIOUS
  <2>3. \A x, y \in S : y \in below[x] => below[y] \subseteq below[x]
    BY <2>1, <2>2
  <2>4. QED
    BY <2>1, <2>3
<1>3. order = ByRank(S, below)
  <2>1. DOMAIN order = 1 .. n
    BY DEF InOrder
  <2>2. ASSUME NEW i \in 1 .. n
        PROVE  order[i] = CHOOSE x \in S : Cardinality(below[x]) = i - 1
    <3>1. order[i] = CHOOSE x \in S : Cardinality({y \in S : y < x}) = i - 1
      BY DEF InOrder
    <3>2. \A x \in S : below[x] = {y \in S : y < x}
      OBVIOUS
    <3>3. QED
      BY <3>1, <3>2
  <2>3. order = [i \in 1 .. n |-> order[i]]
    BY DEF InOrder
  <2> HIDE DEF order, below
  <2>4. QED
    BY <2>1, <2>2, <2>3 DEF ByRank
<1> HIDE DEF order, below
<1>4. Orders(below, S)
  BY <1>1, <1>2 DEF Orders
<1>5. QED
  BY <1>3, <1>4, ListedByRank DEF order

(* The edges of a finite set, in order. *)
LEMMA SortedEdges ==
  ASSUME NEW S \in SUBSET (Nat \X Nat), IsFiniteSet(S)
  PROVE  /\ InOrder(S, EdgeBefore) \in Seq(S)
         /\ ToSet(InOrder(S, EdgeBefore)) = S
<1> DEFINE below == [x \in S |-> {y \in S : EdgeBefore(y, x)}]
           n == Cardinality(S)
           order == InOrder(S, EdgeBefore)
<1>1. below \in [S -> SUBSET S]
  OBVIOUS
<1>2. /\ \A x \in S : x \notin below[x]
      /\ \A x, y \in S : x # y => x \in below[y] \/ y \in below[x]
      /\ \A x, y \in S : y \in below[x] => below[y] \subseteq below[x]
  <2>1. /\ \A x \in S : ~EdgeBefore(x, x)
        /\ \A x, y \in S : x # y => EdgeBefore(x, y) \/ EdgeBefore(y, x)
        /\ \A x, y, z \in S : EdgeBefore(z, y) /\ EdgeBefore(y, x) => EdgeBefore(z, x)
    BY DEF EdgeBefore
  <2>2. QED
    BY <2>1
<1>3. order = ByRank(S, below)
  <2>1. DOMAIN order = 1 .. n
    BY DEF InOrder
  <2>2. ASSUME NEW i \in 1 .. n
        PROVE  order[i] = CHOOSE x \in S : Cardinality(below[x]) = i - 1
    <3>1. order[i] = CHOOSE x \in S : Cardinality({y \in S : EdgeBefore(y, x)}) = i - 1
      BY DEF InOrder
    <3>2. \A x \in S : below[x] = {y \in S : EdgeBefore(y, x)}
      OBVIOUS
    <3>3. QED
      BY <3>1, <3>2
  <2>3. order = [i \in 1 .. n |-> order[i]]
    BY DEF InOrder
  <2> HIDE DEF order, below
  <2>4. QED
    BY <2>1, <2>2, <2>3 DEF ByRank
<1> HIDE DEF order, below
<1>4. Orders(below, S)
  BY <1>1, <1>2 DEF Orders
<1>5. QED
  BY <1>3, <1>4, ListedByRank DEF order

-----------------------------------------------------------------------------
(***************************************************************************)
(* The control of the reductions: masks and ranks, where the helper        *)
(* threads are, and how many messages each edge of the tree holds.         *)
(***************************************************************************)

(* Every caller of reduce() names process 0: relative ranks are the ranks. *)
LEMMA RanksAreRelative ==
  /\ Root = 0 /\ Root \in Proc /\ N \in Nat \ {0}
  /\ \A p \in Proc : RelRank(p) = p /\ RankOf(p) = p
<1>1. Root = 0 /\ Root \in Proc /\ N \in Nat \ {0}
  BY AnalysisAssumption, TreeAssumption DEF Proc
<1>2. ASSUME NEW p \in Proc PROVE RelRank(p) = p /\ RankOf(p) = p
  <2>1. p % N = p
    BY <1>1 DEF Proc
  <2>2. p + N \in N .. 2 * N - 1
    BY <1>1 DEF Proc
  <2>3. (p + N) % N = p
    BY <1>1, <2>2, ModOnce DEF Proc
  <2>4. p - Root + N = p + N /\ p + Root = p
    BY <1>1 DEF Proc
  <2>5. QED
    BY <2>1, <2>3, <2>4 DEF RelRank, RankOf
<1>3. QED
  BY <1>1, <1>2

(* The values the loop variable of reduce() takes: 1, and twice a value. *)
Masks ==
  {m \in Nat : \A S \in SUBSET Nat : 1 \in S /\ (\A x \in S : 2 * x \in S) => m \in S}

(* Induction over masks. *)
LEMMA MaskInduction ==
  ASSUME NEW S \in SUBSET Nat, 1 \in S, \A x \in S : 2 * x \in S
  PROVE  Masks \subseteq S
BY DEF Masks

(* The values reduce() gives its loop variable are masks. *)
LEMMA MasksClosed == 1 \in Masks /\ \A m \in Masks : 2 * m \in Masks
BY DEF Masks

(* Masks are positive. *)
LEMMA MaskType == Masks \subseteq Nat \ {0}
<1> DEFINE S == Nat \ {0}
<1>1. 1 \in S /\ \A x \in S : 2 * x \in S
  OBVIOUS
<1>2. QED
  BY <1>1, MaskInduction

(* Division without remainder. *)
LEMMA MultipleMod ==
  ASSUME NEW a \in Nat \ {0}, NEW b \in Nat
  PROVE  (a * b) % a = 0
OBVIOUS

(* A multiple of a number, divided by it. *)
LEMMA ModMultiple ==
  ASSUME NEW a \in Nat \ {0}, NEW r \in Nat, r % a = 0
  PROVE  /\ r \div a \in Nat
         /\ r = a * (r \div a)
OBVIOUS

(* A mask has no odd factor. *)
LEMMA OddFactor ==
  ASSUME NEW m \in Masks, NEW j \in Nat, NEW k \in Nat, m = j * k, k % 2 = 1
  PROVE  k = 1
<1> DEFINE S == {x \in Nat : \A a, b \in Nat : x = a * b /\ b % 2 = 1 => b = 1}
<1>1. 1 \in S
  <2>1. ASSUME NEW a \in Nat, NEW b \in Nat, 1 = a * b PROVE b = 1
    BY <2>1
  <2>2. QED
    BY <2>1
<1>2. ASSUME NEW x \in S PROVE 2 * x \in S
  <2> SUFFICES ASSUME NEW a \in Nat, NEW b \in Nat, 2 * x = a * b, b % 2 = 1
               PROVE  b = 1
    BY <1>2
  <2>1. PICK c \in Nat : b = 2 * c + 1
    OBVIOUS
  <2>2. a * c \in Nat /\ a * b = 2 * (a * c) + a
    BY <2>1
  <2>3. PICK d \in Nat : a = 2 * d
    <3> DEFINE e == a * c
    <3>1. e \in Nat /\ 2 * x = 2 * e + a /\ x \in Nat
      BY <2>2
    <3> HIDE DEF e
    <3>2. x - e \in Nat /\ a = 2 * (x - e)
      BY <3>1
    <3>3. QED
      BY <3>2
  <2>4. x = d * b
    BY <2>3
  <2>5. QED
    BY <2>4
<1>3. m \in S
  <2> HIDE DEF S
  <2>1. S \subseteq Nat
    BY DEF S
  <2>2. QED
    BY <1>1, <1>2, <2>1, MaskInduction
<1>4. QED
  BY <1>3

(* Of two masks one divides the other. *)
LEMMA MasksDivide ==
  ASSUME NEW m \in Masks, NEW n \in Masks
  PROVE  m % n = 0 \/ n % (2 * m) = 0
<1> DEFINE S == {x \in Nat \ {0} : m % x = 0 \/ x % (2 * m) = 0}
<1>1. m \in Nat \ {0} /\ n \in Nat \ {0}
  BY MaskType
<1>2. 1 \in S
  BY <1>1
<1>3. ASSUME NEW x \in S PROVE 2 * x \in S
  <2>1. x \in Nat \ {0}
    OBVIOUS
  <2>2. CASE m % x = 0
    <3> DEFINE k == m \div x
    <3>1. k \in Nat /\ m = x * k
      BY <1>1, <2>1, <2>2, ModMultiple
    <3> HIDE DEF k
    <3>2. CASE k % 2 = 1
      <4>1. k = 1
        BY <1>1, <2>1, <3>1, <3>2, OddFactor
      <4>2. (2 * x) % (2 * m) = 0
        <5>1. 2 * x = 2 * m /\ 2 * m \in Nat \ {0}
          BY <1>1, <2>1, <3>1, <4>1
        <5>2. QED
          BY <5>1
      <4>3. QED
        BY <2>1, <4>2
    <3>3. CASE k % 2 = 0
      <4>1. PICK h \in Nat : k = 2 * h
        BY <3>1, <3>3
      <4>2. m = (2 * x) * h
        <5>1. x * (2 * h) = (2 * x) * h
          BY <2>1
        <5>2. QED
          BY <3>1, <4>1, <5>1
      <4>3. m % (2 * x) = 0
        <5>1. 2 * x \in Nat \ {0}
          BY <2>1
        <5>2. QED
          BY <4>1, <4>2, <5>1, MultipleMod
      <4>4. QED
        BY <2>1, <4>3
    <3>4. QED
      BY <3>1, <3>2, <3>3
  <2>3. CASE x % (2 * m) = 0
    <3> DEFINE k == x \div (2 * m)
    <3>1. k \in Nat /\ x = (2 * m) * k
      <4>1. 2 * m \in Nat \ {0}
        BY <1>1
      <4>2. QED
        BY <2>1, <2>3, <4>1, ModMultiple
    <3> HIDE DEF k
    <3>2. 2 * x = (2 * m) * (2 * k)
      BY <1>1, <3>1
    <3>3. (2 * x) % (2 * m) = 0
      BY <1>1, <3>1, <3>2, MultipleMod
    <3>4. QED
      BY <2>1, <3>3
  <2>4. QED
    BY <2>2, <2>3
<1>4. n \in S
  <2> HIDE DEF S
  <2>1. S \subseteq Nat
    BY DEF S
  <2>2. QED
    BY <1>2, <1>3, <2>1, MaskInduction
<1>5. QED
  BY <1>4

(* The next mask above a smaller one. *)
LEMMA MaskAbove ==
  ASSUME NEW m \in Masks, NEW n \in Masks, m < n
  PROVE  n % (2 * m) = 0 /\ 2 * m <= n
<1>1. m \in Nat \ {0} /\ n \in Nat \ {0}
  BY MaskType
<1>2. m % n = m
  BY <1>1
<1>3. n % (2 * m) = 0
  BY <1>1, <1>2, MasksDivide
<1>4. QED
  BY <1>1, <1>3

(* A number has its lowest bit set at one mask only. *)
LEMMA ClearBelow ==
  ASSUME NEW r \in Nat, NEW m \in Masks, NEW n \in Masks, m < n, r % n = 0
  PROVE  ~BitSet(r, m) /\ r % m = 0
<1>1. m \in Nat \ {0} /\ n \in Nat \ {0}
  BY MaskType
<1> DEFINE a == n \div (2 * m)
           b == r \div n
<1>2. a \in Nat /\ n = (2 * m) * a
  <2>1. 2 * m \in Nat \ {0} /\ n % (2 * m) = 0
    BY <1>1, MaskAbove
  <2>2. QED
    BY <1>1, <2>1, ModMultiple
<1>3. b \in Nat /\ r = n * b
  BY <1>1, ModMultiple
<1> HIDE DEF a, b
<1>4. r = m * (2 * (a * b)) /\ a * b \in Nat
  <2>1. ((2 * m) * a) * b = m * (2 * (a * b))
    BY <1>1, <1>2, <1>3
  <2>2. QED
    BY <1>2, <1>3, <2>1
<1> DEFINE c == a * b
<1>5. c \in Nat /\ r = m * (2 * c)
  BY <1>4
<1> HIDE DEF c
<1>6. r \div m = 2 * c
  BY <1>1, <1>5
<1>7. QED
  BY <1>1, <1>5, <1>6, MultipleMod DEF BitSet

(* A rank has its lowest bit set at one level of the tree. *)
LEMMA OneLevel ==
  ASSUME NEW r \in Nat, NEW m \in Masks, NEW n \in Masks,
         r % m = 0, BitSet(r, m), r % n = 0, BitSet(r, n)
  PROVE  m = n
BY MaskType, ClearBelow

-----------------------------------------------------------------------------
(***************************************************************************)
(* Values.                                                                 *)
(***************************************************************************)
TaskMaps(ranks) == UNION {[C -> SUBSET ranks] : C \in SUBSET Nat}
AnnotationsOf(ranks) == [count : Nat, tasks : TaskMaps(ranks)]
EdgeMaps(ids, ranks) == UNION {[E -> AnnotationsOf(ranks)] : E \in SUBSET (ids \X ids)}
NameLists == {names \in Seq(Nat) : IsInjective(names)}
Bodies ==
  (SUBSET Nat) \cup [names : NameLists, edges : EdgeMaps(Nat, Proc)] \cup TaskMaps(Proc)
Wire == [phase : Reductions, kind : {"size", "data"}, body : Bodies]

Phases ==
  {"gather", "lastState", "annotate", "bcast", "copy", "newTable", "barrier", "done"}
    \cup Reductions
Early == {"gather", "lastState", "annotate"}

ControlTypes ==
  /\ phase \in [Proc -> Phases]
  /\ io \in [Proc -> {"loop", "receiving", "sized", "sent"}]
  /\ mask \in [Proc -> Masks]
  /\ chan \in [Proc \X Proc -> Seq(Wire)]

(* Where the loop variable can be: the ranks that still loop are multiples of
   it, those that send have the bit, those that receive do not. *)
MasksFit ==
  \A p \in Proc :
    /\ mask[p] <= 2 * N
    /\ phase[p] \notin Reductions => io[p] = "loop"
    /\ phase[p] \in Early => mask[p] = 1
    /\ phase[p] \in Reductions => p % mask[p] = 0
    /\ io[p] = "receiving" => ~BitSet(p, mask[p]) /\ p + mask[p] < N
    /\ io[p] \in {"sized", "sent"} => BitSet(p, mask[p])
    /\ p = Root /\ phase[p] \notin Early \cup Reductions => mask[p] >= N

(* s sends to d, in every reduction: s - d is the lowest bit of s. *)
TreeEdge(s, d) == s - d \in Masks /\ s % (s - d) = 0 /\ BitSet(s, s - d)

(* Messages along one edge, in all reductions: how many belong to the
   reductions before an operation, how many the sender has sent, and how many
   the receiver has taken. *)
Earlier(operation) ==
  IF operation \in Early \cup {"states"} THEN 0
  ELSE IF operation \in {"bcast", "copy", "edges"} THEN 2
  ELSE IF operation \in {"newTable", "table"} THEN 4
  ELSE 6
SentBy(s) ==
  Earlier(phase[s]) + (IF io[s] = "sized" THEN 1 ELSE IF io[s] = "sent" THEN 2 ELSE 0)
TakenFrom(s, d) ==
  Earlier(phase[d]) +
    (IF phase[d] \notin Reductions \/ mask[d] < s - d THEN 0
     ELSE IF mask[d] > s - d THEN 2
     ELSE IF io[d] = "receiving" THEN 1 ELSE 0)

(* The j-th message along an edge. *)
IsMessage(m, j) ==
  /\ m.phase = (IF j <= 2 THEN "states" ELSE IF j <= 4 THEN "edges" ELSE "table")
  /\ m.kind = (IF j \in {1, 3, 5} THEN "size" ELSE "data")

(* c are the messages after the first n. *)
InOrderFrom(c, n) == \A k \in 1 .. Len(c) : IsMessage(c[k], n + k)

(* A channel holds the messages sent and not yet taken, in order. *)
InStep(s, d) ==
  LET c == chan[<<s, d>>]
  IN IF TreeEdge(s, d)
       THEN /\ Len(c) = SentBy(s) - TakenFrom(s, d)
            /\ InOrderFrom(c, TakenFrom(s, d))
       ELSE c = <<>>
ChannelsInStep == \A s, d \in Proc : InStep(s, d)

Control == ControlTypes /\ MasksFit /\ ChannelsInStep

(* A step between reductions that sends and receives nothing. *)
LEMMA ControlQuiet ==
  ASSUME Control, NEW p \in Proc, NEW operation \in Phases \ Reductions,
         phase[p] \notin Reductions,
         phase' = [phase EXCEPT ![p] = operation],
         Earlier(operation) = Earlier(phase[p]),
         operation \in Early <=> phase[p] \in Early,
         UNCHANGED <<io, mask, chan>>
  PROVE  Control'
<1> USE DEF Control
<1>1. ControlTypes'
  BY DEF ControlTypes
<1>2. MasksFit'
  BY DEF MasksFit, ControlTypes
<1>3. ChannelsInStep'
  <2> SUFFICES ASSUME NEW s \in Proc, NEW d \in Proc PROVE InStep(s, d)'
    BY DEF ChannelsInStep
  <2>1. InStep(s, d)
    BY DEF ChannelsInStep
  <2>2. SentBy(s)' = SentBy(s) /\ TakenFrom(s, d)' = TakenFrom(s, d)
    BY DEF SentBy, TakenFrom, ControlTypes
  <2>3. QED
    BY <2>1, <2>2 DEF InStep, InOrderFrom
<1>4. QED
  BY <1>1, <1>2, <1>3

(* A process enters a reduction. *)
LEMMA ControlEnter ==
  ASSUME Control, NEW p \in Proc, NEW operation \in Reductions,
         phase[p] \notin Reductions,
         phase' = [phase EXCEPT ![p] = operation],
         mask' = [mask EXCEPT ![p] = 1],
         Earlier(operation) = Earlier(phase[p]),
         UNCHANGED <<io, chan>>
  PROVE  Control'
<1> USE RanksAreRelative DEF Control
<1>1. ControlTypes'
  BY MasksClosed DEF ControlTypes, Phases
<1>2. io[p] = "loop"
  BY DEF MasksFit
<1>3. MasksFit'
  BY <1>2, MaskType DEF MasksFit, ControlTypes, Early, Reductions, Proc
<1>4. ChannelsInStep'
  <2> SUFFICES ASSUME NEW s \in Proc, NEW d \in Proc PROVE InStep(s, d)'
    BY DEF ChannelsInStep
  <2>1. InStep(s, d)
    BY DEF ChannelsInStep
  <2>2. SentBy(s)' = SentBy(s)
    BY DEF SentBy, ControlTypes
  <2>3. CASE TreeEdge(s, d)
    <3>1. s - d >= 1 /\ s - d \in Nat
      BY <2>3, MaskType DEF TreeEdge
    <3>2. TakenFrom(s, d)' = TakenFrom(s, d)
      BY <3>1, <1>2 DEF TakenFrom, ControlTypes
    <3>3. QED
      BY <2>1, <2>2, <3>2 DEF InStep, InOrderFrom
  <2>4. CASE ~TreeEdge(s, d)
    BY <2>1, <2>4 DEF InStep
  <2>5. QED
    BY <2>3, <2>4
<1>5. QED
  BY <1>1, <1>3, <1>4

(* The loop variable of a process. *)
LEMMA MaskOf ==
  ASSUME Control, NEW p \in Proc
  PROVE  /\ mask[p] \in Masks /\ mask[p] \in Nat \ {0} /\ p \in Nat /\ N \in Nat
         /\ phase[p] \in Reductions => p % mask[p] = 0
<1>1. mask[p] \in Masks
  BY DEF Control, ControlTypes
<1>2. p \in Nat /\ N \in Nat
  BY RanksAreRelative DEF Proc
<1>3. QED
  BY <1>1, <1>2, MaskType DEF Control, MasksFit

(* Two messages go along an edge in each reduction. *)
LEMMA EarlierType ==
  /\ \A operation : Earlier(operation) \in {0, 2, 4, 6}
  /\ \A operation \in Reductions : Earlier(operation) \in {0, 2, 4}
BY DEF Earlier, Reductions

(* The edge at which a rank receives. *)
LEMMA EdgeBelow ==
  ASSUME NEW s \in Proc, NEW d \in Proc, TreeEdge(s, d)
  PROVE  /\ s - d \in Masks /\ s - d \in Nat \ {0}
         /\ d % (s - d) = 0 /\ ~BitSet(d, s - d)
<1> DEFINE m == s - d
<1>1. m \in Masks /\ m \in Nat \ {0} /\ s \in Nat /\ d \in Nat
  BY MaskType, RanksAreRelative DEF TreeEdge, Proc
<1>2. s % m = 0 /\ (s \div m) % 2 = 1 /\ s = d + m
  BY <1>1 DEF TreeEdge, BitSet, Proc
<1> HIDE DEF m
<1> DEFINE q == s \div m
<1>3. q \in Nat /\ s = m * q /\ q % 2 = 1
  BY <1>1, <1>2, ModMultiple
<1> HIDE DEF q
<1>4. PICK h \in Nat : q = 2 * h + 1
  BY <1>3
<1>5. d = m * (2 * h)
  <2>1. m * (2 * h + 1) = m * (2 * h) + m
    BY <1>1
  <2>2. m * (2 * h) \in Nat
    BY <1>1
  <2>3. QED
    BY <1>1, <1>2, <1>3, <1>4, <2>1, <2>2
<1>6. d % m = 0 /\ d \div m = 2 * h
  BY <1>1, <1>5, MultipleMod
<1>7. QED
  BY <1>1, <1>6 DEF BitSet, m

(* The edge at which a rank receives at a level. *)
LEMMA EdgeToSource ==
  ASSUME NEW p \in Proc, NEW m \in Masks, p % m = 0, ~BitSet(p, m), p + m < N
  PROVE  /\ p + m \in Proc /\ SourceRank(p, m) = p + m
         /\ TreeEdge(p + m, p)
<1>1. m \in Nat \ {0} /\ p \in Nat /\ N \in Nat
  BY MaskType, RanksAreRelative DEF Proc
<1>2. p + m \in Proc
  BY <1>1 DEF Proc
<1>3. SourceRank(p, m) = p + m
  BY <1>2, RanksAreRelative DEF SourceRank, Source
<1> DEFINE q == p \div m
<1>4. q \in Nat /\ p = m * q /\ q % 2 = 0
  BY <1>1, ModMultiple DEF BitSet
<1> HIDE DEF q
<1>5. p + m = m * (q + 1)
  BY <1>1, <1>4
<1>6. (p + m) % m = 0 /\ (p + m) \div m = q + 1
  BY <1>1, <1>4, <1>5, MultipleMod
<1>7. (p + m) - p = m
  BY <1>1
<1>8. QED
  BY <1>2, <1>3, <1>4, <1>6, <1>7 DEF TreeEdge, BitSet

(* The edge at which a rank sends, its only one. *)
LEMMA EdgeToParent ==
  ASSUME NEW p \in Proc, NEW m \in Masks, p % m = 0, BitSet(p, m)
  PROVE  /\ p - m \in Proc /\ DestinationRank(p, m) = p - m
         /\ TreeEdge(p, p - m)
         /\ \A d \in Proc : TreeEdge(p, d) => d = p - m
         /\ p # Root /\ m < N
<1>1. m \in Nat \ {0} /\ p \in Nat /\ N \in Nat /\ Root = 0
  BY MaskType, RanksAreRelative DEF Proc
<1>2. m <= p
  BY <1>1, BitSetBound DEF BitSet
<1>3. p - m \in Proc /\ p - (p - m) = m
  BY <1>1, <1>2 DEF Proc
<1>4. ASSUME NEW d \in Proc, TreeEdge(p, d) PROVE d = p - m
  <2>1. p - d = m
    BY <1>1, <1>4, OneLevel DEF TreeEdge
  <2>2. QED
    BY <1>1, <2>1 DEF Proc
<1>5. DestinationRank(p, m) = p - m
  BY <1>3, RanksAreRelative DEF DestinationRank
<1>6. QED
  BY <1>1, <1>2, <1>3, <1>4, <1>5 DEF TreeEdge, Proc

(* A rank sends after it has received from all its children. *)
LEMMA ChildrenBelow ==
  ASSUME NEW s \in Proc, NEW p \in Proc, NEW m \in Masks, TreeEdge(s, p),
         p % m = 0, BitSet(p, m)
  PROVE  s - p < m
<1>1. s - p \in Masks /\ s - p \in Nat \ {0} /\ m \in Nat \ {0} /\ p \in Nat
  BY EdgeBelow, MaskType DEF Proc
<1>2. p % (s - p) = 0 /\ ~BitSet(p, s - p)
  BY EdgeBelow
<1>3. ~(m < s - p)
  BY <1>1, <1>2, ClearBelow
<1>4. m # s - p
  BY <1>2
<1>5. QED
  BY <1>1, <1>3, <1>4

(* What a step at one process does to the counters of an edge. *)
LEMMA ChannelsOf ==
  ASSUME Control, NEW s \in Proc, NEW d \in Proc
  PROVE  /\ chan[<<s, d>>] \in Seq(Wire)
         /\ TreeEdge(s, d) => /\ Len(chan[<<s, d>>]) = SentBy(s) - TakenFrom(s, d)
                              /\ InOrderFrom(chan[<<s, d>>], TakenFrom(s, d))
         /\ ~TreeEdge(s, d) => chan[<<s, d>>] = <<>>
         /\ SentBy(s) \in 0 .. 6 /\ TakenFrom(s, d) \in 0 .. 6
<1>1. Earlier(phase[s]) \in {0, 2, 4, 6} /\ Earlier(phase[d]) \in {0, 2, 4, 6}
  BY DEF Earlier
<1>2. phase[s] \in Reductions => Earlier(phase[s]) <= 4
  BY DEF Earlier, Reductions
<1>3. phase[d] \in Reductions => Earlier(phase[d]) <= 4
  BY DEF Earlier, Reductions
<1>4. SentBy(s) \in 0 .. 6
  BY <1>1, <1>2 DEF SentBy, Control, MasksFit
<1>5. TakenFrom(s, d) \in 0 .. 6
  BY <1>1, <1>3 DEF TakenFrom
<1>6. chan[<<s, d>>] \in Seq(Wire)
  BY DEF Control, ControlTypes
<1>7. QED
  BY <1>4, <1>5, <1>6 DEF Control, ChannelsInStep, InStep

(* What follows the first n messages, when one is taken or one is sent. *)
LEMMA OrderOfTail ==
  ASSUME NEW c \in Seq(Wire), c # <<>>, NEW n \in Nat, InOrderFrom(c, n)
  PROVE  /\ Tail(c) \in Seq(Wire) /\ Len(Tail(c)) = Len(c) - 1
         /\ InOrderFrom(Tail(c), n + 1)
<1>1. /\ Tail(c) \in Seq(Wire) /\ Len(Tail(c)) = Len(c) - 1 /\ Len(c) \in Nat
      /\ \A k \in 1 .. Len(Tail(c)) : k + 1 \in 1 .. Len(c) /\ Tail(c)[k] = c[k + 1]
  OBVIOUS
<1>2. ASSUME NEW k \in 1 .. Len(Tail(c)) PROVE IsMessage(Tail(c)[k], n + 1 + k)
  <2>1. n + (k + 1) = n + 1 + k
    BY <1>1
  <2>2. QED
    BY <1>1, <2>1 DEF InOrderFrom
<1>3. QED
  BY <1>1, <1>2 DEF InOrderFrom

(* A message more, at the end. *)
LEMMA OrderOfAppend ==
  ASSUME NEW c \in Seq(Wire), NEW m \in Wire, NEW n \in Nat, InOrderFrom(c, n),
         IsMessage(m, n + Len(c) + 1)
  PROVE  /\ Append(c, m) \in Seq(Wire) /\ Len(Append(c, m)) = Len(c) + 1
         /\ InOrderFrom(Append(c, m), n)
<1>1. /\ Append(c, m) \in Seq(Wire) /\ Len(Append(c, m)) = Len(c) + 1 /\ Len(c) \in Nat
      /\ \A k \in 1 .. Len(c) : Append(c, m)[k] = c[k]
      /\ Append(c, m)[Len(c) + 1] = m
  OBVIOUS
<1>2. n + (Len(c) + 1) = n + Len(c) + 1
  BY <1>1
<1>3. QED
  BY <1>1, <1>2 DEF InOrderFrom

(* The channels of a process in reduce(). *)
LEMMA ReceivingEdge ==
  ASSUME Control, NEW p \in Proc, phase[p] \in Reductions,
         ~BitSet(p, mask[p]), p + mask[p] < N
  PROVE  /\ Incoming(p) = <<p + mask[p], p>> /\ Incoming(p) \in Proc \X Proc
         /\ p + mask[p] \in Proc /\ (p + mask[p]) - p = mask[p]
         /\ TreeEdge(p + mask[p], p)
         /\ TakenFrom(p + mask[p], p)
              = Earlier(phase[p]) + (IF io[p] = "receiving" THEN 1 ELSE 0)
<1>1. mask[p] \in Masks /\ mask[p] \in Nat \ {0} /\ p \in Nat /\ p % mask[p] = 0
  BY MaskOf
<1>2. p + mask[p] \in Proc /\ TreeEdge(p + mask[p], p) /\ SourceRank(p, mask[p]) = p + mask[p]
  BY <1>1, EdgeToSource
<1>3. (p + mask[p]) - p = mask[p]
  BY <1>1
<1>4. QED
  BY <1>1, <1>2, <1>3 DEF Incoming, TakenFrom

(* The channel of a process that sends. *)
LEMMA SendingEdge ==
  ASSUME Control, NEW p \in Proc, phase[p] \in Reductions, BitSet(p, mask[p])
  PROVE  /\ Outgoing(p) = <<p, p - mask[p]>> /\ Outgoing(p) \in Proc \X Proc
         /\ p - mask[p] \in Proc /\ p - (p - mask[p]) = mask[p]
         /\ TreeEdge(p, p - mask[p])
         /\ \A d \in Proc : TreeEdge(p, d) => d = p - mask[p]
         /\ p # Root /\ mask[p] < N
<1>1. mask[p] \in Masks /\ mask[p] \in Nat \ {0} /\ p \in Nat /\ p % mask[p] = 0
  BY MaskOf
<1>2. QED
  BY <1>1, EdgeToParent DEF Outgoing

(* reduce() goes to the next level. *)
LEMMA NextLevelFits ==
  ASSUME Control, NEW p \in Proc, phase[p] \in Reductions, mask[p] < N,
         ~BitSet(p, mask[p]),
         mask' = [mask EXCEPT ![p] = 2 * @],
         io' = [io EXCEPT ![p] = "loop"],
         UNCHANGED phase
  PROVE  MasksFit'
<1>1. mask[p] \in Masks /\ mask[p] \in Nat \ {0} /\ p \in Nat /\ p % mask[p] = 0 /\ N \in Nat
  BY MaskOf
<1>2. p % (2 * mask[p]) = 0
  BY <1>1, NextBit DEF BitSet
<1>3. mask'[p] = 2 * mask[p] /\ mask'[p] <= 2 * N
  BY <1>1 DEF Control, ControlTypes
<1>4. QED
  BY <1>1, <1>2, <1>3 DEF MasksFit, Control, ControlTypes, Early, Reductions

(* Skip keeps the control part. *)
LEMMA ControlSkip ==
  ASSUME Control, NEW p \in Proc, phase[p] \in Reductions, io[p] = "loop", mask[p] < N,
         ~BitSet(p, mask[p]), p + mask[p] >= N,
         mask' = [mask EXCEPT ![p] = 2 * @],
         UNCHANGED <<phase, io, chan>>
  PROVE  Control'
<1>1. mask[p] \in Masks /\ mask[p] \in Nat \ {0} /\ p \in Nat /\ N \in Nat
  BY MaskOf
<1> USE DEF Control
<1>2. ControlTypes'
  BY <1>1, MasksClosed DEF ControlTypes
<1>3. io' = [io EXCEPT ![p] = "loop"]
  BY DEF ControlTypes
<1>4. MasksFit'
  BY <1>3, NextLevelFits
<1>5. ChannelsInStep'
  <2> SUFFICES ASSUME NEW s \in Proc, NEW d \in Proc PROVE InStep(s, d)'
    BY DEF ChannelsInStep
  <2>1. InStep(s, d)
    BY DEF ChannelsInStep
  <2>2. SentBy(s)' = SentBy(s)
    BY DEF SentBy
  <2>3. TreeEdge(s, d) => TakenFrom(s, d)' = TakenFrom(s, d)
    <3> SUFFICES ASSUME TreeEdge(s, d), d = p PROVE TakenFrom(s, d)' = TakenFrom(s, d)
      BY DEF TakenFrom, ControlTypes
    <3>1. s - p \in Masks /\ s - p \in Nat \ {0} /\ s < N /\ s \in Nat
      BY EdgeBelow, <1>1 DEF Proc
    <3>2. s - p # mask[p]
      BY <3>1, <1>1
    <3>3. mask[p] < s - p => 2 * mask[p] <= s - p
      BY <3>1, <1>1, MaskAbove
    <3>4. s - p # 2 * mask[p]
      BY <3>1, <1>1
    <3>5. mask'[p] = 2 * mask[p]
      BY DEF ControlTypes
    <3>6. QED
      BY <3>1, <3>2, <3>3, <3>4, <3>5, <1>1 DEF TakenFrom
  <2>4. QED
    BY <2>1, <2>2, <2>3 DEF InStep, InOrderFrom
<1>6. QED
  BY <1>2, <1>4, <1>5

(* A message is taken from one channel, or sent along one. *)
LEMMA TakenInStep ==
  ASSUME Control, NEW r \in Proc, NEW p \in Proc, TreeEdge(r, p), chan[<<r, p>>] # <<>>,
         chan' = [chan EXCEPT ![<<r, p>>] = Tail(@)],
         \A s \in Proc : SentBy(s)' = SentBy(s),
         TakenFrom(r, p)' = TakenFrom(r, p) + 1,
         \A s, d \in Proc : TreeEdge(s, d) /\ <<s, d>> # <<r, p>>
                              => TakenFrom(s, d)' = TakenFrom(s, d)
  PROVE  ChannelsInStep'
<1> SUFFICES ASSUME NEW s \in Proc, NEW d \in Proc PROVE InStep(s, d)'
  BY DEF ChannelsInStep
<1>1. InStep(s, d) /\ SentBy(s) \in 0 .. 6 /\ TakenFrom(s, d) \in 0 .. 6
  BY ChannelsOf DEF Control, ChannelsInStep
<1>2. CASE <<s, d>> = <<r, p>>
  <2>1. chan'[<<s, d>>] = Tail(chan[<<s, d>>])
    BY <1>2 DEF Control, ControlTypes
  <2>2. /\ Len(chan[<<s, d>>]) = SentBy(s) - TakenFrom(s, d)
        /\ InOrderFrom(chan[<<s, d>>], TakenFrom(s, d))
    BY <1>1, <1>2 DEF InStep
  <2>3. TakenFrom(s, d) \in Nat /\ chan[<<s, d>>] \in Seq(Wire) /\ chan[<<s, d>>] # <<>>
    BY <1>1, <1>2, ChannelsOf
  <2>4. /\ Len(chan'[<<s, d>>]) = Len(chan[<<s, d>>]) - 1
        /\ InOrderFrom(chan'[<<s, d>>], TakenFrom(s, d) + 1)
    BY <2>1, <2>2, <2>3, OrderOfTail
  <2>5. SentBy(s) - TakenFrom(s, d) - 1 = SentBy(s) - (TakenFrom(s, d) + 1)
    BY <1>1
  <2>6. s = r /\ d = p
    BY <1>2
  <2>7. QED
    BY <2>2, <2>4, <2>5, <2>6 DEF InStep
<1>3. CASE <<s, d>> # <<r, p>>
  <2>1. chan'[<<s, d>>] = chan[<<s, d>>]
    BY <1>3 DEF Control, ControlTypes
  <2>2. QED
    BY <1>1, <1>3, <2>1 DEF InStep
<1>4. QED
  BY <1>2, <1>3

(* A message more at the end of one channel. *)
LEMMA SentInStep ==
  ASSUME Control, NEW p \in Proc, NEW d \in Proc, NEW m \in Wire, TreeEdge(p, d),
         \A t \in Proc : TreeEdge(p, t) => t = d,
         chan' = [chan EXCEPT ![<<p, d>>] = Append(@, m)],
         IsMessage(m, SentBy(p) + 1),
         SentBy(p)' = SentBy(p) + 1,
         \A s \in Proc \ {p} : SentBy(s)' = SentBy(s),
         \A s, t \in Proc : TakenFrom(s, t)' = TakenFrom(s, t)
  PROVE  ChannelsInStep'
<1> SUFFICES ASSUME NEW s \in Proc, NEW t \in Proc PROVE InStep(s, t)'
  BY DEF ChannelsInStep
<1>1. InStep(s, t) /\ SentBy(s) \in 0 .. 6 /\ TakenFrom(s, t) \in 0 .. 6
  BY ChannelsOf DEF Control, ChannelsInStep
<1>2. CASE s = p /\ t = d
  <2>1. chan'[<<s, t>>] = Append(chan[<<s, t>>], m)
    BY <1>2 DEF Control, ControlTypes
  <2>2. /\ Len(chan[<<s, t>>]) = SentBy(s) - TakenFrom(s, t)
        /\ InOrderFrom(chan[<<s, t>>], TakenFrom(s, t))
    BY <1>1, <1>2 DEF InStep
  <2>3. TakenFrom(s, t) \in Nat /\ chan[<<s, t>>] \in Seq(Wire)
    BY <1>1, <1>2, ChannelsOf
  <2>4. TakenFrom(s, t) + Len(chan[<<s, t>>]) + 1 = SentBy(s) + 1
    BY <1>1, <2>2, <2>3
  <2>5. /\ Len(chan'[<<s, t>>]) = Len(chan[<<s, t>>]) + 1
        /\ InOrderFrom(chan'[<<s, t>>], TakenFrom(s, t))
    BY <1>2, <2>1, <2>2, <2>3, <2>4, OrderOfAppend
  <2>6. SentBy(s) - TakenFrom(s, t) + 1 = (SentBy(s) + 1) - TakenFrom(s, t)
    BY <1>1
  <2>7. SentBy(s)' = SentBy(s) + 1 /\ TakenFrom(s, t)' = TakenFrom(s, t)
    BY <1>2
  <2>8. QED
    BY <1>2, <2>2, <2>5, <2>6, <2>7 DEF InStep
<1>3. CASE ~(s = p /\ t = d)
  <2>1. chan'[<<s, t>>] = chan[<<s, t>>]
    BY <1>3 DEF Control, ControlTypes
  <2>2. TreeEdge(s, t) => s # p
    BY <1>3
  <2>3. QED
    BY <1>1, <2>1, <2>2 DEF InStep
<1>4. QED
  BY <1>2, <1>3

(* ReceiveSize keeps the control part. *)
LEMMA ControlReceiveSize ==
  ASSUME Control, NEW p \in Proc, phase[p] \in Reductions, io[p] = "loop",
         ~BitSet(p, mask[p]), p + mask[p] < N,
         chan[Incoming(p)] # <<>>,
         chan' = [chan EXCEPT ![Incoming(p)] = Tail(@)],
         io' = [io EXCEPT ![p] = "receiving"],
         UNCHANGED <<phase, mask>>
  PROVE  Control'
<1>1. PICK r \in Proc :
         /\ Incoming(p) = <<r, p>> /\ <<r, p>> \in Proc \X Proc
         /\ r - p = mask[p] /\ TreeEdge(r, p) /\ TakenFrom(r, p) = Earlier(phase[p])
         /\ mask[p] \in Nat
  <2>1. Earlier(phase[p]) + 0 = Earlier(phase[p])
    BY EarlierType
  <2>2. QED
    BY <2>1, ReceivingEdge, MaskOf
<1>2. chan[<<r, p>>] \in Seq(Wire) /\ chan[<<r, p>>] # <<>>
  BY <1>1, ChannelsOf
<1>3. ControlTypes'
  <2>1. Tail(chan[<<r, p>>]) \in Seq(Wire)
    BY <1>2
  <2>2. QED
    BY <1>1, <2>1 DEF Control, ControlTypes
<1>4. MasksFit'
  BY DEF MasksFit, Control, ControlTypes, Early, Reductions
<1>5. \A s \in Proc : SentBy(s)' = SentBy(s)
  BY DEF SentBy, Control, ControlTypes
<1>6. TakenFrom(r, p)' = TakenFrom(r, p) + 1
  <2>1. io'[p] = "receiving" /\ mask'[p] = mask[p] /\ phase'[p] = phase[p]
    BY DEF Control, ControlTypes
  <2>2. QED
    BY <1>1, <2>1 DEF TakenFrom
<1>7. ASSUME NEW s \in Proc, NEW d \in Proc, TreeEdge(s, d), <<s, d>> # <<r, p>>
      PROVE  TakenFrom(s, d)' = TakenFrom(s, d)
  <2> SUFFICES ASSUME d = p PROVE TakenFrom(s, d)' = TakenFrom(s, d)
    BY DEF TakenFrom, Control, ControlTypes
  <2>1. s - p \in Nat /\ s \in Int /\ r \in Int /\ p \in Int
    BY <1>7, EdgeBelow DEF Proc
  <2>2. mask[p] < s - p \/ mask[p] > s - p
    BY <1>1, <1>7, <2>1
  <2>3. mask'[p] = mask[p] /\ phase'[p] = phase[p]
    OBVIOUS
  <2>4. QED
    BY <1>1, <2>1, <2>2, <2>3 DEF TakenFrom
<1>8. chan' = [chan EXCEPT ![<<r, p>>] = Tail(@)]
  BY <1>1
<1>9. ChannelsInStep'
  <2>1. \A s, d \in Proc : TreeEdge(s, d) /\ <<s, d>> # <<r, p>>
                             => TakenFrom(s, d)' = TakenFrom(s, d)
    BY <1>7
  <2>2. TreeEdge(r, p) /\ chan[<<r, p>>] # <<>>
    BY <1>1, <1>2
  <2>3. QED
    BY <1>5, <1>6, <1>8, <2>1, <2>2, TakenInStep
<1>10. QED
  BY <1>3, <1>4, <1>9 DEF Control

(* ReceiveData keeps the control part. *)
LEMMA ControlReceiveData ==
  ASSUME Control, NEW p \in Proc, phase[p] \in Reductions, io[p] = "receiving",
         chan[Incoming(p)] # <<>>,
         chan' = [chan EXCEPT ![Incoming(p)] = Tail(@)],
         io' = [io EXCEPT ![p] = "loop"],
         mask' = [mask EXCEPT ![p] = 2 * @],
         UNCHANGED phase
  PROVE  Control'
<1>1. ~BitSet(p, mask[p]) /\ p + mask[p] < N
  BY DEF Control, MasksFit
<1>2. PICK r \in Proc :
         /\ Incoming(p) = <<r, p>> /\ <<r, p>> \in Proc \X Proc
         /\ r - p = mask[p] /\ TreeEdge(r, p) /\ TakenFrom(r, p) = Earlier(phase[p]) + 1
  BY <1>1, ReceivingEdge
<1>3. /\ mask[p] \in Masks /\ mask[p] \in Nat \ {0} /\ p \in Nat /\ N \in Nat
      /\ mask[p] < N /\ Earlier(phase[p]) \in {0, 2, 4}
  BY <1>1, MaskOf, EarlierType
<1>4. chan[<<r, p>>] \in Seq(Wire) /\ chan[<<r, p>>] # <<>>
  BY <1>2, ChannelsOf
<1>5. ControlTypes'
  <2>1. Tail(chan[<<r, p>>]) \in Seq(Wire)
    BY <1>4
  <2>2. 2 * mask[p] \in Masks
    BY <1>3, MasksClosed
  <2>3. QED
    BY <1>2, <2>1, <2>2 DEF Control, ControlTypes
<1>6. MasksFit'
  BY <1>1, <1>3, NextLevelFits
<1>7. \A s \in Proc : SentBy(s)' = SentBy(s)
  BY DEF SentBy, Control, ControlTypes
<1>8. io'[p] = "loop" /\ mask'[p] = 2 * mask[p] /\ phase'[p] = phase[p]
  BY DEF Control, ControlTypes
<1>9. TakenFrom(r, p)' = TakenFrom(r, p) + 1
  <2>1. TakenFrom(r, p)' = Earlier(phase[p]) + 2
    BY <1>2, <1>3, <1>8 DEF TakenFrom
  <2>2. QED
    BY <1>2, <1>3, <2>1
<1>10. ASSUME NEW s \in Proc, NEW d \in Proc, TreeEdge(s, d), <<s, d>> # <<r, p>>
       PROVE  TakenFrom(s, d)' = TakenFrom(s, d)
  <2> SUFFICES ASSUME d = p PROVE TakenFrom(s, d)' = TakenFrom(s, d)
    BY DEF TakenFrom, Control, ControlTypes
  <2>1. s - p \in Masks /\ s - p \in Nat /\ s \in Int /\ r \in Int /\ p \in Int
    BY <1>10, EdgeBelow DEF Proc
  <2>2. mask[p] < s - p \/ mask[p] > s - p
    BY <1>2, <1>3, <1>10, <2>1
  <2>3. mask[p] < s - p => 2 * mask[p] <= s - p
    BY <1>3, <2>1, MaskAbove
  <2>4. CASE mask[p] < s - p
    <3>1. TakenFrom(s, p) = Earlier(phase[p]) + 0 /\ TakenFrom(s, p)' = Earlier(phase[p]) + 0
      BY <1>3, <1>8, <2>1, <2>3, <2>4 DEF TakenFrom
    <3>2. QED
      BY <3>1
  <2>5. CASE mask[p] > s - p
    BY <1>3, <1>8, <2>1, <2>5 DEF TakenFrom
  <2>6. QED
    BY <2>2, <2>4, <2>5
<1>11. chan' = [chan EXCEPT ![<<r, p>>] = Tail(@)]
  BY <1>2
<1>12. ChannelsInStep'
  <2>1. \A s, d \in Proc : TreeEdge(s, d) /\ <<s, d>> # <<r, p>>
                             => TakenFrom(s, d)' = TakenFrom(s, d)
    BY <1>10
  <2>2. TreeEdge(r, p) /\ chan[<<r, p>>] # <<>>
    BY <1>2, <1>4
  <2>3. QED
    BY <1>7, <1>9, <1>11, <2>1, <2>2, TakenInStep
<1>13. QED
  BY <1>5, <1>6, <1>12 DEF Control

(* SendSize and SendData: kind is what is sent, before and after the values of io. *)
LEMMA ControlSend ==
  ASSUME Control, NEW p \in Proc, phase[p] \in Reductions, BitSet(p, mask[p]),
         NEW kind, NEW body \in Bodies, NEW after,
         \/ io[p] = "loop" /\ kind = "size" /\ after = "sized"
         \/ io[p] = "sized" /\ kind = "data" /\ after = "sent",
         chan' = [chan EXCEPT ![Outgoing(p)] =
                    Append(@, [phase |-> phase[p], kind |-> kind, body |-> body])],
         io' = [io EXCEPT ![p] = after],
         UNCHANGED <<phase, mask>>
  PROVE  Control'
<1> DEFINE m == [phase |-> phase[p], kind |-> kind, body |-> body]
<1>1. m \in Wire
  BY DEF Wire
<1>2. PICK d \in Proc : Outgoing(p) = <<p, d>> /\ TreeEdge(p, d)
                        /\ \A t \in Proc : TreeEdge(p, t) => t = d
  BY SendingEdge
<1>3. chan[<<p, d>>] \in Seq(Wire)
  BY ChannelsOf
<1>4. chan' = [chan EXCEPT ![<<p, d>>] = Append(@, m)]
  BY <1>2
<1>5. IsMessage(m, SentBy(p) + 1) /\ SentBy(p)' = SentBy(p) + 1
  <2>1. \/ phase[p] = "states" /\ Earlier(phase[p]) = 0
        \/ phase[p] = "edges" /\ Earlier(phase[p]) = 2
        \/ phase[p] = "table" /\ Earlier(phase[p]) = 4
    BY DEF Reductions, Earlier, Early
  <2>2. io'[p] = after /\ phase'[p] = phase[p]
    BY DEF Control, ControlTypes
  <2>3. CASE io[p] = "loop"
    <3>1. SentBy(p) = Earlier(phase[p]) /\ SentBy(p)' = Earlier(phase[p]) + 1
      BY <2>1, <2>2, <2>3 DEF SentBy
    <3>2. QED
      BY <2>1, <2>3, <3>1 DEF IsMessage
  <2>4. CASE io[p] = "sized"
    <3>1. SentBy(p) = Earlier(phase[p]) + 1 /\ SentBy(p)' = Earlier(phase[p]) + 2
      BY <2>1, <2>2, <2>4 DEF SentBy
    <3>2. QED
      BY <2>1, <2>4, <3>1 DEF IsMessage
  <2>5. QED
    BY <2>3, <2>4
<1> HIDE DEF m
<1>6. ControlTypes'
  <2>1. Append(chan[<<p, d>>], m) \in Seq(Wire)
    BY <1>1, <1>3
  <2>2. QED
    BY <1>4, <2>1 DEF Control, ControlTypes
<1>7. MasksFit'
  BY DEF MasksFit, Control, ControlTypes
<1>8. \A s \in Proc \ {p} : SentBy(s)' = SentBy(s)
  BY DEF SentBy, Control, ControlTypes
<1>9. \A s, t \in Proc : TakenFrom(s, t)' = TakenFrom(s, t)
  BY DEF TakenFrom, Control, ControlTypes
<1>10. ChannelsInStep'
  BY <1>1, <1>2, <1>4, <1>5, <1>8, <1>9, SentInStep
<1>11. QED
  BY <1>6, <1>7, <1>10 DEF Control

(* A rank that runs out of levels is the root. *)
LEMMA OnlyRootRunsOut ==
  ASSUME Control, NEW p \in Proc, phase[p] \in Reductions, mask[p] >= N
  PROVE  p = Root
<1>1. mask[p] \in Nat \ {0} /\ p \in 0 .. N - 1 /\ N \in Nat /\ p % mask[p] = 0
  BY MaskOf DEF Proc
<1>2. p % mask[p] = p
  BY <1>1
<1>3. QED
  BY <1>1, <1>2, RanksAreRelative

(* SendReturns and LoopEnds: reduce() returns. *)
LEMMA ControlReturn ==
  ASSUME Control, NEW p \in Proc, phase[p] \in Reductions,
         io[p] = "sent" \/ (io[p] = "loop" /\ mask[p] >= N),
         phase' = [phase EXCEPT ![p] = After(phase[p])],
         io' = [io EXCEPT ![p] = "loop"],
         UNCHANGED <<mask, chan>>
  PROVE  Control'
<1>1. /\ After(phase[p]) \in {"bcast", "newTable", "barrier"}
      /\ Earlier(After(phase[p])) = Earlier(phase[p]) + 2
  BY DEF After, Reductions, Earlier, Early
<1>2. /\ phase'[p] = After(phase[p]) /\ After(phase[p]) \in Phases \ (Reductions \cup Early)
      /\ io'[p] = "loop"
  BY <1>1 DEF Control, ControlTypes, Phases, Reductions, Early
<1>3. ControlTypes'
  BY <1>2 DEF Control, ControlTypes
<1>4. MasksFit'
  <2>1. p = Root => mask[p] >= N
    BY SendingEdge DEF Control, MasksFit
  <2>2. QED
    BY <1>2, <2>1 DEF MasksFit, Control, ControlTypes
<1>5. ASSUME NEW s \in Proc, NEW d \in Proc, TreeEdge(s, d)
      PROVE  SentBy(s)' = SentBy(s)
  <2> SUFFICES ASSUME s = p PROVE SentBy(s)' = SentBy(s)
    BY DEF SentBy, Control, ControlTypes
  <2>1. CASE io[p] = "sent"
    BY <1>1, <1>2, <2>1, EarlierType DEF SentBy
  <2>2. CASE mask[p] >= N
    <3>1. s = 0 /\ s - d \in Nat \ {0} /\ d \in Nat
      BY <1>5, <2>2, EdgeBelow, OnlyRootRunsOut, RanksAreRelative DEF Proc
    <3>2. QED
      BY <3>1
  <2>3. QED
    BY <2>1, <2>2
<1>6. ASSUME NEW s \in Proc, NEW d \in Proc, TreeEdge(s, d)
      PROVE  TakenFrom(s, d)' = TakenFrom(s, d)
  <2> SUFFICES ASSUME d = p PROVE TakenFrom(s, d)' = TakenFrom(s, d)
    BY DEF TakenFrom, Control, ControlTypes
  <2>1. mask[p] \in Masks /\ mask[p] \in Nat /\ N \in Nat /\ s - p \in Nat /\ p % mask[p] = 0
    BY <1>6, MaskOf, EdgeBelow
  <2>2. s - p < mask[p]
    <3>1. CASE io[p] = "sent"
      <4>1. BitSet(p, mask[p])
        BY <3>1 DEF Control, MasksFit
      <4>2. QED
        BY <1>6, <2>1, <4>1, ChildrenBelow
    <3>2. CASE mask[p] >= N
      BY <2>1, <3>2 DEF Proc
    <3>3. QED
      BY <3>1, <3>2
  <2>3. TakenFrom(s, p) = Earlier(phase[p]) + 2
    BY <2>1, <2>2 DEF TakenFrom
  <2>4. TakenFrom(s, p)' = Earlier(After(phase[p])) + 0
    BY <1>2 DEF TakenFrom
  <2>5. QED
    BY <1>1, <2>3, <2>4, EarlierType
<1>7. ChannelsInStep'
  <2> SUFFICES ASSUME NEW s \in Proc, NEW d \in Proc PROVE InStep(s, d)'
    BY DEF ChannelsInStep
  <2>1. InStep(s, d)
    BY DEF Control, ChannelsInStep
  <2>2. QED
    BY <1>5, <1>6, <2>1 DEF InStep
<1>8. QED
  BY <1>3, <1>4, <1>7 DEF Control

(* So does a step that leaves the reductions alone. *)
LEMMA ControlSame ==
  ASSUME Control, UNCHANGED <<phase, io, mask, chan>>
  PROVE  Control'
BY DEF Control, ControlTypes, MasksFit, ChannelsInStep, InStep, SentBy, TakenFrom

(* Nobody has sent anything at first. *)
LEMMA ControlInit == Init => Control
<1> SUFFICES ASSUME Init PROVE Control
  OBVIOUS
<1> USE DEF Init
<1>1. ControlTypes
  BY MasksClosed DEF ControlTypes, Phases
<1>2. MasksFit
  BY RanksAreRelative DEF MasksFit, Early, Reductions, Proc
<1>3. ChannelsInStep
  <2> SUFFICES ASSUME NEW s \in Proc, NEW d \in Proc PROVE InStep(s, d)
    BY DEF ChannelsInStep
  <2>1. SentBy(s) = 0 /\ TakenFrom(s, d) = 0
    BY DEF SentBy, TakenFrom, Earlier, Early, Reductions
  <2>2. QED
    BY <2>1 DEF InStep, InOrderFrom
<1>4. QED
  BY <1>1, <1>2, <1>3 DEF Control

(* What is sent is a body. *)
BodiesTyped == \A p \in Proc : phase[p] \in Reductions => Body(p) \in Bodies

(* The steps of reduce() keep the control part. *)
LEMMA ControlReduce ==
  ASSUME Control, BodiesTyped, NEW p \in Proc, Reduce(p) \/ SendStep(p)
  PROVE  Control'
<1>1. RelRank(p) = p /\ Source(p, mask[p]) = p + mask[p]
  BY RanksAreRelative DEF Source
<1>2. ASSUME Skip(p) PROVE Control'
  BY <1>1, <1>2, ControlSkip DEF Skip, Receives, Looping, Reducing
<1>3. ASSUME ReceiveSize(p) PROVE Control'
  BY <1>1, <1>3, ControlReceiveSize DEF ReceiveSize, Receives, Looping, Reducing
<1>4. ASSUME ReceiveData(p) PROVE Control'
  BY <1>4, ControlReceiveData DEF ReceiveData, Reducing
<1>5. ASSUME SendSize(p) PROVE Control'
  <2>1. {} \in Bodies
    BY DEF Bodies
  <2>2. QED
    BY <1>1, <1>5, <2>1, ControlSend DEF SendSize, Looping, Reducing
<1>6. ASSUME LoopEnds(p) PROVE Control'
  <2>1. io' = [io EXCEPT ![p] = "loop"]
    BY <1>6 DEF LoopEnds, loop, Control, ControlTypes
  <2>2. QED
    BY <1>6, <2>1, ControlReturn DEF LoopEnds, Reducing, GoTo, loop
<1>7. ASSUME SendData(p) PROVE Control'
  <2>1. CASE UNCHANGED <<chan, io>>
    BY <1>7, <2>1, ControlSame DEF SendData
  <2>2. CASE ~UNCHANGED <<chan, io>>
    <3>1. /\ chan' = [chan EXCEPT ![Outgoing(p)] =
                        Append(@, [phase |-> phase[p], kind |-> "data", body |-> Body(p)])]
          /\ io' = [io EXCEPT ![p] = "sent"]
          /\ UNCHANGED <<phase, mask>>
      BY <1>7, <2>2 DEF SendData
    <3>2. phase[p] \in Reductions /\ io[p] = "sized" /\ BitSet(p, mask[p])
      BY <1>7 DEF SendData, Reducing, Control, MasksFit
    <3>3. QED
      BY <3>1, <3>2, ControlSend DEF BodiesTyped
  <2>3. QED
    BY <2>1, <2>2
<1>8. ASSUME SendReturns(p) PROVE Control'
  <2>1. /\ phase[p] \in Reductions /\ io[p] = "sent"
        /\ phase' = [phase EXCEPT ![p] = After(phase[p])]
        /\ io' = [io EXCEPT ![p] = "loop"]
        /\ UNCHANGED <<mask, chan>>
    BY <1>8 DEF SendReturns, Reducing, GoTo
  <2>2. QED
    BY <2>1, ControlReturn
<1>9. QED
  BY <1>2, <1>3, <1>4, <1>5, <1>6, <1>7, <1>8 DEF Reduce, SendStep

(* The steps between the reductions do. *)
LEMMA ControlAdvance ==
  ASSUME Control, NEW p \in Proc, RecordLate(p) \/ Advance(p) \/ (p = Root /\ Broadcast)
  PROVE  Control'
<1> USE DEF In, GoTo, loop, Early, Reductions, Phases, Earlier
<1>1. ASSUME RecordLate(p) \/ EnterBarrier(p) PROVE Control'
  BY <1>1, ControlSame DEF RecordLate, EnterBarrier
<1>2. ASSUME LeaveGather(p) PROVE Control'
  BY <1>2, ControlQuiet DEF LeaveGather
<1>3. ASSUME GetLastState(p) PROVE Control'
  BY <1>3, ControlQuiet DEF GetLastState
<1>4. ASSUME Annotate(p) PROVE Control'
  <2>1. CASE UNCHANGED phase
    BY <1>4, <2>1, ControlSame DEF Annotate
  <2>2. CASE ~UNCHANGED phase
    <3>1. mask' = [mask EXCEPT ![p] = 1]
      BY <1>4 DEF Annotate, Control, ControlTypes, MasksFit
    <3>2. QED
      BY <1>4, <2>2, <3>1, ControlEnter DEF Annotate
  <2>3. QED
    BY <2>1, <2>2
<1>5. ASSUME ReceiveBroadcast(p) \/ (p = Root /\ Broadcast) PROVE Control'
  BY <1>5, ControlQuiet DEF ReceiveBroadcast, Broadcast, TakeList
<1>6. ASSUME CopyEdges(p) PROVE Control'
  BY <1>6, ControlEnter DEF CopyEdges
<1>7. ASSUME NewTable(p) PROVE Control'
  BY <1>7, ControlEnter DEF NewTable
<1>8. ASSUME LeaveBarrier(p) PROVE Control'
  BY <1>8, ControlQuiet DEF LeaveBarrier
<1>9. QED
  BY <1>1, <1>2, <1>3, <1>4, <1>5, <1>6, <1>7, <1>8 DEF Advance

(* Every step does. *)
LEMMA ControlNext ==
  ASSUME Control, BodiesTyped, [Next]_vars
  PROVE  Control'
<1>1. CASE UNCHANGED vars
  BY <1>1, ControlSame DEF vars
<1>2. CASE Broadcast
  BY <1>2, ControlAdvance, RanksAreRelative
<1>3. ASSUME NEW p \in Proc, RecordLate(p) \/ Advance(p) PROVE Control'
  BY <1>3, ControlAdvance
<1>4. ASSUME NEW p \in Proc, Reduce(p) \/ SendStep(p) PROVE Control'
  BY <1>4, ControlReduce
<1>5. QED
  BY <1>1, <1>2, <1>3, <1>4 DEF Next

(* What is received is what the phase of the receiver expects. *)
LEMMA ControlMatches == Control => PhasesMatch
<1> SUFFICES ASSUME Control, NEW p \in Proc, Receives(p) \/ io[p] = "receiving",
                    Incoming(p) \in DOMAIN chan, chan[Incoming(p)] # <<>>
             PROVE  /\ Head(chan[Incoming(p)]).phase = phase[p]
                    /\ Head(chan[Incoming(p)]).kind = IF io[p] = "receiving" THEN "data" ELSE "size"
  BY DEF PhasesMatch
<1>1. mask[p] \in Masks /\ mask[p] \in Nat \ {0} /\ p \in Nat /\ N \in Nat /\ p < N
  BY MaskOf DEF Proc
<1>2. phase[p] \in Reductions /\ ~BitSet(p, mask[p]) /\ ((io[p] = "loop" /\ mask[p] < N) \/ io[p] = "receiving")
  BY RanksAreRelative DEF Receives, Looping, Reducing, Control, MasksFit
<1>3. p + mask[p] < N
  <2> SUFFICES ASSUME io[p] = "loop", mask[p] < N, p + mask[p] >= N PROVE FALSE
    BY <1>1, <1>2 DEF Control, MasksFit
  <2> DEFINE s == (p + mask[p]) - N
  <2>1. s \in Proc /\ s < p /\ N <= p + mask[p] /\ p + mask[p] <= 2 * N - 1
    BY <1>1 DEF Proc
  <2>2. SourceRank(p, mask[p]) = s
    <3>1. (p + mask[p]) % N = (p + mask[p]) - N
      <4>1. p + mask[p] \in N .. 2 * N - 1
        BY <1>1, <2>1
      <4>2. QED
        BY <4>1, ModOnce, RanksAreRelative
    <3>2. SourceRank(p, mask[p]) = (p + mask[p] + 0) % N
      BY RanksAreRelative DEF SourceRank, Source, RankOf
    <3>3. QED
      BY <1>1, <3>1, <3>2
  <2>3. ~TreeEdge(s, p)
    BY <1>1, <2>1, MaskType DEF TreeEdge
  <2>4. chan[<<s, p>>] = <<>>
    BY <2>1, <2>3, ChannelsOf
  <2>5. QED
    BY <2>2, <2>4 DEF Incoming
<1>4. PICK r \in Proc : /\ Incoming(p) = <<r, p>> /\ TreeEdge(r, p)
                        /\ TakenFrom(r, p) = Earlier(phase[p]) + (IF io[p] = "receiving" THEN 1 ELSE 0)
  BY <1>2, <1>3, ReceivingEdge
<1> DEFINE c == chan[<<r, p>>]
<1>5. c \in Seq(Wire) /\ c # <<>> /\ InOrderFrom(c, TakenFrom(r, p))
  BY <1>4, ChannelsOf
<1>6. Head(c) = c[1] /\ 1 \in 1 .. Len(c)
  BY <1>5
<1>7. IsMessage(c[1], TakenFrom(r, p) + 1)
  BY <1>5, <1>6 DEF InOrderFrom
<1>8. \/ phase[p] = "states" /\ Earlier(phase[p]) = 0
      \/ phase[p] = "edges" /\ Earlier(phase[p]) = 2
      \/ phase[p] = "table" /\ Earlier(phase[p]) = 4
  BY <1>2 DEF Reductions, Earlier, Early
<1>9. QED
  BY <1>2, <1>4, <1>6, <1>7, <1>8 DEF IsMessage

-----------------------------------------------------------------------------
(***************************************************************************)
(* Factories.                                                              *)
(***************************************************************************)

(* A factory that has grown. *)
Grown(new, old) == DOMAIN old \subseteq DOMAIN new /\ \A i \in DOMAIN old : new[i] = old[i]

(* In a factory names and ids are one to one. *)
LEMMA Ids ==
  ASSUME NEW names \in NameLists
  PROVE  /\ names \in Seq(Nat) /\ DOMAIN names = 1 .. Len(names) /\ Len(names) \in Nat
         /\ \A n \in ToSet(names) : /\ IdOf(names, n) \in DOMAIN names
                                    /\ names[IdOf(names, n)] = n
         /\ \A i \in DOMAIN names : IdOf(names, names[i]) = i /\ names[i] \in ToSet(names)
<1>1. names \in Seq(Nat) /\ DOMAIN names = 1 .. Len(names) /\ Len(names) \in Nat
  BY DEF NameLists
<1>2. \A n \in ToSet(names) : IdOf(names, n) \in DOMAIN names /\ names[IdOf(names, n)] = n
  BY DEF IdOf, ToSet
<1>3. \A i \in DOMAIN names : names[i] \in ToSet(names)
  BY DEF ToSet
<1>4. \A i \in DOMAIN names : IdOf(names, names[i]) = i
  BY <1>2, <1>3 DEF NameLists, IsInjective
<1>5. QED
  BY <1>1, <1>2, <1>3, <1>4

(* createState finds the name or appends it. *)
LEMMA Interned ==
  ASSUME NEW names \in NameLists, NEW n \in Nat
  PROVE  /\ Intern(names, n) \in NameLists
         /\ Grown(Intern(names, n), names)
         /\ n \in ToSet(Intern(names, n))
<1>1. names \in Seq(Nat) /\ IsInjective(names)
  BY DEF NameLists
<1>2. CASE n \in ToSet(names)
  BY <1>2 DEF Intern, Grown
<1>3. CASE n \notin ToSet(names)
  <2> DEFINE new == Append(names, n)
  <2>1. /\ new \in Seq(Nat) /\ DOMAIN new = 1 .. Len(names) + 1 /\ DOMAIN names = 1 .. Len(names)
        /\ \A i \in 1 .. Len(names) : new[i] = names[i]
        /\ new[Len(names) + 1] = n /\ Len(names) \in Nat
    BY <1>1
  <2>2. \A i \in 1 .. Len(names) : names[i] # n
    BY <1>3, <2>1 DEF ToSet
  <2>3. IsInjective(new)
    <3> SUFFICES ASSUME NEW i \in DOMAIN new, NEW j \in DOMAIN new, new[i] = new[j]
                 PROVE  i = j
      BY DEF IsInjective
    <3>1. CASE i \in 1 .. Len(names) /\ j \in 1 .. Len(names)
      BY <1>1, <2>1, <3>1 DEF IsInjective
    <3>2. CASE i = Len(names) + 1 \/ j = Len(names) + 1
      BY <2>1, <2>2, <3>2
    <3>3. QED
      BY <2>1, <3>1, <3>2
  <2>4. Grown(new, names) /\ n \in ToSet(new)
    BY <2>1 DEF Grown, ToSet
  <2>5. QED
    BY <1>3, <2>1, <2>3, <2>4 DEF Intern, NameLists
<1>4. QED
  BY <1>2, <1>3

(* A list of names, interned: none of them twice, whatever the list repeats. *)
LEMMA AllInterned ==
  ASSUME NEW names \in NameLists, NEW list \in Seq(Nat)
  PROVE  /\ InternAll(names, list) \in NameLists
         /\ Grown(InternAll(names, list), names)
         /\ \A k \in DOMAIN list : list[k] \in ToSet(InternAll(names, list))
<1> DEFINE new == {k \in DOMAIN list : /\ list[k] \notin ToSet(names)
                                       /\ \A j \in 1 .. k - 1 : list[j] # list[k]}
           order == InOrder(new, <)
           more == [i \in 1 .. Cardinality(new) |-> list[order[i]]]
           all == names \o more
<1>1. InternAll(names, list) = all
  BY DEF InternAll
<1>2. new \in SUBSET Nat /\ IsFiniteSet(new)
  <2>1. DOMAIN list = 1 .. Len(list) /\ Len(list) \in Nat
    OBVIOUS
  <2>2. IsFiniteSet(DOMAIN list)
    BY <2>1, FS_Interval
  <2>3. new \subseteq DOMAIN list
    OBVIOUS
  <2> HIDE DEF new
  <2>4. QED
    BY <2>1, <2>2, <2>3, FS_Subset
<1>3. /\ order \in Seq(new) /\ ToSet(order) = new /\ IsInjective(order)
  <2> HIDE DEF new
  <2>1. QED
    BY <1>2, SortedNames
<1>4. DOMAIN order = 1 .. Cardinality(new) /\ Cardinality(new) \in Nat
  <2>1. DOMAIN order = 1 .. Cardinality(new)
    BY DEF InOrder
  <2> HIDE DEF new, order
  <2>2. Cardinality(new) \in Nat
    BY <1>2, FS_CardinalityType
  <2>3. QED
    BY <2>1, <2>2
<1> DEFINE n == Cardinality(new)
<1>5. more = [i \in 1 .. n |-> list[order[i]]] /\ n \in Nat /\ DOMAIN order = 1 .. n
  BY <1>4
<1>6. \A i \in 1 .. n : order[i] \in new
  BY <1>3, <1>5 DEF ToSet
<1>7. \A k \in new : /\ k \in DOMAIN list /\ k \in Nat /\ list[k] \in Nat
                     /\ list[k] \notin ToSet(names)
                     /\ \A j \in 1 .. k - 1 : list[j] # list[k]
  OBVIOUS
<1>8. \A k \in DOMAIN list : list[k] \in ToSet(names) \/ \E j \in new : list[j] = list[k]
  <2> SUFFICES ASSUME NEW k \in DOMAIN list, list[k] \notin ToSet(names)
               PROVE  \E j \in new : list[j] = list[k]
    OBVIOUS
  <2> DEFINE same == {j \in DOMAIN list : list[j] = list[k]}
  <2>1. same \in SUBSET Nat /\ same # {}
    OBVIOUS
  <2>2. PICK j \in same : \A i \in same : j <= i
    <3> HIDE DEF same
    <3>1. QED
      BY <2>1, LeastElement
  <2>3. \A i \in 1 .. j - 1 : list[i] # list[j]
    <3> SUFFICES ASSUME NEW i \in 1 .. j - 1, list[i] = list[j] PROVE FALSE
      OBVIOUS
    <3>1. i \in DOMAIN list /\ i < j
      BY <2>2
    <3>2. QED
      BY <2>2, <3>1
  <2>4. QED
    BY <2>2, <2>3
<1> HIDE DEF new, order, n, more
<1>9. more \in Seq(Nat) /\ Len(more) = n /\ \A i \in 1 .. n : more[i] = list[order[i]]
  BY <1>5, <1>6, <1>7
<1>10. names \in Seq(Nat) /\ IsInjective(names)
  BY DEF NameLists
<1> DEFINE l == Len(names)
<1>11. l \in Nat /\ DOMAIN names = 1 .. l
  BY <1>10
<1>12. /\ all \in Seq(Nat) /\ DOMAIN all = 1 .. l + n
       /\ \A i \in 1 .. l : all[i] = names[i]
       /\ \A i \in 1 .. n : all[l + i] = more[i]
  BY <1>5, <1>9, <1>10
<1> HIDE DEF all, l
<1>13. \A i \in 1 .. l : names[i] \in ToSet(names)
  BY <1>11 DEF ToSet
<1>14. \A i \in 1 .. n : more[i] \notin ToSet(names)
  BY <1>6, <1>7, <1>9
<1>15. \A i, j \in 1 .. n : more[i] = more[j] => i = j
  <2> SUFFICES ASSUME NEW i \in 1 .. n, NEW j \in 1 .. n, more[i] = more[j] PROVE i = j
    OBVIOUS
  <2>1. order[i] \in new /\ order[j] \in new /\ list[order[i]] = list[order[j]]
    BY <1>6, <1>9
  <2>2. order[i] = order[j]
    <3>1. \A x, y \in new : x < y => list[x] # list[y]
      <4> SUFFICES ASSUME NEW x \in new, NEW y \in new, x < y PROVE list[x] # list[y]
        OBVIOUS
      <4>1. x \in 1 .. y - 1
        BY <1>7
      <4>2. QED
        BY <1>7, <4>1
    <3>2. order[i] \in Nat /\ order[j] \in Nat
      BY <2>1, <1>7
    <3>3. QED
      BY <2>1, <3>1, <3>2
  <2>3. QED
    BY <1>3, <1>5, <2>2 DEF IsInjective
<1>16. IsInjective(all)
  <2> SUFFICES ASSUME NEW i \in 1 .. l + n, NEW j \in 1 .. l + n, all[i] = all[j] PROVE i = j
    BY <1>12 DEF IsInjective
  <2>1. \A k \in 1 .. l + n : k \in 1 .. l \/ \E h \in 1 .. n : k = l + h
    <3> SUFFICES ASSUME NEW k \in 1 .. l + n, k > l PROVE \E h \in 1 .. n : k = l + h
      BY <1>5, <1>11
    <3>1. k - l \in 1 .. n /\ k = l + (k - l)
      BY <1>5, <1>11
    <3>2. QED
      BY <3>1
  <2>2. CASE i \in 1 .. l /\ j \in 1 .. l
    BY <1>10, <1>11, <1>12, <2>2 DEF IsInjective
  <2>3. CASE i \in 1 .. l /\ j \notin 1 .. l
    BY <1>12, <1>13, <1>14, <2>1, <2>3
  <2>4. CASE i \notin 1 .. l /\ j \in 1 .. l
    BY <1>12, <1>13, <1>14, <2>1, <2>4
  <2>5. CASE i \notin 1 .. l /\ j \notin 1 .. l
    <3>1. PICK a \in 1 .. n : i = l + a
      BY <2>1, <2>5
    <3>2. PICK b \in 1 .. n : j = l + b
      BY <2>1, <2>5
    <3>3. QED
      BY <1>12, <1>15, <3>1, <3>2
  <2>6. QED
    BY <2>2, <2>3, <2>4, <2>5
<1>17. Grown(all, names)
  BY <1>5, <1>11, <1>12 DEF Grown
<1>18. ASSUME NEW k \in DOMAIN list PROVE list[k] \in ToSet(all)
  <2>1. CASE list[k] \in ToSet(names)
    <3>1. PICK i \in 1 .. l : names[i] = list[k]
      BY <1>11, <2>1 DEF ToSet
    <3>2. i \in DOMAIN all /\ all[i] = list[k]
      BY <1>5, <1>11, <1>12, <3>1
    <3>3. QED
      BY <3>2 DEF ToSet
  <2>2. CASE list[k] \notin ToSet(names)
    <3>1. PICK j \in new : list[j] = list[k]
      BY <1>8, <2>2
    <3>2. PICK i \in 1 .. n : order[i] = j
      BY <1>3, <1>5 DEF ToSet
    <3>3. l + i \in DOMAIN all /\ all[l + i] = list[k]
      BY <1>5, <1>9, <1>11, <1>12, <3>1, <3>2
    <3>4. QED
      BY <3>3 DEF ToSet
  <2>3. QED
    BY <2>1, <2>2
<1>19. all \in NameLists
  BY <1>12, <1>16 DEF NameLists
<1>20. QED
  BY <1>1, <1>17, <1>18, <1>19

-----------------------------------------------------------------------------
(***************************************************************************)
(* Edges, annotations and tables: their types.                             *)
(***************************************************************************)

(* Maps from counts to sets of ranks. *)
LEMMA TaskMapIs ==
  ASSUME NEW R, NEW t
  PROVE  t \in TaskMaps(R) <=> /\ DOMAIN t \subseteq Nat
                               /\ t \in [DOMAIN t -> SUBSET R]
BY DEF TaskMaps

(* Maps from edges to annotations. *)
LEMMA EdgeMapIs ==
  ASSUME NEW I, NEW R, NEW edgesOf
  PROVE  edgesOf \in EdgeMaps(I, R) <=> /\ DOMAIN edgesOf \subseteq I \X I
                                        /\ edgesOf \in [DOMAIN edgesOf -> AnnotationsOf(R)]
BY DEF EdgeMaps

(* More ids and more ranks make no difference. *)
LEMMA MapsGrow ==
  ASSUME NEW I, NEW J, I \subseteq J, NEW R, NEW Q, R \subseteq Q
  PROVE  /\ TaskMaps(R) \subseteq TaskMaps(Q)
         /\ AnnotationsOf(R) \subseteq AnnotationsOf(Q)
         /\ EdgeMaps(I, R) \subseteq EdgeMaps(J, Q)
<1>1. ASSUME NEW t \in TaskMaps(R) PROVE t \in TaskMaps(Q)
  <2>1. DOMAIN t \subseteq Nat /\ t \in [DOMAIN t -> SUBSET R]
    BY TaskMapIs
  <2>2. t \in [DOMAIN t -> SUBSET Q]
    BY <2>1
  <2>3. QED
    BY <2>1, <2>2, TaskMapIs
<1>2. AnnotationsOf(R) \subseteq AnnotationsOf(Q)
  BY <1>1 DEF AnnotationsOf
<1>3. ASSUME NEW e \in EdgeMaps(I, R) PROVE e \in EdgeMaps(J, Q)
  <2>1. DOMAIN e \subseteq I \X I /\ e \in [DOMAIN e -> AnnotationsOf(R)]
    BY EdgeMapIs
  <2>2. DOMAIN e \subseteq J \X J /\ e \in [DOMAIN e -> AnnotationsOf(Q)]
    BY <1>2, <2>1
  <2>3. QED
    BY <2>2, EdgeMapIs
<1>4. QED
  BY <1>1, <1>2, <1>3

(* UnionTasks on such maps. *)
LEMMA United ==
  ASSUME NEW R, NEW a \in TaskMaps(R), NEW b \in TaskMaps(R)
  PROVE  UnionTasks(a, b) \in TaskMaps(R)
<1> DEFINE t == UnionTasks(a, b)
<1>1. /\ DOMAIN a \subseteq Nat /\ a \in [DOMAIN a -> SUBSET R]
      /\ DOMAIN b \subseteq Nat /\ b \in [DOMAIN b -> SUBSET R]
  BY TaskMapIs
<1>2. t = [c \in DOMAIN a \cup DOMAIN b |-> Entry(a, c, {}) \cup Entry(b, c, {})]
  BY DEF UnionTasks
<1>3. \A c \in DOMAIN a \cup DOMAIN b : Entry(a, c, {}) \subseteq R /\ Entry(b, c, {}) \subseteq R
  BY <1>1 DEF Entry
<1> HIDE DEF t
<1>4. DOMAIN t = DOMAIN a \cup DOMAIN b /\ t \in [DOMAIN t -> SUBSET R]
  BY <1>2, <1>3
<1>5. t \in TaskMaps(R)
  BY <1>1, <1>4, TaskMapIs
<1>6. QED
  BY <1>5 DEF t

(* EdgeAnnotation + EdgeAnnotation. *)
LEMMA AnnotationsCombined ==
  ASSUME NEW R, NEW a \in AnnotationsOf(R), NEW b \in AnnotationsOf(R)
  PROVE  Combined(a, b) \in AnnotationsOf(R)
BY United DEF Combined, AnnotationsOf

(* updateMatrix adds one edge. *)
LEMMA EdgeAdded ==
  ASSUME NEW I, NEW R, NEW old \in EdgeMaps(I, R), NEW e \in I \X I,
         NEW a \in AnnotationsOf(R)
  PROVE  /\ AddEdge(old, e, a) \in EdgeMaps(I, R)
         /\ e \in DOMAIN AddEdge(old, e, a)
<1> DEFINE new == AddEdge(old, e, a)
           v == IF e \in DOMAIN old THEN Combined(old[e], a) ELSE a
<1>1. DOMAIN old \subseteq I \X I /\ old \in [DOMAIN old -> AnnotationsOf(R)]
  BY EdgeMapIs
<1>2. v \in AnnotationsOf(R)
  BY <1>1, AnnotationsCombined
<1>3. new = [x \in DOMAIN old \cup {e} |-> IF x = e THEN v ELSE old[x]]
  BY DEF AddEdge, Put
<1> HIDE DEF new, v
<1>4. DOMAIN new = DOMAIN old \cup {e} /\ new \in [DOMAIN new -> AnnotationsOf(R)]
  BY <1>1, <1>2, <1>3
<1>5. new \in EdgeMaps(I, R)
  BY <1>1, <1>4, EdgeMapIs
<1>6. QED
  BY <1>4, <1>5 DEF new

(* A process annotates its edges with its rank. *)
LEMMA AnnotatedType ==
  ASSUME NEW I, NEW R, NEW rank \in R, NEW old \in EdgeMaps(I, R)
  PROVE  Annotated(old, rank) \in EdgeMaps(I, R)
<1> DEFINE new == Annotated(old, rank)
           tasksOf(e) == Put(old[e].tasks, old[e].count,
                             Entry(old[e].tasks, old[e].count, {}) \cup {rank})
<1>1. DOMAIN old \subseteq I \X I /\ old \in [DOMAIN old -> AnnotationsOf(R)]
  BY EdgeMapIs
<1>2. ASSUME NEW e \in DOMAIN old PROVE tasksOf(e) \in TaskMaps(R)
  <2> DEFINE t == old[e].tasks
             c == old[e].count
  <2>1. t \in TaskMaps(R) /\ c \in Nat
    BY <1>1 DEF AnnotationsOf
  <2>2. DOMAIN t \subseteq Nat /\ t \in [DOMAIN t -> SUBSET R]
    BY <2>1, TaskMapIs
  <2> DEFINE u == tasksOf(e)
  <2>3. u = [x \in DOMAIN t \cup {c} |-> IF x = c THEN Entry(t, c, {}) \cup {rank} ELSE t[x]]
    BY DEF Put
  <2>4. Entry(t, c, {}) \subseteq R
    BY <2>2 DEF Entry
  <2> HIDE DEF t, c, u
  <2>5. DOMAIN u = DOMAIN t \cup {c} /\ u \in [DOMAIN u -> SUBSET R]
    BY <2>2, <2>3, <2>4
  <2>6. u \in TaskMaps(R)
    BY <2>1, <2>2, <2>5, TaskMapIs
  <2>7. QED
    BY <2>6 DEF u
<1>3. ASSUME NEW e \in DOMAIN old
      PROVE  new[e] = [count |-> old[e].count, tasks |-> tasksOf(e)]
  BY <1>1 DEF Annotated, AnnotationsOf
<1>4. DOMAIN new = DOMAIN old /\ new = [e \in DOMAIN old |-> new[e]]
  BY DEF Annotated
<1> HIDE DEF new, tasksOf
<1>5. new \in [DOMAIN new -> AnnotationsOf(R)]
  <2>1. ASSUME NEW e \in DOMAIN old PROVE new[e] \in AnnotationsOf(R)
    <3>1. old[e].count \in Nat
      BY <1>1 DEF AnnotationsOf
    <3>2. tasksOf(e) \in TaskMaps(R)
      BY <1>2
    <3>3. [count |-> old[e].count, tasks |-> tasksOf(e)] \in AnnotationsOf(R)
      BY ONLY <3>1, <3>2 DEF AnnotationsOf
    <3>4. new[e] = [count |-> old[e].count, tasks |-> tasksOf(e)]
      BY <1>3
    <3>5. QED
      BY <3>3, <3>4
  <2>2. QED
    BY <1>4, <2>1
<1>6. new \in EdgeMaps(I, R)
  BY <1>1, <1>4, <1>5, EdgeMapIs
<1>7. QED
  BY <1>6 DEF new

(* The data of a process whose edges are annotated with ranks. *)
Processes(ranks) ==
  {d \in [names : NameLists, edges : EdgeMaps(Nat, ranks), current : Nat, last : Nat] :
     /\ d.edges \in EdgeMaps(DOMAIN d.names, ranks)
     /\ d.current \in DOMAIN d.names
     /\ d.last \in {NoId} \cup DOMAIN d.names}

(* A process's data, put together. *)
LEMMA ProcessIs ==
  ASSUME NEW ranks, NEW names \in NameLists, NEW edgesOf \in EdgeMaps(DOMAIN names, ranks),
         NEW current \in DOMAIN names, NEW last \in {NoId} \cup DOMAIN names
  PROVE  [names |-> names, edges |-> edgesOf, current |-> current, last |-> last]
           \in Processes(ranks)
<1>1. DOMAIN names \subseteq Nat
  BY DEF NameLists
<1>2. edgesOf \in EdgeMaps(Nat, ranks)
  BY <1>1, MapsGrow
<1>3. current \in Nat /\ last \in Nat
  BY <1>1 DEF NoId
<1>4. QED
  BY <1>2, <1>3 DEF Processes

(* The empty maps are maps. *)
LEMMA Empty ==
  ASSUME NEW I, NEW R
  PROVE  <<>> \in TaskMaps(R) /\ <<>> \in EdgeMaps(I, R) /\ Once \in AnnotationsOf(R)
<1>1. <<>> \in TaskMaps(R)
  <2>1. <<>> \in [{} -> SUBSET R]
    OBVIOUS
  <2>2. QED
    BY <2>1 DEF TaskMaps
<1>2. <<>> \in EdgeMaps(I, R)
  <2>1. <<>> \in [{} -> AnnotationsOf(R)]
    OBVIOUS
  <2>2. QED
    BY <2>1 DEF EdgeMaps
<1>3. QED
  BY <1>1, <1>2 DEF Once, NoTasks, AnnotationsOf

(* A process that has just started. *)
LEMMA LaunchedType ==
  ASSUME NEW ranks, NEW n \in Nat
  PROVE  Launched(n) \in Processes(ranks)
<1> DEFINE names == <<n>>
<1>1. names \in NameLists /\ DOMAIN names = {1}
  BY DEF NameLists, IsInjective
<1>2. <<>> \in EdgeMaps(DOMAIN names, ranks)
  BY Empty
<1>3. 1 \in DOMAIN names /\ NoId \in {NoId} \cup DOMAIN names
  BY <1>1
<1> HIDE DEF names
<1>4. [names |-> names, edges |-> <<>>, current |-> 1, last |-> NoId] \in Processes(ranks)
  BY <1>1, <1>2, <1>3, ProcessIs
<1>5. QED
  BY <1>4 DEF Launched, names

(* A transition more: the factory grows, the edges stay within it. *)
LEMMA RecordedType ==
  ASSUME NEW ranks, NEW d \in Processes(ranks), NEW n \in Nat
  PROVE  /\ Recorded(d, n) \in Processes(ranks)
         /\ Grown(Recorded(d, n).names, d.names)
<1> DEFINE names == Intern(d.names, n)
           state == IdOf(names, n)
<1>1. /\ d.names \in NameLists /\ d.edges \in EdgeMaps(DOMAIN d.names, ranks)
      /\ d.current \in DOMAIN d.names
  BY DEF Processes
<1>2. names \in NameLists /\ Grown(names, d.names) /\ n \in ToSet(names)
  BY <1>1, Interned
<1>3. Recorded(d, n) = [names |-> names,
                        edges |-> AddEdge(d.edges, <<d.current, state>>, Once),
                        current |-> state,
                        last |-> state]
  BY <1>1, <1>2, Ids DEF Recorded, NameLists
<1>4. state \in DOMAIN names
  <2> HIDE DEF names
  <2>1. QED
    BY <1>2, Ids
<1> HIDE DEF names, state
<1>5. DOMAIN d.names \subseteq DOMAIN names
  BY <1>2 DEF Grown
<1>6. d.edges \in EdgeMaps(DOMAIN names, ranks)
  BY <1>1, <1>5, MapsGrow
<1>7. <<d.current, state>> \in (DOMAIN names) \X (DOMAIN names)
  BY <1>1, <1>4, <1>5
<1>8. AddEdge(d.edges, <<d.current, state>>, Once) \in EdgeMaps(DOMAIN names, ranks)
  BY <1>6, <1>7, Empty, EdgeAdded
<1>9. Recorded(d, n) \in Processes(ranks)
  BY <1>2, <1>3, <1>4, <1>8, ProcessIs
<1>10. QED
  BY <1>2, <1>3, <1>9

-----------------------------------------------------------------------------
(***************************************************************************)
(* Trails, and what a process does with the edges of another.              *)
(***************************************************************************)

(* f is the data of a process after each of the first n calls of a trail. *)
Follows(f, trail, n) ==
  f = [k \in 1 .. n |-> IF k = 1 THEN Launched(trail[1]) ELSE Recorded(f[k - 1], trail[k])]

(* The recursive function of AfterTrail exists. *)
LEMMA TrailFollowed ==
  ASSUME NEW trail, NEW n \in Nat
  PROVE  \E f : Follows(f, trail, n)
<1> DEFINE Good == {l \in Nat : \E f : Follows(f, trail, l)}
           NextData(f, k) == IF k = 1 THEN Launched(trail[1]) ELSE Recorded(f[k - 1], trail[k])
<1>1. 0 \in Good
  <2>1. Follows([k \in 1 .. 0 |-> k], trail, 0)
    BY DEF Follows
  <2>2. QED
    BY <2>1
<1>2. ASSUME NEW l \in Nat, l \in Good PROVE l + 1 \in Good
  <2>1. PICK f : Follows(f, trail, l)
    BY <1>2
  <2>2. f = [k \in 1 .. l |-> NextData(f, k)]
    BY <2>1 DEF Follows
  <2> DEFINE g == [k \in 1 .. l + 1 |-> IF k \in 1 .. l THEN f[k] ELSE NextData(f, k)]
  <2>3. ASSUME NEW k \in 1 .. l + 1 PROVE g[k] = NextData(g, k)
    <3>1. g[k] = NextData(f, k)
      BY <2>2
    <3>2. k = 1 \/ (k - 1 \in 1 .. l /\ k - 1 \in 1 .. l + 1)
      OBVIOUS
    <3>3. k = 1 \/ g[k - 1] = f[k - 1]
      BY <3>2
    <3>4. QED
      BY <3>1, <3>3
  <2>4. g = [k \in 1 .. l + 1 |-> NextData(g, k)]
    <3>1. DOMAIN g = 1 .. l + 1 /\ g = [k \in 1 .. l + 1 |-> g[k]]
      OBVIOUS
    <3> HIDE DEF g, NextData
    <3>2. QED
      BY <2>3, <3>1
  <2>5. Follows(g, trail, l + 1)
    <3> HIDE DEF g
    <3>1. QED
      BY <2>4 DEF Follows
  <2>6. QED
    BY <2>5
<1> HIDE DEF Good
<1>3. n \in Good
  BY <1>1, <1>2, SetInduction
<1>4. QED
  BY <1>3 DEF Good

(* What a process has recorded before the hang. *)
LEMMA AfterTrailType ==
  ASSUME NEW ranks, NEW trail \in Seq(Nat), trail # <<>>
  PROVE  AfterTrail(trail) \in Processes(ranks)
<1> DEFINE n == Len(trail)
           after == CHOOSE f : f = [k \in DOMAIN trail |->
                      IF k = 1 THEN Launched(trail[1]) ELSE Recorded(f[k - 1], trail[k])]
<1>1. DOMAIN trail = 1 .. n /\ n \in Nat \ {0}
  OBVIOUS
<1>2. Follows(after, trail, n)
  <2>1. \E f : Follows(f, trail, n)
    BY <1>1, TrailFollowed
  <2>2. QED
    BY <1>1, <2>1 DEF Follows
<1>3. AfterTrail(trail) = after[n]
  BY DEF AfterTrail
<1> HIDE DEF after
<1>4. /\ after[1] = Launched(trail[1])
      /\ \A k \in 1 .. n : k # 1 => after[k] = Recorded(after[k - 1], trail[k])
  <2>1. \A k \in 1 .. n : after[k] = IF k = 1 THEN Launched(trail[1])
                                              ELSE Recorded(after[k - 1], trail[k])
    BY <1>2 DEF Follows
  <2>2. QED
    BY <1>1, <2>1
<1>5. \A k \in 1 .. n : trail[k] \in Nat
  BY <1>1
<1> HIDE DEF n
<1> DEFINE Good == {k \in Nat : k + 1 <= n => after[k + 1] \in Processes(ranks)}
<1>6. 0 \in Good
  BY <1>1, <1>4, <1>5, LaunchedType
<1>7. ASSUME NEW k \in Nat, k \in Good PROVE k + 1 \in Good
  <2> SUFFICES ASSUME k + 2 <= n PROVE after[k + 2] \in Processes(ranks)
    OBVIOUS
  <2>1. after[k + 1] \in Processes(ranks)
    BY <1>1, <1>7
  <2>2. k + 2 \in 1 .. n /\ k + 2 # 1 /\ (k + 2) - 1 = k + 1
    BY <1>1
  <2>3. after[k + 2] = Recorded(after[k + 1], trail[k + 2]) /\ trail[k + 2] \in Nat
    BY <1>4, <1>5, <2>2
  <2>4. QED
    BY <2>1, <2>3, RecordedType
<1> HIDE DEF Good
<1>8. Nat \subseteq Good
  BY <1>6, <1>7, SetInduction
<1>9. n - 1 \in Good
  BY <1>1, <1>8
<1>10. QED
  BY <1>1, <1>3, <1>9 DEF Good

-----------------------------------------------------------------------------
(* The edges a process sends, with the factory that explains their ids. *)
LEMMA FiniteEdges ==
  ASSUME NEW names \in NameLists, NEW R, NEW e \in EdgeMaps(DOMAIN names, R)
  PROVE  IsFiniteSet(DOMAIN e) /\ DOMAIN e \in SUBSET (Nat \X Nat)
<1> DEFINE I == DOMAIN names
<1>1. IsFiniteSet(I) /\ I \subseteq Nat
  <2>1. DOMAIN names = 1 .. Len(names) /\ Len(names) \in Nat
    BY Ids
  <2>2. QED
    BY <2>1, FS_Interval
<1> HIDE DEF I
<1>2. IsFiniteSet(I \X I)
  BY <1>1, FS_Product
<1>3. DOMAIN e \subseteq I \X I
  BY EdgeMapIs DEF I
<1>4. QED
  BY <1>1, <1>2, <1>3, FS_Subset

(* A remote process's names are listed as its edges mention them. *)
LEMMA NamesListed ==
  ASSUME NEW R, NEW remote, remote.names \in NameLists,
         remote.edges \in EdgeMaps(DOMAIN remote.names, R)
  PROVE  /\ NamesInOrder(remote) \in Seq(Nat)
         /\ \A x \in DOMAIN remote.edges : \A h \in {1, 2} :
              \E k \in DOMAIN NamesInOrder(remote) : NamesInOrder(remote)[k] = remote.names[x[h]]
<1> DEFINE names == remote.names
           e == remote.edges
           order == InOrder(DOMAIN e, EdgeBefore)
           n == Len(order)
           list == NamesInOrder(remote)
<1>1. order \in Seq(DOMAIN e) /\ ToSet(order) = DOMAIN e
  BY FiniteEdges, SortedEdges
<1>2. list = [k \in 1 .. 2 * n |-> names[order[(k + 1) \div 2][2 - (k % 2)]]]
  BY DEF NamesInOrder
<1> HIDE DEF order, list
<1>3. n \in Nat /\ DOMAIN order = 1 .. n /\ \A i \in 1 .. n : order[i] \in DOMAIN e
  BY <1>1
<1> HIDE DEF n
<1>4. \A x \in DOMAIN e : \A h \in {1, 2} : x[h] \in DOMAIN names
  BY EdgeMapIs
<1>5. \A i \in DOMAIN names : names[i] \in Nat
  BY DEF NameLists
<1>6. ASSUME NEW k \in 1 .. 2 * n
      PROVE  list[k] \in Nat
  <2>1. (k + 1) \div 2 \in 1 .. n /\ 2 - (k % 2) \in {1, 2}
    BY <1>3
  <2>2. order[(k + 1) \div 2] \in DOMAIN e
    BY <1>3, <2>1
  <2>3. order[(k + 1) \div 2][2 - (k % 2)] \in DOMAIN names
    BY <1>4, <2>1, <2>2
  <2>4. QED
    BY <1>2, <1>5, <2>3
<1>7. list \in Seq(Nat) /\ DOMAIN list = 1 .. 2 * n
  <2>1. list \in [1 .. 2 * n -> Nat]
    BY <1>2, <1>6
  <2>2. 2 * n \in Nat
    BY <1>3
  <2>3. QED
    BY <2>1, <2>2
<1>8. ASSUME NEW x \in DOMAIN e, NEW h \in {1, 2}
      PROVE  \E k \in DOMAIN list : list[k] = names[x[h]]
  <2>1. PICK i \in 1 .. n : order[i] = x
    BY <1>1, <1>3 DEF ToSet
  <2> DEFINE k == 2 * i + h - 2
  <2>2. k \in 1 .. 2 * n /\ (k + 1) \div 2 = i /\ 2 - (k % 2) = h
    <3>1. CASE h = 1
      BY <1>3, <3>1
    <3>2. CASE h = 2
      BY <1>3, <3>2
    <3>3. QED
      BY <3>1, <3>2
  <2>3. list[k] = names[x[h]]
    BY <1>2, <2>1, <2>2
  <2>4. QED
    BY <1>7, <2>2, <2>3
<1>9. QED
  BY <1>7, <1>8 DEF list

(* The edges of two processes in the factory of one. *)
LEMMA MergedType ==
  ASSUME NEW R, NEW Q,
         NEW own, own.names \in NameLists, own.edges \in EdgeMaps(DOMAIN own.names, R),
         NEW remote, remote.names \in NameLists,
         remote.edges \in EdgeMaps(DOMAIN remote.names, Q)
  PROVE  /\ Merged(own, remote).names \in NameLists
         /\ Grown(Merged(own, remote).names, own.names)
         /\ Merged(own, remote).edges \in EdgeMaps(DOMAIN Merged(own, remote).names, R \cup Q)
<1> DEFINE names == InternAll(own.names, NamesInOrder(remote))
           new == {Translated(names, remote, e) : e \in DOMAIN remote.edges}
           Received(edge) == CHOOSE e \in DOMAIN remote.edges : Translated(names, remote, e) = edge
           f == [edge \in DOMAIN own.edges \cup new |->
                   IF edge \notin new THEN own.edges[edge]
                   ELSE AddEdge(own.edges, edge, remote.edges[Received(edge)])[edge]]
           I == DOMAIN names
<1>1. Merged(own, remote) = [names |-> names, edges |-> f]
  BY DEF Merged
<1>2. /\ NamesInOrder(remote) \in Seq(Nat)
      /\ \A e \in DOMAIN remote.edges : \A h \in {1, 2} : \E k \in DOMAIN NamesInOrder(remote) :
           NamesInOrder(remote)[k] = remote.names[e[h]]
  BY NamesListed
<1>3. /\ names \in NameLists /\ Grown(names, own.names)
      /\ \A k \in DOMAIN NamesInOrder(remote) : NamesInOrder(remote)[k] \in ToSet(names)
  BY <1>2, AllInterned
<1>4. ASSUME NEW e \in DOMAIN remote.edges
      PROVE  Translated(names, remote, e) \in I \X I
  <2>1. /\ \E k \in DOMAIN NamesInOrder(remote) : NamesInOrder(remote)[k] = remote.names[e[1]]
        /\ \E k \in DOMAIN NamesInOrder(remote) : NamesInOrder(remote)[k] = remote.names[e[2]]
    BY <1>2
  <2>2. remote.names[e[1]] \in ToSet(names) /\ remote.names[e[2]] \in ToSet(names)
    BY <1>3, <2>1
  <2> HIDE DEF names
  <2>3. QED
    BY <1>3, <2>2, Ids DEF Translated
<1> HIDE DEF names
<1>5. new \subseteq I \X I
  BY <1>4
<1>6. ASSUME NEW edge \in new
      PROVE  Received(edge) \in DOMAIN remote.edges
  BY <1>6
<1>7. own.edges \in EdgeMaps(I, R \cup Q)
  BY <1>3, MapsGrow DEF Grown
<1>8. \A e \in DOMAIN remote.edges : remote.edges[e] \in AnnotationsOf(R \cup Q)
  <2>1. remote.edges \in EdgeMaps(DOMAIN remote.names, R \cup Q)
    BY MapsGrow
  <2>2. QED
    BY <2>1, EdgeMapIs
<1>9. DOMAIN own.edges \subseteq I \X I /\ \A e \in DOMAIN own.edges : own.edges[e] \in AnnotationsOf(R \cup Q)
  BY <1>7, EdgeMapIs
<1> HIDE DEF I
<1>10. ASSUME NEW edge \in new
       PROVE  AddEdge(own.edges, edge, remote.edges[Received(edge)])[edge] \in AnnotationsOf(R \cup Q)
  <2>1. remote.edges[Received(edge)] \in AnnotationsOf(R \cup Q) /\ edge \in I \X I
    BY <1>5, <1>6, <1>8
  <2> DEFINE g == AddEdge(own.edges, edge, remote.edges[Received(edge)])
  <2>2. g \in EdgeMaps(I, R \cup Q) /\ edge \in DOMAIN g
    BY <1>7, <2>1, EdgeAdded
  <2> HIDE DEF g
  <2>3. g[edge] \in AnnotationsOf(R \cup Q)
    BY <2>2, EdgeMapIs
  <2>4. QED
    BY <2>3 DEF g
<1> HIDE DEF new, Received
<1>11. DOMAIN f \subseteq I \X I
  BY <1>5, <1>9
<1>12. f \in [DOMAIN f -> AnnotationsOf(R \cup Q)]
  BY <1>9, <1>10
<1> HIDE DEF f
<1>13. f \in EdgeMaps(I, R \cup Q)
  BY <1>11, <1>12, EdgeMapIs
<1>14. QED
  BY <1>1, <1>3, <1>13 DEF I

(* Annotations with different ranks never overlap. *)
LEMMA NoOverlap ==
  ASSUME NEW R, NEW Q, R \cap Q = {},
         NEW own, own.names \in NameLists, own.edges \in EdgeMaps(DOMAIN own.names, R),
         NEW remote, remote.edges \in EdgeMaps(Nat, Q)
  PROVE  ~MergeOverlaps(own, remote)
<1> SUFFICES ASSUME NEW e \in DOMAIN remote.edges, NEW edge \in DOMAIN own.edges,
                    Overlaps(own.edges[edge], remote.edges[e])
             PROVE  FALSE
  BY DEF MergeOverlaps
<1>1. own.edges[edge] \in AnnotationsOf(R) /\ remote.edges[e] \in AnnotationsOf(Q)
  BY EdgeMapIs
<1>2. own.edges[edge].tasks \in TaskMaps(R) /\ remote.edges[e].tasks \in TaskMaps(Q)
  BY <1>1 DEF AnnotationsOf
<1>3. QED
  BY <1>2, TaskMapIs DEF Overlaps

-----------------------------------------------------------------------------
(***************************************************************************)
(* The table of task ranges, and the list of last states.                  *)
(***************************************************************************)

(* The ranks whose data process p holds at loop variable m. *)
Span(p, m) == {q \in Proc : p <= q /\ q < p + m}

(* The rows of a table for a set of ranks. *)
RowsOf(v, ranks) == [i \in {v[q].index : q \in ranks} |-> {q \in ranks : v[q].index = i}]
Gathered(v, rows, ranks) == (\A q \in ranks : v[q].index # 0) /\ rows = RowsOf(v, ranks)

(* A span doubles when the next child's data arrives. *)
LEMMA Spans ==
  ASSUME NEW p \in Proc
  PROVE  /\ Span(p, 1) = {p}
         /\ \A m \in Nat : /\ Span(p, m) \subseteq Proc
                           /\ p + m >= N => Span(p, 2 * m) = Span(p, m)
                           /\ Span(p, 2 * m) = Span(p, m) \cup Span(p + m, m)
                           /\ Span(p, m) \cap Span(p + m, m) = {}
         /\ \A m \in Nat : p = Root /\ m >= N => Span(p, m) = Proc
BY RanksAreRelative DEF Span, Proc

(* Rows of ranks are a map. *)
LEMMA RowsTyped ==
  ASSUME NEW v, NEW R, NEW ranks \in SUBSET R, \A q \in ranks : v[q].index \in Nat
  PROVE  RowsOf(v, ranks) \in TaskMaps(R)
<1> DEFINE t == RowsOf(v, ranks)
<1>1. DOMAIN t \subseteq Nat /\ t \in [DOMAIN t -> SUBSET R]
  BY DEF RowsOf
<1> HIDE DEF t
<1>2. t \in TaskMaps(R)
  BY <1>1, TaskMapIs
<1>3. QED
  BY <1>2 DEF t

(* The table of two sets of ranks. *)
LEMMA RowsUnited ==
  ASSUME NEW v, NEW S, NEW T
  PROVE  UnionTasks(RowsOf(v, S), RowsOf(v, T)) = RowsOf(v, S \cup T)
<1> DEFINE a == RowsOf(v, S)
           b == RowsOf(v, T)
           c == RowsOf(v, S \cup T)
           u == UnionTasks(a, b)
<1>1. /\ DOMAIN a = {v[q].index : q \in S} /\ \A i \in DOMAIN a : a[i] = {q \in S : v[q].index = i}
      /\ DOMAIN b = {v[q].index : q \in T} /\ \A i \in DOMAIN b : b[i] = {q \in T : v[q].index = i}
  BY DEF RowsOf
<1>2. /\ DOMAIN c = {v[q].index : q \in S \cup T}
      /\ c = [i \in DOMAIN c |-> {q \in S \cup T : v[q].index = i}]
  BY DEF RowsOf
<1>3. u = [i \in DOMAIN a \cup DOMAIN b |-> Entry(a, i, {}) \cup Entry(b, i, {})]
  BY DEF UnionTasks
<1> HIDE DEF a, b, c, u
<1>4. DOMAIN a \cup DOMAIN b = DOMAIN c
  BY <1>1, <1>2
<1>5. ASSUME NEW i
      PROVE  Entry(a, i, {}) = {q \in S : v[q].index = i} /\ Entry(b, i, {}) = {q \in T : v[q].index = i}
  BY <1>1 DEF Entry
<1>6. \A i \in DOMAIN c : Entry(a, i, {}) \cup Entry(b, i, {}) = {q \in S \cup T : v[q].index = i}
  BY <1>5
<1>7. u = c
  BY <1>2, <1>3, <1>4, <1>6
<1>8. QED
  BY <1>7 DEF a, b, c, u

(* Tables of disjoint sets of ranks do not overlap. *)
LEMMA RowsApart ==
  ASSUME NEW v, NEW S, NEW T, S \cap T = {}
  PROVE  ~TableOverlaps(RowsOf(v, S), RowsOf(v, T))
BY DEF TableOverlaps, RowsOf

(* The broadcast list for a set of names. *)
ByName(S) == InOrder(S, <)

(* A sequence of a subset. *)
LEMMA SeqWithin ==
  ASSUME NEW T, NEW S \in SUBSET T, NEW s \in Seq(S)
  PROVE  s \in Seq(T)
<1>1. Len(s) \in Nat /\ s \in [1 .. Len(s) -> T]
  OBVIOUS
<1>2. QED
  BY <1>1

(* The list of last states has each name once. *)
LEMMA ByNameLists ==
  ASSUME NEW S \in SUBSET Nat, IsFiniteSet(S)
  PROVE  ByName(S) \in NameLists /\ ToSet(ByName(S)) = S
<1>1. ByName(S) \in Seq(S) /\ ToSet(ByName(S)) = S /\ IsInjective(ByName(S))
  BY SortedNames DEF ByName
<1>2. ByName(S) \in Seq(Nat)
  BY <1>1, SeqWithin
<1>3. QED
  BY <1>1, <1>2 DEF NameLists

(* A process that learns the list of last states finds them all. *)
LEMMA ListTaken ==
  ASSUME NEW names \in NameLists, NEW S \in SUBSET Nat, IsFiniteSet(S),
         NEW list, list = ByName(S),
         NEW new, new = InternAll(names, list)
  PROVE  /\ list \in NameLists /\ ToSet(list) = S
         /\ new \in NameLists /\ Grown(new, names)
         /\ Ordered(new, list) \in Seq(Nat) /\ DOMAIN Ordered(new, list) = DOMAIN list
         /\ \A i \in DOMAIN list : /\ Ordered(new, list)[i] \in DOMAIN new
                                   /\ new[Ordered(new, list)[i]] = list[i]
<1>1. list \in Seq(Nat) /\ ToSet(list) = S /\ list \in NameLists
  BY ByNameLists DEF NameLists
<1>2. new \in NameLists /\ Grown(new, names) /\ \A i \in DOMAIN list : list[i] \in ToSet(new)
  BY <1>1, AllInterned
<1> DEFINE ordered == Ordered(new, list)
<1>3. ordered = [i \in DOMAIN list |-> IdOf(new, list[i])]
  BY <1>1 DEF Ordered, ByName
<1> HIDE DEF ordered
<1>4. \A i \in DOMAIN list : ordered[i] \in DOMAIN new /\ new[ordered[i]] = list[i]
  BY <1>2, <1>3, Ids
<1>5. DOMAIN new \subseteq Nat /\ DOMAIN list = 1 .. Len(list) /\ Len(list) \in Nat
  BY <1>1, <1>2, Ids
<1>6. ordered \in [1 .. Len(list) -> Nat] /\ DOMAIN ordered = DOMAIN list
  BY <1>3, <1>4, <1>5
<1>7. ordered \in Seq(Nat)
  BY <1>5, <1>6
<1>8. QED
  BY <1>1, <1>2, <1>4, <1>6, <1>7 DEF ordered

-----------------------------------------------------------------------------
(***************************************************************************)
(* The inductive invariant.  Its control part is above; the data part says *)
(* whose data each process holds, and what is on its way.                  *)
(***************************************************************************)

NameSets == {S \in SUBSET Nat : IsFiniteSet(S)}

DataTypes ==
  /\ noBarrier \in BOOLEAN /\ late \in 0 .. LateBudget
  /\ fault \in [Proc -> {"none", "last state unknown", "buffer too small"}]
  /\ arrived \subseteq Proc /\ atBarrier \subseteq Proc
  /\ data \in [Proc -> Processes(Proc)]
  /\ edges \in [Proc -> EdgeMaps(Nat, Proc)]
  /\ lastState \in [Proc -> Nat]
  /\ lastNames \in [Proc -> NameSets]
  /\ vector \in [Proc -> [states : Seq(Nat), index : Nat]]
  /\ table \in [Proc -> TaskMaps(Proc)]
  /\ \E S \in NameSets : cast = ByName(S)

(* Only process p annotates its own edges as p, and in the reduction of edges
   it has those of the ranks it stands for. *)
DataFit(p) ==
  /\ data[p] \in Processes({p})
  /\ lastState[p] \in {NoId} \cup DOMAIN data[p].names
  /\ edges[p] \in EdgeMaps(DOMAIN data[p].names, Proc)
  /\ phase[p] = "edges" => edges[p] \in EdgeMaps(DOMAIN data[p].names, Span(p, mask[p]))
  /\ phase[p] \notin Early => lastState[p] # NoId /\ lastNames[p] # {}

HaveList == {"copy", "edges", "newTable", "table", "barrier", "done"}
VectorFit(p) ==
  /\ vector[p].index # 0 <=> phase[p] \in HaveList
  /\ vector[p].index = 0 => vector[p].states = <<>>
  /\ vector[p].index # 0 =>
       /\ DOMAIN vector[p].states = DOMAIN cast
       /\ vector[p].index \in DOMAIN cast
       /\ vector[p].states[vector[p].index] = lastState[p]
       /\ \A i \in DOMAIN cast : /\ vector[p].states[i] \in DOMAIN data[p].names
                                 /\ data[p].names[vector[p].states[i]] = cast[i]

TableFit(p) ==
  IF phase[p] \in {"table", "barrier", "done"}
    THEN Gathered(vector, table[p], Span(p, mask[p]))
    ELSE table[p] = <<>>

(* The data a process sends is that of the ranks it stands for. *)
BodyFits(v, m, ranks) ==
  /\ m.phase = "states" => m.body \in NameSets
  /\ m.phase = "edges" => /\ m.body.names \in NameLists
                          /\ m.body.edges \in EdgeMaps(DOMAIN m.body.names, ranks)
  /\ m.phase = "table" => Gathered(v, m.body, ranks)
PayloadFits(s, d) ==
  \A k \in 1 .. Len(chan[<<s, d>>]) :
    chan[<<s, d>>][k].kind = "data" => BodyFits(vector, chan[<<s, d>>][k], Span(s, s - d))

CastFits == cast # <<>> <=> phase[Root] \in HaveList

Data ==
  /\ DataTypes
  /\ \A p \in Proc : DataFit(p) /\ VectorFit(p) /\ TableFit(p)
  /\ CastFits
  /\ \A s, d \in Proc : PayloadFits(s, d)

IInv == Control /\ Data

(* What a process sends has one of the types of message bodies. *)
LEMMA BodiesAreTyped == IInv => BodiesTyped
<1> SUFFICES ASSUME IInv, NEW p \in Proc, phase[p] \in Reductions PROVE Body(p) \in Bodies
  BY DEF BodiesTyped
<1>1. CASE phase[p] = "states"
  BY <1>1 DEF Body, Bodies, IInv, Data, DataTypes, NameSets
<1>2. CASE phase[p] = "edges"
  <2>1. data[p].names \in NameLists /\ edges[p] \in EdgeMaps(Nat, Proc)
    BY DEF IInv, Data, DataTypes, Processes
  <2>2. QED
    BY <1>2, <2>1 DEF Body, Bodies
<1>3. CASE phase[p] = "table"
  BY <1>3 DEF Body, Bodies, IInv, Data, DataTypes
<1>4. QED
  BY <1>1, <1>2, <1>3 DEF Reductions

(* The steps of one process. *)
StepOf(p) == RecordLate(p) \/ Advance(p) \/ Reduce(p) \/ SendStep(p) \/ (p = Root /\ Broadcast)

(* Every step of the analysis is a step of one process. *)
LEMMA Steps == ASSUME Next PROVE \E p \in Proc : StepOf(p)
BY RanksAreRelative DEF Next, StepOf

(* What the helper thread of one process does leaves the others alone. *)
LEMMA OthersKept ==
  ASSUME IInv, NEW p \in Proc, StepOf(p), NEW q \in Proc, q # p
  PROVE  /\ data'[q] = data[q] /\ phase'[q] = phase[q] /\ io'[q] = io[q] /\ mask'[q] = mask[q]
         /\ lastState'[q] = lastState[q] /\ lastNames'[q] = lastNames[q]
         /\ vector'[q] = vector[q] /\ edges'[q] = edges[q] /\ table'[q] = table[q]
         /\ fault'[q] = fault[q]
<1> USE DEF IInv, Control, ControlTypes, Data, DataTypes, GoTo, local, loop, collective
<1>1. CASE RecordLate(p)
  BY <1>1 DEF RecordLate
<1>2. CASE LeaveGather(p)
  BY <1>2 DEF LeaveGather
<1>3. CASE GetLastState(p)
  BY <1>3 DEF GetLastState
<1>4. CASE Annotate(p)
  BY <1>4 DEF Annotate
<1>5. CASE p = Root /\ Broadcast
  BY <1>5 DEF Broadcast, TakeList
<1>6. CASE ReceiveBroadcast(p)
  BY <1>6 DEF ReceiveBroadcast, TakeList
<1>7. CASE CopyEdges(p)
  BY <1>7 DEF CopyEdges
<1>8. CASE NewTable(p)
  BY <1>8 DEF NewTable
<1>9. CASE EnterBarrier(p) \/ LeaveBarrier(p)
  BY <1>9 DEF EnterBarrier, LeaveBarrier
<1>10. CASE Skip(p) \/ ReceiveSize(p) \/ SendSize(p) \/ LoopEnds(p)
  BY <1>10 DEF Skip, ReceiveSize, SendSize, LoopEnds
<1>11. CASE ReceiveData(p)
  <2>1. phase[p] \in Reductions
    BY <1>11 DEF ReceiveData, Reducing
  <2> DEFINE body == Head(chan[Incoming(p)]).body
  <2>2. CASE phase[p] = "states"
    <3>1. AddLastNames(p, body)
      BY <1>11, <2>2 DEF ReceiveData
    <3>2. QED
      BY <1>11, <3>1 DEF ReceiveData, AddLastNames
  <2>3. CASE phase[p] = "edges"
    <3>1. AddEdges(p, body)
      BY <1>11, <2>3 DEF ReceiveData
    <3>2. QED
      BY <1>11, <3>1 DEF ReceiveData, AddEdges
  <2>4. CASE phase[p] = "table"
    <3>1. AddRanks(p, body)
      BY <1>11, <2>4 DEF ReceiveData
    <3>2. QED
      BY <1>11, <3>1 DEF ReceiveData, AddRanks
  <2>5. QED
    BY <2>1, <2>2, <2>3, <2>4 DEF Reductions
<1>12. CASE SendData(p) \/ SendReturns(p)
  BY <1>12 DEF SendData, SendReturns
<1>13. QED
  BY <1>1, <1>2, <1>3, <1>4, <1>5, <1>6, <1>7, <1>8, <1>9, <1>10, <1>11, <1>12
  DEF StepOf, Advance, Reduce, SendStep

(* A step of one process keeps the domains. *)
LEMMA StillFunctions ==
  ASSUME IInv, NEW p \in Proc, StepOf(p)
  PROVE  /\ data' = [q \in Proc |-> data'[q]]
         /\ lastState' = [q \in Proc |-> lastState'[q]]
         /\ lastNames' = [q \in Proc |-> lastNames'[q]]
         /\ vector' = [q \in Proc |-> vector'[q]]
         /\ edges' = [q \in Proc |-> edges'[q]]
         /\ table' = [q \in Proc |-> table'[q]]
         /\ fault' = [q \in Proc |-> fault'[q]]
         /\ noBarrier' = noBarrier
<1> USE DEF IInv, Control, ControlTypes, Data, DataTypes, GoTo, local, loop, collective
<1>1. CASE RecordLate(p)
  BY <1>1 DEF RecordLate
<1>2. CASE LeaveGather(p)
  BY <1>2 DEF LeaveGather
<1>3. CASE GetLastState(p)
  BY <1>3 DEF GetLastState
<1>4. CASE Annotate(p)
  BY <1>4 DEF Annotate
<1>5. CASE p = Root /\ Broadcast
  BY <1>5 DEF Broadcast, TakeList
<1>6. CASE ReceiveBroadcast(p)
  BY <1>6 DEF ReceiveBroadcast, TakeList
<1>7. CASE CopyEdges(p)
  BY <1>7 DEF CopyEdges
<1>8. CASE NewTable(p)
  BY <1>8 DEF NewTable
<1>9. CASE EnterBarrier(p) \/ LeaveBarrier(p)
  BY <1>9 DEF EnterBarrier, LeaveBarrier
<1>10. CASE Skip(p) \/ ReceiveSize(p) \/ SendSize(p) \/ LoopEnds(p)
  BY <1>10 DEF Skip, ReceiveSize, SendSize, LoopEnds
<1>11. CASE ReceiveData(p)
  <2>1. phase[p] \in Reductions
    BY <1>11 DEF ReceiveData, Reducing
  <2> DEFINE body == Head(chan[Incoming(p)]).body
  <2>2. CASE phase[p] = "states"
    <3>1. AddLastNames(p, body)
      BY <1>11, <2>2 DEF ReceiveData
    <3>2. QED
      BY <1>11, <3>1 DEF ReceiveData, AddLastNames
  <2>3. CASE phase[p] = "edges"
    <3>1. AddEdges(p, body)
      BY <1>11, <2>3 DEF ReceiveData
    <3>2. QED
      BY <1>11, <3>1 DEF ReceiveData, AddEdges
  <2>4. CASE phase[p] = "table"
    <3>1. AddRanks(p, body)
      BY <1>11, <2>4 DEF ReceiveData
    <3>2. QED
      BY <1>11, <3>1 DEF ReceiveData, AddRanks
  <2>5. QED
    BY <2>1, <2>2, <2>3, <2>4 DEF Reductions
<1>12. CASE SendData(p) \/ SendReturns(p)
  <2>1. fault' = fault \/ fault' = [fault EXCEPT ![p] = "buffer too small"]
    BY <1>12 DEF SendData, SendReturns
  <2>2. UNCHANGED <<noBarrier, data, lastState, lastNames, vector, edges, table>>
    BY <1>12 DEF SendData, SendReturns
  <2>3. QED
    BY <2>1, <2>2
<1>13. QED
  BY <1>1, <1>2, <1>3, <1>4, <1>5, <1>6, <1>7, <1>8, <1>9, <1>10, <1>11, <1>12
  DEF StepOf, Advance, Reduce, SendStep

(* The body a process takes is of its phase, and of the ranks of the child
   it came from. *)
LEMMA Received ==
  ASSUME IInv, NEW p \in Proc, ReceiveData(p)
  PROVE  \E body :
           \/ /\ phase[p] = "states" /\ body \in NameSets
              /\ AddLastNames(p, body)
           \/ /\ phase[p] = "edges" /\ body.names \in NameLists
              /\ body.edges \in EdgeMaps(DOMAIN body.names, Span(p + mask[p], mask[p]))
              /\ AddEdges(p, body)
           \/ /\ phase[p] = "table" /\ Gathered(vector, body, Span(p + mask[p], mask[p]))
              /\ AddRanks(p, body)
<1> USE DEF IInv
<1> DEFINE r == p + mask[p]
           c == chan[<<r, p>>]
<1>1. phase[p] \in Reductions /\ io[p] = "receiving" /\ chan[Incoming(p)] # <<>>
  BY DEF ReceiveData, Reducing
<1>2. ~BitSet(p, mask[p]) /\ p + mask[p] < N
  BY <1>1 DEF Control, MasksFit
<1>3. /\ Incoming(p) = <<r, p>> /\ r \in Proc /\ r - p = mask[p] /\ TreeEdge(r, p)
      /\ TakenFrom(r, p) = Earlier(phase[p]) + 1
  BY <1>1, <1>2, ReceivingEdge
<1> HIDE DEF r
<1>4. c \in Seq(Wire) /\ c # <<>> /\ InOrderFrom(c, TakenFrom(r, p))
  BY <1>1, <1>3, ChannelsOf
<1>5. Head(c) = c[1] /\ 1 \in 1 .. Len(c)
  BY <1>4
<1>6. IsMessage(c[1], Earlier(phase[p]) + 2)
  <2>1. IsMessage(c[1], TakenFrom(r, p) + 1)
    BY <1>4, <1>5 DEF InOrderFrom
  <2>2. Earlier(phase[p]) \in {0, 2, 4}
    BY <1>1, EarlierType
  <2>3. TakenFrom(r, p) + 1 = Earlier(phase[p]) + 2
    BY <1>3, <2>2
  <2>4. QED
    BY <2>1, <2>3
<1>7. c[1].kind = "data" /\ c[1].phase = phase[p]
  <2>1. \/ phase[p] = "states" /\ Earlier(phase[p]) = 0
        \/ phase[p] = "edges" /\ Earlier(phase[p]) = 2
        \/ phase[p] = "table" /\ Earlier(phase[p]) = 4
    BY <1>1 DEF Reductions, Earlier, Early
  <2>2. QED
    BY <1>6, <2>1 DEF IsMessage
<1>8. BodyFits(vector, c[1], Span(r, mask[p]))
  <2>1. PayloadFits(r, p)
    BY <1>3 DEF Data
  <2>2. QED
    BY <1>3, <1>5, <1>7, <2>1 DEF PayloadFits
<1>9. /\ phase[p] = "states" => AddLastNames(p, c[1].body)
      /\ phase[p] = "edges" => AddEdges(p, c[1].body)
      /\ phase[p] = "table" => AddRanks(p, c[1].body)
  <2>1. Head(chan[Incoming(p)]).body = c[1].body
    BY <1>3, <1>5
  <2>2. QED
    BY <2>1 DEF ReceiveData
<1>10. QED
  BY <1>1, <1>7, <1>8, <1>9 DEF BodyFits, Reductions, r

-----------------------------------------------------------------------------
(***************************************************************************)
(* What a step changes: factories and the list of last states.             *)
(***************************************************************************)

(* A larger factory does not disturb the rest of a process's data. *)
LEMMA ProcessGrown ==
  ASSUME NEW ranks, NEW d \in Processes(ranks), NEW names \in NameLists, Grown(names, d.names)
  PROVE  [d EXCEPT !.names = names] \in Processes(ranks)
<1>1. /\ d = [names |-> d.names, edges |-> d.edges, current |-> d.current, last |-> d.last]
      /\ d.edges \in EdgeMaps(DOMAIN d.names, ranks) /\ d.current \in DOMAIN d.names
      /\ d.last \in {NoId} \cup DOMAIN d.names
  BY DEF Processes
<1>2. DOMAIN d.names \subseteq DOMAIN names
  BY DEF Grown
<1>3. d.edges \in EdgeMaps(DOMAIN names, ranks)
  BY <1>1, <1>2, MapsGrow
<1>4. [d EXCEPT !.names = names]
        = [names |-> names, edges |-> d.edges, current |-> d.current, last |-> d.last]
  BY <1>1
<1>5. d.current \in DOMAIN names /\ d.last \in {NoId} \cup DOMAIN names
  BY <1>1, <1>2
<1>6. QED
  BY <1>3, <1>4, <1>5, ProcessIs

(* TakeList, when the list is that of a set of names. *)
LEMMA ListOfCast ==
  ASSUME IInv, NEW p \in Proc, TakeList(p, cast'),
         \E S \in NameSets : cast' = ByName(S)
  PROVE  LET names == InternAll(data[p].names, cast')
             states == Ordered(names, cast')
         IN /\ names \in NameLists /\ Grown(names, data[p].names)
            /\ states \in Seq(Nat) /\ DOMAIN states = DOMAIN cast'
            /\ \A i \in DOMAIN cast' : /\ states[i] \in DOMAIN names
                                       /\ names[states[i]] = cast'[i]
            /\ data' = [data EXCEPT ![p].names = names]
            /\ phase' = [phase EXCEPT ![p] = "copy"]
            /\ \E i \in DOMAIN states :
                 /\ states[i] = lastState[p]
                 /\ vector' = [vector EXCEPT ![p] = [states |-> states, index |-> i]]
<1>1. data[p].names \in NameLists
  BY DEF IInv, Data, DataTypes, Processes
<1>2. PICK S \in NameSets : cast' = ByName(S)
  OBVIOUS
<1> DEFINE names == InternAll(data[p].names, cast')
           states == Ordered(names, cast')
<1>3. /\ data' = [data EXCEPT ![p].names = names]
      /\ phase' = [phase EXCEPT ![p] = "copy"]
      /\ \E i \in DOMAIN states :
           /\ states[i] = lastState[p]
           /\ vector' = [vector EXCEPT ![p] = [states |-> states, index |-> i]]
  BY DEF TakeList, GoTo
<1>4. S \in SUBSET Nat /\ IsFiniteSet(S)
  BY DEF NameSets
<1>5. /\ names \in NameLists /\ Grown(names, data[p].names)
      /\ states \in Seq(Nat) /\ DOMAIN states = DOMAIN cast'
      /\ \A i \in DOMAIN cast' : /\ states[i] \in DOMAIN names
                                 /\ names[states[i]] = cast'[i]
  <2> DEFINE list == cast'
  <2>1. list = ByName(S)
    BY <1>2
  <2> HIDE DEF list
  <2>2. QED
    BY <1>1, <1>2, <1>4, ListTaken
<1>6. QED
  BY <1>3, <1>5

(* The two ways to take the list. *)
Takes(p) == (p = Root /\ Broadcast) \/ ReceiveBroadcast(p)

(* The list a process takes is such a list. *)
LEMMA CastOfTakes ==
  ASSUME IInv, NEW p \in Proc, Takes(p)
  PROVE  /\ TakeList(p, cast') /\ \E S \in NameSets : cast' = ByName(S)
         /\ phase[p] = "bcast" /\ cast' # <<>>
         /\ cast # <<>> => cast' = cast
         /\ UNCHANGED <<lastState, lastNames, edges, table, mask, chan, io>>
<1>1. CASE p = Root /\ Broadcast
  <2>1. cast' = ByName(lastNames[Root]) /\ lastNames[Root] \in NameSets /\ phase[Root] = "bcast"
    BY <1>1 DEF Broadcast, ByName, IInv, Data, DataTypes, In
  <2>2. lastNames[Root] # {} /\ cast = <<>>
    BY <1>1, <2>1 DEF IInv, Data, DataFit, Early, CastFits, HaveList
  <2>3. ToSet(cast') = lastNames[Root]
    BY <2>1, ByNameLists DEF NameSets
  <2>4. cast' # <<>>
    BY <2>2, <2>3 DEF ToSet
  <2>5. TakeList(p, cast')
    BY <1>1 DEF Broadcast
  <2>6. UNCHANGED <<lastState, lastNames, edges, table, mask, chan, io>>
    BY <1>1 DEF Broadcast, loop
  <2>7. QED
    BY <1>1, <2>1, <2>2, <2>4, <2>5, <2>6
<1>2. CASE ReceiveBroadcast(p)
  <2>1. cast' = cast /\ cast # <<>> /\ phase[p] = "bcast"
    BY <1>2 DEF ReceiveBroadcast, collective, In
  <2>2. TakeList(p, cast')
    BY <1>2, <2>1 DEF ReceiveBroadcast
  <2>3. UNCHANGED <<lastState, lastNames, edges, table, mask, chan, io>>
    BY <1>2 DEF ReceiveBroadcast, loop
  <2>4. QED
    BY <2>1, <2>2, <2>3 DEF IInv, Data, DataTypes
<1>3. QED
  BY <1>1, <1>2 DEF Takes

(* A factory only grows, and stays one. *)
LEMMA NamesGrow ==
  ASSUME IInv, NEW p \in Proc, StepOf(p)
  PROVE  data'[p] \in Processes({p}) /\ Grown(data'[p].names, data[p].names)
<1>1. /\ data[p] \in Processes({p}) /\ data \in [Proc -> Processes(Proc)]
      /\ data[p].names \in NameLists
  BY DEF IInv, Data, DataFit, DataTypes, Processes
<1>2. Grown(data[p].names, data[p].names)
  BY DEF Grown
<1>3. CASE data' = data
  BY <1>1, <1>2, <1>3
<1>4. CASE RecordLate(p)
  <2>1. PICK n \in LateNames : data' = [data EXCEPT ![p] = Recorded(@, n)]
    BY <1>4 DEF RecordLate
  <2>2. data'[p] = Recorded(data[p], n) /\ n \in Nat
    BY <1>1, <2>1, AnalysisAssumption
  <2>3. QED
    BY <1>1, <2>2, RecordedType
<1>5. CASE Annotate(p)
  <2>1. data' = [data EXCEPT ![p].edges = Annotated(@, p)]
    BY <1>5 DEF Annotate
  <2>2. data'[p] = [data[p] EXCEPT !.edges = Annotated(data[p].edges, p)]
    BY <1>1, <2>1
  <2>3. data[p].edges \in EdgeMaps(DOMAIN data[p].names, {p})
    BY <1>1 DEF Processes
  <2>4. Annotated(data[p].edges, p) \in EdgeMaps(DOMAIN data[p].names, {p})
    BY <2>3, AnnotatedType
  <2>5. data'[p] = [names |-> data[p].names, edges |-> Annotated(data[p].edges, p),
                    current |-> data[p].current, last |-> data[p].last]
        /\ data[p].current \in DOMAIN data[p].names
        /\ data[p].last \in {NoId} \cup DOMAIN data[p].names
    BY <1>1, <2>2 DEF Processes
  <2>6. data'[p] \in Processes({p})
    BY <1>1, <2>4, <2>5, ProcessIs
  <2>7. QED
    BY <1>2, <2>5, <2>6
<1>6. ASSUME NEW names \in NameLists, Grown(names, data[p].names),
             data' = [data EXCEPT ![p].names = names]
      PROVE  data'[p] \in Processes({p}) /\ Grown(data'[p].names, data[p].names)
  <2>1. data'[p] = [data[p] EXCEPT !.names = names] /\ data'[p].names = names
    BY <1>1, <1>6 DEF Processes
  <2>2. QED
    BY <1>1, <1>6, <2>1, ProcessGrown
<1>7. CASE Takes(p)
  <2>1. PICK names \in NameLists : /\ Grown(names, data[p].names)
                                   /\ data' = [data EXCEPT ![p].names = names]
    BY <1>7, CastOfTakes, ListOfCast
  <2>2. QED
    BY <1>6, <2>1
<1>8. CASE ReceiveData(p)
  <2>1. PICK body :
           \/ phase[p] = "states" /\ body \in NameSets /\ AddLastNames(p, body)
           \/ /\ phase[p] = "edges" /\ body.names \in NameLists
              /\ body.edges \in EdgeMaps(DOMAIN body.names, Span(p + mask[p], mask[p]))
              /\ AddEdges(p, body)
           \/ phase[p] = "table" /\ AddRanks(p, body)
    BY <1>8, Received
  <2>2. CASE phase[p] = "states" /\ body \in NameSets /\ AddLastNames(p, body)
    <3>1. ByName(body) \in Seq(Nat)
      BY <2>2, ByNameLists DEF NameSets, NameLists
    <3>2. data' = [data EXCEPT ![p].names = InternAll(data[p].names, ByName(body))]
      BY <2>2 DEF AddLastNames, ByName
    <3>3. /\ InternAll(data[p].names, ByName(body)) \in NameLists
          /\ Grown(InternAll(data[p].names, ByName(body)), data[p].names)
      BY <1>1, <3>1, AllInterned
    <3>4. QED
      BY <1>6, <3>2, <3>3
  <2>3. CASE /\ body.names \in NameLists
             /\ body.edges \in EdgeMaps(DOMAIN body.names, Span(p + mask[p], mask[p]))
             /\ AddEdges(p, body)
    <3> DEFINE own == [names |-> data[p].names, edges |-> edges[p]]
    <3>1. own.names \in NameLists /\ own.edges \in EdgeMaps(DOMAIN own.names, Proc)
      BY <1>1 DEF IInv, Data, DataFit
    <3>2. data' = [data EXCEPT ![p].names = Merged(own, body).names]
      BY <2>3 DEF AddEdges
    <3> HIDE DEF own
    <3>3. Merged(own, body).names \in NameLists /\ Grown(Merged(own, body).names, own.names)
      BY <2>3, <3>1, MergedType
    <3>4. own.names = data[p].names
      BY DEF own
    <3>5. QED
      BY <1>6, <3>2, <3>3, <3>4
  <2>4. CASE AddRanks(p, body)
    BY <1>3, <2>4 DEF AddRanks
  <2>5. QED
    BY <2>1, <2>2, <2>3, <2>4
<1>9. ASSUME Reduce(p) \/ SendStep(p) \/ Advance(p), ~Annotate(p), ~Takes(p), ~ReceiveData(p)
      PROVE  data' = data
  BY <1>9 DEF Reduce, SendStep, Advance, Skip, ReceiveSize, SendSize, LoopEnds, SendData,
     SendReturns, LeaveGather, GetLastState, CopyEdges, NewTable, EnterBarrier, LeaveBarrier, Takes, local
<1>10. QED
  BY <1>3, <1>4, <1>5, <1>7, <1>8, <1>9 DEF StepOf, Takes

-----------------------------------------------------------------------------
(***************************************************************************)
(* Each step keeps the data of its process in shape.                       *)
(***************************************************************************)

(* Nothing of p's data but its factory is disturbed. *)
LEMMA DataFitKept ==
  ASSUME IInv, NEW p \in Proc, StepOf(p),
         lastState'[p] = lastState[p], edges'[p] = edges[p],
         phase'[p] = "edges" => phase[p] = "edges" /\ Span(p, mask'[p]) = Span(p, mask[p]),
         phase'[p] \notin Early => lastState'[p] # NoId /\ lastNames'[p] # {}
  PROVE  DataFit(p)'
<1>1. data'[p] \in Processes({p}) /\ Grown(data'[p].names, data[p].names)
  BY NamesGrow
<1>2. DataFit(p)
  BY DEF IInv, Data
<1>3. DOMAIN data[p].names \subseteq DOMAIN data'[p].names
  BY <1>1 DEF Grown
<1>4. edges[p] \in EdgeMaps(DOMAIN data'[p].names, Proc)
  BY <1>2, <1>3, MapsGrow DEF DataFit
<1>5. phase'[p] = "edges" => edges[p] \in EdgeMaps(DOMAIN data'[p].names, Span(p, mask'[p]))
  BY <1>2, <1>3, MapsGrow DEF DataFit
<1>6. QED
  BY <1>1, <1>2, <1>3, <1>4, <1>5 DEF DataFit

(* A step of p keeps p's data in shape. *)
LEMMA DataFitStep ==
  ASSUME IInv, NEW p \in Proc, StepOf(p)
  PROVE  DataFit(p)'
<1> USE DEF GoTo, In
<1>1. DataFit(p) /\ p \in Nat /\ mask[p] \in Nat
  BY MaskOf, MaskType DEF IInv, Data
<1>2. /\ phase \in [Proc -> Phases] /\ lastState \in [Proc -> Nat] /\ lastNames \in [Proc -> NameSets]
      /\ edges \in [Proc -> EdgeMaps(Nat, Proc)] /\ data \in [Proc -> Processes(Proc)]
      /\ mask \in [Proc -> Masks]
  BY DEF IInv, Control, ControlTypes, Data, DataTypes
<1>3. CASE RecordLate(p) \/ EnterBarrier(p) \/ ReceiveSize(p) \/ SendSize(p) \/ SendData(p)
  <2>1. UNCHANGED <<phase, mask, lastState, lastNames, edges>>
    BY <1>3 DEF RecordLate, EnterBarrier, ReceiveSize, SendSize, SendData, loop, local
  <2>2. QED
    BY <1>1, <2>1, DataFitKept DEF DataFit
<1>4. CASE LeaveGather(p)
  <2>1. UNCHANGED <<lastState, edges>> /\ phase'[p] = "lastState"
    BY <1>2, <1>4 DEF LeaveGather, local
  <2>2. QED
    BY <1>1, <2>1, DataFitKept DEF DataFit, Early
<1>5. CASE LeaveBarrier(p) \/ LoopEnds(p) \/ SendReturns(p)
  <2>1. UNCHANGED <<lastState, lastNames, edges>>
    BY <1>5 DEF LeaveBarrier, LoopEnds, SendReturns, local
  <2>2. phase'[p] # "edges" /\ phase[p] \notin Early
    BY <1>2, <1>5 DEF LeaveBarrier, LoopEnds, SendReturns, Reducing, Reductions, After, Early
  <2>3. QED
    BY <1>1, <2>1, <2>2, DataFitKept DEF DataFit
<1>6. CASE GetLastState(p)
  <2>1. /\ lastState'[p] = data[p].last /\ phase'[p] = "annotate"
        /\ UNCHANGED <<data, edges>>
    BY <1>2, <1>6 DEF GetLastState
  <2>2. QED
    BY <1>1, <2>1 DEF DataFit, Early, Processes
<1>7. CASE Annotate(p)
  <2>1. UNCHANGED <<lastState, edges>>
    BY <1>7 DEF Annotate
  <2>2. CASE lastState[p] = NoId
    <3>1. UNCHANGED phase
      BY <1>7, <2>2 DEF Annotate
    <3>2. QED
      BY <1>7, <2>1, <3>1, DataFitKept DEF Early, Annotate
  <2>3. CASE lastState[p] # NoId
    <3>1. phase'[p] = "states" /\ lastNames'[p] # {}
      BY <1>2, <1>7, <2>3 DEF Annotate
    <3>2. QED
      BY <2>1, <2>3, <3>1, DataFitKept
  <2>4. QED
    BY <2>2, <2>3
<1>8. CASE Takes(p)
  <2>1. UNCHANGED <<lastState, lastNames, edges>> /\ phase[p] = "bcast"
    BY <1>8, CastOfTakes
  <2>2. phase'[p] = "copy"
    BY <1>2, <1>8, CastOfTakes, ListOfCast
  <2>3. QED
    BY <1>1, <2>1, <2>2, DataFitKept DEF DataFit, Early
<1>9. CASE CopyEdges(p)
  <2>1. /\ edges'[p] = data[p].edges /\ mask'[p] = 1 /\ phase'[p] = "edges"
        /\ UNCHANGED <<data, lastState, lastNames>> /\ phase[p] \notin Early
    BY <1>2, <1>9 DEF CopyEdges, Early
  <2>2. edges'[p] \in EdgeMaps(DOMAIN data[p].names, Span(p, 1))
    BY <1>1, <2>1, Spans DEF DataFit, Processes
  <2>3. edges'[p] \in EdgeMaps(DOMAIN data[p].names, Proc)
    BY <2>2, Spans, MapsGrow
  <2>4. QED
    BY <1>1, <2>1, <2>2, <2>3 DEF DataFit
<1>10. CASE NewTable(p)
  <2>1. UNCHANGED <<lastState, lastNames, edges>> /\ phase'[p] = "table" /\ phase[p] \notin Early
    BY <1>2, <1>10 DEF NewTable, Early
  <2>2. QED
    BY <1>1, <2>1, DataFitKept DEF DataFit
<1>11. CASE Skip(p)
  <2>1. UNCHANGED <<phase, lastState, lastNames, edges>> /\ mask'[p] = 2 * mask[p] /\ p + mask[p] >= N
    BY <1>2, <1>11, RanksAreRelative DEF Skip, local, Source
  <2>2. Span(p, mask'[p]) = Span(p, mask[p])
    BY <1>1, <2>1, Spans
  <2>3. QED
    BY <1>1, <2>1, <2>2, DataFitKept DEF DataFit
<1>12. CASE ReceiveData(p)
  <2>1. PICK body :
           \/ phase[p] = "states" /\ body \in NameSets /\ AddLastNames(p, body)
           \/ /\ phase[p] = "edges" /\ body.names \in NameLists
              /\ body.edges \in EdgeMaps(DOMAIN body.names, Span(p + mask[p], mask[p]))
              /\ AddEdges(p, body)
           \/ phase[p] = "table" /\ AddRanks(p, body)
    BY <1>12, Received
  <2>2. UNCHANGED <<phase, lastState>> /\ mask'[p] = 2 * mask[p]
    BY <1>2, <1>12 DEF ReceiveData
  <2>3. CASE phase[p] = "states" /\ AddLastNames(p, body)
    <3>1. lastNames[p] \subseteq lastNames'[p] /\ UNCHANGED edges
      BY <1>2, <2>3 DEF AddLastNames
    <3>2. QED
      BY <1>1, <2>2, <2>3, <3>1, DataFitKept DEF DataFit
  <2>4. CASE phase[p] = "table" /\ AddRanks(p, body)
    <3>1. UNCHANGED <<lastNames, edges>>
      BY <2>4 DEF AddRanks
    <3>2. QED
      BY <1>1, <2>2, <2>4, <3>1, DataFitKept DEF DataFit
  <2>5. CASE /\ phase[p] = "edges" /\ body.names \in NameLists
             /\ body.edges \in EdgeMaps(DOMAIN body.names, Span(p + mask[p], mask[p]))
             /\ AddEdges(p, body)
    <3> DEFINE own == [names |-> data[p].names, edges |-> edges[p]]
    <3>1. /\ edges' = [edges EXCEPT ![p] = Merged(own, body).edges]
          /\ data' = [data EXCEPT ![p].names = Merged(own, body).names]
          /\ UNCHANGED lastNames
      BY <2>5 DEF AddEdges
    <3>2. edges'[p] = Merged(own, body).edges /\ data'[p].names = Merged(own, body).names
      BY <1>2, <3>1 DEF Processes
    <3>3. /\ own.names \in NameLists /\ own.edges \in EdgeMaps(DOMAIN own.names, Span(p, mask[p]))
      BY <1>1, <2>5 DEF DataFit, Processes
    <3> HIDE DEF own
    <3>4. edges'[p] \in EdgeMaps(DOMAIN data'[p].names, Span(p, mask[p]) \cup Span(p + mask[p], mask[p]))
      BY <2>5, <3>2, <3>3, MergedType
    <3>5. Span(p, mask'[p]) = Span(p, mask[p]) \cup Span(p + mask[p], mask[p])
          /\ Span(p, mask'[p]) \subseteq Proc
      BY <1>1, <2>2, Spans
    <3>6. edges'[p] \in EdgeMaps(DOMAIN data'[p].names, Span(p, mask'[p]))
      BY <3>4, <3>5
    <3>7. edges'[p] \in EdgeMaps(DOMAIN data'[p].names, Proc)
      BY <3>5, <3>6, MapsGrow
    <3>8. data'[p] \in Processes({p}) /\ Grown(data'[p].names, data[p].names)
      BY NamesGrow
    <3>9. QED
      BY <1>1, <2>2, <3>1, <3>6, <3>7, <3>8 DEF DataFit, Grown
  <2>6. QED
    BY <2>1, <2>3, <2>4, <2>5
<1>13. QED
  BY <1>3, <1>4, <1>5, <1>6, <1>7, <1>8, <1>9, <1>10, <1>11, <1>12
  DEF StepOf, Advance, Reduce, SendStep, Takes

-----------------------------------------------------------------------------
(***************************************************************************)
(* Each step keeps the vectors, the list and the tables.                   *)
(***************************************************************************)

(* Only the steps that take the list change it, and the vector. *)
LEMMA ListKept ==
  ASSUME IInv, NEW p \in Proc, StepOf(p), ~Takes(p)
  PROVE  /\ cast' = cast /\ vector' = vector
         /\ phase'[p] \in HaveList <=> phase[p] \in HaveList
         /\ vector[p].index # 0 => lastState'[p] = lastState[p]
<1> USE DEF GoTo, In, local, collective, HaveList
<1>1. /\ phase \in [Proc -> Phases] /\ lastState \in [Proc -> Nat]
      /\ vector[p].index # 0 => phase[p] \in HaveList
  BY DEF IInv, Control, ControlTypes, Data, DataTypes, VectorFit
<1>2. CASE RecordLate(p) \/ EnterBarrier(p) \/ Skip(p) \/ ReceiveSize(p) \/ ReceiveData(p) \/ SendSize(p) \/ SendData(p)
  BY <1>2 DEF RecordLate, EnterBarrier, Skip, ReceiveSize, ReceiveData, SendSize, SendData
<1>3. CASE LoopEnds(p) \/ SendReturns(p)
  <2>1. phase[p] \in Reductions /\ phase'[p] = After(phase[p]) /\ UNCHANGED <<cast, vector, lastState>>
    BY <1>1, <1>3 DEF LoopEnds, SendReturns, Reducing
  <2>2. QED
    BY <2>1 DEF Reductions, After
<1>4. CASE LeaveGather(p) \/ GetLastState(p) \/ Annotate(p)
  BY <1>1, <1>4 DEF LeaveGather, GetLastState, Annotate
<1>5. CASE CopyEdges(p) \/ NewTable(p) \/ LeaveBarrier(p)
  BY <1>1, <1>5 DEF CopyEdges, NewTable, LeaveBarrier
<1>6. QED
  BY <1>2, <1>3, <1>4, <1>5 DEF StepOf, Advance, Reduce, SendStep, Takes

(* Once set, a process's vector and the list stay. *)
LEMMA VectorsKept ==
  ASSUME IInv, NEW p \in Proc, StepOf(p)
  PROVE  /\ \A q \in Proc : vector[q].index # 0 => vector'[q] = vector[q]
         /\ cast # <<>> => cast' = cast
         /\ \A q \in Proc : vector[q].index # 0 => cast # <<>>
<1>1. ASSUME NEW q \in Proc, vector[q].index # 0 PROVE cast # <<>>
  BY <1>1 DEF IInv, Data, VectorFit
<1>2. CASE Takes(p)
  <2>1. phase[p] = "bcast" /\ (cast # <<>> => cast' = cast)
    BY <1>2, CastOfTakes
  <2>2. vector[p].index = 0
    BY <2>1 DEF IInv, Data, VectorFit, HaveList
  <2>3. QED
    BY <1>1, <2>1, <2>2, OthersKept
<1>3. CASE ~Takes(p)
  BY <1>1, <1>3, ListKept
<1>4. QED
  BY <1>2, <1>3

(* Each process's vector stays the list, in its own ids. *)
LEMMA VectorFitStep ==
  ASSUME IInv, NEW p \in Proc, StepOf(p), NEW q \in Proc
  PROVE  VectorFit(q)'
<1>1. VectorFit(q)
  BY DEF IInv, Data
<1>2. vector[q].index # 0 => vector'[q] = vector[q] /\ cast' = cast
  BY VectorsKept
<1>3. ASSUME /\ vector'[q] = vector[q]
             /\ phase'[q] \in HaveList <=> phase[q] \in HaveList
             /\ vector[q].index # 0 => lastState'[q] = lastState[q]
             /\ Grown(data'[q].names, data[q].names)
      PROVE  VectorFit(q)'
  BY <1>1, <1>2, <1>3 DEF VectorFit, Grown
<1>4. CASE q # p
  <2>1. Grown(data'[q].names, data[q].names)
    BY <1>4, OthersKept DEF Grown
  <2>2. QED
    BY <1>3, <1>4, <2>1, OthersKept
<1>5. CASE q = p /\ ~Takes(p)
  BY <1>3, <1>5, ListKept, NamesGrow
<1>6. CASE q = p /\ Takes(p)
  <2> DEFINE names == InternAll(data[p].names, cast')
             states == Ordered(names, cast')
  <2>1. /\ states \in Seq(Nat) /\ DOMAIN states = DOMAIN cast'
        /\ \A i \in DOMAIN cast' : states[i] \in DOMAIN names /\ names[states[i]] = cast'[i]
        /\ data' = [data EXCEPT ![p].names = names]
        /\ phase' = [phase EXCEPT ![p] = "copy"]
        /\ \E i \in DOMAIN states :
             /\ states[i] = lastState[p]
             /\ vector' = [vector EXCEPT ![p] = [states |-> states, index |-> i]]
    BY <1>6, CastOfTakes, ListOfCast
  <2>2. lastState'[p] = lastState[p]
    BY <1>6, CastOfTakes
  <2> HIDE DEF names, states
  <2>3. PICK i \in DOMAIN states :
             /\ states[i] = lastState[p]
             /\ vector' = [vector EXCEPT ![p] = [states |-> states, index |-> i]]
    BY <2>1
  <2>4. vector'[p] = [states |-> states, index |-> i] /\ phase'[p] = "copy" /\ data'[p].names = names
    <3>1. /\ phase \in [Proc -> Phases] /\ data \in [Proc -> Processes(Proc)]
          /\ vector \in [Proc -> [states : Seq(Nat), index : Nat]]
      BY DEF IInv, Control, ControlTypes, Data, DataTypes
    <3>2. data'[p].names = names
      BY <2>1, <3>1 DEF Processes
    <3>3. vector'[p] = [states |-> states, index |-> i]
      BY ONLY <2>3, <3>1
    <3>4. QED
      BY <2>1, <3>1, <3>2, <3>3
  <2>5. i # 0
    BY <2>1
  <2>6. QED
    BY <1>6, <2>1, <2>2, <2>3, <2>4, <2>5 DEF VectorFit, HaveList
<1>7. QED
  BY <1>4, <1>5, <1>6

(* The list is there once the root has gone on. *)
LEMMA CastFitsStep ==
  ASSUME IInv, NEW p \in Proc, StepOf(p)
  PROVE  CastFits' /\ \E S \in NameSets : cast' = ByName(S)
<1>1. CastFits /\ (\E S \in NameSets : cast = ByName(S)) /\ phase \in [Proc -> Phases]
  BY DEF IInv, Control, ControlTypes, Data, DataTypes
<1>2. CASE ~Takes(p)
  <2>1. CASE p = Root
    BY <1>1, <1>2, <2>1, ListKept DEF CastFits
  <2>2. CASE p # Root
    BY <1>1, <1>2, <2>2, ListKept, OthersKept, RanksAreRelative DEF CastFits
  <2>3. QED
    BY <2>1, <2>2
<1>3. CASE Takes(p)
  <2>1. cast' # <<>> /\ (cast # <<>> => cast' = cast) /\ \E S \in NameSets : cast' = ByName(S)
    BY <1>3, CastOfTakes
  <2>2. phase'[p] = "copy"
    BY <1>1, <1>3, CastOfTakes, ListOfCast
  <2>3. CASE p = Root
    BY <2>1, <2>2, <2>3 DEF CastFits, HaveList
  <2>4. CASE p # Root
    <3>1. ReceiveBroadcast(p)
      BY <1>3, <2>4 DEF Takes
    <3>2. cast # <<>> /\ cast' = cast
      BY <3>1 DEF ReceiveBroadcast, collective
    <3>3. QED
      BY <1>1, <2>1, <2>4, <3>2, OthersKept, RanksAreRelative DEF CastFits
  <2>5. QED
    BY <2>3, <2>4
<1>4. QED
  BY <1>2, <1>3

-----------------------------------------------------------------------------
(* The rows of ranks that have a vector stay their rows. *)
LEMMA GatheredKept ==
  ASSUME NEW v, NEW w, NEW rows, NEW ranks \in SUBSET Proc,
         \A q \in Proc : v[q].index # 0 => w[q] = v[q],
         Gathered(v, rows, ranks)
  PROVE  Gathered(w, rows, ranks)
<1>1. \A q \in ranks : w[q] = v[q] /\ v[q].index # 0
  BY DEF Gathered
<1>2. RowsOf(w, ranks) = RowsOf(v, ranks)
  <2>1. {w[q].index : q \in ranks} = {v[q].index : q \in ranks}
    BY <1>1
  <2>2. \A i : {q \in ranks : w[q].index = i} = {q \in ranks : v[q].index = i}
    BY <1>1
  <2>3. QED
    BY <2>1, <2>2 DEF RowsOf
<1>3. QED
  BY <1>1, <1>2 DEF Gathered

(* Each process's table stays that of the ranks it stands for. *)
LEMMA TableFitStep ==
  ASSUME IInv, NEW p \in Proc, StepOf(p), NEW q \in Proc
  PROVE  TableFit(q)'
<1> USE DEF GoTo, In, local, loop, collective
<1>1. TableFit(q) /\ mask[q] \in Nat
  BY MaskOf, MaskType DEF IInv, Data
<1>2. ASSUME NEW rows, NEW m \in Nat, Gathered(vector, rows, Span(q, m))
      PROVE  Gathered(vector', rows, Span(q, m))
  BY <1>2, GatheredKept, VectorsKept, Spans
<1>3. ASSUME /\ table'[q] = table[q]
             /\ phase'[q] \in {"table", "barrier", "done"} <=> phase[q] \in {"table", "barrier", "done"}
             /\ phase[q] \in {"table", "barrier", "done"} => Span(q, mask'[q]) = Span(q, mask[q])
      PROVE  TableFit(q)'
  <2>1. CASE phase[q] \in {"table", "barrier", "done"}
    <3>1. Gathered(vector', table[q], Span(q, mask[q]))
      BY <1>1, <1>2, <2>1 DEF TableFit
    <3>2. Gathered(vector', table'[q], Span(q, mask'[q]))
      BY <1>3, <2>1, <3>1
    <3>3. QED
      BY <1>3, <2>1, <3>2 DEF TableFit
  <2>2. CASE phase[q] \notin {"table", "barrier", "done"}
    BY <1>1, <1>3, <2>2 DEF TableFit
  <2>3. QED
    BY <2>1, <2>2
<1>4. CASE q # p
  BY <1>3, <1>4, OthersKept
<1>5. /\ phase \in [Proc -> Phases] /\ table \in [Proc -> TaskMaps(Proc)] /\ mask \in [Proc -> Masks]
      /\ vector \in [Proc -> [states : Seq(Nat), index : Nat]]
  BY DEF IInv, Control, ControlTypes, Data, DataTypes
<1>6. CASE q = p /\ (RecordLate(p) \/ EnterBarrier(p) \/ ReceiveSize(p) \/ SendSize(p) \/ SendData(p))
  <2>1. UNCHANGED <<phase, mask, table>>
    BY <1>6 DEF RecordLate, EnterBarrier, ReceiveSize, SendSize, SendData
  <2>2. QED
    BY <1>3, <2>1
<1>7. CASE q = p /\ (LoopEnds(p) \/ SendReturns(p))
  <2>1. phase[p] \in Reductions /\ phase'[p] = After(phase[p]) /\ UNCHANGED <<mask, table>>
    BY <1>5, <1>7 DEF LoopEnds, SendReturns, Reducing
  <2>2. phase'[p] \in {"table", "barrier", "done"} <=> phase[p] \in {"table", "barrier", "done"}
    BY <2>1 DEF Reductions, After
  <2>3. QED
    BY <1>3, <1>7, <2>1, <2>2
<1>8. CASE q = p /\ (LeaveGather(p) \/ GetLastState(p) \/ Annotate(p) \/ LeaveBarrier(p))
  <2>1. UNCHANGED <<mask, table>>
    BY <1>8 DEF LeaveGather, GetLastState, Annotate, LeaveBarrier
  <2>2. phase'[p] \in {"table", "barrier", "done"} <=> phase[p] \in {"table", "barrier", "done"}
    BY <1>5, <1>8 DEF LeaveGather, GetLastState, Annotate, LeaveBarrier
  <2>3. QED
    BY <1>3, <1>8, <2>1, <2>2
<1>9. CASE q = p /\ Takes(p)
  <2>1. UNCHANGED table /\ phase[p] = "bcast" /\ phase'[p] = "copy"
    BY <1>5, <1>9, CastOfTakes, ListOfCast
  <2>2. QED
    BY <1>3, <1>9, <2>1
<1>10. CASE q = p /\ CopyEdges(p)
  <2>1. UNCHANGED table /\ phase[p] = "copy" /\ phase'[p] = "edges"
    BY <1>5, <1>10 DEF CopyEdges
  <2>2. QED
    BY <1>3, <1>10, <2>1
<1>11. CASE q = p /\ NewTable(p)
  <2>1. /\ phase[p] = "newTable" /\ phase'[p] = "table" /\ mask'[p] = 1 /\ vector' = vector
        /\ table'[p] = [i \in {vector[p].index} |-> {p}]
    BY <1>5, <1>11 DEF NewTable
  <2>2. vector[p].index # 0
    BY <2>1 DEF IInv, Data, VectorFit, HaveList
  <2>3. RowsOf(vector, {p}) = [i \in {vector[p].index} |-> {p}]
    BY DEF RowsOf
  <2>4. Gathered(vector, table'[p], {p})
    BY <2>1, <2>2, <2>3 DEF Gathered
  <2>5. Gathered(vector', table'[p], Span(p, mask'[p]))
    BY <2>1, <2>4, Spans
  <2>6. QED
    BY <1>11, <2>1, <2>5 DEF TableFit
<1>12. CASE q = p /\ Skip(p)
  <2>1. UNCHANGED <<phase, table>> /\ mask'[p] = 2 * mask[p] /\ p + mask[p] >= N
    BY <1>5, <1>12, RanksAreRelative DEF Skip, Source
  <2>2. Span(p, mask'[p]) = Span(p, mask[p])
    BY <1>1, <1>12, <2>1, Spans
  <2>3. QED
    BY <1>3, <1>12, <2>1, <2>2
<1>13. CASE q = p /\ ReceiveData(p)
  <2>1. PICK body :
           \/ phase[p] = "states" /\ AddLastNames(p, body)
           \/ phase[p] = "edges" /\ AddEdges(p, body)
           \/ /\ phase[p] = "table" /\ Gathered(vector, body, Span(p + mask[p], mask[p]))
              /\ AddRanks(p, body)
    BY <1>13, Received
  <2>2. UNCHANGED <<phase, vector>> /\ mask'[p] = 2 * mask[p]
    BY <1>5, <1>13 DEF ReceiveData
  <2>3. CASE \/ phase[p] = "states" /\ AddLastNames(p, body)
             \/ phase[p] = "edges" /\ AddEdges(p, body)
    <3>1. UNCHANGED table
      BY <2>3 DEF AddLastNames, AddEdges
    <3>2. QED
      BY <1>3, <1>13, <2>2, <2>3, <3>1
  <2>4. CASE /\ phase[p] = "table" /\ Gathered(vector, body, Span(p + mask[p], mask[p]))
             /\ AddRanks(p, body)
    <3> DEFINE S == Span(p, mask[p])
               T == Span(p + mask[p], mask[p])
    <3>1. table'[p] = UnionTasks(table[p], body)
      BY <1>5, <2>4 DEF AddRanks, MergedTable
    <3>2. Gathered(vector, table[p], S) /\ Gathered(vector, body, T)
      BY <1>1, <1>13, <2>4 DEF TableFit
    <3>3. Gathered(vector, UnionTasks(table[p], body), S \cup T)
      BY <3>2, RowsUnited DEF Gathered
    <3>4. Span(p, mask'[p]) = S \cup T
      BY <1>1, <1>13, <2>2, Spans
    <3> HIDE DEF S, T
    <3>5. Gathered(vector', table'[p], Span(p, mask'[p]))
      BY <2>2, <3>1, <3>3, <3>4
    <3>6. QED
      BY <1>13, <2>2, <2>4, <3>5 DEF TableFit
  <2>5. QED
    BY <2>1, <2>3, <2>4
<1>14. QED
  BY <1>4, <1>6, <1>7, <1>8, <1>9, <1>10, <1>11, <1>12, <1>13
  DEF StepOf, Advance, Reduce, SendStep, Takes

-----------------------------------------------------------------------------
(***************************************************************************)
(* Each step keeps the bodies on their way, and what the types need.       *)
(***************************************************************************)

(* A body on its way stays that of the ranks it is for. *)
LEMMA BodyFitsKept ==
  ASSUME IInv, NEW p \in Proc, StepOf(p), NEW m, NEW ranks \in SUBSET Proc,
         BodyFits(vector, m, ranks)
  PROVE  BodyFits(vector', m, ranks)
BY VectorsKept, GatheredKept DEF BodyFits

(* A process sends the data of the ranks it stands for. *)
LEMMA BodySent ==
  ASSUME IInv, NEW p \in Proc, phase[p] \in Reductions,
         NEW m, m.phase = phase[p], m.body = Body(p)
  PROVE  BodyFits(vector, m, Span(p, mask[p]))
<1>1. DataFit(p) /\ TableFit(p) /\ DataTypes
  BY DEF IInv, Data
<1>2. CASE phase[p] = "states"
  BY <1>1, <1>2 DEF BodyFits, Body, DataTypes
<1>3. CASE phase[p] = "edges"
  <2>1. m.body = [names |-> data[p].names, edges |-> edges[p]]
    BY <1>3 DEF Body
  <2>2. data[p].names \in NameLists
    BY <1>1 DEF DataTypes, Processes
  <2>3. QED
    BY <1>1, <1>3, <2>1, <2>2 DEF BodyFits, DataFit
<1>4. CASE phase[p] = "table"
  BY <1>1, <1>4 DEF BodyFits, Body, TableFit
<1>5. QED
  BY <1>2, <1>3, <1>4 DEF Reductions

(* All bodies on their way are, after a step as before. *)
LEMMA PayloadFitsStep ==
  ASSUME IInv, NEW p \in Proc, StepOf(p), NEW s \in Proc, NEW d \in Proc
  PROVE  PayloadFits(s, d)'
<1> DEFINE c == chan[<<s, d>>]
<1>1. c \in Seq(Wire) /\ chan \in [Proc \X Proc -> Seq(Wire)] /\ PayloadFits(s, d)
  BY DEF IInv, Control, ControlTypes, Data
<1>2. Span(s, s - d) \subseteq Proc
  BY DEF Span
<1>3. ASSUME NEW k \in 1 .. Len(c), c[k].kind = "data"
      PROVE  BodyFits(vector', c[k], Span(s, s - d))
  BY <1>1, <1>2, <1>3, BodyFitsKept DEF PayloadFits
<1>4. CASE UNCHANGED chan
  BY <1>3, <1>4 DEF PayloadFits
<1>5. ASSUME NEW pair \in Proc \X Proc, chan[pair] # <<>>, chan' = [chan EXCEPT ![pair] = Tail(@)]
      PROVE  PayloadFits(s, d)'
  <2>1. CASE pair = <<s, d>>
    <3>1. chan'[<<s, d>>] = Tail(c) /\ c # <<>>
      BY <1>1, <1>5, <2>1
    <3>2. \A k \in 1 .. Len(Tail(c)) : k + 1 \in 1 .. Len(c) /\ Tail(c)[k] = c[k + 1]
      BY <1>1, <3>1
    <3> HIDE DEF c
    <3>3. QED
      BY <1>3, <3>1, <3>2 DEF PayloadFits
  <2>2. CASE pair # <<s, d>>
    <3>1. chan'[<<s, d>>] = c
      BY <1>1, <1>5, <2>2
    <3>2. QED
      BY <1>3, <3>1 DEF PayloadFits
  <2>3. QED
    BY <2>1, <2>2
<1>6. ASSUME NEW m, m.kind = "data" => BodyFits(vector', m, Span(p, mask[p])),
             phase[p] \in Reductions, BitSet(p, mask[p]),
             chan' = [chan EXCEPT ![Outgoing(p)] = Append(@, m)]
      PROVE  PayloadFits(s, d)'
  <2>1. Outgoing(p) = <<p, p - mask[p]>> /\ Outgoing(p) \in Proc \X Proc /\ p - (p - mask[p]) = mask[p]
    BY <1>6, SendingEdge DEF IInv
  <2>2. CASE Outgoing(p) = <<s, d>>
    <3>1. s = p /\ s - d = mask[p]
      BY <2>1, <2>2
    <3>2. chan'[<<s, d>>] = Append(c, m)
      BY <1>1, <1>6, <2>1, <2>2
    <3>3. \A k \in 1 .. Len(Append(c, m)) :
             (k \in 1 .. Len(c) /\ Append(c, m)[k] = c[k]) \/ Append(c, m)[k] = m
      BY <1>1
    <3>4. m.kind = "data" => BodyFits(vector', m, Span(s, s - d))
      BY <1>6, <3>1
    <3> HIDE DEF c
    <3>5. QED
      BY <1>3, <3>2, <3>3, <3>4 DEF PayloadFits
  <2>3. CASE Outgoing(p) # <<s, d>>
    <3>1. chan'[<<s, d>>] = c
      BY <1>1, <1>6, <2>1, <2>3
    <3>2. QED
      BY <1>3, <3>1 DEF PayloadFits
  <2>4. QED
    BY <2>2, <2>3
<1>7. CASE ReceiveSize(p) \/ ReceiveData(p)
  <2>1. /\ phase[p] \in Reductions /\ chan[Incoming(p)] # <<>>
        /\ chan' = [chan EXCEPT ![Incoming(p)] = Tail(@)]
    BY <1>7 DEF ReceiveSize, ReceiveData, Receives, Looping, Reducing
  <2>2. ~BitSet(p, mask[p]) /\ p + mask[p] < N
    BY <1>7, RanksAreRelative
    DEF ReceiveSize, ReceiveData, Receives, Source, IInv, Control, MasksFit
  <2>3. Incoming(p) \in Proc \X Proc
    BY <2>1, <2>2, ReceivingEdge DEF IInv
  <2>4. QED
    BY <1>5, <2>1, <2>3
<1>8. CASE SendSize(p)
  <2> DEFINE m == [phase |-> phase[p], kind |-> "size", body |-> {}]
  <2>1. /\ phase[p] \in Reductions /\ BitSet(p, mask[p]) /\ m.kind # "data"
        /\ chan' = [chan EXCEPT ![Outgoing(p)] = Append(@, m)]
    BY <1>8, RanksAreRelative DEF SendSize, Looping, Reducing
  <2> HIDE DEF m
  <2>2. QED
    BY <1>6, <2>1
<1>9. CASE SendData(p)
  <2> DEFINE m == [phase |-> phase[p], kind |-> "data", body |-> Body(p)]
  <2>1. phase[p] \in Reductions /\ BitSet(p, mask[p])
    BY <1>9 DEF SendData, Reducing, IInv, Control, MasksFit
  <2>2. UNCHANGED chan \/ chan' = [chan EXCEPT ![Outgoing(p)] = Append(@, m)]
    BY <1>9 DEF SendData
  <2>3. m.phase = phase[p] /\ m.body = Body(p)
    OBVIOUS
  <2> HIDE DEF m
  <2>4. BodyFits(vector', m, Span(p, mask[p]))
    BY <2>1, <2>3, BodySent, BodyFitsKept, Spans DEF Span
  <2>5. QED
    BY <1>4, <1>6, <2>1, <2>2, <2>4
<1>10. ASSUME ~ReceiveSize(p), ~ReceiveData(p), ~SendSize(p), ~SendData(p)
       PROVE  UNCHANGED chan
  <2>1. CASE Takes(p)
    BY <2>1, CastOfTakes
  <2>2. CASE RecordLate(p) \/ EnterBarrier(p) \/ LeaveBarrier(p) \/ LoopEnds(p)
    BY <2>2 DEF RecordLate, EnterBarrier, LeaveBarrier, LoopEnds, loop
  <2>3. CASE LeaveGather(p) \/ GetLastState(p) \/ Annotate(p)
    BY <2>3 DEF LeaveGather, GetLastState, Annotate, loop
  <2>4. CASE CopyEdges(p) \/ NewTable(p) \/ Skip(p) \/ SendReturns(p)
    BY <2>4 DEF CopyEdges, NewTable, Skip, SendReturns
  <2>5. QED
    BY <1>10, <2>1, <2>2, <2>3, <2>4 DEF StepOf, Advance, Reduce, SendStep, Takes
<1>11. QED
  BY <1>4, <1>7, <1>8, <1>9, <1>10

-----------------------------------------------------------------------------
(* No step makes two RangeSets overlap. *)
LEMMA FaultStep ==
  ASSUME IInv, NEW p \in Proc, StepOf(p)
  PROVE  fault'[p] \in {"none", "last state unknown", "buffer too small"}
<1>1. fault \in [Proc -> {"none", "last state unknown", "buffer too small"}]
  BY DEF IInv, Data, DataTypes
<1>2. CASE fault' = fault
  BY <1>1, <1>2
<1>3. CASE Annotate(p)
  BY <1>1, <1>3 DEF Annotate
<1>4. CASE SendData(p)
  <2>1. fault' = fault \/ fault' = [fault EXCEPT ![p] = "buffer too small"]
    BY <1>4 DEF SendData
  <2>2. QED
    BY <1>1, <2>1
<1>5. CASE ReceiveData(p)
  <2> DEFINE S == Span(p, mask[p])
             T == Span(p + mask[p], mask[p])
  <2>1. S \cap T = {}
    BY Spans, MaskOf DEF IInv
  <2>2. PICK body :
           \/ phase[p] = "states" /\ AddLastNames(p, body)
           \/ /\ phase[p] = "edges" /\ body.names \in NameLists
              /\ body.edges \in EdgeMaps(DOMAIN body.names, T) /\ AddEdges(p, body)
           \/ phase[p] = "table" /\ Gathered(vector, body, T) /\ AddRanks(p, body)
    BY <1>5, Received
  <2>3. CASE AddLastNames(p, body)
    BY <1>1, <2>3 DEF AddLastNames
  <2>4. CASE /\ phase[p] = "edges" /\ body.names \in NameLists
             /\ body.edges \in EdgeMaps(DOMAIN body.names, T) /\ AddEdges(p, body)
    <3> DEFINE own == [names |-> data[p].names, edges |-> edges[p]]
    <3>1. own.names \in NameLists /\ own.edges \in EdgeMaps(DOMAIN own.names, S)
      BY <2>4 DEF IInv, Data, DataFit, Processes
    <3>2. body.edges \in EdgeMaps(Nat, T)
      <4>1. DOMAIN body.names \subseteq Nat
        BY <2>4 DEF NameLists
      <4> HIDE DEF T
      <4>2. QED
        BY <2>4, <4>1, MapsGrow
    <3>3. fault' = [fault EXCEPT ![p] = IF MergeOverlaps(own, body) THEN "overlap" ELSE @]
      BY <2>4 DEF AddEdges
    <3> HIDE DEF own, S, T
    <3>4. ~MergeOverlaps(own, body)
      BY <2>1, <3>1, <3>2, NoOverlap
    <3>5. QED
      BY <1>1, <3>3, <3>4
  <2>5. CASE phase[p] = "table" /\ Gathered(vector, body, T) /\ AddRanks(p, body)
    <3>1. Gathered(vector, table[p], S)
      BY <2>5 DEF IInv, Data, TableFit
    <3> HIDE DEF S, T
    <3>2. ~TableOverlaps(table[p], body)
      BY <2>1, <2>5, <3>1, RowsApart DEF Gathered
    <3>3. QED
      BY <1>1, <2>5, <3>2 DEF AddRanks
  <2>6. QED
    BY <2>2, <2>3, <2>4, <2>5
<1>6. ASSUME ~Annotate(p), ~SendData(p), ~ReceiveData(p)
      PROVE  fault' = fault
  <2>1. CASE Takes(p)
    BY <2>1 DEF Takes, Broadcast, ReceiveBroadcast
  <2>2. QED
    BY <1>6, <2>1 DEF StepOf, Advance, Reduce, SendStep, Takes, RecordLate, LeaveGather, GetLastState,
      CopyEdges, NewTable, EnterBarrier, LeaveBarrier, Skip, ReceiveSize, SendSize, LoopEnds, SendReturns
<1>7. QED
  BY <1>2, <1>3, <1>4, <1>5, <1>6

(* The names a process has collected. *)
LEMMA LastNamesStep ==
  ASSUME IInv, NEW p \in Proc, StepOf(p)
  PROVE  lastNames'[p] \in NameSets
<1>1. /\ lastNames \in [Proc -> NameSets] /\ data[p] \in Processes({p})
      /\ lastState[p] \in {NoId} \cup DOMAIN data[p].names
  BY DEF IInv, Data, DataTypes, DataFit
<1>2. CASE lastNames' = lastNames
  BY <1>1, <1>2
<1>3. CASE Annotate(p) /\ lastState[p] # NoId
  <2>1. lastNames'[p] = {data[p].names[lastState[p]]}
    BY <1>1, <1>3 DEF Annotate
  <2>2. data[p].names[lastState[p]] \in Nat
    BY <1>1, <1>3 DEF Processes, NameLists
  <2>3. QED
    BY <2>1, <2>2, FS_Singleton DEF NameSets
<1>4. CASE ReceiveData(p)
  <2>1. PICK body :
           \/ phase[p] = "states" /\ body \in NameSets /\ AddLastNames(p, body)
           \/ phase[p] = "edges" /\ AddEdges(p, body)
           \/ phase[p] = "table" /\ AddRanks(p, body)
    BY <1>4, Received
  <2>2. CASE body \in NameSets /\ AddLastNames(p, body)
    <3>1. lastNames'[p] = lastNames[p] \cup body
      BY <1>1, <2>2 DEF AddLastNames
    <3>2. QED
      BY <1>1, <2>2, <3>1, FS_Union DEF NameSets
  <2>3. CASE AddEdges(p, body) \/ AddRanks(p, body)
    BY <1>2, <2>3 DEF AddEdges, AddRanks
  <2>4. QED
    BY <2>1, <2>2, <2>3
<1>5. ASSUME ~ReceiveData(p), ~(Annotate(p) /\ lastState[p] # NoId)
      PROVE  lastNames' = lastNames
  <2>1. CASE Takes(p)
    BY <2>1, CastOfTakes
  <2>2. CASE Annotate(p)
    BY <1>5, <2>2 DEF Annotate
  <2>3. QED
    BY <1>5, <2>1, <2>2 DEF StepOf, Advance, Reduce, SendStep, Takes, RecordLate, LeaveGather, GetLastState,
      CopyEdges, NewTable, EnterBarrier, LeaveBarrier, Skip, ReceiveSize, SendSize, LoopEnds, SendReturns, SendData, local
<1>6. QED
  BY <1>2, <1>3, <1>4, <1>5

-----------------------------------------------------------------------------
(***************************************************************************)
(* The invariant is inductive.                                             *)
(***************************************************************************)

(* The ranks may be any larger set. *)
LEMMA ProcessesGrow ==
  ASSUME NEW R, NEW Q, R \subseteq Q
  PROVE  Processes(R) \subseteq Processes(Q)
<1> SUFFICES ASSUME NEW d \in Processes(R) PROVE d \in Processes(Q)
  OBVIOUS
<1>1. /\ d = [names |-> d.names, edges |-> d.edges, current |-> d.current, last |-> d.last]
      /\ d.names \in NameLists /\ d.edges \in EdgeMaps(DOMAIN d.names, R)
      /\ d.current \in DOMAIN d.names /\ d.last \in {NoId} \cup DOMAIN d.names
  BY DEF Processes
<1>2. d.edges \in EdgeMaps(DOMAIN d.names, Q)
  BY <1>1, MapsGrow
<1>3. QED
  BY <1>1, <1>2, ProcessIs

(* A vector of last states has ids. *)
LEMMA VectorTyped ==
  ASSUME IInv, NEW p \in Proc, StepOf(p)
  PROVE  vector'[p] \in [states : Seq(Nat), index : Nat]
<1>1. vector \in [Proc -> [states : Seq(Nat), index : Nat]] /\ \E S \in NameSets : cast = ByName(S)
  BY DEF IInv, Data, DataTypes
<1>2. CASE ~Takes(p)
  BY <1>1, <1>2, ListKept
<1>3. CASE Takes(p)
  <2> DEFINE states == Ordered(InternAll(data[p].names, cast'), cast')
  <2>1. /\ states \in Seq(Nat)
        /\ \E i \in DOMAIN states : vector' = [vector EXCEPT ![p] = [states |-> states, index |-> i]]
    BY <1>3, CastOfTakes, ListOfCast
  <2> HIDE DEF states
  <2>2. QED
    BY <1>1, <2>1
<1>4. QED
  BY <1>2, <1>3

(* The types of the data, after a step. *)
LEMMA DataTypesStep ==
  ASSUME IInv, NEW p \in Proc, StepOf(p)
  PROVE  DataTypes'
<1>1. DataTypes
  BY DEF IInv, Data
<1>2. noBarrier' \in BOOLEAN /\ \E S \in NameSets : cast' = ByName(S)
  BY <1>1, StillFunctions, CastFitsStep DEF DataTypes
<1>3. ASSUME NEW q \in Proc
      PROVE  DataFit(q)' /\ TableFit(q)'
  <2>1. CASE q = p
    BY <2>1, DataFitStep, TableFitStep
  <2>2. CASE q # p
    <3>1. DataFit(q)
      BY DEF IInv, Data
    <3>2. DataFit(q)'
      BY <2>2, <3>1, OthersKept DEF DataFit
    <3>3. QED
      BY <3>2, TableFitStep
  <2>3. QED
    BY <2>1, <2>2
<1>4. ASSUME NEW q \in Proc
      PROVE  /\ data'[q] \in Processes(Proc) /\ edges'[q] \in EdgeMaps(Nat, Proc)
             /\ lastState'[q] \in Nat /\ lastNames'[q] \in NameSets
             /\ vector'[q] \in [states : Seq(Nat), index : Nat]
             /\ fault'[q] \in {"none", "last state unknown", "buffer too small"}
  <2>1. data'[q] \in Processes({q}) /\ {q} \subseteq Proc
    BY <1>3 DEF DataFit
  <2>2. data'[q] \in Processes(Proc) /\ DOMAIN data'[q].names \subseteq Nat
    <3>1. data'[q].names \in NameLists
      BY <2>1 DEF Processes
    <3>2. DOMAIN data'[q].names \subseteq Nat
      BY <3>1 DEF NameLists
    <3>3. QED
      BY <2>1, <3>2, ProcessesGrow
  <2>3. lastState'[q] \in Nat /\ edges'[q] \in EdgeMaps(DOMAIN data'[q].names, Proc)
    <3>1. /\ lastState'[q] \in {NoId} \cup DOMAIN data'[q].names
          /\ edges'[q] \in EdgeMaps(DOMAIN data'[q].names, Proc)
      BY <1>3 DEF DataFit
    <3>2. NoId \in Nat
      BY DEF NoId
    <3>3. QED
      BY <2>2, <3>1, <3>2
  <2>4. edges'[q] \in EdgeMaps(Nat, Proc)
    BY <2>2, <2>3, MapsGrow
  <2>5. lastNames'[q] \in NameSets
    BY <1>1, LastNamesStep, OthersKept DEF DataTypes
  <2>6. vector'[q] \in [states : Seq(Nat), index : Nat]
    BY <1>1, VectorTyped, OthersKept DEF DataTypes
  <2>7. fault'[q] \in {"none", "last state unknown", "buffer too small"}
    BY <1>1, FaultStep, OthersKept DEF DataTypes
  <2>8. QED
    BY <2>2, <2>3, <2>4, <2>5, <2>6, <2>7
<1>5. ASSUME NEW q \in Proc PROVE table'[q] \in TaskMaps(Proc)
  <2>1. CASE table'[q] = <<>>
    BY <2>1, Empty
  <2>2. CASE table'[q] # <<>>
    <3>1. table'[q] = RowsOf(vector', Span(q, mask'[q]))
      BY <1>3, <2>2 DEF TableFit, Gathered
    <3>2. \A x \in Proc : vector'[x].index \in Nat
      BY <1>4
    <3>3. Span(q, mask'[q]) \subseteq Proc
      BY DEF Span
    <3>4. QED
      BY <3>1, <3>2, <3>3, RowsTyped
  <2>3. QED
    BY <2>1, <2>2
<1>6. /\ data' \in [Proc -> Processes(Proc)] /\ edges' \in [Proc -> EdgeMaps(Nat, Proc)]
      /\ lastState' \in [Proc -> Nat] /\ lastNames' \in [Proc -> NameSets]
      /\ vector' \in [Proc -> [states : Seq(Nat), index : Nat]]
      /\ fault' \in [Proc -> {"none", "last state unknown", "buffer too small"}]
      /\ table' \in [Proc -> TaskMaps(Proc)]
  BY <1>4, <1>5, StillFunctions
<1>7. late' \in 0 .. LateBudget
  <2>1. CASE RecordLate(p)
    <3>1. late' = late + 1 /\ late < LateBudget /\ late \in 0 .. LateBudget
      BY <1>1, <2>1 DEF RecordLate, DataTypes
    <3>2. LateBudget \in Nat
      BY AnalysisAssumption
    <3>3. QED
      BY <3>1, <3>2
  <2>2. CASE ~RecordLate(p)
    <3>1. late' = late
      <4>1. CASE Takes(p)
        BY <4>1 DEF Takes, Broadcast, ReceiveBroadcast
      <4>2. QED
        BY <2>2, <4>1 DEF StepOf, Advance, Reduce, SendStep, Takes, LeaveGather, GetLastState, Annotate,
          CopyEdges, NewTable, EnterBarrier, LeaveBarrier, Skip, ReceiveSize, ReceiveData, SendSize,
          LoopEnds, SendReturns, SendData, local
    <3>2. QED
      BY <1>1, <3>1 DEF DataTypes
  <2>3. QED
    BY <2>1, <2>2
<1>8. arrived' \subseteq Proc /\ atBarrier' \subseteq Proc
  <2>1. CASE LeaveGather(p)
    BY <1>1, <2>1 DEF LeaveGather, DataTypes
  <2>2. CASE EnterBarrier(p)
    BY <1>1, <2>2 DEF EnterBarrier, DataTypes
  <2>3. CASE ~LeaveGather(p) /\ ~EnterBarrier(p)
    <3>1. arrived' = arrived /\ atBarrier' = atBarrier
      <4>1. CASE Takes(p)
        BY <4>1 DEF Takes, Broadcast, ReceiveBroadcast, collective
      <4>2. QED
        BY <2>3, <4>1 DEF StepOf, Advance, Reduce, SendStep, Takes, RecordLate, GetLastState, Annotate,
          CopyEdges, NewTable, LeaveBarrier, Skip, ReceiveSize, ReceiveData, SendSize,
          LoopEnds, SendReturns, SendData, collective
    <3>2. QED
      BY <1>1, <3>1 DEF DataTypes
  <2>4. QED
    BY <2>1, <2>2, <2>3
<1>9. QED
  BY <1>2, <1>6, <1>7, <1>8 DEF DataTypes

-----------------------------------------------------------------------------
(* A step of one process keeps the invariant. *)
LEMMA InvStep ==
  ASSUME IInv, NEW p \in Proc, StepOf(p)
  PROVE  IInv'
<1>1. Control'
  <2>1. [Next]_vars
    BY RanksAreRelative DEF StepOf, Next
  <2>2. QED
    BY <2>1, ControlNext, BodiesAreTyped DEF IInv
<1>2. DataTypes' /\ CastFits'
  BY DataTypesStep, CastFitsStep
<1>3. ASSUME NEW q \in Proc
      PROVE  DataFit(q)' /\ VectorFit(q)' /\ TableFit(q)'
  <2>1. DataFit(q)'
    <3>1. CASE q = p
      BY <3>1, DataFitStep
    <3>2. CASE q # p
      BY <3>2, OthersKept DEF DataFit, IInv, Data
    <3>3. QED
      BY <3>1, <3>2
  <2>2. QED
    BY <2>1, VectorFitStep, TableFitStep
<1>4. \A s, d \in Proc : PayloadFits(s, d)'
  BY PayloadFitsStep
<1>5. Data'
  BY <1>2, <1>3, <1>4 DEF Data
<1>6. QED
  BY <1>1, <1>5 DEF IInv

(* Every step keeps it. *)
LEMMA InvNext == IInv /\ [Next]_vars => IInv'
<1> SUFFICES ASSUME IInv, [Next]_vars PROVE IInv'
  OBVIOUS
<1>1. CASE UNCHANGED vars
  <2>1. UNCHANGED <<noBarrier, data, late, phase, fault, mask, io, arrived, atBarrier,
                    lastState, lastNames, cast, vector, edges, table, chan>>
    BY <1>1 DEF vars
  <2>2. Control'
    BY <2>1, ControlSame DEF IInv
  <2>3. DataTypes' /\ CastFits'
    BY <2>1 DEF IInv, Data, DataTypes, CastFits
  <2>4. ASSUME NEW q \in Proc PROVE DataFit(q)' /\ VectorFit(q)' /\ TableFit(q)'
    <3>1. DataFit(q) /\ VectorFit(q) /\ TableFit(q)
      BY DEF IInv, Data
    <3>2. DataFit(q)'
      BY <2>1, <3>1 DEF DataFit
    <3>3. VectorFit(q)'
      BY <2>1, <3>1 DEF VectorFit
    <3>4. TableFit(q)'
      BY <2>1, <3>1 DEF TableFit
    <3>5. QED
      BY <3>2, <3>3, <3>4
  <2>5. ASSUME NEW s \in Proc, NEW d \in Proc PROVE PayloadFits(s, d)'
    BY <2>1 DEF IInv, Data, PayloadFits
  <2>6. QED
    BY <2>2, <2>3, <2>4, <2>5 DEF IInv, Data
<1>2. CASE Next
  BY <1>2, Steps, InvStep
<1>3. QED
  BY <1>1, <1>2

(* It holds when the helper threads enter the analysis. *)
LEMMA InvInit == Init => IInv
<1> SUFFICES ASSUME Init PROVE IInv
  OBVIOUS
<1> USE DEF Init
<1>1. Control
  BY ControlInit
<1>2. PICK trail \in Trails : data = [p \in Proc |-> AfterTrail(trail[p])]
  OBVIOUS
<1>3. \A p \in Proc : trail[p] \in Seq(Nat) /\ trail[p] # <<>>
  BY AnalysisAssumption
<1>4. \A p \in Proc : data[p] \in Processes({p}) /\ data[p] \in Processes(Proc)
  BY <1>2, <1>3, AfterTrailType
<1>5. cast = ByName({}) /\ {} \in NameSets
  <2>1. {} \in NameSets
    BY FS_EmptySet DEF NameSets
  <2>2. ByName({}) \in Seq({})
    BY <2>1, SortedNames DEF ByName, NameSets
  <2>3. QED
    BY <2>1, <2>2
<1>6. \A p \in Proc : /\ edges[p] = <<>> /\ table[p] = <<>> /\ phase[p] = "gather"
                      /\ lastState[p] = NoId /\ vector[p] = [states |-> <<>>, index |-> 0]
  BY DEF NoEdges
<1>7. DataTypes
  <2>1. data \in [Proc -> Processes(Proc)]
    BY <1>2, <1>4
  <2>2. edges \in [Proc -> EdgeMaps(Nat, Proc)] /\ table \in [Proc -> TaskMaps(Proc)]
    BY Empty DEF NoEdges
  <2>3. vector \in [Proc -> [states : Seq(Nat), index : Nat]] /\ lastState \in [Proc -> Nat]
    BY DEF NoId
  <2>4. QED
    BY <1>5, <2>1, <2>2, <2>3, AnalysisAssumption DEF DataTypes
<1>8. ASSUME NEW p \in Proc PROVE DataFit(p)
  BY <1>4, <1>6, Empty DEF DataFit, Early
<1>9. ASSUME NEW p \in Proc PROVE VectorFit(p) /\ TableFit(p)
  BY <1>6 DEF VectorFit, TableFit, HaveList
<1>10. CastFits
  BY <1>6, RanksAreRelative DEF CastFits, HaveList
<1>11. ASSUME NEW s \in Proc, NEW d \in Proc PROVE PayloadFits(s, d)
  BY DEF PayloadFits
<1>12. QED
  BY <1>1, <1>7, <1>8, <1>9, <1>10, <1>11 DEF IInv, Data

(* Whatever the processes had recorded, the invariant always holds. *)
THEOREM Invariant == SafeSpec => []IInv
BY InvInit, InvNext, PTL DEF SafeSpec

-----------------------------------------------------------------------------
(***************************************************************************)
(* What follows from it.                                                   *)
(***************************************************************************)

(* The invariant implies the types. *)
LEMMA TypesHold == IInv => TypeOK
<1> SUFFICES ASSUME IInv PROVE TypeOK
  OBVIOUS
<1>1. Control /\ DataTypes
  BY DEF IInv, Data
<1>2. noBarrier \in BOOLEAN /\ late \in 0 .. LateBudget /\ arrived \subseteq Proc /\ atBarrier \subseteq Proc
  BY <1>1 DEF DataTypes
<1>3. phase \in [Proc -> {"gather", "lastState", "annotate", "bcast", "copy", "newTable",
                          "barrier", "done"} \cup Reductions]
  BY <1>1 DEF Control, ControlTypes, Phases
<1>4. fault \in [Proc -> {"none", "last state unknown", "buffer too small", "overlap"}]
  BY <1>1 DEF DataTypes
<1>5. io \in [Proc -> {"loop", "receiving", "sized", "sent"}]
  BY <1>1 DEF Control, ControlTypes
<1>6. ASSUME NEW p \in Proc
      PROVE  /\ mask[p] \in 1 .. 2 * N
             /\ lastState[p] \in {NoId} \cup DOMAIN data[p].names
             /\ Annotations(p)
             /\ ToSet(vector[p].states) \subseteq DOMAIN data[p].names
             /\ DOMAIN table[p] \subseteq DOMAIN vector[p].states
             /\ \A i \in DOMAIN table[p] : table[p][i] \subseteq Proc
  <2>1. DataFit(p) /\ VectorFit(p) /\ TableFit(p)
    BY DEF IInv, Data
  <2>2. mask[p] \in 1 .. 2 * N
    <3>1. mask[p] \in Nat \ {0} /\ mask[p] <= 2 * N /\ N \in Nat
      BY <1>1, MaskOf DEF Control, MasksFit
    <3>2. QED
      BY <3>1
  <2>3. Annotations(p)
    <3> SUFFICES ASSUME NEW e \in DOMAIN edges[p]
                 PROVE  /\ e \in (DOMAIN data[p].names) \X (DOMAIN data[p].names)
                        /\ edges[p][e].count \in Nat
                        /\ \A c \in DOMAIN edges[p][e].tasks : edges[p][e].tasks[c] \subseteq Proc
      BY DEF Annotations
    <3>1. e \in (DOMAIN data[p].names) \X (DOMAIN data[p].names) /\ edges[p][e] \in AnnotationsOf(Proc)
      BY <2>1, EdgeMapIs DEF DataFit
    <3>2. edges[p][e].tasks \in TaskMaps(Proc) /\ edges[p][e].count \in Nat
      BY <3>1 DEF AnnotationsOf
    <3>3. QED
      BY <3>1, <3>2, TaskMapIs
  <2>4. ToSet(vector[p].states) \subseteq DOMAIN data[p].names
    <3>1. CASE vector[p].index = 0
      BY <2>1, <3>1 DEF VectorFit, ToSet
    <3>2. CASE vector[p].index # 0
      BY <2>1, <3>2 DEF VectorFit, ToSet
    <3>3. QED
      BY <3>1, <3>2
  <2>5. DOMAIN table[p] \subseteq DOMAIN vector[p].states
    <3>1. CASE table[p] = <<>>
      BY <3>1
    <3>2. CASE table[p] # <<>>
      <4>1. phase[p] \in HaveList /\ Gathered(vector, table[p], Span(p, mask[p]))
        BY <2>1, <3>2 DEF TableFit, HaveList
      <4>2. DOMAIN vector[p].states = DOMAIN cast
        BY <2>1, <4>1 DEF VectorFit
      <4>3. \A q \in Span(p, mask[p]) : vector[q].index \in DOMAIN cast
        BY <4>1 DEF Gathered, IInv, Data, VectorFit, Span
      <4>4. DOMAIN table[p] = {vector[q].index : q \in Span(p, mask[p])}
        BY <4>1 DEF Gathered, RowsOf
      <4>5. QED
        BY <4>2, <4>3, <4>4
    <3>3. QED
      BY <3>1, <3>2
  <2>6. \A i \in DOMAIN table[p] : table[p][i] \subseteq Proc
    <3>1. table[p] \in TaskMaps(Proc)
      BY <1>1 DEF DataTypes
    <3>2. QED
      BY <3>1, TaskMapIs
  <2>7. QED
    BY <2>1, <2>2, <2>3, <2>4, <2>5, <2>6 DEF DataFit
<1>7. ASSUME NEW pair \in Proc \X Proc, NEW k \in DOMAIN chan[pair]
      PROVE  [phase |-> chan[pair][k].phase, kind |-> chan[pair][k].kind] \in Message
  <2>1. chan[pair] \in Seq(Wire)
    BY <1>1 DEF Control, ControlTypes
  <2>2. chan[pair][k] \in Wire
    BY <2>1
  <2>3. QED
    BY <2>2 DEF Wire, Message
<1>8. QED
  BY <1>2, <1>3, <1>4, <1>5, <1>6, <1>7 DEF TypeOK

(* The invariant makes the vectors agree: each is the list of the broadcast. *)
LEMMA SameVectorHolds == IInv => SameVectorEverywhere
<1> SUFFICES ASSUME IInv, NEW p \in Proc, NEW q \in Proc,
                    vector[p].index # 0, vector[q].index # 0
             PROVE  /\ [i \in DOMAIN vector[p].states |-> NameOf(p, vector[p].states[i])]
                       = [i \in DOMAIN vector[q].states |-> NameOf(q, vector[q].states[i])]
                    /\ NameOf(p, vector[p].states[vector[p].index]) = LastName(p)
  BY DEF SameVectorEverywhere
<1>1. \A r \in {p, q} :
        /\ DOMAIN vector[r].states = DOMAIN cast
        /\ \A i \in DOMAIN cast : NameOf(r, vector[r].states[i]) = cast[i]
  BY DEF IInv, Data, VectorFit, NameOf
<1>2. NameOf(p, vector[p].states[vector[p].index]) = LastName(p)
  BY DEF IInv, Data, VectorFit, LastName
<1>3. QED
  BY <1>1, <1>2

(* When the root has everything, its table is that of all ranks. *)
LEMMA RootTable ==
  ASSUME IInv, RootHasAll
  PROVE  Gathered(vector, table[Root], Proc)
<1>1. phase[Root] \in {"barrier", "done"} /\ Root \in Proc
  BY RanksAreRelative DEF RootHasAll
<1>2. Gathered(vector, table[Root], Span(Root, mask[Root]))
  BY <1>1 DEF IInv, Data, TableFit
<1>3. mask[Root] >= N
  BY <1>1 DEF IInv, Control, MasksFit, Early, Reductions
<1>4. QED
  BY <1>1, <1>2, <1>3, Spans, MaskOf DEF IInv

(* Then the table is the partition of the ranks by last state. *)
LEMMA PartitionHolds == IInv => TableIsPartition
<1> SUFFICES ASSUME IInv, RootHasAll, NEW i \in DOMAIN vector[Root].states
             PROVE  Entry(table[Root], i, {})
                      = {p \in Proc : LastName(p) = NameOf(Root, vector[Root].states[i])}
  BY DEF TableIsPartition
<1>1. Gathered(vector, table[Root], Proc) /\ Root \in Proc
  BY RootTable, RanksAreRelative
<1>2. Entry(table[Root], i, {}) = {p \in Proc : vector[p].index = i}
  BY <1>1 DEF Gathered, RowsOf, Entry
<1>3. ASSUME NEW p \in Proc
      PROVE  /\ vector[p].index \in DOMAIN cast /\ LastName(p) = cast[vector[p].index]
             /\ DOMAIN vector[p].states = DOMAIN cast
             /\ \A j \in DOMAIN cast : NameOf(p, vector[p].states[j]) = cast[j]
  <2>1. vector[p].index # 0 /\ VectorFit(p)
    BY <1>1 DEF Gathered, IInv, Data
  <2>2. QED
    BY <2>1 DEF VectorFit, LastName, NameOf
<1>4. IsInjective(cast)
  BY ByNameLists DEF IInv, Data, DataTypes, NameSets, NameLists
<1>5. i \in DOMAIN cast /\ NameOf(Root, vector[Root].states[i]) = cast[i]
  BY <1>1, <1>3
<1>6. \A p \in Proc : vector[p].index = i <=> LastName(p) = cast[i]
  BY <1>3, <1>4, <1>5 DEF IsInjective
<1>7. QED
  BY <1>2, <1>5, <1>6

(* The types of the variables: ids, places and ranks that occur in the edges,
   the vector, the table and the messages exist. *)
THEOREM TypesAlways == SafeSpec => []TypeOK
<1>1. QED
  BY Invariant, TypesHold, PTL

(* The three reductions, on one communicator and tag and without a barrier
   between them, never mix up their messages. *)
THEOREM PhasesAlwaysMatch == SafeSpec => []PhasesMatch
<1>1. IInv => PhasesMatch
  BY ControlMatches DEF IInv
<1>2. QED
  BY <1>1, Invariant, PTL

(* RangeSet::operator+= never takes a process down in a reduction: no rank
   ever arrives at a process that holds it already. *)
THEOREM NeverOverlaps == SafeSpec => []RangeSetsNeverOverlap
<1>1. IInv => RangeSetsNeverOverlap
  BY DEF IInv, Data, DataTypes, RangeSetsNeverOverlap
<1>2. QED
  BY <1>1, Invariant, PTL

(* Processes that number the states differently agree on the vector of last
   states, and each finds its own last state at its index. *)
THEOREM OneVector == SafeSpec => []SameVectorEverywhere
BY Invariant, SameVectorHolds, PTL

(* When the root goes on to analyse, its RangeSetTable lists each rank in the
   last state it had when the analysis began, and in no other. *)
THEOREM RootTableIsPartition == SafeSpec => []TableIsPartition
BY Invariant, PartitionHolds, PTL

-----------------------------------------------------------------------------
(***************************************************************************)
(* The last reduction is the tree reduction: what the mapped variables are *)
(* follows from where the helper threads are.                              *)
(***************************************************************************)

LevelOf(p) == IF Before(p) THEN 1 ELSE mask[p]
InFlight(s, d) == TreeEdge(s, d) /\ SentBy(s) = 6 /\ TakenFrom(s, d) < 6
Parcel(s, d) == [from |-> s, to |-> d, merged |-> Span(s, s - d)]
Mapping ==
  /\ tableMerged = [p \in Proc |-> Span(p, LevelOf(p))]
  /\ \A m : m \in tableNet <=> \E s, d \in Proc : InFlight(s, d) /\ m = Parcel(s, d)

(* The ranks of a table. *)
LEMMA RanksOfRows ==
  ASSUME NEW v, NEW rows, NEW ranks, Gathered(v, rows, ranks)
  PROVE  Ranks(rows) = ranks
<1>1. rows = [i \in {v[q].index : q \in ranks} |-> {q \in ranks : v[q].index = i}]
  BY DEF Gathered, RowsOf
<1>2. \A q \in ranks : v[q].index \in DOMAIN rows /\ q \in rows[v[q].index]
  BY <1>1
<1>3. \A i \in DOMAIN rows : rows[i] \subseteq ranks
  BY <1>1
<1>4. QED
  BY <1>2, <1>3 DEF Ranks

(* A table on its way along an edge, if any, is that of the sender's ranks. *)
LEMMA TableMessages ==
  ASSUME IInv, NEW s \in Proc, NEW d \in Proc
  PROVE  /\ ~InFlight(s, d) => TableData(<<s, d>>) = {}
         /\ InFlight(s, d) => /\ TableData(<<s, d>>) # {}
                              /\ \A k \in TableData(<<s, d>>) : Ranks(chan[<<s, d>>][k].body) = Span(s, s - d)
<1> DEFINE c == chan[<<s, d>>]
           n == TakenFrom(s, d)
<1>1. /\ c \in Seq(Wire)
      /\ TreeEdge(s, d) => Len(c) = SentBy(s) - n /\ InOrderFrom(c, n)
      /\ ~TreeEdge(s, d) => c = <<>>
      /\ SentBy(s) \in 0 .. 6 /\ n \in 0 .. 6
  BY ChannelsOf DEF IInv
<1>2. DOMAIN c = 1 .. Len(c) /\ Len(c) \in Nat
  BY <1>1
<1>3. TableData(<<s, d>>) = {k \in DOMAIN c : c[k].phase = "table" /\ c[k].kind = "data"}
  BY DEF TableData
<1>4. PayloadFits(s, d)
  BY DEF IInv, Data
<1> HIDE DEF n
<1>5. ASSUME TreeEdge(s, d), NEW k \in 1 .. Len(c)
      PROVE  (c[k].phase = "table" /\ c[k].kind = "data") <=> n + k = 6
  <2>1. IsMessage(c[k], n + k)
    BY <1>1, <1>5 DEF InOrderFrom
  <2>2. n + k \in 1 .. 6
    BY <1>1, <1>2, <1>5
  <2>3. QED
    BY <2>1, <2>2 DEF IsMessage
<1>6. ASSUME NEW k \in TableData(<<s, d>>) PROVE Ranks(c[k].body) = Span(s, s - d)
  <2>1. BodyFits(vector, c[k], Span(s, s - d)) /\ c[k].phase = "table"
    BY <1>2, <1>3, <1>4 DEF PayloadFits
  <2>2. QED
    BY <2>1, RanksOfRows DEF BodyFits
<1>7. CASE ~TreeEdge(s, d)
  BY <1>1, <1>3, <1>7 DEF InFlight
<1>8. CASE TreeEdge(s, d)
  <2>1. Len(c) = SentBy(s) - n
    BY <1>1, <1>8
  <2>2. CASE SentBy(s) = 6 /\ n < 6
    <3>1. 6 - n \in 1 .. Len(c) /\ n + (6 - n) = 6
      BY <1>1, <2>1, <2>2
    <3>2. 6 - n \in TableData(<<s, d>>)
      BY <1>2, <1>3, <1>5, <1>8, <3>1
    <3>3. QED
      BY <1>6, <1>8, <2>2, <3>2 DEF InFlight, n
  <2>3. CASE SentBy(s) # 6 \/ n >= 6
    <3>1. \A k \in 1 .. Len(c) : n + k # 6
      BY <1>1, <2>1, <2>3
    <3>2. TableData(<<s, d>>) = {}
      BY <1>2, <1>3, <1>5, <1>8, <3>1
    <3>3. ~InFlight(s, d)
      BY <1>1, <2>3 DEF InFlight, n
    <3>4. QED
      BY <3>2, <3>3
  <2>4. QED
    BY <1>1, <2>2, <2>3
<1>9. QED
  BY <1>7, <1>8

(* The mapped variables, in terms of levels and edges. *)
LEMMA Mapped == IInv => Mapping
<1> SUFFICES ASSUME IInv PROVE Mapping
  OBVIOUS
<1>1. ASSUME NEW p \in Proc
      PROVE  (IF Before(p) THEN {p} ELSE Ranks(table[p])) = Span(p, LevelOf(p))
  <2>1. CASE Before(p)
    BY <2>1, Spans DEF LevelOf
  <2>2. CASE ~Before(p)
    <3>1. Gathered(vector, table[p], Span(p, mask[p]))
      BY <2>2 DEF IInv, Data, TableFit, Before
    <3>2. QED
      BY <2>2, <3>1, RanksOfRows DEF LevelOf
  <2>3. QED
    BY <2>1, <2>2
<1>2. tableMerged = [p \in Proc |-> Span(p, LevelOf(p))]
  BY <1>1 DEF tableMerged
<1> DEFINE At(s, d) == {[from |-> s, to |-> d, merged |-> Ranks(chan[<<s, d>>][k].body)] :
                          k \in TableData(<<s, d>>)}
<1>3. DOMAIN chan = Proc \X Proc
  BY DEF IInv, Control, ControlTypes
<1>4. \A m : m \in tableNet <=> \E s, d \in Proc : m \in At(s, d)
  <2>1. \A m : m \in tableNet <=>
          \E pair \in Proc \X Proc : \E k \in TableData(pair) :
             m = [from |-> pair[1], to |-> pair[2], merged |-> Ranks(chan[pair][k].body)]
    BY <1>3 DEF tableNet
  <2>2. ASSUME NEW m, m \in tableNet PROVE \E s, d \in Proc : m \in At(s, d)
    <3>1. PICK pair \in Proc \X Proc : \E k \in TableData(pair) :
             m = [from |-> pair[1], to |-> pair[2], merged |-> Ranks(chan[pair][k].body)]
      BY <2>1, <2>2
    <3>2. PICK s \in Proc, d \in Proc : pair = <<s, d>>
      OBVIOUS
    <3>3. pair[1] = s /\ pair[2] = d
      BY <3>2
    <3>4. m \in At(s, d)
      BY <3>1, <3>2, <3>3
    <3>5. QED
      BY <3>4
  <2>3. ASSUME NEW m, NEW s \in Proc, NEW d \in Proc, m \in At(s, d) PROVE m \in tableNet
    <3>1. <<s, d>> \in Proc \X Proc /\ <<s, d>>[1] = s /\ <<s, d>>[2] = d
      OBVIOUS
    <3>2. PICK k \in TableData(<<s, d>>) :
            m = [from |-> s, to |-> d, merged |-> Ranks(chan[<<s, d>>][k].body)]
      BY <2>3
    <3>3. QED
      BY <2>1, <3>1, <3>2
  <2> HIDE DEF At
  <2>4. QED
    BY <2>2, <2>3
<1>5. ASSUME NEW s \in Proc, NEW d \in Proc, NEW m
      PROVE  m \in At(s, d) <=> InFlight(s, d) /\ m = Parcel(s, d)
  BY TableMessages DEF Parcel
<1> HIDE DEF At
<1>6. \A m : m \in tableNet <=> \E s, d \in Proc : InFlight(s, d) /\ m = Parcel(s, d)
  BY <1>4, <1>5
<1>7. QED
  BY <1>2, <1>6 DEF Mapping

StatusOf(p) ==
  IF Before(p) \/ (phase[p] = "table" /\ io[p] # "sent") THEN "looping"
  ELSE IF phase[p] = "table" THEN "sending" ELSE "done"

(* All the tree reduction sees of the processes. *)
Seen ==
  /\ tableMask = [p \in Proc |-> LevelOf(p)]
  /\ tableStatus = [p \in Proc |-> StatusOf(p)]
  /\ \A s, d \in Proc :
       InFlight(s, d) <=> /\ TreeEdge(s, d)
                          /\ StatusOf(s) # "looping"
                          /\ StatusOf(d) # "done"
                          /\ LevelOf(d) <= s - d

(* In every state of the analysis that is what it sees. *)
LEMMA Views == IInv => Seen
<1> SUFFICES ASSUME IInv PROVE Seen
  OBVIOUS
<1>1. Control
  BY DEF IInv
<1>2. ASSUME NEW s \in Proc
      PROVE  SentBy(s) = 6 <=> StatusOf(s) # "looping"
  <2>1. phase[s] \in Phases /\ io[s] \in {"loop", "receiving", "sized", "sent"}
    BY <1>1 DEF Control, ControlTypes
  <2>2. phase[s] \notin Reductions => io[s] = "loop"
    BY <1>1 DEF Control, MasksFit
  <2>3. QED
    BY <2>1, <2>2 DEF SentBy, StatusOf, Before, Earlier, Early, Reductions, Phases
<1>3. ASSUME NEW s \in Proc, NEW d \in Proc, TreeEdge(s, d)
      PROVE  TakenFrom(s, d) < 6 <=> StatusOf(d) # "done" /\ LevelOf(d) <= s - d
  <2>1. s - d \in Nat \ {0} /\ mask[d] \in Nat
    BY <1>1, <1>3, EdgeBelow, MaskOf
  <2>2. phase[d] \in Phases
    BY <1>1 DEF Control, ControlTypes
  <2>3. CASE Before(d)
    <3>1. TakenFrom(s, d) <= 4 /\ LevelOf(d) = 1 /\ StatusOf(d) = "looping"
      BY <2>2, <2>3
      DEF TakenFrom, StatusOf, LevelOf, Before, Earlier, Early, Reductions, Phases
    <3>2. TakenFrom(s, d) \in 0 .. 6
      BY <1>1, ChannelsOf
    <3>3. QED
      BY <2>1, <3>1, <3>2
  <2>4. CASE phase[d] = "table"
    <3>1. LevelOf(d) = mask[d] /\ StatusOf(d) # "done"
      BY <2>4 DEF LevelOf, Before, StatusOf
    <3>2. TakenFrom(s, d) = 4 + (IF mask[d] < s - d THEN 0 ELSE IF mask[d] > s - d THEN 2
                                 ELSE IF io[d] = "receiving" THEN 1 ELSE 0)
      BY <2>4 DEF TakenFrom, Earlier, Early, Reductions
    <3>3. QED
      BY <2>1, <3>1, <3>2
  <2>5. CASE phase[d] \in {"barrier", "done"}
    BY <2>5 DEF TakenFrom, StatusOf, Before, Earlier, Early, Reductions
  <2>6. QED
    BY <2>3, <2>4, <2>5 DEF Before
<1>4. QED
  BY <1>2, <1>3 DEF Seen, tableMask, tableStatus, LevelOf, StatusOf, InFlight

(* What a step changes of it. *)
LEMMA ViewStep ==
  ASSUME IInv, NEW p \in Proc, StepOf(p)
  PROVE  /\ IInv' /\ Mapping /\ Mapping'
         /\ \A q \in Proc \ {p} : LevelOf(q)' = LevelOf(q) /\ StatusOf(q)' = StatusOf(q)
         /\ tableMask' = [tableMask EXCEPT ![p] = LevelOf(p)']
         /\ tableStatus' = [tableStatus EXCEPT ![p] = StatusOf(p)']
         /\ tableMerged' = [tableMerged EXCEPT ![p] = Span(p, LevelOf(p)')]
         /\ \A s, d \in Proc :
              InFlight(s, d)' <=> /\ TreeEdge(s, d)
                                  /\ StatusOf(s)' # "looping"
                                  /\ StatusOf(d)' # "done"
                                  /\ LevelOf(d)' <= s - d
<1>1. IInv'
  BY InvStep
<1>2. Mapping
  BY Mapped
<1>3. Mapping'
  BY <1>1, Mapped, PTL
<1>4. ASSUME NEW q \in Proc \ {p}
      PROVE  LevelOf(q)' = LevelOf(q) /\ StatusOf(q)' = StatusOf(q)
  <2>1. phase'[q] = phase[q] /\ io'[q] = io[q] /\ mask'[q] = mask[q]
    BY OthersKept
  <2>2. QED
    BY <2>1 DEF LevelOf, StatusOf, Before
<1>5. Seen
  BY Views
<1>6. Seen'
  BY <1>1, Views, PTL
<1>7. QED
  BY <1>1, <1>2, <1>3, <1>4, <1>5, <1>6 DEF Mapping, Seen

(* A step that leaves level and status alone is none of the tree reduction. *)
LEMMA Stutters ==
  ASSUME IInv, NEW p \in Proc, StepOf(p),
         LevelOf(p)' = LevelOf(p), StatusOf(p)' = StatusOf(p)
  PROVE  UNCHANGED TableReduction!vars
<1>1. \A q \in Proc : LevelOf(q)' = LevelOf(q) /\ StatusOf(q)' = StatusOf(q)
  BY ViewStep
<1>2. \A s, d \in Proc : InFlight(s, d)' <=> InFlight(s, d)
  BY <1>1, ViewStep, Views DEF Seen
<1>3. UNCHANGED <<tableMask, tableStatus, tableMerged>>
  BY <1>1, ViewStep, Views DEF Seen, Mapping
<1>4. \A m : m \in tableNet' <=> m \in tableNet
  BY <1>2, ViewStep DEF Mapping, Parcel
<1>5. tableNet' = tableNet
  BY <1>4
<1>6. QED
  BY <1>3, <1>5 DEF TableReduction!vars

-----------------------------------------------------------------------------
(***************************************************************************)
(* Each step of a process in its last reduction is a step of the tree      *)
(* reduction.                                                              *)
(***************************************************************************)

(* Both trees are one. *)
LEMMA SameTree ==
  /\ TableReduction!Proc = Proc
  /\ \A r, m : TableReduction!BitSet(r, m) <=> BitSet(r, m)
  /\ \A p, m : /\ TableReduction!Source(p, m) = Source(p, m)
               /\ TableReduction!SourceRank(p, m) = SourceRank(p, m)
               /\ TableReduction!DestinationRank(p, m) = DestinationRank(p, m)
  /\ \A p : TableReduction!RelRank(p) = RelRank(p)
BY DEF TableReduction!Proc, TableReduction!BitSet, TableReduction!Source,
  TableReduction!SourceRank, TableReduction!DestinationRank, TableReduction!RelRank,
  TableReduction!RankOf, Proc, BitSet, Source, SourceRank, DestinationRank, RelRank, RankOf

(* A process in the last reduction, on both sides. *)
LEMMA AtTable ==
  ASSUME IInv, NEW p \in Proc, phase[p] = "table"
  PROVE  /\ LevelOf(p) = mask[p] /\ tableMask[p] = mask[p]
         /\ tableStatus[p] = (IF io[p] = "sent" THEN "sending" ELSE "looping")
         /\ tableMerged[p] = Span(p, mask[p])
         /\ mask[p] \in Masks /\ mask[p] \in Nat \ {0} /\ p \in Nat /\ N \in Nat
         /\ p % mask[p] = 0 /\ p < N
         /\ phase[p] \in Reductions
         /\ tableStatus \in [Proc -> {"looping", "sending", "done"}]
         /\ DOMAIN tableMask = Proc /\ DOMAIN tableMerged = Proc
<1>1. Mapping /\ Seen
  BY Mapped, Views
<1>2. /\ mask[p] \in Masks /\ mask[p] \in Nat \ {0} /\ p \in Nat /\ N \in Nat
      /\ phase[p] \in Reductions /\ p % mask[p] = 0 /\ p < N
  BY MaskOf DEF IInv, Reductions, Proc
<1>3. LevelOf(p) = mask[p]
  BY DEF LevelOf, Before
<1>4. StatusOf(p) = (IF io[p] = "sent" THEN "sending" ELSE "looping")
  BY DEF StatusOf, Before
<1>5. \A q \in Proc : StatusOf(q) \in {"looping", "sending", "done"}
  BY DEF StatusOf
<1>6. QED
  BY <1>1, <1>2, <1>3, <1>4, <1>5 DEF Mapping, Seen

(* Skip is Skip. *)
LEMMA SkipMaps ==
  ASSUME IInv, NEW p \in Proc, Skip(p), phase[p] = "table"
  PROVE  TableReduction!Skip(p)
<1>1. StepOf(p)
  BY DEF StepOf, Reduce
<1> DEFINE m == mask[p]
<1>2. /\ io[p] = "loop" /\ m < N /\ ~BitSet(RelRank(p), m) /\ Source(p, m) >= N
      /\ phase' = phase /\ io' = io /\ mask'[p] = 2 * m
  BY DEF Skip, Receives, Looping, Reducing, IInv, Control, ControlTypes
<1>3. p + m >= N
  BY <1>2, RanksAreRelative DEF Source
<1>4. LevelOf(p)' = 2 * m /\ StatusOf(p)' = StatusOf(p)
  BY <1>2 DEF LevelOf, StatusOf, Before
<1>5. tableMask' = [tableMask EXCEPT ![p] = 2 * @] /\ tableStatus' = tableStatus
  BY <1>1, <1>4, AtTable, ViewStep, Views DEF Seen
<1>6. tableMerged' = tableMerged
  BY <1>1, <1>3, <1>4, AtTable, ViewStep, Spans, Views DEF Seen, Mapping
<1>7. ASSUME NEW s \in Proc, NEW d \in Proc
      PROVE  InFlight(s, d)' <=> InFlight(s, d)
  <2> SUFFICES ASSUME TreeEdge(s, d), d = p
               PROVE  2 * m <= s - d <=> m <= s - d
    BY <1>1, <1>4, ViewStep, Views, AtTable DEF Seen
  <2>1. s < N /\ s \in Nat
    BY AtTable DEF Proc
  <2>2. QED
    BY <1>3, <2>1, AtTable
<1>8. \A x : x \in tableNet' <=> x \in tableNet
  BY <1>1, <1>7, ViewStep DEF Mapping, Parcel
<1>9. tableNet' = tableNet
  BY <1>8
<1>10. TableReduction!Looping(p)
  BY <1>2, AtTable DEF TableReduction!Looping
<1>11. QED
  BY <1>2, <1>5, <1>6, <1>9, <1>10, SameTree, AtTable DEF TableReduction!Skip

(* ReceiveData takes the child's parcel. *)
LEMMA ReceiveMaps ==
  ASSUME IInv, NEW p \in Proc, ReceiveData(p), phase[p] = "table"
  PROVE  TableReduction!Receive(p)
<1>1. StepOf(p)
  BY DEF StepOf, Reduce
<1> DEFINE m == mask[p]
           r == p + m
<1>2. /\ io[p] = "receiving" /\ chan[Incoming(p)] # <<>>
      /\ phase' = phase /\ io'[p] = "loop" /\ mask'[p] = 2 * m
  BY DEF ReceiveData, IInv, Control, ControlTypes
<1>3. ~BitSet(p, m) /\ p + m < N
  BY <1>2 DEF IInv, Control, MasksFit
<1>4. /\ r \in Proc /\ r - p = m /\ TreeEdge(r, p) /\ SourceRank(p, m) = r
      /\ Incoming(p) = <<r, p>> /\ TakenFrom(r, p) = 5
  <2>1. TakenFrom(r, p) = Earlier(phase[p]) + 1 /\ Earlier(phase[p]) = 4
    BY <1>2, <1>3, AtTable, ReceivingEdge DEF IInv, Earlier, Early
  <2>2. QED
    BY <1>3, <2>1, AtTable, ReceivingEdge, EdgeToSource DEF IInv
<1>5. InFlight(r, p)
  <2>1. Len(chan[<<r, p>>]) = SentBy(r) - 5 /\ SentBy(r) \in 0 .. 6
        /\ chan[<<r, p>>] \in Seq(Wire) /\ chan[<<r, p>>] # <<>>
    BY <1>2, <1>4, ChannelsOf DEF IInv
  <2>2. Len(chan[<<r, p>>]) \in Nat \ {0}
    BY <2>1
  <2>3. SentBy(r) = 6
    BY <2>1, <2>2
  <2>4. QED
    BY <1>4, <2>3 DEF InFlight
<1>6. LevelOf(p)' = 2 * m /\ StatusOf(p)' = StatusOf(p) /\ StatusOf(p) = "looping"
  BY <1>2 DEF LevelOf, StatusOf, Before
<1>7. tableMask' = [tableMask EXCEPT ![p] = 2 * @] /\ tableStatus' = tableStatus
  BY <1>1, <1>6, AtTable, ViewStep, Views DEF Seen
<1>8. tableMerged' = [tableMerged EXCEPT ![p] = @ \cup Parcel(r, p).merged]
  <2>1. Parcel(r, p).merged = Span(r, m)
    BY <1>4 DEF Parcel
  <2>2. Span(p, 2 * m) = Span(p, m) \cup Span(r, m)
    BY AtTable, Spans
  <2>3. QED
    BY <1>1, <1>6, <2>1, <2>2, AtTable, ViewStep
<1>9. ASSUME NEW s \in Proc, NEW d \in Proc
      PROVE  InFlight(s, d)' <=> InFlight(s, d) /\ <<s, d>> # <<r, p>>
  <2>1. CASE d # p
    BY <1>1, <1>6, <2>1, ViewStep, Views DEF Seen
  <2>2. CASE ~TreeEdge(s, d)
    BY <1>1, <2>2, ViewStep DEF InFlight
  <2>3. CASE d = p /\ TreeEdge(s, d)
    <3>1. s - p \in Masks /\ s - p \in Nat /\ m \in Masks /\ m \in Nat \ {0} /\ s \in Nat /\ p \in Nat
      BY <2>3, EdgeBelow, AtTable DEF Proc
    <3>2. 2 * m <= s - p <=> m <= s - p /\ s # r
      <4>1. m < s - p => 2 * m <= s - p
        BY <3>1, MaskAbove
      <4>2. QED
        BY <3>1, <4>1
    <3>3. QED
      BY <1>1, <1>6, <2>3, <3>2, ViewStep, Views, AtTable DEF Seen
  <2>4. QED
    BY <2>1, <2>2, <2>3
<1>10. tableNet' = tableNet \ {Parcel(r, p)} /\ Parcel(r, p) \in tableNet
  <2>1. \A s, d \in Proc : Parcel(s, d) = Parcel(r, p) <=> <<s, d>> = <<r, p>>
    BY DEF Parcel
  <2>2. Mapping /\ Mapping' /\ \A s, d : Parcel(s, d)' = Parcel(s, d)
    BY <1>1, ViewStep DEF Parcel
  <2>3. Parcel(r, p) \in tableNet
    BY <1>4, <1>5, <2>2 DEF Mapping
  <2> HIDE DEF r
  <2>4. \A x : x \in tableNet' <=> x \in tableNet /\ x # Parcel(r, p)
    BY <1>9, <2>1, <2>2 DEF Mapping
  <2>5. QED
    BY <2>3, <2>4
<1>11. TableReduction!Looping(p)
  BY <1>2, <1>3, AtTable DEF TableReduction!Looping
<1>12. Parcel(r, p).from = r /\ Parcel(r, p).to = p
  BY DEF Parcel
<1>13. RelRank(p) = p /\ Source(p, m) = p + m
  BY RanksAreRelative DEF Source
<1> HIDE DEF r
<1>14. QED
  BY <1>3, <1>4, <1>7, <1>8, <1>10, <1>11, <1>12, <1>13, SameTree, AtTable DEF TableReduction!Receive

(* SendData hands its own to the parent. *)
LEMMA SendMaps ==
  ASSUME IInv, NEW p \in Proc, SendData(p), phase[p] = "table"
  PROVE  TableReduction!Send(p)
<1>1. StepOf(p)
  BY DEF StepOf, SendStep
<1> DEFINE m == mask[p]
<1>2. /\ io[p] = "sized" /\ phase' = phase /\ mask' = mask /\ io'[p] = "sent"
  BY DEF SendData, IInv, Control, ControlTypes
<1>3. BitSet(p, m)
  BY <1>2 DEF IInv, Control, MasksFit
<1>4. PICK d \in Proc :
      /\ d = p - m /\ p - d = m /\ TreeEdge(p, d) /\ DestinationRank(p, m) = d
      /\ \A t \in Proc : TreeEdge(p, t) => t = d
      /\ m < N
  BY <1>3, AtTable, EdgeToParent
<1>5. /\ LevelOf(p)' = LevelOf(p) /\ StatusOf(p)' = "sending" /\ StatusOf(p) = "looping"
  BY <1>2 DEF LevelOf, StatusOf, Before
<1>6. TakenFrom(p, d) < 6
  <2>1. /\ Len(chan[<<p, d>>]) = SentBy(p) - TakenFrom(p, d) /\ chan[<<p, d>>] \in Seq(Wire)
        /\ TakenFrom(p, d) \in 0 .. 6
    BY <1>4, ChannelsOf DEF IInv
  <2>2. SentBy(p) = 5
    BY <1>2 DEF SentBy, Earlier, Early
  <2>3. Len(chan[<<p, d>>]) \in Nat
    BY <2>1
  <2>4. QED
    BY <2>1, <2>2, <2>3
<1>7. d # p /\ m \in Nat \ {0}
  BY <1>4, AtTable
<1>8. ASSUME NEW s \in Proc, NEW t \in Proc
      PROVE  InFlight(s, t)' <=> InFlight(s, t) \/ <<s, t>> = <<p, d>>
  <2>1. CASE ~TreeEdge(s, t)
    BY <1>1, <1>4, <2>1, ViewStep DEF InFlight
  <2>2. CASE TreeEdge(s, t) /\ s # p
    BY <1>1, <1>5, <2>2, ViewStep, Views DEF Seen
  <2>3. CASE TreeEdge(s, t) /\ s = p
    <3>1. t = d
      BY <1>4, <2>3
    <3>2. StatusOf(d)' # "done" /\ LevelOf(d)' <= p - d
      <4>1. phase'[d] = phase[d] /\ mask'[d] = mask[d] /\ io'[d] = io[d]
        BY <1>1, <1>4, <1>7, OthersKept
      <4>2. TakenFrom(p, d)' < 6
        BY <1>6, <4>1 DEF TakenFrom
      <4>3. SentBy(p)' = 6
        BY <1>2 DEF SentBy, Earlier, Early
      <4>4. InFlight(p, d)'
        BY <1>4, <4>2, <4>3 DEF InFlight
      <4>5. QED
        BY <1>1, <1>4, <4>4, ViewStep
    <3>3. InFlight(p, d)'
      BY <1>1, <1>4, <1>5, <3>2, ViewStep
    <3>4. QED
      BY <2>3, <3>1, <3>3
  <2>4. QED
    BY <2>1, <2>2, <2>3
<1>9. tableNet' = tableNet \cup {Parcel(p, d)}
  <2>1. Mapping /\ Mapping' /\ \A s, t : Parcel(s, t)' = Parcel(s, t)
    BY <1>1, ViewStep DEF Parcel
  <2>2. \A x : x \in tableNet' <=> x \in tableNet \/ x = Parcel(p, d)
    BY <1>4, <1>8, <2>1 DEF Mapping
  <2>3. QED
    BY <2>2
<1>10. Parcel(p, d) = [from |-> p, to |-> d, merged |-> tableMerged[p]]
  BY <1>4, AtTable DEF Parcel
<1>11. tableMask' = tableMask /\ tableMerged' = tableMerged
  BY <1>1, <1>5, AtTable, ViewStep, Views DEF Seen, Mapping
<1>12. tableStatus' = [tableStatus EXCEPT ![p] = "sending"]
  BY <1>1, <1>5, ViewStep
<1>13. TableReduction!Looping(p)
  BY <1>2, <1>4, AtTable DEF TableReduction!Looping
<1>14. RelRank(p) = p
  BY RanksAreRelative
<1>15. QED
  BY <1>3, <1>4, <1>9, <1>10, <1>11, <1>12, <1>13, <1>14, SameTree, AtTable DEF TableReduction!Send

(* reduce() returns: nothing was on its way to the process. *)
LEMMA ReturnMaps ==
  ASSUME IInv, NEW p \in Proc, SendReturns(p) \/ LoopEnds(p), phase[p] = "table"
  PROVE  TableReduction!SendReturns(p) \/ TableReduction!LoopEnds(p)
<1>1. StepOf(p)
  BY DEF StepOf, SendStep, Reduce
<1>2. /\ phase'[p] = "barrier" /\ mask' = mask
      /\ \/ SendReturns(p) /\ io[p] = "sent"
         \/ LoopEnds(p) /\ io[p] = "loop" /\ mask[p] >= N
  BY DEF SendReturns, LoopEnds, GoTo, After, loop, IInv, Control, ControlTypes
<1>3. LevelOf(p)' = LevelOf(p) /\ StatusOf(p)' = "done" /\ StatusOf(p) = tableStatus[p]
  <2>1. LevelOf(p)' = LevelOf(p) /\ StatusOf(p)' = "done"
    BY <1>2 DEF LevelOf, StatusOf, Before
  <2>2. StatusOf(p) = tableStatus[p]
    BY Views DEF Seen
  <2>3. QED
    BY <2>1, <2>2
<1>4. ASSUME NEW s \in Proc, TreeEdge(s, p) PROVE ~(mask[p] <= s - p)
  <2>1. s - p \in Nat /\ s < N /\ p \in Nat /\ s \in Nat
    BY <1>4, EdgeBelow, AtTable DEF Proc
  <2>2. CASE io[p] = "sent"
    <3>1. BitSet(p, mask[p])
      BY <2>2 DEF IInv, Control, MasksFit
    <3>2. QED
      BY <1>4, <2>1, <3>1, AtTable, ChildrenBelow
  <2>3. CASE mask[p] >= N
    BY <2>1, <2>3, AtTable
  <2>4. QED
    BY <1>2, <2>2, <2>3
<1>5. ASSUME NEW d \in Proc, TreeEdge(p, d) PROVE StatusOf(p) # "looping"
  <2>1. CASE io[p] = "sent"
    BY <1>3, <2>1, AtTable
  <2>2. CASE mask[p] >= N
    <3>1. p = Root
      BY <2>2, AtTable, OnlyRootRunsOut DEF IInv
    <3>2. p - d \in Nat \ {0} /\ p = 0 /\ d \in Nat
      BY <1>5, <3>1, EdgeBelow, RanksAreRelative DEF Proc
    <3>3. QED
      BY <3>2
  <2>3. QED
    BY <1>2, <2>1, <2>2
<1>6. ASSUME NEW s \in Proc, NEW d \in Proc
      PROVE  InFlight(s, d)' <=> InFlight(s, d)
  <2>1. CASE ~TreeEdge(s, d)
    BY <1>1, <2>1, ViewStep DEF InFlight
  <2>2. CASE TreeEdge(s, d) /\ d = p
    BY <1>1, <1>3, <1>4, <2>2, ViewStep, Views, AtTable DEF Seen
  <2>3. CASE TreeEdge(s, d) /\ d # p
    BY <1>1, <1>3, <1>5, <2>3, ViewStep, Views DEF Seen
  <2>4. QED
    BY <2>1, <2>2, <2>3
<1>7. tableNet' = tableNet
  <2>1. \A x : x \in tableNet' <=> x \in tableNet
    BY <1>1, <1>6, ViewStep DEF Mapping, Parcel
  <2>2. QED
    BY <2>1
<1>8. tableMask' = tableMask /\ tableMerged' = tableMerged
  BY <1>1, <1>3, AtTable, ViewStep, Views DEF Seen, Mapping
<1>9. tableStatus' = [tableStatus EXCEPT ![p] = "done"]
  BY <1>1, <1>3, ViewStep
<1>10. QED
  BY <1>2, <1>7, <1>8, <1>9, AtTable DEF TableReduction!SendReturns, TableReduction!LoopEnds

-----------------------------------------------------------------------------
(***************************************************************************)
(* Every other step is none.                                               *)
(***************************************************************************)

(* All steps of a process. *)
LEMMA StepMaps ==
  ASSUME IInv, NEW p \in Proc, StepOf(p)
  PROVE  TableReduction!Next \/ UNCHANGED TableReduction!vars
<1> USE DEF IInv, Control, ControlTypes, GoTo, loop
<1>1. ASSUME UNCHANGED <<phase, io, mask>> PROVE UNCHANGED TableReduction!vars
  BY <1>1, Stutters DEF LevelOf, StatusOf, Before
<1>2. ASSUME Before(p), Before(p)' PROVE UNCHANGED TableReduction!vars
  BY <1>2, Stutters DEF LevelOf, StatusOf
<1>3. CASE RecordLate(p) \/ EnterBarrier(p)
  BY <1>1, <1>3 DEF RecordLate, EnterBarrier
<1>4. CASE LeaveGather(p) \/ GetLastState(p)
  BY <1>2, <1>4 DEF LeaveGather, GetLastState, In, Before
<1>5. CASE Annotate(p)
  BY <1>2, <1>5 DEF Annotate, In, Before
<1>6. CASE ReceiveBroadcast(p) \/ (p = Root /\ Broadcast)
  BY <1>2, <1>6 DEF ReceiveBroadcast, Broadcast, TakeList, In, Before
<1>7. CASE CopyEdges(p)
  BY <1>2, <1>7 DEF CopyEdges, In, Before
<1>8. CASE NewTable(p)
  <2>1. phase[p] = "newTable" /\ phase'[p] = "table" /\ mask'[p] = 1 /\ io' = io /\ io[p] = "loop"
    BY <1>8 DEF NewTable, In, MasksFit, Reductions
  <2>2. QED
    BY <2>1, Stutters DEF LevelOf, StatusOf, Before
<1>9. CASE LeaveBarrier(p)
  <2>1. phase[p] = "barrier" /\ phase'[p] = "done" /\ mask' = mask
    BY <1>9 DEF LeaveBarrier, In
  <2>2. QED
    BY <2>1, Stutters DEF LevelOf, StatusOf, Before
<1>10. CASE Reduce(p) \/ SendStep(p)
  <2>1. phase[p] \in Reductions
    BY <1>10 DEF Reduce, SendStep, Skip, ReceiveSize, ReceiveData, SendSize, LoopEnds, SendData,
      SendReturns, Receives, Looping, Reducing
  <2>2. CASE phase[p] # "table"
    <3>1. phase'[p] \in {phase[p], After(phase[p])}
      BY <1>10 DEF Reduce, SendStep, Skip, ReceiveSize, ReceiveData, SendSize, LoopEnds, SendData,
        SendReturns
    <3>2. Before(p) /\ Before(p)'
      BY <2>1, <2>2, <3>1 DEF Before, After, Reductions
    <3>3. QED
      BY <1>2, <3>2
  <2>3. CASE phase[p] = "table"
    <3>1. TableReduction!Proc = Proc
      BY SameTree
    <3>2. CASE Skip(p)
      BY <2>3, <3>1, <3>2, SkipMaps DEF TableReduction!Next, TableReduction!Step
    <3>3. CASE ReceiveData(p)
      BY <2>3, <3>1, <3>3, ReceiveMaps DEF TableReduction!Next, TableReduction!Step
    <3>4. CASE SendData(p)
      BY <2>3, <3>1, <3>4, SendMaps DEF TableReduction!Next, TableReduction!Step
    <3>5. CASE SendReturns(p) \/ LoopEnds(p)
      BY <2>3, <3>1, <3>5, ReturnMaps DEF TableReduction!Next, TableReduction!Step
    <3>6. CASE ReceiveSize(p) \/ SendSize(p)
      <4>1. /\ phase' = phase /\ mask' = mask
            /\ io[p] # "sent" /\ io'[p] # "sent"
        BY <3>6 DEF ReceiveSize, SendSize, Receives, Looping
      <4>2. QED
        BY <2>3, <4>1, Stutters DEF LevelOf, StatusOf, Before
    <3>7. QED
      BY <1>10, <3>2, <3>3, <3>4, <3>5, <3>6 DEF Reduce, SendStep
  <2>4. QED
    BY <2>2, <2>3
<1>11. QED
  BY <1>3, <1>4, <1>5, <1>6, <1>7, <1>8, <1>9, <1>10 DEF StepOf, Advance

(* Nobody has reduced anything at first. *)
LEMMA InitMaps == Init => TableReduction!Init
<1> SUFFICES ASSUME Init PROVE TableReduction!Init
  OBVIOUS
<1>1. Mapping /\ Seen
  BY InvInit, Mapped, Views
<1>2. \A p \in Proc : LevelOf(p) = 1 /\ StatusOf(p) = "looping"
  BY DEF Init, LevelOf, StatusOf, Before
<1>3. tableNet = {}
  BY <1>1, <1>2 DEF Mapping, Seen
<1>4. /\ tableMask = [p \in Proc |-> 1] /\ tableStatus = [p \in Proc |-> "looping"]
      /\ tableMerged = [p \in Proc |-> {p}]
  BY <1>1, <1>2, Spans DEF Mapping, Seen
<1>5. QED
  BY <1>3, <1>4, SameTree DEF TableReduction!Init

(* All steps. *)
LEMMA NextMaps == IInv /\ [Next]_vars => [TableReduction!Next]_(TableReduction!vars)
<1> SUFFICES ASSUME IInv, [Next]_vars
             PROVE  TableReduction!Next \/ UNCHANGED TableReduction!vars
  OBVIOUS
<1>1. CASE Next
  BY <1>1, Steps, StepMaps
<1>2. CASE UNCHANGED vars
  BY <1>2 DEF vars, TableReduction!vars, tableMask, tableStatus, tableMerged, tableNet,
    TableData, Before, Ranks
<1>3. QED
  BY <1>1, <1>2

(* The last reduction of the analysis, entered by processes one by one while
   messages of the earlier ones are on their way, implements the tree
   reduction: what is proved of BinomialReducer holds of it. *)
THEOREM TableReductionRefined == SafeSpec => ImplementsTreeReduction
BY Invariant, InitMaps, NextMaps, PTL
DEF SafeSpec, ImplementsTreeReduction, TableReduction!SafeSpec

-----------------------------------------------------------------------------
(***************************************************************************)
(* The sum of the edges.  Names identify the edges of different processes; *)
(* the state ids of one process do not mean anything to another.           *)
(***************************************************************************)

(* What a model has between two names: the annotation of the edge between
   their ids, or nothing. *)
Nothing == [count |-> 0, tasks |-> NoTasks]
Share(names, map, a, b) == Entry(map, <<IdOf(names, a), IdOf(names, b)>>, Nothing)

(* EdgeAnnotation::operator+: the counts add up, and the ranks under each
   count unite. *)
Adds(x, y, z) ==
  /\ z.count = x.count + y.count
  /\ \A c \in Nat : Entry(z.tasks, c, {}) = Entry(x.tasks, c, {}) \cup Entry(y.tasks, c, {})

(* The annotation of an edge between two names. *)
LEMMA ShareTyped ==
  ASSUME NEW I, NEW R, NEW map \in EdgeMaps(I, R), NEW names, NEW a, NEW b
  PROVE  /\ Share(names, map, a, b) \in AnnotationsOf(R)
         /\ Share(names, map, a, b).count \in Nat
         /\ \A c : Entry(Share(names, map, a, b).tasks, c, {}) \subseteq R
<1> DEFINE z == Share(names, map, a, b)
<1>1. Nothing \in AnnotationsOf(R)
  BY Empty DEF Nothing, NoTasks, AnnotationsOf
<1>2. z \in AnnotationsOf(R)
  <2>1. \A e \in DOMAIN map : map[e] \in AnnotationsOf(R)
    BY EdgeMapIs
  <2>2. QED
    BY <1>1, <2>1 DEF Share, Entry
<1> HIDE DEF z
<1>3. z.count \in Nat /\ z.tasks \in TaskMaps(R)
  BY <1>2 DEF AnnotationsOf
<1>4. \A c : Entry(z.tasks, c, {}) \subseteq R
  BY <1>3, TaskMapIs DEF Entry
<1>5. QED
  BY <1>2, <1>3, <1>4 DEF z

(* A larger factory numbers the names it knew as before. *)
LEMMA IdGrown ==
  ASSUME NEW names \in NameLists, NEW more \in NameLists, Grown(more, names), NEW n
  PROVE  \/ IdOf(more, n) = IdOf(names, n)
         \/ IdOf(more, n) \notin DOMAIN names /\ IdOf(names, n) \notin DOMAIN names
<1>1. CASE n \in ToSet(names)
  <2>1. IdOf(names, n) \in DOMAIN names /\ names[IdOf(names, n)] = n
    BY <1>1, Ids
  <2>2. IdOf(names, n) \in DOMAIN more /\ more[IdOf(names, n)] = n
    BY <2>1 DEF Grown
  <2>3. QED
    BY <2>2, Ids
<1>2. CASE n \notin ToSet(names)
  <2>1. IdOf(names, n) \notin DOMAIN names
    BY <1>2, Ids DEF IdOf, NoId
  <2>2. IdOf(more, n) \notin DOMAIN names
    <3> SUFFICES ASSUME IdOf(more, n) \in DOMAIN names PROVE FALSE
      OBVIOUS
    <3>1. IdOf(more, n) # NoId
      BY Ids DEF NoId
    <3>2. n \in ToSet(more)
      BY <3>1 DEF IdOf
    <3>3. more[IdOf(more, n)] = n
      BY <3>2, Ids
    <3>4. names[IdOf(more, n)] = n
      BY <3>3 DEF Grown
    <3>5. QED
      BY <1>2, <3>4, Ids
  <2>3. QED
    BY <2>1, <2>2
<1>3. QED
  BY <1>1, <1>2

(* So the edge between two names stays what it was. *)
LEMMA ShareKept ==
  ASSUME NEW names \in NameLists, NEW more \in NameLists, Grown(more, names),
         NEW R, NEW map \in EdgeMaps(DOMAIN names, R), NEW a, NEW b
  PROVE  Share(more, map, a, b) = Share(names, map, a, b)
<1>1. DOMAIN map \subseteq (DOMAIN names) \X (DOMAIN names)
  BY EdgeMapIs
<1>2. /\ \/ IdOf(more, a) = IdOf(names, a)
         \/ IdOf(more, a) \notin DOMAIN names /\ IdOf(names, a) \notin DOMAIN names
      /\ \/ IdOf(more, b) = IdOf(names, b)
         \/ IdOf(more, b) \notin DOMAIN names /\ IdOf(names, b) \notin DOMAIN names
  BY IdGrown
<1>3. QED
  BY <1>1, <1>2 DEF Share, Entry

(* A name's id is the place it is found at. *)
LEMMA Identified ==
  ASSUME NEW names \in NameLists, NEW n, NEW i \in DOMAIN names
  PROVE  IdOf(names, n) = i <=> names[i] = n
<1>1. ASSUME names[i] = n PROVE IdOf(names, n) = i
  BY <1>1, Ids
<1>2. ASSUME IdOf(names, n) = i PROVE names[i] = n
  <2>1. i # NoId
    BY Ids DEF NoId
  <2>2. n \in ToSet(names)
    BY <1>2, <2>1 DEF IdOf
  <2>3. QED
    BY <1>2, <2>2, Ids
<1>3. QED
  BY <1>1, <1>2

(* An edge that one side does not have. *)
LEMMA NothingAdds ==
  ASSUME NEW R, NEW z \in AnnotationsOf(R)
  PROVE  Adds(z, Nothing, z) /\ Adds(Nothing, z, z)
<1>1. z.count \in Nat /\ z.count + 0 = z.count /\ 0 + z.count = z.count
  BY DEF AnnotationsOf
<1>2. Nothing.count = 0 /\ \A c : Entry(Nothing.tasks, c, {}) = {}
  BY DEF Nothing, NoTasks, Entry
<1>3. QED
  BY <1>1, <1>2 DEF Adds

(* An edge that both sides have. *)
LEMMA CombinedAdds ==
  ASSUME NEW R, NEW x \in AnnotationsOf(R), NEW y \in AnnotationsOf(R)
  PROVE  Adds(x, y, Combined(x, y))
BY DEF Adds, Combined, UnionTasks, Entry

(* Merging translates and adds: between any two names, the edge that results
   is the sum of the two there were. *)
LEMMA ShareMerged ==
  ASSUME NEW R, NEW Q,
         NEW own, own.names \in NameLists, own.edges \in EdgeMaps(DOMAIN own.names, R),
         NEW remote, remote.names \in NameLists,
         remote.edges \in EdgeMaps(DOMAIN remote.names, Q), NEW a, NEW b
  PROVE  Adds(Share(own.names, own.edges, a, b), Share(remote.names, remote.edges, a, b),
              Share(Merged(own, remote).names, Merged(own, remote).edges, a, b))
<1> DEFINE names == InternAll(own.names, NamesInOrder(remote))
           new == {Translated(names, remote, e) : e \in DOMAIN remote.edges}
           FromRemote(edge) == CHOOSE e \in DOMAIN remote.edges : Translated(names, remote, e) = edge
           f == [edge \in DOMAIN own.edges \cup new |->
                   IF edge \notin new THEN own.edges[edge]
                   ELSE AddEdge(own.edges, edge, remote.edges[FromRemote(edge)])[edge]]
           e == <<IdOf(names, a), IdOf(names, b)>>
           r == <<IdOf(remote.names, a), IdOf(remote.names, b)>>
           x == Share(own.names, own.edges, a, b)
           y == Share(remote.names, remote.edges, a, b)
           z == Share(names, f, a, b)
<1>1. Merged(own, remote) = [names |-> names, edges |-> f]
  BY DEF Merged
<1>2. /\ NamesInOrder(remote) \in Seq(Nat)
      /\ \A d \in DOMAIN remote.edges : \A h \in {1, 2} : \E k \in DOMAIN NamesInOrder(remote) :
           NamesInOrder(remote)[k] = remote.names[d[h]]
  BY NamesListed
<1>3. /\ names \in NameLists /\ Grown(names, own.names)
      /\ \A k \in DOMAIN NamesInOrder(remote) : NamesInOrder(remote)[k] \in ToSet(names)
  BY <1>2, AllInterned
<1> HIDE DEF names
<1>4. \A d \in DOMAIN remote.edges :
        /\ remote.names[d[1]] \in ToSet(names) /\ remote.names[d[2]] \in ToSet(names)
        /\ d[1] \in DOMAIN remote.names /\ d[2] \in DOMAIN remote.names /\ d = <<d[1], d[2]>>
  BY <1>2, <1>3, EdgeMapIs
<1>5. ASSUME NEW d \in DOMAIN remote.edges
      PROVE  Translated(names, remote, d) = e <=> d = r
  <2>1. IdOf(names, remote.names[d[1]]) = IdOf(names, a) <=> remote.names[d[1]] = a
    BY <1>3, <1>4, Ids, Identified
  <2>2. IdOf(names, remote.names[d[2]]) = IdOf(names, b) <=> remote.names[d[2]] = b
    BY <1>3, <1>4, Ids, Identified
  <2>3. /\ remote.names[d[1]] = a <=> IdOf(remote.names, a) = d[1]
        /\ remote.names[d[2]] = b <=> IdOf(remote.names, b) = d[2]
    BY <1>4, Identified
  <2>4. Translated(names, remote, d) = e <=> remote.names[d[1]] = a /\ remote.names[d[2]] = b
    BY <2>1, <2>2 DEF Translated
  <2>5. d = r <=> d[1] = IdOf(remote.names, a) /\ d[2] = IdOf(remote.names, b)
    BY <1>4
  <2>6. QED
    BY <2>3, <2>4, <2>5
<1>6. x = Entry(own.edges, e, Nothing)
  <2>1. Share(names, own.edges, a, b) = x
    BY <1>3, ShareKept
  <2>2. QED
    BY <2>1 DEF Share
<1>7. y = Entry(remote.edges, r, Nothing) /\ z = Entry(f, e, Nothing)
  BY DEF Share
<1>8. x \in AnnotationsOf(R \cup Q) /\ y \in AnnotationsOf(R \cup Q)
  <2>1. x \in AnnotationsOf(R) /\ y \in AnnotationsOf(Q)
    BY ShareTyped
  <2> HIDE DEF x, y
  <2>2. AnnotationsOf(R) \subseteq AnnotationsOf(R \cup Q) /\ AnnotationsOf(Q) \subseteq AnnotationsOf(R \cup Q)
    BY MapsGrow
  <2>3. QED
    BY <2>1, <2>2
<1> HIDE DEF x, y, z, e, r
<1>9. CASE r \in DOMAIN remote.edges
  <2>1. e \in new /\ FromRemote(e) = r
    BY <1>5, <1>9
  <2>2. y = remote.edges[r]
    BY <1>7, <1>9 DEF Entry
  <2>3. z = AddEdge(own.edges, e, y)[e]
    BY <1>7, <2>1, <2>2 DEF Entry
  <2>4. z = IF e \in DOMAIN own.edges THEN Combined(own.edges[e], y) ELSE y
    BY <2>3 DEF AddEdge, Put
  <2>5. z = IF e \in DOMAIN own.edges THEN Combined(x, y) ELSE y
    BY <1>6, <2>4 DEF Entry
  <2>6. e \notin DOMAIN own.edges => x = Nothing
    BY <1>6 DEF Entry
  <2>7. Adds(x, y, z)
    BY <1>8, <2>5, <2>6, CombinedAdds, NothingAdds
  <2>8. QED
    BY <1>1, <2>7 DEF x, y, z
<1>10. CASE r \notin DOMAIN remote.edges
  <2>1. e \notin new
    BY <1>5, <1>10
  <2>2. y = Nothing
    BY <1>7, <1>10 DEF Entry
  <2>3. z = x
    BY <1>6, <1>7, <2>1 DEF Entry
  <2>4. Adds(x, y, z)
    BY <1>8, <2>2, <2>3, NothingAdds
  <2>5. QED
    BY <1>1, <2>4 DEF x, y, z
<1>11. QED
  BY <1>9, <1>10

-----------------------------------------------------------------------------
(***************************************************************************)
(* What a process holds is the sum of what some ranks put in.              *)
(***************************************************************************)

(* z is the sum of what the ranks in R have. *)
SumOf(own, z, R) ==
  /\ z.count = SumOver([q \in R |-> own[q].count], R)
  /\ \A c \in Nat : Entry(z.tasks, c, {}) = {q \in R : q \in Entry(own[q].tasks, c, {})}

(* What each process had between two names when it entered the reduction. *)
OwnShares(processes, sent, a, b) == [q \in Proc |-> Share(processes[q].names, sent[q], a, b)]

(* The phases of a process that has copied its edges into the reduction. *)
Contributed == {"edges", "newTable", "table", "barrier", "done"}

(* Between any two names, the map has the sum of what the ranks in R put in. *)
Held(processes, sent, phases, names, map, R) ==
  /\ \A q \in R : phases[q] \in Contributed
  /\ \A a, b \in Nat : SumOf(OwnShares(processes, sent, a, b), Share(names, map, a, b), R)

(* A contribution is its own sum. *)
LEMMA SumOfOne ==
  ASSUME NEW p, NEW own, own[p] \in AnnotationsOf({p})
  PROVE  SumOf(own, own[p], {p})
<1>1. own[p].count \in Nat /\ own[p].tasks \in TaskMaps({p})
  BY DEF AnnotationsOf
<1>2. SumOver([q \in {p} |-> own[q].count], {p}) = own[p].count
  BY <1>1, SumOverOne
<1>3. \A c : Entry(own[p].tasks, c, {}) \subseteq {p}
  BY <1>1, TaskMapIs DEF Entry
<1>4. \A c \in Nat : Entry(own[p].tasks, c, {}) = {q \in {p} : q \in Entry(own[q].tasks, c, {})}
  BY <1>3
<1>5. QED
  BY <1>2, <1>4 DEF SumOf

(* Sums of disjoint sets of ranks add up. *)
LEMMA SumOfBoth ==
  ASSUME NEW S, IsFiniteSet(S), NEW T, IsFiniteSet(T), S \cap T = {},
         NEW own, \A q \in S \cup T : own[q].count \in Nat,
         NEW x, SumOf(own, x, S), NEW y, SumOf(own, y, T), NEW z, Adds(x, y, z)
  PROVE  SumOf(own, z, S \cup T)
<1> DEFINE f == [q \in S \cup T |-> own[q].count]
<1>1. \A q \in S \cup T : f[q] \in Nat
  OBVIOUS
<1>2. /\ SumOver([q \in S |-> own[q].count], S) = SumOver(f, S)
      /\ SumOver([q \in T |-> own[q].count], T) = SumOver(f, T)
  <2> DEFINE g == [q \in S |-> own[q].count]
             h == [q \in T |-> own[q].count]
  <2>1. (\A q \in S : g[q] = f[q]) /\ (\A q \in T : h[q] = f[q])
    OBVIOUS
  <2> HIDE DEF f, g, h
  <2>2. SumOver(g, S) = SumOver(f, S) /\ SumOver(h, T) = SumOver(f, T)
    BY <2>1, SumOverDepends
  <2>3. QED
    BY <2>2 DEF g, h
<1> HIDE DEF f
<1>3. SumOver(f, S \cup T) = SumOver(f, S) + SumOver(f, T)
  BY <1>1, SumOverBoth
<1>4. z.count = SumOver(f, S \cup T)
  BY <1>2, <1>3 DEF SumOf, Adds
<1>5. \A c \in Nat : Entry(z.tasks, c, {}) = {q \in S \cup T : q \in Entry(own[q].tasks, c, {})}
  BY DEF SumOf, Adds
<1>6. QED
  BY <1>4, <1>5 DEF SumOf, f

(* A sum depends on the contributions of its ranks only. *)
LEMMA SumOfDepends ==
  ASSUME NEW R, NEW own, NEW now, \A q \in R : now[q] = own[q], NEW z, SumOf(own, z, R)
  PROVE  SumOf(now, z, R)
<1> DEFINE f == [q \in R |-> own[q].count]
           g == [q \in R |-> now[q].count]
<1>1. f = g
  OBVIOUS
<1>2. z.count = SumOver(g, R)
  BY <1>1 DEF SumOf
<1>3. \A c \in Nat : Entry(z.tasks, c, {}) = {q \in R : q \in Entry(now[q].tasks, c, {})}
  BY DEF SumOf
<1>4. QED
  BY <1>2, <1>3 DEF SumOf

(* Sets of ranks are finite. *)
LEMMA FiniteRanks ==
  ASSUME NEW R \in SUBSET Proc
  PROVE  IsFiniteSet(R)
<1>1. IsFiniteSet(Proc)
  BY RanksAreRelative, FS_Interval DEF Proc
<1>2. QED
  BY <1>1, FS_Subset

(* A process that has copied its edges holds its own contribution. *)
LEMMA HeldByOne ==
  ASSUME NEW processes, NEW sent, NEW phases, NEW p \in Proc, phases[p] \in Contributed,
         NEW I, sent[p] \in EdgeMaps(I, {p})
  PROVE  Held(processes, sent, phases, processes[p].names, sent[p], {p})
<1> SUFFICES ASSUME NEW a \in Nat, NEW b \in Nat
             PROVE  SumOf(OwnShares(processes, sent, a, b),
                          Share(processes[p].names, sent[p], a, b), {p})
  BY DEF Held
<1> DEFINE own == OwnShares(processes, sent, a, b)
<1>1. own[p] = Share(processes[p].names, sent[p], a, b)
  BY DEF OwnShares
<1> HIDE DEF own
<1>2. own[p] \in AnnotationsOf({p})
  BY <1>1, ShareTyped
<1>3. SumOf(own, own[p], {p})
  BY <1>2, SumOfOne
<1>4. QED
  BY <1>1, <1>3 DEF own

(* What it holds after a merge is that of both sides. *)
LEMMA HeldByBoth ==
  ASSUME NEW processes, NEW sent, NEW phases,
         NEW S \in SUBSET Proc, NEW T \in SUBSET Proc, S \cap T = {},
         \A q \in S \cup T : sent[q] \in EdgeMaps(Nat, Proc),
         NEW own, own.names \in NameLists, own.edges \in EdgeMaps(DOMAIN own.names, S),
         NEW remote, remote.names \in NameLists,
         remote.edges \in EdgeMaps(DOMAIN remote.names, T),
         Held(processes, sent, phases, own.names, own.edges, S),
         Held(processes, sent, phases, remote.names, remote.edges, T)
  PROVE  Held(processes, sent, phases, Merged(own, remote).names, Merged(own, remote).edges,
              S \cup T)
<1> DEFINE all == Merged(own, remote)
<1> SUFFICES ASSUME NEW a \in Nat, NEW b \in Nat
             PROVE  SumOf(OwnShares(processes, sent, a, b), Share(all.names, all.edges, a, b), S \cup T)
  BY DEF Held
<1> DEFINE shares == OwnShares(processes, sent, a, b)
           x == Share(own.names, own.edges, a, b)
           y == Share(remote.names, remote.edges, a, b)
           z == Share(all.names, all.edges, a, b)
<1>1. Adds(x, y, z)
  BY ShareMerged
<1>2. SumOf(shares, x, S) /\ SumOf(shares, y, T)
  BY DEF Held
<1>3. \A q \in S \cup T : shares[q].count \in Nat
  BY ShareTyped DEF OwnShares
<1>4. IsFiniteSet(S) /\ IsFiniteSet(T)
  BY FiniteRanks
<1> HIDE DEF shares, x, y, z
<1>5. SumOf(shares, z, S \cup T)
  BY <1>1, <1>2, <1>3, <1>4, SumOfBoth
<1>6. QED
  BY <1>5 DEF shares, z

(* The same edges in a larger factory. *)
LEMMA HeldIn ==
  ASSUME NEW processes, NEW sent, NEW phases,
         NEW names \in NameLists, NEW more \in NameLists, Grown(more, names),
         NEW Q, NEW map \in EdgeMaps(DOMAIN names, Q), NEW R,
         Held(processes, sent, phases, names, map, R)
  PROVE  Held(processes, sent, phases, more, map, R)
BY ShareKept DEF Held

(* The same edges while other processes go on. *)
LEMMA HeldStill ==
  ASSUME NEW processes, NEW sent, NEW phases, NEW processes2, NEW sent2, NEW phases2,
         NEW names, NEW map, NEW R \in SUBSET Proc,
         Held(processes, sent, phases, names, map, R),
         \A q \in R : /\ phases2[q] \in Contributed
                      /\ sent2[q] = sent[q] /\ sent[q] \in EdgeMaps(DOMAIN processes[q].names, {q})
                      /\ processes[q].names \in NameLists /\ processes2[q].names \in NameLists
                      /\ Grown(processes2[q].names, processes[q].names)
  PROVE  Held(processes2, sent2, phases2, names, map, R)
<1> SUFFICES ASSUME NEW a \in Nat, NEW b \in Nat
             PROVE  SumOf(OwnShares(processes2, sent2, a, b), Share(names, map, a, b), R)
  BY DEF Held
<1>1. SumOf(OwnShares(processes, sent, a, b), Share(names, map, a, b), R)
  BY DEF Held
<1>2. ASSUME NEW q \in R
      PROVE  OwnShares(processes2, sent2, a, b)[q] = OwnShares(processes, sent, a, b)[q]
  <2>1. /\ sent2[q] = sent[q] /\ sent[q] \in EdgeMaps(DOMAIN processes[q].names, {q})
        /\ processes[q].names \in NameLists /\ processes2[q].names \in NameLists
        /\ Grown(processes2[q].names, processes[q].names)
    OBVIOUS
  <2>2. Share(processes2[q].names, sent[q], a, b) = Share(processes[q].names, sent[q], a, b)
    BY ONLY <2>1, ShareKept
  <2>3. QED
    BY <2>1, <2>2 DEF OwnShares
<1>3. QED
  BY <1>1, <1>2, SumOfDepends

-----------------------------------------------------------------------------
(***************************************************************************)
(* The second invariant: whose edges each process holds, and which are on  *)
(* their way.                                                              *)
(***************************************************************************)

(* The second invariant: what a process puts in is annotated with its own
   rank; in the reduction of edges it holds the sum of the ranks it stands
   for, the root keeps the sum of all, and a message carries the sum of its
   sender's. *)
HeldNow(names, map, R) == Held(data, copied, phase, names, map, R)

ContributionFits(p) ==
  phase[p] \in Contributed => copied[p] \in EdgeMaps(DOMAIN data[p].names, {p})
EdgesFit(p) ==
  /\ phase[p] = "edges" => HeldNow(data[p].names, edges[p], Span(p, mask[p]))
  /\ p = Root /\ phase[p] \in Contributed \ {"edges"} => HeldNow(data[p].names, edges[p], Proc)
LoadFits(s, d) ==
  \A k \in 1 .. Len(chan[<<s, d>>]) :
    LET m == chan[<<s, d>>][k]
    IN m.kind = "data" /\ m.phase = "edges" => HeldNow(m.body.names, m.body.edges, Span(s, s - d))

EdgeSums ==
  /\ copied = [q \in Proc |-> copied[q]]
  /\ \A p \in Proc : ContributionFits(p) /\ EdgesFit(p)
  /\ \A s, d \in Proc : LoadFits(s, d)

(* Only CopyEdges changes what a process contributes, before it has. *)
LEMMA CopiedStep ==
  ASSUME IInv, EdgeSums, NEW p \in Proc, StepOf(p)
  PROVE  /\ copied' = [q \in Proc |-> copied'[q]]
         /\ \A q \in Proc : q # p => copied'[q] = copied[q]
         /\ phase[p] \in Contributed => copied'[p] = copied[p] /\ phase'[p] \in Contributed
         /\ phase'[p] \in Contributed /\ phase[p] \notin Contributed =>
              /\ CopyEdges(p)
              /\ copied'[p] = data[p].edges /\ edges'[p] = data[p].edges
              /\ phase'[p] = "edges" /\ mask'[p] = 1 /\ data' = data
<1> USE DEF GoTo, In, local, Contributed
<1>1. /\ phase \in [Proc -> Phases] /\ copied = [q \in Proc |-> copied[q]] /\ mask \in [Proc -> Masks]
      /\ edges \in [Proc -> EdgeMaps(Nat, Proc)]
  BY DEF IInv, Control, ControlTypes, Data, DataTypes, EdgeSums
<1>2. CASE CopyEdges(p)
  <2>1. copied' = [copied EXCEPT ![p] = data[p].edges] /\ phase[p] = "copy"
    BY <1>2 DEF CopyEdges
  <2>2. /\ edges'[p] = data[p].edges /\ phase'[p] = "edges" /\ mask'[p] = 1 /\ data' = data
    BY <1>1, <1>2 DEF CopyEdges
  <2>3. copied'[p] = data[p].edges /\ copied' = [q \in Proc |-> copied'[q]]
        /\ \A q \in Proc : q # p => copied'[q] = copied[q]
    <3> DEFINE c == copied
               n == copied'
    <3>1. c = [q \in Proc |-> c[q]] /\ n = [c EXCEPT ![p] = data[p].edges]
      BY <1>1, <2>1
    <3> HIDE DEF c, n
    <3>2. n[p] = data[p].edges /\ n = [q \in Proc |-> n[q]] /\ \A q \in Proc : q # p => n[q] = c[q]
      BY <3>1
    <3>3. QED
      BY <3>2 DEF c, n
  <2>4. QED
    BY <1>2, <2>1, <2>2, <2>3
<1>3. ASSUME copied' = copied, phase'[p] \in Contributed <=> phase[p] \in Contributed
      PROVE  /\ copied' = [q \in Proc |-> copied'[q]]
             /\ \A q \in Proc : q # p => copied'[q] = copied[q]
             /\ phase[p] \in Contributed => copied'[p] = copied[p] /\ phase'[p] \in Contributed
             /\ phase'[p] \in Contributed => phase[p] \in Contributed
  BY <1>1, <1>3
<1>4. ASSUME copied' = copied, phase'[p] = phase[p] PROVE phase'[p] \in Contributed <=> phase[p] \in Contributed
  BY <1>4
<1>5. CASE RecordLate(p) \/ EnterBarrier(p) \/ Skip(p) \/ ReceiveSize(p) \/ ReceiveData(p) \/ SendSize(p) \/ SendData(p)
  <2>1. copied' = copied /\ phase'[p] = phase[p]
    BY <1>5 DEF RecordLate, EnterBarrier, Skip, ReceiveSize, ReceiveData, SendSize, SendData
  <2>2. QED
    BY <1>3, <1>4, <2>1
<1>6. CASE LoopEnds(p) \/ SendReturns(p)
  <2>1. phase[p] \in Reductions /\ phase'[p] = After(phase[p]) /\ copied' = copied
    BY <1>1, <1>6 DEF LoopEnds, SendReturns, Reducing
  <2>2. phase'[p] \in Contributed <=> phase[p] \in Contributed
    BY <2>1 DEF Reductions, After
  <2>3. QED
    BY <1>3, <2>1, <2>2
<1>7. CASE LeaveGather(p) \/ GetLastState(p) \/ Annotate(p) \/ NewTable(p) \/ LeaveBarrier(p)
  <2>1. copied' = copied /\ (phase'[p] \in Contributed <=> phase[p] \in Contributed)
    BY <1>1, <1>7 DEF LeaveGather, GetLastState, Annotate, NewTable, LeaveBarrier
  <2>2. QED
    BY <1>3, <2>1
<1>8. CASE Takes(p)
  <2>1. phase[p] = "bcast" /\ phase'[p] = "copy"
    BY <1>1, <1>8, CastOfTakes, ListOfCast
  <2>2. copied' = copied
    BY <1>8 DEF Takes, Broadcast, ReceiveBroadcast
  <2>3. QED
    BY <1>3, <2>1, <2>2
<1>9. QED
  BY <1>2, <1>3, <1>5, <1>6, <1>7, <1>8 DEF StepOf, Advance, Reduce, SendStep, Takes

(* What anybody holds stays the sum of the same contributions. *)
LEMMA HeldStep ==
  ASSUME IInv, EdgeSums, NEW p \in Proc, StepOf(p),
         NEW names, NEW map, NEW R \in SUBSET Proc, HeldNow(names, map, R)
  PROVE  Held(data', copied', phase', names, map, R)
<1>1. ASSUME NEW q \in R
      PROVE  /\ phase'[q] \in Contributed
             /\ copied'[q] = copied[q] /\ copied[q] \in EdgeMaps(DOMAIN data[q].names, {q})
             /\ data[q].names \in NameLists /\ data'[q].names \in NameLists
             /\ Grown(data'[q].names, data[q].names)
  <2>1. phase[q] \in Contributed
    BY DEF HeldNow, Held
  <2>2. copied[q] \in EdgeMaps(DOMAIN data[q].names, {q}) /\ data[q].names \in NameLists
    BY <2>1 DEF EdgeSums, ContributionFits, IInv, Data, DataTypes, Processes
  <2>3. CASE q = p
    BY <2>1, <2>2, <2>3, CopiedStep, NamesGrow DEF Processes
  <2>4. CASE q # p
    BY <2>1, <2>2, <2>4, CopiedStep, OthersKept DEF Grown
  <2>5. QED
    BY <2>3, <2>4
<1>2. Held(data, copied, phase, names, map, R)
  BY DEF HeldNow
<1>3. QED
  <2> DEFINE d == data'
             c == copied'
             f == phase'
  <2>1. \A q \in R : /\ f[q] \in Contributed
                     /\ c[q] = copied[q] /\ copied[q] \in EdgeMaps(DOMAIN data[q].names, {q})
                     /\ data[q].names \in NameLists /\ d[q].names \in NameLists
                     /\ Grown(d[q].names, data[q].names)
    BY <1>1
  <2> HIDE DEF d, c, f
  <2>2. Held(d, c, f, names, map, R)
    BY <1>2, <2>1, HeldStill
  <2>3. QED
    BY <2>2 DEF d, c, f

(* Each process's contribution stays in its own ids. *)
LEMMA ContributionStep ==
  ASSUME IInv, EdgeSums, NEW p \in Proc, StepOf(p), NEW q \in Proc
  PROVE  ContributionFits(q)'
<1>1. data[q] \in Processes({q}) /\ ContributionFits(q)
  BY DEF IInv, Data, DataFit, EdgeSums
<1>2. CASE q # p
  BY <1>1, <1>2, CopiedStep, OthersKept DEF ContributionFits
<1>3. CASE q = p /\ phase[p] \in Contributed
  <2>1. copied'[p] = copied[p] /\ DOMAIN data[p].names \subseteq DOMAIN data'[p].names
    BY <1>3, CopiedStep, NamesGrow DEF Grown
  <2>2. copied[p] \in EdgeMaps(DOMAIN data'[p].names, {p})
    BY <1>1, <1>3, <2>1, MapsGrow DEF ContributionFits
  <2>3. QED
    BY <1>3, <2>1, <2>2 DEF ContributionFits
<1>4. CASE q = p /\ phase[p] \notin Contributed /\ phase'[p] \in Contributed
  <2>1. copied'[p] = data[p].edges /\ data' = data
    BY <1>4, CopiedStep
  <2>2. data[p].edges \in EdgeMaps(DOMAIN data[p].names, {p})
    BY <1>1, <1>4 DEF Processes
  <2>3. QED
    BY <1>4, <2>1, <2>2 DEF ContributionFits
<1>5. QED
  BY <1>2, <1>3, <1>4 DEF ContributionFits

(* The edges a process takes are those the child holds. *)
LEMMA EdgesReceived ==
  ASSUME IInv, EdgeSums, NEW p \in Proc, ReceiveData(p), phase[p] = "edges"
  PROVE  \E body :
           /\ body.names \in NameLists
           /\ body.edges \in EdgeMaps(DOMAIN body.names, Span(p + mask[p], mask[p]))
           /\ HeldNow(body.names, body.edges, Span(p + mask[p], mask[p]))
           /\ AddEdges(p, body)
<1> USE DEF IInv
<1> DEFINE r == p + mask[p]
           c == chan[<<r, p>>]
<1>1. phase[p] \in Reductions /\ io[p] = "receiving" /\ chan[Incoming(p)] # <<>>
  BY DEF ReceiveData, Reducing
<1>2. ~BitSet(p, mask[p]) /\ p + mask[p] < N
  BY <1>1 DEF Control, MasksFit
<1>3. /\ Incoming(p) = <<r, p>> /\ r \in Proc /\ r - p = mask[p] /\ TreeEdge(r, p)
      /\ TakenFrom(r, p) = Earlier(phase[p]) + 1
  BY <1>1, <1>2, ReceivingEdge
<1> HIDE DEF r
<1>4. c \in Seq(Wire) /\ c # <<>> /\ InOrderFrom(c, TakenFrom(r, p))
  BY <1>1, <1>3, ChannelsOf
<1>5. Head(c) = c[1] /\ 1 \in 1 .. Len(c)
  BY <1>4
<1>6. c[1].kind = "data" /\ c[1].phase = "edges"
  <2>1. IsMessage(c[1], TakenFrom(r, p) + 1)
    BY <1>4, <1>5 DEF InOrderFrom
  <2>2. Earlier(phase[p]) = 2
    BY DEF Earlier, Early
  <2>3. TakenFrom(r, p) + 1 = 4
    BY <1>3, <2>2
  <2>4. QED
    BY <2>1, <2>3 DEF IsMessage
<1>7. BodyFits(vector, c[1], Span(r, mask[p])) /\ HeldNow(c[1].body.names, c[1].body.edges, Span(r, mask[p]))
  <2>1. PayloadFits(r, p) /\ LoadFits(r, p)
    BY <1>3 DEF Data, EdgeSums
  <2>2. BodyFits(vector, c[1], Span(r, mask[p]))
    BY <1>3, <1>5, <1>6, <2>1 DEF PayloadFits
  <2>3. HeldNow(c[1].body.names, c[1].body.edges, Span(r, mask[p]))
    BY <1>3, <1>5, <1>6, <2>1 DEF LoadFits
  <2>4. QED
    BY <2>2, <2>3
<1>8. AddEdges(p, c[1].body)
  <2>1. Head(chan[Incoming(p)]).body = c[1].body
    BY <1>3, <1>5
  <2>2. QED
    BY <2>1 DEF ReceiveData
<1>9. QED
  BY <1>6, <1>7, <1>8 DEF BodyFits, r

(* The sum of two, when a process has added what it received. *)
LEMMA EdgesAdded ==
  ASSUME IInv, EdgeSums, NEW p \in Proc, ReceiveData(p), phase[p] = "edges"
  PROVE  /\ HeldNow(data'[p].names, edges'[p], Span(p, mask'[p]))
         /\ mask'[p] = 2 * mask[p] /\ phase' = phase
<1>1. /\ phase \in [Proc -> Phases] /\ data \in [Proc -> Processes(Proc)]
      /\ edges \in [Proc -> EdgeMaps(Nat, Proc)] /\ mask \in [Proc -> Masks]
      /\ DataFit(p) /\ EdgesFit(p)
  BY DEF IInv, Control, ControlTypes, Data, DataTypes, EdgeSums
<1> DEFINE own == [names |-> data[p].names, edges |-> edges[p]]
           S == Span(p, mask[p])
           T == Span(p + mask[p], mask[p])
<1>2. PICK body :
        /\ body.names \in NameLists /\ body.edges \in EdgeMaps(DOMAIN body.names, T)
        /\ HeldNow(body.names, body.edges, T)
        /\ AddEdges(p, body)
  BY EdgesReceived
<1>3. edges'[p] = Merged(own, body).edges /\ data'[p].names = Merged(own, body).names
  <2>1. /\ edges' = [edges EXCEPT ![p] = Merged(own, body).edges]
        /\ data' = [data EXCEPT ![p].names = Merged(own, body).names]
    BY <1>2 DEF AddEdges
  <2>2. QED
    BY <1>1, <2>1 DEF Processes
<1>4. /\ own.names \in NameLists /\ own.edges \in EdgeMaps(DOMAIN own.names, S)
      /\ HeldNow(own.names, own.edges, S)
  BY <1>1 DEF DataFit, Processes, EdgesFit
<1>5. mask[p] \in Nat
  BY MaskOf DEF IInv
<1>6. /\ S \in SUBSET Proc /\ T \in SUBSET Proc /\ S \cap T = {} /\ Span(p, 2 * mask[p]) = S \cup T
  BY <1>5, Spans DEF Span
<1> HIDE DEF own, S, T
<1>7. \A q \in S \cup T : copied[q] \in EdgeMaps(Nat, Proc)
  <2> SUFFICES ASSUME NEW q \in S \cup T PROVE copied[q] \in EdgeMaps(Nat, Proc)
    OBVIOUS
  <2>1. phase[q] \in Contributed /\ q \in Proc
    BY <1>2, <1>4, <1>6 DEF HeldNow, Held
  <2>2. copied[q] \in EdgeMaps(DOMAIN data[q].names, {q})
    BY <2>1 DEF EdgeSums, ContributionFits
  <2>3. DOMAIN data[q].names \subseteq Nat
    BY <1>1, <2>1 DEF Processes, NameLists
  <2>4. QED
    BY <2>1, <2>2, <2>3, MapsGrow
<1>8. HeldNow(Merged(own, body).names, Merged(own, body).edges, S \cup T)
  BY <1>2, <1>4, <1>6, <1>7, HeldByBoth DEF HeldNow
<1>9. mask'[p] = 2 * mask[p] /\ phase' = phase
  BY <1>1 DEF ReceiveData
<1>10. QED
  BY <1>3, <1>6, <1>8, <1>9

(* A process that still has the same edges holds the same sum. *)
LEMMA StillHeld ==
  ASSUME IInv, EdgeSums, NEW p \in Proc, StepOf(p), NEW R \in SUBSET Proc,
         HeldNow(data[p].names, edges[p], R), edges'[p] = edges[p]
  PROVE  Held(data', copied', phase', data'[p].names, edges'[p], R)
<1>1. Held(data', copied', phase', data[p].names, edges[p], R)
  BY HeldStep
<1>2. /\ data[p].names \in NameLists /\ data'[p].names \in NameLists
      /\ Grown(data'[p].names, data[p].names)
      /\ edges[p] \in EdgeMaps(DOMAIN data[p].names, Proc)
  BY NamesGrow DEF IInv, Data, DataFit, Processes
<1> DEFINE d == data'
           c == copied'
           f == phase'
           names == data[p].names
           more == data'[p].names
<1>3. Held(d, c, f, names, edges[p], R)
  BY <1>1
<1>4. names \in NameLists /\ more \in NameLists /\ Grown(more, names) /\ edges[p] \in EdgeMaps(DOMAIN names, Proc)
  BY <1>2
<1> HIDE DEF d, c, f, names, more
<1>5. Held(d, c, f, more, edges[p], R)
  BY <1>3, <1>4, HeldIn
<1>6. QED
  BY <1>5 DEF d, c, f, more

(* Where the edges change, and where the reduction of edges is entered and left. *)
LEMMA EdgesStep ==
  ASSUME IInv, NEW p \in Proc, StepOf(p), ~CopyEdges(p), ~(ReceiveData(p) /\ phase[p] = "edges")
  PROVE  /\ edges'[p] = edges[p]
         /\ phase'[p] = "edges" => phase[p] = "edges" /\ Span(p, mask'[p]) = Span(p, mask[p])
         /\ p = Root /\ phase[p] = "edges" /\ phase'[p] # "edges" => Span(p, mask[p]) = Proc
<1> USE DEF GoTo, In, local
<1>1. /\ phase \in [Proc -> Phases] /\ mask \in [Proc -> Masks] /\ p \in Nat /\ mask[p] \in Nat
      /\ edges \in [Proc -> EdgeMaps(Nat, Proc)]
  BY MaskOf DEF IInv, Control, ControlTypes, Data, DataTypes
<1>2. CASE RecordLate(p) \/ EnterBarrier(p) \/ ReceiveSize(p) \/ SendSize(p) \/ SendData(p)
  BY <1>2 DEF RecordLate, EnterBarrier, ReceiveSize, SendSize, SendData, loop
<1>3. CASE LeaveGather(p) \/ GetLastState(p) \/ Annotate(p) \/ LeaveBarrier(p)
  BY <1>1, <1>3 DEF LeaveGather, GetLastState, Annotate, LeaveBarrier
<1>4. CASE NewTable(p)
  BY <1>1, <1>4 DEF NewTable
<1>5. CASE Takes(p)
  <2>1. edges' = edges /\ phase[p] = "bcast" /\ phase'[p] = "copy"
    BY <1>1, <1>5, CastOfTakes, ListOfCast
  <2>2. QED
    BY <2>1
<1>6. CASE LoopEnds(p)
  <2>1. edges' = edges /\ phase'[p] = After(phase[p]) /\ mask[p] >= N /\ phase[p] \in Reductions
    BY <1>1, <1>6 DEF LoopEnds, Reducing
  <2>2. phase'[p] # "edges"
    BY <2>1 DEF Reductions, After
  <2>3. p = Root => Span(p, mask[p]) = Proc
    BY <1>1, <2>1, Spans
  <2>4. QED
    BY <2>1, <2>2, <2>3
<1>7. CASE SendReturns(p)
  <2>1. edges' = edges /\ phase'[p] = After(phase[p]) /\ phase[p] \in Reductions /\ io[p] = "sent"
    BY <1>1, <1>7 DEF SendReturns, Reducing
  <2>2. BitSet(p, mask[p])
    BY <2>1 DEF IInv, Control, MasksFit
  <2>3. p # Root
    BY <2>1, <2>2, SendingEdge DEF IInv
  <2>4. phase'[p] # "edges"
    BY <2>1 DEF Reductions, After
  <2>5. QED
    BY <2>1, <2>3, <2>4
<1>8. CASE Skip(p)
  <2>1. edges' = edges /\ phase' = phase /\ mask'[p] = 2 * mask[p] /\ p + mask[p] >= N
    BY <1>1, <1>8, RanksAreRelative DEF Skip, Source
  <2>2. Span(p, mask'[p]) = Span(p, mask[p])
    BY <1>1, <2>1, Spans
  <2>3. QED
    BY <2>1, <2>2
<1>9. CASE ReceiveData(p)
  <2>1. phase' = phase /\ phase[p] \in {"states", "table"}
    BY <1>9 DEF ReceiveData, Reducing, Reductions
  <2>2. edges' = edges
    <3> DEFINE body == Head(chan[Incoming(p)]).body
    <3>1. CASE phase[p] = "states"
      <4>1. AddLastNames(p, body)
        BY <1>9, <3>1 DEF ReceiveData
      <4>2. QED
        BY <4>1 DEF AddLastNames
    <3>2. CASE phase[p] = "table"
      <4>1. AddRanks(p, body)
        BY <1>9, <3>2 DEF ReceiveData
      <4>2. QED
        BY <4>1 DEF AddRanks
    <3>3. QED
      BY <2>1, <3>1, <3>2
  <2>3. QED
    BY <2>1, <2>2
<1>10. QED
  BY <1>2, <1>3, <1>4, <1>5, <1>6, <1>7, <1>8, <1>9
  DEF StepOf, Advance, Reduce, SendStep, Takes

(* Each process holds the sum of the ranks it stands for. *)
LEMMA EdgesFitStep ==
  ASSUME IInv, EdgeSums, NEW p \in Proc, StepOf(p), NEW q \in Proc
  PROVE  EdgesFit(q)'
<1>1. EdgesFit(q) /\ mask[q] \in Nat
  BY MaskOf DEF EdgeSums, IInv
<1>2. \A m \in Nat : Span(q, m) \in SUBSET Proc
  BY Spans
<1>3. SUFFICES /\ phase'[q] = "edges" =>
                    Held(data', copied', phase', data'[q].names, edges'[q], Span(q, mask'[q]))
               /\ q = Root /\ phase'[q] \in Contributed \ {"edges"} =>
                    Held(data', copied', phase', data'[q].names, edges'[q], Proc)
  BY DEF EdgesFit, HeldNow
<1>4. CASE q # p
  <2>1. /\ data'[q] = data[q] /\ edges'[q] = edges[q] /\ phase'[q] = phase[q] /\ mask'[q] = mask[q]
    BY <1>4, OthersKept
  <2>2. CASE phase[q] = "edges"
    <3>1. HeldNow(data[q].names, edges[q], Span(q, mask[q]))
      BY <1>1, <2>2 DEF EdgesFit
    <3>2. Held(data', copied', phase', data[q].names, edges[q], Span(q, mask[q]))
      BY <1>1, <1>2, <3>1, HeldStep
    <3>3. QED
      BY <2>1, <2>2, <3>2
  <2>3. CASE q = Root /\ phase[q] \in Contributed \ {"edges"}
    <3>1. HeldNow(data[q].names, edges[q], Proc)
      BY <1>1, <2>3 DEF EdgesFit
    <3>2. Held(data', copied', phase', data[q].names, edges[q], Proc)
      BY <3>1, HeldStep
    <3>3. QED
      BY <2>1, <2>3, <3>2
  <2>4. QED
    BY <2>1, <2>2, <2>3
<1>5. CASE q = p /\ CopyEdges(p)
  <2>1. /\ copied'[p] = data[p].edges /\ edges'[p] = data[p].edges
        /\ phase'[p] = "edges" /\ mask'[p] = 1 /\ data' = data
    <3>1. phase[p] = "copy"
      BY <1>5 DEF CopyEdges, In
    <3>2. phase'[p] = "edges"
      BY <1>5 DEF CopyEdges, GoTo, IInv, Control, ControlTypes
    <3>3. QED
      BY <3>1, <3>2, CopiedStep DEF Contributed
  <2>2. copied'[p] \in EdgeMaps(DOMAIN data[p].names, {p})
    BY <2>1 DEF IInv, Data, DataFit, Processes
  <2>3. Held(data', copied', phase', data'[p].names, copied'[p], {p})
    <3> DEFINE d == data'
               c == copied'
               f == phase'
    <3>1. f[p] \in Contributed /\ c[p] \in EdgeMaps(DOMAIN data[p].names, {p})
      BY <2>1, <2>2 DEF Contributed
    <3> HIDE DEF d, c, f
    <3>2. Held(d, c, f, d[p].names, c[p], {p})
      BY <3>1, HeldByOne
    <3>3. QED
      BY <3>2 DEF d, c, f
  <2>4. Span(p, mask'[p]) = {p}
    BY <2>1, Spans
  <2>5. QED
    BY <1>5, <2>1, <2>3, <2>4
<1>6. CASE q = p /\ ReceiveData(p) /\ phase[p] = "edges"
  <2>1. /\ HeldNow(data'[p].names, edges'[p], Span(p, mask'[p]))
        /\ phase' = phase
    BY <1>6, EdgesAdded
  <2>2. Held(data, copied, phase, data'[p].names, edges'[p], Span(p, mask'[p]))
    BY <2>1 DEF HeldNow
  <2>3. \A m \in Nat : Span(p, m) \in SUBSET Proc
    BY <1>2, <1>6
  <2>4. mask'[p] \in Nat
    BY <1>1, <1>6, EdgesAdded
  <2> DEFINE names == data'[p].names
             map == edges'[p]
             R == Span(p, mask'[p])
  <2>5. HeldNow(names, map, R) /\ R \in SUBSET Proc
    BY <2>1, <2>3, <2>4
  <2> HIDE DEF names, map, R
  <2>6. Held(data', copied', phase', names, map, R)
    BY <2>5, HeldStep
  <2>7. QED
    BY <1>6, <2>1, <2>6 DEF names, map, R
<1>7. CASE q = p /\ ~CopyEdges(p) /\ ~(ReceiveData(p) /\ phase[p] = "edges")
  <2>1. /\ edges'[p] = edges[p]
        /\ phase'[p] = "edges" => phase[p] = "edges" /\ Span(p, mask'[p]) = Span(p, mask[p])
        /\ p = Root /\ phase[p] = "edges" /\ phase'[p] # "edges" => Span(p, mask[p]) = Proc
    BY <1>7, EdgesStep
  <2>2. phase'[p] \in Contributed => phase[p] \in Contributed
    BY <1>7, CopiedStep
  <2>3. CASE phase[p] = "edges"
    <3>1. HeldNow(data[p].names, edges[p], Span(p, mask[p]))
      BY <1>1, <1>7, <2>3 DEF EdgesFit
    <3>2. Held(data', copied', phase', data'[p].names, edges'[p], Span(p, mask[p]))
      BY <1>1, <1>2, <1>7, <2>1, <3>1, StillHeld
    <3>3. QED
      BY <1>7, <2>1, <2>3, <3>2
  <2>4. CASE p = Root /\ phase[p] \in Contributed \ {"edges"}
    <3>1. HeldNow(data[p].names, edges[p], Proc)
      BY <1>1, <1>7, <2>4 DEF EdgesFit
    <3>2. Held(data', copied', phase', data'[p].names, edges'[p], Proc)
      BY <2>1, <3>1, StillHeld
    <3>3. QED
      BY <1>7, <2>1, <2>4, <3>2
  <2>5. CASE phase[p] # "edges" /\ ~(p = Root /\ phase[p] \in Contributed \ {"edges"})
    BY <1>7, <2>1, <2>2, <2>5
  <2>6. QED
    BY <2>3, <2>4, <2>5
<1>8. QED
  BY <1>4, <1>5, <1>6, <1>7

-----------------------------------------------------------------------------
(***************************************************************************)
(* All steps, and what the root ends with.                                 *)
(***************************************************************************)

(* All edges on their way are, after a step as before. *)
LEMMA LoadFitsStep ==
  ASSUME IInv, EdgeSums, NEW p \in Proc, StepOf(p), NEW s \in Proc, NEW d \in Proc
  PROVE  LoadFits(s, d)'
<1> DEFINE c == chan[<<s, d>>]
           Fits(m, R) == m.kind = "data" /\ m.phase = "edges" =>
                           Held(data', copied', phase', m.body.names, m.body.edges, R)
<1>1. c \in Seq(Wire) /\ chan \in [Proc \X Proc -> Seq(Wire)] /\ LoadFits(s, d)
  BY DEF IInv, Control, ControlTypes, EdgeSums
<1>2. Span(s, s - d) \subseteq Proc
  BY DEF Span
<1>3. ASSUME NEW k \in 1 .. Len(c) PROVE Fits(c[k], Span(s, s - d))
  BY <1>1, <1>2, HeldStep DEF LoadFits
<1>4. ASSUME \A k \in 1 .. Len(chan'[<<s, d>>]) : Fits(chan'[<<s, d>>][k], Span(s, s - d))
      PROVE  LoadFits(s, d)'
  BY <1>4 DEF LoadFits, HeldNow
<1> HIDE DEF Fits
<1>5. CASE chan'[<<s, d>>] = c
  BY <1>3, <1>4, <1>5
<1>6. ASSUME NEW pair \in Proc \X Proc, chan[pair] # <<>>, chan' = [chan EXCEPT ![pair] = Tail(@)]
      PROVE  LoadFits(s, d)'
  <2>1. CASE pair = <<s, d>>
    <3>1. chan'[<<s, d>>] = Tail(c) /\ c # <<>>
      BY <1>1, <1>6, <2>1
    <3>2. \A k \in 1 .. Len(Tail(c)) : k + 1 \in 1 .. Len(c) /\ Tail(c)[k] = c[k + 1]
      BY <1>1, <3>1
    <3> HIDE DEF c
    <3>3. QED
      BY <1>3, <1>4, <3>1, <3>2
  <2>2. CASE pair # <<s, d>>
    BY <1>1, <1>5, <1>6, <2>2
  <2>3. QED
    BY <2>1, <2>2
<1>7. ASSUME NEW m, Fits(m, Span(p, mask[p])), phase[p] \in Reductions, BitSet(p, mask[p]),
             chan' = [chan EXCEPT ![Outgoing(p)] = Append(@, m)]
      PROVE  LoadFits(s, d)'
  <2>1. Outgoing(p) = <<p, p - mask[p]>> /\ Outgoing(p) \in Proc \X Proc /\ p - (p - mask[p]) = mask[p]
    BY <1>7, SendingEdge DEF IInv
  <2>2. CASE Outgoing(p) = <<s, d>>
    <3>1. s = p /\ s - d = mask[p]
      BY <2>1, <2>2
    <3>2. chan'[<<s, d>>] = Append(c, m)
      BY <1>1, <1>7, <2>1, <2>2
    <3>3. \A k \in 1 .. Len(Append(c, m)) :
             (k \in 1 .. Len(c) /\ Append(c, m)[k] = c[k]) \/ Append(c, m)[k] = m
      BY <1>1
    <3>4. Fits(m, Span(s, s - d))
      BY <1>7, <3>1
    <3> HIDE DEF c
    <3>5. QED
      BY <1>3, <1>4, <3>2, <3>3, <3>4
  <2>3. CASE Outgoing(p) # <<s, d>>
    BY <1>1, <1>5, <1>7, <2>1, <2>3
  <2>4. QED
    BY <2>2, <2>3
<1>8. CASE ReceiveSize(p) \/ ReceiveData(p)
  <2>1. /\ phase[p] \in Reductions /\ chan[Incoming(p)] # <<>>
        /\ chan' = [chan EXCEPT ![Incoming(p)] = Tail(@)]
    BY <1>8 DEF ReceiveSize, ReceiveData, Receives, Looping, Reducing
  <2>2. ~BitSet(p, mask[p]) /\ p + mask[p] < N
    BY <1>8, RanksAreRelative
    DEF ReceiveSize, ReceiveData, Receives, Source, IInv, Control, MasksFit
  <2>3. Incoming(p) \in Proc \X Proc
    BY <2>1, <2>2, ReceivingEdge DEF IInv
  <2>4. QED
    BY <1>6, <2>1, <2>3
<1>9. CASE SendSize(p)
  <2> DEFINE m == [phase |-> phase[p], kind |-> "size", body |-> {}]
  <2>1. /\ phase[p] \in Reductions /\ BitSet(p, mask[p]) /\ m.kind # "data"
        /\ chan' = [chan EXCEPT ![Outgoing(p)] = Append(@, m)]
    BY <1>9, RanksAreRelative DEF SendSize, Looping, Reducing
  <2> HIDE DEF m
  <2>2. Fits(m, Span(p, mask[p]))
    BY <2>1 DEF Fits
  <2>3. QED
    BY <1>7, <2>1, <2>2
<1>10. CASE SendData(p)
  <2> DEFINE m == [phase |-> phase[p], kind |-> "data", body |-> Body(p)]
  <2>1. phase[p] \in Reductions /\ BitSet(p, mask[p])
    BY <1>10 DEF SendData, Reducing, IInv, Control, MasksFit
  <2>2. UNCHANGED chan \/ chan' = [chan EXCEPT ![Outgoing(p)] = Append(@, m)]
    BY <1>10 DEF SendData
  <2>3. Fits(m, Span(p, mask[p]))
    <3> SUFFICES ASSUME phase[p] = "edges"
                 PROVE  Held(data', copied', phase', m.body.names, m.body.edges, Span(p, mask[p]))
      BY DEF Fits
    <3>1. m.body.names = data[p].names /\ m.body.edges = edges[p]
      BY DEF Body
    <3>2. HeldNow(data[p].names, edges[p], Span(p, mask[p]))
      BY DEF EdgeSums, EdgesFit
    <3>3. Span(p, mask[p]) \in SUBSET Proc
      BY DEF Span
    <3>4. Held(data', copied', phase', data[p].names, edges[p], Span(p, mask[p]))
      BY <3>2, <3>3, HeldStep
    <3>5. QED
      BY <3>1, <3>4
  <2> HIDE DEF m
  <2>4. CASE UNCHANGED chan
    BY <1>5, <2>4
  <2>5. QED
    BY <1>7, <2>1, <2>2, <2>3, <2>4
<1>11. ASSUME ~ReceiveSize(p), ~ReceiveData(p), ~SendSize(p), ~SendData(p)
       PROVE  UNCHANGED chan
  <2>1. CASE Takes(p)
    BY <2>1, CastOfTakes
  <2>2. CASE RecordLate(p) \/ EnterBarrier(p) \/ LeaveBarrier(p) \/ LoopEnds(p)
    BY <2>2 DEF RecordLate, EnterBarrier, LeaveBarrier, LoopEnds, loop
  <2>3. CASE LeaveGather(p) \/ GetLastState(p) \/ Annotate(p)
    BY <2>3 DEF LeaveGather, GetLastState, Annotate, loop
  <2>4. CASE CopyEdges(p) \/ NewTable(p) \/ Skip(p) \/ SendReturns(p)
    BY <2>4 DEF CopyEdges, NewTable, Skip, SendReturns
  <2>5. QED
    BY <1>11, <2>1, <2>2, <2>3, <2>4 DEF StepOf, Advance, Reduce, SendStep, Takes
<1>12. QED
  BY <1>5, <1>8, <1>9, <1>10, <1>11

(* Every step keeps the second invariant, where the first holds. *)
LEMMA EdgeSumsNext == IInv /\ EdgeSums /\ [Next]_vars => EdgeSums'
<1> SUFFICES ASSUME IInv, EdgeSums, [Next]_vars PROVE EdgeSums'
  OBVIOUS
<1>1. CASE UNCHANGED vars
  <2>1. UNCHANGED <<data, phase, mask, edges, chan, copied>>
    BY <1>1 DEF vars
  <2>2. \A q \in Proc : ContributionFits(q)' /\ EdgesFit(q)'
    BY <2>1 DEF EdgeSums, ContributionFits, EdgesFit, HeldNow
  <2>3. \A s, d \in Proc : LoadFits(s, d)'
    BY <2>1 DEF EdgeSums, LoadFits, HeldNow
  <2>4. copied' = [q \in Proc |-> copied'[q]]
    BY <2>1 DEF EdgeSums
  <2>5. QED
    BY <2>2, <2>3, <2>4 DEF EdgeSums
<1>2. CASE Next
  <2>1. PICK p \in Proc : StepOf(p)
    BY <1>2, Steps
  <2>2. copied' = [q \in Proc |-> copied'[q]]
    BY <2>1, CopiedStep
  <2>3. \A q \in Proc : ContributionFits(q)' /\ EdgesFit(q)'
    BY <2>1, ContributionStep, EdgesFitStep
  <2>4. \A s, d \in Proc : LoadFits(s, d)'
    BY <2>1, LoadFitsStep
  <2>5. QED
    BY <2>2, <2>3, <2>4 DEF EdgeSums
<1>3. QED
  BY <1>1, <1>2

(* Nobody has copied anything at first. *)
LEMMA EdgeSumsInit == Init => EdgeSums
<1> SUFFICES ASSUME Init PROVE EdgeSums
  OBVIOUS
<1>1. \A p \in Proc : phase[p] = "gather"
  BY DEF Init
<1>2. copied = [q \in Proc |-> copied[q]]
  BY DEF Init
<1>3. \A p \in Proc : ContributionFits(p) /\ EdgesFit(p)
  BY <1>1 DEF ContributionFits, EdgesFit, Contributed
<1>4. \A s, d \in Proc : LoadFits(s, d)
  BY DEF Init, LoadFits
<1>5. QED
  BY <1>2, <1>3, <1>4 DEF EdgeSums

(* With all ranks at the root, its edges are the sum of all. *)
LEMMA SumsHold == IInv /\ EdgeSums => EdgesSummed
<1> SUFFICES ASSUME IInv, EdgeSums, RootHasAll, NEW src \in ToSet(data[Root].names),
                    NEW dst \in ToSet(data[Root].names)
             PROVE  LET all == EdgeOf(Root, edges[Root], src, dst)
                        own == [p \in Proc |-> EdgeOf(p, copied[p], src, dst)]
                    IN /\ all.count = SumFunctionOnSet([p \in Proc |-> own[p].count], Proc)
                       /\ \A c \in 1 .. all.count :
                            Entry(all.tasks, c, {})
                              = {p \in Proc : p \in Entry(own[p].tasks, c, {})}
  BY DEF EdgesSummed
<1> DEFINE all == EdgeOf(Root, edges[Root], src, dst)
           own == [p \in Proc |-> EdgeOf(p, copied[p], src, dst)]
           counts == [p \in Proc |-> own[p].count]
<1>1. HeldNow(data[Root].names, edges[Root], Proc)
  BY RanksAreRelative DEF RootHasAll, EdgeSums, EdgesFit, Contributed
<1>2. src \in Nat /\ dst \in Nat
  <2>1. data[Root].names \in Seq(Nat)
    BY RanksAreRelative DEF IInv, Data, DataTypes, Processes, NameLists
  <2>2. QED
    BY <2>1 DEF ToSet
<1>3. /\ all = Share(data[Root].names, edges[Root], src, dst)
      /\ own = OwnShares(data, copied, src, dst)
  BY DEF EdgeOf, Share, Nothing, OwnShares
<1>4. SumOf(own, all, Proc)
  BY <1>1, <1>2, <1>3 DEF HeldNow, Held
<1>5. \A q \in Proc : own[q].count \in Nat
  <2> SUFFICES ASSUME NEW q \in Proc PROVE own[q].count \in Nat
    OBVIOUS
  <2>1. copied[q] \in EdgeMaps(DOMAIN data[q].names, {q})
    BY <1>1 DEF HeldNow, Held, EdgeSums, ContributionFits
  <2>2. own[q] = Share(data[q].names, copied[q], src, dst)
    BY <1>3 DEF OwnShares
  <2>3. QED
    BY <2>1, <2>2, ShareTyped
<1>6. IsFiniteSet(Proc)
  BY FiniteRanks
<1>7. \A q \in Proc : counts[q] \in Nat
  BY <1>5
<1>8. all.count = SumOver(counts, Proc)
  BY <1>4 DEF SumOf
<1> HIDE DEF counts
<1>9. all.count = SumFunctionOnSet(counts, Proc)
  BY <1>6, <1>7, <1>8, SumFunctionIsSum
<1>10. SumOver(counts, Proc) \in Nat
  BY <1>6, <1>7, UnitsFinite
<1>11. \A c \in 1 .. all.count : Entry(all.tasks, c, {}) = {p \in Proc : p \in Entry(own[p].tasks, c, {})}
  <2>1. \A c \in Nat : Entry(all.tasks, c, {}) = {p \in Proc : p \in Entry(own[p].tasks, c, {})}
    BY <1>4 DEF SumOf
  <2>2. 1 .. all.count \subseteq Nat
    BY <1>8, <1>10
  <2>3. QED
    BY <2>1, <2>2
<1>12. QED
  BY <1>9, <1>11 DEF counts

(* When the root goes on to analyse, the edges of its model are the sum of
   those of all processes, whatever ids they gave to the states and whatever
   their applications recorded since: counts add up, and a rank is listed
   under a count exactly when it took the edge that often. *)
THEOREM RootEdgesAreSum == SafeSpec => []EdgesSummed
<1>1. Init => IInv /\ EdgeSums
  BY InvInit, EdgeSumsInit
<1>2. IInv /\ EdgeSums /\ [Next]_vars => (IInv /\ EdgeSums)'
  BY InvNext, EdgeSumsNext
<1>3. IInv /\ EdgeSums => EdgesSummed
  BY SumsHold
<1>4. QED
  BY <1>1, <1>2, <1>3, PTL DEF SafeSpec
===============================================================================
