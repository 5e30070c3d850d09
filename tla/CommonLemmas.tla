----------------------------- MODULE CommonLemmas -----------------------------
(***************************************************************************)
(* Lemmas that several proofs share.  Induction over the natural numbers   *)
(* and over the subsets of a finite set, in forms that name a set or a     *)
(* function, not an operator; sums and products of natural numbers, which  *)
(* the folds of the community modules compute, as numbers of elements; the *)
(* arithmetic of bits, written with \div and %.                            *)
(***************************************************************************)
EXTENDS FiniteSetTheorems, FiniteSetsExt, TLAPS

(* Induction over the natural numbers. *)
LEMMA SetInduction ==
  ASSUME NEW Good, 0 \in Good, \A n \in Nat : n \in Good => n + 1 \in Good
  PROVE  Nat \subseteq Good
<1> DEFINE Bad == {0 .. n : n \in Nat \ Good}
<1> SUFFICES ASSUME Bad # {} PROVE FALSE
  OBVIOUS
<1>1. Bad \subseteq FiniteSubsetsOf(Nat)
  <2>1. \A n \in Nat : 0 .. n \in SUBSET Nat /\ IsFiniteSet(0 .. n)
    BY FS_Interval
  <2>2. QED
    BY <2>1 DEF FiniteSubsetsOf
<1>2. PICK least \in Bad : \A b \in Bad : <<b, least>> \notin StrictSubsetOrdering(Nat)
  <2> HIDE DEF Bad
  <2>1. QED
    BY <1>1, FS_StrictSubsetOrderingWellFounded, WFMin
<1>3. PICK k \in Nat \ Good : least = 0 .. k
  BY <1>2
<1>4. k - 1 \in Nat \ Good
  BY <1>3
<1>5. 0 .. k - 1 \in Bad
  BY <1>4
<1>6. <<0 .. k - 1, 0 .. k>> \in StrictSubsetOrdering(Nat)
  <2>1. k \in 0 .. k /\ k \notin 0 .. k - 1 /\ 0 .. k - 1 \subseteq 0 .. k
    BY <1>4
  <2>2. 0 .. k - 1 \in SUBSET Nat /\ 0 .. k \in SUBSET Nat
    BY <1>3
  <2>3. QED
    BY <2>1, <2>2 DEF StrictSubsetOrdering
<1>7. QED
  BY <1>2, <1>3, <1>5, <1>6

(* A set of natural numbers has a least element. *)
LEMMA LeastElement ==
  ASSUME NEW S \in SUBSET Nat, S # {}
  PROVE  \E x \in S : \A y \in S : x <= y
<1> DEFINE Above == {n \in Nat : \A y \in S : n <= y}
<1> SUFFICES ASSUME \A x \in S : x \notin Above PROVE FALSE
  OBVIOUS
<1>1. 0 \in Above
  OBVIOUS
<1>2. ASSUME NEW n \in Nat, n \in Above PROVE n + 1 \in Above
  BY <1>2
<1> HIDE DEF Above
<1>3. Nat \subseteq Above
  BY <1>1, <1>2, SetInduction
<1>4. QED
  BY <1>3

(* A finite set of them has a greatest. *)
LEMMA GreatestElement ==
  ASSUME NEW n \in Nat, NEW S \in SUBSET (1 .. n), S # {}
  PROVE  Max(S) \in S /\ \A y \in S : y <= Max(S)
<1> DEFINE Below == {n - x : x \in S}
<1>1. Below \in SUBSET Nat /\ Below # {}
  <2>1. \A x \in S : n - x \in Nat
    OBVIOUS
  <2>2. QED
    BY <2>1
<1>2. PICK b \in Below : \A y \in Below : b <= y
  BY <1>1, LeastElement
<1>3. PICK x \in S : b = n - x
  BY <1>2
<1>4. ASSUME NEW y \in S PROVE x >= y
  <2>1. n - y \in Below /\ y \in 1 .. n /\ x \in 1 .. n
    OBVIOUS
  <2>2. QED
    BY <1>2, <1>3, <2>1
<1>5. Max(S) \in S /\ \A y \in S : Max(S) >= y
  BY <1>4 DEF Max
<1>6. QED
  BY <1>5

(* Functions on the natural numbers may be defined by recursion. *)
LEMMA RecursionExists ==
  ASSUME NEW V, NEW base \in V, NEW step \in [V -> V]
  PROVE  \E f \in [Nat -> V] : f[0] = base /\ \A n \in Nat : f[n + 1] = step[f[n]]
<1> DEFINE Begins(g, n) == /\ g \in [0 .. n -> V]
                           /\ g[0] = base
                           /\ \A k \in 0 .. n - 1 : g[k + 1] = step[g[k]]
           Good == {n \in Nat : \E g : Begins(g, n)}
<1>1. 0 \in Good
  <2> DEFINE g == [k \in 0 .. 0 |-> base]
  <2>1. Begins(g, 0)
    OBVIOUS
  <2>2. QED
    BY <2>1
<1>2. ASSUME NEW n \in Nat, n \in Good PROVE n + 1 \in Good
  <2>1. PICK g : Begins(g, n)
    BY <1>2
  <2> DEFINE h == [k \in 0 .. n + 1 |-> IF k = n + 1 THEN step[g[n]] ELSE g[k]]
  <2>2. Begins(h, n + 1)
    <3>1. h \in [0 .. n + 1 -> V] /\ h[0] = base
      BY <2>1
    <3>2. ASSUME NEW k \in 0 .. (n + 1) - 1 PROVE h[k + 1] = step[h[k]]
      <4>1. CASE k = n
        BY <2>1, <4>1
      <4>2. CASE k # n
        <5>1. k \in 0 .. n - 1 /\ k \in 0 .. n + 1 /\ k + 1 \in 0 .. n + 1 /\ k # n + 1 /\ k + 1 # n + 1
          BY <4>2
        <5>2. QED
          BY <2>1, <5>1
      <4>3. QED
        BY <4>1, <4>2
    <3>3. QED
      BY <3>1, <3>2
  <2> HIDE DEF h
  <2>3. QED
    BY <2>2
<1>3. \A n \in Nat : \E g : Begins(g, n)
  <2>1. Nat \subseteq Good
    <3> HIDE DEF Good
    <3>1. QED
      BY <1>1, <1>2, SetInduction
  <2>2. QED
    BY <2>1
<1> DEFINE Up(n) == CHOOSE g : Begins(g, n)
<1>4. \A n \in Nat : Begins(Up(n), n)
  BY <1>3
<1> HIDE DEF Up
<1>5. ASSUME NEW n \in Nat, NEW m \in Nat PROVE \A k \in 0 .. n : k <= m => Up(n)[k] = Up(m)[k]
  <2> DEFINE Same == {k \in Nat : k <= n /\ k <= m => Up(n)[k] = Up(m)[k]}
  <2>1. 0 \in Same
    BY <1>4
  <2>2. ASSUME NEW k \in Nat, k \in Same PROVE k + 1 \in Same
    <3> SUFFICES ASSUME k + 1 <= n, k + 1 <= m PROVE Up(n)[k + 1] = Up(m)[k + 1]
      OBVIOUS
    <3>1. k \in 0 .. n - 1 /\ k \in 0 .. m - 1 /\ k <= n /\ k <= m
      OBVIOUS
    <3>2. Up(n)[k + 1] = step[Up(n)[k]] /\ Up(m)[k + 1] = step[Up(m)[k]]
      BY <1>4, <3>1
    <3>3. QED
      BY <2>2, <3>1, <3>2
  <2>3. Nat \subseteq Same
    <3> HIDE DEF Same
    <3>1. QED
      BY <2>1, <2>2, SetInduction
  <2>4. QED
    BY <2>3
<1> DEFINE f == [n \in Nat |-> Up(n)[n]]
<1>6. f \in [Nat -> V]
  <2>1. \A n \in Nat : n \in 0 .. n
    OBVIOUS
  <2>2. QED
    BY <1>4, <2>1
<1>7. f[0] = base
  BY <1>4
<1>8. ASSUME NEW n \in Nat PROVE f[n + 1] = step[f[n]]
  <2>1. n \in 0 .. (n + 1) - 1 /\ n \in 0 .. n /\ n <= n + 1 /\ n + 1 \in Nat
    OBVIOUS
  <2>2. Up(n + 1)[n + 1] = step[Up(n + 1)[n]]
    BY <1>4, <2>1
  <2>3. Up(n + 1)[n] = Up(n)[n]
    BY <1>5, <2>1
  <2>4. QED
    BY <2>1, <2>2, <2>3
<1>9. QED
  BY <1>6, <1>7, <1>8

(* Two functions of the subsets of a finite set that agree on the empty set,
   and on each other subset if they do without one of its elements, agree. *)
LEMMA FoldsAgree ==
  ASSUME NEW S, IsFiniteSet(S), NEW F, NEW G, F[{}] = G[{}],
         \A s \in SUBSET S : s # {} => \E x \in s : F[s \ {x}] = G[s \ {x}] => F[s] = G[s]
  PROVE  F[S] = G[S]
<1> DEFINE Good == {n \in Nat : \A s \in SUBSET S : Cardinality(s) = n => F[s] = G[s]}
<1>1. \A s \in SUBSET S : IsFiniteSet(s)
  BY FS_Subset
<1>2. 0 \in Good
  <2>1. \A s \in SUBSET S : Cardinality(s) = 0 => s = {}
    BY <1>1, FS_EmptySet
  <2>2. QED
    BY <2>1
<1>3. ASSUME NEW n \in Nat, n \in Good PROVE n + 1 \in Good
  <2> SUFFICES ASSUME NEW s \in SUBSET S, Cardinality(s) = n + 1 PROVE F[s] = G[s]
    BY <1>3
  <2>1. s # {}
    BY FS_EmptySet
  <2>2. PICK x \in s : F[s \ {x}] = G[s \ {x}] => F[s] = G[s]
    BY <2>1
  <2>3. Cardinality(s \ {x}) = IF x \in s THEN Cardinality(s) - 1 ELSE Cardinality(s)
    BY <1>1, FS_RemoveElement
  <2>4. Cardinality(s \ {x}) = n /\ s \ {x} \in SUBSET S
    BY <2>3
  <2>5. QED
    BY <1>3, <2>2, <2>4
<1> HIDE DEF Good
<1>4. Nat \subseteq Good
  BY <1>2, <1>3, SetInduction
<1>5. Cardinality(S) \in Good /\ S \in SUBSET S
  BY <1>4, FS_CardinalityType
<1>6. QED
  BY <1>5 DEF Good

-----------------------------------------------------------------------------
(* The sum of f over S is the number of pairs of an element and one of the
   first f[element] positive numbers. *)
Units(f, S) == {u \in S \X Nat : 1 <= u[2] /\ u[2] <= f[u[1]]}
SumOver(f, S) == Cardinality(Units(f, S))

(* One number. *)
LEMMA SumOverOne ==
  ASSUME NEW f, NEW x, f[x] \in Nat
  PROVE  IsFiniteSet(Units(f, {x})) /\ SumOver(f, {x}) = f[x]
<1> DEFINE I == 1 .. f[x]
           U == Units(f, {x})
           h == [k \in I |-> <<x, k>>]
<1>1. IsFiniteSet(I) /\ Cardinality(I) = f[x]
  BY FS_Interval
<1>2. U = {<<x, k>> : k \in I}
  <2>1. ASSUME NEW u \in U PROVE u \in {<<x, k>> : k \in I}
    BY DEF Units
  <2>2. ASSUME NEW k \in I PROVE <<x, k>> \in U
    BY DEF Units
  <2>3. QED
    BY <2>1, <2>2
<1> HIDE DEF I, U
<1>3. h \in Bijection(I, U)
  BY <1>2 DEF Bijection, Injection, Surjection, IsInjective
<1>4. ExistsBijection(I, U)
  BY <1>3 DEF ExistsBijection
<1>5. IsFiniteSet(U) /\ Cardinality(U) = f[x]
  BY <1>1, <1>4, FS_Bijection
<1>6. QED
  BY <1>5 DEF U, SumOver

(* A finite sum of natural numbers is one. *)
LEMMA UnitsFinite ==
  ASSUME NEW S, IsFiniteSet(S), NEW f, \A x \in S : f[x] \in Nat
  PROVE  IsFiniteSet(Units(f, S)) /\ SumOver(f, S) \in Nat
<1> DEFINE Columns == {Units(f, {x}) : x \in S}
           h == [x \in S |-> Units(f, {x})]
<1>1. h \in Surjection(S, Columns)
  BY DEF Surjection
<1>2. IsFiniteSet(Columns)
  <2> HIDE DEF Columns, h
  <2>1. QED
    BY <1>1, FS_Surjection
<1>3. \A C \in Columns : IsFiniteSet(C)
  BY SumOverOne
<1>4. IsFiniteSet(UNION Columns)
  <2> HIDE DEF Columns
  <2>1. QED
    BY <1>2, <1>3, FS_UNION
<1>5. Units(f, S) \subseteq UNION Columns
  <2> SUFFICES ASSUME NEW u \in Units(f, S) PROVE u \in UNION Columns
    OBVIOUS
  <2>1. u[1] \in S /\ u \in Units(f, {u[1]})
    BY DEF Units
  <2>2. QED
    BY <2>1
<1>6. QED
  BY <1>4, <1>5, FS_Subset, FS_CardinalityType DEF SumOver

(* The sum over two disjoint sets. *)
LEMMA SumOverBoth ==
  ASSUME NEW S, IsFiniteSet(S), NEW T, IsFiniteSet(T), S \cap T = {},
         NEW f, \A x \in S \cup T : f[x] \in Nat
  PROVE  SumOver(f, S \cup T) = SumOver(f, S) + SumOver(f, T)
<1>1. IsFiniteSet(Units(f, S)) /\ IsFiniteSet(Units(f, T)) /\ SumOver(f, S) \in Nat /\ SumOver(f, T) \in Nat
  BY UnitsFinite
<1>2. Units(f, S \cup T) = Units(f, S) \cup Units(f, T)
  BY DEF Units
<1>3. Units(f, S) \cap Units(f, T) = {}
  BY DEF Units
<1>4. Cardinality(Units(f, S) \cup Units(f, T))
        = Cardinality(Units(f, S)) + Cardinality(Units(f, T)) - Cardinality({})
  <2> DEFINE U == Units(f, S)
             V == Units(f, T)
  <2> SUFFICES Cardinality(U \cup V) = Cardinality(U) + Cardinality(V) - Cardinality({})
    OBVIOUS
  <2>1. IsFiniteSet(U) /\ IsFiniteSet(V) /\ U \cap V = {}
    BY <1>1, <1>3
  <2> HIDE DEF U, V
  <2>2. Cardinality(U \cup V) = Cardinality(U) + Cardinality(V) - Cardinality(U \cap V)
    BY <2>1, FS_Union
  <2>3. QED
    BY <2>1, <2>2
<1>5. SumOver(f, S \cup T) = SumOver(f, S) + SumOver(f, T) - 0
  BY <1>2, <1>4, FS_EmptySet DEF SumOver
<1>6. QED
  BY <1>1, <1>5

(* A sum depends on the summands only. *)
LEMMA SumOverDepends ==
  ASSUME NEW S, NEW f, NEW g, \A x \in S : f[x] = g[x]
  PROVE  SumOver(f, S) = SumOver(g, S)
<1>1. Units(f, S) = Units(g, S)
  BY DEF Units
<1>2. QED
  BY <1>1 DEF SumOver

(* The sum of the empty set, and of a set without one of its elements. *)
LEMMA SumOverElements ==
  ASSUME NEW S, IsFiniteSet(S), NEW f, \A x \in S : f[x] \in Nat
  PROVE  /\ SumOver(f, {}) = 0
         /\ \A s \in SUBSET S : \A x \in s : SumOver(f, s) = f[x] + SumOver(f, s \ {x})
<1>1. SumOver(f, {}) = 0
  <2>1. Units(f, {}) = {}
    BY DEF Units
  <2>2. QED
    BY <2>1, FS_EmptySet DEF SumOver
<1>2. ASSUME NEW s \in SUBSET S, NEW x \in s
      PROVE  SumOver(f, s) = f[x] + SumOver(f, s \ {x})
  <2> DEFINE r == s \ {x}
  <2>1. s = {x} \cup r /\ {x} \cap r = {} /\ r \in SUBSET S /\ f[x] \in Nat
    OBVIOUS
  <2> HIDE DEF r
  <2>2. IsFiniteSet(r) /\ IsFiniteSet({x})
    BY <2>1, FS_Subset, FS_Singleton
  <2>3. SumOver(f, {x} \cup r) = SumOver(f, {x}) + SumOver(f, r)
    BY <2>1, <2>2, SumOverBoth
  <2>4. SumOver(f, {x}) = f[x]
    BY <2>1, SumOverOne
  <2>5. QED
    BY <2>1, <2>3, <2>4 DEF r
<1>3. QED
  BY <1>1, <1>2

(* The sum the folds of the community modules compute, in whatever order
   CHOOSE takes the elements. *)
Folded(f, S, iter) ==
  iter = [s \in SUBSET S |->
            IF s = {} THEN 0 ELSE f[CHOOSE x \in s : TRUE] + iter[s \ {CHOOSE x \in s : TRUE}]]

LEMMA FoldedIsSum ==
  ASSUME NEW S, IsFiniteSet(S), NEW f, \A x \in S : f[x] \in Nat
  PROVE  (CHOOSE iter : Folded(f, S, iter))[S] = SumOver(f, S)
<1> DEFINE first(s) == CHOOSE x \in s : TRUE
           F == CHOOSE iter : Folded(f, S, iter)
           G == [s \in SUBSET S |-> SumOver(f, s)]
<1>1. \A s \in SUBSET S : s # {} => first(s) \in s
  OBVIOUS
<1> HIDE DEF first
<1>2. ASSUME NEW s \in SUBSET S
      PROVE  G[s] = IF s = {} THEN 0 ELSE f[first(s)] + G[s \ {first(s)}]
  <2>1. SumOver(f, {}) = 0
    BY SumOverElements
  <2>2. CASE s # {}
    <3>1. first(s) \in s /\ s \ {first(s)} \in SUBSET S
      BY <1>1, <2>2
    <3>2. SumOver(f, s) = f[first(s)] + SumOver(f, s \ {first(s)})
      BY <3>1, SumOverElements
    <3>3. QED
      BY <2>2, <3>1, <3>2
  <2>3. QED
    BY <2>1, <2>2
<1>3. Folded(f, S, G)
  <2> DEFINE H == [s \in SUBSET S |-> IF s = {} THEN 0 ELSE f[first(s)] + G[s \ {first(s)}]]
  <2>1. \A s \in SUBSET S : G[s] = H[s]
    BY <1>2
  <2>2. G = [s \in SUBSET S |-> G[s]] /\ H = [s \in SUBSET S |-> H[s]]
    OBVIOUS
  <2>3. G = H
    <3> HIDE DEF G, H
    <3>1. QED
      BY <2>1, <2>2
  <2>4. QED
    BY <2>3 DEF Folded, first
<1>4. Folded(f, S, F)
  <2> HIDE DEF G
  <2>1. QED
    BY <1>3
<1>5. \A s \in SUBSET S : F[s] = IF s = {} THEN 0 ELSE f[first(s)] + F[s \ {first(s)}]
  <2> HIDE DEF F
  <2>1. QED
    BY <1>4 DEF Folded, first
<1> HIDE DEF F, G
<1>6. F[{}] = G[{}]
  BY <1>2, <1>5
<1>7. \A s \in SUBSET S : s # {} => \E x \in s : F[s \ {x}] = G[s \ {x}] => F[s] = G[s]
  BY <1>1, <1>2, <1>5
<1>8. F[S] = G[S]
  BY <1>6, <1>7, FoldsAgree
<1>9. QED
  BY <1>8 DEF F, G

(* Functions!SumFunctionOnSet is such a fold. *)
LEMMA SumFunctionIsSum ==
  ASSUME NEW S, IsFiniteSet(S), NEW f, \A x \in S : f[x] \in Nat
  PROVE  SumFunctionOnSet(f, S) = SumOver(f, S)
<1>1. SumFunctionOnSet(f, S) = (CHOOSE iter : Folded(f, S, iter))[S]
  BY DEF SumFunctionOnSet, FoldFunctionOnSet, MapThenFoldSet, Folded
<1>2. QED
  BY <1>1, FoldedIsSum

-----------------------------------------------------------------------------
(* The ways to choose an element of f[x] for each x in S: their number is the
   product of the numbers of elements. *)
Selections(f, S) == {g \in [S -> UNION {f[x] : x \in S}] : \A x \in S : g[x] \in f[x]}
ProductOver(f, S) == Cardinality(Selections(f, S))

(* One set, none, and other functions with the same sets. *)
LEMMA SelectionsOfOne ==
  ASSUME NEW f, NEW x, IsFiniteSet(f[x])
  PROVE  IsFiniteSet(Selections(f, {x})) /\ ProductOver(f, {x}) = Cardinality(f[x])
<1> DEFINE F == f[x]
           C == Selections(f, {x})
           h == [e \in F |-> [y \in {x} |-> e]]
<1>1. C = {[y \in {x} |-> e] : e \in F}
  <2>1. ASSUME NEW g \in C PROVE g \in {[y \in {x} |-> e] : e \in F}
    <3>1. g[x] \in F /\ g = [y \in {x} |-> g[y]]
      BY DEF Selections
    <3>2. g = [y \in {x} |-> g[x]]
      BY <3>1
    <3>3. QED
      BY <3>1, <3>2
  <2>2. ASSUME NEW e \in F PROVE [y \in {x} |-> e] \in C
    BY DEF Selections
  <2>3. QED
    BY <2>1, <2>2
<1>2. ASSUME NEW d \in F, NEW e \in F, [y \in {x} |-> d] = [y \in {x} |-> e] PROVE d = e
  <2>1. [y \in {x} |-> d][x] = [y \in {x} |-> e][x]
    BY <1>2
  <2>2. QED
    BY <2>1
<1> HIDE DEF F, C
<1>3. h \in Bijection(F, C)
  BY <1>1, <1>2 DEF Bijection, Injection, Surjection, IsInjective
<1>4. ExistsBijection(F, C)
  BY <1>3 DEF ExistsBijection
<1>5. IsFiniteSet(F)
  BY DEF F
<1>6. QED
  BY <1>4, <1>5, FS_Bijection DEF F, C, ProductOver

LEMMA SelectionsOfNone ==
  ASSUME NEW f
  PROVE  IsFiniteSet(Selections(f, {})) /\ ProductOver(f, {}) = 1
<1>1. Selections(f, {}) = {[x \in {} |-> x]}
  BY DEF Selections
<1>2. QED
  BY <1>1, FS_Singleton DEF ProductOver

LEMMA SelectionsDepend ==
  ASSUME NEW S, NEW f, NEW g, \A x \in S : f[x] = g[x]
  PROVE  Selections(f, S) = Selections(g, S)
<1>1. {f[x] : x \in S} = {g[x] : x \in S}
  OBVIOUS
<1>2. QED
  BY <1>1 DEF Selections

(* The product over two disjoint sets. *)
LEMMA SelectionsSplit ==
  ASSUME NEW f, NEW S, NEW T, S \cap T = {},
         IsFiniteSet(Selections(f, S)), IsFiniteSet(Selections(f, T))
  PROVE  /\ IsFiniteSet(Selections(f, S \cup T))
         /\ ProductOver(f, S \cup T) = ProductOver(f, S) * ProductOver(f, T)
<1> DEFINE A == Selections(f, S)
           B == Selections(f, T)
           C == Selections(f, S \cup T)
           join(u) == [x \in S \cup T |-> IF x \in S THEN u[1][x] ELSE u[2][x]]
           h == [u \in A \X B |-> join(u)]
<1>1. ASSUME NEW g, NEW R PROVE g \in Selections(f, R) <=> g = [x \in R |-> g[x]] /\ \A x \in R : g[x] \in f[x]
  BY DEF Selections
<1>2. ASSUME NEW u \in A \X B PROVE join(u) \in C
  <2>1. u[1] \in A /\ u[2] \in B
    OBVIOUS
  <2>2. \A x \in S \cup T : join(u)[x] \in f[x]
    BY <1>1, <2>1
  <2>3. join(u) = [x \in S \cup T |-> join(u)[x]]
    OBVIOUS
  <2> HIDE DEF join
  <2>4. QED
    BY <1>1, <2>2, <2>3
<1>3. ASSUME NEW u \in A \X B, NEW v \in A \X B, join(u) = join(v) PROVE u = v
  <2>1. \A x \in S \cup T : join(u)[x] = join(v)[x]
    BY <1>3
  <2>2. (\A x \in S : u[1][x] = v[1][x]) /\ (\A x \in T : u[2][x] = v[2][x])
    BY <2>1
  <2>3. u[1] = v[1]
    <3>1. u[1] = [x \in S |-> u[1][x]] /\ v[1] = [x \in S |-> v[1][x]]
      BY <1>1
    <3>2. QED
      BY <2>2, <3>1
  <2>4. u[2] = v[2]
    <3>1. u[2] = [x \in T |-> u[2][x]] /\ v[2] = [x \in T |-> v[2][x]]
      BY <1>1
    <3>2. QED
      BY <2>2, <3>1
  <2>5. QED
    BY <2>3, <2>4
<1>4. ASSUME NEW g \in C PROVE \E u \in A \X B : join(u) = g
  <2> DEFINE a == [x \in S |-> g[x]]
             b == [x \in T |-> g[x]]
  <2>1. g = [x \in S \cup T |-> g[x]] /\ \A x \in S \cup T : g[x] \in f[x]
    BY <1>1
  <2>2. a \in A /\ b \in B
    <3>1. \A x \in S : a[x] \in f[x]
      BY <2>1
    <3>2. \A x \in T : b[x] \in f[x]
      BY <2>1
    <3>3. a = [x \in S |-> a[x]] /\ b = [x \in T |-> b[x]]
      OBVIOUS
    <3> HIDE DEF a, b
    <3>4. QED
      BY <1>1, <3>1, <3>2, <3>3
  <2>3. join(<<a, b>>) = [x \in S \cup T |-> g[x]]
    OBVIOUS
  <2>4. <<a, b>> \in A \X B
    BY <2>2
  <2>5. QED
    BY <2>1, <2>3, <2>4
<1> HIDE DEF join
<1>5. h \in Bijection(A \X B, C)
  <2> HIDE DEF A, B, C
  <2>1. QED
    BY <1>2, <1>3, <1>4 DEF Bijection, Injection, Surjection, IsInjective
<1>6. ExistsBijection(A \X B, C)
  BY <1>5 DEF ExistsBijection
<1>7. IsFiniteSet(A) /\ IsFiniteSet(B)
  OBVIOUS
<1> HIDE DEF A, B, C, h
<1>8. IsFiniteSet(A \X B) /\ Cardinality(A \X B) = Cardinality(A) * Cardinality(B)
  BY <1>7, FS_Product
<1>9. IsFiniteSet(C) /\ Cardinality(C) = Cardinality(A) * Cardinality(B)
  BY <1>6, <1>8, FS_Bijection
<1>10. QED
  BY <1>9 DEF A, B, C, ProductOver

(* A finite product of finite numbers is finite. *)
LEMMA SelectionsFinite ==
  ASSUME NEW S, IsFiniteSet(S), NEW f, \A x \in S : IsFiniteSet(f[x])
  PROVE  IsFiniteSet(Selections(f, S)) /\ ProductOver(f, S) \in Nat
<1> DEFINE F == [s \in SUBSET S |-> IF IsFiniteSet(Selections(f, s)) THEN 1 ELSE 0]
           G == [s \in SUBSET S |-> 1]
<1>1. F[{}] = G[{}]
  BY SelectionsOfNone
<1>2. ASSUME NEW s \in SUBSET S, NEW x \in s, F[s \ {x}] = G[s \ {x}]
      PROVE  F[s] = G[s]
  <2> DEFINE r == s \ {x}
  <2>1. r \in SUBSET S /\ s = {x} \cup r /\ {x} \cap r = {} /\ IsFiniteSet(f[x])
    OBVIOUS
  <2>2. IsFiniteSet(Selections(f, r))
    BY <1>2, <2>1
  <2> HIDE DEF r
  <2>3. IsFiniteSet(Selections(f, {x}))
    BY <2>1, SelectionsOfOne
  <2>4. IsFiniteSet(Selections(f, {x} \cup r))
    BY <2>1, <2>2, <2>3, SelectionsSplit
  <2>5. QED
    BY <2>1, <2>4
<1> HIDE DEF F, G
<1>3. F[S] = G[S]
  <2>1. \A s \in SUBSET S : s # {} => \E x \in s : F[s \ {x}] = G[s \ {x}] => F[s] = G[s]
    BY <1>2
  <2>2. QED
    BY <1>1, <2>1, FoldsAgree
<1>4. IsFiniteSet(Selections(f, S))
  BY <1>3 DEF F, G
<1>5. QED
  BY <1>4, FS_CardinalityType DEF ProductOver

(* The product over a set, one element taken out. *)
LEMMA ProductOverElements ==
  ASSUME NEW S, IsFiniteSet(S), NEW f, \A x \in S : IsFiniteSet(f[x]),
         NEW s \in SUBSET S, NEW x \in s
  PROVE  ProductOver(f, s) = Cardinality(f[x]) * ProductOver(f, s \ {x})
<1> DEFINE r == s \ {x}
<1>1. r \in SUBSET S /\ s = {x} \cup r /\ {x} \cap r = {} /\ IsFiniteSet(f[x]) /\ x \in S
  OBVIOUS
<1> HIDE DEF r
<1>2. IsFiniteSet(r) /\ \A y \in r : IsFiniteSet(f[y])
  BY <1>1, FS_Subset
<1>3. IsFiniteSet(Selections(f, r)) /\ IsFiniteSet(Selections(f, {x}))
  BY <1>1, <1>2, SelectionsFinite, SelectionsOfOne
<1>4. ProductOver(f, {x} \cup r) = ProductOver(f, {x}) * ProductOver(f, r)
  BY <1>1, <1>3, SelectionsSplit
<1>5. QED
  BY <1>1, <1>4, SelectionsOfOne DEF r

(* The product over the places of a list without repetition is that over its
   elements. *)
LEMMA ProductOverPlaces ==
  ASSUME NEW I, NEW p, \A i, j \in I : p[i] = p[j] => i = j,
         NEW S, \A i \in I : p[i] \in S, \A x \in S : \E i \in I : p[i] = x,
         NEW f, NEW e, \A i \in I : e[i] = f[p[i]],
         IsFiniteSet(Selections(f, S))
  PROVE  ProductOver(e, I) = ProductOver(f, S)
<1> DEFINE A == Selections(f, S)
           B == Selections(e, I)
           h == [g \in A |-> [i \in I |-> g[p[i]]]]
           place(x) == CHOOSE i \in I : p[i] = x
<1>1. ASSUME NEW g, NEW R, NEW k PROVE g \in Selections(k, R) <=> g = [x \in R |-> g[x]] /\ \A x \in R : g[x] \in k[x]
  BY DEF Selections
<1>2. \A x \in S : place(x) \in I /\ p[place(x)] = x
  OBVIOUS
<1>3. \A i \in I : p[i] \in S /\ place(p[i]) = i
  OBVIOUS
<1> HIDE DEF place
<1>4. ASSUME NEW g \in A PROVE [i \in I |-> g[p[i]]] \in B
  <2> DEFINE c == [i \in I |-> g[p[i]]]
  <2>1. \A i \in I : c[i] \in e[i]
    BY <1>1, <1>3
  <2>2. c = [i \in I |-> c[i]]
    OBVIOUS
  <2> HIDE DEF c
  <2>3. c \in B
    BY <1>1, <2>1, <2>2
  <2>4. QED
    BY <2>3 DEF c
<1>5. ASSUME NEW g \in A, NEW k \in A, [i \in I |-> g[p[i]]] = [i \in I |-> k[p[i]]] PROVE g = k
  <2>1. \A i \in I : g[p[i]] = k[p[i]]
    <3>1. \A i \in I : [j \in I |-> g[p[j]]][i] = [j \in I |-> k[p[j]]][i]
      BY <1>5
    <3>2. QED
      BY <3>1
  <2>2. \A x \in S : g[x] = k[x]
    BY <1>2, <2>1
  <2>3. g = [x \in S |-> g[x]] /\ k = [x \in S |-> k[x]]
    BY <1>1
  <2>4. QED
    BY <2>2, <2>3
<1>6. ASSUME NEW c \in B PROVE \E g \in A : [i \in I |-> g[p[i]]] = c
  <2> DEFINE g == [x \in S |-> c[place(x)]]
  <2>1. c = [i \in I |-> c[i]] /\ \A i \in I : c[i] \in e[i]
    BY <1>1
  <2>2. g \in A
    <3>1. \A x \in S : g[x] \in f[x]
      BY <1>2, <2>1
    <3>2. g = [x \in S |-> g[x]]
      OBVIOUS
    <3> HIDE DEF g
    <3>3. QED
      BY <1>1, <3>1, <3>2
  <2>3. \A i \in I : g[p[i]] = c[i]
    BY <1>3
  <2> HIDE DEF g
  <2>4. [i \in I |-> g[p[i]]] = [i \in I |-> c[i]]
    BY <2>3
  <2>5. QED
    BY <2>1, <2>2, <2>4
<1>7. h \in Bijection(A, B)
  <2> HIDE DEF A, B
  <2>1. QED
    BY <1>4, <1>5, <1>6 DEF Bijection, Injection, Surjection, IsInjective
<1>8. ExistsBijection(A, B)
  BY <1>7 DEF ExistsBijection
<1>9. IsFiniteSet(A)
  OBVIOUS
<1>10. Cardinality(B) = Cardinality(A)
  <2> HIDE DEF A, B
  <2>1. QED
    BY <1>8, <1>9, FS_Bijection
<1>11. QED
  BY <1>10 DEF ProductOver

(* The number of elements of disjoint sets together, one of them taken out. *)
Together(f, S) == UNION {f[x] : x \in S}

LEMMA DisjointSets ==
  ASSUME NEW S, IsFiniteSet(S), NEW f, \A x \in S : IsFiniteSet(f[x]),
         \A x, y \in S : x # y => f[x] \cap f[y] = {},
         NEW s \in SUBSET S
  PROVE  /\ IsFiniteSet(Together(f, s))
         /\ \A x \in s : Cardinality(Together(f, s))
                           = Cardinality(f[x]) + Cardinality(Together(f, s \ {x}))
<1> DEFINE All(t) == UNION {f[y] : y \in t}
<1>1. ASSUME NEW t \in SUBSET S PROVE IsFiniteSet(All(t))
  <2> DEFINE C == {f[y] : y \in t}
             h == [y \in t |-> f[y]]
  <2>1. h \in Surjection(t, C)
    BY DEF Surjection
  <2>2. IsFiniteSet(t) /\ \A c \in C : IsFiniteSet(c)
    BY FS_Subset
  <2>3. IsFiniteSet(C)
    <3> HIDE DEF C, h
    <3>1. QED
      BY <2>1, <2>2, FS_Surjection
  <2> HIDE DEF C
  <2>4. IsFiniteSet(UNION C)
    BY <2>2, <2>3, FS_UNION
  <2>5. QED
    BY <2>4 DEF C
<1>2. ASSUME NEW x \in s
      PROVE  Cardinality(All(s)) = Cardinality(f[x]) + Cardinality(All(s \ {x}))
  <2> DEFINE A == f[x]
             B == All(s \ {x})
  <2>1. All(s) = A \cup B
    OBVIOUS
  <2>2. A \cap B = {}
    OBVIOUS
  <2>3. IsFiniteSet(A) /\ IsFiniteSet(B)
    BY <1>1
  <2> HIDE DEF A, B
  <2>4. Cardinality(A \cup B) = Cardinality(A) + Cardinality(B) - Cardinality(A \cap B)
    BY <2>3, FS_Union
  <2>5. Cardinality(A) \in Nat /\ Cardinality(B) \in Nat
    BY <2>3, FS_CardinalityType
  <2>6. Cardinality(A \cap B) = 0
    BY <2>2, FS_EmptySet
  <2>7. Cardinality(A \cup B) = Cardinality(A) + Cardinality(B)
    BY <2>4, <2>5, <2>6
  <2>8. QED
    BY <2>1, <2>7 DEF A, B
<1>3. QED
  BY <1>1, <1>2 DEF Together

-----------------------------------------------------------------------------
(* A number below twice the modulus. *)
LEMMA ModOnce ==
  ASSUME NEW n \in Nat \ {0}, NEW x \in n .. 2 * n - 1
  PROVE  x % n = x - n
OBVIOUS

(* A number with a bit set is at least as large as the bit, and one that is a
   multiple of the bit and has it clear is a multiple of the next bit. *)
LEMMA BitSetBound ==
  ASSUME NEW r \in Nat, NEW m \in Nat \ {0}, (r \div m) % 2 = 1
  PROVE  r >= m
OBVIOUS

LEMMA NextBit ==
  ASSUME NEW r \in Nat, NEW m \in Nat \ {0}, r % m = 0, (r \div m) % 2 # 1
  PROVE  r % (2 * m) = 0
<1> DEFINE q == r \div m
<1>1. q \in Nat /\ r = m * q
  OBVIOUS
<1>2. q % 2 = 0
  BY <1>1
<1>3. PICK h \in Nat : q = 2 * h
  BY <1>1, <1>2
<1>4. r = (2 * m) * h
  BY <1>1, <1>3
<1>5. QED
  BY <1>4
===============================================================================
