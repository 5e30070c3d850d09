------------------------- MODULE MarkovModel_proofs -------------------------
(***************************************************************************)
(* Proofs about the search of the Markov model, for every finite set of    *)
(* states and every limit of calls: what it finds are paths of the model,  *)
(* it finds all of them while the limit is not passed, and what it sums up *)
(* is at most one.  SearchInv says what the shared vector and the calls    *)
(* still to be made look like; NothingMissed, where in them each path not  *)
(* found yet is going to be found; the sum is a number of ways in which    *)
(* the states choose among the transitions that were counted.              *)
(***************************************************************************)
EXTENDS MarkovModel, CommonLemmas, TLAPS

Searching == pc = "search"

(* The vector is a path of the model from the source that passes no state
   twice. *)
VectorIsPath ==
  Searching =>
    /\ sequence # <<>> => sequence[1] = query[1]
    /\ Simple(sequence)
    /\ Connected(sequence)

(* A call still to be made continues the vector as it was at that depth. *)
CallsContinue ==
  Searching =>
    /\ remaining[1] \subseteq {query[1]}
    /\ \A i \in 2 .. Len(remaining) : remaining[i] \subseteq Adjacent(sequence[i - 1])

SearchInv == TypeOK /\ VectorIsPath /\ CallsContinue /\ PathsAreReal

-----------------------------------------------------------------------------
(* The closure is computed in rounds, and the rounds are defined. *)
Rounds(reached) ==
  reached = [n \in Nat |->
               IF n = 0 THEN Edges ELSE reached[n - 1] \cup Longer(reached[n - 1])]

LEMMA RoundsExist == \E reached : Rounds(reached)
<1> DEFINE V == SUBSET (States \X States)
           step == [r \in V |-> r \cup Longer(r)]
<1>1. Edges \in V
  BY DEF Edges
<1>2. step \in [V -> V]
  <2>1. \A r \in V : r \cup Longer(r) \in V
    BY DEF Longer
  <2>2. QED
    BY <2>1
<1>3. PICK f \in [Nat -> V] : f[0] = Edges /\ \A n \in Nat : f[n + 1] = step[f[n]]
  <2> HIDE DEF V, step
  <2>1. QED
    BY <1>1, <1>2, RecursionExists
<1> DEFINE Round(n) == IF n = 0 THEN Edges ELSE f[n - 1] \cup Longer(f[n - 1])
<1>4. ASSUME NEW n \in Nat PROVE f[n] = Round(n)
  <2>1. CASE n = 0
    BY <1>3, <2>1
  <2>2. CASE n # 0
    <3>1. n - 1 \in Nat /\ (n - 1) + 1 = n /\ f[n - 1] \in V
      BY <1>3, <2>2
    <3>2. f[n] = step[f[n - 1]]
      BY <1>3, <3>1
    <3>3. QED
      BY <2>2, <3>1, <3>2
  <2>3. QED
    BY <2>1, <2>2
<1>5. f = [n \in Nat |-> Round(n)]
  <2>1. f = [n \in Nat |-> f[n]]
    BY <1>3
  <2> HIDE DEF Round
  <2>2. QED
    BY <1>4, <2>1
<1>6. QED
  BY <1>5 DEF Rounds

(* What they compute. *)
LEMMA ClosureRounds ==
  \E reached :
    /\ ClosureOfGraph = reached[Cardinality(States)]
    /\ reached[0] = Edges
    /\ \A k \in Nat : reached[k + 1] = reached[k] \cup Longer(reached[k])
    /\ \A k \in Nat : reached[k] \subseteq States \X States
<1> DEFINE reached == CHOOSE r : Rounds(r)
<1>1. ClosureOfGraph = reached[Cardinality(States)]
  BY DEF ClosureOfGraph, Rounds
<1>2. Rounds(reached)
  BY RoundsExist
<1> HIDE DEF reached
<1>3. reached[0] = Edges
  BY <1>2 DEF Rounds
<1>4. ASSUME NEW k \in Nat PROVE reached[k + 1] = reached[k] \cup Longer(reached[k])
  <2>1. k + 1 \in Nat /\ k + 1 # 0 /\ (k + 1) - 1 = k
    OBVIOUS
  <2>2. \A n \in Nat : reached[n] = IF n = 0 THEN Edges
                                  ELSE reached[n - 1] \cup Longer(reached[n - 1])
    BY <1>2 DEF Rounds
  <2>3. reached[k + 1] = IF k + 1 = 0 THEN Edges
                         ELSE reached[(k + 1) - 1] \cup Longer(reached[(k + 1) - 1])
    BY <2>1, <2>2
  <2>4. QED
    BY <2>1, <2>3
<1> DEFINE Good == {k \in Nat : reached[k] \subseteq States \X States}
<1>5. 0 \in Good
  BY <1>3 DEF Edges
<1>6. ASSUME NEW k \in Nat, k \in Good PROVE k + 1 \in Good
  BY <1>4, <1>6 DEF Longer
<1>7. Nat \subseteq Good
  <2> HIDE DEF Good
  <2>1. QED
    BY <1>5, <1>6, SetInduction
<1>8. QED
  BY <1>1, <1>3, <1>4, <1>7

LEMMA ClosureType == ClosureOfGraph \in SUBSET (States \X States)
<1>1. Cardinality(States) \in Nat
  BY FS_CardinalityType, MarkovAssumption
<1>2. QED
  BY <1>1, ClosureRounds

-----------------------------------------------------------------------------
(* The conditions a step of the search can start from. *)
Call(v) ==
  /\ pc = "search"
  /\ Calls(v)
  /\ remaining' = Made(v)
  /\ UNCHANGED <<visited, sequence, closureKnown, closure, pc, query>>
  /\ UNCHANGED model

(* What a call does to the calls that remain. *)
LEMMA MadeCall ==
  ASSUME TypeOK, Searching, NEW v \in States, Calls(v)
  PROVE  /\ Innermost \in Nat \ {0}
         /\ Made(v) \in Seq(SUBSET States)
         /\ Len(Made(v)) = Len(remaining)
         /\ \A i \in 1 .. Len(remaining) : Made(v)[i] \subseteq remaining[i]
         /\ \A i \in 1 .. Len(remaining) - 1 : Made(v)[i] = remaining[i]
         /\ \A w \in remaining[Innermost] : w # v => w \in Made(v)[Innermost]
<1>1. remaining \in Seq(SUBSET States) /\ Len(remaining) = Len(sequence) + 1
  BY DEF TypeOK, Searching
<1>2. Len(remaining) \in Nat \ {0} /\ sequence \in Seq(States)
  BY <1>1 DEF TypeOK
<1>3. remaining[Len(remaining)] \in SUBSET States
  BY <1>1, <1>2
<1>4. QED
  BY <1>1, <1>2, <1>3 DEF Made, Innermost

(* The next call number stays within the limit's range. *)
LEMMA CountCallType ==
  ASSUME recurCount \in 0 .. RecurLimit + 1, CountCall
  PROVE  recurCount' \in 0 .. RecurLimit + 1
BY MarkovAssumption DEF CountCall

-----------------------------------------------------------------------------
LEMMA InitType == Init => SearchInv
<1> SUFFICES ASSUME Init PROVE SearchInv
  OBVIOUS
<1>1. ToSet(<<>>) = {}
  BY DEF ToSet
<1>2. TypeOK
  <2>1. visited = ToSet(sequence)
    BY <1>1 DEF Init
  <2>2. transitions \in [States \X States -> Nat]
    BY DEF Init
  <2>3. recurCount \in 0 .. RecurLimit + 1
    BY MarkovAssumption DEF Init
  <2>4. pc \in {"idle", "search", "answered"} /\ pc # "search"
    BY DEF Init
  <2>5. /\ states \in SUBSET States
        /\ lastState \in States \cup {Unset}
        /\ useClosure \in BOOLEAN
        /\ closureKnown \in BOOLEAN
        /\ closure \in SUBSET (States \X States)
        /\ query \in (States \cup {Unset}) \X (States \cup {Unset})
        /\ visited \in SUBSET States
    BY DEF Init
  <2>6. /\ sequence \in Seq(States)
        /\ remaining \in Seq(SUBSET States)
        /\ paths \in SUBSET Seq(States)
    BY DEF Init
  <2>7. QED
    BY <2>1, <2>2, <2>3, <2>4, <2>5, <2>6 DEF TypeOK
<1>3. pc = "idle" /\ ~Searching
  BY DEF Init, Searching
<1>4. QED
  BY <1>2, <1>3 DEF SearchInv, VectorIsPath, CallsContinue, PathsAreReal

LEMMA AddEdgeInv ==
  ASSUME SearchInv, NEW s \in States, NEW d \in States, AddEdge(s, d)
  PROVE  SearchInv'
<1> USE DEF SearchInv, AddEdge
<1>1. transitions' \in [States \X States -> Nat]
  BY DEF TypeOK
<1>2. closureKnown' \in BOOLEAN /\ closure' \in SUBSET (States \X States)
  BY DEF TypeOK
<1>3. TypeOK'
  BY <1>1, <1>2 DEF TypeOK, search
<1>4. QED
  BY <1>3 DEF VectorIsPath, CallsContinue, PathsAreReal, Searching

LEMMA BeginInv ==
  ASSUME SearchInv, NEW s \in States, NEW d \in States, Begin(s, d)
  PROVE  SearchInv'
<1> USE DEF SearchInv, Begin
<1>1. ToSet(<<>>) = {}
  BY DEF ToSet
<1>2. closure' \in SUBSET (States \X States)
  BY ClosureType DEF TypeOK
<1>3. remaining' \in Seq(SUBSET States) /\ Len(remaining') = 1 /\ remaining'[1] \subseteq {s}
  OBVIOUS
<1>4. TypeOK'
  BY <1>1, <1>2, <1>3 DEF TypeOK, model
<1>5. VectorIsPath' /\ PathsAreReal'
  BY DEF VectorIsPath, PathsAreReal, Simple, Connected
<1>6. CallsContinue'
  BY <1>3 DEF CallsContinue
<1>7. QED
  BY <1>4, <1>5, <1>6

(* A call that returns without going deeper. *)
LEMMA ReturnInv ==
  ASSUME SearchInv, NEW v \in States, Call(v), CountCall, paths' = paths
  PROVE  SearchInv'
<1> USE DEF SearchInv, Call
<1>1. TypeOK'
  BY MadeCall, CountCallType DEF TypeOK, Searching, model
<1>2. UNCHANGED <<pc, query, sequence, paths, transitions>>
  BY DEF model
<1>3. VectorIsPath' /\ PathsAreReal'
  BY <1>2 DEF VectorIsPath, PathsAreReal, Simple, Connected, Known, Searching
<1>4. CallsContinue'
  BY <1>2, MadeCall DEF CallsContinue, Searching, Adjacent, Known, Innermost
<1>5. QED
  BY <1>1, <1>3, <1>4

(* The vector, continued by a call that is still to be made, is a path. *)
LEMMA ContinuedPath ==
  ASSUME SearchInv, Searching, NEW v \in States, Calls(v), v \notin visited
  PROVE  /\ Append(sequence, v) \in Seq(States)
         /\ Append(sequence, v)[1] = query[1]
         /\ Append(sequence, v)[Len(sequence) + 1] = v
         /\ Simple(Append(sequence, v))
         /\ Connected(Append(sequence, v))
<1> DEFINE longer == Append(sequence, v)
<1>1. sequence \in Seq(States) /\ visited = ToSet(sequence)
      /\ remaining \in Seq(SUBSET States) /\ Len(remaining) = Len(sequence) + 1
  BY DEF SearchInv, TypeOK, Searching
<1>2. /\ longer \in Seq(States)
      /\ Len(longer) = Len(sequence) + 1
      /\ longer[Len(sequence) + 1] = v
      /\ \A i \in 1 .. Len(sequence) : longer[i] = sequence[i]
  BY <1>1
<1>3. \A i \in 1 .. Len(sequence) : sequence[i] # v
  BY <1>1 DEF ToSet
<1>4. longer[1] = query[1]
  <2>1. CASE sequence = <<>>
    BY <2>1, <1>1, <1>2 DEF SearchInv, CallsContinue, Calls, Innermost
  <2>2. CASE sequence # <<>>
    <3>1. Len(sequence) >= 1
      BY <2>2, <1>1
    <3>2. QED
      BY <2>2, <3>1, <1>1, <1>2 DEF SearchInv, VectorIsPath
  <2>3. QED
    BY <2>1, <2>2
<1>5. Simple(longer)
  <2>1. \A i, j \in 1 .. Len(sequence) : sequence[i] = sequence[j] => i = j
    BY <1>1 DEF SearchInv, VectorIsPath, Simple
  <2>2. SUFFICES ASSUME NEW i \in 1 .. Len(sequence) + 1, NEW j \in 1 .. Len(sequence) + 1,
                        longer[i] = longer[j]
                 PROVE  i = j
    BY <1>2 DEF Simple
  <2>3. QED
    BY <2>1, <2>2, <1>1, <1>2, <1>3
<1>6. Connected(longer)
  <2>1. \A i \in 1 .. Len(sequence) - 1 : Known(sequence[i], sequence[i + 1])
    BY DEF SearchInv, VectorIsPath, Connected
  <2>2. CASE Len(sequence) = 0
    BY <2>2, <1>2 DEF Connected
  <2>3. CASE Len(sequence) > 0
    <3>1. v \in Adjacent(sequence[Len(sequence)])
      BY <2>3, <1>1 DEF SearchInv, CallsContinue, Calls, Innermost
    <3>2. Known(sequence[Len(sequence)], v)
      BY <3>1 DEF Adjacent
    <3>3. ASSUME NEW i \in 1 .. Len(sequence) PROVE Known(longer[i], longer[i + 1])
      <4>1. CASE i = Len(sequence)
        BY <3>2, <4>1, <1>1, <1>2
      <4>2. CASE i < Len(sequence)
        <5>1. i \in 1 .. Len(sequence) - 1 /\ i + 1 \in 1 .. Len(sequence)
          BY <4>2, <1>1
        <5>2. longer[i] = sequence[i] /\ longer[i + 1] = sequence[i + 1]
          BY <5>1, <1>2
        <5>3. QED
          BY <5>1, <5>2, <2>1
      <4>3. QED
        BY <4>1, <4>2, <1>1
    <3>4. Len(longer) - 1 = Len(sequence)
      BY <1>1, <1>2
    <3>5. QED
      BY <3>3, <3>4 DEF Connected
  <2>4. QED
    BY <2>2, <2>3, <1>1
<1>7. QED
  BY <1>2, <1>4, <1>5, <1>6

LEMMA FoundInv ==
  ASSUME SearchInv, NEW v \in States, Found(v)
  PROVE  SearchInv'
<1> USE DEF SearchInv, Found
<1>1. Searching /\ UNCHANGED <<pc, query, sequence, visited, transitions>>
  BY DEF Searching, model
<1>2. Append(sequence, v) \in Seq(States)
  BY <1>1, ContinuedPath
<1>3. TypeOK'
  BY <1>1, <1>2, MadeCall, CountCallType DEF TypeOK, Searching, model
<1>4. VectorIsPath'
  BY <1>1 DEF VectorIsPath, Simple, Connected, Known, Searching
<1>5. CallsContinue'
  BY <1>1, MadeCall DEF CallsContinue, Searching, Adjacent, Known, Innermost
<1>6. PathsAreReal'
  <2>1. sequence \in Seq(States)
    BY DEF TypeOK
  <2>2. Len(Append(sequence, v)) = Len(sequence) + 1 /\ Append(sequence, v) # <<>>
    BY <2>1
  <2>3. \A path \in paths' : path \in paths \/ path = Append(sequence, v)
    OBVIOUS
  <2>4. \A path \in paths : /\ path # <<>> /\ path[1] = query[1]
                            /\ path[Len(path)] = query[2] /\ Simple(path) /\ Connected(path)
    BY <1>1 DEF PathsAreReal, Searching
  <2>5. ASSUME NEW path \in paths'
        PROVE  /\ path # <<>> /\ path[1] = query[1]
               /\ path[Len(path)] = query[2] /\ Simple(path) /\ Connected(path)
    <3>1. CASE path \in paths
      BY <3>1, <2>4
    <3>2. CASE path = Append(sequence, v)
      BY <1>1, <2>2, <3>2, ContinuedPath
    <3>3. QED
      BY <2>3, <3>1, <3>2
  <2>6. QED
    BY <1>1, <2>5 DEF PathsAreReal, Simple, Connected, Known
<1>7. QED
  BY <1>3, <1>4, <1>5, <1>6

LEMMA ExpandInv ==
  ASSUME SearchInv, NEW v \in States, Expand(v)
  PROVE  SearchInv'
<1> USE DEF SearchInv, Expand
<1>1. Searching /\ UNCHANGED <<pc, query, paths, transitions>>
  BY DEF Searching, model
<1>2. /\ sequence \in Seq(States)
      /\ remaining \in Seq(SUBSET States)
      /\ Len(remaining) = Len(sequence) + 1
      /\ visited = ToSet(sequence)
  BY <1>1 DEF TypeOK, Searching
<1>3. sequence' \in Seq(States) /\ Len(sequence') = Len(sequence) + 1
      /\ sequence'[Len(sequence) + 1] = v
      /\ \A i \in 1 .. Len(sequence) : sequence'[i] = sequence[i]
  BY <1>2
<1>4. Adjacent(v) \in SUBSET States
  BY DEF Adjacent
<1>5. /\ remaining' \in Seq(SUBSET States)
      /\ Len(remaining') = Len(remaining) + 1
      /\ remaining'[Len(remaining) + 1] = Adjacent(v)
      /\ \A i \in 1 .. Len(remaining) : remaining'[i] = Made(v)[i]
  BY <1>1, <1>4, MadeCall
<1>6. visited' = ToSet(sequence')
  <2>1. visited' = {sequence[i] : i \in 1 .. Len(sequence)} \cup {v}
    BY <1>2 DEF ToSet
  <2>2. ToSet(sequence') = {sequence'[i] : i \in 1 .. Len(sequence) + 1}
    BY <1>3 DEF ToSet
  <2>3. QED
    BY <1>2, <1>3, <2>1, <2>2
<1>7. TypeOK'
  BY <1>1, <1>2, <1>3, <1>5, <1>6, CountCallType DEF TypeOK, model
<1>8. VectorIsPath'
  BY <1>1, ContinuedPath DEF VectorIsPath, Simple, Connected, Known
<1>9. CallsContinue'
  <2>1. remaining'[1] \subseteq {query[1]}
    BY <1>1, <1>2, <1>5, MadeCall DEF CallsContinue
  <2>2. ASSUME NEW i \in 2 .. Len(remaining) + 1
        PROVE  remaining'[i] \subseteq Adjacent(sequence'[i - 1])
    <3>1. CASE i = Len(remaining) + 1
      BY <3>1, <1>2, <1>3, <1>5
    <3>2. CASE i # Len(remaining) + 1
      <4>1. i \in 2 .. Len(remaining) /\ i - 1 \in 1 .. Len(sequence)
        BY <3>2, <1>2
      <4>2. remaining'[i] \subseteq remaining[i]
        BY <4>1, <1>1, <1>5, MadeCall
      <4>3. remaining[i] \subseteq Adjacent(sequence[i - 1])
        BY <4>1, <1>1 DEF CallsContinue
      <4>4. QED
        BY <4>1, <4>2, <4>3, <1>3
    <3>3. QED
      BY <3>1, <3>2
  <2>3. QED
    BY <2>1, <2>2, <1>1, <1>5 DEF CallsContinue, Adjacent, Known
<1>10. PathsAreReal'
  BY <1>1 DEF PathsAreReal, Simple, Connected, Known
<1>11. QED
  BY <1>7, <1>8, <1>9, <1>10

LEMMA FrontFacts ==
  ASSUME NEW S, NEW s \in Seq(S), Len(s) >= 1
  PROVE  /\ Front(s) \in Seq(S)
         /\ Len(Front(s)) = Len(s) - 1
         /\ \A i \in 1 .. Len(s) - 1 : Front(s)[i] = s[i]
<1>1. Len(s) \in Nat /\ Len(s) - 1 \in Nat
  OBVIOUS
<1>2. DEFINE m == Len(s) - 1
<1>3. m \in Nat /\ m <= Len(s)
  BY <1>1
<1>4. SubSeq(s, 1, m) = [i \in 1 .. m |-> s[i]]
  BY <1>3
<1>5. \A i \in 1 .. m : s[i] \in S
  BY <1>3
<1>6. [i \in 1 .. m |-> s[i]] \in Seq(S) /\ Len([i \in 1 .. m |-> s[i]]) = m
  BY <1>3, <1>5
<1>7. Front(s) = [i \in 1 .. m |-> s[i]]
  BY <1>4 DEF Front
<1>8. QED
  BY <1>6, <1>7

(* What the return of the innermost call leaves. *)
LEMMA Left ==
  ASSUME SearchInv, Searching, Innermost > 1
  PROVE  /\ sequence \in Seq(States) /\ sequence # <<>>
         /\ Front(sequence) \in Seq(States)
         /\ Len(Front(sequence)) = Len(sequence) - 1
         /\ \A i \in 1 .. Len(sequence) - 1 : Front(sequence)[i] = sequence[i]
         /\ Front(remaining) \in Seq(SUBSET States)
         /\ Len(Front(remaining)) = Len(remaining) - 1
         /\ \A i \in 1 .. Len(remaining) - 1 : Front(remaining)[i] = remaining[i]
<1>1. /\ sequence \in Seq(States)
      /\ remaining \in Seq(SUBSET States)
      /\ Len(remaining) = Len(sequence) + 1
  BY DEF SearchInv, TypeOK, Searching
<1>2. Len(sequence) >= 1 /\ sequence # <<>>
  BY <1>1 DEF Innermost
<1>3. Len(remaining) >= 1
  BY <1>1, <1>2
<1>4. QED
  BY <1>1, <1>2, <1>3, FrontFacts

LEMMA LeaveInv ==
  ASSUME SearchInv, Leave
  PROVE  SearchInv'
<1> USE DEF SearchInv, Leave
<1>1. Searching /\ UNCHANGED <<pc, query, paths, transitions>>
  BY DEF Searching, model
<1>2. Len(remaining) = Len(sequence) + 1 /\ visited = ToSet(sequence)
  BY <1>1 DEF TypeOK, Searching
<1>3. Simple(sequence) /\ Connected(sequence)
  BY <1>1 DEF VectorIsPath
<1>4. visited' = ToSet(sequence')
  <2>1. sequence \in Seq(States) /\ Len(sequence) >= 1
    BY <1>1, Left
  <2>2. Last(sequence) = sequence[Len(sequence)]
    BY DEF Last
  <2>3. \A i \in 1 .. Len(sequence) - 1 : sequence[i] # sequence[Len(sequence)]
    BY <2>1, <1>3 DEF Simple
  <2>4. ToSet(sequence') = {sequence[i] : i \in 1 .. Len(sequence) - 1}
    BY <1>1, <2>1, Left DEF ToSet
  <2>5. ToSet(sequence) = {sequence[i] : i \in 1 .. Len(sequence)}
    BY <2>1 DEF ToSet
  <2>6. QED
    BY <1>2, <2>1, <2>2, <2>3, <2>4, <2>5
<1>5. TypeOK'
  BY <1>1, <1>2, <1>4, Left DEF TypeOK, model
<1>6. VectorIsPath'
  <2>1. sequence \in Seq(States) /\ Len(sequence) \in Nat
    BY <1>1, Left
  <2>2. sequence' # <<>> => sequence'[1] = query[1]
    BY <1>1, <2>1, Left DEF VectorIsPath
  <2>3. Simple(sequence')
    <3>1. DOMAIN sequence' = 1 .. Len(sequence) - 1 /\ DOMAIN sequence = 1 .. Len(sequence)
      BY <1>1, <2>1, Left
    <3>2. \A i \in DOMAIN sequence' : i \in DOMAIN sequence /\ sequence'[i] = sequence[i]
      BY <1>1, <2>1, <3>1, Left
    <3>3. QED
      BY <1>3, <3>2 DEF Simple
  <2>4. \A i \in 1 .. Len(sequence) - 2 : Known(sequence[i], sequence[i + 1])
    BY <2>1, <1>3 DEF Connected
  <2>5. Connected(sequence')
    BY <1>1, <2>1, <2>4, Left DEF Connected
  <2>6. QED
    BY <1>1, <2>2, <2>3, <2>5 DEF VectorIsPath, Simple, Connected, Known
<1>7. CallsContinue'
  <2>1. Len(remaining) \in Nat /\ Len(remaining) > 1 /\ Len(sequence) \in Nat
    BY <1>1, Left DEF Innermost, TypeOK
  <2>2. remaining'[1] \subseteq {query[1]}
    BY <1>1, <2>1, Left DEF CallsContinue
  <2>3. ASSUME NEW i \in 2 .. Len(remaining')
        PROVE  remaining'[i] \subseteq Adjacent(sequence'[i - 1])
    <3>1. i \in 2 .. Len(remaining) - 1 /\ i - 1 \in 1 .. Len(sequence) - 1
      BY <1>1, <1>2, <2>1, Left
    <3>2. remaining'[i] = remaining[i] /\ sequence'[i - 1] = sequence[i - 1]
      BY <1>1, <2>1, <3>1, Left
    <3>3. QED
      BY <1>1, <2>1, <3>1, <3>2 DEF CallsContinue
  <2>4. QED
    BY <1>1, <2>2, <2>3 DEF CallsContinue, Adjacent, Known
<1>8. PathsAreReal'
  BY <1>1 DEF PathsAreReal, Simple, Connected, Known
<1>9. QED
  BY <1>5, <1>6, <1>7, <1>8


LEMMA StutterInv == SearchInv /\ UNCHANGED vars => SearchInv'
BY DEF vars, SearchInv, TypeOK, VectorIsPath, CallsContinue, PathsAreReal, Searching,
       Simple, Connected, Known, Adjacent

LEMMA AnswerInv == SearchInv /\ Answer => SearchInv'
<1> SUFFICES ASSUME SearchInv, Answer PROVE SearchInv'
  OBVIOUS
<1>1. UNCHANGED <<transitions, query, visited, sequence, remaining, paths, recurCount>>
      /\ UNCHANGED <<states, lastState, useClosure, closureKnown, closure>>
      /\ pc = "search" /\ pc' = "answered"
  BY DEF Answer, search, model
<1>2. TypeOK' /\ PathsAreReal'
  BY <1>1 DEF SearchInv, TypeOK, PathsAreReal, Simple, Connected, Known
<1>3. ~Searching'
  BY <1>1 DEF Searching
<1>4. QED
  BY <1>2, <1>3 DEF SearchInv, VectorIsPath, CallsContinue

LEMMA StepInv == SearchInv /\ [Next]_vars => SearchInv'
<1> SUFFICES ASSUME SearchInv, [Next]_vars PROVE SearchInv'
  OBVIOUS
<1>1. ASSUME NEW s \in States, NEW d \in States, AddEdge(s, d) PROVE SearchInv'
  BY <1>1, AddEdgeInv
<1>2. ASSUME NEW s \in States, NEW d \in States, Begin(s, d) PROVE SearchInv'
  BY <1>2, BeginInv
<1>3. ASSUME NEW v \in States, Cut(v) \/ Cycle(v) PROVE SearchInv'
  BY <1>3, ReturnInv DEF Cut, Cycle, Call
<1>4. ASSUME NEW v \in States, Found(v) PROVE SearchInv'
  BY <1>4, FoundInv
<1>5. ASSUME NEW v \in States, Expand(v) PROVE SearchInv'
  BY <1>5, ExpandInv
<1>6. QED
  BY <1>1, <1>2, <1>3, <1>4, <1>5, LeaveInv, AnswerInv, StutterInv DEF Next

(* In every state of the search the vector of DFSearch is a path of the model
   from the source, and its active calls go on from there. *)
THEOREM SearchInvariant == Spec => []SearchInv
BY InitType, StepInv, PTL DEF Spec

(* The shared set and vector of DFSearch stay in step, and every variable keeps
   its type. *)
THEOREM ModelTypeOK == Spec => []TypeOK
<1>1. SearchInv => TypeOK
  BY DEF SearchInv
<1>2. QED
  BY <1>1, SearchInvariant, PTL

(* What a query finds are paths the process can take, from the source of the
   query to its destination and without repetition. *)
THEOREM FoundPathsAreReal == Spec => []PathsAreReal
<1>1. SearchInv => PathsAreReal
  BY DEF SearchInv
<1>2. QED
  BY <1>1, SearchInvariant, PTL

-----------------------------------------------------------------------------
(* After the limit the counter stays where it is, and a search adds no path. *)
LEMMA CutStep == TypeOK /\ [Next]_vars =>
                   (recurCount > RecurLimit => recurCount' = recurCount /\ paths' \subseteq paths)
<1> SUFFICES ASSUME TypeOK, [Next]_vars, recurCount > RecurLimit
             PROVE  recurCount' = recurCount /\ paths' \subseteq paths
  OBVIOUS
<1>1. recurCount \in Nat /\ ~(recurCount <= RecurLimit) /\ ~(recurCount < RecurLimit)
  BY MarkovAssumption DEF TypeOK
<1>2. ASSUME NEW s \in States, NEW d \in States, AddEdge(s, d) \/ Begin(s, d)
      PROVE  recurCount' = recurCount /\ paths' \subseteq paths
  BY <1>2 DEF AddEdge, Begin, search
<1>3. ASSUME NEW v \in States, Cut(v) \/ Cycle(v) \/ Found(v) \/ Expand(v)
      PROVE  recurCount' = recurCount /\ paths' \subseteq paths
  BY <1>1, <1>3 DEF Cut, Cycle, Found, Expand, CountCall
<1>4. QED
  BY <1>2, <1>3 DEF Next, Leave, Answer, search, vars

(* Every search that starts after the limit was passed answers that there is
   no path. *)
THEOREM SearchGivesUpForGood == Spec => CutFindsNothing
BY ModelTypeOK, CutStep, PTL DEF Spec, CutFindsNothing


-----------------------------------------------------------------------------
(***************************************************************************)
(* While the limit is not passed, nothing is missed.  A path p that is not *)
(* found yet is still to be found at some depth: up to there it runs along *)
(* the vector, and the call on its next state is still to be made.  A      *)
(* closure that is kept is that of the present edges, so that a search it  *)
(* prevents would have found nothing.                                      *)
(***************************************************************************)

PendingAt(p, i) ==
  /\ i \in DOMAIN remaining
  /\ i \in DOMAIN p
  /\ \A j \in 1 .. i - 1 : p[j] = sequence[j]
  /\ p[i] \in remaining[i]

Pending(p) == \E i \in Nat \ {0} : PendingAt(p, i)

NothingMissed ==
  Searching /\ recurCount <= RecurLimit =>
    \A p \in SimplePaths(query[1], query[2]) : p \in paths \/ Pending(p)

ClosureRight == closureKnown => useClosure /\ closure = ClosureOfGraph

SearchInv2 == SearchInv /\ ClosureRight /\ NothingMissed /\ SearchIsExhaustive

(* A path without repetition, as a sequence. *)
LEMMA SimplePathFacts ==
  ASSUME NEW s, NEW d, NEW p \in SimplePaths(s, d)
  PROVE  /\ p \in Seq(States) /\ Len(p) \in Nat /\ Len(p) >= 2
         /\ p[1] = s /\ p[Len(p)] = d
         /\ \A i, j \in 1 .. Len(p) : p[i] = p[j] => i = j
         /\ \A i \in 1 .. Len(p) - 1 : p[i] \in States /\ p[i + 1] \in Adjacent(p[i])
<1>1. PICK n \in 2 .. Cardinality(States) : p \in [1 .. n -> States]
  BY DEF SimplePaths
<1>2. n \in Nat /\ n >= 2
  OBVIOUS
<1>3. p \in Seq(States) /\ Len(p) = n
  BY <1>1, <1>2
<1>4. p[1] = s /\ p[Len(p)] = d /\ Simple(p) /\ Connected(p)
  BY DEF SimplePaths
<1>5. \A i \in 1 .. Len(p) - 1 : p[i] \in States /\ p[i + 1] \in States
  BY <1>2, <1>3
<1>6. QED
  BY <1>2, <1>3, <1>4, <1>5 DEF Simple, Connected, Adjacent

(* A destination that a path leads to is in the closure. *)
LEMMA ClosureOfPath ==
  ASSUME NEW s \in States, NEW d \in States, NEW p \in SimplePaths(s, d)
  PROVE  <<s, d>> \in ClosureOfGraph
<1> DEFINE N == Cardinality(States)
<1>1. PICK reached : /\ ClosureOfGraph = reached[N]
                     /\ reached[0] = Edges
                     /\ \A k \in Nat : reached[k + 1] = reached[k] \cup Longer(reached[k])
  BY ClosureRounds
<1>5. PICK n \in 2 .. Cardinality(States) : p \in [1 .. n -> States]
  BY DEF SimplePaths
<1>6. N \in Nat
  BY FS_CardinalityType, MarkovAssumption
<1>7. n \in Nat /\ n >= 2 /\ n <= N /\ Len(p) = n
  BY <1>5, <1>6
<1>8. p[1] = s /\ p[n] = d /\ \A i \in 1 .. n - 1 : p[i + 1] \in Adjacent(p[i])
  BY <1>7, SimplePathFacts
(* After k rounds, whoever is at most k + 1 edges before the end reaches it. *)
<1> DEFINE Good == {k \in Nat : \A i \in 1 .. n - 1 : n <= i + k + 1 => <<p[i], d>> \in reached[k]}
<1>9. 0 \in Good
  <2> SUFFICES ASSUME NEW i \in 1 .. n - 1, n <= i + 0 + 1 PROVE <<p[i], d>> \in Edges
    BY <1>1
  <2>1. i + 1 = n /\ p[i] \in States
    BY <1>5, <1>7
  <2>2. QED
    BY <1>8, <2>1 DEF Edges, Adjacent
<1>10. ASSUME NEW k \in Nat, k \in Good PROVE k + 1 \in Good
  <2> SUFFICES ASSUME NEW i \in 1 .. n - 1, n <= i + (k + 1) + 1
               PROVE  <<p[i], d>> \in reached[k] \cup Longer(reached[k])
    BY <1>1
  <2>1. CASE n <= i + k + 1
    BY <1>10, <2>1
  <2>2. CASE i = n - 1
    BY <1>7, <1>10, <2>2
  <2>3. CASE ~(n <= i + k + 1) /\ i # n - 1
    <3>1. i + 1 \in 1 .. n - 1 /\ n <= (i + 1) + k + 1 /\ p[i] \in States /\ p[i + 1] \in Adjacent(p[i])
      BY <1>5, <1>7, <1>8, <2>3
    <3>2. <<p[i + 1], d>> \in reached[k]
      BY <1>10, <3>1
    <3>3. QED
      BY <3>1, <3>2 DEF Longer
  <2>4. QED
    BY <2>1, <2>2, <2>3
<1> HIDE DEF Good
<1>11. N \in Good
  <2>1. Nat \subseteq Good
    BY <1>9, <1>10, SetInduction
  <2>2. QED
    BY <1>6, <2>1
<1>12. 1 \in 1 .. n - 1 /\ n <= 1 + N + 1
  BY <1>6, <1>7
<1>13. QED
  BY <1>1, <1>8, <1>11, <1>12 DEF Good

(* The references do not change while the edges and the query do not. *)
LEMMA SamePaths ==
  ASSUME UNCHANGED <<transitions, query>>
  PROVE  SimplePaths(query[1], query[2])' = SimplePaths(query[1], query[2])
BY DEF SimplePaths, Simple, Connected, Known

(* Nor does the closure while the edges do not. *)
LEMMA SameClosure ==
  ASSUME UNCHANGED transitions
  PROVE  ClosureOfGraph' = ClosureOfGraph
BY DEF ClosureOfGraph, Edges, Longer, Adjacent, Known

(* A closure that is kept is right: an edge more throws it away. *)
LEMMA ClosureStep ==
  ASSUME SearchInv, ClosureRight, [Next]_vars
  PROVE  ClosureRight'
<1>1. ASSUME NEW s \in States, NEW d \in States, AddEdge(s, d) PROVE ClosureRight'
  BY <1>1 DEF AddEdge, ClosureRight
<1>2. ASSUME NEW s \in States, NEW d \in States, Begin(s, d) PROVE ClosureRight'
  <2>1. closureKnown' = useClosure /\ useClosure' = useClosure /\ UNCHANGED transitions
        /\ closure' = IF useClosure /\ ~closureKnown THEN ClosureOfGraph ELSE closure
    BY <1>2 DEF Begin, model
  <2>2. QED
    BY <2>1, SameClosure DEF ClosureRight
<1>3. ASSUME UNCHANGED <<closureKnown, useClosure, closure, transitions>> PROVE ClosureRight'
  BY <1>3, SameClosure DEF ClosureRight
<1>4. QED
  BY <1>1, <1>2, <1>3 DEF Next, Cut, Cycle, Found, Expand, Leave, Answer, model, vars

LEMMA BeginMissed ==
  ASSUME SearchInv, ClosureRight, NEW s \in States, NEW d \in States, Begin(s, d)
  PROVE  NothingMissed' /\ SearchIsExhaustive'
<1>1. SearchIsExhaustive'
  BY DEF Begin, SearchIsExhaustive
<1>2. SUFFICES ASSUME NEW p \in SimplePaths(query[1], query[2])'
               PROVE  Pending(p)'
  BY <1>1 DEF NothingMissed
<1>3. p[1] = s /\ 1 \in DOMAIN p /\ p \in SimplePaths(s, d)
  <2>1. SimplePaths(query[1], query[2])' = SimplePaths(s, d)
    BY DEF Begin, model, SimplePaths, Simple, Connected, Known
  <2>2. p \in SimplePaths(s, d)
    BY <2>1
  <2>3. p[1] = s /\ p \in Seq(States) /\ Len(p) >= 2
    BY <2>2, SimplePathFacts
  <2>4. QED
    BY <2>2, <2>3
<1>4. remaining' = <<{s}>>
  <2>1. remaining' = <<IF useClosure /\ <<s, d>> \notin closure' THEN {} ELSE {s}>>
    BY DEF Begin
  <2>2. ~useClosure \/ closure' = ClosureOfGraph
    BY DEF Begin, ClosureRight
  <2>3. <<s, d>> \in ClosureOfGraph
    BY <1>3, ClosureOfPath
  <2>4. QED
    BY <2>1, <2>2, <2>3
<1>5. PendingAt(p, 1)'
  BY <1>3, <1>4 DEF PendingAt
<1>6. QED
  BY <1>5 DEF Pending

(* A path that is pending, but not by the call that is made now, stays so. *)
LEMMA StillPending ==
  ASSUME SearchInv, Searching, NEW v \in States, Calls(v), NEW p, NEW i \in Nat \ {0},
         PendingAt(p, i), i # Innermost \/ p[i] # v,
         Len(remaining') >= Len(remaining),
         remaining' \in Seq(SUBSET States),
         \A k \in 1 .. Len(remaining) : remaining'[k] = Made(v)[k],
         \A k \in 1 .. Len(sequence) : sequence'[k] = sequence[k]
  PROVE  PendingAt(p, i)'
<1>1. /\ sequence \in Seq(States) /\ remaining \in Seq(SUBSET States)
      /\ Len(remaining) = Len(sequence) + 1
  BY DEF SearchInv, TypeOK, Searching
<1>2. i \in 1 .. Len(remaining) /\ i \in DOMAIN remaining'
  BY <1>1 DEF PendingAt
<1>3. p[i] \in Made(v)[i]
  <2>1. TypeOK
    BY DEF SearchInv
  <2>2. CASE i = Innermost
    BY <2>1, <2>2, MadeCall DEF PendingAt
  <2>3. CASE i # Innermost
    <3>1. i \in 1 .. Len(remaining) - 1
      BY <1>1, <1>2, <2>3 DEF Innermost
    <3>2. QED
      BY <2>1, <3>1, MadeCall DEF PendingAt
  <2>4. QED
    BY <2>2, <2>3
<1>4. p[i] \in remaining'[i]
  BY <1>2, <1>3
<1>5. \A j \in 1 .. i - 1 : p[j] = sequence'[j]
  BY <1>1, <1>2 DEF PendingAt
<1>6. QED
  BY <1>2, <1>4, <1>5 DEF PendingAt

(* The three ways a call can end or go deeper, the limit not being passed. *)
LEMMA CallMissed ==
  ASSUME SearchInv2, NEW v \in States, Cut(v) \/ Cycle(v) \/ Found(v) \/ Expand(v)
  PROVE  NothingMissed' /\ SearchIsExhaustive'
<1>1. SearchInv /\ TypeOK /\ Searching /\ Calls(v) /\ pc' = "search"
      /\ UNCHANGED <<transitions, query, useClosure>>
  BY DEF SearchInv2, SearchInv, Cut, Cycle, Found, Expand, Searching, model
<1>2. SearchIsExhaustive'
  BY <1>1 DEF SearchIsExhaustive
<1>3. SUFFICES ASSUME recurCount' <= RecurLimit,
                      NEW p \in SimplePaths(query[1], query[2])
               PROVE  p \in paths' \/ Pending(p)'
  BY <1>1, <1>2, SamePaths DEF NothingMissed
<1>4. recurCount < RecurLimit
  <2>1. recurCount \in Nat /\ CountCall
    BY <1>1, MarkovAssumption DEF TypeOK, Cut, Cycle, Found, Expand
  <2>2. QED
    BY <1>3, <2>1, MarkovAssumption DEF CountCall
<1>5. recurCount <= RecurLimit /\ ~Cut(v) /\ recurCount \in Nat
  BY <1>1, <1>4, MarkovAssumption DEF Cut, TypeOK
<1>6. paths \subseteq paths'
  BY <1>5 DEF Cycle, Found, Expand
<1>7. CASE p \in paths
  BY <1>6, <1>7
<1>8. CASE Pending(p)
  <2>1. PICK i \in Nat \ {0} : PendingAt(p, i)
    BY <1>8 DEF Pending
  <2>2. /\ sequence \in Seq(States) /\ remaining \in Seq(SUBSET States)
        /\ Len(remaining) = Len(sequence) + 1 /\ visited = ToSet(sequence)
    BY <1>1 DEF TypeOK, Searching
  <2>3. /\ p \in Seq(States) /\ Len(p) \in Nat
        /\ p[Len(p)] = query[2]
        /\ \A k, j \in 1 .. Len(p) : p[k] = p[j] => k = j
        /\ \A k \in 1 .. Len(p) - 1 : p[k] \in States /\ p[k + 1] \in Adjacent(p[k])
    BY SimplePathFacts
  <2>4. i \in 1 .. Len(remaining) /\ i \in 1 .. Len(p)
        /\ \A j \in 1 .. i - 1 : p[j] = sequence[j]
    BY <2>1, <2>2, <2>3 DEF PendingAt
  <2>5. /\ remaining' \in Seq(SUBSET States)
        /\ Len(remaining') >= Len(remaining)
        /\ \A k \in 1 .. Len(remaining) : remaining'[k] = Made(v)[k]
        /\ \A k \in 1 .. Len(sequence) : sequence'[k] = sequence[k]
    <3>1. Made(v) \in Seq(SUBSET States) /\ Len(Made(v)) = Len(remaining)
      BY <1>1, MadeCall
    <3>2. CASE Cycle(v) \/ Found(v)
      BY <2>2, <3>1, <3>2 DEF Cycle, Found
    <3>3. CASE Expand(v)
      <4>1. Adjacent(v) \in SUBSET States
        BY DEF Adjacent
      <4>2. QED
        BY <2>2, <3>1, <3>3, <4>1 DEF Expand
    <3>4. QED
      BY <1>5, <3>2, <3>3
  <2>6. CASE i # Innermost \/ p[i] # v
    <3>1. PendingAt(p, i)'
      BY <1>1, <2>1, <2>5, <2>6, StillPending
    <3>2. QED
      BY <3>1 DEF Pending
  <2>7. CASE i = Innermost /\ p[i] = v
    <3>1. i = Len(sequence) + 1
      BY <2>2, <2>7 DEF Innermost
    <3>2. v \notin visited
      <4>1. \A j \in 1 .. Len(sequence) : sequence[j] # v
        BY <2>2, <2>3, <2>4, <2>7, <3>1
      <4>2. QED
        BY <2>2, <4>1 DEF ToSet
    <3>3. CASE v = query[2]
      <4>1. i = Len(p)
        BY <2>3, <2>4, <2>7, <3>3
      <4>2. p = Append(sequence, v)
        BY <2>2, <2>3, <2>4, <2>7, <3>1, <4>1
      <4>3. Found(v)
        BY <1>5, <3>2, <3>3 DEF Cycle, Expand
      <4>4. QED
        BY <4>2, <4>3 DEF Found
    <3>4. CASE v # query[2]
      <4>1. i < Len(p) /\ i + 1 \in 1 .. Len(p)
        BY <2>3, <2>4, <2>7, <3>4
      <4>2. p[i + 1] \in Adjacent(v)
        BY <2>3, <2>4, <2>7, <4>1
      <4>3. Expand(v)
        BY <1>5, <3>2, <3>4 DEF Cycle, Found
      <4>4. /\ Len(Made(v)) = Len(remaining) /\ Made(v) \in Seq(SUBSET States)
            /\ Adjacent(v) \in SUBSET States
        BY <1>1, MadeCall DEF Adjacent
      <4>5. /\ i + 1 \in DOMAIN remaining'
            /\ remaining'[i + 1] = Adjacent(v)
        BY <2>2, <3>1, <4>3, <4>4 DEF Expand
      <4>6. \A j \in 1 .. i : p[j] = sequence'[j]
        BY <2>2, <2>4, <2>7, <3>1, <4>3 DEF Expand
      <4>7. PendingAt(p, i + 1)'
        BY <2>3, <2>4, <4>1, <4>2, <4>5, <4>6 DEF PendingAt
      <4>8. QED
        BY <2>4, <4>7 DEF Pending
    <3>5. QED
      BY <3>3, <3>4
  <2>8. QED
    BY <2>6, <2>7
<1>9. QED
  BY <1>1, <1>3, <1>5, <1>7, <1>8 DEF SearchInv2, NothingMissed

LEMMA LeaveMissed ==
  ASSUME SearchInv2, Leave
  PROVE  NothingMissed' /\ SearchIsExhaustive'
<1>1. SearchInv /\ TypeOK /\ Searching /\ pc' = "search"
      /\ UNCHANGED <<transitions, query, useClosure, paths, recurCount>>
  BY DEF SearchInv2, SearchInv, Leave, Searching, model
<1>2. SearchIsExhaustive'
  BY <1>1 DEF SearchIsExhaustive
<1>3. SUFFICES ASSUME NEW p, Pending(p) PROVE Pending(p)'
  BY <1>1, <1>2, SamePaths DEF NothingMissed, SearchInv2
<1>4. PICK i \in Nat \ {0} : PendingAt(p, i)
  BY <1>3 DEF Pending
<1>5. /\ remaining \in Seq(SUBSET States) /\ Len(remaining) = Len(sequence) + 1
      /\ sequence \in Seq(States)
  BY <1>1 DEF TypeOK, Searching
<1>6. i \in 1 .. Len(remaining) - 1
  <2>1. remaining[Len(remaining)] = {}
    BY DEF Leave, Innermost
  <2>2. QED
    BY <1>4, <1>5, <2>1 DEF PendingAt
<1>7. i \in DOMAIN remaining' /\ remaining'[i] = remaining[i]
      /\ \A j \in 1 .. i - 1 : sequence'[j] = sequence[j]
  BY <1>1, <1>5, <1>6, Left DEF Leave
<1>8. PendingAt(p, i)'
  BY <1>4, <1>7 DEF PendingAt
<1>9. QED
  BY <1>8 DEF Pending

LEMMA AnswerMissed ==
  ASSUME SearchInv2, Answer
  PROVE  NothingMissed' /\ SearchIsExhaustive'
<1>1. /\ Searching /\ pc' = "answered"
      /\ UNCHANGED <<transitions, query, useClosure, paths, recurCount>>
  BY DEF Answer, Searching, search, model
<1>2. NothingMissed'
  BY <1>1 DEF NothingMissed, Searching
<1>3. SUFFICES ASSUME recurCount <= RecurLimit,
                      NEW p \in SimplePaths(query[1], query[2])
               PROVE  p \in paths
  BY <1>1, <1>2, SamePaths DEF SearchIsExhaustive
<1>4. ~Pending(p)
  <2>1. DOMAIN remaining = {1} /\ remaining[1] = {}
    BY DEF Answer, Innermost, SearchInv2, SearchInv, TypeOK
  <2>2. QED
    BY <2>1 DEF Pending, PendingAt
<1>5. QED
  BY <1>1, <1>3, <1>4 DEF SearchInv2, NothingMissed

LEMMA StepMissed == SearchInv2 /\ [Next]_vars => SearchInv2'
<1> SUFFICES ASSUME SearchInv2, [Next]_vars PROVE SearchInv2'
  OBVIOUS
<1>1. SearchInv /\ SearchInv' /\ ClosureRight /\ ClosureRight'
  BY StepInv, ClosureStep DEF SearchInv2
<1>2. ASSUME NEW s \in States, NEW d \in States, AddEdge(s, d)
      PROVE  NothingMissed' /\ SearchIsExhaustive'
  BY <1>2 DEF AddEdge, NothingMissed, SearchIsExhaustive, Searching
<1>3. ASSUME NEW s \in States, NEW d \in States, Begin(s, d)
      PROVE  NothingMissed' /\ SearchIsExhaustive'
  BY <1>1, <1>3, BeginMissed
<1>4. ASSUME NEW v \in States, Cut(v) \/ Cycle(v) \/ Found(v) \/ Expand(v)
      PROVE  NothingMissed' /\ SearchIsExhaustive'
  BY <1>4, CallMissed
<1>5. ASSUME UNCHANGED vars PROVE NothingMissed' /\ SearchIsExhaustive'
  <2>1. UNCHANGED <<transitions, query, useClosure, pc, paths, recurCount, remaining, sequence>>
    BY <1>5 DEF vars
  <2>2. SearchIsExhaustive'
    BY <2>1, SamePaths DEF SearchInv2, SearchIsExhaustive
  <2>3. ASSUME NEW p, Pending(p) PROVE Pending(p)'
    BY <2>1, <2>3 DEF Pending, PendingAt
  <2>4. SUFFICES ASSUME Searching, recurCount <= RecurLimit,
                        NEW p \in SimplePaths(query[1], query[2])
                 PROVE  p \in paths' \/ Pending(p)'
    BY <2>1, <2>2, SamePaths DEF NothingMissed, Searching
  <2>5. QED
    BY <2>1, <2>3, <2>4 DEF SearchInv2, NothingMissed
<1>6. ASSUME Leave \/ Answer PROVE NothingMissed' /\ SearchIsExhaustive'
  BY <1>6, LeaveMissed, AnswerMissed
<1>7. NothingMissed' /\ SearchIsExhaustive'
  BY <1>2, <1>3, <1>4, <1>5, <1>6 DEF Next
<1>8. QED
  BY <1>1, <1>7 DEF SearchInv2

(* While the limit is not passed, a query evaluates every path from source to
   destination there is, with the closure and without it, whatever edges were
   added since the closure was first computed. *)
THEOREM NoPathIsMissed == Spec => []SearchIsExhaustive
<1>1. Init => SearchInv2
  BY InitType DEF Init, SearchInv2, NothingMissed, SearchIsExhaustive, Searching, ClosureRight
<1>2. SearchInv2 => SearchIsExhaustive
  BY DEF SearchInv2
<1>3. QED
  BY <1>1, <1>2, StepMissed, PTL DEF Spec

-----------------------------------------------------------------------------
(***************************************************************************)
(* The sum of probabilities.  Let each state choose one of the transitions *)
(* counted out of it: there are Denominator ways to choose, a path is      *)
(* followed in as many of them as its probability says, and no two paths   *)
(* from source to destination are followed in the same.                    *)
(***************************************************************************)

Row(s) == [d \in States |-> transitions[<<s, d>>]]
OutOf(s) == IF Total(s) = 0 THEN {<<s, 0>>} ELSE Units(Row(s), States)
Out == [s \in States |-> OutOf(s)]
Along(s, d) == Units(Row(s), {d})

(* Total is the sum of a row. *)
LEMMA TotalIsSum ==
  ASSUME TypeOK, NEW s \in States
  PROVE  Total(s) = SumOver(Row(s), States) /\ Total(s) \in Nat
<1> DEFINE first(t) == CHOOSE x \in t : TRUE
           f == Row(s)
           Sums(iter) ==
             iter = [t \in SUBSET States |->
                       IF t = {} THEN 0 ELSE transitions[<<s, first(t)>>] + iter[t \ {first(t)}]]
           F == CHOOSE iter : Sums(iter)
           G == [t \in SUBSET States |-> SumOver(f, t)]
<1>1. Total(s) = F[States]
  BY DEF Total, MapThenSumSet, MapThenFoldSet
<1>2. \A t \in SUBSET States : t # {} => first(t) \in t
  OBVIOUS
<1>3. IsFiniteSet(States) /\ \A d \in States : f[d] \in Nat
  BY MarkovAssumption DEF TypeOK, Row
<1> HIDE DEF first
<1>4. ASSUME NEW t \in SUBSET States
      PROVE  G[t] = IF t = {} THEN 0 ELSE transitions[<<s, first(t)>>] + G[t \ {first(t)}]
  <2>1. SumOver(f, {}) = 0
    BY <1>3, SumOverElements
  <2>2. CASE t # {}
    <3>1. first(t) \in t /\ t \ {first(t)} \in SUBSET States
      BY <1>2, <2>2
    <3>2. SumOver(f, t) = f[first(t)] + SumOver(f, t \ {first(t)})
      <4> HIDE DEF f
      <4>1. QED
        BY <1>3, <3>1, SumOverElements
    <3>3. f[first(t)] = transitions[<<s, first(t)>>]
      BY <3>1 DEF Row
    <3>4. QED
      BY <2>2, <3>1, <3>2, <3>3
  <2>3. QED
    BY <2>1, <2>2
<1> HIDE DEF f
<1>5. Sums(G)
  <2> DEFINE H == [t \in SUBSET States |-> IF t = {} THEN 0
                                           ELSE transitions[<<s, first(t)>>] + G[t \ {first(t)}]]
  <2>1. \A t \in SUBSET States : G[t] = H[t]
    BY <1>4
  <2>2. G = [t \in SUBSET States |-> G[t]] /\ H = [t \in SUBSET States |-> H[t]]
    OBVIOUS
  <2>3. G = H
    <3> HIDE DEF G, H
    <3>1. QED
      BY <2>1, <2>2
  <2>4. QED
    BY <2>3
<1>6. Sums(F)
  <2> HIDE DEF Sums, G
  <2>1. QED
    BY <1>5
<1>7. \A t \in SUBSET States :
        F[t] = IF t = {} THEN 0 ELSE transitions[<<s, first(t)>>] + F[t \ {first(t)}]
  <2> HIDE DEF F
  <2>1. QED
    BY <1>6
<1> HIDE DEF F, G, Sums
<1>8. F[States] = G[States]
  <2>1. F[{}] = G[{}]
    BY <1>4, <1>7
  <2>2. \A t \in SUBSET States : t # {} => \E x \in t : F[t \ {x}] = G[t \ {x}] => F[t] = G[t]
    BY <1>2, <1>4, <1>7
  <2>3. QED
    BY <1>3, <2>1, <2>2, FoldsAgree
<1>9. SumOver(f, States) \in Nat
  BY <1>3, UnitsFinite
<1>10. QED
  BY <1>1, <1>8, <1>9 DEF G, f

(* The numbers of ways: at least one for each state, and along an edge one for
   each transition that took it. *)
LEMMA OutCount ==
  ASSUME TypeOK, NEW s \in States
  PROVE  /\ IsFiniteSet(Out[s])
         /\ Cardinality(Out[s]) = Max({1, Total(s)})
         /\ Cardinality(Out[s]) \in Nat \ {0}
<1>1. Total(s) \in Nat /\ Total(s) = SumOver(Row(s), States)
  BY TotalIsSum
<1>2. IsFiniteSet(States) /\ \A d \in States : Row(s)[d] \in Nat
  BY MarkovAssumption DEF TypeOK, Row
<1>3. IsFiniteSet(Units(Row(s), States))
  BY <1>2, UnitsFinite
<1>4. CASE Total(s) = 0
  <2>1. Out[s] = {<<s, 0>>}
    BY <1>4 DEF Out, OutOf
  <2>2. IsFiniteSet(Out[s]) /\ Cardinality(Out[s]) = 1
    BY <2>1, FS_Singleton
  <2>3. Max({1, 0}) = 1
    BY DEF Max
  <2>4. QED
    BY <1>4, <2>2, <2>3
<1>5. CASE Total(s) # 0
  <2>1. Out[s] = Units(Row(s), States)
    BY <1>5 DEF Out, OutOf
  <2>2. Max({1, Total(s)}) = Total(s)
    <3> DEFINE T == Total(s)
    <3>1. T \in Nat /\ T >= 1
      BY <1>1, <1>5
    <3> HIDE DEF T
    <3>2. Max({1, T}) = T
      BY <3>1 DEF Max
    <3>3. QED
      BY <3>2 DEF T
  <2>3. QED
    BY <1>1, <1>3, <1>5, <2>1, <2>2 DEF SumOver
<1>6. QED
  BY <1>4, <1>5

LEMMA AlongCount ==
  ASSUME TypeOK, NEW s \in States, NEW d \in States
  PROVE  /\ IsFiniteSet(Along(s, d))
         /\ Cardinality(Along(s, d)) = transitions[<<s, d>>]
         /\ \A u \in Along(s, d) : u[1] = d
         /\ Known(s, d) => Along(s, d) \subseteq Out[s] /\ Total(s) > 0
<1>1. IsFiniteSet(States) /\ \A e \in States : Row(s)[e] \in Nat
  BY MarkovAssumption DEF TypeOK, Row
<1>2. IsFiniteSet(Along(s, d)) /\ Cardinality(Along(s, d)) = Row(s)[d]
  BY <1>1, SumOverOne DEF Along, SumOver
<1>3. Row(s)[d] = transitions[<<s, d>>]
  BY DEF Row
<1>4. Along(s, d) \subseteq Units(Row(s), States) /\ \A u \in Along(s, d) : u[1] = d
  BY DEF Along, Units
<1>5. ASSUME Known(s, d) PROVE Along(s, d) \subseteq Out[s] /\ Total(s) > 0
  <2>1. Row(s)[d] > 0
    BY <1>3, <1>5 DEF Known
  <2>2. SumOver(Row(s), States) = Row(s)[d] + SumOver(Row(s), States \ {d})
    BY <1>1, SumOverElements
  <2>3. SumOver(Row(s), States \ {d}) \in Nat
    <3>1. IsFiniteSet(States \ {d}) /\ \A e \in States \ {d} : Row(s)[e] \in Nat
      BY <1>1, FS_RemoveElement
    <3>2. QED
      BY <3>1, UnitsFinite
  <2>4. Total(s) > 0
    BY <1>1, <2>1, <2>2, <2>3, TotalIsSum
  <2>5. Out[s] = Units(Row(s), States)
    BY <2>4, TotalIsSum DEF Out, OutOf
  <2>6. QED
    BY <1>4, <2>4, <2>5
<1>6. QED
  BY <1>2, <1>3, <1>4, <1>5

(* Denominator is the number of ways for all states. *)
LEMMA DenominatorCounts ==
  ASSUME TypeOK
  PROVE  /\ IsFiniteSet(Selections(Out, States))
         /\ Denominator = ProductOver(Out, States)
<1> DEFINE first(t) == CHOOSE x \in t : TRUE
           size(s) == Max({1, Total(s)})
           Multiplies(iter) ==
             iter = [t \in SUBSET States |->
                       IF t = {} THEN 1 ELSE size(first(t)) * iter[t \ {first(t)}]]
           F == CHOOSE iter : Multiplies(iter)
           G == [t \in SUBSET States |-> ProductOver(Out, t)]
<1>1. Denominator = F[States]
  BY DEF Denominator, MapThenFoldSet
<1>2. \A t \in SUBSET States : t # {} => first(t) \in t
  OBVIOUS
<1>3. IsFiniteSet(States) /\ \A s \in States : IsFiniteSet(Out[s]) /\ Cardinality(Out[s]) = size(s)
  BY MarkovAssumption, OutCount
<1> HIDE DEF first, size
<1>4. ASSUME NEW t \in SUBSET States
      PROVE  G[t] = IF t = {} THEN 1 ELSE size(first(t)) * G[t \ {first(t)}]
  <2>1. ProductOver(Out, {}) = 1
    BY SelectionsOfNone
  <2>2. CASE t # {}
    <3>1. first(t) \in t /\ t \ {first(t)} \in SUBSET States
      BY <1>2, <2>2
    <3>2. ProductOver(Out, t) = Cardinality(Out[first(t)]) * ProductOver(Out, t \ {first(t)})
      BY <1>3, <3>1, ProductOverElements
    <3>3. QED
      BY <1>3, <2>2, <3>1, <3>2
  <2>3. QED
    BY <2>1, <2>2
<1>5. Multiplies(G)
  <2> DEFINE H == [t \in SUBSET States |-> IF t = {} THEN 1
                                           ELSE size(first(t)) * G[t \ {first(t)}]]
  <2>1. \A t \in SUBSET States : G[t] = H[t]
    BY <1>4
  <2>2. G = [t \in SUBSET States |-> G[t]] /\ H = [t \in SUBSET States |-> H[t]]
    OBVIOUS
  <2>3. G = H
    <3> HIDE DEF G, H
    <3>1. QED
      BY <2>1, <2>2
  <2>4. QED
    BY <2>3
<1>6. Multiplies(F)
  <2> HIDE DEF Multiplies, G
  <2>1. QED
    BY <1>5
<1>7. \A t \in SUBSET States : F[t] = IF t = {} THEN 1 ELSE size(first(t)) * F[t \ {first(t)}]
  <2> HIDE DEF F
  <2>1. QED
    BY <1>6
<1> HIDE DEF F, G, Multiplies
<1>8. F[States] = G[States]
  <2>1. F[{}] = G[{}]
    BY <1>4, <1>7
  <2>2. \A t \in SUBSET States : t # {} => \E x \in t : F[t \ {x}] = G[t \ {x}] => F[t] = G[t]
    BY <1>2, <1>4, <1>7
  <2>3. QED
    BY <1>3, <2>1, <2>2, FoldsAgree
<1>9. IsFiniteSet(Selections(Out, States))
  BY <1>3, SelectionsFinite
<1>10. QED
  BY <1>1, <1>8, <1>9 DEF G

(* The numerators and denominators of a path's edges, multiplied. *)
Multiplied(path) ==
  FoldLeft(LAMBDA p, i : <<p[1] * Probability(path[i], path[i + 1])[1],
                           p[2] * Probability(path[i], path[i + 1])[2]>>,
           <<1, 1>>, [i \in 1 .. Len(path) - 1 |-> i])
EdgesOf(path) == 1 .. Len(path) - 1
Numerators(path) == [i \in EdgesOf(path) |-> Along(path[i], path[i + 1])]
Denominators(path) == [i \in EdgesOf(path) |-> Out[path[i]]]

LEMMA PathProduct ==
  ASSUME TypeOK, NEW path \in Seq(States), path # <<>>, Connected(path)
  PROVE  Multiplied(path) = <<ProductOver(Numerators(path), EdgesOf(path)),
                              ProductOver(Denominators(path), EdgesOf(path))>>
<1> DEFINE I == EdgesOf(path)
           list == [i \in 1 .. Len(path) - 1 |-> i]
           num == Numerators(path)
           den == Denominators(path)
           Times(p, i) == <<p[1] * Probability(path[i], path[i + 1])[1],
                            p[2] * Probability(path[i], path[i + 1])[2]>>
           Multiplies(iter) ==
             iter = [t \in SUBSET DOMAIN list |->
                       IF t = {} THEN <<1, 1>> ELSE Times(iter[t \ {Max(t)}], list[Max(t)])]
           F == CHOOSE iter : Multiplies(iter)
           G == [t \in SUBSET I |-> <<ProductOver(num, t), ProductOver(den, t)>>]
<1>1. Multiplied(path) = F[DOMAIN list]
  BY DEF Multiplied, FoldLeft, MapThenFoldSet
<1>2. DOMAIN list = I /\ \A i \in I : list[i] = i
  BY DEF EdgesOf
<1>3. Len(path) \in Nat \ {0} /\ \A i \in 1 .. Len(path) : path[i] \in States
  OBVIOUS
<1>4. ASSUME NEW i \in I
      PROVE  /\ IsFiniteSet(num[i]) /\ Cardinality(num[i]) = Probability(path[i], path[i + 1])[1]
             /\ IsFiniteSet(den[i]) /\ Cardinality(den[i]) = Probability(path[i], path[i + 1])[2]
             /\ Cardinality(num[i]) \in Nat /\ Cardinality(den[i]) \in Nat
  <2> DEFINE s == path[i]
             d == path[i + 1]
  <2>1. s \in States /\ d \in States /\ Known(s, d)
    BY <1>3 DEF EdgesOf, Connected
  <2>2. num[i] = Along(s, d) /\ den[i] = Out[s]
    BY DEF Numerators, Denominators
  <2> HIDE DEF s, d
  <2>3. Probability(s, d) = <<transitions[<<s, d>>], Total(s)>>
    BY <2>1 DEF Probability
  <2>4. Total(s) > 0 /\ Total(s) \in Nat
    BY <2>1, AlongCount, TotalIsSum
  <2>5. Max({1, Total(s)}) = Total(s)
    <3> DEFINE T == Total(s)
    <3>1. T \in Nat /\ T >= 1
      BY <2>4
    <3> HIDE DEF T
    <3>2. Max({1, T}) = T
      BY <3>1 DEF Max
    <3>3. QED
      BY <3>2 DEF T
  <2>6. IsFiniteSet(num[i]) /\ Cardinality(num[i]) = transitions[<<s, d>>]
    BY <2>1, <2>2, AlongCount
  <2>7. IsFiniteSet(den[i]) /\ Cardinality(den[i]) = Total(s)
    BY <2>1, <2>2, <2>5, OutCount
  <2>8. QED
    BY <2>3, <2>6, <2>7, FS_CardinalityType DEF s, d
<1>5. IsFiniteSet(I)
  BY <1>3, FS_Interval DEF EdgesOf
<1>6. ASSUME NEW t \in SUBSET I, t # {} PROVE Max(t) \in t
  <2>1. Len(path) - 1 \in Nat /\ t \in SUBSET (1 .. Len(path) - 1)
    BY <1>3 DEF EdgesOf
  <2>2. QED
    BY <1>6, <2>1, GreatestElement
<1> HIDE DEF I, list, num, den
<1>7. ASSUME NEW t \in SUBSET I
      PROVE  G[t] = IF t = {} THEN <<1, 1>> ELSE Times(G[t \ {Max(t)}], list[Max(t)])
  <2>1. ProductOver(num, {}) = 1 /\ ProductOver(den, {}) = 1
    BY SelectionsOfNone
  <2>2. CASE t # {}
    <3> DEFINE m == Max(t)
               r == t \ {m}
    <3>1. m \in t /\ m \in I /\ r \in SUBSET I /\ list[m] = m
      BY <1>2, <1>6, <2>2
    <3> HIDE DEF m
    <3>2. \A i \in I : IsFiniteSet(num[i]) /\ IsFiniteSet(den[i])
      BY <1>4
    <3>3. /\ ProductOver(num, t) = Cardinality(num[m]) * ProductOver(num, r)
          /\ ProductOver(den, t) = Cardinality(den[m]) * ProductOver(den, r)
      BY <1>5, <3>1, <3>2, ProductOverElements
    <3>4. /\ ProductOver(num, r) \in Nat /\ ProductOver(den, r) \in Nat
      <4>1. IsFiniteSet(r) /\ \A i \in r : IsFiniteSet(num[i]) /\ IsFiniteSet(den[i])
        BY <1>5, <3>1, <3>2, FS_Subset
      <4> HIDE DEF r
      <4>2. QED
        BY <4>1, SelectionsFinite
    <3>5. /\ Cardinality(num[m]) * ProductOver(num, r) = ProductOver(num, r) * Cardinality(num[m])
          /\ Cardinality(den[m]) * ProductOver(den, r) = ProductOver(den, r) * Cardinality(den[m])
      BY <1>4, <3>1, <3>4
    <3>6. Times(G[r], m) = <<ProductOver(num, t), ProductOver(den, t)>>
      BY <1>4, <3>1, <3>3, <3>5
    <3>7. QED
      BY <2>2, <3>1, <3>6 DEF m
  <2>3. QED
    BY <2>1, <2>2
<1> HIDE DEF Times
<1>8. Multiplies(G)
  <2> DEFINE H == [t \in SUBSET I |-> IF t = {} THEN <<1, 1>> ELSE Times(G[t \ {Max(t)}], list[Max(t)])]
  <2>1. \A t \in SUBSET I : G[t] = H[t]
    BY <1>7
  <2>2. G = [t \in SUBSET I |-> G[t]] /\ H = [t \in SUBSET I |-> H[t]]
    OBVIOUS
  <2>3. G = H
    <3> HIDE DEF G, H
    <3>1. QED
      BY <2>1, <2>2
  <2>4. QED
    BY <1>2, <2>3
<1>9. Multiplies(F)
  <2> HIDE DEF Multiplies, G
  <2>1. QED
    BY <1>8
<1>10. \A t \in SUBSET I : F[t] = IF t = {} THEN <<1, 1>> ELSE Times(F[t \ {Max(t)}], list[Max(t)])
  <2> HIDE DEF F
  <2>1. QED
    BY <1>2, <1>9
<1> HIDE DEF F, G, Multiplies
<1>11. F[I] = G[I]
  <2>1. F[{}] = G[{}]
    BY <1>7, <1>10
  <2>2. \A t \in SUBSET I : t # {} => \E x \in t : F[t \ {x}] = G[t \ {x}] => F[t] = G[t]
    BY <1>6, <1>7, <1>10
  <2>3. QED
    BY <1>5, <2>1, <2>2, FoldsAgree
<1>12. QED
  BY <1>1, <1>2, <1>11 DEF G, num, den, I

Place(path, s) == CHOOSE i \in EdgesOf(path) : path[i] = s
Chosen(path) ==
  [s \in States |-> IF \E i \in EdgesOf(path) : path[i] = s
                    THEN Along(s, path[Place(path, s) + 1]) ELSE Out[s]]
Following(path) == Selections(Chosen(path), States)

LEMMA Divided ==
  ASSUME NEW a \in Nat, NEW b \in Nat \ {0}, NEW c \in Nat
  PROVE  (a * (b * c)) \div b = a * c
<1> DEFINE n == a * c
<1>1. n \in Nat /\ a * (b * c) = b * n
  OBVIOUS
<1> HIDE DEF n
<1>2. (b * n) \div b = n
  BY <1>1
<1>3. QED
  BY <1>1, <1>2 DEF n

(* The probability of a path is the number of ways in which it is followed. *)
LEMMA PathCounts ==
  ASSUME TypeOK, NEW path \in Seq(States), path # <<>>, Simple(path), Connected(path)
  PROVE  /\ Following(path) \subseteq Selections(Out, States)
         /\ IsFiniteSet(Following(path))
         /\ PathProbability(path) = Cardinality(Following(path))
<1> DEFINE I == EdgesOf(path)
           num == Numerators(path)
           den == Denominators(path)
           V == {path[i] : i \in I}
           W == States \ V
           c == Chosen(path)
<1>1. Len(path) \in Nat \ {0} /\ \A i \in 1 .. Len(path) : path[i] \in States
  OBVIOUS
<1>2. ASSUME NEW i \in I
      PROVE  /\ path[i] \in States /\ path[i + 1] \in States /\ Known(path[i], path[i + 1])
             /\ i \in DOMAIN path /\ Place(path, path[i]) = i
  <2>1. i \in DOMAIN path /\ \A j \in I : j \in DOMAIN path
    BY <1>1 DEF EdgesOf
  <2>2. Place(path, path[i]) = i
    BY <2>1 DEF Place, Simple
  <2>3. QED
    BY <1>1, <2>1, <2>2 DEF EdgesOf, Connected
<1>3. V \subseteq States /\ V \cup W = States /\ V \cap W = {}
  BY <1>2
<1>4. \A i \in I : num[i] = c[path[i]] /\ den[i] = Out[path[i]]
  BY <1>2 DEF Chosen, Numerators, Denominators
<1>5. \A s \in W : c[s] = Out[s]
  BY DEF Chosen
<1>6. ASSUME NEW s \in States
      PROVE  c[s] \subseteq Out[s] /\ IsFiniteSet(c[s]) /\ IsFiniteSet(Out[s]) /\ Out[s] # {}
  <2>1. IsFiniteSet(Out[s]) /\ Out[s] # {}
    BY OutCount, FS_EmptySet
  <2>2. CASE s \in V
    <3>1. PICK i \in I : path[i] = s
      BY <2>2
    <3>2. c[s] = Along(path[i], path[i + 1])
      BY <1>4, <3>1 DEF Numerators
    <3>3. Along(path[i], path[i + 1]) \subseteq Out[path[i]]
      BY <1>2, AlongCount
    <3>4. QED
      BY <2>1, <3>1, <3>2, <3>3, FS_Subset
  <2>3. CASE s \notin V
    BY <1>5, <2>1, <2>3
  <2>4. QED
    BY <2>2, <2>3
<1>7. \A i, j \in I : path[i] = path[j] => i = j
  BY <1>2 DEF Simple
<1>8. (\A i \in I : path[i] \in V) /\ \A x \in V : \E i \in I : path[i] = x
  OBVIOUS
<1> HIDE DEF I, num, den, V, c
<1>9. IsFiniteSet(States) /\ IsFiniteSet(V) /\ IsFiniteSet(W)
  BY <1>3, MarkovAssumption, FS_Subset
<1>10. /\ IsFiniteSet(Selections(c, V)) /\ ProductOver(c, V) \in Nat
      /\ IsFiniteSet(Selections(Out, V)) /\ ProductOver(Out, V) \in Nat
  BY <1>3, <1>6, <1>9, SelectionsFinite
<1>11. /\ IsFiniteSet(Selections(c, W))
       /\ IsFiniteSet(Selections(Out, W)) /\ ProductOver(Out, W) \in Nat
  BY <1>3, <1>6, <1>9, SelectionsFinite
<1>12. ProductOver(num, I) = ProductOver(c, V)
  <2>1. \A i \in I : num[i] = c[path[i]]
    BY <1>4
  <2>2. IsFiniteSet(Selections(c, V))
    BY <1>10
  <2>3. QED
    BY <1>7, <1>8, <2>1, <2>2, ProductOverPlaces
<1>13. ProductOver(den, I) = ProductOver(Out, V)
  <2>1. \A i \in I : den[i] = Out[path[i]]
    BY <1>4
  <2>2. IsFiniteSet(Selections(Out, V))
    BY <1>10
  <2>3. QED
    BY <1>7, <1>8, <2>1, <2>2, ProductOverPlaces
<1>14. ProductOver(c, W) = ProductOver(Out, W)
  BY <1>5, SelectionsDepend DEF ProductOver
<1>15. /\ IsFiniteSet(Selections(c, States))
       /\ ProductOver(c, States) = ProductOver(c, V) * ProductOver(Out, W)
  <2> HIDE DEF W
  <2>1. /\ IsFiniteSet(Selections(c, V \cup W))
        /\ ProductOver(c, V \cup W) = ProductOver(c, V) * ProductOver(c, W)
    BY <1>3, <1>10, <1>11, SelectionsSplit
  <2>2. QED
    BY <1>3, <1>14, <2>1
<1>16. Denominator = ProductOver(Out, V) * ProductOver(Out, W)
  BY <1>3, <1>10, <1>11, SelectionsSplit, DenominatorCounts
<1>17. ProductOver(Out, V) # 0
  <2> DEFINE g == [s \in V |-> CHOOSE u \in Out[s] : TRUE]
  <2>1. \A s \in V : g[s] \in Out[s]
    BY <1>3, <1>6
  <2>2. g \in Selections(Out, V)
    BY <2>1 DEF Selections
  <2>3. QED
    BY <1>10, <2>2, FS_EmptySet DEF ProductOver
<1>18. PathProbability(path) = (Multiplied(path)[1] * Denominator) \div Multiplied(path)[2]
  BY DEF PathProbability, Multiplied
<1>19. Multiplied(path) = <<ProductOver(c, V), ProductOver(Out, V)>>
  BY <1>12, <1>13, PathProduct DEF num, den, I
<1>20. PathProbability(path) = ProductOver(c, V) * ProductOver(Out, W)
  <2> DEFINE x == ProductOver(c, V)
             y == ProductOver(Out, V)
             z == ProductOver(Out, W)
  <2>1. x \in Nat /\ y \in Nat \ {0} /\ z \in Nat
    BY <1>10, <1>11, <1>17
  <2>2. PathProbability(path) = (x * (y * z)) \div y
    BY <1>16, <1>18, <1>19
  <2> HIDE DEF x, y, z
  <2>3. QED
    BY <2>1, <2>2, Divided DEF x, y, z
<1>21. Following(path) \subseteq Selections(Out, States)
  BY <1>6 DEF Following, Selections, c
<1>22. QED
  BY <1>15, <1>20, <1>21 DEF Following, ProductOver, c

(* Two paths from one state to another are not followed in the same way. *)
LEMMA PathsApart ==
  ASSUME TypeOK,
         NEW p \in Seq(States), p # <<>>, Simple(p), Connected(p),
         NEW q \in Seq(States), q # <<>>, Simple(q), Connected(q),
         p[1] = q[1], p[Len(p)] = q[Len(q)],
         NEW g \in Following(p), g \in Following(q)
  PROVE  p = q
<1>1. ASSUME NEW path \in Seq(States), path # <<>>, Simple(path), Connected(path),
             g \in Following(path), NEW i \in 1 .. Len(path) - 1
      PROVE  g[path[i]][1] = path[i + 1]
  <2>1. i \in EdgesOf(path) /\ path[i] \in States /\ path[i + 1] \in States
    BY <1>1 DEF EdgesOf
  <2>2. Place(path, path[i]) = i
    <3>1. \A j \in EdgesOf(path) : j \in DOMAIN path
      BY <1>1 DEF EdgesOf
    <3>2. QED
      BY <1>1, <2>1, <3>1 DEF Place, Simple
  <2>3. g[path[i]] \in Chosen(path)[path[i]]
    BY <1>1, <2>1 DEF Following, Selections
  <2>4. Chosen(path)[path[i]] = Along(path[i], path[i + 1])
    BY <2>1, <2>2 DEF Chosen
  <2>5. \A u \in Along(path[i], path[i + 1]) : u[1] = path[i + 1]
    BY <2>1, AlongCount
  <2>6. QED
    BY <2>3, <2>4, <2>5
<1>2. Len(p) \in Nat \ {0} /\ Len(q) \in Nat \ {0}
      /\ DOMAIN p = 1 .. Len(p) /\ DOMAIN q = 1 .. Len(q)
  OBVIOUS
<1> DEFINE Same == {i \in Nat : i + 1 \in 1 .. Len(p) /\ i + 1 \in 1 .. Len(q) => p[i + 1] = q[i + 1]}
<1>3. 0 \in Same
  OBVIOUS
<1>4. ASSUME NEW i \in Nat, i \in Same PROVE i + 1 \in Same
  <2> SUFFICES ASSUME (i + 1) + 1 \in 1 .. Len(p), (i + 1) + 1 \in 1 .. Len(q)
               PROVE  p[(i + 1) + 1] = q[(i + 1) + 1]
    OBVIOUS
  <2>1. i + 1 \in 1 .. Len(p) - 1 /\ i + 1 \in 1 .. Len(q) - 1
        /\ i + 1 \in 1 .. Len(p) /\ i + 1 \in 1 .. Len(q)
    BY <1>2
  <2>2. p[i + 1] = q[i + 1]
    BY <1>4, <2>1
  <2>3. g[p[i + 1]][1] = p[(i + 1) + 1] /\ g[q[i + 1]][1] = q[(i + 1) + 1]
    BY <1>1, <2>1
  <2>4. QED
    BY <2>2, <2>3
<1>5. Nat \subseteq Same
  <2> HIDE DEF Same
  <2>1. QED
    BY <1>3, <1>4, SetInduction
<1>6. \A i \in 1 .. Len(p) : i <= Len(q) => p[i] = q[i]
  <2> SUFFICES ASSUME NEW i \in 1 .. Len(p), i <= Len(q) PROVE p[i] = q[i]
    OBVIOUS
  <2>1. i - 1 \in Nat /\ (i - 1) + 1 = i /\ i \in 1 .. Len(q)
    BY <1>2
  <2>2. QED
    BY <1>5, <2>1
<1>7. Len(p) = Len(q)
  <2> DEFINE m == Len(p)
             n == Len(q)
  <2>1. m \in 1 .. m /\ n \in 1 .. n /\ m \in Nat /\ n \in Nat
    BY <1>2
  <2>2. \A i, j \in 1 .. n : q[i] = q[j] => i = j
    BY <1>2 DEF Simple
  <2>3. \A i, j \in 1 .. m : p[i] = p[j] => i = j
    BY <1>2 DEF Simple
  <2>4. ASSUME m < n PROVE FALSE
    <3>1. m \in 1 .. n /\ p[m] = q[m] /\ p[m] = q[n]
      BY <1>2, <1>6, <2>4
    <3> HIDE DEF m, n
    <3>2. m = n
      BY <2>1, <2>2, <3>1
    <3>3. QED
      BY <2>4, <2>1, <3>2
  <2>5. ASSUME n < m PROVE FALSE
    <3>1. n \in 1 .. m /\ p[n] = q[n] /\ q[n] = p[m]
      BY <1>2, <1>6, <2>5
    <3> HIDE DEF m, n
    <3>2. n = m
      BY <2>1, <2>3, <3>1
    <3>3. QED
      BY <2>5, <2>1, <3>2
  <2> HIDE DEF m, n
  <2>6. m = n
    BY <2>1, <2>4, <2>5
  <2>7. QED
    BY <2>6 DEF m, n
<1>8. QED
  BY <1>2, <1>6, <1>7

(* What a query sums up is the number of ways in which one of its paths is
   followed. *)
LEMMA SumCounts ==
  ASSUME TypeOK, IsFiniteSet(paths),
         NEW from, NEW to,
         \A p \in paths : /\ p # <<>> /\ p[1] = from /\ p[Len(p)] = to
                          /\ Simple(p) /\ Connected(p)
  PROVE  TransitionProbability = Cardinality(UNION {Following(p) : p \in paths})
<1>1. PICK f : f = [p \in paths |-> Following(p)]
  OBVIOUS
<1> DEFINE first(t) == CHOOSE x \in t : TRUE
           Sums(iter) ==
             iter = [t \in SUBSET paths |->
                       IF t = {} THEN 0 ELSE PathProbability(first(t)) + iter[t \ {first(t)}]]
           F == CHOOSE iter : Sums(iter)
           G == [t \in SUBSET paths |-> Cardinality(Together(f, t))]
<1>2. TransitionProbability = F[paths]
  BY DEF TransitionProbability, MapThenSumSet, MapThenFoldSet
<1>3. \A t \in SUBSET paths : t # {} => first(t) \in t
  OBVIOUS
<1>4. ASSUME NEW p \in paths
      PROVE  /\ IsFiniteSet(Following(p))
             /\ PathProbability(p) = Cardinality(Following(p))
  <2>1. p \in Seq(States) /\ p # <<>> /\ Simple(p) /\ Connected(p)
    BY DEF TypeOK
  <2>2. QED
    BY <2>1, PathCounts
<1>5. ASSUME NEW p \in paths, NEW q \in paths, p # q
      PROVE  Following(p) \cap Following(q) = {}
  <2> SUFFICES ASSUME NEW g \in Following(p), g \in Following(q) PROVE FALSE
    OBVIOUS
  <2>1. /\ p \in Seq(States) /\ p # <<>> /\ Simple(p) /\ Connected(p)
        /\ q \in Seq(States) /\ q # <<>> /\ Simple(q) /\ Connected(q)
        /\ p[1] = q[1] /\ p[Len(p)] = q[Len(q)]
    BY DEF TypeOK
  <2>2. QED
    BY <1>5, <2>1, PathsApart
<1>6. /\ \A p \in paths : IsFiniteSet(f[p])
      /\ \A p, q \in paths : p # q => f[p] \cap f[q] = {}
      /\ \A p \in paths : PathProbability(p) = Cardinality(f[p])
  BY <1>4, <1>5, <1>1
<1>7. UNION {Following(p) : p \in paths} = Together(f, paths)
  BY <1>1 DEF Together
<1> HIDE DEF first
<1>8. ASSUME NEW t \in SUBSET paths
      PROVE  G[t] = IF t = {} THEN 0 ELSE PathProbability(first(t)) + G[t \ {first(t)}]
  <2>1. CASE t = {}
    <3>1. Together(f, {}) = {}
      BY DEF Together
    <3>2. QED
      BY <2>1, <3>1, FS_EmptySet
  <2>2. CASE t # {}
    <3>1. first(t) \in t /\ first(t) \in paths /\ t \ {first(t)} \in SUBSET paths
      BY <1>3, <2>2
    <3>2. \A x \in t : Cardinality(Together(f, t)) = Cardinality(f[x]) + Cardinality(Together(f, t \ {x}))
      <4>1. \A p \in paths : IsFiniteSet(f[p])
        BY <1>6
      <4>2. \A p, q \in paths : p # q => f[p] \cap f[q] = {}
        BY <1>6
      <4>3. IsFiniteSet(paths) /\ t \in SUBSET paths
        OBVIOUS
      <4>4. QED
        BY ONLY <4>1, <4>2, <4>3, DisjointSets
    <3>3. QED
      BY <1>6, <2>2, <3>1, <3>2
  <2>3. QED
    BY <2>1, <2>2
<1>9. Sums(G)
  <2> DEFINE H == [t \in SUBSET paths |-> IF t = {} THEN 0
                                          ELSE PathProbability(first(t)) + G[t \ {first(t)}]]
  <2>1. \A t \in SUBSET paths : G[t] = H[t]
    BY <1>8
  <2>2. G = [t \in SUBSET paths |-> G[t]] /\ H = [t \in SUBSET paths |-> H[t]]
    OBVIOUS
  <2>3. G = H
    <3> HIDE DEF G, H
    <3>1. QED
      BY <2>1, <2>2
  <2>4. QED
    BY <2>3
<1>10. Sums(F)
  <2> HIDE DEF Sums, G
  <2>1. QED
    BY <1>9
<1>11. \A t \in SUBSET paths :
         F[t] = IF t = {} THEN 0 ELSE PathProbability(first(t)) + F[t \ {first(t)}]
  <2> HIDE DEF F
  <2>1. QED
    BY <1>10
<1>12. G[paths] = Cardinality(Together(f, paths))
  OBVIOUS
<1> HIDE DEF F, G, Sums
<1>13. F[paths] = G[paths]
  <2>1. F[{}] = G[{}]
    BY <1>8, <1>11
  <2>2. \A t \in SUBSET paths : t # {} => \E x \in t : F[t \ {x}] = G[t \ {x}] => F[t] = G[t]
    BY <1>3, <1>8, <1>11
  <2>3. QED
    BY <2>1, <2>2, FoldsAgree
<1>14. QED
  BY <1>2, <1>7, <1>12, <1>13

(* A path is followed in some of the ways there are, so its sum with the others
   is no larger than their number. *)
LEMMA AtMostAllWays ==
  ASSUME SearchInv, IsFiniteSet(paths)
  PROVE  SumAtMostOne
<1> SUFFICES ASSUME pc = "answered" PROVE TransitionProbability <= Denominator
  BY DEF SumAtMostOne
<1> DEFINE Followed == UNION {Following(p) : p \in paths}
           Ways == Selections(Out, States)
<1>1. TypeOK
  BY DEF SearchInv
<1>2. \A p \in paths : /\ p \in Seq(States) /\ p # <<>> /\ p[1] = query[1] /\ p[Len(p)] = query[2]
                       /\ Simple(p) /\ Connected(p)
  BY DEF SearchInv, PathsAreReal, TypeOK
<1>3. TransitionProbability = Cardinality(Followed)
  BY <1>1, <1>2, SumCounts
<1>4. IsFiniteSet(Ways) /\ Denominator = Cardinality(Ways)
  BY <1>1, DenominatorCounts DEF ProductOver
<1>5. Followed \subseteq Ways
  <2>1. \A p \in paths : Following(p) \subseteq Ways
    BY <1>1, <1>2, PathCounts
  <2>2. QED
    BY <2>1
<1> HIDE DEF Followed, Ways
<1>6. Cardinality(Followed) <= Cardinality(Ways)
  BY <1>4, <1>5, FS_Subset
<1>7. QED
  BY <1>3, <1>4, <1>6

(* A query finds one path at a time. *)
LEMMA FinitePaths ==
  ASSUME SearchInv, IsFiniteSet(paths), [Next]_vars
  PROVE  IsFiniteSet(paths')
<1>1. ASSUME NEW s \in States, NEW d \in States, AddEdge(s, d) \/ Begin(s, d)
      PROVE  paths' = paths \/ paths' = {}
  BY <1>1 DEF AddEdge, Begin, search
<1>2. ASSUME NEW v \in States, Cut(v) \/ Cycle(v) \/ Expand(v)
      PROVE  paths' = paths
  BY <1>2 DEF Cut, Cycle, Expand
<1>3. ASSUME NEW v \in States, Found(v)
      PROVE  \E x : paths' = paths \cup {x}
  BY <1>3 DEF Found
<1>4. ASSUME Leave \/ Answer \/ UNCHANGED vars
      PROVE  paths' = paths
  BY <1>4 DEF Leave, Answer, search, vars
<1>5. paths' = paths \/ paths' = {} \/ \E x : paths' = paths \cup {x}
  BY <1>1, <1>2, <1>3, <1>4 DEF Next
<1>6. QED
  BY <1>5, FS_AddElement, FS_EmptySet

(* "It should be <= 1.0" (markov_model.h:566), for every graph: whatever the
   transitions that are counted, the probabilities of the paths a query has
   found add up to at most one. *)
THEOREM SumsAreProbabilities == Spec => []SumAtMostOne
<1> DEFINE I == SearchInv /\ IsFiniteSet(paths)
<1>1. Init => I
  BY InitType, FS_EmptySet DEF Init
<1>2. I /\ [Next]_vars => I'
  BY StepInv, FinitePaths
<1>3. I => SumAtMostOne
  BY AtMostAllWays
<1>4. QED
  BY <1>1, <1>2, <1>3, PTL DEF Spec
===============================================================================
