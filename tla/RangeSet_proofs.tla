--------------------------- MODULE RangeSet_proofs ---------------------------
(***************************************************************************)
(* Theorems about RangeSet, for any number of tasks: the list of ranges is *)
(* canonical between calls, its summaries are right, and the two binary    *)
(* searches and the joining of neighbours implement a set of tasks.        *)
(***************************************************************************)
EXTENDS RangeSet, CommonLemmas, SequenceTheorems, TLAPS

-----------------------------------------------------------------------------
(* Inserting into and removing from a sequence. *)

(* vector::insert: the elements from position i on move up by one. *)
LEMMA InsertAtElements ==
  ASSUME NEW S, NEW s \in Seq(S), NEW i \in 1 .. Len(s) + 1, NEW e \in S
  PROVE  /\ InsertAt(s, i, e) \in Seq(S)
         /\ Len(InsertAt(s, i, e)) = Len(s) + 1
         /\ \A j \in 1 .. Len(s) + 1 :
              InsertAt(s, i, e)[j] =
                IF j < i THEN s[j] ELSE IF j = i THEN e ELSE s[j - 1]
PROOF
<1> DEFINE left == SubSeq(s, 1, i - 1)
           right == SubSeq(s, i, Len(s))
<1>1. Len(s) \in Nat /\ \A j \in 1 .. Len(s) : s[j] \in S
  BY LenProperties, ElementOfSeq
<1>2. /\ left \in Seq(S)
      /\ Len(left) = i - 1
      /\ \A j \in 1 .. i - 1 : left[j] = s[j]
  BY <1>1, SubSeqProperties, SMTT(30)
<1>3. /\ right \in Seq(S)
      /\ Len(right) = Len(s) - i + 1
      /\ \A j \in 1 .. Len(s) - i + 1 : right[j] = s[i + j - 1]
  BY <1>1, SubSeqProperties, SMTT(30)
<1>4. <<e>> \in Seq(S) /\ Len(<<e>>) = 1 /\ <<e>>[1] = e
  OBVIOUS
<1> HIDE DEF left, right
<1>5. /\ left \o <<e>> \in Seq(S)
      /\ Len(left \o <<e>>) = i
      /\ \A j \in 1 .. i : (left \o <<e>>)[j] = IF j < i THEN s[j] ELSE e
  <2>1. /\ left \o <<e>> \in Seq(S)
        /\ Len(left \o <<e>>) = Len(left) + Len(<<e>>)
        /\ \A j \in 1 .. Len(left) + Len(<<e>>) :
             (left \o <<e>>)[j] = IF j <= Len(left) THEN left[j] ELSE <<e>>[j - Len(left)]
    BY <1>2, <1>4, ConcatProperties
  <2> QED BY <2>1, <1>1, <1>2, <1>4
<1>6. /\ (left \o <<e>>) \o right \in Seq(S)
      /\ Len((left \o <<e>>) \o right) = i + (Len(s) - i + 1)
      /\ \A j \in 1 .. i + (Len(s) - i + 1) :
           ((left \o <<e>>) \o right)[j] =
              IF j <= i THEN (left \o <<e>>)[j] ELSE right[j - i]
  BY <1>5, <1>3, ConcatProperties
<1>7. InsertAt(s, i, e) = (left \o <<e>>) \o right
  BY DEF InsertAt, left, right
<1> DEFINE result == (left \o <<e>>) \o right
<1> HIDE DEF result
<1>8. ASSUME NEW j \in 1 .. Len(s) + 1
      PROVE  result[j] =
                IF j < i THEN s[j] ELSE IF j = i THEN e ELSE s[j - 1]
  <2>1. CASE j <= i
    BY <2>1, <1>1, <1>5, <1>6 DEF result
  <2>2. CASE j > i
    <3>1. j - i \in 1 .. Len(s) - i + 1 /\ i + (j - i) - 1 = j - 1
      BY <2>2, <1>1
    <3>2. right[j - i] = s[j - 1]
      BY <3>1, <1>3
    <3> QED BY <2>2, <3>2, <1>1, <1>6 DEF result
  <2> QED BY <2>1, <2>2, <1>1
<1> QED BY <1>1, <1>6, <1>7, <1>8 DEF result

(* vector::erase: the elements after position i move down by one. *)
LEMMA RemoveAtElements ==
  ASSUME NEW S, NEW s \in Seq(S), NEW i \in 1 .. Len(s)
  PROVE  /\ RemoveAt(s, i) \in Seq(S)
         /\ Len(RemoveAt(s, i)) = Len(s) - 1
         /\ \A j \in 1 .. Len(s) - 1 :
              RemoveAt(s, i)[j] = IF j < i THEN s[j] ELSE s[j + 1]
PROOF
<1> DEFINE left == SubSeq(s, 1, i - 1)
           right == SubSeq(s, i + 1, Len(s))
<1>1. Len(s) \in Nat /\ \A j \in 1 .. Len(s) : s[j] \in S
  BY LenProperties, ElementOfSeq
<1>2. /\ left \in Seq(S)
      /\ Len(left) = i - 1
      /\ \A j \in 1 .. i - 1 : left[j] = s[j]
  BY <1>1, SubSeqProperties, SMTT(30)
<1>3. /\ right \in Seq(S)
      /\ Len(right) = Len(s) - i
      /\ \A j \in 1 .. Len(s) - i : right[j] = s[i + j]
  BY <1>1, SubSeqProperties, SMTT(30)
<1> HIDE DEF left, right
<1> DEFINE result == left \o right
<1>4. /\ result \in Seq(S)
      /\ Len(result) = Len(s) - 1
      /\ \A j \in 1 .. Len(s) - 1 :
           result[j] = IF j < i THEN left[j] ELSE right[j - (i - 1)]
  <2>1. /\ result \in Seq(S)
        /\ Len(result) = Len(left) + Len(right)
        /\ \A j \in 1 .. Len(left) + Len(right) :
             result[j] = IF j <= Len(left) THEN left[j] ELSE right[j - Len(left)]
    BY <1>2, <1>3, ConcatProperties
  <2> HIDE DEF result
  <2> QED BY <2>1, <1>1, <1>2, <1>3
<1>5. RemoveAt(s, i) = result
  BY DEF RemoveAt, left, right
<1> HIDE DEF result
<1>6. ASSUME NEW j \in 1 .. Len(s) - 1
      PROVE  result[j] = IF j < i THEN s[j] ELSE s[j + 1]
  <2>1. CASE j < i
    BY <2>1, <1>1, <1>2, <1>4
  <2>2. CASE j >= i
    <3>1. j - (i - 1) \in 1 .. Len(s) - i /\ i + (j - (i - 1)) = j + 1
      BY <2>2, <1>1
    <3>2. right[j - (i - 1)] = s[j + 1]
      BY <3>1, <1>3
    <3> QED BY <2>2, <3>2, <1>1, <1>4
  <2> QED BY <2>1, <2>2, <1>1
<1> QED BY <1>1, <1>4, <1>5, <1>6

-----------------------------------------------------------------------------
(* Lists of ranges and the tasks they stand for. *)

LEMMA RangeFields ==
  ASSUME NEW r \in Ranges
  PROVE  /\ r = [low |-> r.low, high |-> r.high]
         /\ r.low \in Tasks /\ r.high \in Tasks /\ r.low <= r.high
         /\ r.low \in Nat /\ r.high \in Nat
PROOF BY RangeSetAssumption DEF Ranges, Tasks

LEMMA ListElements ==
  ASSUME NEW list \in Seq(Ranges), NEW i \in DOMAIN list
  PROVE  /\ list[i] \in Ranges
         /\ list[i].low \in Nat /\ list[i].high \in Nat
         /\ list[i].low <= list[i].high
PROOF BY RangeFields, ElementOfSeq, LenProperties

LEMMA DenotesElements ==
  ASSUME NEW list \in Seq(Ranges), NEW t
  PROVE  t \in Denotes(list) <=> \E i \in DOMAIN list : t \in TasksOf(list[i])
PROOF BY DEF Denotes

LEMMA InsertRangeElements ==
  ASSUME NEW list \in Seq(Ranges), NEW at \in 1 .. Len(list) + 1, NEW r \in Ranges
  PROVE  /\ InsertAt(list, at, r) \in Seq(Ranges)
         /\ Len(InsertAt(list, at, r)) = Len(list) + 1
         /\ \A j \in 1 .. Len(list) + 1 :
              InsertAt(list, at, r)[j] =
                IF j < at THEN list[j] ELSE IF j = at THEN r ELSE list[j - 1]
PROOF BY InsertAtElements

(* Inserting a range adds its tasks. *)
LEMMA InsertDenotes ==
  ASSUME NEW list \in Seq(Ranges), NEW at \in 1 .. Len(list) + 1, NEW r \in Ranges
  PROVE  Denotes(InsertAt(list, at, r)) = Denotes(list) \cup TasksOf(r)
PROOF
<1> DEFINE new == InsertAt(list, at, r)
<1>1. /\ new \in Seq(Ranges)
      /\ Len(new) = Len(list) + 1
      /\ \A j \in 1 .. Len(list) + 1 :
           new[j] = IF j < at THEN list[j] ELSE IF j = at THEN r ELSE list[j - 1]
  BY InsertRangeElements
<1> HIDE DEF new
<1>2. /\ Len(list) \in Nat /\ DOMAIN list = 1 .. Len(list)
      /\ DOMAIN new = 1 .. Len(list) + 1
  BY <1>1, LenProperties
<1>3. ASSUME NEW t \in Denotes(new)
      PROVE  t \in Denotes(list) \cup TasksOf(r)
  <2>1. PICK j \in 1 .. Len(list) + 1 : t \in TasksOf(new[j])
    BY <1>1, <1>2, <1>3, DenotesElements
  <2>2. CASE j < at
    BY <2>1, <2>2, <1>1, <1>2, DenotesElements
  <2>3. CASE j = at
    BY <2>1, <2>3, <1>1, <1>2
  <2>4. CASE j > at
    <3>1. j - 1 \in DOMAIN list /\ new[j] = list[j - 1]
      BY <2>4, <1>1, <1>2
    <3> QED BY <2>1, <3>1, DenotesElements
  <2> QED BY <2>2, <2>3, <2>4, <1>2
<1>4. ASSUME NEW t \in Denotes(list)
      PROVE  t \in Denotes(new)
  <2>1. PICK j \in 1 .. Len(list) : t \in TasksOf(list[j])
    BY <1>2, <1>4, DenotesElements
  <2>2. CASE j < at
    <3>1. j \in DOMAIN new /\ new[j] = list[j]
      BY <2>2, <1>1, <1>2
    <3> QED BY <2>1, <3>1, <1>1, DenotesElements
  <2>3. CASE j >= at
    <3>1. j + 1 \in DOMAIN new /\ new[j + 1] = list[j]
      BY <2>3, <1>1, <1>2
    <3> QED BY <2>1, <3>1, <1>1, DenotesElements
  <2> QED BY <2>2, <2>3, <1>2
<1>5. ASSUME NEW t \in TasksOf(r)
      PROVE  t \in Denotes(new)
  <2>1. at \in DOMAIN new /\ new[at] = r
    BY <1>1, <1>2
  <2> QED BY <2>1, <1>1, <1>5, DenotesElements
<1> QED BY <1>3, <1>4, <1>5 DEF new

LEMMA JoinElements ==
  ASSUME NEW list \in Seq(Ranges), NEW i \in 1 .. Len(list) - 1,
         areJoinable(list[i], list[i + 1])
  PROVE  /\ JoinAt(list, i) \in Seq(Ranges)
         /\ Len(JoinAt(list, i)) = Len(list) - 1
         /\ \A j \in 1 .. Len(list) - 1 :
              JoinAt(list, i)[j] =
                IF j < i THEN list[j]
                ELSE IF j = i THEN joinRanges(list[i], list[i + 1])
                ELSE list[j + 1]
PROOF
<1> DEFINE r == joinRanges(list[i], list[i + 1])
           mid == [list EXCEPT ![i + 1] = r]
<1>1. Len(list) \in Nat /\ DOMAIN list = 1 .. Len(list)
  BY LenProperties
<1>2. r \in Ranges
  <2>1. /\ list[i] \in Ranges /\ list[i + 1] \in Ranges
        /\ list[i].low <= list[i].high /\ list[i].low \in Nat
        /\ list[i].high \in Nat /\ list[i + 1].low \in Nat
        /\ list[i + 1].low <= list[i + 1].high /\ list[i + 1].high \in Nat
    BY <1>1, ListElements
  <2>2. list[i].low \in Tasks /\ list[i + 1].high \in Tasks
    BY <2>1, RangeFields
  <2>3. list[i].low <= list[i + 1].high
    BY <2>1 DEF areJoinable
  <2> QED BY <2>2, <2>3 DEF Ranges, joinRanges
<1> HIDE DEF r
<1>3. /\ mid \in Seq(Ranges)
      /\ Len(mid) = Len(list)
      /\ \A j \in 1 .. Len(list) : mid[j] = IF j = i + 1 THEN r ELSE list[j]
  <2>1. i + 1 \in 1 .. Len(list)
    BY <1>1
  <2> QED BY <2>1, <1>2, ExceptSeq
<1>4. JoinAt(list, i) = RemoveAt(mid, i)
  BY DEF JoinAt, r
<1> HIDE DEF mid
<1>5. i \in 1 .. Len(mid)
  BY <1>1, <1>3
<1>6. /\ RemoveAt(mid, i) \in Seq(Ranges)
      /\ Len(RemoveAt(mid, i)) = Len(mid) - 1
      /\ \A j \in 1 .. Len(mid) - 1 :
           RemoveAt(mid, i)[j] = IF j < i THEN mid[j] ELSE mid[j + 1]
  BY <1>3, <1>5, RemoveAtElements
<1>7. ASSUME NEW j \in 1 .. Len(list) - 1
      PROVE  RemoveAt(mid, i)[j] =
               IF j < i THEN list[j] ELSE IF j = i THEN r ELSE list[j + 1]
  BY <1>1, <1>3, <1>6
<1> QED BY <1>3, <1>4, <1>6, <1>7 DEF r

(* Joining neighbours that touch loses no task and adds none. *)
LEMMA JoinDenotes ==
  ASSUME NEW list \in Seq(Ranges), NEW i \in 1 .. Len(list) - 1,
         areJoinable(list[i], list[i + 1])
  PROVE  Denotes(JoinAt(list, i)) = Denotes(list)
PROOF
<1> DEFINE new == JoinAt(list, i)
           r == joinRanges(list[i], list[i + 1])
<1>1. /\ new \in Seq(Ranges)
      /\ Len(new) = Len(list) - 1
      /\ \A j \in 1 .. Len(list) - 1 :
           new[j] = IF j < i THEN list[j] ELSE IF j = i THEN r ELSE list[j + 1]
  BY JoinElements
<1>2. /\ Len(list) \in Nat /\ DOMAIN list = 1 .. Len(list)
      /\ DOMAIN new = 1 .. Len(list) - 1
  BY <1>1, LenProperties
<1>3. TasksOf(r) = TasksOf(list[i]) \cup TasksOf(list[i + 1])
  <2>1. /\ list[i].low \in Nat /\ list[i].high \in Nat
        /\ list[i].low <= list[i].high
        /\ list[i + 1].low \in Nat /\ list[i + 1].high \in Nat
        /\ list[i + 1].low <= list[i + 1].high
    BY <1>2, ListElements
  <2>2. r.low = list[i].low /\ r.high = list[i + 1].high
    BY DEF joinRanges
  <2>3. list[i].high + 1 = list[i + 1].low
    BY DEF areJoinable
  <2> HIDE DEF r
  <2> QED BY <2>1, <2>2, <2>3 DEF TasksOf
<1> HIDE DEF new, r
<1>4. ASSUME NEW t \in Denotes(new)
      PROVE  t \in Denotes(list)
  <2>1. PICK j \in 1 .. Len(list) - 1 : t \in TasksOf(new[j])
    BY <1>1, <1>2, <1>4, DenotesElements
  <2>2. CASE j < i
    <3>1. j \in DOMAIN list /\ new[j] = list[j]
      BY <2>2, <1>1, <1>2
    <3> QED BY <2>1, <3>1, DenotesElements
  <2>3. CASE j = i
    <3>1. i \in DOMAIN list /\ i + 1 \in DOMAIN list /\ new[j] = r
      BY <2>3, <1>1, <1>2
    <3> QED BY <2>1, <3>1, <1>3, DenotesElements
  <2>4. CASE j > i
    <3>1. j + 1 \in DOMAIN list /\ new[j] = list[j + 1]
      BY <2>4, <1>1, <1>2
    <3> QED BY <2>1, <3>1, DenotesElements
  <2> QED BY <2>2, <2>3, <2>4, <1>2
<1>5. ASSUME NEW t \in Denotes(list)
      PROVE  t \in Denotes(new)
  <2>1. PICK j \in 1 .. Len(list) : t \in TasksOf(list[j])
    BY <1>2, <1>5, DenotesElements
  <2>2. CASE j < i
    <3>1. j \in DOMAIN new /\ new[j] = list[j]
      BY <2>2, <1>1, <1>2
    <3> QED BY <2>1, <3>1, <1>1, DenotesElements
  <2>3. CASE j \in {i, i + 1}
    <3>1. i \in DOMAIN new /\ new[i] = r
      BY <1>1, <1>2
    <3>2. t \in TasksOf(r)
      BY <2>1, <2>3, <1>3
    <3> QED BY <3>1, <3>2, <1>1, DenotesElements
  <2>4. CASE j > i + 1
    <3>1. j - 1 \in DOMAIN new /\ new[j - 1] = list[j]
      BY <2>4, <1>1, <1>2
    <3> QED BY <2>1, <3>1, <1>1, DenotesElements
  <2> QED BY <2>2, <2>3, <2>4, <1>2
<1> QED BY <1>4, <1>5 DEF new

(* The element in the middle, which both searches look at. *)
LEMMA MiddleInside ==
  ASSUME first \in Nat, last \in Nat, first <= last
  PROVE  /\ Middle \in first .. last
         /\ first < last => first < Middle
         /\ first < last - 1 => Middle < last
PROOF BY SMTT(30) DEF Middle

-----------------------------------------------------------------------------
(***************************************************************************)
(* The inductive invariant.  While a range is inserted, the list is still  *)
(* sorted, but ranges may touch at the place of the insertion.  What is    *)
(* outside of the part that is searched is known to be on the side it is   *)
(* on.  The ranges of the operand that were inserted are in the list.      *)
(***************************************************************************)
Precedes(x, y) == x.high < y.low

Loose(i, j) ==
  \/ pc = "joinBefore" /\ spot \in {i, j}
  \/ pc = "joinAfter" /\ i = spot

Ordered ==
  \A i, j \in DOMAIN rangeList :
    i < j => /\ Precedes(rangeList[i], rangeList[j])
             /\ Loose(i, j) \/ Apart(rangeList[i], rangeList[j])

SearchBounds ==
  pc = "search" =>
    /\ first < last \/ Len(rangeList) = 1
    /\ first = 1 \/ GoesAfter(first)
    /\ last = Len(rangeList) \/ GoesBefore(last)

LookBounds ==
  pc = "look" => \A i \in DOMAIN rangeList : Holds(i) => i \in first .. last

OperandCanonical == Canonical(operand)

InsertedIsThere ==
  \A k \in 1 .. Inserted : TasksOf(operand[k]) \subseteq Denotes(rangeList)

IInv ==
  /\ TypeOK
  /\ Ordered
  /\ SearchBounds
  /\ LookBounds
  /\ OperandCanonical
  /\ InsertedIsThere

(* What the proofs use of the list: lows and highs alternate and grow. *)
LEMMA ListFacts ==
  ASSUME TypeOK, Ordered
  PROVE  /\ Len(rangeList) \in Nat \ {0}
         /\ DOMAIN rangeList = 1 .. Len(rangeList)
         /\ \A i \in 1 .. Len(rangeList) :
              /\ rangeList[i] \in Ranges
              /\ rangeList[i].low \in Nat /\ rangeList[i].high \in Nat
              /\ rangeList[i].low <= rangeList[i].high
         /\ \A i, j \in 1 .. Len(rangeList) :
              i < j => rangeList[i].high < rangeList[j].low
PROOF
<1>1. rangeList \in Seq(Ranges) /\ rangeList # <<>>
  BY DEF TypeOK
<1>2. Len(rangeList) \in Nat \ {0} /\ DOMAIN rangeList = 1 .. Len(rangeList)
  BY <1>1, EmptySeq, LenProperties
<1>3. \A i \in 1 .. Len(rangeList) :
        /\ rangeList[i] \in Ranges
        /\ rangeList[i].low \in Nat /\ rangeList[i].high \in Nat
        /\ rangeList[i].low <= rangeList[i].high
  BY <1>1, <1>2, ListElements
<1> QED BY <1>2, <1>3 DEF Ordered, Precedes

(* The range that is inserted. *)
LEMMA OperandFacts ==
  ASSUME TypeOK, pc \in {"search", "joinBefore", "joinAfter", "error"}
  PROVE  /\ operand # <<>>
         /\ Len(operand) \in Nat /\ DOMAIN operand = 1 .. Len(operand)
         /\ next \in 1 .. Len(operand)
         /\ range \in Ranges
         /\ range.low \in Nat /\ range.high \in Nat /\ range.low <= range.high
PROOF
<1>1. operand \in Seq(Ranges) /\ operand # <<>> /\ next \in DOMAIN operand
  BY DEF TypeOK
<1>2. Len(operand) \in Nat /\ DOMAIN operand = 1 .. Len(operand)
  BY <1>1, LenProperties
<1> QED BY <1>1, <1>2, ListElements DEF range

(***************************************************************************)
(* The place that findClosestRange finds: what is before it is below the   *)
(* new range and what is behind it is above.                               *)
(***************************************************************************)
Fits(at) ==
  /\ at \in 1 .. Len(rangeList) + 1
  /\ \A j \in 1 .. Len(rangeList) :
       /\ j < at => rangeList[j].high < range.low
       /\ j >= at => range.high < rangeList[j].low

LEMMA InsertAfterFits ==
  ASSUME IInv, pc = "search", NEW i \in {first, last, Middle}, FoundAfter(i)
  PROVE  Fits(i + 1)
PROOF
<1>1. TypeOK /\ Ordered /\ SearchBounds
  BY DEF IInv
<1>2. /\ first \in 1 .. Len(rangeList) /\ last \in first .. Len(rangeList)
      /\ Len(rangeList) \in Nat
  BY <1>1, ListFacts DEF TypeOK
<1>3. i \in 1 .. Len(rangeList)
  BY <1>2, MiddleInside
<1>4. GoesAfter(i)
  BY DEF FoundAfter
<1>5. \/ i = first /\ first = last - 1 /\ GoesBefore(last)
      \/ i = Len(rangeList)
  <2>1. CASE Leaf /\ i = last /\ GoesAfter(last)
    <3>1. ~GoesBefore(last)
      BY <2>1, <1>1, <1>2, ListFacts, OperandFacts DEF GoesAfter, GoesBefore
    <3> QED BY <2>1, <3>1, <1>1 DEF SearchBounds
  <2> QED BY <2>1 DEF FoundAfter, Leaf
<1>6. \A j \in 1 .. Len(rangeList) : j < i + 1 => rangeList[j].high < range.low
  BY <1>1, <1>3, <1>4, ListFacts, OperandFacts DEF GoesAfter
<1>7. \A j \in 1 .. Len(rangeList) : j >= i + 1 => range.high < rangeList[j].low
  <2>1. CASE i = first /\ first = last - 1 /\ GoesBefore(last)
    BY <2>1, <1>1, <1>2, ListFacts, OperandFacts DEF GoesBefore
  <2>2. CASE i = Len(rangeList)
    BY <2>2, <1>2
  <2> QED BY <1>5, <2>1, <2>2
<1> QED BY <1>2, <1>3, <1>6, <1>7 DEF Fits

LEMMA InsertBeforeFits ==
  ASSUME IInv, pc = "search", NEW i \in {first, Middle}, FoundBefore(i)
  PROVE  Fits(i)
PROOF
<1>1. TypeOK /\ Ordered /\ SearchBounds
  BY DEF IInv
<1>2. /\ first \in 1 .. Len(rangeList) /\ last \in first .. Len(rangeList)
      /\ Len(rangeList) \in Nat
  BY <1>1, ListFacts DEF TypeOK
<1>3. i \in 1 .. Len(rangeList)
  BY <1>2, MiddleInside
<1>4. GoesBefore(i)
  BY DEF FoundBefore
<1>5. i = 1
  <2>1. CASE Leaf
    <3>1. ~GoesAfter(first)
      BY <2>1, <1>1, <1>2, ListFacts, OperandFacts DEF FoundBefore, GoesAfter, GoesBefore
    <3> QED BY <2>1, <3>1, <1>1 DEF SearchBounds, FoundBefore
  <2> QED BY <2>1 DEF FoundBefore
<1>6. \A j \in 1 .. Len(rangeList) : range.high < rangeList[j].low
  BY <1>1, <1>3, <1>4, <1>5, ListFacts, OperandFacts DEF GoesBefore
<1> QED BY <1>2, <1>3, <1>5, <1>6 DEF Fits

(* A place that fits shows that the range is disjoint from the list. *)
LEMMA FitsDisjoint ==
  ASSUME TypeOK, Ordered, pc = "search", NEW at, Fits(at)
  PROVE  TasksOf(range) \cap Denotes(rangeList) = {}
PROOF
<1> SUFFICES ASSUME NEW t \in TasksOf(range), t \in Denotes(rangeList)
             PROVE  FALSE
  OBVIOUS
<1>1. PICK j \in DOMAIN rangeList : t \in TasksOf(rangeList[j])
  BY DenotesElements DEF TypeOK
<1>2. at \in Nat /\ j \in 1 .. Len(rangeList) /\ Len(rangeList) \in Nat
  BY <1>1, ListFacts DEF Fits
<1>3. CASE j < at
  BY <1>1, <1>2, <1>3, ListFacts, OperandFacts DEF Fits, TasksOf
<1>4. CASE j >= at
  BY <1>1, <1>2, <1>4, ListFacts, OperandFacts DEF Fits, TasksOf
<1> QED BY <1>2, <1>3, <1>4

-----------------------------------------------------------------------------
LEMMA InitIInv == Init => IInv
PROOF
<1> SUFFICES ASSUME Init PROVE IInv
  OBVIOUS
<1>1. PICK r \in Ranges : rangeList = <<r>>
  BY DEF Init
<1>2. /\ rangeList \in Seq(Ranges) /\ rangeList # <<>>
      /\ Len(rangeList) = 1 /\ DOMAIN rangeList = {1}
  BY <1>1
<1>3. /\ operand = <<>> /\ next = 1 /\ val = 0
      /\ spot = 1 /\ pc = "idle" /\ answer = FALSE
  BY DEF Init, None
<1>4. TypeOK
  <2>1. operand \in Seq(Ranges) /\ val \in Tasks
    BY <1>3, RangeSetAssumption DEF Tasks
  <2> QED BY <2>1, <1>2, <1>3 DEF TypeOK
<1>5. Ordered
  BY <1>2 DEF Ordered
<1>6. SearchBounds /\ LookBounds
  BY <1>3 DEF SearchBounds, LookBounds
<1>7. OperandCanonical
  BY <1>3 DEF OperandCanonical, Canonical
<1>8. InsertedIsThere
  BY <1>3 DEF InsertedIsThere, Inserted
<1> QED BY <1>4, <1>5, <1>6, <1>7, <1>8 DEF IInv

(* What the lemmas below have in common. *)
LEMMA SearchFacts ==
  ASSUME IInv, pc \in {"search", "look"}
  PROVE  /\ first \in 1 .. Len(rangeList) /\ last \in first .. Len(rangeList)
         /\ first \in Nat /\ last \in Nat /\ first <= last
         /\ Middle \in first .. last
         /\ first < last => first < Middle
         /\ first < last - 1 => Middle < last
         /\ Len(rangeList) \in Nat \ {0}
         /\ DOMAIN rangeList = 1 .. Len(rangeList)
PROOF
<1>1. /\ Len(rangeList) \in Nat \ {0}
      /\ DOMAIN rangeList = 1 .. Len(rangeList)
  BY ListFacts DEF IInv
<1>2. first \in 1 .. Len(rangeList) /\ last \in first .. Len(rangeList)
  BY <1>1 DEF IInv, TypeOK
<1>3. first \in Nat /\ last \in Nat /\ first <= last
  BY <1>1, <1>2
<1> QED BY <1>1, <1>2, <1>3, MiddleInside

LEMMA AddIInv ==
  ASSUME IInv, NEW list \in Operands, Add(list)
  PROVE  IInv'
PROOF
<1>1. /\ Len(rangeList) \in Nat \ {0}
      /\ DOMAIN rangeList = 1 .. Len(rangeList)
  BY ListFacts DEF IInv
<1>2. list \in Seq(Ranges) /\ list # <<>> /\ Canonical(list)
  BY RangeSetAssumption
<1>3. /\ pc = "idle" /\ pc' = "search" /\ operand' = list
      /\ first' = 1 /\ last' = Len(rangeList) /\ spot' = 1
      /\ UNCHANGED <<rangeList, next, val, answer>>
  BY DEF Add, Search
<1>4. next = 1
  BY <1>3 DEF IInv, TypeOK
<1>5. 1 \in DOMAIN list
  BY <1>2, EmptySeq, LenProperties
<1>6. TypeOK'
  BY <1>1, <1>2, <1>3, <1>4, <1>5 DEF IInv, TypeOK
<1>7. Ordered'
  BY <1>3 DEF IInv, Ordered, Loose
<1>8. SearchBounds' /\ LookBounds'
  BY <1>1, <1>3 DEF SearchBounds, LookBounds
<1>9. OperandCanonical' /\ InsertedIsThere'
  BY <1>2, <1>3, <1>4 DEF OperandCanonical, InsertedIsThere, Inserted
<1> QED BY <1>6, <1>7, <1>8, <1>9 DEF IInv

LEMMA SearchRightIInv == IInv /\ SearchRight => IInv'
PROOF
<1> SUFFICES ASSUME IInv, SearchRight PROVE IInv'
  OBVIOUS
<1>1. /\ pc = "search" /\ ~Leaf /\ GoesAfter(Middle) /\ Middle < Len(rangeList)
      /\ first' = Middle
      /\ UNCHANGED <<rangeList, last, spot, pc, operand, next, val, answer>>
  BY DEF SearchRight, calling
<1>2. SearchBounds
  BY DEF IInv
<1>3. first < last - 1
  BY <1>1, <1>2, SearchFacts DEF SearchBounds, Leaf
<1>4. Middle \in Nat /\ Middle \in 1 .. Len(rangeList) /\ Middle < last
  BY <1>1, <1>3, SearchFacts
<1>5. TypeOK'
  BY <1>1, <1>4, SearchFacts DEF IInv, TypeOK
<1>6. Ordered'
  BY <1>1 DEF IInv, Ordered, Loose
<1>7. SearchBounds'
  BY <1>1, <1>2, <1>4 DEF SearchBounds, GoesAfter, GoesBefore, range
<1>8. LookBounds'
  BY <1>1 DEF LookBounds
<1>9. OperandCanonical' /\ InsertedIsThere'
  BY <1>1 DEF IInv, OperandCanonical, InsertedIsThere, Inserted
<1> QED BY <1>5, <1>6, <1>7, <1>8, <1>9 DEF IInv

LEMMA SearchLeftIInv == IInv /\ SearchLeft => IInv'
PROOF
<1> SUFFICES ASSUME IInv, SearchLeft PROVE IInv'
  OBVIOUS
<1>1. /\ pc = "search" /\ ~Leaf /\ GoesBefore(Middle) /\ Middle > 1
      /\ last' = Middle
      /\ UNCHANGED <<rangeList, first, spot, pc, operand, next, val, answer>>
  BY DEF SearchLeft, calling
<1>2. SearchBounds
  BY DEF IInv
<1>3. first < last - 1
  BY <1>1, <1>2, SearchFacts DEF SearchBounds, Leaf
<1>4. Middle \in first .. Len(rangeList) /\ first < Middle
  BY <1>1, <1>3, SearchFacts
<1>5. TypeOK'
  BY <1>1, <1>4, SearchFacts DEF IInv, TypeOK
<1>6. Ordered'
  BY <1>1 DEF IInv, Ordered, Loose
<1>7. SearchBounds'
  BY <1>1, <1>2, <1>4 DEF SearchBounds, GoesAfter, GoesBefore, range
<1>8. LookBounds'
  BY <1>1 DEF LookBounds
<1>9. OperandCanonical' /\ InsertedIsThere'
  BY <1>1 DEF IInv, OperandCanonical, InsertedIsThere, Inserted
<1> QED BY <1>5, <1>6, <1>7, <1>8, <1>9 DEF IInv

LEMMA InsertIInv ==
  ASSUME IInv, pc = "search", NEW at, Fits(at), InsertRange(at)
  PROVE  /\ IInv'
         /\ Denotes(rangeList)' = Denotes(rangeList) \cup TasksOf(range)
PROOF
<1>1. /\ rangeList' = InsertAt(rangeList, at, range) /\ spot' = at
      /\ pc' = "joinBefore"
      /\ UNCHANGED <<first, last, operand, next, val, answer>>
  BY DEF InsertRange, calling
<1>2. /\ rangeList \in Seq(Ranges) /\ range \in Ranges
      /\ at \in 1 .. Len(rangeList) + 1
      /\ Len(rangeList) \in Nat \ {0}
      /\ DOMAIN rangeList = 1 .. Len(rangeList)
  BY ListFacts, OperandFacts DEF IInv, TypeOK, Fits
<1>3. /\ rangeList' \in Seq(Ranges)
      /\ Len(rangeList') = Len(rangeList) + 1
      /\ \A j \in 1 .. Len(rangeList) + 1 :
           rangeList'[j] = IF j < at THEN rangeList[j]
                           ELSE IF j = at THEN range ELSE rangeList[j - 1]
  <2> DEFINE new == InsertAt(rangeList, at, range)
  <2>1. /\ new \in Seq(Ranges)
        /\ Len(new) = Len(rangeList) + 1
        /\ \A j \in 1 .. Len(rangeList) + 1 :
             new[j] = IF j < at THEN rangeList[j]
                      ELSE IF j = at THEN range ELSE rangeList[j - 1]
    <3>1. PICK list \in Seq(Ranges), r \in Ranges : list = rangeList /\ r = range
      BY <1>2
    <3>2. at \in 1 .. Len(list) + 1
      BY <1>2, <3>1
    <3>3. /\ InsertAt(list, at, r) \in Seq(Ranges)
          /\ Len(InsertAt(list, at, r)) = Len(list) + 1
          /\ \A j \in 1 .. Len(list) + 1 :
               InsertAt(list, at, r)[j] =
                 IF j < at THEN list[j] ELSE IF j = at THEN r ELSE list[j - 1]
      BY <3>2, InsertRangeElements
    <3> QED BY <3>1, <3>3
  <2>2. rangeList' = new
    BY <1>1
  <2> HIDE DEF new
  <2> QED BY <2>1, <2>2
<1>4. DOMAIN rangeList' = 1 .. Len(rangeList) + 1 /\ rangeList' # <<>>
  BY <1>2, <1>3, LenProperties
<1>5. Denotes(rangeList)' = Denotes(rangeList) \cup TasksOf(range)
  BY <1>1, <1>2, InsertDenotes
<1>6. TypeOK'
  BY <1>1, <1>2, <1>3, <1>4 DEF IInv, TypeOK
<1>7. Ordered'
  <2> SUFFICES ASSUME NEW i \in 1 .. Len(rangeList) + 1,
                      NEW j \in 1 .. Len(rangeList) + 1, i < j
               PROVE  /\ Precedes(rangeList'[i], rangeList'[j])
                      /\ at \in {i, j} \/ Apart(rangeList'[i], rangeList'[j])
    BY <1>1, <1>4 DEF Ordered, Loose
  <2>1. CASE i = at
    <3>1. j - 1 \in 1 .. Len(rangeList) /\ j - 1 >= at
      BY <1>2, <2>1
    <3>2. rangeList'[i] = range /\ rangeList'[j] = rangeList[j - 1]
      BY <1>2, <1>3, <2>1
    <3> QED BY <2>1, <3>1, <3>2 DEF Fits, Precedes
  <2>2. CASE j = at
    <3>1. i \in 1 .. Len(rangeList) /\ i < at
      BY <1>2, <2>2
    <3>2. rangeList'[i] = rangeList[i] /\ rangeList'[j] = range
      BY <1>2, <1>3, <2>2
    <3> QED BY <2>2, <3>1, <3>2 DEF Fits, Precedes
  <2>3. CASE at \notin {i, j}
    <3>1. PICK m, n \in DOMAIN rangeList :
            m < n /\ rangeList'[i] = rangeList[m] /\ rangeList'[j] = rangeList[n]
      <4>1. CASE j < at
        BY <1>2, <1>3, <4>1
      <4>2. CASE i < at /\ j > at
        <5>1. /\ i \in DOMAIN rangeList /\ j - 1 \in DOMAIN rangeList /\ i < j - 1
              /\ rangeList'[i] = rangeList[i] /\ rangeList'[j] = rangeList[j - 1]
          BY <1>2, <1>3, <4>2
        <5> QED BY <5>1
      <4>3. CASE i > at
        <5>1. /\ i - 1 \in DOMAIN rangeList /\ j - 1 \in DOMAIN rangeList
              /\ i - 1 < j - 1
              /\ rangeList'[i] = rangeList[i - 1] /\ rangeList'[j] = rangeList[j - 1]
          BY <1>2, <1>3, <4>3
        <5> QED BY <5>1
      <4> QED BY <2>3, <4>1, <4>2, <4>3, <1>2
    <3>2. Precedes(rangeList[m], rangeList[n]) /\ Apart(rangeList[m], rangeList[n])
      BY <3>1 DEF IInv, Ordered, Loose
    <3> QED BY <3>1, <3>2
  <2> QED BY <2>1, <2>2, <2>3
<1>8. SearchBounds' /\ LookBounds'
  BY <1>1 DEF SearchBounds, LookBounds
<1>9. OperandCanonical'
  BY <1>1 DEF IInv, OperandCanonical
<1>10. InsertedIsThere'
  <2>1. next \in Nat
    BY DEF IInv, TypeOK
  <2>2. Inserted' = next /\ Inserted = next - 1
    BY <1>1 DEF Inserted
  <2>3. ASSUME NEW k \in 1 .. next
        PROVE  TasksOf(operand[k]) \subseteq Denotes(rangeList)'
    <3>1. CASE k = next
      BY <3>1, <1>5 DEF range
    <3>2. CASE k < next
      BY <3>2, <2>1, <2>2, <1>5 DEF IInv, InsertedIsThere
    <3> QED BY <3>1, <3>2, <2>1
  <2> QED BY <2>2, <2>3, <1>1 DEF InsertedIsThere, TasksOf
<1> QED BY <1>5, <1>6, <1>7, <1>8, <1>9, <1>10 DEF IInv

LEMMA FailIInv == IInv /\ Fail => IInv'
PROOF
<1> SUFFICES ASSUME IInv, Fail PROVE IInv'
  OBVIOUS
<1>1. /\ pc = "search" /\ pc' = "error"
      /\ UNCHANGED <<rangeList, first, last, spot, operand, next, val, answer>>
  BY DEF Fail, searching, calling
<1>2. TypeOK'
  BY <1>1 DEF IInv, TypeOK
<1>3. Ordered'
  BY <1>1 DEF IInv, Ordered, Loose
<1>4. SearchBounds' /\ LookBounds'
  BY <1>1 DEF SearchBounds, LookBounds
<1>5. OperandCanonical' /\ InsertedIsThere'
  BY <1>1 DEF IInv, OperandCanonical, InsertedIsThere, Inserted
<1> QED BY <1>2, <1>3, <1>4, <1>5 DEF IInv

(* The two blocks that join neighbours share their effect on the list. *)
LEMMA JoinFacts ==
  ASSUME IInv, NEW i \in 1 .. Len(rangeList) - 1,
         areJoinable(rangeList[i], rangeList[i + 1]),
         rangeList' = JoinAt(rangeList, i)
  PROVE  /\ rangeList' \in Seq(Ranges) /\ rangeList' # <<>>
         /\ Len(rangeList') = Len(rangeList) - 1
         /\ DOMAIN rangeList' = 1 .. Len(rangeList) - 1
         /\ \A j \in 1 .. Len(rangeList) - 1 :
              /\ rangeList'[j].low =
                   IF j <= i THEN rangeList[j].low ELSE rangeList[j + 1].low
              /\ rangeList'[j].high =
                   IF j < i THEN rangeList[j].high ELSE rangeList[j + 1].high
         /\ Denotes(rangeList)' = Denotes(rangeList)
PROOF
<1>1. PICK list \in Seq(Ranges) : list = rangeList
  BY DEF IInv, TypeOK
<1>2. i \in 1 .. Len(list) - 1 /\ areJoinable(list[i], list[i + 1])
  BY <1>1
<1>3. /\ JoinAt(list, i) \in Seq(Ranges)
      /\ Len(JoinAt(list, i)) = Len(list) - 1
      /\ \A j \in 1 .. Len(list) - 1 :
           JoinAt(list, i)[j] =
             IF j < i THEN list[j]
             ELSE IF j = i THEN joinRanges(list[i], list[i + 1])
             ELSE list[j + 1]
  BY <1>2, JoinElements
<1>4. Denotes(JoinAt(list, i)) = Denotes(list)
  BY <1>2, JoinDenotes
<1>5. rangeList' = JoinAt(list, i)
  BY <1>1
<1>6. Len(list) \in Nat \ {0}
  BY <1>1, ListFacts DEF IInv
<1>7. /\ DOMAIN rangeList' = 1 .. Len(list) - 1 /\ rangeList' # <<>>
  <2>1. Len(JoinAt(list, i)) \in Nat \ {0}
    BY <1>2, <1>3, <1>6
  <2> QED BY <2>1, <1>3, <1>5, LenProperties, EmptySeq
<1>8. ASSUME NEW j \in 1 .. Len(list) - 1
      PROVE  /\ rangeList'[j].low = IF j <= i THEN list[j].low ELSE list[j + 1].low
             /\ rangeList'[j].high = IF j < i THEN list[j].high ELSE list[j + 1].high
  BY <1>3, <1>5, <1>6 DEF joinRanges
<1> QED BY <1>1, <1>3, <1>4, <1>5, <1>7, <1>8

LEMMA JoinBeforeIInv ==
  ASSUME IInv, JoinBefore
  PROVE  IInv' /\ Denotes(rangeList)' = Denotes(rangeList)
PROOF
<1>1. /\ pc = "joinBefore" /\ pc' = "joinAfter"
      /\ UNCHANGED <<first, last, operand, next, val, answer>>
  BY DEF JoinBefore, calling
<1>2. /\ Len(rangeList) \in Nat \ {0}
      /\ DOMAIN rangeList = 1 .. Len(rangeList)
      /\ spot \in 1 .. Len(rangeList)
  BY ListFacts DEF IInv, TypeOK
<1>3. \A i \in 1 .. Len(rangeList) :
        /\ rangeList[i].low \in Nat /\ rangeList[i].high \in Nat
        /\ rangeList[i].low <= rangeList[i].high
  BY ListFacts DEF IInv
<1>4. \A i, j \in 1 .. Len(rangeList) :
        i < j => /\ rangeList[i].high < rangeList[j].low
                 /\ spot \in {i, j} \/ rangeList[i].high + 1 < rangeList[j].low
  BY <1>1, <1>2 DEF IInv, Ordered, Loose, Precedes, Apart
<1>5. /\ OperandCanonical' /\ SearchBounds' /\ LookBounds'
  BY <1>1 DEF IInv, OperandCanonical, SearchBounds, LookBounds
<1>6. CASE spot > 1 /\ areJoinable(rangeList[spot - 1], rangeList[spot])
  <2> DEFINE i == spot - 1
  <2>1. /\ i \in 1 .. Len(rangeList) - 1 /\ spot = i + 1
        /\ rangeList' = JoinAt(rangeList, i) /\ spot' = i
    BY <1>2, <1>6 DEF JoinBefore
  <2>2. areJoinable(rangeList[i], rangeList[i + 1])
    BY <1>6, <2>1
  <2> HIDE DEF i
  <2>3. /\ rangeList' \in Seq(Ranges) /\ rangeList' # <<>>
        /\ Len(rangeList') = Len(rangeList) - 1
        /\ DOMAIN rangeList' = 1 .. Len(rangeList) - 1
        /\ \A j \in 1 .. Len(rangeList) - 1 :
             /\ rangeList'[j].low =
                  IF j <= i THEN rangeList[j].low ELSE rangeList[j + 1].low
             /\ rangeList'[j].high =
                  IF j < i THEN rangeList[j].high ELSE rangeList[j + 1].high
        /\ Denotes(rangeList)' = Denotes(rangeList)
    BY <2>1, <2>2, JoinFacts
  <2>4. TypeOK'
    BY <1>1, <2>1, <2>3 DEF IInv, TypeOK
  <2>5. Ordered'
    <3> SUFFICES ASSUME NEW m \in 1 .. Len(rangeList) - 1,
                        NEW n \in 1 .. Len(rangeList) - 1, m < n
                 PROVE  /\ rangeList'[m].high < rangeList'[n].low
                        /\ m = i \/ rangeList'[m].high + 1 < rangeList'[n].low
      BY <1>1, <2>1, <2>3 DEF Ordered, Loose, Precedes, Apart
    <3>1. CASE n <= i
      <4>1. /\ m \in 1 .. Len(rangeList) /\ n \in 1 .. Len(rangeList)
            /\ m < i /\ spot \notin {m, n}
        BY <3>1, <1>2, <2>1
      <4>2. /\ rangeList'[m].high = rangeList[m].high
            /\ rangeList'[n].low = rangeList[n].low
        BY <3>1, <4>1, <2>3
      <4> QED BY <4>1, <4>2, <1>4
    <3>2. CASE n > i
      BY <3>2, <1>2, <1>4, <2>1, <2>3
    <3> QED BY <3>1, <3>2, <2>1
  <2>6. InsertedIsThere'
    BY <1>1, <2>3 DEF IInv, InsertedIsThere, Inserted
  <2> QED BY <1>5, <2>3, <2>4, <2>5, <2>6 DEF IInv
<1>7. CASE ~(spot > 1 /\ areJoinable(rangeList[spot - 1], rangeList[spot]))
  <2>1. UNCHANGED <<rangeList, spot>>
    BY <1>7 DEF JoinBefore
  <2>2. TypeOK'
    BY <1>1, <2>1 DEF IInv, TypeOK
  <2>3. Ordered'
    <3> SUFFICES ASSUME NEW m \in 1 .. Len(rangeList),
                        NEW n \in 1 .. Len(rangeList), m < n, m # spot
                 PROVE  rangeList[m].high + 1 < rangeList[n].low
      BY <1>1, <1>2, <1>4, <2>1 DEF Ordered, Loose, Precedes, Apart
    <3>1. CASE n = spot
      <4>1. /\ spot - 1 \in 1 .. Len(rangeList)
            /\ rangeList[spot - 1].high + 1 # rangeList[spot].low
        BY <3>1, <1>2, <1>7 DEF areJoinable
      <4>2. rangeList[spot - 1].high + 1 < rangeList[spot].low
        BY <4>1, <1>2, <1>3, <1>4
      <4>3. CASE m < spot - 1
        <5>1. rangeList[m].high < rangeList[spot - 1].low
          BY <4>1, <4>3, <1>4
        <5> QED BY <5>1, <4>1, <4>2, <3>1, <1>2, <1>3
      <4>4. CASE m = spot - 1
        BY <4>2, <4>4, <3>1
      <4> QED BY <4>3, <4>4, <3>1, <1>2
    <3>2. CASE n # spot
      BY <3>2, <1>4
    <3> QED BY <3>1, <3>2
  <2>4. InsertedIsThere'
    BY <1>1, <2>1 DEF IInv, InsertedIsThere, Inserted
  <2> QED BY <1>5, <2>1, <2>2, <2>3, <2>4 DEF IInv
<1> QED BY <1>6, <1>7

(* After the second join the list is canonical again. *)
LEMMA JoinAfterList ==
  ASSUME IInv, JoinAfter
  PROVE  /\ rangeList' \in Seq(Ranges) /\ rangeList' # <<>>
         /\ Canonical(rangeList')
         /\ Denotes(rangeList)' = Denotes(rangeList)
PROOF
<1>1. pc = "joinAfter"
  BY DEF JoinAfter
<1>2. /\ Len(rangeList) \in Nat \ {0}
      /\ DOMAIN rangeList = 1 .. Len(rangeList)
      /\ spot \in 1 .. Len(rangeList)
      /\ rangeList \in Seq(Ranges) /\ rangeList # <<>>
  BY ListFacts DEF IInv, TypeOK
<1>3. \A i \in 1 .. Len(rangeList) :
        /\ rangeList[i].low \in Nat /\ rangeList[i].high \in Nat
        /\ rangeList[i].low <= rangeList[i].high
  BY ListFacts DEF IInv
<1>4. \A i, j \in 1 .. Len(rangeList) :
        i < j => /\ rangeList[i].high < rangeList[j].low
                 /\ spot = i \/ rangeList[i].high + 1 < rangeList[j].low
  BY <1>1, <1>2 DEF IInv, Ordered, Loose, Precedes, Apart
<1>5. CASE spot < Len(rangeList) /\ areJoinable(rangeList[spot], rangeList[spot + 1])
  <2>1. spot \in 1 .. Len(rangeList) - 1 /\ rangeList' = JoinAt(rangeList, spot)
    BY <1>2, <1>5 DEF JoinAfter
  <2>2. /\ rangeList' \in Seq(Ranges) /\ rangeList' # <<>>
        /\ Len(rangeList') = Len(rangeList) - 1
        /\ DOMAIN rangeList' = 1 .. Len(rangeList) - 1
        /\ \A j \in 1 .. Len(rangeList) - 1 :
             /\ rangeList'[j].low =
                  IF j <= spot THEN rangeList[j].low ELSE rangeList[j + 1].low
             /\ rangeList'[j].high =
                  IF j < spot THEN rangeList[j].high ELSE rangeList[j + 1].high
        /\ Denotes(rangeList)' = Denotes(rangeList)
    BY <1>5, <2>1, JoinFacts
  <2>3. Canonical(rangeList')
    <3> SUFFICES ASSUME NEW m \in 1 .. Len(rangeList) - 1,
                        NEW n \in 1 .. Len(rangeList) - 1, m < n
                 PROVE  rangeList'[m].high + 1 < rangeList'[n].low
      BY <2>2 DEF Canonical, Apart
    <3>1. CASE n <= spot
      BY <3>1, <1>2, <1>4, <2>1, <2>2
    <3>2. CASE n > spot
      BY <3>2, <1>2, <1>4, <2>1, <2>2
    <3> QED BY <3>1, <3>2, <2>1
  <2> QED BY <2>2, <2>3
<1>6. CASE ~(spot < Len(rangeList) /\ areJoinable(rangeList[spot], rangeList[spot + 1]))
  <2>1. UNCHANGED rangeList
    BY <1>6 DEF JoinAfter
  <2>2. Canonical(rangeList)
    <3> SUFFICES ASSUME NEW m \in 1 .. Len(rangeList),
                        NEW n \in 1 .. Len(rangeList), m < n
                 PROVE  rangeList[m].high + 1 < rangeList[n].low
      BY <1>2 DEF Canonical, Apart
    <3>1. CASE m = spot
      <4>1. /\ spot + 1 \in 1 .. Len(rangeList)
            /\ rangeList[spot].high + 1 # rangeList[spot + 1].low
        BY <3>1, <1>2, <1>6 DEF areJoinable
      <4>2. rangeList[spot].high + 1 < rangeList[spot + 1].low
        BY <4>1, <1>2, <1>3, <1>4
      <4>3. CASE n > spot + 1
        <5>1. rangeList[spot + 1].high < rangeList[n].low
          BY <4>1, <4>3, <1>4
        <5> QED BY <5>1, <4>1, <4>2, <3>1, <1>2, <1>3
      <4>4. CASE n = spot + 1
        BY <4>2, <4>4, <3>1
      <4> QED BY <4>3, <4>4, <3>1, <1>2
    <3>2. CASE m # spot
      BY <3>2, <1>4
    <3> QED BY <3>1, <3>2
  <2> QED BY <1>2, <2>1, <2>2
<1> QED BY <1>5, <1>6

(* What the last range of the operand, or the end of isPresent, leaves. *)
LEMMA IdleIInv ==
  ASSUME IInv, Idle, rangeList' \in Seq(Ranges), rangeList' # <<>>,
         Canonical(rangeList'), answer' \in BOOLEAN
  PROVE  IInv'
PROOF
<1>1. /\ pc' = "idle" /\ operand' = <<>> /\ next' = 1 /\ val' = 0
      /\ first' = 1 /\ last' = 1 /\ spot' = 1
  BY DEF Idle, None
<1>2. /\ Len(rangeList') \in Nat \ {0} /\ DOMAIN rangeList' = 1 .. Len(rangeList')
  BY EmptySeq, LenProperties
<1>3. operand' \in Seq(Ranges) /\ val' \in Tasks
  BY <1>1, RangeSetAssumption DEF Tasks
<1>4. TypeOK'
  BY <1>1, <1>2, <1>3 DEF TypeOK
<1>5. Ordered'
  <2>1. \A i, j \in DOMAIN rangeList' :
          i < j => Apart(rangeList'[i], rangeList'[j])
    BY DEF Canonical
  <2>2. ASSUME NEW i \in DOMAIN rangeList', NEW j \in DOMAIN rangeList', i < j
        PROVE  Precedes(rangeList'[i], rangeList'[j])
    <3>1. rangeList'[i].high \in Nat /\ rangeList'[j].low \in Nat
      BY <2>2, ListElements
    <3> QED BY <2>1, <2>2, <3>1 DEF Apart, Precedes
  <2> QED BY <2>1, <2>2 DEF Ordered
<1>6. SearchBounds' /\ LookBounds' /\ OperandCanonical' /\ InsertedIsThere'
  BY <1>1 DEF SearchBounds, LookBounds, OperandCanonical, Canonical,
              InsertedIsThere, Inserted
<1> QED BY <1>4, <1>5, <1>6 DEF IInv

(* Between calls the list is canonical. *)
LEMMA RestingCanonical ==
  ASSUME IInv, pc \in {"idle", "look", "search", "error"}
  PROVE  Canonical(rangeList)
PROOF BY DEF IInv, Ordered, Loose, Canonical

LEMMA JoinAfterIInv ==
  ASSUME IInv, JoinAfter
  PROVE  IInv'
PROOF
<1>1. /\ rangeList' \in Seq(Ranges) /\ rangeList' # <<>>
      /\ Canonical(rangeList')
      /\ Denotes(rangeList)' = Denotes(rangeList)
  BY JoinAfterList
<1>2. pc = "joinAfter" /\ answer' = answer /\ answer \in BOOLEAN
  BY DEF JoinAfter, IInv, TypeOK
<1>3. /\ Len(rangeList') \in Nat \ {0} /\ DOMAIN rangeList' = 1 .. Len(rangeList')
  BY <1>1, EmptySeq, LenProperties
<1>4. CASE next < Len(operand)
  <2>1. /\ next' = next + 1 /\ operand' = operand /\ val' = val
        /\ pc' = "search"
        /\ first' = 1 /\ last' = Len(rangeList') /\ spot' = 1
    BY <1>4 DEF JoinAfter, Search
  <2>2. next + 1 \in DOMAIN operand /\ operand # <<>> /\ next \in Nat
    BY <1>2, <1>4, OperandFacts DEF IInv
  <2>3. TypeOK'
    BY <1>1, <1>2, <1>3, <2>1, <2>2 DEF IInv, TypeOK
  <2>4. Ordered'
    <3>1. \A i, j \in DOMAIN rangeList' :
            i < j => Apart(rangeList'[i], rangeList'[j])
      BY <1>1 DEF Canonical
    <3>2. ASSUME NEW i \in DOMAIN rangeList', NEW j \in DOMAIN rangeList', i < j
          PROVE  Precedes(rangeList'[i], rangeList'[j])
      <4>1. rangeList'[i].high \in Nat /\ rangeList'[j].low \in Nat
        BY <1>1, <3>2, ListElements
      <4> QED BY <3>1, <3>2, <4>1 DEF Apart, Precedes
    <3> QED BY <3>1, <3>2 DEF Ordered
  <2>5. SearchBounds'
    BY <1>3, <2>1 DEF SearchBounds
  <2>6. LookBounds' /\ OperandCanonical'
    BY <2>1 DEF LookBounds, IInv, OperandCanonical
  <2>7. InsertedIsThere'
    <3>1. Inserted' = next /\ Inserted = next
      BY <1>2, <2>1, <2>2 DEF Inserted
    <3> QED BY <1>1, <2>1, <3>1 DEF IInv, InsertedIsThere
  <2> QED BY <2>3, <2>4, <2>5, <2>6, <2>7 DEF IInv
<1>5. CASE ~(next < Len(operand))
  <2>1. Idle
    BY <1>5 DEF JoinAfter
  <2> QED BY <2>1, <1>1, <1>2, IdleIInv
<1> QED BY <1>4, <1>5

LEMMA AskIInv ==
  ASSUME IInv, NEW v \in Tasks, Ask(v)
  PROVE  IInv'
PROOF
<1>1. /\ Len(rangeList) \in Nat \ {0}
      /\ DOMAIN rangeList = 1 .. Len(rangeList)
  BY ListFacts DEF IInv
<1>2. /\ pc = "idle" /\ pc' = "look" /\ val' = v
      /\ first' = 1 /\ last' = Len(rangeList) /\ spot' = 1
      /\ UNCHANGED <<rangeList, operand, next, answer>>
  BY DEF Ask
<1>3. TypeOK'
  BY <1>1, <1>2 DEF IInv, TypeOK
<1>4. Ordered'
  BY <1>2 DEF IInv, Ordered, Loose
<1>5. SearchBounds' /\ LookBounds'
  BY <1>1, <1>2 DEF SearchBounds, LookBounds
<1>6. OperandCanonical' /\ InsertedIsThere'
  BY <1>2 DEF IInv, OperandCanonical, InsertedIsThere, Inserted
<1> QED BY <1>3, <1>4, <1>5, <1>6 DEF IInv

LEMMA LookLeftIInv == IInv /\ LookLeft => IInv'
PROOF
<1> SUFFICES ASSUME IInv, LookLeft PROVE IInv'
  OBVIOUS
<1>1. /\ pc = "look" /\ Narrow /\ LeftHalf
      /\ last' = Middle - 1
      /\ UNCHANGED <<rangeList, first, spot, pc, operand, next, val, answer>>
  BY DEF LookLeft, calling
<1>2. first # last
  BY <1>1 DEF Narrow
<1>3. Middle - 1 \in first .. Len(rangeList) /\ Middle \in 1 .. Len(rangeList)
  BY <1>1, <1>2, SearchFacts
<1>4. TypeOK'
  BY <1>1, <1>3, SearchFacts DEF IInv, TypeOK
<1>5. Ordered'
  BY <1>1 DEF IInv, Ordered, Loose
<1>6. LookBounds'
  <2>1. ASSUME NEW i \in 1 .. Len(rangeList), Holds(i)
        PROVE  i \in first .. Middle - 1
    <3>1. i \in first .. last
      BY <1>1, <2>1, SearchFacts DEF IInv, LookBounds
    <3>2. val \in Nat /\ val < rangeList[Middle].low /\ rangeList[i].low <= val
      BY <1>1, <2>1, RangeSetAssumption DEF LeftHalf, Holds, IInv, TypeOK, Tasks
    <3>3. i < Middle
      BY <1>3, <2>1, <3>2, ListFacts DEF IInv
    <3> QED BY <1>3, <3>1, <3>3
  <2> QED BY <1>1, <2>1, SearchFacts DEF LookBounds, Holds
<1>7. SearchBounds' /\ OperandCanonical' /\ InsertedIsThere'
  BY <1>1 DEF IInv, SearchBounds, OperandCanonical, InsertedIsThere, Inserted
<1> QED BY <1>4, <1>5, <1>6, <1>7 DEF IInv

LEMMA LookRightIInv == IInv /\ LookRight => IInv'
PROOF
<1> SUFFICES ASSUME IInv, LookRight PROVE IInv'
  OBVIOUS
<1>1. /\ pc = "look" /\ Narrow /\ ~LeftHalf
      /\ first' = Middle + 1
      /\ UNCHANGED <<rangeList, last, spot, pc, operand, next, val, answer>>
  BY DEF LookRight, calling
<1>2. Middle \in 1 .. Len(rangeList) /\ last \in 1 .. Len(rangeList)
  BY <1>1, SearchFacts
<1>3. val \in Nat
  BY RangeSetAssumption DEF IInv, TypeOK, Tasks
<1>4. rangeList[Middle].high < val
  BY <1>1, <1>2, <1>3, ListFacts DEF IInv, Narrow, Holds, LeftHalf
<1>5. val <= rangeList[last].high
  BY <1>1, <1>2, <1>3, ListFacts DEF IInv, Narrow, Outside
<1>6. Middle < last
  <2>1. Middle # last
    BY <1>2, <1>3, <1>4, <1>5, ListFacts DEF IInv
  <2> QED BY <2>1, <1>1, SearchFacts
<1>7. TypeOK'
  <2>1. /\ Middle + 1 \in DOMAIN rangeList
        /\ last \in Middle + 1 .. Len(rangeList)
    BY <1>1, <1>6, SearchFacts
  <2> QED BY <1>1, <2>1 DEF IInv, TypeOK
<1>8. Ordered'
  BY <1>1 DEF IInv, Ordered, Loose
<1>9. LookBounds'
  <2>1. ASSUME NEW i \in 1 .. Len(rangeList), Holds(i)
        PROVE  i \in Middle + 1 .. last
    <3>1. i \in first .. last
      BY <1>1, <2>1, SearchFacts DEF IInv, LookBounds
    <3>2. val <= rangeList[i].high
      BY <2>1 DEF Holds
    <3>3. i > Middle
      BY <1>2, <1>3, <1>4, <2>1, <3>2, ListFacts DEF IInv
    <3> QED BY <1>2, <3>1, <3>3
  <2> QED BY <1>1, <2>1, SearchFacts DEF LookBounds, Holds
<1>10. SearchBounds' /\ OperandCanonical' /\ InsertedIsThere'
  BY <1>1 DEF IInv, SearchBounds, OperandCanonical, InsertedIsThere, Inserted
<1> QED BY <1>7, <1>8, <1>9, <1>10 DEF IInv

LEMMA ReturnIInv ==
  ASSUME IInv, pc = "look", NEW found \in BOOLEAN, Return(found)
  PROVE  IInv'
PROOF
<1>1. rangeList' = rangeList /\ answer' = found /\ Idle
  BY DEF Return
<1>2. rangeList' \in Seq(Ranges) /\ rangeList' # <<>>
  BY <1>1 DEF IInv, TypeOK
<1>3. Canonical(rangeList')
  BY <1>1, RestingCanonical
<1> QED BY <1>1, <1>2, <1>3, IdleIInv

LEMMA StutterIInv == IInv /\ UNCHANGED vars => IInv'
PROOF
<1> SUFFICES ASSUME IInv, UNCHANGED vars PROVE IInv'
  OBVIOUS
<1>1. TypeOK' /\ Ordered'
  BY DEF IInv, TypeOK, Ordered, Loose, vars
<1>2. SearchBounds' /\ LookBounds'
  BY DEF IInv, SearchBounds, LookBounds, GoesAfter, GoesBefore, Holds, range, vars
<1>3. OperandCanonical' /\ InsertedIsThere'
  BY DEF IInv, OperandCanonical, InsertedIsThere, Inserted, vars
<1> QED BY <1>1, <1>2, <1>3 DEF IInv

LEMMA NextIInv == IInv /\ [Next]_vars => IInv'
PROOF
<1> SUFFICES ASSUME IInv, [Next]_vars PROVE IInv'
  OBVIOUS
<1>1. CASE \E list \in Operands : Add(list)
  BY <1>1, AddIInv
<1>2. CASE \E v \in Tasks : Ask(v)
  BY <1>2, AskIInv
<1>3. CASE SearchRight
  BY <1>3, SearchRightIInv
<1>4. CASE SearchLeft
  BY <1>4, SearchLeftIInv
<1>5. CASE InsertAfter
  BY <1>5, InsertAfterFits, InsertIInv DEF InsertAfter
<1>6. CASE InsertBefore
  BY <1>6, InsertBeforeFits, InsertIInv DEF InsertBefore
<1>7. CASE Fail
  BY <1>7, FailIInv
<1>8. CASE JoinBefore
  BY <1>8, JoinBeforeIInv
<1>9. CASE JoinAfter
  BY <1>9, JoinAfterIInv
<1>10. CASE LookFound
  BY <1>10, ReturnIInv DEF LookFound
<1>11. CASE LookMissing
  BY <1>11, ReturnIInv DEF LookMissing
<1>12. CASE LookLeft
  BY <1>12, LookLeftIInv
<1>13. CASE LookRight
  BY <1>13, LookRightIInv
<1>14. CASE UNCHANGED vars
  BY <1>14, StutterIInv
<1> QED BY <1>1, <1>2, <1>3, <1>4, <1>5, <1>6, <1>7, <1>8, <1>9, <1>10, <1>11,
           <1>12, <1>13, <1>14 DEF Next, Step

(* The invariant holds of every state that can be reached. *)
THEOREM Invariance == Spec => []IInv
PROOF BY InitIInv, NextIInv, PTL DEF Spec

(* The types, and the positions the code uses as indexes are in the vector. *)
THEOREM TypeCorrect == Spec => []TypeOK
PROOF BY Invariance, PTL DEF IInv

(***************************************************************************)
(* Between calls of operator+= and isPresent the vector is sorted and no   *)
(* two of its ranges overlap or touch.                                     *)
(***************************************************************************)
THEOREM StaysCanonical == Spec => []CanonicalBetweenCalls
<1>1. IInv => CanonicalBetweenCalls
  BY RestingCanonical DEF CanonicalBetweenCalls
<1> QED BY <1>1, Invariance, PTL

-----------------------------------------------------------------------------
(* The tasks in some of the ranges, and their number: those of the range with
   the largest position are in none of the others. *)
TasksIn(s) == UNION {TasksOf(rangeList[i]) : i \in s}

LEMMA TasksCounted ==
  ASSUME rangeList \in Seq(Ranges), Canonical(rangeList),
         NEW s \in SUBSET DOMAIN rangeList
  PROVE  /\ IsFiniteSet(TasksIn(s))
         /\ s # {} => /\ Max(s) \in s
                      /\ Cardinality(TasksIn(s)) =
                           Cardinality(TasksIn(s \ {Max(s)}))
                             + (rangeList[Max(s)].high - rangeList[Max(s)].low + 1)
<1>1. Len(rangeList) \in Nat /\ DOMAIN rangeList = 1 .. Len(rangeList)
  BY LenProperties
<1>2. \A i \in DOMAIN rangeList : /\ rangeList[i].low \in Int /\ rangeList[i].high \in Int
                                  /\ rangeList[i].low <= rangeList[i].high
                                  /\ rangeList[i].low \in Tasks /\ rangeList[i].high \in Tasks
  BY ElementOfSeq, <1>1, RangeSetAssumption DEF Ranges, Tasks
<1>3. IsFiniteSet(Tasks)
  BY FS_Interval, RangeSetAssumption DEF Tasks
<1>4. \A t \in SUBSET DOMAIN rangeList : TasksIn(t) \in SUBSET Tasks
  BY <1>2, RangeSetAssumption DEF TasksIn, TasksOf, Tasks
<1>5. \A t \in SUBSET DOMAIN rangeList : IsFiniteSet(TasksIn(t))
  BY <1>3, <1>4, FS_Subset
<1>6. ASSUME s # {}
      PROVE  /\ Max(s) \in s
             /\ Cardinality(TasksIn(s)) =
                  Cardinality(TasksIn(s \ {Max(s)}))
                    + (rangeList[Max(s)].high - rangeList[Max(s)].low + 1)
  <2> DEFINE m == Max(s)
             others == s \ {m}
  <2>1. m \in s /\ \A i \in s : i <= m
    BY <1>1, <1>6, GreatestElement
  <2> HIDE DEF m
  <2>2. m \in DOMAIN rangeList /\ others \in SUBSET DOMAIN rangeList
    BY <2>1
  <2>3. TasksIn(s) = TasksIn(others) \cup TasksOf(rangeList[m])
    BY <2>1 DEF TasksIn
  <2>4. TasksIn(others) \cap TasksOf(rangeList[m]) = {}
    <3> SUFFICES ASSUME NEW i \in others, NEW x \in TasksOf(rangeList[i]), x \in TasksOf(rangeList[m])
                 PROVE  FALSE
      BY DEF TasksIn
    <3>1. i \in DOMAIN rangeList /\ i < m
      BY <1>1, <2>1
    <3>2. Apart(rangeList[i], rangeList[m])
      BY <2>2, <3>1 DEF Canonical
    <3>3. QED
      BY <1>2, <2>2, <3>1, <3>2 DEF Apart, TasksOf
  <2>5. IsFiniteSet(TasksOf(rangeList[m]))
        /\ Cardinality(TasksOf(rangeList[m])) = rangeList[m].high - rangeList[m].low + 1
    <3> DEFINE low == rangeList[m].low
               high == rangeList[m].high
    <3>1. low \in Int /\ high \in Int /\ low <= high
      BY <1>2, <2>2
    <3> HIDE DEF low, high
    <3>2. IsFiniteSet(low .. high) /\ Cardinality(low .. high) = high - low + 1
      BY <3>1, FS_Interval
    <3>3. QED
      BY <3>2 DEF low, high, TasksOf
  <2> DEFINE A == TasksIn(others)
             B == TasksOf(rangeList[m])
  <2>6. IsFiniteSet(A) /\ IsFiniteSet(B) /\ A \cap B = {}
    BY <1>5, <2>2, <2>4, <2>5
  <2>7. Cardinality(A \cup B) = Cardinality(A) + Cardinality(B)
    <3> HIDE DEF A, B
    <3>1. Cardinality(A \cup B) = Cardinality(A) + Cardinality(B) - Cardinality(A \cap B)
      BY <2>6, FS_Union
    <3>2. Cardinality(A) \in Nat /\ Cardinality(B) \in Nat
      BY <2>6, FS_CardinalityType
    <3>3. Cardinality(A \cap B) = 0
      BY <2>6, FS_EmptySet
    <3>4. QED
      BY <3>1, <3>2, <3>3
  <2>8. QED
    BY <2>1, <2>3, <2>5, <2>7 DEF m
<1>7. QED
  BY <1>5, <1>6

(* getNumberOfTasks counts what the list stands for. *)
LEMMA NumberOfTasks ==
  ASSUME rangeList \in Seq(Ranges), Canonical(rangeList)
  PROVE  getNumberOfTasks = Cardinality(Denotes(rangeList))
<1> DEFINE D == DOMAIN rangeList
           size(i) == rangeList[i].high - rangeList[i].low + 1
           Folds(iter) == iter = [s \in SUBSET D |->
                                    IF s = {} THEN 0 ELSE iter[s \ {Max(s)}] + size(Max(s))]
           F == CHOOSE iter : Folds(iter)
           G == [s \in SUBSET D |-> Cardinality(TasksIn(s))]
<1>1. getNumberOfTasks = F[D]
  BY DEF getNumberOfTasks, FoldLeft, MapThenFoldSet
<1>2. IsFiniteSet(D)
  BY LenProperties, FS_Interval
<1>3. G[{}] = 0
  BY FS_EmptySet DEF TasksIn
<1>4. \A s \in SUBSET D : s # {} => Max(s) \in s /\ G[s] = G[s \ {Max(s)}] + size(Max(s))
  BY TasksCounted
<1> HIDE DEF size
<1>5. Folds(G)
  <2> DEFINE H == [s \in SUBSET D |-> IF s = {} THEN 0 ELSE G[s \ {Max(s)}] + size(Max(s))]
  <2>1. \A s \in SUBSET D : G[s] = H[s]
    BY <1>3, <1>4
  <2>2. G = [s \in SUBSET D |-> G[s]] /\ H = [s \in SUBSET D |-> H[s]]
    OBVIOUS
  <2>3. G = H
    <3> HIDE DEF G, H
    <3>1. QED
      BY <2>1, <2>2
  <2>4. QED
    BY <2>3
<1>6. Folds(F)
  <2> HIDE DEF Folds, G
  <2>1. QED
    BY <1>5
<1>7. \A s \in SUBSET D : F[s] = IF s = {} THEN 0 ELSE F[s \ {Max(s)}] + size(Max(s))
  <2> HIDE DEF F
  <2>1. QED
    BY <1>6
<1> HIDE DEF F, G, Folds
<1>8. F[D] = G[D]
  <2>1. F[{}] = G[{}]
    BY <1>3, <1>7
  <2>2. \A s \in SUBSET D : s # {} => \E x \in s : F[s \ {x}] = G[s \ {x}] => F[s] = G[s]
    BY <1>4, <1>7
  <2> HIDE DEF D
  <2>3. QED
    BY <1>2, <2>1, <2>2, FoldsAgree
<1>9. G[D] = Cardinality(Denotes(rangeList))
  BY DEF G, TasksIn, Denotes
<1>10. QED
  BY <1>1, <1>8, <1>9

(* The number of tasks the output gives is that of the set, and lowestItem is
   its least element. *)
THEOREM SummariesRight == Spec => []SummariesAreRight
<1>1. IInv => SummariesAreRight
  <2> SUFFICES ASSUME IInv, pc = "idle"
               PROVE  /\ getNumberOfTasks = Cardinality(Denotes(rangeList))
                      /\ lowestItem \in Denotes(rangeList)
                      /\ \A t \in Denotes(rangeList) : lowestItem <= t
    BY DEF SummariesAreRight
  <2>1. rangeList \in Seq(Ranges) /\ rangeList # <<>> /\ Canonical(rangeList)
    BY RestingCanonical DEF IInv, TypeOK
  <2>2. 1 \in DOMAIN rangeList /\ DOMAIN rangeList = 1 .. Len(rangeList) /\ Len(rangeList) \in Nat
    BY <2>1, LenProperties, EmptySeq
  <2>3. \A i \in DOMAIN rangeList : /\ rangeList[i].low \in Int /\ rangeList[i].high \in Int
                                    /\ rangeList[i].low <= rangeList[i].high
    BY <2>1, <2>2, ElementOfSeq, RangeSetAssumption DEF Ranges, Tasks
  <2>4. lowestItem \in Denotes(rangeList)
    BY <2>2, <2>3 DEF lowestItem, Denotes, TasksOf
  <2>5. ASSUME NEW i \in DOMAIN rangeList, NEW t \in TasksOf(rangeList[i])
        PROVE  lowestItem <= t
    <3>1. i = 1 \/ Apart(rangeList[1], rangeList[i])
      BY <2>1, <2>2 DEF Canonical
    <3>2. QED
      BY <2>2, <2>3, <2>5, <3>1 DEF Apart, TasksOf, lowestItem
  <2>6. QED
    BY <2>1, <2>4, <2>5, NumberOfTasks DEF Denotes
<1>2. QED
  BY <1>1, Invariance, PTL

-----------------------------------------------------------------------------
(* The refinement: what the state stands for while a call is under way. *)
SetTasks == Denotes(rangeList) \ Denotes(SubSeq(operand, 1, Inserted))
SetCall ==
  CASE pc = "idle" -> "none" [] pc = "look" -> "ask"
    [] pc = "error" -> "error" [] OTHER -> "add"
SetGiven == IF pc = "look" THEN {val} ELSE Denotes(operand)

LEMMA DenotesTasks ==
  ASSUME NEW list \in Seq(Ranges)
  PROVE  Denotes(list) \subseteq Tasks
PROOF
<1> SUFFICES ASSUME NEW t \in Denotes(list) PROVE t \in Tasks
  OBVIOUS
<1>1. PICK i \in DOMAIN list : t \in TasksOf(list[i])
  BY DenotesElements
<1>2. list[i] \in Ranges
  BY ListElements
<1> QED BY <1>1, <1>2, RangeFields, RangeSetAssumption DEF Tasks, TasksOf

LEMMA DenotesNothing == Denotes(<<>>) = {}
PROOF BY DEF Denotes

(* The first k ranges of a list. *)
LEMMA DenotesPrefix ==
  ASSUME NEW list \in Seq(Ranges), NEW k \in 0 .. Len(list), NEW t
  PROVE  t \in Denotes(SubSeq(list, 1, k)) <=> \E i \in 1 .. k : t \in TasksOf(list[i])
PROOF
<1>1. Len(list) \in Nat /\ \A i \in 1 .. k : list[i] \in Ranges
  BY LenProperties, ElementOfSeq
<1> DEFINE prefix == SubSeq(list, 1, k)
<1>2. /\ prefix \in Seq(Ranges)
      /\ Len(prefix) = k
      /\ \A i \in 1 .. k : prefix[i] = list[i]
  BY <1>1, SubSeqProperties, SMTT(30)
<1> HIDE DEF prefix
<1>3. DOMAIN prefix = 1 .. k
  BY <1>2, LenProperties
<1>4. t \in Denotes(prefix) <=> \E i \in DOMAIN prefix : t \in TasksOf(prefix[i])
  BY <1>2, DenotesElements
<1> QED BY <1>2, <1>3, <1>4 DEF prefix

(* Nothing was inserted yet, ..., everything was. *)
LEMMA PrefixEnds ==
  ASSUME NEW list \in Seq(Ranges)
  PROVE  /\ Denotes(SubSeq(list, 1, 0)) = {}
         /\ Denotes(SubSeq(list, 1, Len(list))) = Denotes(list)
PROOF
<1>1. Len(list) \in Nat
  BY LenProperties
<1>2. SubSeq(list, 1, 0) = <<>>
  BY SubSeqEmpty
<1> QED BY <1>1, <1>2, DenotesNothing, SubSeqFull

LEMMA PrefixGrows ==
  ASSUME NEW list \in Seq(Ranges), NEW k \in 1 .. Len(list)
  PROVE  Denotes(SubSeq(list, 1, k)) =
           Denotes(SubSeq(list, 1, k - 1)) \cup TasksOf(list[k])
PROOF
<1>1. Len(list) \in Nat /\ k - 1 \in 0 .. Len(list) /\ k \in 0 .. Len(list)
  BY LenProperties
<1>2. \A i : i \in 1 .. k <=> i \in 1 .. k - 1 \/ i = k
  BY <1>1
<1> QED BY <1>1, <1>2, DenotesPrefix, Zenon

(* What was inserted is part of the list. *)
LEMMA InsertedInList ==
  ASSUME IInv, operand # <<>>
  PROVE  Denotes(SubSeq(operand, 1, Inserted)) \subseteq Denotes(rangeList)
PROOF
<1>1. Inserted \in 0 .. Len(operand) /\ operand \in Seq(Ranges)
  BY LenProperties DEF IInv, TypeOK, Inserted
<1> QED BY <1>1, DenotesPrefix DEF IInv, InsertedIsThere

(* What is being inserted is none of what was inserted. *)
LEMMA OperandDisjoint ==
  ASSUME IInv, pc = "search"
  PROVE  TasksOf(range) \cap Denotes(SubSeq(operand, 1, Inserted)) = {}
PROOF
<1>1. /\ operand \in Seq(Ranges) /\ Len(operand) \in Nat
      /\ DOMAIN operand = 1 .. Len(operand) /\ next \in 1 .. Len(operand)
      /\ range.low \in Nat
  BY OperandFacts DEF IInv, TypeOK
<1>2. Inserted = next - 1 /\ Inserted \in 0 .. Len(operand)
  BY <1>1 DEF Inserted
<1> SUFFICES ASSUME NEW t \in TasksOf(range),
                    t \in Denotes(SubSeq(operand, 1, Inserted))
             PROVE  FALSE
  OBVIOUS
<1>3. PICK i \in 1 .. Inserted : t \in TasksOf(operand[i])
  BY <1>1, <1>2, DenotesPrefix
<1>4. i \in DOMAIN operand /\ next \in DOMAIN operand /\ i < next
  BY <1>1, <1>2
<1>5. operand[i].high + 1 < range.low
  BY <1>4 DEF IInv, OperandCanonical, Canonical, Apart, range
<1>6. operand[i].high \in Nat /\ operand[i].low \in Nat /\ range.high \in Nat
  BY <1>1, <1>4, ListElements, OperandFacts DEF IInv
<1> QED BY <1>1, <1>3, <1>5, <1>6 DEF TasksOf

LEMMA RefinedInit == Init => Abstract!Init
PROOF
<1> SUFFICES ASSUME Init PROVE Abstract!Init
  OBVIOUS
<1>1. /\ pc = "idle" /\ operand = <<>> /\ next = 1 /\ answer = FALSE
      /\ rangeList \in Seq(Ranges)
  BY InitIInv DEF Init, IInv, TypeOK
<1>2. SubSeq(operand, 1, Inserted) = <<>>
  BY <1>1, SubSeqEmpty DEF Inserted
<1>3. /\ SetTasks \in SUBSET Tasks /\ SetCall = "none" /\ SetGiven = {}
  BY <1>1, <1>2, DenotesNothing, DenotesTasks DEF SetTasks, SetCall, SetGiven
<1> QED BY <1>1, <1>3 DEF Abstract!Init, SetTasks, SetCall, SetGiven

LEMMA RefinedAdd ==
  ASSUME IInv, NEW list \in Operands, Add(list)
  PROVE  Abstract!Add
PROOF
<1>1. /\ pc = "idle" /\ pc' = "search" /\ operand' = list
      /\ UNCHANGED <<rangeList, next, answer>>
  BY DEF Add, Search
<1>2. next = 1 /\ operand = <<>>
  BY <1>1 DEF IInv, TypeOK
<1>3. Inserted = 0 /\ Inserted' = 0
  BY <1>1, <1>2 DEF Inserted
<1>4. list \in Seq(Ranges)
  BY RangeSetAssumption
<1>5. SubSeq(operand, 1, Inserted) = <<>> /\ SubSeq(operand, 1, Inserted)' = <<>>
  BY <1>3, SubSeqEmpty
<1>6. SetTasks' = SetTasks
  BY <1>1, <1>5 DEF SetTasks, Denotes, TasksOf
<1>7. SetCall = "none" /\ SetCall' = "add"
  BY <1>1 DEF SetCall
<1>8. SetGiven' = Denotes(list)
  BY <1>1 DEF SetGiven, Denotes, TasksOf
<1>9. SetGiven' \in SUBSET Tasks
  BY <1>4, <1>8, DenotesTasks
<1> QED BY <1>1, <1>6, <1>7, <1>9 DEF Abstract!Add, SetTasks, SetCall, SetGiven

(* A step of a search, or a join, changes nothing a caller can see. *)
LEMMA RefinedStutter ==
  ASSUME operand' = operand, val' = val, answer' = answer,
         Inserted' = Inserted, Denotes(rangeList)' = Denotes(rangeList),
         SetCall' = SetCall, pc = "look" <=> pc' = "look"
  PROVE  UNCHANGED Abstract!taskset
PROOF
<1>1. SetTasks' = SetTasks
  BY DEF SetTasks, Denotes, TasksOf
<1>2. SetGiven' = SetGiven
  BY DEF SetGiven, Denotes, TasksOf
<1> QED BY <1>1, <1>2 DEF Abstract!taskset, SetTasks, SetCall, SetGiven

(* The insertion of a range: it is not counted as there before the end. *)
LEMMA RefinedInsert ==
  ASSUME IInv, pc = "search", NEW at, Fits(at), InsertRange(at)
  PROVE  UNCHANGED Abstract!taskset
PROOF
<1>1. /\ pc' = "joinBefore"
      /\ UNCHANGED <<operand, next, val, answer>>
  BY DEF InsertRange, calling
<1>2. Denotes(rangeList)' = Denotes(rangeList) \cup TasksOf(range)
  BY InsertIInv
<1>3. TasksOf(range) \cap Denotes(rangeList) = {}
  BY FitsDisjoint DEF IInv
<1>4. /\ operand \in Seq(Ranges) /\ next \in 1 .. Len(operand)
  BY OperandFacts DEF IInv, TypeOK
<1>5. Inserted = next - 1 /\ Inserted' = next
  BY <1>1 DEF Inserted
<1>6. Denotes(SubSeq(operand, 1, next)) =
        Denotes(SubSeq(operand, 1, next - 1)) \cup TasksOf(range)
  BY <1>4, PrefixGrows DEF range
<1>7. SetTasks' = Denotes(rangeList)' \ Denotes(SubSeq(operand, 1, next))
  BY <1>1, <1>5 DEF SetTasks, Denotes, TasksOf
<1>8. SetTasks = Denotes(rangeList) \ Denotes(SubSeq(operand, 1, next - 1))
  BY <1>5 DEF SetTasks
<1>9. SetTasks' = SetTasks
  BY <1>2, <1>3, <1>6, <1>7, <1>8
<1>10. SetGiven' = SetGiven /\ SetCall' = SetCall
  BY <1>1 DEF SetGiven, SetCall, Denotes, TasksOf
<1> QED BY <1>1, <1>9, <1>10 DEF Abstract!taskset, SetTasks, SetCall, SetGiven

(* An overlap that the search finds is one of the two sets. *)
LEMMA RefinedFail ==
  ASSUME IInv, Fail
  PROVE  Abstract!Refuse
PROOF
<1>1. /\ pc = "search" /\ pc' = "error" /\ Overlapping
      /\ UNCHANGED <<rangeList, operand, next, val, answer>>
  BY DEF Fail, calling
<1>2. /\ range.low \in Nat /\ range.high \in Nat /\ range.low <= range.high
      /\ next \in 1 .. Len(operand) /\ Len(operand) \in Nat
      /\ DOMAIN operand = 1 .. Len(operand)
      /\ operand \in Seq(Ranges)
  BY <1>1, OperandFacts DEF IInv, TypeOK
<1>3. \E i \in DOMAIN rangeList : ~GoesAfter(i) /\ ~GoesBefore(i)
  <2>1. first \in DOMAIN rangeList /\ last \in DOMAIN rangeList /\ Middle \in DOMAIN rangeList
    BY <1>1, SearchFacts
  <2>2. CASE Leaf
    <3>1. ~GoesAfter(first) \/ ~GoesBefore(last)
      BY <1>1, <2>2 DEF Overlapping
    <3>2. ~GoesBefore(first) /\ ~GoesAfter(last)
      BY <1>1, <2>2 DEF Overlapping
    <3> QED BY <2>1, <3>1, <3>2
  <2>3. CASE ~Leaf
    BY <1>1, <2>1, <2>3 DEF Overlapping
  <2> QED BY <2>2, <2>3
<1>4. PICK i \in DOMAIN rangeList : ~GoesAfter(i) /\ ~GoesBefore(i)
  BY <1>3
<1>5. /\ rangeList[i].low \in Nat /\ rangeList[i].high \in Nat
      /\ rangeList[i].low <= rangeList[i].high
  BY ListElements DEF IInv, TypeOK
<1>6. PICK t \in Nat : t \in TasksOf(range) /\ t \in TasksOf(rangeList[i])
  <2>1. CASE range.low <= rangeList[i].low
    BY <2>1, <1>2, <1>4, <1>5 DEF GoesAfter, GoesBefore, TasksOf
  <2>2. CASE range.low > rangeList[i].low
    BY <2>2, <1>2, <1>4, <1>5 DEF GoesAfter, GoesBefore, TasksOf
  <2> QED BY <2>1, <2>2, <1>2, <1>5
<1>7. t \in Denotes(rangeList)
  BY <1>6, DenotesElements DEF IInv, TypeOK
<1>8. t \in Denotes(operand)
  BY <1>2, <1>6, DenotesElements DEF range
<1>9. t \notin Denotes(SubSeq(operand, 1, Inserted))
  BY <1>1, <1>6, OperandDisjoint
<1>10. SetGiven = Denotes(operand) /\ SetCall = "add" /\ SetCall' = "error"
  BY <1>1 DEF SetGiven, SetCall
<1>11. SetGiven \cap SetTasks # {}
  BY <1>7, <1>8, <1>9, <1>10 DEF SetTasks
<1>12. Inserted' = Inserted
  BY <1>1 DEF Inserted
<1>13. SetTasks' = SetTasks /\ SetGiven' = SetGiven
  BY <1>1, <1>12 DEF SetTasks, SetGiven, Denotes, TasksOf
<1> QED BY <1>1, <1>10, <1>11, <1>13 DEF Abstract!Refuse, SetTasks, SetCall, SetGiven

(* After the last range the set is the union. *)
LEMMA RefinedUnite ==
  ASSUME IInv, JoinAfter, ~(next < Len(operand))
  PROVE  Abstract!Unite
PROOF
<1>1. /\ pc = "joinAfter" /\ answer' = answer
      /\ pc' = "idle" /\ operand' = <<>> /\ next' = 1
  BY DEF JoinAfter, Idle
<1>2. Denotes(rangeList)' = Denotes(rangeList)
  BY JoinAfterList
<1>3. /\ operand \in Seq(Ranges) /\ operand # <<>>
      /\ next \in 1 .. Len(operand) /\ Len(operand) \in Nat
  BY <1>1, OperandFacts DEF IInv, TypeOK
<1>4. Inserted = Len(operand) /\ Inserted' = 0
  BY <1>1, <1>3 DEF Inserted
<1>5. SetTasks = Denotes(rangeList) \ Denotes(operand)
  BY <1>3, <1>4, PrefixEnds DEF SetTasks
<1>6. Denotes(operand) \subseteq Denotes(rangeList)
  BY <1>3, <1>4, InsertedInList, PrefixEnds
<1>7. SubSeq(operand, 1, Inserted)' = <<>>
  BY <1>4, SubSeqEmpty
<1>8. SetTasks' = Denotes(rangeList) /\ SetGiven' = {}
  <2>1. Denotes(SubSeq(operand, 1, Inserted))' = {}
    <3>1. Denotes(SubSeq(operand, 1, Inserted))' = Denotes(SubSeq(operand', 1, Inserted'))
      BY DEF Denotes, TasksOf
    <3>2. SubSeq(operand', 1, Inserted') = <<>>
      BY <1>7
    <3> QED BY <3>1, <3>2, DenotesNothing
  <2>2. SetTasks' = Denotes(rangeList)' \ Denotes(SubSeq(operand, 1, Inserted))'
    BY DEF SetTasks
  <2>3. SetGiven' = {}
    BY <1>1 DEF SetGiven, Denotes
  <2> QED BY <1>2, <2>1, <2>2, <2>3
<1>9. SetGiven = Denotes(operand) /\ SetCall = "add" /\ SetCall' = "none"
  BY <1>1 DEF SetGiven, SetCall
<1>10. SetGiven \cap SetTasks = {} /\ SetTasks' = SetTasks \cup SetGiven
  BY <1>5, <1>6, <1>8, <1>9
<1> QED BY <1>1, <1>8, <1>9, <1>10 DEF Abstract!Unite, SetTasks, SetCall, SetGiven

LEMMA RefinedAsk ==
  ASSUME IInv, NEW v \in Tasks, Ask(v)
  PROVE  Abstract!Ask
PROOF
<1>1. /\ pc = "idle" /\ pc' = "look" /\ val' = v
      /\ UNCHANGED <<rangeList, operand, next, answer>>
  BY DEF Ask
<1>2. SetTasks' = SetTasks
  BY <1>1 DEF SetTasks, Inserted, Denotes, TasksOf
<1>3. SetGiven' = {v} /\ SetCall = "none" /\ SetCall' = "ask"
  BY <1>1 DEF SetGiven, SetCall
<1> QED BY <1>1, <1>2, <1>3 DEF Abstract!Ask, SetTasks, SetCall, SetGiven

(* The answer of isPresent. *)
LEMMA FoundIsThere ==
  ASSUME IInv, LookFound
  PROVE  val \in Denotes(rangeList)
PROOF
<1>1. \E i \in DOMAIN rangeList : Holds(i)
  BY SearchFacts DEF LookFound
<1>2. PICK i \in DOMAIN rangeList : Holds(i)
  BY <1>1
<1>3. /\ rangeList[i].low \in Nat /\ rangeList[i].high \in Nat /\ val \in Nat
  BY ListElements, RangeSetAssumption DEF IInv, TypeOK, Tasks
<1>4. val \in TasksOf(rangeList[i])
  BY <1>2, <1>3 DEF Holds, TasksOf
<1> QED BY <1>4, DenotesElements DEF IInv, TypeOK

LEMMA MissingIsNotThere ==
  ASSUME IInv, LookMissing
  PROVE  val \notin Denotes(rangeList)
PROOF
<1> SUFFICES ASSUME val \in Denotes(rangeList) PROVE FALSE
  OBVIOUS
<1>1. PICK i \in DOMAIN rangeList : val \in TasksOf(rangeList[i])
  BY DenotesElements DEF IInv, TypeOK
<1>2. pc = "look" /\ val \in Nat
  BY RangeSetAssumption DEF LookMissing, IInv, TypeOK, Tasks
<1>3. Holds(i)
  BY <1>1, <1>2, ListElements DEF TasksOf, Holds, IInv, TypeOK
<1>4. i \in first .. last /\ i \in 1 .. Len(rangeList)
  BY <1>2, <1>3, SearchFacts DEF IInv, LookBounds
<1>5. ~Outside
  <2>1. rangeList[first].low <= rangeList[i].low
    BY <1>2, <1>4, SearchFacts, ListFacts DEF IInv
  <2>2. rangeList[i].high <= rangeList[last].high
    BY <1>2, <1>4, SearchFacts, ListFacts DEF IInv
  <2> QED BY <1>2, <1>3, <1>4, <2>1, <2>2, SearchFacts, ListFacts
          DEF Outside, Holds, IInv
<1>6. ~(first = last /\ ~Holds(first))
  BY <1>2, <1>3, <1>4, SearchFacts
<1>7. ASSUME Narrow, Middle = (IF LeftHalf THEN 1 ELSE Len(rangeList))
      PROVE  FALSE
  <2>1. first # last /\ ~Holds(last)
    BY <1>7 DEF Narrow
  <2>2. Middle > 1
    BY <1>2, <2>1, SearchFacts
  <2>3. Middle = Len(rangeList) /\ ~LeftHalf
    BY <1>7, <2>2
  <2>4. Middle = last
    BY <1>2, <2>3, SearchFacts
  <2>5. rangeList[last].low <= val
    BY <1>2, <2>3, <2>4, SearchFacts, ListFacts DEF LeftHalf, IInv
  <2>6. val <= rangeList[last].high
    BY <1>2, <1>5, SearchFacts, ListFacts DEF Outside, IInv
  <2> QED BY <2>1, <2>5, <2>6 DEF Holds
<1> QED BY <1>5, <1>6, <1>7 DEF LookMissing

LEMMA RefinedAnswer ==
  ASSUME IInv, LookFound \/ LookMissing
  PROVE  Abstract!Answer
PROOF
<1>1. PICK found \in BOOLEAN : Return(found) /\ (found <=> val \in Denotes(rangeList))
  BY FoundIsThere, MissingIsNotThere DEF LookFound, LookMissing
<1>2. /\ pc = "look" /\ pc' = "idle" /\ operand' = <<>> /\ next' = 1
      /\ answer' = found /\ rangeList' = rangeList
  BY <1>1 DEF LookFound, LookMissing, Return, Idle
<1>3. operand = <<>> /\ next = 1
  BY <1>2 DEF IInv, TypeOK
<1>4. SubSeq(operand, 1, Inserted) = <<>> /\ SubSeq(operand, 1, Inserted)' = <<>>
  BY <1>2, <1>3, SubSeqEmpty DEF Inserted
<1>5. SetTasks = Denotes(rangeList) /\ SetTasks' = SetTasks
  BY <1>2, <1>4, DenotesNothing DEF SetTasks, Denotes, TasksOf
<1>6. SetGiven = {val} /\ SetGiven' = {} /\ SetCall = "ask" /\ SetCall' = "none"
  BY <1>2 DEF SetGiven, SetCall, Denotes
<1>7. answer' = (SetGiven \subseteq SetTasks)
  <2>1. SetGiven \subseteq SetTasks <=> found
    BY <1>1, <1>5, <1>6
  <2> QED BY <1>2, <2>1
<1> QED BY <1>5, <1>6, <1>7 DEF Abstract!Answer, SetTasks, SetCall, SetGiven

(***************************************************************************)
(* operator+= is the union of disjoint sets and an error exactly when they *)
(* overlap, and isPresent is membership, however the ranges lie.           *)
(***************************************************************************)
THEOREM Refinement == Spec => ImplementsTaskSet
<1>1. IInv /\ [Next]_vars => [Abstract!Next]_(Abstract!taskset)
  <2> SUFFICES ASSUME IInv, [Next]_vars
               PROVE  Abstract!Next \/ UNCHANGED Abstract!taskset
    OBVIOUS
  <2>1. CASE \E list \in Operands : Add(list)
    BY <2>1, RefinedAdd DEF Abstract!Next
  <2>2. CASE \E v \in Tasks : Ask(v)
    BY <2>2, RefinedAsk DEF Abstract!Next
  <2>3. CASE SearchRight \/ SearchLeft
    <3>1. UNCHANGED <<rangeList, pc, operand, next, val, answer>>
      BY <2>3 DEF SearchRight, SearchLeft, calling
    <3> QED BY <3>1, RefinedStutter DEF Inserted, Denotes, TasksOf, SetCall
  <2>4. CASE InsertAfter
    BY <2>4, InsertAfterFits, RefinedInsert DEF InsertAfter
  <2>5. CASE InsertBefore
    BY <2>5, InsertBeforeFits, RefinedInsert DEF InsertBefore
  <2>6. CASE Fail
    BY <2>6, RefinedFail DEF Abstract!Next
  <2>7. CASE JoinBefore
    <3>1. /\ pc = "joinBefore" /\ pc' = "joinAfter"
          /\ UNCHANGED <<operand, next, val, answer>>
      BY <2>7 DEF JoinBefore, calling
    <3>2. Denotes(rangeList)' = Denotes(rangeList)
      BY <2>7, JoinBeforeIInv
    <3> QED BY <3>1, <3>2, RefinedStutter DEF Inserted, SetCall
  <2>8. CASE JoinAfter /\ next < Len(operand)
    <3>1. /\ pc = "joinAfter" /\ pc' = "search" /\ next' = next + 1
          /\ UNCHANGED <<operand, val, answer>>
      BY <2>8 DEF JoinAfter, Search
    <3>2. next \in Nat
      BY DEF IInv, TypeOK
    <3>3. Inserted' = Inserted /\ SetCall' = SetCall
      BY <3>1, <3>2 DEF Inserted, SetCall
    <3>4. Denotes(rangeList)' = Denotes(rangeList)
      BY <2>8, JoinAfterList
    <3> QED BY <3>1, <3>3, <3>4, RefinedStutter
  <2>9. CASE JoinAfter /\ ~(next < Len(operand))
    BY <2>9, RefinedUnite DEF Abstract!Next
  <2>10. CASE LookFound \/ LookMissing
    BY <2>10, RefinedAnswer DEF Abstract!Next
  <2>11. CASE LookLeft \/ LookRight
    <3>1. UNCHANGED <<rangeList, pc, operand, next, val, answer>>
      BY <2>11 DEF LookLeft, LookRight, calling
    <3> QED BY <3>1, RefinedStutter DEF Inserted, Denotes, TasksOf, SetCall
  <2>12. CASE UNCHANGED vars
    <3>1. UNCHANGED <<rangeList, pc, operand, next, val, answer>>
      BY <2>12 DEF vars
    <3> QED BY <3>1, RefinedStutter DEF Inserted, Denotes, TasksOf, SetCall
  <2> QED BY <2>1, <2>2, <2>3, <2>4, <2>5, <2>6, <2>7, <2>8, <2>9, <2>10, <2>11,
             <2>12 DEF Next, Step
<1> QED BY <1>1, RefinedInit, Invariance, PTL DEF Spec, ImplementsTaskSet, Abstract!Spec
==============================================================================
