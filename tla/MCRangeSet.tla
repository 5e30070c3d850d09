------------------------------ MODULE MCRangeSet ------------------------------
(* Every set of tasks that has at most two ranges is added to every set    *)
(* that can be reached, which has up to (MaxTask + 2) \div 2 ranges.         *)
EXTENDS RangeSet

Runs(S) ==
  {r \in Ranges : /\ TasksOf(r) \subseteq S
                  /\ r.low - 1 \notin S
                  /\ r.high + 1 \notin S}

RangesOf(S) == SetToSortSeq(Runs(S), LAMBDA x, y : x.low < y.low)

MCOperands == {RangesOf(S) : S \in {T \in SUBSET Tasks : Cardinality(Runs(T)) \in 1 .. 2}}
==============================================================================
