---------------------------- MODULE BinomialTree ----------------------------
(***************************************************************************)
(* The arithmetic of the binomial tree (BinomialReducer::reduce): ranks    *)
(* are renumbered relative to the root, and bit operations on a mask that  *)
(* is a power of two are written with \div and %.                          *)
(***************************************************************************)
EXTENDS Integers

CONSTANTS N,      \* number of processes of the communicator
          Root    \* rank of the process that ends with the result

ASSUME TreeAssumption ==
  /\ N \in Nat \ {0}
  /\ Root \in 0 .. N - 1

Proc == 0 .. N - 1

RelRank(p) == (p - Root + N) % N

(* MUTANT of RankOf: ranks beyond the last one are not wrapped around. *)
RankUnwrapped(r) == r + Root

RankOf(r) == (r + Root) % N

(* mask & relrank *)
BitSet(r, mask) == (r \div mask) % 2 = 1

(* Where a process receives from (relrank | mask, the bit being clear) and
   where it sends to (relrank & ~mask, the bit being set). *)
Source(p, mask) == RelRank(p) + mask
SourceRank(p, mask) == RankOf(Source(p, mask))

(* MUTANT of DestinationRank: the bit above the mask is cleared instead. *)
DestinationTooFar(p, mask) == RankOf((RelRank(p) - 2 * mask + N) % N)

DestinationRank(p, mask) == RankOf(RelRank(p) - mask)
===============================================================================
