---------------------------- MODULE MCMarkovModel ----------------------------
(* Three states: paths with and without a detour, cycles and loops of one     *)
(* state.  A limit of a few calls is passed within two or three queries.      *)
EXTENDS MarkovModel, TLC

CONSTANTS a, b, c

MCStates == {a, b, c}
Symmetry == Permutations(MCStates)
==============================================================================
