------------------------- MODULE MCBinomialReducer -------------------------
(* Nine processes   with a root in the middle: the tree has four levels, is  *)
(* not a full one, and ranks wrap around.                                    *)
EXTENDS BinomialReducer
==============================================================================
