-------------------------- MODULE MCHangDetection --------------------------
(* Two processes of one job, or a single one. *)
EXTENDS HangDetection

CONSTANTS p1, p2

MCProc == {p1, p2}
MCAlone == {p1}
==============================================================================
