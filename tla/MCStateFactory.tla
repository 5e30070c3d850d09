--------------------------- MODULE MCStateFactory ---------------------------
(* Two application threads and the helper thread, which all create states,   *)
(* and three call paths: two inserts can straddle one walk of the table.     *)
EXTENDS StateFactory, TLC

CONSTANTS app1, app2, helper, a, b, c

MCThreads == {app1, app2, helper}
MCNames == {a, b, c}
==============================================================================
