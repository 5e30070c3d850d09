-------------------------- MODULE MCGatheredAnalysis --------------------------
(* Trails that number the names differently, share edges with different      *)
(* counts, and end in different states; in the second assignment of each set *)
(* one process has not taken a transition yet.                               *)
EXTENDS GatheredAnalysis

MCTrails == {
  [p \in Proc |-> << <<1, 2, 3>>, <<1, 3, 2, 3>>, <<2, 1, 2>>, <<1, 2, 1, 2>> >>[p + 1]],
  [p \in Proc |-> << <<1, 2, 3>>, <<1>>, <<2, 1>>, <<1, 2>> >>[p + 1]] }
MCShortTrails == {
  [p \in Proc |-> << <<1, 2>>, <<2, 1>>, <<1, 2>> >>[p + 1]],
  [p \in Proc |-> << <<1, 2>>, <<1, 2>>, <<1>> >>[p + 1]] }
MCLateNames == {4}
==============================================================================
