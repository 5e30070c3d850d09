---------------------------- MODULE MCRootAnalysis ----------------------------
(* Three processes that stop at any point of a path: through nested loops, and *)
(* through a loop of one state, a chain and a loop of three.  Two processes on *)
(* walks of their own through loops with two back edges, a branch and a loop   *)
(* of one state.  Two more that bring the walk for hops into a cycle.          *)
EXTENDS RootAnalysis

Heads(path) == {SubSeq(path, 1, k) : k \in 2 .. Len(path)}
SamePaths ==
  [0 .. 2 -> Heads(<<1, 2, 3, 4, 3, 4, 5, 2, 3, 6>>)]
  \cup [0 .. 1 -> Heads(<<1, 2, 2, 3, 4, 5, 6, 3, 4, 5, 6, 7>>)]

Ways == {<<1, 2>>, <<2, 3>>, <<3, 2>>, <<3, 3>>, <<3, 4>>, <<4, 2>>, <<2, 5>>, <<5, 4>>, <<4, 6>>}
Walks[n \in 1 .. 7] ==
  IF n = 1 THEN {<<1>>}
  ELSE UNION {{Append(w, e[2]) : e \in {f \in Ways : f[1] = Last(w)}} : w \in Walks[n - 1]}
OwnWays == [0 .. 1 -> Walks[5] \cup Walks[7]]

Renumbered ==
  {[p \in 0 .. 1 |-> << <<1, 2, 3, 4, 2, 3>>, <<1, 2, 3, 5, 6, 7, 6, 7, 4, 2, 3, 5, 6, 7>> >>[p + 1]]}

MCTrails == SamePaths \cup OwnWays \cup Renumbered
==============================================================================
