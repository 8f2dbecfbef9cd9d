----------------------------- MODULE MCRmControl -----------------------------
(* Instances of RmControl for TLC.  The goals are numbers: goal 1 takes the  *)
(* spline branch (four waypoints over 30 ms, three samples, the last beyond *)
(* the end), goal 2 is copied waypoint by waypoint, goal 3 has no points.   *)
EXTENDS RmControl

MCWaypoints == [g \in Goals |-> CASE g \in {1, 5} -> 4 [] g = 2 -> 2 [] g = 3 -> 0 [] g = 4 -> 5 [] OTHER -> 1]

MCDuration == [g \in Goals |-> CASE g = 1 -> 30 [] g = 2 -> 100 [] g = 4 -> 20 [] OTHER -> 0]
=============================================================================
