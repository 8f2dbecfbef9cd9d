---------------------------- MODULE MCCatchDemo ----------------------------
(* The whole program over the callback groups of the two drivers.           *)
EXTENDS CatchDemo

MCTopics == {"frame", "gripper", "move", "lift", "state"}
MCGroup ==
  [t \in MCTopics |->
     CASE t = "move" -> "right default" [] t = "gripper" -> "right sub4"
       [] t = "lift" -> "left sub4" [] OTHER -> "right sub2"]
MCQueries == {"state"}
=============================================================================
