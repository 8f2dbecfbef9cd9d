------------------------- MODULE MCRmDriverCommands -------------------------
(* One topic of every shape: a blocking move, a set point, the stop, the two *)
(* commands about the push, and the query outside the group of the others.  *)
EXTENDS RmDriverCommands

MCCallers == {"default", "sub2", "sub4"}

MCTopics == {"movej", "movej_canfd", "move_stop", "set_realtime_push",
             "get_realtime_push", "get_lift_state"}
=============================================================================
