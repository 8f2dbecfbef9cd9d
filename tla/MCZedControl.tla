---------------------------- MODULE MCZedControl ----------------------------
(* Both nodes.  The ZED with object detection, off at first: a live camera *)
(* that is mapped, and an SVO file that is played in a loop.               *)
EXTENDS ZedOne

MCSetups == {[input |-> "live", enabled |-> {"map"}], [input |-> "loop", enabled |-> {}]}
=============================================================================
