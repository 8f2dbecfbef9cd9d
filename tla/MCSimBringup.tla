---------------------------- MODULE MCSimBringup ----------------------------
(* The bring-up of the two controllers the gate and the neck depend on, and *)
(* two moves of the neck: a known pair of servos and a known with an unknown *)
(* one, outside the band.                                                  *)
EXTENDS SimBringup

const_Spawned == {"diff_drive_controller", "neck_controller"}
const_Inputs == {1000}
const_Ids == {1, 2, 5}
=============================================================================
