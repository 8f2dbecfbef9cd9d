----------------------------- MODULE NeckServo -----------------------------
(***************************************************************************)
(* The simulated neck: servo_sim_bridge's node and its calibration between *)
(* the units applications speak and the angles of the neck_controller.     *)
(* Angles are integers, in 1/3000 of a degree: the default calibration     *)
(* (0.2 and 70.1/300 degrees per unit, offset -7.766) is exact there.      *)
(***************************************************************************)
EXTENDS Integers, Sequences, FiniteSets

CONSTANTS
  MaxMoves,  \* bound on the messages of /servo_control/move
  Inputs,    \* their angles, in units
  Ids,       \* their servo ids, known or not
  None

Center == 500
Band == [min |-> 200, max |-> 800]
Servos == {2, 5}
JointOf == [s \in Servos |-> IF s = 2 THEN 1 ELSE 2]
PerUnit == [s \in Servos |-> IF s = 2 THEN 600 ELSE 701]
Offset == [s \in Servos |-> IF s = 2 THEN 0 ELSE -23298]
Joints == {1, 2}

ASSUME NeckServoAssumption ==
  /\ MaxMoves \in Nat /\ Inputs \subseteq Int /\ Ids \subseteq Nat
  /\ None \notin [Joints -> Int]

VARIABLES
  told,      \* history: the units each servo was last told
  heard,     \* history: told, when neck_controller last got a command, or None
  moves,     \* messages handled
  targets,   \* _joint_targets
  setpoint,  \* the command neck_controller executes, or None
  position,  \* angle of each joint
  latest,    \* _latest_positions, or None before /joint_states
  readback   \* last message of /servo_both_angles: units of servos 5 and 2

neckVars == <<told, heard, moves, targets, setpoint, position, latest, readback>>

ClampUnits(u) ==
  IF u < Band.min THEN Band.min ELSE IF u > Band.max THEN Band.max ELSE u

UnitsToAngle(s, u) == (ClampUnits(u) - Center) * PerUnit[s] + Offset[s]

\* Mutant: the inverse forgets the offset of the tilt.
AngleToUnitsNoOffset(s, a) == ClampUnits(Center + a \div PerUnit[s])
AngleToUnits(s, a) == ClampUnits(Center + (a - Offset[s]) \div PerUnit[s])

ReadbackUnits(angles) ==
  [i \in 1..2 |-> LET s == <<5, 2>>[i] IN
     IF angles = None THEN Center ELSE AngleToUnits(s, angles[JointOf[s]])]

ServoOf(j) == CHOOSE s \in Servos : JointOf[s] = j
Pose(units) == [j \in Joints |-> UnitsToAngle(ServoOf(j), units[ServoOf(j)])]

Centers == [s \in Servos |-> Center]

NeckInit ==
  /\ told = Centers /\ heard = None /\ moves = 0
  /\ targets = Pose(Centers)
  /\ setpoint = None /\ latest = None
  /\ position = [j \in Joints |-> 0]
  /\ readback = <<Center, Center>>

\* Mutant: a command moves its own joint and leaves the other at zero.
RetargetAlone(s, u) ==
  [j \in Joints |-> IF j = JointOf[s] THEN UnitsToAngle(s, u) ELSE 0]
Retarget(s, u) == [targets EXCEPT ![JointOf[s]] = UnitsToAngle(s, u)]

\* _on_servo_move: an unknown id is ignored; a command that neck_controller
\* is not active to receive is lost.
ServoMove(s, u, active) ==
  /\ moves < MaxMoves
  /\ moves' = moves + 1
  /\ IF s \in Servos
     THEN /\ told' = [told EXCEPT ![s] = u]
          /\ targets' = Retarget(s, u)
          /\ heard' = IF active THEN told' ELSE heard
          /\ setpoint' = IF active THEN targets' ELSE setpoint
     ELSE UNCHANGED <<told, targets, heard, setpoint>>
  /\ UNCHANGED <<position, latest, readback>>

\* The simulated joint reaches its setpoint.
Reach(j) ==
  /\ setpoint # None
  /\ position[j] # setpoint[j]
  /\ position' = [position EXCEPT ![j] = setpoint[j]]
  /\ UNCHANGED <<told, heard, moves, targets, setpoint, latest, readback>>

\* _on_joint_states, with a message of joint_state_broadcaster.
JointStates ==
  /\ latest # position
  /\ latest' = position
  /\ UNCHANGED <<told, heard, moves, targets, setpoint, position, readback>>

PublishReadback ==
  /\ readback' = ReadbackUnits(latest)
  /\ readback' # readback
  /\ UNCHANGED <<told, heard, moves, targets, setpoint, position, latest>>

-----------------------------------------------------------------------------

\* The bridge's targets are those of the units the servos were told.
NeckFollows == told \in [Servos -> Inputs \cup {Center}] /\ targets = Pose(told)

\* The neck executes whole poses only: its setpoint is the pose of the units
\* both servos had been told when it was sent (the centre for one that was
\* told nothing), and within the mechanical stops (_on_servo_move and the
\* seeding of the constructor).
NeckComplete ==
  heard # None =>
    /\ setpoint = Pose(heard)
    /\ -180000 =< setpoint[1] /\ setpoint[1] =< 180000
    /\ -233598 =< setpoint[2] /\ setpoint[2] =< 187002
=============================================================================
