--------------------------- MODULE SimBringupProofs ---------------------------
(* The simulation's bring-up and its neck: the calibration is inverted by the *)
(* read-back, the neck executes whole poses within its stops, and a gate that *)
(* reports the simulation ready has seen a robot that can be driven; for any  *)
(* commands, controllers and timeout.                                        *)
EXTENDS SimBringup, TLAPS

-----------------------------------------------------------------------------
(* The calibration. *)

LEMMA ClampInBand ==
  ASSUME NEW u \in Int
  PROVE  ClampUnits(u) \in Band.min..Band.max /\ ClampUnits(u) \in Int
  BY DEF ClampUnits, Band

LEMMA ClampOnce ==
  ASSUME NEW u \in Int
  PROVE  ClampUnits(ClampUnits(u)) = ClampUnits(u)
  BY DEF ClampUnits, Band

LEMMA AngleBounds ==
  ASSUME NEW u \in Int
  PROVE  /\ -180000 =< UnitsToAngle(2, u) /\ UnitsToAngle(2, u) =< 180000
         /\ -233598 =< UnitsToAngle(5, u) /\ UnitsToAngle(5, u) =< 187002
<1>1. ClampUnits(u) \in 200..800
  <2>1. Band.min = 200 /\ Band.max = 800
    BY DEF Band
  <2>2. QED  BY <2>1, ClampInBand
<1>2. /\ UnitsToAngle(2, u) = (ClampUnits(u) - 500) * 600 + 0
      /\ UnitsToAngle(5, u) = (ClampUnits(u) - 500) * 701 + (-23298)
  BY SMT DEF UnitsToAngle, Center, PerUnit, Offset, Servos
<1>3. QED  BY <1>1, <1>2, SMT

(* The angle of every unit reads back as that unit, clamped to the band:     *)
(* rad_to_units inverts units_to_rad for both joints.                        *)
THEOREM CalibrationInverts ==
  \A s \in Servos, u \in Int : AngleToUnits(s, UnitsToAngle(s, u)) = ClampUnits(u)
<1> SUFFICES ASSUME NEW s \in Servos, NEW u \in Int
             PROVE  AngleToUnits(s, UnitsToAngle(s, u)) = ClampUnits(u)
  OBVIOUS
<1> DEFINE v == ClampUnits(u) - Center
<1>1. v \in Int /\ ClampUnits(u) = Center + v
  BY ClampInBand DEF Center
<1>2. /\ s = 2 => PerUnit[s] = 600 /\ Offset[s] = 0
      /\ s = 5 => PerUnit[s] = 701 /\ Offset[s] = -23298
      /\ s = 2 \/ s = 5
  BY DEF PerUnit, Offset, Servos
<1>3. (UnitsToAngle(s, u) - Offset[s]) \div PerUnit[s] = v
  <2>1. UnitsToAngle(s, u) - Offset[s] = v * PerUnit[s]
    BY <1>1, <1>2 DEF UnitsToAngle
  <2>2. (v * 600) \div 600 = v /\ (v * 701) \div 701 = v
    BY <1>1
  <2>3. QED  BY <1>2, <2>1, <2>2
<1>4. AngleToUnits(s, UnitsToAngle(s, u)) = ClampUnits(Center + v)
  BY <1>3 DEF AngleToUnits
<1>5. QED  BY <1>1, <1>4, ClampOnce

-----------------------------------------------------------------------------
(* Poses. *)

LEMMA PoseIs ==
  ASSUME NEW units
  PROVE  Pose(units) = [j \in Joints |-> IF j = 1 THEN UnitsToAngle(2, units[2])
                                                  ELSE UnitsToAngle(5, units[5])]
<1>1. ServoOf(1) = 2 /\ ServoOf(2) = 5
  BY DEF ServoOf, Servos, JointOf
<1>2. QED  BY <1>1 DEF Pose, Joints

LEMMA RetargetPose ==
  ASSUME NEW units, DOMAIN units = Servos, targets = Pose(units), NEW s \in Servos, NEW u
  PROVE  Retarget(s, u) = Pose([units EXCEPT ![s] = u])
<1> DEFINE new == [units EXCEPT ![s] = u]
<1>1. \/ s = 2 /\ new[2] = u /\ new[5] = units[5] /\ JointOf[s] = 1
      \/ s = 5 /\ new[5] = u /\ new[2] = units[2] /\ JointOf[s] = 2
  BY DEF Servos, JointOf
<1>2. Pose(new) = [j \in Joints |-> IF j = 1 THEN UnitsToAngle(2, new[2])
                                              ELSE UnitsToAngle(5, new[5])]
  BY PoseIs
<1>3. targets = [j \in Joints |-> IF j = 1 THEN UnitsToAngle(2, units[2])
                                            ELSE UnitsToAngle(5, units[5])]
  BY PoseIs
<1>4. QED  BY <1>1, <1>2, <1>3 DEF Retarget, Joints

\* A pose lies within the mechanical stops.
LEMMA PoseBounds ==
  ASSUME NEW units \in [Servos -> Int]
  PROVE  /\ -180000 =< Pose(units)[1] /\ Pose(units)[1] =< 180000
         /\ -233598 =< Pose(units)[2] /\ Pose(units)[2] =< 187002
<1>1. units[2] \in Int /\ units[5] \in Int
  BY DEF Servos
<1>2. /\ Pose(units)[1] = UnitsToAngle(2, units[2])
      /\ Pose(units)[2] = UnitsToAngle(5, units[5])
  BY PoseIs DEF Joints
<1>3. QED  BY <1>1, <1>2, AngleBounds, SMT

(* A neck that stands in the pose of some units is read back as those units, *)
(* pan last, clamped to the band: what /servo_both_angles settles at is what *)
(* the servos were told.                                                     *)
THEOREM ReadbackOfPose ==
  \A units \in [Servos -> Int] :
    ReadbackUnits(Pose(units)) = <<ClampUnits(units[5]), ClampUnits(units[2])>>
<1> SUFFICES ASSUME NEW units \in [Servos -> Int]
             PROVE  ReadbackUnits(Pose(units)) = <<ClampUnits(units[5]), ClampUnits(units[2])>>
  OBVIOUS
<1>1. units[2] \in Int /\ units[5] \in Int /\ 2 \in Servos /\ 5 \in Servos
  BY DEF Servos
<1>2. /\ Pose(units)[1] = UnitsToAngle(2, units[2])
      /\ Pose(units)[2] = UnitsToAngle(5, units[5])
      /\ JointOf[2] = 1 /\ JointOf[5] = 2
  BY PoseIs DEF Joints, JointOf, Servos
<1>3. Pose(units) # None
  <2>1. Pose(units)[1] \in Int /\ Pose(units)[2] \in Int
    BY <1>1, <1>2, ClampInBand, SMT DEF UnitsToAngle, Center, PerUnit, Offset, Servos
  <2>2. Pose(units) \in [Joints -> Int]
    BY <2>1, PoseIs DEF Joints
  <2>3. QED  BY <2>2, NeckServoAssumption DEF NeckServoAssumption
<1>4. QED
  BY <1>1, <1>2, <1>3, CalibrationInverts DEF ReadbackUnits
-----------------------------------------------------------------------------
(* The invariant of the whole bring-up. *)

LEMMA SimInvInit == SimInit => SimInv
<1> SUFFICES ASSUME SimInit PROVE SimInv
  OBVIOUS
<1>1. SimTypeOK
  <2>1. model \in BOOLEAN /\ stack \in BOOLEAN
    BY Zenon DEF SimInit
  <2>2. launch \in {"up", "down"} /\ gate \in {"waiting", "ready", "timeout", "died"}
    BY DEF SimInit
  <2>3. elapsed \in 0..Timeout
    BY SimBringupAssumption DEF SimInit, SimBringupAssumption
  <2>4. running \subseteq Processes /\ active \subseteq Controllers /\ seen \subseteq Signals
    BY DEF SimInit, Processes, Others, Controllers
  <2>5. QED  BY <2>1, <2>2, <2>3, <2>4 DEF SimTypeOK
<1>2. NeckFollows /\ NeckComplete
  BY DEF SimInit, NeckInit, NeckFollows, NeckComplete, Centers
<1>3. GateKnows
  BY DEF SimInit, GateKnows
<1>4. QED  BY <1>1, <1>2, <1>3 DEF SimInv

\* A message moves its servo in the bridge's targets, and neck_controller, if
\* it is active, gets the whole pose.
LEMMA MoveKeepsNeck ==
  ASSUME NeckFollows, NeckComplete, NEW s, NEW u \in Inputs, NEW on, ServoMove(s, u, on)
  PROVE  NeckFollows' /\ NeckComplete'
<1>1. CASE s \notin Servos
  BY <1>1 DEF ServoMove, NeckFollows, NeckComplete
<1>2. CASE s \in Servos
  <2>1. /\ told' = [told EXCEPT ![s] = u] /\ targets' = Retarget(s, u)
        /\ heard' = IF on THEN told' ELSE heard
        /\ setpoint' = IF on THEN targets' ELSE setpoint
    BY <1>2 DEF ServoMove
  <2>2. NeckFollows'
    BY <1>2, <2>1, RetargetPose DEF NeckFollows
  <2>3. told' \in [Servos -> Int]
    <3>1. Inputs \cup {Center} \subseteq Int
      BY NeckServoAssumption DEF NeckServoAssumption, Center
    <3>2. told' \in [Servos -> Inputs \cup {Center}]
      BY <2>2 DEF NeckFollows
    <3>3. QED  BY <3>1, <3>2
  <2>4. CASE on
    <3>1. setpoint' = Pose(heard')
      BY <2>1, <2>2, <2>4 DEF NeckFollows
    <3>2. heard' \in [Servos -> Int]
      BY <2>1, <2>3, <2>4
    <3>3. QED  BY <2>2, <3>1, <3>2, PoseBounds DEF NeckComplete
  <2>5. CASE ~on
    BY <2>1, <2>2, <2>5 DEF NeckComplete
  <2>6. QED  BY <2>4, <2>5
<1>3. QED  BY <1>1, <1>2

LEMMA NeckKept ==
  ASSUME NeckFollows, NeckComplete, UNCHANGED <<told, heard, targets, setpoint>>
  PROVE  NeckFollows' /\ NeckComplete'
  BY DEF NeckFollows, NeckComplete

LEMMA NeckNext ==
  ASSUME NeckFollows, NeckComplete, [SimNext]_simVars
  PROVE  NeckFollows' /\ NeckComplete'
<1>1. ASSUME NEW s \in Ids, NEW u \in Inputs, Tell(s, u)
      PROVE  NeckFollows' /\ NeckComplete'
  BY <1>1, MoveKeepsNeck DEF Tell
<1>2. CASE NeckMoves \/ NeckStates \/ NeckReadback
  BY <1>2, NeckKept DEF NeckMoves, NeckStates, NeckReadback, Reach, JointStates, PublishReadback
<1>3. ASSUME UNCHANGED neckVars
      PROVE  NeckFollows' /\ NeckComplete'
  BY <1>3, NeckKept DEF neckVars
<1>4. QED
  BY <1>1, <1>2, <1>3
  DEF SimNext, simVars, ProvideModel, Check, GateDies, StartStack, SimExits, SpawnerExits, Stop,
      Receive

LEMMA SimTypeNext ==
  ASSUME SimTypeOK, [SimNext]_simVars
  PROVE  SimTypeOK'
<1> USE SimBringupAssumption DEF SimBringupAssumption, SimTypeOK
<1>1. CASE ProvideModel  BY <1>1 DEF ProvideModel
<1>2. CASE Check  BY <1>2 DEF Check, TimedOut
<1>3. CASE GateDies  BY <1>3 DEF GateDies
<1>4. CASE StartStack  BY <1>4 DEF StartStack, Processes, Others
<1>5. ASSUME NEW p \in Processes, SimExits(p) \/ Stop(p) PROVE SimTypeOK'
  BY <1>5 DEF SimExits, Stop, OnExit
<1>6. ASSUME NEW c \in Processes, SpawnerExits(c) PROVE SimTypeOK'
  BY <1>6 DEF SpawnerExits, Following, Processes, Controllers
<1>7. ASSUME NEW signal \in Signals, Receive(signal) PROVE SimTypeOK'
  BY <1>7 DEF Receive
<1>8. ASSUME UNCHANGED launchVars PROVE SimTypeOK'
  BY <1>8 DEF launchVars
<1>9. QED
  BY <1>1, <1>2, <1>3, <1>4, <1>5, <1>6, <1>7, <1>8
  DEF SimNext, simVars, Tell, NeckMoves, NeckStates, NeckReadback

LEMMA GateNext ==
  ASSUME GateKnows, [SimNext]_simVars
  PROVE  GateKnows'
<1> USE DEF GateKnows
<1>1. CASE ProvideModel  BY <1>1 DEF ProvideModel
<1>2. CASE Check  BY <1>2 DEF Check, SignalsReady
<1>3. CASE GateDies  BY <1>3 DEF GateDies
<1>4. CASE StartStack  BY <1>4 DEF StartStack
<1>5. ASSUME NEW p \in Processes, SimExits(p) \/ Stop(p) PROVE GateKnows'
  BY <1>5 DEF SimExits, Stop
<1>6. ASSUME NEW c \in Processes, SpawnerExits(c) PROVE GateKnows'
  <2>1. "control" \notin Following(c)
    BY SimBringupAssumption DEF SimBringupAssumption, Following, Others
  <2>2. QED  BY <1>6, <2>1 DEF SpawnerExits
<1>7. ASSUME NEW signal \in Signals, Receive(signal) PROVE GateKnows'
  <2>1. signal = "odom" => model /\ "diff_drive_controller" \in active
    BY <1>7 DEF Receive, Source
  <2>2. QED  BY <1>7, <2>1 DEF Receive
<1>8. ASSUME UNCHANGED launchVars PROVE GateKnows'
  BY <1>8 DEF launchVars
<1>9. QED
  BY <1>1, <1>2, <1>3, <1>4, <1>5, <1>6, <1>7, <1>8
  DEF SimNext, simVars, Tell, NeckMoves, NeckStates, NeckReadback

(* Whatever the applications send and whichever process ends, the neck        *)
(* executes whole poses within its stops, and the gate knows what it reports. *)
THEOREM SimInvariant == SimSpec => []SimInv
<1>1. SimInv /\ [SimNext]_simVars => SimInv'
  BY NeckNext, SimTypeNext, GateNext DEF SimInv
<1>2. QED  BY <1>1, SimInvInit, PTL DEF SimSpec

(* A gate that reports ready has seen the model published and the drive       *)
(* controller active, which it still is unless the simulation has ended.      *)
THEOREM SimReadyMeansDriving == SimSpec => []ReadyMeansDriving
<1>1. SimInv => ReadyMeansDriving
  BY DEF SimInv, GateKnows, ReadyMeansDriving, Signals
<1>2. QED  BY <1>1, SimInvariant, PTL
=============================================================================
