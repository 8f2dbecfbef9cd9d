----------------------------- MODULE SimBringup -----------------------------
(***************************************************************************)
(* The bring-up of the MuJoCo simulation (mujoco_sim.launch.py,            *)
(* bringup_sim.launch.py) with its readiness gate (wait_for_sim_ready.py)  *)
(* and the neck of NeckServo. The MJCF provider is abstracted to the model *)
(* it latches: EnsureMjcf has its steps. The physics, the controller       *)
(* manager and the launch service are external, modelled from their use.   *)
(***************************************************************************)
EXTENDS NeckServo

CONSTANTS
  Spawned,  \* the controllers spawned after joint_state_broadcaster's spawner
  Timeout   \* --timeout of the gate, in periods of its timer

Jsb == "joint_state_broadcaster"
Controllers == Spawned \cup {Jsb}

\* What the launch starts beside the spawners; no controller bears such a name.
Others == {"ensure_mjcf", "control", "gate", "stack"}

ASSUME SimBringupAssumption ==
  /\ {"diff_drive_controller", "neck_controller"} \subseteq Spawned
  /\ Spawned \cap (Others \cup {Jsb}) = {}
  /\ Timeout \in Nat \ {0}

VARIABLES
  launch,    \* "up" or "down": the launch service is shutting down
  running,   \* the processes that run (spawners by their controllers' names)
  model,     \* /mujoco_robot_description is latched
  active,    \* the controllers that are active
  seen,      \* the gate's signals: "scan", "camera", "odom" and "laser"
  elapsed,   \* periods since the gate has started
  gate,      \* "waiting", or why it exited: "ready", "timeout" or "died"
  stack      \* SLAM, Nav2 and MoveIt have been started

launchVars == <<launch, running, model, active, seen, elapsed, gate, stack>>
simVars == <<neckVars, launchVars>>

Signals == {"scan", "camera", "odom", "laser"}

SimInit ==
  /\ NeckInit
  /\ launch = "up"
  /\ running = {"ensure_mjcf", "control", "gate", Jsb}
  /\ model = FALSE /\ active = {} /\ seen = {}
  /\ elapsed = 0 /\ gate = "waiting" /\ stack = FALSE

Alive(p) == launch = "up" /\ p \in running

-----------------------------------------------------------------------------
(* The simulation: ensure_mjcf, ros2_control_node and the spawners.        *)

ProvideModel ==
  /\ Alive("ensure_mjcf") /\ ~model
  /\ model' = TRUE
  /\ UNCHANGED <<neckVars, launch, running, active, seen, elapsed, gate, stack>>

\* on_exit=Shutdown() of ensure_mjcf and of ros2_control_node.
OnExit(p) == IF p \in {"ensure_mjcf", "control"} THEN "down" ELSE launch

\* One of them exits by itself.
SimExits(p) ==
  /\ p \in {"ensure_mjcf", "control"} /\ Alive(p)
  /\ running' = running \ {p}
  /\ launch' = OnExit(p)
  /\ active' = IF p = "control" THEN {} ELSE active
  /\ UNCHANGED <<neckVars, model, seen, elapsed, gate, stack>>

\* The spawners started by the exit of the first one, whatever its exit code.
Following(c) == IF c = Jsb THEN Spawned ELSE {}

\* A spawner exits; its controller is active, or it has failed. The hardware,
\* and with it every controller, needs the model.
SpawnerExits(c) ==
  /\ c \in Controllers /\ Alive(c)
  /\ running' = (running \ {c}) \cup Following(c)
  /\ \/ model /\ "control" \in running /\ active' = active \cup {c}
     \/ active' = active
  /\ UNCHANGED <<neckVars, launch, model, seen, elapsed, gate, stack>>

-----------------------------------------------------------------------------
(* The gate.                                                               *)

Source(signal) ==
  CASE signal \in {"scan", "camera"} -> model /\ "control" \in running
    [] signal = "odom" -> "diff_drive_controller" \in active
    [] signal = "laser" -> TRUE

\* _on_scan, _on_camera and the transform listener latch what they receive.
Receive(signal) ==
  /\ gate = "waiting" /\ Alive("gate")
  /\ signal \notin seen /\ Source(signal)
  /\ seen' = seen \cup {signal}
  /\ UNCHANGED <<neckVars, launch, running, model, active, elapsed, gate, stack>>

\* Mutant: the gate does not wait for the odometry.
SignalsReadyNoOdom == Signals \ {"odom"} \subseteq seen
SignalsReady == Signals \subseteq seen

TimedOut == elapsed = Timeout

\* The timer's _check; the signals go before the timeout.
Check ==
  /\ Alive("gate")
  /\ gate' = IF SignalsReady THEN "ready" ELSE IF TimedOut THEN "timeout" ELSE "waiting"
  /\ running' = IF gate' = "waiting" THEN running ELSE running \ {"gate"}
  /\ elapsed' = IF gate' = "waiting" THEN elapsed + 1 ELSE elapsed
  /\ UNCHANGED <<neckVars, launch, model, active, seen, stack>>

\* The gate is interrupted or crashes.
GateDies ==
  /\ Alive("gate")
  /\ gate' = "died"
  /\ running' = running \ {"gate"}
  /\ UNCHANGED <<neckVars, launch, model, active, seen, elapsed, stack>>

\* Mutant: only a gate that found the simulation ready releases the stack.
ReleasedReady == gate = "ready"
Released == gate # "waiting"

\* OnProcessExit of the gate, whatever its exit code.
StartStack ==
  /\ launch = "up" /\ Released /\ ~stack
  /\ stack' = TRUE
  /\ running' = running \cup {"stack"}
  /\ UNCHANGED <<neckVars, launch, model, active, seen, elapsed, gate>>

\* The launch service stops a process; nothing is started any more.
Stop(p) ==
  /\ launch = "down" /\ p \in running
  /\ running' = running \ {p}
  /\ active' = IF p = "control" THEN {} ELSE active
  /\ UNCHANGED <<neckVars, launch, model, seen, elapsed, gate, stack>>

-----------------------------------------------------------------------------
(* The neck, in the running simulation.                                    *)

Tell(s, u) ==
  /\ launch = "up"
  /\ ServoMove(s, u, "neck_controller" \in active)
  /\ UNCHANGED launchVars

NeckMoves == "neck_controller" \in active /\ (\E j \in Joints : Reach(j)) /\ UNCHANGED launchVars
NeckStates == launch = "up" /\ Jsb \in active /\ JointStates /\ UNCHANGED launchVars
NeckReadback == launch = "up" /\ PublishReadback /\ UNCHANGED launchVars

Processes == Others \cup Controllers

SimNext ==
  \/ ProvideModel \/ Check \/ GateDies \/ StartStack
  \/ \E p \in Processes : SimExits(p) \/ SpawnerExits(p) \/ Stop(p)
  \/ \E signal \in Signals : Receive(signal)
  \/ \E s \in Ids, u \in Inputs : Tell(s, u)
  \/ NeckMoves \/ NeckStates \/ NeckReadback

\* Timers fire, the launch service reacts and stops what it started, and the
\* simulated neck moves; nothing makes the simulation come up or stay up.
SimFairness ==
  /\ WF_simVars(Check) /\ WF_simVars(StartStack)
  /\ \A p \in Processes : WF_simVars(Stop(p))
  /\ WF_simVars(NeckMoves) /\ WF_simVars(NeckStates) /\ WF_simVars(NeckReadback)

SimSpec == SimInit /\ [][SimNext]_simVars /\ SimFairness

-----------------------------------------------------------------------------

\* The types; the gate waits no longer than its timeout.
SimTypeOK ==
  /\ launch \in {"up", "down"} /\ running \subseteq Processes
  /\ model \in BOOLEAN /\ active \subseteq Controllers /\ seen \subseteq Signals
  /\ elapsed \in 0..Timeout /\ stack \in BOOLEAN
  /\ gate \in {"waiting", "ready", "timeout", "died"}

\* When the gate reports the simulation ready, the robot can be driven: the
\* model has been published and, unless the simulation has ended since,
\* diff_drive_controller is active (signals_ready and its comment).
ReadyMeansDriving ==
  gate = "ready" => model /\ ("control" \in running => "diff_drive_controller" \in active)

\* What the gate has seen was true then and can end only with the simulation,
\* and what it has reported it has seen.
GateKnows ==
  /\ active # {} => model
  /\ "odom" \in seen => model /\ ("control" \in running => "diff_drive_controller" \in active)
  /\ gate = "ready" => Signals \subseteq seen

SimInv == SimTypeOK /\ NeckFollows /\ NeckComplete /\ GateKnows

\* The navigation stack is started, or the launch is shutting down, whatever
\* the simulation, its spawners and the gate do ("guarantees the gate always
\* exits even if a signal never arrives").
StackStarts == <>(stack \/ launch = "down")

\* Once applications are quiet and the last command has reached the
\* controller, the read-back settles at the units the servos were told, in
\* the band, as long as the simulation runs (rad_to_units inverts
\* units_to_rad through the joints).
ReadbackSettles ==
  <>[](/\ launch = "up" /\ heard = told /\ {"neck_controller", Jsb} \subseteq active
       => readback = <<ClampUnits(told[5]), ClampUnits(told[2])>>)
=============================================================================
