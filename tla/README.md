# Verification of the R2D3 ROS 2 stack

R2D3 is a wheeled robot with two RealMan arms, a lift, a neck and several cameras. This directory
holds TLA+ models of those parts of its software whose correctness depends on the order of things,
the TLC configurations that check them, and proofs about them. Every definition is translated from
the source; `PROJECT.json` ("map") names the lines behind each one, and lists the runs, the mutants,
the hazards, the findings and the theorems.

- [1. The system](#1-the-system): components, state, operations, interactions
- [2. The modules](#2-the-modules): what each models and how it corresponds to the code
- [3. The runs](#3-the-runs): questions, bounds, fairness, properties
- [4. Where the code and its comments disagree](#4-where-the-code-and-its-comments-disagree)
- [5. The proofs](#5-the-proofs)
- [6. What is not modelled](#6-what-is-not-modelled)
- [7. Plan](#7-plan)

To repeat a run: `tlc -config RmControlCareful.cfg MCRmControl`; to repeat the proofs:
`tlapm RmControlProofs.tla`, and likewise for each module whose name ends in `Proofs`.

## 1. The system

```
 MoveIt, test nodes                     catch2object_gripper / _aoyi_hand <--- object poses
        | FollowJointTrajectory                  | movej_p, gripper, lift, get_state
        v                                        v
 dual_rm_control  --- movej_canfd_cmd --->  dual_rm_driver (one per arm)
 (action server, 20 ms set points)               | TCP (rm_service), UDP state
                                                 v
                                          controller of the arm

 ensure_mjcf.py --- /mujoco_robot_description ---> MuJoCo simulation --> wait_for_sim_ready --> Nav2
     ^ by a launch file, or by prewarm-mjcf.py          ^ neck_controller
       while an image is built                          servo_sim_bridge <--- servo topics

 ZED, ZED One, RealSense nodes ---> images, clouds, IMU, transforms, diagnostics
     ^ services, parameters, subscribers that come and go
```

| Component | State it keeps | Operations | Hard behaviour | What makes it correct |
|---|---|---|---|---|
| **Trajectory action server** `dual_rm_control/src/rm_control.cpp` | global vectors `p_joint1_..7_`, `p2.vector_len`, `p2.vector_cnt`, `point_changed` | `handle_goal`, `handle_cancel`, `handle_accepted`, `execute_move` (a detached thread per goal), `timer_callback` (20 ms) | threads share unlocked memory; a cancel while streaming; overlapping goals; SIGINT during a goal | every set point of a goal goes out in order before it succeeds; no race; every goal ends |
| **Arm driver: connection** `dual_rm_driver/.../rm_driver.cpp` | `m_sockhand`, `connect_state`, `come_time`, `ctrl_flag` | constructor, `heart_timer_callback` (100 ms), `udp_timer_callback`, `my_handler`, `~RmArm` | two timers and the commands run in parallel without a lock; the controller goes and comes at any moment | one connection at a time; it comes back; SIGINT ends the node |
| **Arm driver: commands** same file | four callback groups, a queue per topic, the global `copy`, `udp_hand_g` | about forty callbacks of one shape: convert, call the library (which may block), publish a result | a blocking move holds its group; a flag is set before a call that may fail | a stop is not delayed by the move it ends; one result per command; flag and controller agree |
| **Catch demos** `ros2_total_demo/scripts/catch2object_*.py` | `run_state`, `object_pose`, `curret_pose*` | a worker thread and result callbacks | results and poses replaced under the worker; commands lost before discovery | a move starts only after the one before has succeeded |
| **MJCF cache** `r2d3_mujoco/scripts/ensure_mjcf.py` | three files in the cache directory; `abort` | `main`, `_wait_for_stable_output`, `finalize_conversion`, `_forward_signal`, `publish_cached` | signals, kills and reboots at any line; a converter that hangs, pauses or dies | a cache that is accepted is complete, patched and of this description |
| **MJCF pre-warm** `container/prewarm-mjcf.py` | none of its own | discard, start, poll, terminate, verify | stops a process by files that are still being written | success means that the next launch hits the cache |
| **Readiness gate, bring-up** `wait_for_sim_ready.py`, `mujoco_sim.launch.py` | four signals; which processes run | `_on_scan`, `_on_camera`, `_check`; spawners one after the other | a timeout against late signals; a process that dies | the stack is started in every case; "ready" means that the robot can be driven |
| **Neck servo bridge** `ros2_servo_driver/servo_sim_bridge` | `_joint_targets`, `_latest_positions` | `_on_servo_move`, `_on_joint_states`, `_publish_readback` | a command for one joint publishes both | commands stay within the stops; the read-back comes back to what was told |
| **ZED node: control** `zed_camera_component_main.cpp` | some twenty flags; seven mutexes | grab thread, sensors, video and cloud threads; about twenty services; timers; `deInitNode` | modules of the SDK are switched by three threads, may refuse, and must not be switched in a grab | flags and SDK agree; no deadlock; the camera outlives its threads |
| **ZED node: frames, transforms** also `..._video_depth.cpp` | the matrices, their stamps, `mVideoDepthDataReady`; `mOdom2BaseTransf`, `mMap2OdomTransf` | retrieve, hand over, publish; odometry, pose, reset | the grab thread goes on while two threads publish; a reset within a frame | image and depth of one frame; the transforms compose to the pose |
| **ZED node: parameters** | the members behind some forty parameters, their dirty flags | the parameter callback, `applyVideoSettings*` | callback and grab thread without a mutex; a call refused half-way | an accepted change reaches the camera |
| **ZED One node** `zed_camera_one_component_*.cpp` | the same in small: two threads, one mutex; a flag per parameter | the same; it sets parameters of its own from the grab thread | the same | the same |
| **RealSense node** `realsense_node_factory.cpp`, `base_realsense_node.cpp` | `_device`, `_realSenseNode`; the list of IMU messages held back | query thread, device watcher, frame and IMU callbacks, `toggleSensors` | two threads start nodes on one handle; unplugging at any moment; a full list under a mutex locked by hand | starting never ends the process; order is kept; the node comes back |
| **Cubic splines** `rm_control.cpp` | coefficients | `loadData`, `spline`, `getYbyX` | intervals of length 0 | values only: not modelled |

Everything else (launch files, descriptions, demos, container shell scripts, vendor binaries) keeps no
state that decides anything or is third-party; `PROJECT.json` lists it with the reason, and section 6
repeats it.

The hazards in `PROJECT.json` are the hard cases of this table, each at the line where it bites,
with the properties that would catch it going wrong.

## 2. The modules

| Module | Is | Used by |
|---|---|---|
| `RmControl` | the action server, access by access | `MCRmControl`, `RmControlProofs` |
| `TrajectoryStream` | what the server promises: an abstract specification | instantiated in `RmControl` |
| `RmDriverLink` | the connection of a driver | `RmDriverCommands`, `MCRmDriverLink`, `RmDriverProofs` |
| `RmDriverCommands` | the commands over that connection (extends `RmDriverLink`) | `MCRmDriverCommands`, `RmDriverProofs` |
| `ArmServer` | what a driver promises to those who command it: an abstract specification | instantiated in `RmDriverCommands`, extended by `CatchDemo` |
| `CatchDemo` | the catch programs, over two `ArmServer`s | `MCCatchDemo`, `CatchDemoProofs` |
| `EnsureMjcf` | the cache script, its converter, signals and crashes | `PrewarmMjcf`, `MCEnsureMjcf` |
| `PrewarmMjcf` | the pre-warm driver composed with `EnsureMjcf` | `MCPrewarmMjcf`, `MjcfProofs` |
| `NeckServo` | the neck bridge and its arithmetic | `SimBringup` |
| `SimBringup` | launch, simulator, controllers and gate, with the neck | `MCSimBringup`, `SimBringupProofs` |
| `ZedControl` | threads, services, mutexes and SDK modules of the ZED node | `ZedOne` |
| `ZedOne` | the same for the ZED One node (extends `ZedControl`) | `MCZedControl`, `ZedNodesProofs` |
| `ZedPipeline` | a frame of the ZED node, from the grab to the transforms | `MCZedParts`, `ZedPartsProofs` |
| `ZedSettings`, `ZedOneSettings` | the dynamic parameters of the two nodes | `MCZedParts`, `ZedPartsProofs` |
| `RealSense` | the RealSense node | `MCRealSense`, `RealSenseProofs` |

The modules named `MC...` give the constants of the instances TLC checks. Definitions marked
*Mutant* are plausible bugs; no next-state relation uses them. They show that a property notices.

### RmControl

The executor thread (`rclcpp::spin`) runs the action callbacks and the timer callback one at a
time, so `HandleGoal`, `HandleCancel` and `TimerTick` need `timer = "idle"`. Each accepted goal has a
thread of its own, whose place in `execute_move` is `pc[g]`. One action is one access to the shared
state, or a run of accesses no other actor can tell apart, so threads and callback interleave as
finely as the properties can see:

| Code | Actions |
|---|---|
| `execute_move`, up to the branch | `Start` (lowers `point_changed`) |
| the spline branch, per joint: clear, sample | `ClearTime`, `SplineClear`, `SplineSample`, `SplineNext` |
| the branch for one to three points | `RawClear`, `RawPush` |
| storing length, counter, flag | `SetLen`, `SetCnt`, `SetFlag` |
| `while (point_changed)` and its body | `Wait`, `PollAgain`, `PollCanceled`, `PollShutdown` |
| `succeed` | `Finish` |
| `timer_callback` | `TimerTick`, `TimerCompare`, `ReadJoint`, `PublishSample`, `Advance`, `PublishRepeat`, `ResetCnt`, `ResetLen`, `ResetFlag`; `ReadOutOfRange` when `at()` throws |

`vector_cnt++` is a load (`PublishSample`) and a store (`Advance`), because a new thread may store 0
in between. Where two actors are at the same vector and one of them changes it, the behaviour is
undefined: `RacyRead` lets the read return anything (`Other`), `MemoryFault` lets the process die.

`Client` says when the next goal is sent: at any time (*any*), once the last one has ended (*serial*), or only
once it has succeeded (*careful*).

Abstractions:
- A joint value is the pair of goal and sample index; spline values are not computed. The velocity
  and acceleration vectors are filled next to the positions and stand or fall with them.
- `x_out` is a multiple of the 20 ms sample interval, durations are whole milliseconds; the rounding
  of the float accumulation is not modelled.
- `x_out` is a global as well; where two threads fill at once its races are those of `xOut` in whole
  steps of the sampling loop.
- The compiler must re-read `point_changed` in the waiting loop: its body makes calls the compiler
  cannot see into. A load hoisted out of the loop is the mutant `WaitHoisted`.
- `handle_goal` accepts every goal; a goal is sent once.

`TrajectoryStream` is the promise to a client that sends one goal at a time: accept, publish the set
points in order and the last one once more, then succeed, with nothing but `status` and `published`.
`StreamRefinement` states that `RmControl` implements it (`Samples` by `SampleCount`, `Repeats` by
`CountKeepSend + 1`).

### RmDriverLink, RmDriverCommands, ArmServer

`main` is the constructor's place (probe the controller until it answers, `Arm_Start`, spin). The
heartbeat is `HeartTick` and `HeartAnswer`: it takes `m_sockhand`, asks, and stores the answer
later. The UDP timer is `UdpTick`, then either `UdpPublish` or the reconnection `UdpClose`,
`UdpProbeOk`, `UdpStart`, `UdpZero`, `UdpConnected`. A command is `CommandBegin` (it passes
`m_sockhand`) and `CommandEnd`. The vendor library appears only as its callers see it: `ArmStart`
opens a connection or leaves an error code in `m_sockhand`, `ArmClose` closes the current one,
`SocketState` says whether it lives. A failed probe changes nothing and is no step, except after
SIGINT, when the loops leave the process.

`RmDriverCommands` puts messages in front of that: a command is published (`Send`), taken by the thread
of its callback group in the order of its topic, kept in the global `copy` where the callback does so
(`Copy`), served by a library call that may fail with the connection (`Served`) and answered. The sets at
the head of the module are the families of callbacks the code has, and from them follow group, blocking,
answer and copy of each topic. `motion` is what the arm does, so that a blocking move ends when the arm has
arrived, which nothing guarantees, or is stopped. `CommandsNext` interleaves all of this with every step of
`RmDriverLink`.

`ArmServer` is what remains for a client: each message is served at most once, those of one topic in order,
those of one group one at a time, a command is answered and a query only when it succeeds. `ServesArm`
states that `RmDriverCommands` implements it; `CatchDemo` is built on it and need not know about sockets.

### CatchDemo

`Program` is `worker_function` as a sequence of steps: approach, look (lift, state of the arm, object), grasp,
retreat. The worker does one step at a time; callbacks deliver results, poses and objects between any two.
A command may be lost while discovery has not `matched` publisher and subscriber; a result may be missed.
`aoyi` chooses the node with the hand on a socket (its hand step sends nothing to a driver) or the one with
the gripper. The three reads of the object's coordinates are three steps.

### EnsureMjcf

One run of the script at a time (`Start` needs every other run to have ended), several after one
another over the same files. Each change of a file is a step, and a `write_text` is two: the file is
truncated, then written. A file's content is the checksum of the description it was made from,
whether it is complete, which patches fit it and which were applied; so a stale, half-written or
half-patched model differs from a good one. `FinalSteps` is the order of `finalize_conversion`.

The converter is a process: `ConvRead`, `ConvOpen`, `ConvClose`, `ConvExit`, at any speed or never.
It keeps the file it opened (`holders`): after an `unlink` it writes to a file without a name.
Signals are `ForwardSignal` while the script's handlers are installed, `DefaultSignal` elsewhere;
`Kill` and `Reboot` may happen at any line. With `MayOrphan` a run may die and leave its converter
alive; without it such ends are excluded, and this is the assumption of the runs and the proofs.

Assumptions: SIGTERM, then SIGKILL, to the process group has ended every process of the converter
when `wait` returns; two runs never overlap (no lock exists, and nothing claims they may); robot
description and world enter only through their checksum; `robot_input.urdf` is written in one step,
as nobody reads it in between.

### PrewarmMjcf

Extends `EnsureMjcf` with the variable `driver` and with `Child`, the run the driver starts. Before
the driver starts, other launches may have used the cache; then it discards a checksum of another
key, starts the child, polls for the two files, terminates the child and verifies. While it waits 30
seconds, every step of the child but the spinning is over: `WaitTimeout` needs `pc[Child] = "spin"`.

### NeckServo, SimBringup

Angles are integers in 1/3000 of a degree, in which the default calibration is exact, so the round trip
from units to angles and back is computed and not assumed. The bridge's three callbacks are `ServoMove`,
`JointStates` and `PublishReadback`; a history variable keeps what each servo was last told.

`SimBringup` adds the launch: `ensure_mjcf` latches the model, `ros2_control_node` waits for it, the
spawners follow `joint_state_broadcaster`'s, the gate polls its four signals, and its exit, for whatever reason,
starts the stack. Every process may die; some deaths shut the launch down.

### ZedControl, ZedOne

A thread is the sequence of the steps it still has to do (`todo`): grab thread, executor (one callback at a
time, because the node makes no callback group) and the shutdown callback; a step that calls a function puts
the function's steps in front. So the nesting of locks is that of the code: `Locked(l, steps)` is a
`lock_guard`'s scope, and a mutex with the step behind it is one step, unless that is another lock or
`grab()`. The other three threads (sensors, video, cloud) appear by the time they return (`WorkersEnd`); what
the last two do is in `ZedPipeline`.

| Code | Operators and actions |
|---|---|
| `startCamera`, `initThreads`, `initNode` | `StartCamera`: `Connect`, `Configure` (with `DefaultSettings`, `DummyGrab`), `Launch`, `Register` |
| `threadFunc_zedGrab` | `Top`, `CheckTracking`, `CheckModules`, `Grabbed`, `Process` |
| `startPosTrackingLocked`, `startObjDetect`, `start3dMapping`, `startStreamingServer`, ... | `StartTracking`, `StartDetector`, `StartMapping`, `StartStreaming` as steps `Enable`, `Started`, `Disable`, `Halt` |
| services | `Services`, one sequence each, run by `Call` |
| `callback_pubTemp`, `callback_pubFusedPc`, `callback_clickedPoint` | `Callbacks` |
| `threadFunc_pubSensorsData` | `Sense` (with `ReadSensors`) |
| `deInitNode`, `closeCamera` | `DeInit`, entered by `Interrupt` |

The SDK is external: the set of modules it has enabled, and calls that may be refused. `NullCamera` is a
dereference of `mZed` after its reset; it ends the process.

`ZedOne` is the node of the monocular camera with the same steps: `Open` for `startCamera`, two threads, one mutex, a
streaming server and a recording (`SwitchStreaming`, `SwitchRecording`). Its variable `node` chooses which of the two runs, so that one instance checks both.

Abstractions: detectors count as requiring tracking; the GEN_3 tracking mode, GNSS and the real-time pause of
an SVO are left out; depth is on at the start and the sensors have a rate of their own, so all four threads
run; data have no content.

### ZedPipeline

Frames are numbered instead of stamped. The grab thread (`grab` is its place) retrieves image and depth for
the video thread and the cloud for the cloud thread, each under a mutex it only tries; the two threads wait on
a condition variable, publish, sleep. `ready` is the flag of new data. Then follow odometry, pose and
transforms: poses are integers modulo `Poses`, so that composing and inverting mean something, and a reset of
the odometry or a restart of tracking may come between any two steps.

Every retrieval succeeds and every grab brings a frame: the code hands a frame over although none of its
retrievals may have worked (zed_camera_component_video_depth.cpp:1688) and takes a new stamp when one has
(1735-1736), so a buffer that could not be filled keeps the last frame under the new stamp or the old one.
`StampsMatch` and `PairsMatch` rest on the SDK's retrievals; what they show is that threads and mutexes alone
mix nothing up. Corrupted frames, which are processed like good ones, and the pause and the loop of an SVO,
which jump back over `setSVOPosition`, are left out as well.

### ZedSettings, ZedOneSettings

A call changes one parameter or several; the callback's handlers write the members, one after the other, mark
the group as changed and may refuse half-way, after which rclcpp keeps none of the values and the node some.
The grab thread sends a group call by call. Each parameter stands for those the code treats alike (the
comment at the head of each module says which), and `launched` says which camera it is and which parameters are
touched. In `ZedOneSettings` the grab thread sets parameters itself (`SetParameter`), which calls the node's own
callback again.

### RealSense

A connection of the camera is a generation: each time it comes back it is a new device. Two threads start
nodes: the query thread (`Check`, `Query`, `Register`) and librealsense's watcher (`Removed`, `Added`, `Drop`),
with the same steps for the node they build (`ResetNode`, `Built`, `Assign`, `BackendError`, `OtherError`). The
IMU callback and the callbacks of frames (`Pause`, `PublishFrame`, `Resume`) share the list of held messages
and `m_mutex`. Frames and messages are numbered in the order in which they arrive.

Abstractions: two threads that start at once open one device twice, which fails (the race on the handle itself
is this outcome and no other); `wait_for_device_timeout` waits for ever; callbacks of a camera that is gone
return before a new node is built, unless they are blocked on `m_mutex`; rosbag and T265 are left out.

## 3. The runs

| Run | Question | Instance | States |
|---|---|---|---|
| `control_careful` | A client that waits for success: is every set point sent in order before the goal succeeds, without a race, whatever is cancelled, and is the server a `TrajectoryStream`? | four goals in any order: 4 waypoints over 30 ms (3 samples, the last beyond the end), 2 waypoints, none, 5 waypoints over 20 ms (2 samples); 3 joints; all may be cancelled | 5 406 |
| `control_any` | Overlapping goals, cancel and SIGINT at any moment, racing accesses: does every goal end, does the timer come to rest? | two goals (one of each branch, one sample each), 1 joint | 94 655 |
| `driver_link` | Two outages anywhere: one connection, recovery, end at SIGINT? | two callers | 3 512 |
| `driver_commands` | Is a stop held up by its move, do flag and controller agree, is the driver an `ArmServer`? | two commands, one outage; one topic of every shape (blocking move, set point, stop, the two of the push, the query outside the group of the queries) | 320 345 |
| `mjcf` | Signals, kills, reboots at every line: is an accepted cache good, is a published model good, does pre-warm success mean a hit, does everything settle? | three launches, two descriptions, the second launch forced, the third by the pre-warm driver; converter output that fits all patches or all but one | 92 092 |
| `catch_demo` | Does the program go on behind a move that failed, does it end? | the whole program, at most 12 commands, both nodes | 376 352 |
| `sim` | What does "ready" mean when processes die; is the stack always started; does the neck keep its pose? | two controllers behind `joint_state_broadcaster`, a timeout of one period, two moves of known and unknown servos outside the band | 277 561 |
| `zed_control` | Do flags and SDK agree, does anything hang, is a module switched in a grab, is the camera closed under a thread? | both nodes; live camera with mapping, and SVO in a loop; object detection; one service call, pausing aside | 167 924 |
| `zed_parts` | Three parts without a common variable, each alone. Frames: one frame in a pair, stamps, hand-over, transforms. Parameters of both nodes: does an accepted change reach the camera? | 3 frames, 1 reset, 3 poses: video topics of a live camera, one of them from an SVO, the cloud from both, tracking live; 2 changes, 1 refusal, for each group of parameters that are handled together | 354 628 |
| `realsense` | Does starting end the process, is the order kept, does the node come back? | one video callback (`enable_sync`), a list of one message, one unplugging, one backend error, four messages | 316 050 |
| `control_cancel_next`, `mjcf_shutdown` | what a comment says and the code does not do (section 4) | as small as shows it: a cancelled goal of three samples beside one of two waypoints, 2 joints, a client that waits for the end of a goal; one run of the script | |

Why the bounds are enough. *Joints* are treated alike; two show a torn message, and three a joint that
is neither first nor last. *Samples*: three have a first, a middle and a last one. *Goals*: the
server keeps nothing but the globals between goals, so a goal and its successor meet every
leftover; the four of `control_careful` come in every order. `control_any` has one joint and one
sample because every access of two threads and the callback interleaves. *Outages*: two, so that a
reconnection follows a reconnection and is itself interrupted. *Commands*: every property relates two
messages, and the topics give every pair of groups. *Runs of the script*: the third finds
what the second left of what the first left; two descriptions make a stale file distinguishable.
*Catch*: `MaxCommands` does not cut the program off: it is what the program publishes. *Moves of the
neck*: two, so that the second meets what the first left to the other joint. *Service calls of the ZED*: one
at any point of the life of a node whose other threads switch the same modules; a second would only repeat
the first, since services never overlap, but for the pause, which is not counted. *Frames*: the third
meets a thread that has published the first and sleeps or waits with the second. *Changes*: two, so that one
is sent while the other is written. *RealSense*: one unplugging gives two devices and so both starters.

Deadlock is not checked: all goals may have ended, the node may have exited, all runs may have
ended, the frames may be used up.

Fairness. `RmControl`: `WF` of each thread and of the timer, because the operating system runs every
thread and the wall timer fires for ever; none of clients, cancels or SIGINT. `RmDriverLink`: `WF` of
the constructor, both timers and the ends of commands, because the executor has eight threads for
two timer groups and three command groups, so that no callback waits for another, and the library's
calls have timeouts; none of the controller, whose return the properties assume (`<>[]armUp`).
`RmDriverCommands`: `WF` of each command's thread, for the same reason; none of the arm's arrival.
`EnsureMjcf`: `WF` of the script; none of the converter, which may hang. `PrewarmMjcf`: `WF` of the
driver once started, and of the script. `CatchDemo`: `WF` of the worker, of the callbacks and of the drivers;
none of the detector. `SimBringup`: `WF` of the gate's timer, of the launch service and of the neck; none of
the simulation, which may never come up. `ZedControl`: `SF` of grab thread, executor and shutdown, because a
thread that waits for a mutex gets it when it is free again and again: the grab thread lets go of `mPtMutex` in
every iteration; `WF` of the end of the other threads; none of services, interrupts or the SDK. `ZedPipeline`:
`WF` of the threads and `SF` of the two that wait for a mutex; of this the run `zed_parts` assumes only what
`HandedOver` needs, the grab thread, the publishing of the video thread and its mutex. `RealSense`: `WF` of the threads, and the camera
comes back; none of messages.

What the properties say, besides types:

| Module | Property | Says |
|---|---|---|
| `RmControl` | `SucceededMeansSent`, `NoConflict` | a goal that succeeded has streamed every set point in order; no two threads are at one vector with one of them changing it |
| | `CarefulInv` | the inductive invariant behind both: which thread may touch what (`OneThread`, `Handover`), what the vectors hold (`Filling`), how far the stream is (`Streaming`, `Counting`) |
| | `StreamRefinement` | the server is a `TrajectoryStream` |
| | `EveryGoalEnds`, `Quiesces` | no thread waits for ever; the timer comes to rest |
| `RmDriverLink` | `LinkInv`, `Reconnects`, `CommandsRecover`, `InterruptEndsNode` | one connection at a time, and who may act when; it comes back, commands work again, SIGINT ends the node |
| `RmDriverCommands` | `StopFreesMove` | a blocking move ends once a stop is published, although nothing says that the arm arrives |
| | `CommandsInv` (`HandFlagAgrees`, `OneAGroup`), `OnlyLiftRaces` | the push flag agrees with the controller; the unlocked `copy` is assigned by two callbacks only if one is `get_lift_state`'s |
| | `ServesArm` | the driver is an `ArmServer` |
| `EnsureMjcf`, `PrewarmMjcf` | `CacheIsSound`, `PublishedIsPatched`, `CacheInv` | an accepted cache, and what is published, is a complete patched model of its description; the invariant behind it |
| | `PrewarmOkMeansHit`, `EverythingSettles` | success of the pre-warm driver means a hit; runs and driver come to an end |
| `CatchDemo` | `CatchInv` (`StepsAfterSuccess`), `CatchEnds` | past the wait behind a move that move has succeeded, since every command is accounted for (`Accounted`) and a set flag is of the move awaited (`FlagIsFresh`); with nothing lost and nothing failing the program ends |
| `SimBringup` | `ReadyMeansDriving`, `StackStarts` | "ready" means model and drive controller; the stack starts or the launch ends |
| | `SimInv` (`NeckComplete`, `NeckFollows`, `GateKnows`), `ReadbackSettles` | the neck executes whole poses only, within its stops; the read-back comes back to what was told |
| `ZedControl`, `ZedOne` | `ZedInv` (`FlagsMatchSdk`, `MappingObeys`) | flags and SDK agree whenever the module's mutex is free; mapping obeys the last request |
| | `SafeGrab`, `CameraOutlivesThreads`, `CallsReturn` | no module is switched during a grab; the camera is closed behind its threads; no call hangs and an interrupted node closes its camera |
| `ZedPipeline` | `ZpInv` (`PairsMatch`), `StampsMatch`, `HandedOver` | image and depth of a pair are of one frame, because the mutexes hold (`Locked`), the buffers are of one grab (`Retrieved`) and unpublished ones newer (`Fresh`); no frame twice or backwards; none that was handed over is forgotten |
| | `ChainMatches` | the transforms compose to the pose of the SDK |
| `ZedSettings`, `ZedOneSettings` | `SettingsInv` (`SettingsReach`), `OneSettingsInv` | when nothing is marked and nothing is being sent, the camera has what rclcpp has, because what the grab thread has come past the camera has from the node (`AutosKept`, `ManualsKept`, `OthersKept`) and the node from rclcpp (`Told`); the ZED One's own changes come to rest |
| `RealSense` | `RsInv` (`StartIsSafe`, `Undisturbed`, `Held`), `OrderKept`, `HeldLeave`, `Recovers` | starting ends the process only after a failure; publication in the order of arrival; what was held back leaves; the node comes back |

Several properties name what they excuse: `SettingsInv` the change that arrives while its group is being
sent (the flag it sets is cleared with the others), a refused batch and a refusal of the SDK; `CallsReturn`
the interrupt that meets a ZED One whose grab thread has not begun, and resets the flag; `Recovers` the list
that was full, whose `m_mutex` stays locked, and the query thread that puts a dead node in the place of the
live one; `EveryGoalEnds` the process that has been told to end, where `canceled()` of a goal that is executing
throws; `CatchEnds` the program that has lost a message. `StreamRefinement` takes the number of repeats from the
code's `count_keep_send`. These are what the code does; the hazards of `PROJECT.json` that fall under them
carry a note and, where nothing else covers them, no property.

## 4. Where the code and its comments disagree

Shown by a run:

1. `control_cancel_next`: rm_control.cpp:528 says of the waiting loop that it waits until the timer
   has taken out and sent all of the data. The run cancels goal 1 (three samples), which returns with
   `point_changed` still raised, and sends goal 2 (two waypoints) behind it. The trace, step by step:
   - a timer callback tests `point_changed` (657) and enters goal 1's stream (`TimerTick`, `TimerCompare`);
   - goal 2's thread lowers the flag (332), too late for that callback, refills the vectors and stores
     `vector_cnt = 0` (626; `Start`, `RawClear`, `RawPush`, `SetCnt`);
   - the callback publishes what it has read, a set point of goal 1 or a mixture of whatever the race has
     left, and its `vector_cnt++` (684, `Advance`) comes after the 0; goal 2 raises the flag (628, `SetFlag`);
   - goal 2's stream begins at the counter the callback has left, behind its first set point; set point 1 is
     published, by the stream, as the repeat or by the late callback; the stream's own end lowers the flag (718, `ResetFlag`);
   - goal 2 has waited for its own stream and is reported as succeeded (647); its set point 0 was never published.

   Goal 1's first set point may have been published before; the rest is the same.
2. `mjcf_shutdown`: ensure_mjcf.py:671-673 promises that a run asked to shut down does not go on to
   spin. `abort` is looked at for the last time before the patches; a later signal is swallowed
   until the default handlers are back.

Met while modelling, without a run of their own:

- rm_control.cpp:55 gives the arm 1.5 seconds to arrive. `count_keep_send = 1.5 / 20` is an `int`, 0: the last
  point is repeated once. `StreamRefinement` states the repeat there is.
- ensure_mjcf.py:11-13 promises that no subscriber ever sees unpatched output. A converter that a killed run
  left behind may write over the next run's model between its last check and its publication. With
  `MayOrphan` TLC finds this; runs and proofs exclude it.
- common_mono.yaml:43 marks `denoising` of the ZED One as dynamic; the callback refuses it. Line 29 says that
  `whitebalance_temperature` works if `auto_whitebalance` is false; when that is set to false by its own
  parameter, the temperature is not sent.
- zed_camera_one_component_main.cpp:2640 wants one grab after a paused SVO is moved, to update the topics; the
  grab is inside `if (!_svoPause)`, so `_grabOnce` is used up without one.
- README.md:191 of realsense2_camera promises the order of IMU and frames; with two video callbacks (no
  `enable_sync`) the first `Resume` releases what the second frame still holds back. `OrderKept` is checked with one.

What else a maintainer may want to know, most of it visible in the models: the ZED node's fused cloud can keep
a rate above that of the cloud when the latter is lowered; `setSVOPosition`, mapping and recording call the SDK without
`mGrabMutex`; a timer or the clicked point that runs across `closeCamera` dereferences a null pointer
(`NullCamera`); the ZED One's call that changes nothing clears the flag of all pending changes
(`ZedOneSettings`), and a minimum above the maximum passes; after a seek backwards or a loop with SVO stamps the
ZED's IMU publication stops until the old time is reached.

## 5. The proofs

| Theorem | Says | Assumes |
|---|---|---|
| **`RmControlProofs`** | | |
| `RmControlTypeOK` | the globals of the action server keep their types, overlapping goals, cancels, SIGINT and racing reads included | the constants' types |
| `CarefulInvariant` | `CarefulInv` | clients that wait for success, no SIGINT (`Careful`) |
| `CarefulNoConflict`, `CarefulSucceeded` | no two threads are at one vector; a goal that succeeds has been streamed whole | the same |
| `ServesStream` | the server implements the safety part of `TrajectoryStream`, step by step | the same |
| **`RmDriverProofs`** | | |
| `LinkInvariant`, `LinkOneConnection`, `LinkHeartbeatIsCurrent` | the driver holds one connection; no heartbeat answer is outstanding while it is replaced | the constants' types |
| `CommandsLinkInvariant`, `CommandsInvariant` | the callbacks of the commands leave that alone; one command a group, the flag agrees with the controller | the constants' types |
| `CommandsOnlyLiftRaces` | the unlocked `copy` races only with `get_lift_state` | the same |
| `DriverServesArm` | the driver implements `ArmServer`, step by step | the same |
| **`MjcfProofs`** | | |
| `CacheInvariant`, `CacheSound`, `PublishedPatched`, `ConverterIsContained` | an accepted cache is complete, patched and of its description; a run publishes such a model or nothing; the converter ends before its output is patched | `~MayOrphan` |
| `PrewarmInvariant`, `PrewarmCacheSound` | with the pre-warm driver the same holds, and the driver works alone | the same |
| `PrewarmOk` | a verdict *ok* stands for a cache the launch hits | the same |
| **`CatchDemoProofs`** | | |
| `ProgramWellFormed` | in the program every move is waited for and its flag cleared, coordinates are read after an object was seen | the names of the topics |
| `CatchInvariant`, `CatchAfterSuccess` | no step follows a move that failed, whatever the drivers delay, lose or fail | the same |
| `CatchUsesServer` | the demo uses the drivers as `ArmServer` allows | the same |
| **`SimBringupProofs`** | | |
| `CalibrationInverts`, `ReadbackOfPose` | units, angles and units again are the clamped units, for every integer | none |
| `SimInvariant`, `SimReadyMeansDriving` | the neck executes whole poses within its stops; *ready* means model and drive controller | the constants' types |
| **`ZedNodesProofs`** | | |
| `NodesSafeGrab` | no module is switched during `grab()` | the constants' types |
| `NodesCameraOutlivesThreads` | the camera is closed behind its threads | the same |
| `NodesFlagsMatchSdk` | the flags agree with the SDK whenever the module's mutex is free; mapping obeys the last request | the same |
| **`ZedPartsProofs`** | | |
| `ZpInvariant`, `ZpStamps` | image and depth are of one frame; none twice or backwards, live ones with their own stamp | the constants' types |
| `ZpChain` | the transforms compose to the pose | the same, two poses or more |
| `SettingsInvariant` | what rclcpp has accepted has reached the camera when nothing is marked and nothing is being sent | the constants' types |
| `OneSettingsInvariant` | the same of the ZED One, when nothing is due: value, range and mode agree, and what its grab thread sets comes to rest in two rounds | the same; nobody changes an exposure or gain that the instance leaves out (the code declares all three) |
| **`RealSenseProofs`** | | |
| `RsInvariant` | a camera that stays and does not fail is started by one thread, so nothing ends the process | the constants' types |
| `RsOrder` | publication in the order of arrival | the same, and what the property itself says: IMU held back, one callback of frames |

They hold for every number of goals, joints, samples, waypoints, outages, callers, commands, runs, descriptions,
converter outputs, controllers, frames, poses, calls and messages; TLC checks the same formulas on the
instances of section 3. Those without a name in a run are parts of one that has: `OneConnection` and
`HeartbeatIsCurrent` of `LinkInv`, `ConverterContained` of `CacheInv`, `StepsAfterSuccess` of `CatchInv`,
`StreamSafety` of `StreamRefinement`. `~MayOrphan` is the assumption of the runs (section 2); `Careful` says
`Client = "careful"` and `MayShutdown = FALSE`: to another client the server does not keep its promise (section 4),
and SIGINT ends the node in the middle of a goal.

How the proofs go:

- **RmControl.** `TypeOK` is inductive by itself. That a goal succeeds only after its set points were sent is
  not: it depends on `point_changed` being raised by this goal and by no other, so on the next goal finding the
  timer at rest. `CarefulInv` says so: only the last goal's thread is active (`OneThread`), the timer streams nothing
  while that thread fills (`Handover`), the vectors hold a prefix of its samples (`Filling`), what has been
  published is the prefix up to `vector_cnt` (`Streaming`), and the counter of the repeat is behind it (`Counting`).
  A cancelled goal has no successor under such a client, but the timer still streams what it left. The
  refinement maps each publication to one of the abstract server and everything else to a stutter.
- **RmDriverLink.** `OneConnection` is not inductive: before `Arm_Start` nothing may be open, which
  depends on `come_time` having let `Arm_Close` run (`CloseIsDue`, `NothingOpen`), which depends on the
  heartbeat staying out of a reconnection (`ReconnectOwns`, `QueryOwns`). `LinkInv` is their
  conjunction, and the proof takes one action after the other.
- **RmDriverCommands.** Every step of a command is a step of a caller of the connection or none, so `LinkInv`
  carries over. `HandFlagAgrees` needs that the flag is ahead of the controller only while the command that sets
  it is under way (`FlagIsAhead`), which needs one command a group (`OneAGroup`). `ServesArm` needs the place of
  each message in its queue (`Published`).
- **EnsureMjcf, PrewarmMjcf.** `CacheIsSound` says nothing while the checksum is away. `CacheInv` adds what the
  files are at each line: the checksum is away from the first change to the last
  (`ChecksumFollows`), a live converter works for the present run and only in the part of `main` that
  watches it (`ConverterKnows`, `ConverterContained`), and the model carries just the patches of the
  steps already taken (`ModelFollows`, with the table `DoneBefore`). Content and table facts are
  lemmas (`ContentPatched`, `DoneNext`), each action that disturbs the invariant has its own. The driver's
  verdict needs that nobody else uses the cache between its child's end and its look (`DriverAlone`).
- **CatchDemo.** The proof does not go through the program: `WellFormed` says how a move, its wait and its reset
  follow each other, concatenation preserves it (`WellFormedConcat`), and the invariant uses nothing else of it.
- **SimBringup.** `NeckFollows` relates the joints' targets to what the servos were last told, so that a command
  for one joint publishes the other's true target; `GateKnows` says that a signal was seen only after its cause.
- **ZedControl, ZedOne.** The theorems are about sequences of steps, so the invariant is one about their
  shape: `Shaped` says that in what a thread has still to do every `grab()` and every switch of a module stands
  between a lock and an unlock of `mGrabMutex`, that no lock is held across another scope of it, and that
  what a function puts in front keeps that (`Called`, `CalledConcat`, `CalledLocked`). Each action of
  each node is then a move within such a sequence (`Move`), a call (`Calling`), an interrupt or a step of another
  thread (`Rests`); `NodesStep` states this once, and the proofs use it. `GrabInv` adds that a thread in `grab()` holds the
  mutex; `CameraInv` that the joins stand before the close, and that nothing has been launched before the camera is open.
  That flags and SDK agree is false while a thread stands between the call of the SDK and the assignment of the
  flag, and whether it becomes true again depends on what that thread has still to do. `FlagsInv` says for each
  module with a mutex and each thread that these steps lead (`Leads`) from what holds now (`Means`: the thread does not hold
  the mutex, flags and SDK agree, the module is wanted and may be enabled, it is ahead of its flag, its flags are
  cleared, it is running and about to be halted) to the mutex being free. A step of another thread keeps what holds
  because it needs the mutex to disturb it; a call puts in front of the sequence what leads from the same state to
  the same state.
- **ZedPipeline.** `PairsMatch` needs to know which thread may write the buffers (`Locked`), what they hold
  (`Retrieved`), and that what has not been published is newer than what has (`Fresh`). The
  transforms need arithmetic modulo `Poses` (`ComposeBack`).
- **ZedSettings.** `SettingsReach` says nothing while a group is marked or being sent; the invariant says for each
  parameter what holds once the thread is past it (`Passed`: its step is done, and the mark, if set, is about to be
  cleared). A call is a fold: `Handled` says what each handler does to the members, `ParamHandled` puts
  the four in a row, `Called` one or two parameters (`HandleOfTwo` unfolds the fold); what is changed
  is marked, so that either the thread has still to begin or the change is excused. A step of the thread is
  one of four kinds (`SkipInv`, `RefusedInv`, `AcceptedInv`, `SendManualInv`), and `VideoStepsAre` that an
  iteration leaves no declared setting out.
- **ZedOneSettings.** The grab thread sets parameters in the middle of applying them, so a parameter that agrees at rest
  disagrees on the way, and how depends on the statements that are left. What is set together is a family
  (`FamilyOf`: an exposure or gain, white balance, each image setting). `OneInd` says of each family that it is at a stage
  of `Stages` from which the steps that are left lead it (`Leads`, turn by turn: `Turn`) to `"idle"`, and
  `Means` says what holds there: at `"manual"`, that the mode is off and every bound is in the camera, marked or
  about to be overwritten by the value; at `"low"`, that the lower bound is about to be set to the value; at `"settle"`, that
  nothing is marked. A family that somebody has disturbed owes nothing, but in the second round even such a family
  leaves nothing marked: hence the bound on the rounds. A step of one family leaves the others at their stages
  (`Same`), and what it puts in front brings its own from where it is now to where it was going to be (`Brings`).
  `Moved` says what the callback does with one parameter and what follows from it (`FixRange`, `FixValue`);
  `SetParameterInd` uses it for the grab thread's own calls, `CalledOne`, `CalledTwo` and `SetBy` for a
  client's calls of one and two parameters: those meet a family at rest, or it counts as disturbed. `Counted` relates the flag of all
  parameters to the marks, also between counting them and setting the flag.
- **RealSense.** Order needs the place of what is held back among what is published and what is still in a frame's
  callback (`Held`); safety of the start, that without a failure the second starter finds the work done
  (`Undisturbed`, `Connected`).

Only model-checked:
- liveness (`EveryGoalEnds`, `Quiesces`, `Reconnects`, `CommandsRecover`, `InterruptEndsNode`, `StopFreesMove`,
  `EverythingSettles`, `CatchEnds`, `StackStarts`, `ReadbackSettles`, `CallsReturn`, `HandedOver`, `HeldLeave`,
  `Recovers`, and the fairness in `StreamRefinement`): liveness under fairness and `ENABLED` are out of the proof system's reach.

Induction over data (what a recursive definition computes for every input) cannot be proved with the
installed provers; no module here needs a recursive definition.

## 6. What is not modelled

- Values: spline coefficients, poses, image and sensor contents, message layouts, XML text.
- The cubic splines: floating-point arithmetic.
- The open-loop demo sends a fixed list of commands with sleeps and reads no result; the AGV clients send one
  request each and print what they are sent; the test nodes send a goal every five seconds (`RmControl`
  with `Client = "any"` covers such a client); the frame check is arithmetic on one file: no state decides
  anything in them.
- The object detection but for the poses it publishes; the MoveIt and camera demos: straight lines of calls into libraries.
- The vendor library (a binary), the ZED SDK and librealsense: only as their callers see them.
- The controller's own configuration (`Set_UDP_Configuration` is sent once, by the constructor).
- Two launches of `ensure_mjcf.py` at once, an unkillable converter, a full disk.
- Retrievals of the ZED SDK that fail, corrupted frames, and what pausing or restarting an SVO does to frames
  and stamps (section 2, `ZedPipeline`); pausing as such is in `ZedControl`.
- Of the ZED node: GNSS fusion, publication of objects and bodies, the reading of the parameters at the start, the single image
  formats; of the ZED One: options of its opening; of RealSense: filters, alignment, point cloud, parameters,
  diagnostics.
- Launch files without an ordering rule, robot descriptions, container shell scripts.

## 7. Plan

Done, in this order: `RmControl` with `TrajectoryStream`, `RmDriverLink`, `EnsureMjcf`, `PrewarmMjcf`, and
their proofs; then `RmDriverCommands` with `ArmServer`, `CatchDemo`, `NeckServo` and `SimBringup`, `ZedControl` and
`ZedOne`, `ZedPipeline`, the two settings modules, `RealSense`.

Proved since: the invariants and refinements of `RmControl` and `RmDriverCommands`, the verdict of the pre-warm driver,
the catch demos, the neck and the gate, the three theorems about the control of the ZED nodes, the frames and
transforms of the ZED node, the parameters of both ZED nodes, the RealSense node. Every invariant of the runs
is a theorem now, and so is every property of their steps.

Next, in order of weight: the hazards of `PROJECT.json` that are not modelled yet or have no promise to check (a spline with two waypoints
at one time, the stop that overtakes moves in the driver, coordinates read one by one in the gripper demo); the reading
of the ZED node's parameters at the start; the alignment and filters of the RealSense node.
