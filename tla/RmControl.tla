------------------------------ MODULE RmControl ------------------------------
(***************************************************************************)
(* The FollowJointTrajectory action server of                              *)
(* ros2_rm_robot/dual_rm_control/src/rm_control.cpp.                       *)
(*                                                                         *)
(* Three kinds of actors share unlocked globals:                           *)
(*  - the executor thread of rclcpp::spin, which runs the goal and cancel  *)
(*    callbacks and the 20 ms timer callback, one at a time;               *)
(*  - one detached thread per accepted goal, which runs execute_move;      *)
(*  - clients, which send and cancel goals when they like.                 *)
(* Every step below is one access to the shared state (or a run of         *)
(* accesses no other actor can tell apart), so TLC interleaves the threads *)
(* and the timer callback as finely as the properties can see.             *)
(*                                                                         *)
(* A joint value is abstracted to the pair <<goal, sample index>>.  The    *)
(* velocity and acceleration vectors are filled with the positions and     *)
(* never read, so the position vectors stand for all three.                *)
(***************************************************************************)
EXTENDS Integers, Sequences, FiniteSets

CONSTANTS
  Goals,        \* goals clients may send
  Waypoints,    \* trajectory.points.size() of each goal
  Duration,     \* time_from_start of the last point of each goal, in ms
  JointCount,   \* joints of the arm: 7 for arm_type 75 or 72, else 6
  Client,       \* when the next goal is sent: "any" time, after the last one has
                \* ended ("serial"), or only when it has succeeded ("careful")
  Cancellable,  \* goals some client may cancel
  MayShutdown,  \* TRUE: the process may receive SIGINT
  Other         \* a joint value that is no sample of any goal

Joints == 1..JointCount

ASSUME RmControlAssumption ==
  /\ Waypoints \in [Goals -> Nat]
  /\ Duration \in [Goals -> Nat]
  /\ JointCount \in Nat \ {0}
  /\ Client \in {"any", "serial", "careful"}
  /\ Cancellable \subseteq Goals
  /\ MayShutdown \in BOOLEAN

Rate == 20                     \* rate, ms between two samples of the spline
WaitMoveFinishTime == 1500     \* wait_move_finish_time, 1.5 s in ms
MinInterval == 20000           \* min_interval, 20 in the unit of the line above

\* main: the float quotient is stored in an int.
CountKeepSend == WaitMoveFinishTime \div MinInterval

\* Samples execute_move stores for a goal: x_out runs from 0 in steps of
\* Rate until it is no longer below the duration; up to three waypoints are
\* taken as they are.
SampleCount(g) ==
  IF Waypoints[g] > 3 THEN (Duration[g] + Rate - 1) \div Rate + 1
                      ELSE Waypoints[g]

VARIABLES
  status,        \* status of each goal in the action server
  pc,            \* where the thread of each goal is in execute_move
  joint,         \* joint the thread of each goal is working on
  item,          \* waypoint the thread of each goal is copying
  buffer,        \* p_joint1_ .. p_joint7_
  timeCount,     \* time_from_start_.size()
  xOut,          \* x_out, in units of Rate
  vectorLen,     \* p2.vector_len
  vectorCnt,     \* p2.vector_cnt
  pointChanged,  \* point_changed
  finalJoint,    \* count_final_joint
  timer,         \* where the executor is in timer_callback
  timerJoint,    \* joint timer_callback is reading
  loaded,        \* value of vector_cnt that vector_cnt++ has loaded
  jointMsg,      \* joint_msg.joint
  published,     \* history: messages on rm_driver/movej_canfd_cmd
  node           \* "up", "stopping" after SIGINT, "exited" or "crashed"

goalVars  == <<status, pc, joint, item>>
fillVars  == <<buffer, timeCount, xOut>>
p2Vars    == <<vectorLen, vectorCnt>>
timerVars == <<finalJoint, timer, timerJoint, loaded, jointMsg, published>>

vars == <<goalVars, fillVars, p2Vars, pointChanged, timerVars, node>>

Terminal == {"succeeded", "canceled"}

Running == node \in {"up", "stopping"}

Goto(g, here, there) ==
  /\ Running
  /\ pc[g] = here
  /\ pc' = [pc EXCEPT ![g] = there]

Init ==
  /\ status = [g \in Goals |-> "unsent"]
  /\ pc = [g \in Goals |-> "none"]
  /\ joint = [g \in Goals |-> 1]
  /\ item = [g \in Goals |-> 0]
  /\ buffer = [j \in Joints |-> <<>>]
  /\ timeCount = 0
  /\ xOut = 0
  /\ vectorLen = 0 /\ vectorCnt = 0
  /\ pointChanged = FALSE
  /\ finalJoint = 0
  /\ timer = "idle" /\ timerJoint = 1 /\ loaded = 0
  /\ jointMsg = [j \in Joints |-> Other]
  /\ published = <<>>
  /\ node = "up"

-----------------------------------------------------------------------------
(* Callbacks of the action server, run by the executor between timer       *)
(* callbacks.                                                              *)

\* Whether the clients send a goal while another one has status s.
MayFollow(s) ==
  CASE Client = "any"     -> TRUE
    [] Client = "serial"  -> s \in Terminal \cup {"unsent"}
    [] Client = "careful" -> s \in {"succeeded", "unsent"}

\* handle_goal accepts every goal; rclcpp_action makes it executing and
\* calls handle_accepted, which detaches the thread.
HandleGoal(g) ==
  /\ node = "up" /\ timer = "idle"
  /\ status[g] = "unsent"
  /\ \A h \in Goals \ {g} : MayFollow(status[h])
  /\ status' = [status EXCEPT ![g] = "executing"]
  /\ pc' = [pc EXCEPT ![g] = "start"]
  /\ UNCHANGED <<joint, item, fillVars, p2Vars, pointChanged, timerVars, node>>

\* handle_cancel accepts every request for a goal that is still executing.
HandleCancel(g) ==
  /\ node = "up" /\ timer = "idle"
  /\ g \in Cancellable
  /\ status[g] = "executing"
  /\ status' = [status EXCEPT ![g] = "canceling"]
  /\ UNCHANGED <<pc, joint, item, fillVars, p2Vars, pointChanged, timerVars, node>>

-----------------------------------------------------------------------------
(* execute_move, one detached thread per goal.                             *)

\* point_changed is cleared before the kind of trajectory is looked at.
Start(g) ==
  /\ Goto(g, "start", IF Waypoints[g] > 3 THEN "clearTime"
                      ELSE IF Waypoints[g] > 0 THEN "rawClear" ELSE "finish")
  /\ pointChanged' = FALSE
  /\ joint' = [joint EXCEPT ![g] = 1]
  /\ item' = [item EXCEPT ![g] = 0]
  /\ UNCHANGED <<status, fillVars, p2Vars, timerVars, node>>

ClearTime(g) ==
  /\ Goto(g, "clearTime", "splineClear")
  /\ timeCount' = 0
  /\ UNCHANGED <<status, joint, item, buffer, xOut, p2Vars, pointChanged,
                 timerVars, node>>

SplineClear(g) ==
  /\ Goto(g, "splineClear", "splineFill")
  /\ buffer' = [buffer EXCEPT ![joint[g]] = <<>>]
  /\ xOut' = -1
  /\ UNCHANGED <<status, joint, item, timeCount, p2Vars, pointChanged,
                 timerVars, node>>

\* One turn of the sampling loop of the thread's joint.
SplineSample(g) ==
  /\ Goto(g, "splineFill", "splineFill")
  /\ xOut * Rate < Duration[g]
  /\ xOut' = xOut + 1
  /\ buffer' = [buffer EXCEPT ![joint[g]] = Append(@, <<g, xOut + 1>>)]
  /\ timeCount' = IF joint[g] = 1 THEN timeCount + 1 ELSE timeCount
  /\ UNCHANGED <<status, joint, item, p2Vars, pointChanged, timerVars, node>>

SplineNext(g) ==
  /\ Goto(g, "splineFill", IF joint[g] < JointCount THEN "splineClear" ELSE "setLen")
  /\ xOut * Rate >= Duration[g]
  /\ joint' = [joint EXCEPT ![g] = IF @ < JointCount THEN @ + 1 ELSE @]
  /\ UNCHANGED <<status, item, fillVars, p2Vars, pointChanged, timerVars, node>>

RawClear(g) ==
  /\ Goto(g, "rawClear", IF joint[g] < JointCount THEN "rawClear" ELSE "rawPush")
  /\ buffer' = [buffer EXCEPT ![joint[g]] = <<>>]
  /\ joint' = [joint EXCEPT ![g] = IF @ < JointCount THEN @ + 1 ELSE 1]
  /\ UNCHANGED <<status, item, timeCount, xOut, p2Vars, pointChanged,
                 timerVars, node>>

\* The copying loop: waypoint by waypoint, joint by joint.
RawPush(g) ==
  LET lastJoint == joint[g] = JointCount
      lastItem  == item[g] + 1 = Waypoints[g]
  IN
  /\ Goto(g, "rawPush", IF lastJoint /\ lastItem THEN "setLen" ELSE "rawPush")
  /\ buffer' = [buffer EXCEPT ![joint[g]] = Append(@, <<g, item[g]>>)]
  /\ joint' = [joint EXCEPT ![g] = IF lastJoint THEN 1 ELSE @ + 1]
  /\ item' = [item EXCEPT ![g] = IF lastJoint THEN @ + 1 ELSE @]
  /\ UNCHANGED <<status, timeCount, xOut, p2Vars, pointChanged, timerVars, node>>

SetLen(g) ==
  /\ Goto(g, "setLen", "setCnt")
  /\ vectorLen' = IF Waypoints[g] > 3 THEN timeCount ELSE Waypoints[g]
  /\ UNCHANGED <<status, joint, item, fillVars, vectorCnt, pointChanged,
                 timerVars, node>>

\* Mutant: the counter starts in front of the first point.
SetCntBefore(g) ==
  /\ Goto(g, "setCnt", "setFlag")
  /\ vectorCnt' = -1
  /\ UNCHANGED <<status, joint, item, fillVars, vectorLen, pointChanged,
                 timerVars, node>>

SetCnt(g) ==
  /\ Goto(g, "setCnt", "setFlag")
  /\ vectorCnt' = 0
  /\ UNCHANGED <<status, joint, item, fillVars, vectorLen, pointChanged,
                 timerVars, node>>

SetFlag(g) ==
  /\ Goto(g, "setFlag", "wait")
  /\ pointChanged' = TRUE
  /\ UNCHANGED <<status, joint, item, fillVars, p2Vars, timerVars, node>>

\* Mutant: the loop is left out.
WaitSkipped(g) ==
  /\ Goto(g, "wait", "finish")
  /\ UNCHANGED <<status, joint, item, fillVars, p2Vars, pointChanged,
                 timerVars, node>>

\* Mutant: the flag is read once, before the loop.
WaitHoisted(g) ==
  /\ Goto(g, "wait", "poll")
  /\ UNCHANGED <<status, joint, item, fillVars, p2Vars, pointChanged,
                 timerVars, node>>

\* while (point_changed)
Wait(g) ==
  /\ Goto(g, "wait", IF pointChanged THEN "poll" ELSE "finish")
  /\ UNCHANGED <<status, joint, item, fillVars, p2Vars, pointChanged,
                 timerVars, node>>

\* if (!rclcpp::ok() || goal_handle->is_canceling()): back to the loop's head
PollAgain(g) ==
  /\ Goto(g, "poll", "wait")
  /\ node = "up" /\ status[g] # "canceling"
  /\ UNCHANGED <<status, joint, item, fillVars, p2Vars, pointChanged,
                 timerVars, node>>

\* ... or report the goal as canceled and return, point_changed as it is.
PollCanceled(g) ==
  /\ Goto(g, "poll", "ended")
  /\ status[g] = "canceling"
  /\ status' = [status EXCEPT ![g] = "canceled"]
  /\ UNCHANGED <<joint, item, fillVars, p2Vars, pointChanged, timerVars, node>>

\* canceled() of a goal that is executing is an invalid transition of the
\* action protocol: rclcpp_action throws, and nothing in the thread catches.
PollShutdown(g) ==
  /\ Goto(g, "poll", "ended")
  /\ node = "stopping" /\ status[g] = "executing"
  /\ node' = "crashed"
  /\ UNCHANGED <<status, joint, item, fillVars, p2Vars, pointChanged, timerVars>>

Finish(g) ==
  /\ Goto(g, "finish", "ended")
  /\ status' = [status EXCEPT ![g] = "succeeded"]
  /\ UNCHANGED <<joint, item, fillVars, p2Vars, pointChanged, timerVars, node>>

FillStep(g) == \/ ClearTime(g) \/ SplineClear(g) \/ SplineSample(g)
               \/ SplineNext(g) \/ RawClear(g) \/ RawPush(g)

ExecuteMove(g) == \/ Start(g) \/ FillStep(g)
                  \/ SetLen(g) \/ SetCnt(g) \/ SetFlag(g)
                  \/ Wait(g) \/ PollAgain(g) \/ PollCanceled(g) \/ PollShutdown(g)
                  \/ Finish(g)

-----------------------------------------------------------------------------
(* timer_callback, run by the executor every 20 ms.                        *)

TimerGoto(here, there) ==
  /\ Running
  /\ timer = here
  /\ timer' = there

\* if (point_changed); the callback does nothing otherwise.
TimerTick ==
  /\ node = "up"
  /\ TimerGoto("idle", "compare")
  /\ pointChanged
  /\ UNCHANGED <<goalVars, fillVars, p2Vars, pointChanged, finalJoint,
                 timerJoint, loaded, jointMsg, published, node>>

\* Mutants of the comparison: one point short, one point too many, no final
\* repeat, and no reset once all is sent.
TimerCompareWith(more, again, last) ==
  /\ TimerGoto("compare", IF more THEN "read" ELSE IF again THEN "repeat" ELSE last)
  /\ timerJoint' = 1
  /\ finalJoint' = IF more \/ again \/ last = "idle" THEN finalJoint ELSE 0
  /\ UNCHANGED <<goalVars, fillVars, p2Vars, pointChanged, loaded, jointMsg,
                 published, node>>

TimerCompareShort ==
  TimerCompareWith(vectorCnt + 1 < vectorLen, finalJoint <= CountKeepSend, "resetCnt")

TimerCompareNoRepeat ==
  TimerCompareWith(vectorCnt < vectorLen, finalJoint < CountKeepSend, "resetCnt")

TimerCompareNoReset ==
  TimerCompareWith(vectorCnt < vectorLen, finalJoint <= CountKeepSend, "idle")

\* A set point is left, or the last one is due once more, or all is sent.
TimerCompare ==
  /\ TimerGoto("compare", IF vectorCnt < vectorLen THEN "read"
                          ELSE IF finalJoint <= CountKeepSend THEN "repeat"
                          ELSE "resetCnt")
  /\ timerJoint' = 1
  /\ finalJoint' = IF vectorCnt >= vectorLen /\ finalJoint > CountKeepSend
                   THEN 0 ELSE finalJoint
  /\ UNCHANGED <<goalVars, fillVars, p2Vars, pointChanged, loaded, jointMsg,
                 published, node>>

\* The index at() is called with: vector_cnt, or vector_cnt - 1 in a repeat.
ReadIndex == IF timer = "repeat" THEN vectorCnt - 1 ELSE vectorCnt

InRange == ReadIndex \in 0..(Len(buffer[timerJoint]) - 1)

Reading == timer \in {"read", "repeat"} /\ timerJoint \in Joints

ReadJoint ==
  /\ Running /\ Reading /\ InRange
  /\ jointMsg' = [jointMsg EXCEPT ![timerJoint] = buffer[timerJoint][ReadIndex + 1]]
  /\ timerJoint' = timerJoint + 1
  /\ UNCHANGED <<goalVars, fillVars, p2Vars, pointChanged, finalJoint, timer,
                 loaded, published, node>>

\* at() throws std::out_of_range through spin and main.
ReadOutOfRange ==
  /\ Running /\ Reading /\ ~InRange
  /\ node' = "crashed"
  /\ UNCHANGED <<goalVars, fillVars, p2Vars, pointChanged, timerVars>>

PublishSample ==
  /\ timerJoint > JointCount
  /\ TimerGoto("read", "advance")
  /\ published' = Append(published, jointMsg)
  /\ loaded' = vectorCnt
  /\ UNCHANGED <<goalVars, fillVars, p2Vars, pointChanged, finalJoint,
                 timerJoint, jointMsg, node>>

Advance ==
  /\ TimerGoto("advance", "idle")
  /\ vectorCnt' = loaded + 1
  /\ UNCHANGED <<goalVars, fillVars, vectorLen, pointChanged, finalJoint,
                 timerJoint, loaded, jointMsg, published, node>>

PublishRepeat ==
  /\ timerJoint > JointCount
  /\ TimerGoto("repeat", "idle")
  /\ published' = Append(published, jointMsg)
  /\ finalJoint' = finalJoint + 1
  /\ UNCHANGED <<goalVars, fillVars, p2Vars, pointChanged, timerJoint, loaded,
                 jointMsg, node>>

ResetCnt ==
  /\ TimerGoto("resetCnt", "resetLen")
  /\ vectorCnt' = 0
  /\ UNCHANGED <<goalVars, fillVars, vectorLen, pointChanged, finalJoint,
                 timerJoint, loaded, jointMsg, published, node>>

ResetLen ==
  /\ TimerGoto("resetLen", "resetFlag")
  /\ vectorLen' = 0
  /\ UNCHANGED <<goalVars, fillVars, vectorCnt, pointChanged, finalJoint,
                 timerJoint, loaded, jointMsg, published, node>>

\* Only now may the thread that waits go on.
ResetFlag ==
  /\ TimerGoto("resetFlag", "idle")
  /\ pointChanged' = FALSE
  /\ UNCHANGED <<goalVars, fillVars, p2Vars, finalJoint, timerJoint, loaded,
                 jointMsg, published, node>>

TimerStep == \/ TimerTick \/ TimerCompare \/ ReadJoint \/ ReadOutOfRange
             \/ PublishSample \/ Advance \/ PublishRepeat
             \/ ResetCnt \/ ResetLen \/ ResetFlag

-----------------------------------------------------------------------------
(* Unsynchronised access and the end of the process.                       *)

\* Threads between the first and the last access to the vector of a joint.
Writers(j) ==
  {g \in Goals : joint[g] = j /\
     pc[g] \in {"splineClear", "splineFill", "rawClear", "rawPush"}}

\* clear, push_back or at on a vector another thread is changing is
\* undefined: the read may return anything ...
RacyRead ==
  /\ Running /\ Reading
  /\ Writers(timerJoint) # {}
  /\ jointMsg' = [jointMsg EXCEPT ![timerJoint] = Other]
  /\ timerJoint' = timerJoint + 1
  /\ UNCHANGED <<goalVars, fillVars, p2Vars, pointChanged, finalJoint, timer,
                 loaded, published, node>>

\* ... and any of the accesses may end the process.
Conflict ==
  \E j \in Joints : \E g \in Writers(j) :
     (Reading /\ timerJoint = j) \/ Writers(j) # {g}

MemoryFault ==
  /\ Running /\ Conflict
  /\ node' = "crashed"
  /\ UNCHANGED <<goalVars, fillVars, p2Vars, pointChanged, timerVars>>

\* SIGINT: rclcpp::ok() is false from here on and no callback is started.
Shutdown ==
  /\ MayShutdown /\ node = "up"
  /\ node' = "stopping"
  /\ UNCHANGED <<goalVars, fillVars, p2Vars, pointChanged, timerVars>>

\* main returns once spin has, whatever the detached threads are doing.
Exit ==
  /\ node = "stopping" /\ timer = "idle"
  /\ node' = "exited"
  /\ UNCHANGED <<goalVars, fillVars, p2Vars, pointChanged, timerVars>>

-----------------------------------------------------------------------------

Next == \/ \E g \in Goals : HandleGoal(g) \/ HandleCancel(g) \/ ExecuteMove(g)
        \/ TimerStep
        \/ RacyRead \/ MemoryFault \/ Shutdown \/ Exit

Spec == Init /\ [][Next]_vars

\* The operating system runs every thread and the wall timer keeps firing.
Fairness == /\ \A g \in Goals : WF_vars(ExecuteMove(g))
            /\ WF_vars(TimerStep)

FairSpec == Spec /\ Fairness

-----------------------------------------------------------------------------
(* Properties.                                                             *)

Sample == Goals \X Int
Message == [Joints -> Sample \cup {Other}]

\* Where the thread of a goal can be: in front of the step of that name.
Places == {"none", "start", "clearTime", "splineClear", "splineFill", "rawClear",
           "rawPush", "setLen", "setCnt", "setFlag", "wait", "poll", "finish", "ended"}

GoalsTypeOK ==
  /\ status \in [Goals -> {"unsent", "executing", "canceling"} \cup Terminal]
  /\ pc \in [Goals -> Places]
  /\ joint \in [Goals -> Joints]
  /\ item \in [Goals -> Nat]

FillTypeOK ==
  /\ buffer \in [Joints -> Seq(Sample)]
  /\ timeCount \in Nat
  /\ xOut \in Int

CountersTypeOK ==
  /\ vectorLen \in Nat
  /\ vectorCnt \in Nat
  /\ loaded \in Nat
  /\ finalJoint \in Nat
  /\ timerJoint \in 1..(JointCount + 1)

TimerTypeOK ==
  /\ timer \in {"idle", "compare", "read", "repeat", "advance",
               "resetCnt", "resetLen", "resetFlag"}
  /\ jointMsg \in Message
  /\ published \in Seq(Message)

TypeOK ==
  /\ GoalsTypeOK /\ FillTypeOK /\ CountersTypeOK /\ TimerTypeOK
  /\ pointChanged \in BOOLEAN
  /\ node \in {"up", "stopping", "exited", "crashed"}

\* The message that carries sample k of goal g in every joint.
Whole(g, k) == [j \in Joints |-> <<g, k>>]

Sent(m) == \E i \in 1..Len(published) : published[i] = m

(* A goal is reported as succeeded only when every one of its set points   *)
(* has been published: execute_move waits "for the timer to take the data  *)
(* out and send all of it" (rm_control.cpp:528) before it calls succeed.   *)
SucceededMeansSent ==
  \A g \in Goals : status[g] = "succeeded" =>
     \A k \in 0..(SampleCount(g) - 1) : Sent(Whole(g, k))

(* No two actors are at the same joint vector at once when one of them     *)
(* changes it, although execute_move and timer_callback share the vectors  *)
(* without a lock: point_changed alone keeps them apart.                   *)
NoConflict == ~Conflict /\ node # "crashed"

(* Every accepted goal ends as long as the process lives: whatever other   *)
(* goals, cancels and timer steps do to point_changed, the loop that waits  *)
(* for it is never left waiting.                                           *)
EveryGoalEnds ==
  \A g \in Goals : pc[g] = "start" ~> (status[g] \in Terminal \/ node # "up")

(* Whatever was canceled, the timer runs out of set points: the node comes *)
(* back to the state in which it does nothing.                             *)
Quiesces == []<>(node # "up" \/ (timer = "idle" /\ ~pointChanged))

-----------------------------------------------------------------------------
(* Why a client that waits for success, may cancel and never stops the     *)
(* node sees SucceededMeansSent and NoConflict: the inductive invariant    *)
(* behind the three.  A canceled goal leaves its vectors to the timer,     *)
(* which goes on sending them, so it counts until the end of the run: the  *)
(* careful client sends nothing after it.                                  *)

Careful == Client = "careful" /\ MayShutdown = FALSE

\* What the server then promises.
Stream == INSTANCE TrajectoryStream
            WITH Samples <- [g \in Goals |-> SampleCount(g)],
                 Repeats <- CountKeepSend + 1

Current(g) == status[g] \in {"executing", "canceling", "canceled"}
Waiting(g) == pc[g] \in {"wait", "poll"}
Handed(g) == Waiting(g) \/ status[g] = "canceled"

\* The first n samples of goal g, as the vectors hold them.
Prefix(g, n) == [i \in 1..n |-> <<g, i - 1>>]

Filled(g) == \A j \in Joints : buffer[j] = Prefix(g, SampleCount(g))

SentUpTo(g, n) == \A k \in 0..(n - 1) : Sent(Whole(g, k))

\* At most one goal is neither new nor done, and the statuses say which.
OneThread ==
  /\ node = "up"
  /\ \A g \in Goals :
       /\ status[g] = "unsent" <=> pc[g] = "none"
       /\ status[g] \in Terminal <=> pc[g] = "ended"
  /\ \A g, h \in Goals : Current(g) /\ Current(h) => g = h

\* point_changed hands the vectors over: raised, they are the timer's and
\* the thread waits or is gone; lowered, the timer is idle.
Handover ==
  /\ timer # "idle" => pointChanged
  /\ pointChanged => \E g \in Goals : Handed(g)

\* What the vectors hold at each point of execute_move.
SplineFilling(g) ==
  /\ pc[g] \in {"clearTime", "splineClear", "splineFill"} => Waypoints[g] > 3
  /\ pc[g] = "clearTime" => joint[g] = 1
  /\ pc[g] \in {"splineClear", "splineFill"} =>
       \A j \in 1..(joint[g] - 1) : buffer[j] = Prefix(g, SampleCount(g))
  /\ pc[g] = "splineClear" =>
       timeCount = IF joint[g] = 1 THEN 0 ELSE SampleCount(g)
  /\ pc[g] = "splineFill" =>
       /\ xOut >= -1
       /\ xOut > 0 => (xOut - 1) * Rate < Duration[g]
       /\ buffer[joint[g]] = Prefix(g, xOut + 1)
       /\ timeCount = IF joint[g] = 1 THEN xOut + 1 ELSE SampleCount(g)

RawFilling(g) ==
  /\ pc[g] \in {"rawClear", "rawPush"} => Waypoints[g] \in 1..3
  /\ pc[g] = "rawClear" =>
       /\ item[g] = 0
       /\ \A j \in 1..(joint[g] - 1) : buffer[j] = Prefix(g, 0)
  /\ pc[g] = "rawPush" =>
       /\ item[g] < Waypoints[g]
       /\ \A j \in Joints :
            buffer[j] = Prefix(g, IF j < joint[g] THEN item[g] + 1 ELSE item[g])

FilledUp(g) ==
  /\ pc[g] \in {"setLen", "setCnt", "setFlag"} \/ Handed(g) =>
       SampleCount(g) > 0 /\ Filled(g)
  /\ pc[g] = "setLen" /\ Waypoints[g] > 3 => timeCount = SampleCount(g)
  /\ pc[g] \in {"setCnt", "setFlag"} => vectorLen = SampleCount(g)
  /\ pc[g] = "setFlag" => vectorCnt = 0

Filling == \A g \in Goals : SplineFilling(g) /\ RawFilling(g) /\ FilledUp(g)

\* How far the timer is with the goal whose set points it sends.
TimerSends(g) ==
  /\ timer \in {"idle", "compare", "read", "repeat", "advance"} =>
       /\ vectorLen = SampleCount(g)
       /\ vectorCnt <= SampleCount(g)
       /\ SentUpTo(g, vectorCnt)
  /\ timer \in {"read", "advance"} => vectorCnt < SampleCount(g)
  /\ timer = "read" =>
       \A j \in 1..(timerJoint - 1) : jointMsg[j] = <<g, vectorCnt>>
  /\ timer = "advance" => loaded = vectorCnt /\ Sent(Whole(g, vectorCnt))
  /\ timer = "repeat" => vectorCnt = SampleCount(g)
  /\ timer \in {"resetCnt", "resetLen", "resetFlag"} =>
       SentUpTo(g, SampleCount(g))

Streaming ==
  \A g \in Goals :
    /\ Handed(g) /\ pointChanged => TimerSends(g)
    /\ \/ Handed(g) /\ ~pointChanged
       \/ pc[g] = "finish" \/ status[g] = "succeeded"
       => SentUpTo(g, SampleCount(g))

\* How many set points of a goal are out, and how often the last one is.
TimerCounts(g) ==
  /\ timer \in {"idle", "compare"} =>
       /\ Stream!Progress(g) = vectorCnt + finalJoint
       /\ finalJoint > 0 => vectorCnt = SampleCount(g)
  /\ timer = "read" => Stream!Progress(g) = vectorCnt /\ finalJoint = 0
  /\ timer = "advance" => Stream!Progress(g) = vectorCnt + 1 /\ finalJoint = 0
  /\ timer = "repeat" =>
       /\ Stream!Progress(g) = vectorCnt + finalJoint
       /\ finalJoint <= CountKeepSend
       /\ \A j \in 1..(timerJoint - 1) : jointMsg[j] = <<g, SampleCount(g) - 1>>
  /\ timer \in {"resetCnt", "resetLen", "resetFlag"} =>
       Stream!Progress(g) = Stream!Total(g) /\ finalJoint = 0

Counting ==
  /\ finalJoint <= CountKeepSend + 1
  /\ ~pointChanged => finalJoint = 0
  /\ \A g \in Goals :
       /\ Handed(g) /\ pointChanged => TimerCounts(g)
       /\ pc[g] \notin {"wait", "poll", "finish", "ended"} => Stream!Progress(g) = 0
       /\ \/ Handed(g) /\ ~pointChanged
          \/ pc[g] = "finish" \/ status[g] = "succeeded"
          => Stream!Progress(g) = Stream!Total(g)

CarefulInv ==
  TypeOK /\ OneThread /\ Handover /\ Filling /\ Streaming /\ Counting

(* For a client that waits for success the server is a TrajectoryStream.   *)
StreamRefinement == Stream!StreamSpec
=============================================================================
