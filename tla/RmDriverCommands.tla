-------------------------- MODULE RmDriverCommands --------------------------
(***************************************************************************)
(* The command callbacks of dual_rm_driver (rm_driver.cpp) over the        *)
(* connection of RmDriverLink: which callback group serves which topic,    *)
(* what a callback shares with the others, what it does to the arm and     *)
(* what it answers.                                                        *)
(*                                                                         *)
(* The some forty callbacks have one shape (convert the message, call the  *)
(* vendor library with m_sockhand, publish the result); what tells them    *)
(* apart for the other actors are the sets of topics below.                *)
(***************************************************************************)
EXTENDS RmDriverLink

CONSTANTS
  MaxCommands,  \* bound on the commands clients publish
  Topics,       \* the topics they use
  UdpHand,      \* parameter udp_hand
  NoTopic       \* topic of a command that has not been published

Commands == 1..MaxCommands

\* The families of callbacks, by the names of their topics.
Moves        == {"movej", "movel", "movec"}
PoseMoves    == {"movej_p"}
Canfd        == {"movej_canfd", "movep_canfd"}
Teach        == {"set_joint_teach", "set_pos_teach", "set_ort_teach"}
ForceSession == {"start_force_position_move", "stop_force_position_move"}
ForceMoves   == {"force_position_move_joint", "force_position_move_pose"}
ForceMode    == {"set_force_postion", "stop_force_postion"}
FrameQueries == {"get_curr_workFrame", "get_current_tool_frame",
                 "get_all_tool_frame", "get_all_work_frame"}
Settings     == {"set_tool_voltage", "set_joint_err_clear"}
Gripper      == {"set_gripper_pick_on", "set_gripper_pick", "set_gripper_position"}
Hand         == {"set_hand_posture", "set_hand_seq", "set_hand_angle", "set_hand_speed",
                 "set_hand_force"}
HandFollow   == {"set_hand_follow_angle", "set_hand_follow_pos"}
Lift         == {"set_lift_speed", "set_lift_height"}
StateQueries == {"get_current_arm_state"}
ForceQueries == {"get_force_data"}

\* Calls that last until the arm has arrived (msg->block is true).
Blocking == Moves \cup PoseMoves

\* Callbacks that publish their data when the call has succeeded, or nothing.
Queries == FrameQueries \cup StateQueries \cup ForceQueries
             \cup {"get_realtime_push", "get_arm_software_version", "get_lift_state"}

\* Callbacks that never publish a result.
Silent == Canfd \cup ForceMoves

\* Callbacks that keep their message in the global copy before the call.
Copying == Queries \cup ForceSession

\* Subscriptions made with sub_opt4, whose callback_group stays unset: the
\* node's default group.
DefaultGroup == Blocking \cup Canfd \cup Teach \cup ForceMoves \cup ForceMode

\* Subscriptions made with sub_opt3, whose callback_group is assigned twice.
Sub4Group == Gripper \cup Hand \cup HandFollow \cup Lift \cup {"get_lift_state"}

\* Subscriptions made with sub_opt2.
Sub2Group == (Queries \ Sub4Group) \cup ForceSession \cup Settings
               \cup {"set_realtime_push", "move_stop", "set_stop_teach",
                     "change_work_frame", "clear_force_data"}

\* Mutant: the stop is subscribed with the options of the moves.
GroupStopDefault(t) ==
  IF t \in DefaultGroup \cup {"move_stop"} THEN "default"
  ELSE IF t \in Sub2Group THEN "sub2" ELSE "sub4"

\* Mutant: the query of the push configuration with those of the tools.
GroupPushSplit(t) ==
  IF t \in DefaultGroup THEN "default"
  ELSE IF t \in Sub2Group \ {"get_realtime_push"} THEN "sub2" ELSE "sub4"

GroupOf(t) ==
  IF t \in DefaultGroup THEN "default" ELSE IF t \in Sub2Group THEN "sub2" ELSE "sub4"

ASSUME RmDriverCommandsAssumption ==
  /\ MaxCommands \in Nat
  /\ Topics \subseteq DefaultGroup \cup Sub2Group \cup Sub4Group
  /\ Callers = {"default", "sub2", "sub4"}
  /\ UdpHand \in BOOLEAN
  /\ NoTopic \notin Topics

VARIABLES
  topic,     \* topic of each command
  phase,     \* "unsent", "queued", "copying", "running", "ok" or "failed"
  replied,   \* commands whose result has been published
  motion,    \* the command whose motion the controller executes, or 0
  handFlag,  \* udp_hand_g
  config,    \* hand_state in the config of Arm_Set_Realtime_Push_Callback
  handPush,  \* whether the controller pushes the state of the hand
  pushOk     \* history: the last push configuration call has succeeded

pushVars == <<handFlag, config, handPush, pushOk>>
commandVars == <<topic, phase, replied, motion, pushVars>>
allVars == <<vars, commandVars>>

CommandsInit ==
  /\ Init
  /\ topic = [c \in Commands |-> NoTopic]
  /\ phase = [c \in Commands |-> "unsent"]
  /\ replied = {} /\ motion = 0
  /\ handFlag = FALSE /\ config = FALSE /\ pushOk = FALSE
  /\ handPush \in BOOLEAN

Open(s) == SocketState(s) = 0
Begun(c) == phase[c] \in {"copying", "running"}
GroupIdle(g) == \A c \in Commands : Begun(c) => GroupOf(topic[c]) # g

-----------------------------------------------------------------------------
(* The constructor and the controller.                                     *)

\* After Arm_Start the constructor configures the push of the controller's
\* state, once and for all reconnections to come.
Construct ==
  /\ MainStart
  /\ handFlag' = UdpHand
  /\ \E ok \in {armUp, FALSE} :
       /\ pushOk' = ok
       /\ handPush' = IF ok THEN UdpHand ELSE handPush
  /\ UNCHANGED <<topic, phase, replied, motion, config>>

\* The arm arrives, or gives its motion up.
Arrive ==
  /\ motion # 0
  /\ motion' = 0
  /\ UNCHANGED <<vars, topic, phase, replied, pushVars>>

-----------------------------------------------------------------------------
(* The command callbacks.                                                  *)

\* A client publishes; a subscription keeps 1000 messages.
Send(c, t) ==
  /\ node # "exited" /\ main = "spin"
  /\ phase[c] = "unsent" /\ \A d \in 1..(c - 1) : phase[d] # "unsent"
  /\ topic' = [topic EXCEPT ![c] = t]
  /\ phase' = [phase EXCEPT ![c] = "queued"]
  /\ UNCHANGED <<vars, replied, motion, pushVars>>

\* Mutant: the callback groups are reentrant.
TakeReentrant(c) ==
  /\ phase[c] = "queued"
  /\ \A d \in 1..(c - 1) : topic[d] = topic[c] => phase[d] # "queued"

\* The executor takes the oldest message of a topic whose group is idle.
Take(c) ==
  /\ phase[c] = "queued"
  /\ \A d \in 1..(c - 1) : topic[d] = topic[c] => phase[d] # "queued"
  /\ GroupIdle(GroupOf(topic[c]))

\* copy = msg, an assignment of a shared_ptr that takes a while
Copy(c) ==
  /\ Spinning /\ Take(c) /\ topic[c] \in Copying
  /\ phase' = [phase EXCEPT ![c] = "copying"]
  /\ UNCHANGED <<vars, topic, replied, motion, pushVars>>

\* The call into the library is made, with m_sockhand as it is.
Call(c) ==
  /\ node # "exited"
  /\ IF topic[c] \in Copying THEN phase[c] = "copying" ELSE Spinning /\ Take(c)
  /\ call' = [call EXCEPT ![GroupOf(topic[c])] = sock]
  /\ phase' = [phase EXCEPT ![c] = "running"]
  /\ UNCHANGED <<envVars, sockVars, main, timerVars, ctrlFlag, node, topic,
                 replied>>

MoveBegin(c) ==
  /\ topic[c] \in Blocking
  /\ Call(c)
  /\ motion' = IF Open(sock) THEN c ELSE motion
  /\ UNCHANGED pushVars

\* udp_hand_g is set before the controller is asked.
SetPushBegin(c) ==
  /\ topic[c] = "set_realtime_push"
  /\ Call(c)
  /\ config' \in BOOLEAN
  /\ handFlag' = config'
  /\ UNCHANGED <<motion, handPush, pushOk>>

ShortBegin(c) ==
  /\ topic[c] \notin Blocking \cup {"set_realtime_push"}
  /\ Call(c)
  /\ UNCHANGED <<motion, pushVars>>

\* Mutant: a query that failed publishes what it has.
RepliesAlways(t, ok) == t \notin Silent

\* Whether a result is published.
Replies(t, ok) == t \notin Silent /\ (t \in Queries => ok)

\* The call returns; it may fail whenever it likes, and does without a
\* connection.
Return(c, ok) ==
  /\ phase[c] = "running"
  /\ ok => Open(call[GroupOf(topic[c])])
  /\ CommandEnd(GroupOf(topic[c]))
  /\ phase' = [phase EXCEPT ![c] = IF ok THEN "ok" ELSE "failed"]
  /\ replied' = replied \cup (IF Replies(topic[c], ok) THEN {c} ELSE {})
  /\ UNCHANGED topic

\* A blocking call returns when the motion is over or the connection is.
MoveEnd(c) ==
  /\ topic[c] \in Blocking
  /\ motion # c \/ ~Open(call[GroupOf(topic[c])])
  /\ \E ok \in BOOLEAN : Return(c, ok)
  /\ UNCHANGED <<motion, pushVars>>

StopEnd(c) ==
  /\ topic[c] = "move_stop"
  /\ \E ok \in BOOLEAN : Return(c, ok) /\ motion' = IF ok THEN 0 ELSE motion
  /\ UNCHANGED pushVars

\* A call that has failed may have reached the controller all the same.
SetPushEnd(c) ==
  /\ topic[c] = "set_realtime_push"
  /\ \E ok \in BOOLEAN :
       /\ Return(c, ok)
       /\ pushOk' = ok
       /\ handPush' \in IF ok THEN {config} ELSE {config, handPush}
  /\ config' = FALSE
  /\ UNCHANGED <<motion, handFlag>>

GetPushEnd(c) ==
  /\ topic[c] = "get_realtime_push"
  /\ \E ok \in BOOLEAN :
       /\ Return(c, ok)
       /\ pushOk' = (ok \/ pushOk)
       /\ handFlag' = IF ok THEN handPush ELSE handFlag
  /\ UNCHANGED <<motion, config, handPush>>

ShortEnd(c) ==
  /\ topic[c] \notin Blocking \cup {"move_stop", "set_realtime_push", "get_realtime_push"}
  /\ \E ok \in BOOLEAN : Return(c, ok)
  /\ UNCHANGED <<motion, pushVars>>

\* Two assignments to copy at once: the old message may be released twice,
\* which ends the process.
CopyRace ==
  /\ \E c, d \in Commands : c # d /\ phase[c] = "copying" /\ phase[d] = "copying"

CopyCrash ==
  /\ node # "exited" /\ CopyRace
  /\ node' = "exited"
  /\ UNCHANGED <<envVars, sockVars, main, timerVars, call, ctrlFlag, commandVars>>

Served(c) == \/ MoveBegin(c) \/ SetPushBegin(c) \/ ShortBegin(c)
             \/ MoveEnd(c) \/ StopEnd(c) \/ SetPushEnd(c) \/ GetPushEnd(c) \/ ShortEnd(c)

TimersStep == HeartTick \/ HeartAnswer \/ UdpStep

\* spin returns only when the callbacks have.
ExitIdle == Exit /\ \A c \in Commands : phase[c] # "copying"

LinkOnly ==
  /\ ArmLost \/ ArmBack \/ Interrupt \/ TimersStep \/ MainProbeOk \/ MainProbeInterrupted
     \/ ExitIdle
  /\ UNCHANGED commandVars

CommandsNext ==
  \/ LinkOnly \/ Construct \/ Arrive \/ CopyCrash
  \/ \E c \in Commands : (\E t \in Topics : Send(c, t)) \/ Copy(c) \/ Served(c)

CommandsSpec == CommandsInit /\ [][CommandsNext]_allVars

\* The executor has a thread for every group and timer, and short calls have
\* timeouts.  That an arm arrives is not assumed.
CommandsFairness == \A c \in Commands : WF_allVars(Copy(c) \/ Served(c))

CommandsFairSpec == CommandsSpec /\ CommandsFairness

-----------------------------------------------------------------------------
(* Properties.                                                             *)

CommandsTypeOK ==
  /\ topic \in [Commands -> Topics \cup {NoTopic}]
  /\ phase \in [Commands -> {"unsent", "queued", "copying", "running", "ok", "failed"}]
  /\ replied \subseteq Commands
  /\ motion \in 0..MaxCommands
  /\ handFlag \in BOOLEAN /\ config \in BOOLEAN /\ handPush \in BOOLEAN /\ pushOk \in BOOLEAN

(* A stop is not held up by the move it is meant for: a blocking move that *)
(* runs when a stop is published comes to its end, although nothing says   *)
(* that the arm ever arrives, unless the call of the stop itself fails.    *)
StopFreesMove ==
  \A s \in Commands : \A m \in Commands \ {s} :
    (topic[s] = "move_stop" /\ phase[s] = "queued" /\ phase[m] = "running")
      ~> (phase[m] # "running" \/ phase[s] = "failed" \/ node # "up")

(* The driver publishes the hand's state if and only if the controller     *)
(* pushes it, whenever the last call about it succeeded and no command     *)
(* that sets it runs: the flag is set before the call, by callbacks and by *)
(* the constructor.                                                        *)
HandFlagAgrees ==
  /\ pushOk
  /\ \A c \in Commands : topic[c] = "set_realtime_push" => ~Begun(c)
  => handFlag = handPush

\* Until the controller answers, the flag is what it has been asked for.
FlagIsAhead ==
  \A c \in Commands : topic[c] = "set_realtime_push" /\ Begun(c) => handFlag = config

\* A callback group runs one command at a time.
OneAGroup ==
  \A c, d \in Commands :
    Begun(c) /\ Begun(d) /\ GroupOf(topic[c]) = GroupOf(topic[d]) => c = d

\* Commands come once the executor spins, and only some keep their message.
Published ==
  \A c \in Commands :
    /\ phase[c] = "unsent" <=> topic[c] = NoTopic
    /\ phase[c] # "unsent" => main = "spin"
    /\ phase[c] = "copying" => topic[c] \in Copying

CommandsInv ==
  CommandsTypeOK /\ HandFlagAgrees /\ FlagIsAhead /\ OneAGroup /\ Published

(* The unlocked global copy is assigned by two callbacks at a time only if *)
(* one of them is that of get_lift_state, the one of them outside sub2.    *)
OnlyLiftRaces ==
  CopyRace => \E c \in Commands : phase[c] = "copying" /\ topic[c] = "get_lift_state"

(* For its clients the driver is an ArmServer.                             *)
Server ==
  INSTANCE ArmServer
    WITH None <- NoTopic,
         Group <- [t \in Topics |-> GroupOf(t)],
         Queries <- Queries, Silent <- Silent,
         replied <- replied,
         phase <- [c \in Commands |-> IF phase[c] = "copying" THEN "running" ELSE phase[c]]
ServesArm == Server!ServerSpec
=============================================================================
