------------------------------ MODULE CatchDemo ------------------------------
(***************************************************************************)
(* The catch demos (catch2object_gripper.py, catch2object_aoyi_hand.py):   *)
(* a worker thread walks through a fixed program of commands and waits     *)
(* while the executor's callbacks replace run_state, curret_pose2,         *)
(* curret_pose3 and object_pose under it.  The drivers of the two arms are *)
(* an ArmServer, which RmDriverCommands implements.                        *)
(***************************************************************************)
EXTENDS ArmServer, Sequences

CONSTANT
  Nothing   \* object_pose or a coordinate before there is one

\* Kinds of steps of worker_function, with the topic of a command.
SendStep(t) == [do |-> "send", topic |-> t]
StepOf(s) == [do |-> s, topic |-> None]

\* publish a movej_p, while self.run_state is False, self.run_state = False
MoveAndWait == <<SendStep("move"), StepOf("awaitRun"), StepOf("reset")>>

Approach == <<SendStep("frame"), StepOf("hand")>> \o MoveAndWait
Look == <<SendStep("lift"), SendStep("state"), StepOf("awaitPoses"), StepOf("awaitObject"),
          StepOf("readX"), StepOf("readY"), StepOf("readZ")>>
Grasp == MoveAndWait \o MoveAndWait \o MoveAndWait \o <<StepOf("hand")>>
Retreat == MoveAndWait \o MoveAndWait \o MoveAndWait

\* Mutant: the flag is cleared once the next command is out.
ProgramResetsLate ==
  Approach \o Look \o MoveAndWait
    \o <<SendStep("move"), StepOf("reset"), StepOf("awaitRun"), StepOf("reset")>>
    \o MoveAndWait \o <<StepOf("hand")>> \o Retreat

\* Mutant: the flag is not cleared before the arm goes to the object.
ProgramNoReset ==
  Approach \o Look \o MoveAndWait \o <<SendStep("move"), StepOf("awaitRun")>>
    \o MoveAndWait \o <<StepOf("hand")>> \o Retreat

Program == Approach \o Look \o Grasp \o Retreat

ASSUME CatchDemoAssumption ==
  /\ Topics = {"frame", "gripper", "move", "lift", "state"}
  /\ Queries = {"state"} /\ Silent = {}
  /\ Nothing \notin {"zero", "place"}

VARIABLES
  aoyi,        \* which node runs: with the Aoyi hand or with the gripper
  pc,          \* the step of Program the worker is at
  sent,        \* number of commands published
  runState,    \* run_state
  pose2,       \* whether curret_pose2 is there
  pose3,       \* whether curret_pose3 is there
  object,      \* object_pose: the origin ("zero") or a place
  camera,      \* the object poses camera_x, camera_y and camera_z are taken from
  delivered,   \* results that have come to their callback
  missed,      \* results nobody was there for
  matched      \* discovery has matched the publishers and the subscriptions

workerVars == <<aoyi, pc, sent, camera>>
callbackVars == <<runState, pose2, pose3, object, delivered, missed>>
catchVars == <<serverVars, workerVars, callbackVars, matched>>

CatchInit ==
  /\ ServerInit
  /\ aoyi \in BOOLEAN /\ pc = 1 /\ sent = 0
  /\ runState = FALSE /\ pose2 = FALSE /\ pose3 = FALSE
  /\ object = Nothing
  /\ camera = {}
  /\ delivered = {} /\ missed = {}
  /\ matched = FALSE

Done == pc > Len(Program)
At(s) == ~Done /\ Program[pc].do = s

-----------------------------------------------------------------------------
(* The worker thread.                                                      *)

\* A command goes out, into the void if nobody is matched yet.
PublishTo(t) ==
  /\ sent < MaxCommands
  /\ sent' = sent + 1 /\ pc' = pc + 1
  /\ Send(sent + 1, t) \/ (~matched /\ Lose(sent + 1, t))
  /\ UNCHANGED <<aoyi, camera, callbackVars, matched>>

PublishCommand == At("send") /\ PublishTo(Program[pc].topic)

\* set_gripper
SetGripper == At("hand") /\ ~aoyi /\ PublishTo("gripper")

\* open_hand and catch_dumb write to a socket of their own.
HandOverSocket ==
  /\ At("hand") /\ aoyi
  /\ pc' = pc + 1
  /\ UNCHANGED <<serverVars, aoyi, sent, camera, callbackVars, matched>>

\* The waits poll in a busy loop; a look that finds nothing is no step.
Await ==
  /\ \/ At("awaitRun") /\ runState
     \/ At("awaitPoses") /\ pose2 /\ pose3
     \/ At("awaitObject") /\ object \notin {Nothing, "zero"}
  /\ pc' = pc + 1
  /\ UNCHANGED <<serverVars, aoyi, sent, camera, callbackVars, matched>>

ResetRun ==
  /\ At("reset")
  /\ runState' = FALSE
  /\ pc' = pc + 1
  /\ UNCHANGED <<serverVars, aoyi, sent, camera, pose2, pose3, object, delivered, missed, matched>>

\* self.object_pose is read once for every coordinate.
ReadCoordinate ==
  /\ At("readX") \/ At("readY") \/ At("readZ")
  /\ camera' = camera \cup {object}
  /\ pc' = pc + 1
  /\ UNCHANGED <<serverVars, aoyi, sent, callbackVars, matched>>

WorkerStep == PublishCommand \/ SetGripper \/ HandOverSocket \/ Await \/ ResetRun \/ ReadCoordinate

-----------------------------------------------------------------------------
(* The drivers, the detector and the executor of this node.                *)

\* Discovery takes a while, and ends.
Match ==
  /\ ~matched /\ matched' = TRUE
  /\ UNCHANGED <<serverVars, workerVars, callbackVars>>

DriverStep(c) ==
  /\ Serve(c) \/ \E result \in {"ok", "failed"} : Answer(c, result)
  /\ UNCHANGED <<workerVars, callbackVars, matched>>

\* A result is lost as well if its subscription is not matched yet.
MissResult(c) ==
  /\ ~matched
  /\ c \in replied \ delivered /\ topic[c] \in {"move", "state"}
  /\ missed' = missed \cup {c}
  /\ UNCHANGED <<serverVars, workerVars, runState, pose2, pose3, object, delivered, matched>>

\* movej_p_callback; the other commands' results have no subscription.
MovejpResult(c) ==
  /\ c \in replied \ (delivered \cup missed) /\ topic[c] = "move"
  /\ delivered' = delivered \cup {c}
  /\ runState' = (phase[c] = "ok")
  /\ UNCHANGED <<serverVars, workerVars, pose2, pose3, object, missed, matched>>

\* The answer of get_current_arm_state is two messages on two topics.
ArmStateResult(c) ==
  /\ c \in replied \ missed /\ topic[c] = "state" /\ ~pose2
  /\ pose2' = TRUE
  /\ UNCHANGED <<serverVars, workerVars, runState, pose3, object, delivered, missed, matched>>

OriginalStateResult(c) ==
  /\ c \in replied \ missed /\ topic[c] = "state" /\ ~pose3
  /\ pose3' = TRUE
  /\ UNCHANGED <<serverVars, workerVars, runState, pose2, object, delivered, missed, matched>>

\* The detector publishes what it sees; without depth that is the origin.
\* Once the coordinates are read, object_pose is not looked at any more.
Detect ==
  /\ pc <= Len(Approach \o Look)
  /\ object' \in {"zero", "place"}
  /\ UNCHANGED <<serverVars, workerVars, runState, pose2, pose3, delivered, missed, matched>>

Callback == \E c \in Commands :
  MovejpResult(c) \/ ArmStateResult(c) \/ OriginalStateResult(c)

CatchNext == \/ WorkerStep \/ Match \/ Callback \/ Detect
             \/ \E c \in Commands : MissResult(c) \/ DriverStep(c)

CatchSpec == CatchInit /\ [][CatchNext]_catchVars

\* Threads run, messages arrive, and the drivers serve what they have.
CatchFairSpec ==
  /\ CatchSpec
  /\ WF_catchVars(WorkerStep) /\ WF_catchVars(Callback)
  /\ \A c \in Commands : WF_catchVars(DriverStep(c))

-----------------------------------------------------------------------------
(* Properties.                                                             *)

CatchTypeOK ==
  /\ topic \in [Commands -> Topics \cup {None}]
  /\ phase \in [Commands -> {"unsent", "lost", "queued", "running", "ok", "failed"}]
  /\ replied \subseteq Commands
  /\ delivered \subseteq replied /\ missed \subseteq replied
  /\ pc \in 1..(Len(Program) + 1)
  /\ sent \in 0..MaxCommands /\ aoyi \in BOOLEAN
  /\ runState \in BOOLEAN /\ pose2 \in BOOLEAN /\ pose3 \in BOOLEAN /\ matched \in BOOLEAN
  /\ object \in {Nothing, "zero", "place"}
  /\ camera \subseteq {"zero", "place"}

(* Past the wait behind a move that move has succeeded: "if it does not    *)
(* succeed, the program is not carried on" (catch2object_gripper.py:209),  *)
(* although the result only sets a flag that is cleared by hand.           *)
StepsAfterSuccess ==
  \A c \in 1..sent :
    topic[c] = "move" /\ (c < sent \/ ~At("awaitRun")) => phase[c] = "ok"

\* Commands are numbered as they go out; only what has come to its end is
\* answered, and a move waited for has been answered with success.
Accounted ==
  /\ \A c \in Commands : phase[c] = "unsent" <=> c > sent
  /\ \A c \in replied : phase[c] \in {"ok", "failed"}
  /\ \A c \in 1..sent :
       topic[c] = "move" /\ (c < sent \/ ~At("awaitRun")) => c \in delivered

\* The flag stands for the last move out and for no other, and is down again
\* before the next one goes out.
FlagIsFresh ==
  /\ At("awaitRun") => sent > 0 /\ topic[sent] = "move"
  /\ runState => /\ At("awaitRun") \/ At("reset")
                 /\ sent \in delivered /\ phase[sent] = "ok"

\* The coordinates are read once there is an object.
Reads == {"readX", "readY", "readZ"}
ObjectSeen == (\E s \in Reads : At(s)) => object # Nothing

CatchInv == CatchTypeOK /\ StepsAfterSuccess /\ Accounted /\ FlagIsFresh /\ ObjectSeen

(* The worker comes through its program when no message is lost, no        *)
(* command fails and the object stays in sight: no result is cleared       *)
(* before it has been seen and no wait is for something that is over.      *)
CatchEnds ==
  \/ <>Done
  \/ <>(missed # {} \/ \E c \in Commands : phase[c] \in {"lost", "failed"})
  \/ []<>(object \in {Nothing, "zero"})
=============================================================================
