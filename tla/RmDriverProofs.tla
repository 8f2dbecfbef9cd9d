--------------------------- MODULE RmDriverProofs ---------------------------
(* dual_rm_driver, for any number of callers, commands, topics and outages:  *)
(* the connection is never doubled and the heartbeat never asks about a dead *)
(* socket; the command callbacks leave that alone, share the hand's flag and *)
(* the copied message as far as their callback groups allow, and serve their *)
(* clients as an ArmServer.                                                  *)
EXTENDS RmDriverCommands, TLAPS

-----------------------------------------------------------------------------
(* The connection. *)

(* LinkInv is inductive: every callback step and every outage keeps it. *)
LEMMA LinkInvInit == Init => LinkInv
<1> SUFFICES ASSUME Init PROVE LinkInv
  OBVIOUS
<1> USE RmDriverLinkAssumption DEF Init, Conns, MaxConn, NoConn, NotCalling, Live
<1>1. TypeOK
  <2>1. armUp \in BOOLEAN  OBVIOUS
  <2>2. node \in {"up", "shutdown", "exited"} /\ ctrlFlag \in BOOLEAN  OBVIOUS
  <2>3. conn \in [Conns -> {"none", "open", "broken", "closed"}]  OBVIOUS
  <2>4. call \in [Callers -> -1..MaxConn]  OBVIOUS
  <2>5. QED  BY <2>1, <2>2, <2>3, <2>4 DEF TypeOK
<1>2. QED
  BY <1>1 DEF LinkInv, OneConnection, HeartbeatIsCurrent, ReconnectOwns, QueryOwns,
              CloseIsDue, NothingOpen, SockNotClosed, TimersSpin

LEMMA LinkInvNext == LinkInv /\ [Next]_vars => LinkInv'
<1> SUFFICES ASSUME LinkInv, [Next]_vars PROVE LinkInv'
  OBVIOUS
<1> USE RmDriverLinkAssumption
    DEF RmDriverLinkAssumption, LinkInv, TypeOK, OneConnection, HeartbeatIsCurrent, ReconnectOwns,
        QueryOwns, CloseIsDue, NothingOpen, SockNotClosed, TimersSpin, Conns,
        MaxConn, NoConn, NotCalling, Live, envVars, sockVars, timerVars
<1>1. CASE ArmLost
  <2>1. TypeOK'
    <3>1. armUp' \in BOOLEAN  BY <1>1, Zenon DEF ArmLost
    <3>2. QED  BY <1>1, <3>1 DEF ArmLost
  <2>2. /\ OneConnection' /\ NothingOpen' /\ SockNotClosed' /\ HeartbeatIsCurrent'
    BY <1>1 DEF ArmLost
  <2>3. ReconnectOwns' /\ QueryOwns' /\ CloseIsDue' /\ TimersSpin'
    BY <1>1 DEF ArmLost
  <2>4. QED  BY <2>1, <2>2, <2>3
<1>2. CASE ArmBack  BY <1>2 DEF ArmBack
<1>3. CASE Interrupt  BY <1>3 DEF Interrupt
<1>4. CASE MainProbeOk  BY <1>4 DEF MainProbeOk
<1>5. CASE MainProbeInterrupted  BY <1>5 DEF MainProbeInterrupted
<1>6. CASE MainStart  BY <1>6 DEF MainStart, ArmStart
<1>7. CASE Exit  BY <1>7 DEF Exit, ArmClose
<1>8. CASE HeartTick  BY <1>8 DEF HeartTick, Spinning
<1>9. CASE HeartAnswer  BY <1>9 DEF HeartAnswer, SocketState
<1>10. CASE UdpTick  BY <1>10 DEF UdpTick, UdpGoto, Spinning
<1>11. CASE UdpPublish  BY <1>11 DEF UdpPublish, UdpGoto
<1>12. CASE UdpClose  BY <1>12 DEF UdpClose, UdpGoto, ArmClose
<1>13. CASE UdpProbeOk  BY <1>13 DEF UdpProbeOk, UdpGoto
<1>14. CASE UdpProbeInterrupted  BY <1>14 DEF UdpProbeInterrupted, UdpGoto
<1>15. CASE UdpStart  BY <1>15, SMTT(60) DEF UdpStart, UdpGoto, ArmStart
<1>16. CASE UdpZero  BY <1>16 DEF UdpZero, UdpGoto
<1>17. CASE UdpConnected  BY <1>17 DEF UdpConnected, UdpGoto
<1>18. ASSUME NEW c \in Callers, CommandBegin(c) \/ CommandEnd(c) PROVE LinkInv'
  BY <1>18, SMTT(60) DEF CommandBegin, CommandEnd, Spinning
<1>19. CASE UNCHANGED vars  BY <1>19 DEF vars
<1>20. QED
  BY <1>1, <1>2, <1>3, <1>4, <1>5, <1>6, <1>7, <1>8, <1>9, <1>10, <1>11, <1>12,
     <1>13, <1>14, <1>15, <1>16, <1>17, <1>18, <1>19
  DEF Next, MainStep, UdpStep

(* The phases of the UDP timer own the connection: everything the heartbeat,  *)
(* the constructor and the UDP timer rely on holds in every reachable state. *)
THEOREM LinkInvariant == Spec => []LinkInv
  BY LinkInvInit, LinkInvNext, PTL DEF Spec

(* Reconnecting never leaves a second socket to the controller open. *)
THEOREM LinkOneConnection == Spec => []OneConnection
<1>1. LinkInv => OneConnection  BY DEF LinkInv
<1>2. QED  BY <1>1, LinkInvariant, PTL

(* The heartbeat asks only about the connection in use. *)
THEOREM LinkHeartbeatIsCurrent == Spec => []HeartbeatIsCurrent
<1>1. LinkInv => HeartbeatIsCurrent  BY DEF LinkInv
<1>2. QED  BY <1>1, LinkInvariant, PTL

-----------------------------------------------------------------------------
(* The callback groups. *)

\* Both callbacks that touch the push configuration are in one group.
LEMMA PushGroup ==
  GroupOf("set_realtime_push") = "sub2" /\ GroupOf("get_realtime_push") = "sub2"
  BY DEF GroupOf, DefaultGroup, Sub2Group, Sub4Group, Blocking, Moves, PoseMoves, Canfd, Teach,
         ForceMoves, ForceMode, Queries, FrameQueries, StateQueries, ForceQueries, Gripper,
         Hand, HandFollow, Lift

\* Every callback that keeps its message is in that group, but one.
LEMMA CopyingGroup ==
  ASSUME NEW t \in Copying, t # "get_lift_state" PROVE GroupOf(t) = "sub2"
<1>1. t \in Queries \cup ForceSession
  BY DEF Copying
<1>2. t \notin DefaultGroup
  BY <1>1 DEF DefaultGroup, Blocking, Moves, PoseMoves, Canfd, Teach, ForceMoves, ForceMode,
     Queries, FrameQueries, StateQueries, ForceQueries, ForceSession
<1>3. t \notin Sub4Group
  BY <1>1 DEF Sub4Group, Gripper, Hand, HandFollow, Lift, Queries, FrameQueries, StateQueries,
     ForceQueries, ForceSession
<1>4. t \in Sub2Group
  BY <1>1, <1>3 DEF Sub2Group
<1>5. QED
  BY <1>2, <1>4 DEF GroupOf

LEMMA SetPushIsShort ==
  "set_realtime_push" \notin Copying /\ "set_realtime_push" \notin Blocking
  BY DEF Copying, Blocking, Moves, PoseMoves, Queries, FrameQueries, StateQueries, ForceQueries,
         ForceSession

-----------------------------------------------------------------------------
(* The connection below the commands. *)

\* A command that begins or ends only notes or forgets its handle.
LEMMA LinkInvOfCall ==
  ASSUME LinkInv, UNCHANGED <<envVars, sockVars, main, timerVars, ctrlFlag>>,
         call' \in [Callers -> -1..MaxConn], node' \in {node, "exited"}
  PROVE  LinkInv'
  BY DEF LinkInv, TypeOK, OneConnection, HeartbeatIsCurrent, ReconnectOwns, QueryOwns, CloseIsDue,
     NothingOpen, SockNotClosed, TimersSpin, envVars, sockVars, timerVars

LEMMA CommandsKeepLink == LinkInv /\ [CommandsNext]_allVars => LinkInv'
<1> SUFFICES ASSUME LinkInv, [CommandsNext]_allVars PROVE LinkInv'
  OBVIOUS
<1>1. CASE LinkOnly \/ Construct
  <2>1. Next
    BY <1>1 DEF LinkOnly, Construct, TimersStep, ExitIdle, Next, MainStep
  <2>2. QED  BY <2>1, LinkInvNext
<1>2. CASE Arrive \/ (\E c \in Commands : (\E t \in Topics : Send(c, t)) \/ Copy(c))
          \/ UNCHANGED allVars
  <2>1. UNCHANGED vars
    BY <1>2 DEF Arrive, Send, Copy, allVars
  <2>2. QED  BY <2>1, LinkInvNext
<1>3. CASE CopyCrash
  BY <1>3, LinkInvOfCall DEF CopyCrash, LinkInv, TypeOK
<1>4. ASSUME NEW c \in Commands, MoveBegin(c) \/ SetPushBegin(c) \/ ShortBegin(c)
      PROVE  LinkInv'
  <2>1. Call(c)
    BY <1>4 DEF MoveBegin, SetPushBegin, ShortBegin
  <2>2. sock \in -1..MaxConn
    BY RmDriverLinkAssumption DEF LinkInv, TypeOK, MaxConn, RmDriverLinkAssumption
  <2>3. QED  BY <2>1, <2>2, LinkInvOfCall DEF Call, LinkInv, TypeOK
<1>5. ASSUME NEW c \in Commands,
             MoveEnd(c) \/ StopEnd(c) \/ SetPushEnd(c) \/ GetPushEnd(c) \/ ShortEnd(c)
      PROVE  LinkInv'
  <2>1. CommandEnd(GroupOf(topic[c]))
    BY <1>5 DEF MoveEnd, StopEnd, SetPushEnd, GetPushEnd, ShortEnd, Return
  <2>2. NotCalling \in -1..MaxConn
    BY RmDriverLinkAssumption DEF NotCalling, MaxConn, RmDriverLinkAssumption
  <2>3. QED  BY <2>1, <2>2, LinkInvOfCall DEF CommandEnd, LinkInv, TypeOK
<1>6. QED
  BY <1>1, <1>2, <1>3, <1>4, <1>5 DEF CommandsNext, Served

(* The commands leave the connection alone: all that RmDriverLink promises of *)
(* the socket, the heartbeat and the reconnection holds under any load.      *)
THEOREM CommandsLinkInvariant == CommandsSpec => []LinkInv
<1>1. CommandsInit => LinkInv
  BY LinkInvInit DEF CommandsInit
<1>2. QED
  BY <1>1, CommandsKeepLink, PTL DEF CommandsSpec

-----------------------------------------------------------------------------
(* CommandsInv is inductive. *)

LEMMA CommandsInvInit == CommandsInit => CommandsInv
<1> SUFFICES ASSUME CommandsInit PROVE CommandsInv
  OBVIOUS
<1> USE RmDriverCommandsAssumption DEF RmDriverCommandsAssumption, CommandsInit
<1>1. CommandsTypeOK
  <2>1. handFlag \in BOOLEAN /\ config \in BOOLEAN /\ handPush \in BOOLEAN /\ pushOk \in BOOLEAN
    BY Zenon
  <2>2. QED  BY <2>1 DEF CommandsTypeOK, Commands
<1>2. \A c \in Commands : phase[c] = "unsent" /\ topic[c] = NoTopic /\ ~Begun(c)
  BY DEF Begun
<1>3. QED
  BY <1>1, <1>2 DEF CommandsInv, HandFlagAgrees, FlagIsAhead, OneAGroup, Published

\* What happens to a command leaves the others where they are.
LEMMA CommandsKept ==
  ASSUME CommandsInv, UNCHANGED commandVars, main' = main \/ main # "spin"
  PROVE  CommandsInv'
<1> USE DEF CommandsInv, commandVars, pushVars
<1>1. \A c \in Commands : Begun(c)' <=> Begun(c)
  BY DEF Begun
<1>2. CommandsTypeOK'
  BY DEF CommandsTypeOK
<1>3. HandFlagAgrees' /\ FlagIsAhead' /\ OneAGroup'
  BY <1>1 DEF HandFlagAgrees, FlagIsAhead, OneAGroup
<1>4. Published'
  BY DEF Published
<1>5. QED
  BY <1>2, <1>3, <1>4

LEMMA LinkOnlyKeeps == ASSUME CommandsInv, LinkOnly PROVE CommandsInv'
<1>1. main' = main \/ main # "spin"
  BY DEF LinkOnly, ArmLost, ArmBack, Interrupt, TimersStep, HeartTick, HeartAnswer, UdpStep,
         UdpTick, UdpPublish, UdpClose, UdpProbeOk, UdpProbeInterrupted, UdpStart, UdpZero,
         UdpConnected, MainProbeOk, MainProbeInterrupted, ExitIdle, Exit, sockVars, timerVars
<1>2. QED
  BY <1>1, CommandsKept DEF LinkOnly

\* The constructor finds no command: the executor does not spin yet.
\* The constructor finds no command: the executor does not spin yet.
LEMMA ConstructKeeps == ASSUME LinkInv, CommandsInv, Construct PROVE CommandsInv'
<1> USE RmDriverCommandsAssumption DEF CommandsInv, RmDriverCommandsAssumption
<1>1. main = "start" /\ main' = "spin"
  BY DEF Construct, MainStart
<1>2. \A c \in Commands : phase[c] = "unsent"
  BY <1>1 DEF Published
<1>3. UNCHANGED <<topic, phase, replied, motion, config>>
  BY DEF Construct
<1>4. \A c \in Commands : ~Begun(c)'
  BY <1>2, <1>3 DEF Begun
<1>5. PICK ok \in {armUp, FALSE} :
        handFlag' = UdpHand /\ pushOk' = ok /\ handPush' = IF ok THEN UdpHand ELSE handPush
  BY DEF Construct
<1>6. ok \in BOOLEAN
  BY DEF LinkInv, TypeOK
<1>7. pushOk' => handFlag' = handPush'
  BY <1>5, <1>6
<1>8. CommandsTypeOK'
  <2>1. UdpHand \in BOOLEAN /\ handPush \in BOOLEAN /\ config' \in BOOLEAN
    BY <1>3 DEF CommandsTypeOK
  <2>2. handFlag' \in BOOLEAN /\ pushOk' \in BOOLEAN /\ handPush' \in BOOLEAN
    BY <1>5, <1>6, <2>1, Zenon
  <2>3. QED  BY <1>3, <2>1, <2>2 DEF CommandsTypeOK
<1>9. QED
  BY <1>1, <1>2, <1>3, <1>4, <1>7, <1>8
  DEF HandFlagAgrees, FlagIsAhead, OneAGroup, Published

LEMMA CommandStepType ==
  ASSUME CommandsTypeOK, NEW c \in Commands, Served(c) \/ Copy(c) \/ (\E t \in Topics : Send(c, t))
  PROVE  /\ topic' \in [Commands -> Topics \cup {NoTopic}]
         /\ phase' \in [Commands -> {"unsent", "queued", "copying", "running", "ok", "failed"}]
         /\ replied' \subseteq Commands
         /\ motion' \in 0..MaxCommands
<1> USE RmDriverCommandsAssumption DEF CommandsTypeOK, RmDriverCommandsAssumption, Commands
<1>1. CASE Copy(c) \/ \E t \in Topics : Send(c, t)
  <2>1. /\ topic' = topic \/ \E t \in Topics : topic' = [topic EXCEPT ![c] = t]
        /\ phase' = [phase EXCEPT ![c] = "copying"] \/ phase' = [phase EXCEPT ![c] = "queued"]
        /\ replied' = replied /\ motion' = motion
    BY <1>1 DEF Copy, Send
  <2>2. topic' \in [Commands -> Topics \cup {NoTopic}]
    BY <2>1
  <2>3. phase' \in [Commands -> {"unsent", "queued", "copying", "running", "ok", "failed"}]
    BY <2>1
  <2>4. QED  BY <2>1, <2>2, <2>3
<1>2. CASE MoveBegin(c) \/ SetPushBegin(c) \/ ShortBegin(c)
  <2>1. motion' \in {motion, c}
    BY <1>2 DEF MoveBegin, SetPushBegin, ShortBegin
  <2>2. /\ UNCHANGED <<topic, replied>>
        /\ phase' = [phase EXCEPT ![c] = "running"]
    BY <1>2 DEF MoveBegin, SetPushBegin, ShortBegin, Call
  <2>3. QED  BY <2>1, <2>2
<1>3. CASE MoveEnd(c) \/ StopEnd(c) \/ SetPushEnd(c) \/ GetPushEnd(c) \/ ShortEnd(c)
  <2>1. PICK ok \in BOOLEAN : Return(c, ok)
    BY <1>3 DEF MoveEnd, StopEnd, SetPushEnd, GetPushEnd, ShortEnd
  <2>2. motion' \in {motion, 0}
    BY <1>3 DEF MoveEnd, StopEnd, SetPushEnd, GetPushEnd, ShortEnd
  <2>3. QED  BY <2>1, <2>2 DEF Return
<1>4. QED
  BY <1>1, <1>2, <1>3 DEF Served

LEMMA PushStepType ==
  ASSUME CommandsTypeOK, NEW c \in Commands, Served(c) \/ Copy(c) \/ (\E t \in Topics : Send(c, t))
  PROVE  handFlag' \in BOOLEAN /\ config' \in BOOLEAN /\ handPush' \in BOOLEAN /\ pushOk' \in BOOLEAN
<1>1. handFlag \in BOOLEAN /\ config \in BOOLEAN /\ handPush \in BOOLEAN /\ pushOk \in BOOLEAN
  BY DEF CommandsTypeOK
<1>2. CASE SetPushBegin(c)
  BY <1>1, <1>2, Zenon DEF SetPushBegin
<1>3. CASE SetPushEnd(c)
  <2>1. PICK ok \in BOOLEAN : pushOk' = ok /\ handPush' \in IF ok THEN {config} ELSE {config, handPush}
    BY <1>3, Zenon DEF SetPushEnd
  <2>2. handFlag' = handFlag /\ config' = FALSE
    BY <1>3 DEF SetPushEnd
  <2>3. QED  BY <1>1, <2>1, <2>2, Zenon
<1>4. CASE GetPushEnd(c)
  <2>1. PICK ok \in BOOLEAN : pushOk' = (ok \/ pushOk) /\ handFlag' = IF ok THEN handPush ELSE handFlag
    BY <1>4, Zenon DEF GetPushEnd
  <2>2. handPush' = handPush /\ config' = config
    BY <1>4 DEF GetPushEnd
  <2>3. QED  BY <1>1, <2>1, <2>2, Zenon
<1>5. CASE UNCHANGED pushVars
  BY <1>1, <1>5, Zenon DEF pushVars
<1>6. QED
  BY <1>2, <1>3, <1>4, <1>5 DEF Served, MoveBegin, ShortBegin, MoveEnd, StopEnd, ShortEnd, Copy, Send

\* A command takes its turn only in a group that is idle, or has it already.
LEMMA TurnKeepsGroups ==
  ASSUME CommandsInv, NEW c \in Commands, NEW p \in {"copying", "running"},
         Begun(c) \/ (phase[c] = "queued" /\ GroupIdle(GroupOf(topic[c]))),
         topic' = topic, phase' = [phase EXCEPT ![c] = p], main' = main,
         p = "copying" => topic[c] \in Copying
  PROVE  /\ OneAGroup' /\ Published'
         /\ \A d \in Commands \ {c} : Begun(d)' <=> Begun(d)
         /\ Begun(c)'
<1> USE DEF CommandsInv, CommandsTypeOK
<1>1. Begun(c)' /\ \A d \in Commands \ {c} : Begun(d)' <=> Begun(d)
  BY DEF Begun
<1>2. \A d \in Commands \ {c} : Begun(d) => GroupOf(topic[d]) # GroupOf(topic[c])
  BY DEF OneAGroup, GroupIdle
<1>3. ASSUME NEW d \in Commands, NEW e \in Commands, Begun(d)', Begun(e)',
             GroupOf(topic[d]) = GroupOf(topic[e])
      PROVE  d = e
  BY <1>1, <1>2, <1>3 DEF OneAGroup
<1>4. OneAGroup'
  BY <1>3 DEF OneAGroup, GroupOf
<1>5. Published'
  BY DEF Published, Begun
<1>6. QED
  BY <1>1, <1>4, <1>5

LEMMA ReturnKeepsGroups ==
  ASSUME CommandsInv, NEW c \in Commands, NEW ok \in BOOLEAN, Return(c, ok)
  PROVE  /\ OneAGroup' /\ Published' /\ phase[c] = "running" /\ topic' = topic
         /\ \A d \in Commands \ {c} : Begun(d)' <=> Begun(d)
         /\ ~Begun(c)'
<1> USE DEF CommandsInv, CommandsTypeOK
<1>1. /\ topic' = topic /\ main' = main /\ phase[c] = "running"
      /\ phase' = [phase EXCEPT ![c] = IF ok THEN "ok" ELSE "failed"]
  BY DEF Return, CommandEnd
<1>2. ~Begun(c)' /\ \A d \in Commands \ {c} : Begun(d)' <=> Begun(d)
  BY <1>1 DEF Begun
<1>3. OneAGroup'
  BY <1>1, <1>2 DEF OneAGroup, GroupOf
<1>4. Published'
  BY <1>1 DEF Published
<1>5. QED
  BY <1>1, <1>2, <1>3, <1>4

LEMMA SendKeeps ==
  ASSUME CommandsInv, NEW c \in Commands, NEW t \in Topics, Send(c, t)
  PROVE  CommandsInv'
<1> USE DEF CommandsInv
<1>1. CommandsTypeOK'
  BY CommandStepType, PushStepType DEF CommandsTypeOK
<1>2. /\ phase[c] = "unsent" /\ main = "spin"
      /\ UNCHANGED <<main, handFlag, config, handPush, pushOk>>
      /\ topic' = [topic EXCEPT ![c] = t] /\ phase' = [phase EXCEPT ![c] = "queued"]
  BY DEF Send, vars, pushVars
<1>3. /\ \A d \in Commands : Begun(d)' <=> Begun(d)
      /\ \A d \in Commands : Begun(d) => topic'[d] = topic[d]
  BY <1>2 DEF Begun, CommandsTypeOK
<1>4. OneAGroup'
  BY <1>2, <1>3 DEF OneAGroup, GroupOf
<1>5. HandFlagAgrees' /\ FlagIsAhead'
  BY <1>2, <1>3 DEF HandFlagAgrees, FlagIsAhead
<1>6. Published'
  <2>1. t # NoTopic
    BY RmDriverCommandsAssumption DEF RmDriverCommandsAssumption
  <2>2. QED  BY <1>2, <2>1 DEF Published, CommandsTypeOK
<1>7. QED
  BY <1>1, <1>4, <1>5, <1>6

LEMMA CopyKeeps ==
  ASSUME CommandsInv, NEW c \in Commands, Copy(c)
  PROVE  CommandsInv'
<1> USE DEF CommandsInv
<1>1. CommandsTypeOK'
  BY CommandStepType, PushStepType DEF CommandsTypeOK
<1>2. /\ phase[c] = "queued" /\ GroupIdle(GroupOf(topic[c])) /\ topic[c] \in Copying
      /\ UNCHANGED <<main, topic, handFlag, config, handPush, pushOk>>
      /\ phase' = [phase EXCEPT ![c] = "copying"]
  BY DEF Copy, Take, vars, pushVars
<1>3. /\ OneAGroup' /\ Published'
      /\ \A d \in Commands \ {c} : Begun(d)' <=> Begun(d)
  BY <1>2, TurnKeepsGroups
<1>4. topic[c] # "set_realtime_push"
  BY <1>2, SetPushIsShort
<1>5. HandFlagAgrees' /\ FlagIsAhead'
  BY <1>2, <1>3, <1>4 DEF HandFlagAgrees, FlagIsAhead
<1>6. QED
  BY <1>1, <1>3, <1>5

LEMMA CallTurn ==
  ASSUME CommandsInv, NEW c \in Commands, Call(c)
  PROVE  /\ OneAGroup' /\ Published' /\ topic' = topic
         /\ \A d \in Commands \ {c} : Begun(d)' <=> Begun(d)
         /\ Begun(c)'
<1>1. Begun(c) \/ (phase[c] = "queued" /\ GroupIdle(GroupOf(topic[c])))
  BY DEF Call, Take, Begun
<1>2. topic' = topic /\ phase' = [phase EXCEPT ![c] = "running"] /\ main' = main
  BY DEF Call
<1>3. QED
  BY <1>1, <1>2, TurnKeepsGroups

LEMMA BeginKeeps ==
  ASSUME CommandsInv, NEW c \in Commands, MoveBegin(c) \/ SetPushBegin(c) \/ ShortBegin(c)
  PROVE  CommandsInv'
<1> USE DEF CommandsInv
<1>1. CommandsTypeOK'
  BY CommandStepType, PushStepType DEF CommandsTypeOK, Served
<1>2. /\ OneAGroup' /\ Published' /\ topic' = topic
      /\ \A d \in Commands \ {c} : Begun(d)' <=> Begun(d)
      /\ Begun(c)'
  BY CallTurn DEF MoveBegin, SetPushBegin, ShortBegin
<1>3. CASE SetPushBegin(c)
  <2>1. topic[c] = "set_realtime_push" /\ handFlag' = config'
    BY <1>3 DEF SetPushBegin
  <2>2. HandFlagAgrees' /\ FlagIsAhead'
    BY <1>2, <2>1 DEF HandFlagAgrees, FlagIsAhead
  <2>3. QED  BY <1>1, <1>2, <2>2
<1>4. CASE MoveBegin(c) \/ ShortBegin(c)
  <2>1. topic[c] # "set_realtime_push" /\ UNCHANGED <<handFlag, config, handPush, pushOk>>
    BY <1>4, SetPushIsShort DEF MoveBegin, ShortBegin, pushVars
  <2>2. HandFlagAgrees' /\ FlagIsAhead'
    BY <1>2, <2>1 DEF HandFlagAgrees, FlagIsAhead
  <2>3. QED  BY <1>1, <1>2, <2>2
<1>5. QED
  BY <1>3, <1>4

\* While a command about the push ends, no other one of them has begun.
LEMMA EndKeeps ==
  ASSUME CommandsInv, NEW c \in Commands,
         MoveEnd(c) \/ StopEnd(c) \/ SetPushEnd(c) \/ GetPushEnd(c) \/ ShortEnd(c)
  PROVE  CommandsInv'
<1> USE DEF CommandsInv
<1>1. CommandsTypeOK'
  BY CommandStepType, PushStepType DEF CommandsTypeOK, Served
<1>2. \/ /\ Return(c, TRUE)
         /\ SetPushEnd(c) => pushOk' /\ handPush' = config
         /\ GetPushEnd(c) => handFlag' = handPush
      \/ /\ Return(c, FALSE)
         /\ SetPushEnd(c) => ~pushOk'
         /\ GetPushEnd(c) => (pushOk' => pushOk) /\ handFlag' = handFlag
  <2>1. CASE SetPushEnd(c)
    <3>1. ~GetPushEnd(c)
      BY <2>1 DEF SetPushEnd, GetPushEnd
    <3>2. PICK ok \in {TRUE, FALSE} : Return(c, ok) /\ pushOk' = ok /\ (ok => handPush' = config)
      BY <2>1 DEF SetPushEnd
    <3>3. CASE ok = TRUE  BY <3>1, <3>2, <3>3
    <3>4. CASE ok = FALSE  BY <3>1, <3>2, <3>4
    <3>5. QED  BY <3>3, <3>4
  <2>2. CASE GetPushEnd(c)
    <3>1. ~SetPushEnd(c)
      BY <2>2 DEF SetPushEnd, GetPushEnd
    <3>2. PICK ok \in {TRUE, FALSE} : /\ Return(c, ok) /\ pushOk' = (ok \/ pushOk)
                                    /\ handFlag' = IF ok THEN handPush ELSE handFlag
      BY <2>2 DEF GetPushEnd
    <3>3. CASE ok = TRUE  BY <3>1, <3>2, <3>3
    <3>4. CASE ok = FALSE  BY <3>1, <3>2, <3>4
    <3>5. QED  BY <3>3, <3>4
  <2>3. CASE MoveEnd(c) \/ StopEnd(c) \/ ShortEnd(c)
    <3>1. ~SetPushEnd(c) /\ ~GetPushEnd(c)
      BY <2>3, SetPushIsShort DEF MoveEnd, StopEnd, ShortEnd, SetPushEnd, GetPushEnd,
         Blocking, Moves, PoseMoves
    <3>2. PICK ok \in {TRUE, FALSE} : Return(c, ok)
      BY <2>3 DEF MoveEnd, StopEnd, ShortEnd
    <3>3. QED  BY <3>1, <3>2
  <2>4. QED  BY <2>1, <2>2, <2>3
<1>3. /\ OneAGroup' /\ Published' /\ phase[c] = "running" /\ topic' = topic
      /\ \A d \in Commands \ {c} : Begun(d)' <=> Begun(d)
      /\ ~Begun(c)'
  BY <1>2, ReturnKeepsGroups
<1>4. Begun(c)
  BY <1>3 DEF Begun
<1>5. ASSUME topic[c] \in {"set_realtime_push", "get_realtime_push"},
             NEW d \in Commands \ {c}, topic[d] = "set_realtime_push"
      PROVE  ~Begun(d)
  BY <1>4, <1>5, PushGroup DEF OneAGroup
<1>6. CASE SetPushEnd(c)
  <2>1. topic[c] = "set_realtime_push" /\ handFlag' = handFlag
    BY <1>6 DEF SetPushEnd
  <2>2. handFlag = config
    BY <1>4, <2>1 DEF FlagIsAhead
  <2>3. HandFlagAgrees' /\ FlagIsAhead'
    BY <1>2, <1>3, <1>5, <1>6, <2>1, <2>2 DEF HandFlagAgrees, FlagIsAhead
  <2>4. QED  BY <1>1, <1>3, <2>3
<1>7. CASE GetPushEnd(c)
  <2>1. topic[c] = "get_realtime_push" /\ UNCHANGED <<config, handPush>>
    BY <1>7 DEF GetPushEnd
  <2>2. pushOk => handFlag = handPush
    BY <1>5, <2>1 DEF HandFlagAgrees
  <2>3. pushOk' => handFlag' = handPush'
    BY <1>2, <1>7, <2>1, <2>2
  <2>4. HandFlagAgrees' /\ FlagIsAhead'
    BY <1>3, <1>5, <2>1, <2>3 DEF HandFlagAgrees, FlagIsAhead
  <2>5. QED  BY <1>1, <1>3, <2>4
<1>8. CASE MoveEnd(c) \/ StopEnd(c) \/ ShortEnd(c)
  <2>1. topic[c] # "set_realtime_push" /\ UNCHANGED <<handFlag, config, handPush, pushOk>>
    BY <1>8, SetPushIsShort DEF MoveEnd, StopEnd, ShortEnd, pushVars
  <2>2. HandFlagAgrees' /\ FlagIsAhead'
    BY <1>3, <2>1 DEF HandFlagAgrees, FlagIsAhead
  <2>3. QED  BY <1>1, <1>3, <2>2
<1>9. QED
  BY <1>6, <1>7, <1>8

LEMMA CommandsInvNext == ASSUME LinkInv, CommandsInv, [CommandsNext]_allVars PROVE CommandsInv'
<1>1. ASSUME NEW c \in Commands, (\E t \in Topics : Send(c, t)) \/ Copy(c) \/ Served(c)
      PROVE  CommandsInv'
  BY <1>1, SendKeeps, CopyKeeps, BeginKeeps, EndKeeps DEF Served
<1>2. CASE LinkOnly \/ Construct
  BY <1>2, LinkOnlyKeeps, ConstructKeeps
<1>3. CASE Arrive
  <2>1. CommandsTypeOK'
    BY <1>3, RmDriverCommandsAssumption
    DEF Arrive, CommandsInv, CommandsTypeOK, pushVars, RmDriverCommandsAssumption
  <2>2. UNCHANGED <<main, topic, phase, pushVars>>
    BY <1>3 DEF Arrive, vars
  <2>3. QED
    BY <2>1, <2>2 DEF CommandsInv, HandFlagAgrees, FlagIsAhead, OneAGroup, Published, Begun,
       GroupOf, pushVars
<1>4. CASE CopyCrash \/ UNCHANGED allVars
  BY <1>4, CommandsKept DEF CopyCrash, allVars, vars
<1>5. QED
  BY <1>1, <1>2, <1>3, <1>4 DEF CommandsNext

(* The flag udp_hand_g and the controller agree whenever no command that      *)
(* sets it runs and the last call about it succeeded; no callback group runs *)
(* two commands at a time.                                                   *)
THEOREM CommandsInvariant == CommandsSpec => []CommandsInv
<1>1. CommandsInit => CommandsInv
  BY CommandsInvInit
<1>2. LinkInv /\ CommandsInv /\ [CommandsNext]_allVars => CommandsInv'
  BY CommandsInvNext
<1>3. QED
  BY <1>1, <1>2, CommandsLinkInvariant, PTL DEF CommandsSpec

(* Two callbacks assign the unlocked global copy at the same time only when   *)
(* one of them is that of get_lift_state, whatever the other topics do.       *)
THEOREM CommandsOnlyLiftRaces == CommandsSpec => []OnlyLiftRaces
<1>1. CommandsInv => OnlyLiftRaces
  <2> SUFFICES ASSUME CommandsInv, NEW c \in Commands, NEW d \in Commands, c # d,
                      phase[c] = "copying", phase[d] = "copying"
               PROVE  topic[c] = "get_lift_state" \/ topic[d] = "get_lift_state"
    BY DEF OnlyLiftRaces, CopyRace
  <2>1. topic[c] \in Copying /\ topic[d] \in Copying
    BY DEF CommandsInv, Published
  <2>2. GroupOf(topic[c]) # GroupOf(topic[d])
    BY DEF CommandsInv, OneAGroup, Begun
  <2>3. QED  BY <2>1, <2>2, CopyingGroup
<1>2. QED
  BY <1>1, CommandsInvariant, PTL

-----------------------------------------------------------------------------
(* The driver is an ArmServer. *)

\* A command that keeps its message first counts as running already.
Shown == [c \in Commands |-> IF phase[c] = "copying" THEN "running" ELSE phase[c]]

LEMMA ShownStep ==
  ASSUME CommandsInv, NEW c \in Commands, NEW p, p # "copying",
         phase' = [phase EXCEPT ![c] = p]
  PROVE  Shown' = [Shown EXCEPT ![c] = p]
  BY DEF Shown, CommandsInv, CommandsTypeOK

\* Begin is what Serve shows of a command whose turn it is.
LEMMA ServeStep ==
  ASSUME CommandsInv, NEW c \in Commands, Take(c), topic' = topic, replied' = replied,
         Shown' = [Shown EXCEPT ![c] = "running"]
  PROVE  Server!Serve(c)
<1>1. \A d \in Commands : Shown[d] = "queued" <=> phase[d] = "queued"
  BY DEF Shown
<1>2. ASSUME NEW d \in Commands, Begun(d) \/ d = c
      PROVE  [t \in Topics |-> GroupOf(t)][topic[d]] = GroupOf(topic[d])
  <2>1. phase[d] # "unsent"
    BY <1>2 DEF Begun, Take
  <2>2. topic[d] \in Topics
    BY <2>1 DEF CommandsInv, CommandsTypeOK, Published
  <2>3. QED  BY <2>2
<1>3. \A d \in Commands : Shown[d] = "running" => Begun(d)
  BY DEF Shown, Begun
<1>4. Server!GroupFree([t \in Topics |-> GroupOf(t)][topic[c]])
  BY <1>2, <1>3 DEF Server!GroupFree, Server!Commands, Commands, Take, GroupIdle, Shown
<1>5. \A d \in 1..(c - 1) : d \in Commands
  BY RmDriverCommandsAssumption DEF Commands, RmDriverCommandsAssumption
<1>6. Shown[c] = "queued" /\ \A d \in 1..(c - 1) : topic[d] = topic[c] => Shown[d] # "queued"
  BY <1>1, <1>5 DEF Take
<1>7. QED
  BY <1>4, <1>6 DEF Server!Serve, Shown

LEMMA AnswerStep ==
  ASSUME CommandsInv, NEW c \in Commands, NEW ok \in BOOLEAN, Return(c, ok)
  PROVE  Server!Answer(c, IF ok THEN "ok" ELSE "failed")
<1>1. /\ phase[c] = "running" /\ topic' = topic
      /\ phase' = [phase EXCEPT ![c] = IF ok THEN "ok" ELSE "failed"]
      /\ replied' = replied \cup (IF Replies(topic[c], ok) THEN {c} ELSE {})
  BY DEF Return
<1>2. Shown[c] = "running" /\ Shown' = [Shown EXCEPT ![c] = IF ok THEN "ok" ELSE "failed"]
  BY <1>1, ShownStep DEF Shown
<1>3. replied' = IF topic[c] \in Silent
                      \/ (topic[c] \in Queries /\ (IF ok THEN "ok" ELSE "failed") = "failed")
                   THEN replied ELSE replied \cup {c}
  BY <1>1 DEF Replies
<1>4. QED
  BY <1>1, <1>2, <1>3 DEF Server!Answer, Shown

LEMMA ServerStep ==
  ASSUME LinkInv, CommandsInv, [CommandsNext]_allVars
  PROVE  [Server!ServerNext]_(Server!serverVars)
<1> USE DEF Server!ServerNext, Server!serverVars
<1>1. Server!Commands = Commands
  BY DEF Server!Commands, Commands
<1>2. CASE UNCHANGED <<topic, phase, replied>>
  BY <1>2
<1>3. ASSUME NEW c \in Commands, NEW t \in Topics, Send(c, t)
      PROVE  Server!Send(c, t)
  <2>1. /\ phase[c] = "unsent" /\ \A d \in 1..(c - 1) : phase[d] # "unsent"
        /\ topic' = [topic EXCEPT ![c] = t] /\ replied' = replied
        /\ phase' = [phase EXCEPT ![c] = "queued"]
    BY <1>3 DEF Send
  <2>2. Shown' = [Shown EXCEPT ![c] = "queued"]
    BY <2>1, ShownStep
  <2>3. \A d \in 1..(c - 1) : d \in Commands
    BY RmDriverCommandsAssumption DEF Commands, RmDriverCommandsAssumption
  <2>4. QED  BY <2>1, <2>2, <2>3 DEF Server!Send, Server!Publish, Shown
<1>4. ASSUME NEW c \in Commands, Copy(c)
      PROVE  Server!Serve(c)
  <2>1. Take(c) /\ topic' = topic /\ replied' = replied /\ phase' = [phase EXCEPT ![c] = "copying"]
    BY <1>4 DEF Copy
  <2>2. Shown' = [Shown EXCEPT ![c] = "running"]
    BY <2>1 DEF Shown, CommandsInv, CommandsTypeOK
  <2>3. QED  BY <2>1, <2>2, ServeStep
<1>5. ASSUME NEW c \in Commands, MoveBegin(c) \/ SetPushBegin(c) \/ ShortBegin(c)
      PROVE  Server!Serve(c) \/ UNCHANGED Server!serverVars
  <2>1. /\ topic' = topic /\ replied' = replied /\ phase' = [phase EXCEPT ![c] = "running"]
        /\ Take(c) \/ phase[c] = "copying"
    BY <1>5 DEF MoveBegin, SetPushBegin, ShortBegin, Call
  <2>2. Shown' = [Shown EXCEPT ![c] = "running"]
    BY <2>1, ShownStep
  <2>3. CASE Take(c)
    BY <2>1, <2>2, <2>3, ServeStep
  <2>4. CASE phase[c] = "copying"
    <3>1. Shown' = Shown
      BY <2>2, <2>4 DEF Shown
    <3>2. QED  BY <2>1, <3>1 DEF Shown
  <2>5. QED  BY <2>1, <2>3, <2>4
<1>6. ASSUME NEW c \in Commands,
             MoveEnd(c) \/ StopEnd(c) \/ SetPushEnd(c) \/ GetPushEnd(c) \/ ShortEnd(c)
      PROVE  \E result \in {"ok", "failed"} : Server!Answer(c, result)
  <2>1. PICK ok \in BOOLEAN : Return(c, ok)
    BY <1>6 DEF MoveEnd, StopEnd, SetPushEnd, GetPushEnd, ShortEnd
  <2>2. Server!Answer(c, IF ok THEN "ok" ELSE "failed")
    BY <2>1, AnswerStep, Zenon
  <2>3. QED  BY <2>2
<1>7. CASE LinkOnly \/ Construct \/ Arrive \/ CopyCrash \/ UNCHANGED allVars
  BY <1>2, <1>7 DEF LinkOnly, Construct, Arrive, CopyCrash, allVars, commandVars
<1>8. QED
  BY <1>1, <1>3, <1>4, <1>5, <1>6, <1>7 DEF CommandsNext, Served

(* Whatever the connection does, every message is served at most once, one   *)
(* topic in order, one callback group one at a time, and answered as its     *)
(* topic demands: the driver implements ArmServer.                           *)
THEOREM DriverServesArm == CommandsSpec => ServesArm
<1>1. CommandsInit => Server!ServerInit
  BY DEF CommandsInit, Server!ServerInit, Server!Commands, Commands
<1>2. LinkInv /\ CommandsInv /\ [CommandsNext]_allVars => [Server!ServerNext]_(Server!serverVars)
  BY ServerStep
<1>3. QED
  BY <1>1, <1>2, CommandsLinkInvariant, CommandsInvariant, PTL
  DEF CommandsSpec, ServesArm, Server!ServerSpec
=============================================================================
