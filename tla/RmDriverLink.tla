---------------------------- MODULE RmDriverLink ----------------------------
(***************************************************************************)
(* How dual_rm_driver (rm_driver.cpp) keeps its TCP connection to the      *)
(* controller of an arm: the constructor of RmArm, the heartbeat timer and *)
(* the UDP timer of UdpPublisherNode, the commands that use the shared     *)
(* m_sockhand meanwhile, and SIGINT.                                       *)
(*                                                                         *)
(* The node runs on a MultiThreadedExecutor.  The two timers have callback *)
(* groups of their own, so each of them is sequential but they interleave  *)
(* with each other and with one command per callback group.  Nothing is    *)
(* locked: connect_state decides which of the timers may act.              *)
(***************************************************************************)
EXTENDS Integers, FiniteSets

CONSTANTS
  Callers,    \* callback groups that run commands of RmArm
  MaxOutages  \* bound on the losses of the controller

ASSUME RmDriverLinkAssumption == MaxOutages \in Nat

\* Every outage costs one connection, so this many are enough.
MaxConn == MaxOutages + 1

Conns == 1..MaxConn
NoConn == 0        \* m_sockhand is -1 or an error code of Arm_Socket_Start
NotCalling == -1   \* a callback group in which no command runs

VARIABLES
  armUp,         \* the controller can be reached
  outages,       \* how often it was lost
  conn,          \* state of each connection
  lastConn,      \* number of connections opened so far
  sock,          \* m_sockhand
  main,          \* where the constructor of RmArm is
  heart,         \* where heart_timer_callback is
  heartSock,     \* handle the heartbeat has asked about
  udp,           \* where udp_timer_callback is
  connectState,  \* connect_state, 0 or an error
  comeTime,      \* come_time
  call,          \* handle with which each command was issued
  ctrlFlag,      \* ctrl_flag, set by SIGINT
  node           \* "up", "shutdown" by rclcpp::shutdown, or "exited"

envVars   == <<armUp, outages>>
sockVars  == <<conn, lastConn, sock>>
timerVars == <<heart, heartSock, udp, connectState, comeTime>>

vars == <<envVars, sockVars, main, timerVars, call, ctrlFlag, node>>

Live == {"open", "broken"}

Init ==
  /\ armUp \in BOOLEAN /\ outages = 0
  /\ conn = [c \in Conns |-> "none"]
  /\ lastConn = 0 /\ sock = NoConn
  /\ main = "probe"
  /\ heart = "idle" /\ heartSock = NoConn
  /\ udp = "idle"
  /\ connectState = 0 /\ comeTime = 0
  /\ call = [c \in Callers |-> NotCalling]
  /\ ctrlFlag = FALSE
  /\ node = "up"

-----------------------------------------------------------------------------
(* The controller and the network, and the calls into the vendor library.  *)

ArmLost ==
  /\ armUp /\ outages < MaxOutages
  /\ armUp' = FALSE
  /\ outages' = outages + 1
  /\ conn' = [c \in Conns |-> IF conn[c] = "open" THEN "broken" ELSE conn[c]]
  /\ UNCHANGED <<lastConn, sock, main, timerVars, call, ctrlFlag, node>>

ArmBack ==
  /\ ~armUp
  /\ armUp' = TRUE
  /\ UNCHANGED <<outages, sockVars, main, timerVars, call, ctrlFlag, node>>

\* Mutant: the handle of the new connection is not stored in m_sockhand.
ArmStartDropped ==
  /\ UNCHANGED sock
  /\ IF armUp
       THEN /\ lastConn < MaxConn
            /\ lastConn' = lastConn + 1
            /\ conn' = [conn EXCEPT ![lastConn + 1] = "open"]
       ELSE UNCHANGED <<conn, lastConn>>

\* Arm_Start: m_sockhand becomes the new handle, or an error code that no
\* caller looks at.
ArmStart ==
  IF armUp
    THEN /\ lastConn < MaxConn
         /\ lastConn' = lastConn + 1
         /\ conn' = [conn EXCEPT ![lastConn + 1] = "open"]
         /\ sock' = lastConn + 1
    ELSE /\ sock' = NoConn
         /\ UNCHANGED <<conn, lastConn>>

\* Arm_Close
ArmClose == conn' = [c \in Conns |-> IF c = sock THEN "closed" ELSE conn[c]]

\* Service_Arm_Socket_State
SocketState(s) == IF s \in Conns /\ conn[s] = "open" THEN 0 ELSE 1

-----------------------------------------------------------------------------
(* The constructor of RmArm, before the executor spins.                    *)

MainProbeOk ==
  /\ node = "up" /\ main = "probe" /\ armUp
  /\ main' = "start"
  /\ UNCHANGED <<envVars, sockVars, timerVars, call, ctrlFlag, node>>

\* Arm_Socket_Start_Connect failed, because of the controller or of this host;
\* after SIGINT that is the end, otherwise it is tried again.
MainProbeInterrupted ==
  /\ node = "up" /\ main = "probe"
  /\ ctrlFlag
  /\ node' = "exited"
  /\ UNCHANGED <<envVars, sockVars, main, timerVars, call, ctrlFlag>>

MainStart ==
  /\ node = "up" /\ main = "start"
  /\ ArmStart
  /\ main' = "spin"
  /\ UNCHANGED <<envVars, timerVars, call, ctrlFlag, node>>

Spinning == node = "up" /\ main = "spin"

-----------------------------------------------------------------------------
(* heart_timer_callback, every 100 ms.                                     *)

HeartTick ==
  /\ Spinning /\ heart = "idle"
  /\ connectState = 0
  /\ heart' = "query"
  /\ heartSock' = sock
  /\ UNCHANGED <<envVars, sockVars, main, udp, connectState, comeTime, call,
                 ctrlFlag, node>>

\* Mutant: the answer is thrown away.
HeartAnswerIgnored ==
  /\ node # "exited" /\ heart = "query"
  /\ heart' = "idle"
  /\ UNCHANGED <<envVars, sockVars, main, heartSock, udp, connectState, comeTime, call,
                 ctrlFlag, node>>

HeartAnswer ==
  /\ node # "exited" /\ heart = "query"
  /\ connectState' = SocketState(heartSock)
  /\ heart' = "idle"
  /\ UNCHANGED <<envVars, sockVars, main, heartSock, udp, comeTime, call, ctrlFlag, node>>

-----------------------------------------------------------------------------
(* udp_timer_callback, every udp_cycle ms.                                 *)

UdpGoto(here, there) ==
  /\ node # "exited"
  /\ udp = here
  /\ udp' = there

UdpTick ==
  /\ Spinning
  /\ UdpGoto("idle", IF connectState = 0 THEN "publish" ELSE "close")
  /\ UNCHANGED <<envVars, sockVars, main, heart, heartSock, connectState, comeTime, call,
                 ctrlFlag, node>>

\* Mutant: SIGINT is not looked at while the connection is up.
UdpPublishDeaf ==
  /\ UdpGoto("publish", "idle")
  /\ UNCHANGED <<envVars, sockVars, main, heart, heartSock, connectState, comeTime, call,
                 ctrlFlag, node>>

\* The state pushed over UDP is published; then ctrl_flag is looked at.
UdpPublish ==
  /\ UdpGoto("publish", "idle")
  /\ node' = IF ctrlFlag THEN "shutdown" ELSE node
  /\ UNCHANGED <<envVars, sockVars, main, heart, heartSock, connectState, comeTime, call,
                 ctrlFlag>>

UdpClose ==
  /\ UdpGoto("close", "probe")
  /\ IF comeTime = 0 THEN ArmClose ELSE UNCHANGED conn
  /\ comeTime' = comeTime + 1
  /\ UNCHANGED <<envVars, lastConn, sock, main, heart, heartSock, connectState, call,
                 ctrlFlag, node>>

\* Mutant: connect_state is cleared before Arm_Start.
UdpProbeOkClears ==
  /\ UdpGoto("probe", "start")
  /\ armUp
  /\ connectState' = 0
  /\ UNCHANGED <<envVars, sockVars, main, heart, heartSock, comeTime, call, ctrlFlag, node>>

UdpProbeOk ==
  /\ UdpGoto("probe", "start")
  /\ armUp
  /\ UNCHANGED <<envVars, sockVars, main, heart, heartSock, connectState, comeTime, call,
                 ctrlFlag, node>>

\* rclcpp::shutdown and exit(0) out of the loop
UdpProbeInterrupted ==
  /\ UdpGoto("probe", "probe")
  /\ ctrlFlag
  /\ node' = "exited"
  /\ UNCHANGED <<envVars, sockVars, main, heart, heartSock, connectState, comeTime, call,
                 ctrlFlag>>

UdpStart ==
  /\ UdpGoto("start", "zero")
  /\ ArmStart
  /\ UNCHANGED <<envVars, main, heart, heartSock, connectState, comeTime, call, ctrlFlag, node>>

\* come_time = 0; connect_state = 0: the heartbeat may look again.
UdpZero ==
  /\ UdpGoto("zero", "connected")
  /\ comeTime' = 0
  /\ UNCHANGED <<envVars, sockVars, main, heart, heartSock, connectState, call, ctrlFlag, node>>

UdpConnected ==
  /\ UdpGoto("connected", "idle")
  /\ connectState' = 0
  /\ UNCHANGED <<envVars, sockVars, main, heart, heartSock, comeTime, call, ctrlFlag, node>>

UdpStep == \/ UdpTick \/ UdpPublish \/ UdpClose \/ UdpProbeOk
           \/ UdpProbeInterrupted \/ UdpStart \/ UdpZero \/ UdpConnected

-----------------------------------------------------------------------------
(* Commands, SIGINT and the end.                                           *)

\* A command callback passes m_sockhand, as it is, to Rm_Api.
CommandBegin(c) ==
  /\ Spinning /\ call[c] = NotCalling
  /\ call' = [call EXCEPT ![c] = sock]
  /\ UNCHANGED <<envVars, sockVars, main, timerVars, ctrlFlag, node>>

\* The call returns, with an error if its connection is gone.
CommandEnd(c) ==
  /\ node # "exited" /\ call[c] # NotCalling
  /\ call' = [call EXCEPT ![c] = NotCalling]
  /\ UNCHANGED <<envVars, sockVars, main, timerVars, ctrlFlag, node>>

\* my_handler
Interrupt ==
  /\ node # "exited" /\ ~ctrlFlag
  /\ ctrlFlag' = TRUE
  /\ UNCHANGED <<envVars, sockVars, main, timerVars, call, node>>

\* spin returns once the running callbacks have, and ~RmArm closes.
Exit ==
  /\ node = "shutdown"
  /\ udp = "idle" /\ heart = "idle"
  /\ \A c \in Callers : call[c] = NotCalling
  /\ ArmClose
  /\ node' = "exited"
  /\ UNCHANGED <<envVars, lastConn, sock, main, timerVars, call, ctrlFlag>>

MainStep == MainProbeOk \/ MainProbeInterrupted \/ MainStart \/ Exit

Next == \/ ArmLost \/ ArmBack \/ Interrupt
        \/ MainStep \/ HeartTick \/ HeartAnswer \/ UdpStep
        \/ \E c \in Callers : CommandBegin(c) \/ CommandEnd(c)

Spec == Init /\ [][Next]_vars

\* The executor has eight threads for the two timers and the three groups, so
\* no callback waits for another one; calls into the library have timeouts.
Fairness == /\ WF_vars(MainStep)
            /\ WF_vars(HeartTick) /\ WF_vars(HeartAnswer)
            /\ WF_vars(UdpStep)
            /\ \A c \in Callers : WF_vars(CommandEnd(c))

FairSpec == Spec /\ Fairness

-----------------------------------------------------------------------------
(* Properties.                                                             *)

TypeOK ==
  /\ armUp \in BOOLEAN
  /\ outages \in 0..MaxOutages
  /\ conn \in [Conns -> {"none", "open", "broken", "closed"}]
  /\ lastConn \in 0..MaxConn
  /\ sock \in 0..MaxConn
  /\ main \in {"probe", "start", "spin"}
  /\ heart \in {"idle", "query"}
  /\ heartSock \in 0..MaxConn
  /\ udp \in {"idle", "publish", "close", "probe", "start", "zero", "connected"}
  /\ connectState \in {0, 1}
  /\ comeTime \in Nat
  /\ call \in [Callers -> -1..MaxConn]
  /\ ctrlFlag \in BOOLEAN
  /\ node \in {"up", "shutdown", "exited"}

(* The node never holds two connections to the controller, and the one it  *)
(* has is the one m_sockhand names: every reconnection closes the old      *)
(* socket before it opens the next one, whatever came before.              *)
OneConnection == \A c \in Conns : conn[c] \in Live => c = sock

(* The heartbeat only ever asks about the connection in use: while the UDP *)
(* timer closes and reopens it no answer is outstanding, so an answer      *)
(* about the old socket cannot undo the reconnection or start another one. *)
HeartbeatIsCurrent ==
  heart = "query" =>
    /\ heartSock = sock
    /\ udp \in {"idle", "publish"}
    /\ sock \in Conns => conn[sock] # "closed"

(* Why the two hold: the phases of the UDP timer own the connection.       *)
\* While the UDP timer reconnects, connect_state keeps the heartbeat out.
ReconnectOwns ==
  udp \in {"close", "probe", "start", "zero", "connected"} =>
    connectState = 1 /\ heart = "idle"

\* An answer is outstanding only while connect_state is clear.
QueryOwns == heart = "query" => connectState = 0 /\ main = "spin"

\* Whenever Arm_Close may be due, come_time lets it happen.
CloseIsDue == udp \in {"idle", "publish", "close", "connected"} => comeTime = 0

\* Before Arm_Start nothing is open.
NothingOpen ==
  main # "spin" \/ udp \in {"probe", "start"} => \A c \in Conns : conn[c] \notin Live

\* Outside a reconnection the current socket has not been closed.
SockNotClosed ==
  node # "exited" /\ udp \notin {"probe", "start"} /\ sock \in Conns =>
    conn[sock] \notin {"none", "closed"}

\* The timers run only once the executor spins.
TimersSpin == main # "spin" => udp = "idle" /\ heart = "idle" /\ sock = NoConn

LinkInv == /\ TypeOK /\ OneConnection /\ HeartbeatIsCurrent
           /\ ReconnectOwns /\ QueryOwns /\ CloseIsDue
           /\ NothingOpen /\ SockNotClosed /\ TimersSpin

(* A controller that stays reachable is connected again: in the end        *)
(* m_sockhand names an open connection for good, unless the node ends.     *)
Reconnects ==
  <>[]armUp => <>[](node # "up" \/ (sock \in Conns /\ conn[sock] = "open"))

(* Commands recover with it: in the end no command runs on a handle whose  *)
(* connection is gone.                                                     *)
CommandsRecover ==
  <>[]armUp => <>[](\/ node # "up"
                    \/ \A c \in Callers : call[c] # NotCalling =>
                         call[c] \in Conns /\ conn[call[c]] = "open")

(* SIGINT ends the node although its handler only sets a flag that one of  *)
(* the two timers looks at, and however the connection comes and goes.     *)
InterruptEndsNode == ctrlFlag ~> node = "exited"
=============================================================================
