-------------------------- MODULE TrajectoryStream --------------------------
(***************************************************************************)
(* What the FollowJointTrajectory server of dual_rm_control promises to a  *)
(* client that waits for one goal to succeed before it sends the next: the *)
(* set points of the accepted goal go out on rm_driver/movej_canfd_cmd in  *)
(* order, none missing, the last one once more, and only then is the goal  *)
(* reported as succeeded.  A cancel ends the goal, not the set points.     *)
(* RmControl is shown to implement this module.                            *)
(***************************************************************************)
EXTENDS Integers, Sequences, FiniteSets

CONSTANTS
  Goals,       \* the goals clients send
  JointCount,  \* joints of the arm
  Samples,     \* number of set points of each goal
  Repeats      \* how often the last set point is sent again

VARIABLES
  status,      \* status of each goal, as the action protocol names it
  published    \* every set point sent so far, oldest first

streamVars == <<status, published>>

\* The k-th set point of goal g: every joint takes the k-th sample of g.
SetPoint(g, k) == [j \in 1..JointCount |-> <<g, k>>]

\* What the n-th message of goal g is: its samples in order, then the last.
Message(g, n) == SetPoint(g, IF n < Samples[g] THEN n ELSE Samples[g] - 1)

\* Messages goal g takes in all; a goal without points takes none.
Total(g) == IF Samples[g] = 0 THEN 0 ELSE Samples[g] + Repeats

\* Messages of goal g that are out.
Progress(g) ==
  Cardinality({i \in 1..Len(published) :
                 \E k \in 0..Samples[g] : published[i] = SetPoint(g, k)})

StreamInit ==
  /\ status = [g \in Goals |-> "unsent"]
  /\ published = <<>>

Accept(g) ==
  /\ status[g] = "unsent"
  /\ \A h \in Goals : status[h] \in {"unsent", "succeeded"}
  /\ status' = [status EXCEPT ![g] = "executing"]
  /\ UNCHANGED published

Cancel(g) ==
  /\ status[g] = "executing"
  /\ status' = [status EXCEPT ![g] = "canceling"]
  /\ UNCHANGED published

Publish(g) ==
  /\ status[g] \in {"executing", "canceling", "canceled"}
  /\ Progress(g) < Total(g)
  /\ published' = Append(published, Message(g, Progress(g)))
  /\ UNCHANGED status

Canceled(g) ==
  /\ status[g] = "canceling"
  /\ status' = [status EXCEPT ![g] = "canceled"]
  /\ UNCHANGED published

Succeed(g) ==
  /\ status[g] \in {"executing", "canceling"}
  /\ Progress(g) = Total(g)
  /\ status' = [status EXCEPT ![g] = "succeeded"]
  /\ UNCHANGED published

StreamNext ==
  \E g \in Goals : Accept(g) \/ Cancel(g) \/ Publish(g) \/ Canceled(g) \/ Succeed(g)

StreamSafety == StreamInit /\ [][StreamNext]_streamVars

StreamSpec ==
  /\ StreamSafety
  /\ \A g \in Goals :
       WF_streamVars(Publish(g)) /\ WF_streamVars(Canceled(g) \/ Succeed(g))
=============================================================================
