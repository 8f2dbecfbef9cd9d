--------------------------- MODULE RmControlProofs ---------------------------
(* The action server of dual_rm_control, for any trajectories and number of  *)
(* joints: type correctness for every client; for one that waits for success *)
(* no race, no set point left out, and a server that is a TrajectoryStream.  *)
EXTENDS RmControl, FiniteSetTheorems, TLAPS

-----------------------------------------------------------------------------
(* Type correctness. *)

LEMMA SampleCountType == ASSUME NEW g \in Goals PROVE SampleCount(g) \in Nat
  BY RmControlAssumption DEF RmControlAssumption, SampleCount, Rate

LEMMA TypeInit == Init => TypeOK
<1> SUFFICES ASSUME Init PROVE TypeOK
  OBVIOUS
<1> USE RmControlAssumption DEF RmControlAssumption, Init
<1>1. GoalsTypeOK
  BY DEF GoalsTypeOK, Joints, Places
<1>2. FillTypeOK
  <2>1. <<>> \in Seq(Sample)  OBVIOUS
  <2>2. QED  BY <2>1 DEF FillTypeOK
<1>3. CountersTypeOK
  BY DEF CountersTypeOK
<1>4. TimerTypeOK
  <2>1. jointMsg \in Message  BY DEF Message
  <2>2. <<>> \in Seq(Message)  OBVIOUS
  <2>3. QED  BY <2>1, <2>2 DEF TimerTypeOK
<1>5. pointChanged \in BOOLEAN
  BY Zenon
<1>6. QED
  BY <1>1, <1>2, <1>3, <1>4, <1>5 DEF TypeOK

LEMMA AppendTyped ==
  ASSUME NEW S, NEW s \in Seq(S), NEW e \in S
  PROVE  Append(s, e) \in Seq(S)
  OBVIOUS

(* The callbacks of the action server touch the goals only. *)
LEMMA CallbacksKeepTypes ==
  ASSUME TypeOK, NEW g \in Goals, HandleGoal(g) \/ HandleCancel(g)
  PROVE  TypeOK'
<1>1. GoalsTypeOK'
  BY DEF TypeOK, GoalsTypeOK, HandleGoal, HandleCancel, Places
<1>2. UNCHANGED <<fillVars, p2Vars, pointChanged, timerVars, node>>
  BY DEF HandleGoal, HandleCancel
<1>3. FillTypeOK' /\ CountersTypeOK' /\ TimerTypeOK'
  BY <1>2 DEF TypeOK, FillTypeOK, CountersTypeOK, TimerTypeOK, fillVars, p2Vars, timerVars
<1>4. QED
  BY <1>1, <1>2, <1>3 DEF TypeOK

(* A thread moves its own goal ... *)
LEMMA ThreadKeepsGoals ==
  ASSUME TypeOK, NEW g \in Goals, ExecuteMove(g)
  PROVE  GoalsTypeOK'
<1> USE RmControlAssumption
    DEF RmControlAssumption, TypeOK, GoalsTypeOK, Goto, Joints, Places
<1>1. CASE Start(g)
  BY <1>1 DEF Start
<1>2. CASE ClearTime(g) \/ SplineClear(g) \/ SplineSample(g)
  BY <1>2 DEF ClearTime, SplineClear, SplineSample, fillVars
<1>3. CASE SplineNext(g)
  BY <1>3 DEF SplineNext
<1>4. CASE RawClear(g)
  BY <1>4 DEF RawClear
<1>5. CASE RawPush(g)
  BY <1>5 DEF RawPush
<1>6. CASE SetLen(g) \/ SetCnt(g) \/ SetFlag(g)
  BY <1>6 DEF SetLen, SetCnt, SetFlag
<1>7. CASE Wait(g) \/ PollAgain(g) \/ PollShutdown(g)
  BY <1>7 DEF Wait, PollAgain, PollShutdown
<1>8. CASE PollCanceled(g) \/ Finish(g)
  BY <1>8 DEF PollCanceled, Finish, Terminal
<1>9. QED
  BY <1>1, <1>2, <1>3, <1>4, <1>5, <1>6, <1>7, <1>8 DEF ExecuteMove, FillStep

(* ... fills the vectors with samples of that goal ... *)
LEMMA ThreadKeepsFill ==
  ASSUME TypeOK, NEW g \in Goals, ExecuteMove(g)
  PROVE  FillTypeOK'
<1> USE DEF TypeOK, GoalsTypeOK, FillTypeOK
<1>1. ASSUME NEW j \in Joints, NEW s \in Seq(Sample),
             buffer' = [buffer EXCEPT ![j] = s]
      PROVE  buffer' \in [Joints -> Seq(Sample)]
  BY <1>1
<1>2. ASSUME NEW j \in Joints, NEW k \in Int
      PROVE  Append(buffer[j], <<g, k>>) \in Seq(Sample)
  <2>1. <<g, k>> \in Sample  BY DEF Sample
  <2>2. buffer[j] \in Seq(Sample)  OBVIOUS
  <2>3. QED  BY <2>1, <2>2
<1>3. joint[g] \in Joints /\ item[g] \in Int
  OBVIOUS
<1>4. CASE SplineClear(g) \/ RawClear(g)
  <2>1. <<>> \in Seq(Sample)  OBVIOUS
  <2>2. buffer' \in [Joints -> Seq(Sample)]
    BY <1>1, <1>3, <1>4, <2>1 DEF SplineClear, RawClear
  <2>3. QED  BY <1>4, <2>2 DEF SplineClear, RawClear
<1>5. CASE SplineSample(g)
  <2>1. xOut + 1 \in Int  OBVIOUS
  <2>2. Append(buffer[joint[g]], <<g, xOut + 1>>) \in Seq(Sample)
    BY <1>2, <1>3, <2>1
  <2>3. buffer' \in [Joints -> Seq(Sample)]
    BY <1>1, <1>3, <1>5, <2>2 DEF SplineSample
  <2>4. QED  BY <1>5, <2>3 DEF SplineSample
<1>6. CASE RawPush(g)
  <2>1. Append(buffer[joint[g]], <<g, item[g]>>) \in Seq(Sample)
    BY <1>2, <1>3
  <2>2. buffer' = [buffer EXCEPT ![joint[g]] = Append(buffer[joint[g]], <<g, item[g]>>)]
    BY <1>6 DEF RawPush
  <2>3. buffer' \in [Joints -> Seq(Sample)]
    BY <1>1, <1>3, <2>1, <2>2
  <2>4. QED  BY <1>6, <2>3 DEF RawPush
<1>7. CASE ClearTime(g)
  BY <1>7 DEF ClearTime
<1>8. CASE UNCHANGED fillVars
  BY <1>8 DEF fillVars
<1>9. QED
  BY <1>4, <1>5, <1>6, <1>7, <1>8
  DEF ExecuteMove, FillStep, Start, SplineNext, SetLen, SetCnt, SetFlag, Wait, PollAgain,
      PollCanceled, PollShutdown, Finish

(* ... and never touches what the timer callback alone uses. *)
LEMMA ThreadKeepsRest ==
  ASSUME TypeOK, NEW g \in Goals, ExecuteMove(g)
  PROVE  /\ CountersTypeOK' /\ TimerTypeOK'
         /\ pointChanged' \in BOOLEAN
         /\ node' \in {"up", "stopping", "exited", "crashed"}
<1> USE RmControlAssumption DEF RmControlAssumption, TypeOK, GoalsTypeOK
<1> USE DEF ExecuteMove, FillStep, Start, ClearTime, SplineClear, SplineSample, SplineNext,
        RawClear, RawPush, SetLen, SetCnt, SetFlag, Wait, PollAgain, PollCanceled,
        PollShutdown, Finish
<1>1. UNCHANGED timerVars
  OBVIOUS
<1>2. TimerTypeOK'
  BY <1>1 DEF TimerTypeOK, timerVars
<1>3. vectorLen' \in Nat /\ vectorCnt' \in Nat
  BY DEF FillTypeOK, CountersTypeOK, p2Vars
<1>4. CountersTypeOK'
  BY <1>1, <1>3 DEF CountersTypeOK, timerVars
<1>5. pointChanged' \in {pointChanged, TRUE, FALSE}
  OBVIOUS
<1>6. node' \in {node, "crashed"}
  OBVIOUS
<1>7. QED
  BY <1>2, <1>4, <1>5, <1>6

(* The timer callback touches neither the goals nor the vectors. *)
LEMMA TimerKeepsTypes ==
  ASSUME TypeOK, TimerStep \/ RacyRead
  PROVE  TypeOK'
<1> USE RmControlAssumption DEF RmControlAssumption, TypeOK, TimerGoto
<1> USE DEF TimerStep, RacyRead, TimerTick, TimerCompare, ReadJoint, ReadOutOfRange,
        PublishSample, Advance, PublishRepeat, ResetCnt, ResetLen, ResetFlag, timerVars
<1>1. UNCHANGED <<goalVars, fillVars>>
  OBVIOUS
<1>2. GoalsTypeOK' /\ FillTypeOK'
  BY <1>1 DEF GoalsTypeOK, FillTypeOK, goalVars, fillVars
<1>3. CountersTypeOK'
  BY SMTT(60) DEF CountersTypeOK, Reading, Joints, p2Vars
<1>4. timer' \in {"idle", "compare", "read", "repeat", "advance",
                 "resetCnt", "resetLen", "resetFlag"}
  BY DEF TimerTypeOK
<1>5. jointMsg' \in Message
  <2>1. CASE ReadJoint
    <3>1. timerJoint \in Joints /\ ReadIndex + 1 \in 1..Len(buffer[timerJoint])
      BY <2>1 DEF Reading, InRange, ReadIndex, CountersTypeOK, Joints
    <3>2. buffer[timerJoint] \in Seq(Sample)
      BY <3>1 DEF FillTypeOK
    <3>3. buffer[timerJoint][ReadIndex + 1] \in Sample
      BY <3>1, <3>2
    <3>4. QED  BY <2>1, <3>1, <3>3 DEF TimerTypeOK, Message
  <2>2. CASE RacyRead
    <3>1. timerJoint \in Joints
      BY <2>2 DEF Reading, CountersTypeOK, Joints
    <3>2. QED  BY <2>2, <3>1 DEF TimerTypeOK, Message
  <2>3. CASE UNCHANGED jointMsg
    BY <2>3 DEF TimerTypeOK
  <2>4. QED  BY <2>1, <2>2, <2>3
<1>6. published' \in Seq(Message)
  <2>1. published' = Append(published, jointMsg) \/ UNCHANGED published
    OBVIOUS
  <2>2. published \in Seq(Message) /\ jointMsg \in Message
    BY DEF TimerTypeOK
  <2>3. Append(published, jointMsg) \in Seq(Message)
    BY ONLY <2>2, AppendTyped
  <2>4. QED  BY ONLY <2>1, <2>2, <2>3
<1>7. pointChanged' \in {pointChanged, FALSE}
  OBVIOUS
<1>8. node' \in {node, "crashed"}
  OBVIOUS
<1>9. QED
  BY <1>2, <1>3, <1>4, <1>5, <1>6, <1>7, <1>8 DEF TimerTypeOK

LEMMA TypeNext == TypeOK /\ [Next]_vars => TypeOK'
<1> SUFFICES ASSUME TypeOK, [Next]_vars PROVE TypeOK'
  OBVIOUS
<1>1. ASSUME NEW g \in Goals, HandleGoal(g) \/ HandleCancel(g) PROVE TypeOK'
  BY <1>1, CallbacksKeepTypes
<1>2. ASSUME NEW g \in Goals, ExecuteMove(g) PROVE TypeOK'
  BY <1>2, ThreadKeepsGoals, ThreadKeepsFill, ThreadKeepsRest DEF TypeOK
<1>3. CASE TimerStep \/ RacyRead
  BY <1>3, TimerKeepsTypes
<1>4. CASE MemoryFault \/ Shutdown \/ Exit \/ UNCHANGED vars
  <2>1. UNCHANGED <<goalVars, fillVars, p2Vars, pointChanged, timerVars>>
    BY <1>4 DEF MemoryFault, Shutdown, Exit, vars
  <2>2. GoalsTypeOK' /\ FillTypeOK' /\ CountersTypeOK' /\ TimerTypeOK'
    BY <2>1 DEF TypeOK, GoalsTypeOK, FillTypeOK, CountersTypeOK, TimerTypeOK,
                goalVars, fillVars, p2Vars, timerVars
  <2>3. node' \in {node, "stopping", "exited", "crashed"}
    BY <1>4 DEF MemoryFault, Shutdown, Exit, vars
  <2>4. QED  BY <2>1, <2>2, <2>3 DEF TypeOK
<1>5. QED  BY <1>1, <1>2, <1>3, <1>4 DEF Next

(* The shared globals keep their types under every client, whatever the     *)
(* threads and the timer callback do to them in which order.                *)
THEOREM RmControlTypeOK == Spec => []TypeOK
  BY TypeInit, TypeNext, PTL DEF Spec

-----------------------------------------------------------------------------
(* The careful client: the samples the vectors hold.                        *)

LEMMA PrefixEmpty == ASSUME NEW g PROVE Prefix(g, 0) = <<>>
  BY DEF Prefix

LEMMA PrefixAppend ==
  ASSUME NEW g, NEW n \in Nat
  PROVE  Append(Prefix(g, n), <<g, n>>) = Prefix(g, n + 1)
<1>1. Prefix(g, n) \in Seq({g} \X Int)
  <2>1. \A i \in 1..n : <<g, i - 1>> \in {g} \X Int
    OBVIOUS
  <2>2. Prefix(g, n) \in [1..n -> {g} \X Int]
    BY <2>1 DEF Prefix
  <2>3. QED  BY <2>2
<1>2. Len(Prefix(g, n)) = n
  BY DEF Prefix
<1>3. QED
  BY <1>1, <1>2 DEF Prefix

LEMMA PrefixRead ==
  ASSUME NEW g, NEW n \in Nat
  PROVE  /\ Len(Prefix(g, n)) = n
         /\ \A k \in 0..(n - 1) : Prefix(g, n)[k + 1] = <<g, k>>
  BY DEF Prefix

LEMMA SampleCountPositive ==
  ASSUME NEW g \in Goals, Waypoints[g] > 0
  PROVE  SampleCount(g) > 0
  BY RmControlAssumption DEF RmControlAssumption, SampleCount, Rate

LEMMA SplineEnd ==
  ASSUME NEW g \in Goals, Waypoints[g] > 3, NEW x \in Int,
         x * Rate >= Duration[g], x >= -1, x > 0 => (x - 1) * Rate < Duration[g]
  PROVE  SampleCount(g) = x + 1
  BY RmControlAssumption DEF RmControlAssumption, SampleCount, Rate

LEMMA WholeInjective ==
  ASSUME NEW g, NEW h, NEW k, NEW l, Whole(g, k) = Whole(h, l)
  PROVE  g = h /\ k = l
<1>1. 1 \in Joints
  BY RmControlAssumption DEF RmControlAssumption, Joints
<1>2. Whole(g, k)[1] = Whole(h, l)[1]
  OBVIOUS
<1>3. <<g, k>> = <<h, l>>
  BY <1>1, <1>2 DEF Whole
<1>4. QED
  BY <1>3

-----------------------------------------------------------------------------
(* How many set points of a goal are out.                                   *)

SetPoints(g) ==
  {i \in 1..Len(published) : \E k \in 0..SampleCount(g) : published[i] = Whole(g, k)}

LEMMA ProgressIs ==
  ASSUME NEW g \in Goals
  PROVE  /\ Stream!Progress(g) = Cardinality(SetPoints(g))
         /\ Stream!Progress(g)' = Cardinality(SetPoints(g)')
<1>1. \A S : Stream!Cardinality(S) = Cardinality(S)
  BY Zenon DEF Stream!Cardinality, Cardinality
<1>2. /\ SetPoints(g) = {i \in 1..Len(published) :
            \E k \in 0..[h \in Goals |-> SampleCount(h)][g] :
               published[i] = Stream!SetPoint(g, k)}
      /\ SetPoints(g)' = {i \in 1..Len(published') :
            \E k \in 0..[h \in Goals |-> SampleCount(h)][g] :
               published'[i] = Stream!SetPoint(g, k)}
  BY DEF Stream!SetPoint, SetPoints, Whole, Joints
<1>3. QED
  BY <1>1, <1>2, Zenon DEF Stream!Progress

LEMMA SetPointsFinite ==
  ASSUME NEW g, Len(published) \in Nat
  PROVE  IsFiniteSet(SetPoints(g)) /\ Cardinality(SetPoints(g)) \in Nat
<1>1. IsFiniteSet(1..Len(published))
  BY FS_Interval
<1>2. SetPoints(g) \in SUBSET (1..Len(published))
  BY DEF SetPoints
<1>3. IsFiniteSet(SetPoints(g))
  BY ONLY <1>1, <1>2, FS_Subset
<1>4. QED
  BY <1>3, FS_CardinalityType

LEMMA ProgressEmpty ==
  ASSUME NEW g \in Goals, published = <<>>
  PROVE  Stream!Progress(g) = 0
<1>1. SetPoints(g) = {}
  BY DEF SetPoints
<1>2. QED
  BY <1>1, ProgressIs, FS_EmptySet

LEMMA ProgressType ==
  ASSUME TypeOK, NEW g \in Goals
  PROVE  Stream!Progress(g) \in Nat
  BY ProgressIs, SetPointsFinite DEF TypeOK, TimerTypeOK

LEMMA ProgressKept ==
  ASSUME NEW g \in Goals, UNCHANGED published
  PROVE  Stream!Progress(g)' = Stream!Progress(g)
  BY ProgressIs DEF SetPoints

\* A set point of h counts for h and for no other goal.
LEMMA ProgressAppend ==
  ASSUME TypeOK, NEW g \in Goals, NEW h \in Goals, NEW k \in 0..SampleCount(h),
         published' = Append(published, Whole(h, k))
  PROVE  Stream!Progress(g)' =
           IF g = h THEN Stream!Progress(g) + 1 ELSE Stream!Progress(g)
<1> DEFINE n == Len(published) + 1
<1>1. /\ published \in Seq(Message)
      /\ Len(published) \in Nat
  BY DEF TypeOK, TimerTypeOK
<1>2. /\ Len(published') = n
      /\ published'[n] = Whole(h, k)
      /\ \A i \in 1..Len(published) : published'[i] = published[i]
  BY <1>1
<1>3. IsFiniteSet(SetPoints(g)) /\ n \notin SetPoints(g)
  BY <1>1, SetPointsFinite DEF SetPoints
<1>4. CASE g = h
  <2>1. SetPoints(g)' = SetPoints(g) \cup {n}
    BY <1>1, <1>2, <1>4 DEF SetPoints
  <2>2. Cardinality(SetPoints(g)') = Cardinality(SetPoints(g)) + 1
    BY ONLY <1>3, <2>1, FS_AddElement
  <2>3. QED  BY <1>4, <2>2, ProgressIs
<1>5. CASE g # h
  <2>1. \A l : Whole(h, k) # Whole(g, l)
    BY <1>5, WholeInjective
  <2>2. SetPoints(g)' = SetPoints(g)
    BY <1>1, <1>2, <2>1 DEF SetPoints
  <2>3. QED  BY <1>5, <2>2, ProgressIs
<1>6. QED
  BY <1>4, <1>5

\* What is sent stays sent.
LEMMA SentAppend ==
  ASSUME TypeOK, NEW m, published' = Append(published, m)
  PROVE  /\ Sent(m)'
         /\ \A x : Sent(x) => Sent(x)'
<1>1. published \in Seq(Message) /\ Len(published) \in Nat
  BY DEF TypeOK, TimerTypeOK
<1>2. /\ Len(published') = Len(published) + 1
      /\ published'[Len(published) + 1] = m
      /\ \A i \in 1..Len(published) : published'[i] = published[i]
  BY <1>1
<1>3. QED
  BY <1>1, <1>2 DEF Sent

-----------------------------------------------------------------------------
(* The careful client: who may act.                                         *)

LEMMA HandedIsCurrent ==
  ASSUME TypeOK, OneThread, NEW g \in Goals, Handed(g)
  PROVE  Current(g)
  BY DEF TypeOK, GoalsTypeOK, OneThread, Handed, Waiting, Current, Terminal

LEMMA ActiveIsCurrent ==
  ASSUME TypeOK, OneThread, NEW g \in Goals, pc[g] \notin {"none", "ended"}
  PROVE  status[g] \in {"executing", "canceling"} /\ Current(g)
  BY DEF TypeOK, GoalsTypeOK, OneThread, Current, Terminal

\* While one goal is current every other one is new or done.
LEMMA OthersRest ==
  ASSUME TypeOK, OneThread, NEW g \in Goals, Current(g), NEW h \in Goals \ {g}
  PROVE  /\ status[h] \in {"unsent", "succeeded"}
         /\ pc[h] \in {"none", "ended"}
         /\ ~Handed(h)
  BY DEF TypeOK, GoalsTypeOK, OneThread, Current, Handed, Waiting, Terminal

\* A thread that fills the vectors or has its answer is alone with them.
LEMMA TimerRests ==
  ASSUME TypeOK, OneThread, Handover, NEW g \in Goals, Current(g), ~Handed(g)
  PROVE  ~pointChanged /\ timer = "idle"
<1>1. ASSUME NEW h \in Goals, Handed(h) PROVE FALSE
  BY <1>1, HandedIsCurrent, OthersRest
<1>2. QED
  BY <1>1 DEF Handover

LEMMA CarefulInit == Init => CarefulInv
<1> SUFFICES ASSUME Init PROVE CarefulInv
  OBVIOUS
<1>1. TypeOK
  BY TypeInit
<1>2. \A g \in Goals : pc[g] = "none" /\ status[g] = "unsent" /\ ~Handed(g)
  BY DEF Init, Handed, Waiting
<1>3. OneThread /\ Handover
  BY <1>2 DEF Init, OneThread, Handover, Current, Terminal
<1>4. Filling
  BY <1>2 DEF Filling, SplineFilling, RawFilling, FilledUp
<1>5. Streaming
  BY <1>2 DEF Streaming
<1>6. Counting
  <2>1. \A g \in Goals : Stream!Progress(g) = 0
    BY ProgressEmpty DEF Init
  <2>2. finalJoint = 0 /\ ~pointChanged /\ CountKeepSend = 0
    BY DEF Init, CountKeepSend, WaitMoveFinishTime, MinInterval
  <2>3. QED  BY <1>2, <2>1, <2>2 DEF Counting
<1>7. QED
  BY <1>1, <1>3, <1>4, <1>5, <1>6 DEF CarefulInv

-----------------------------------------------------------------------------
(* The careful client: the callbacks and the threads.                       *)

\* A goal that is new or done meets its part of the invariant as long as
\* what it sent stays sent.
Resting(g) ==
  /\ pc[g] \in {"none", "ended"}
  /\ status[g] \in {"unsent", "succeeded"}
  /\ pc[g] = "none" => Stream!Progress(g) = 0
  /\ status[g] = "succeeded" => /\ SentUpTo(g, SampleCount(g))
                               /\ Stream!Progress(g) = Stream!Total(g)

GoalFilling(g) == SplineFilling(g) /\ RawFilling(g) /\ FilledUp(g)

GoalStreaming(g) ==
  /\ Handed(g) /\ pointChanged => TimerSends(g)
  /\ \/ Handed(g) /\ ~pointChanged
     \/ pc[g] = "finish" \/ status[g] = "succeeded"
     => SentUpTo(g, SampleCount(g))

GoalCounting(g) ==
  /\ Handed(g) /\ pointChanged => TimerCounts(g)
  /\ pc[g] \notin {"wait", "poll", "finish", "ended"} => Stream!Progress(g) = 0
  /\ \/ Handed(g) /\ ~pointChanged
     \/ pc[g] = "finish" \/ status[g] = "succeeded"
     => Stream!Progress(g) = Stream!Total(g)

GoalInv(g) == GoalFilling(g) /\ GoalStreaming(g) /\ GoalCounting(g)

FinalJointInv == finalJoint <= CountKeepSend + 1 /\ (~pointChanged => finalJoint = 0)

LEMMA CarefulInvByGoal ==
  /\ CarefulInv <=> /\ TypeOK /\ OneThread /\ Handover /\ FinalJointInv
                    /\ \A g \in Goals : GoalInv(g)
  /\ CarefulInv' <=> /\ TypeOK' /\ OneThread' /\ Handover' /\ FinalJointInv'
                     /\ \A g \in Goals : GoalInv(g)'
  BY DEF CarefulInv, Filling, Streaming, Counting, GoalInv, GoalFilling, GoalStreaming,
         GoalCounting, FinalJointInv

LEMMA RestingMeetsGoalInv ==
  ASSUME NEW g \in Goals, Resting(g)' PROVE GoalInv(g)'
<1> USE DEF Resting
<1>1. ~Handed(g)'
  BY DEF Handed, Waiting
<1>2. GoalFilling(g)'
  BY <1>1 DEF GoalFilling, SplineFilling, RawFilling, FilledUp
<1>3. GoalStreaming(g)'
  BY <1>1 DEF GoalStreaming
<1>4. GoalCounting(g)'
  BY <1>1 DEF GoalCounting
<1>5. QED
  BY <1>2, <1>3, <1>4 DEF GoalInv

LEMMA OtherRests ==
  ASSUME CarefulInv, NEW g \in Goals, Current(g), NEW h \in Goals \ {g}
  PROVE  Resting(h)
<1>1. TypeOK /\ OneThread /\ GoalInv(h)
  BY CarefulInvByGoal
<1>2. /\ status[h] \in {"unsent", "succeeded"}
      /\ pc[h] \in {"none", "ended"}
  BY <1>1, OthersRest
<1>3. QED
  BY <1>1, <1>2 DEF Resting, GoalInv, GoalStreaming, GoalCounting

\* A goal stays at rest when nothing is published.
LEMMA RestKept ==
  ASSUME NEW h \in Goals, Resting(h), UNCHANGED <<pc[h], status[h], published>>
  PROVE  Resting(h)'
<1>1. Stream!Progress(h)' = Stream!Progress(h)
  BY ProgressKept
<1>2. SentUpTo(h, SampleCount(h)) => SentUpTo(h, SampleCount(h))'
  BY DEF SentUpTo, Sent
<1>3. QED
  BY <1>1, <1>2 DEF Resting, Stream!Total

LEMMA TimerViewKept ==
  ASSUME NEW g \in Goals, UNCHANGED <<p2Vars, timerVars>>
  PROVE  /\ TimerSends(g)' <=> TimerSends(g)
         /\ TimerCounts(g)' <=> TimerCounts(g)
         /\ SentUpTo(g, SampleCount(g))' <=> SentUpTo(g, SampleCount(g))
         /\ Stream!Progress(g)' = Stream!Progress(g)
<1>1. /\ vectorLen' = vectorLen /\ vectorCnt' = vectorCnt
      /\ finalJoint' = finalJoint /\ timer' = timer /\ timerJoint' = timerJoint
      /\ loaded' = loaded /\ jointMsg' = jointMsg /\ published' = published
  BY DEF p2Vars, timerVars
<1>2. Stream!Progress(g)' = Stream!Progress(g)
  BY <1>1, ProgressKept
<1>3. TimerCounts(g)' <=> TimerCounts(g)
  BY <1>1, <1>2 DEF TimerCounts, Stream!Total
<1>4. TimerSends(g)' <=> TimerSends(g)
  BY <1>1 DEF TimerSends, SentUpTo, Sent
<1>5. SentUpTo(g, SampleCount(g))' <=> SentUpTo(g, SampleCount(g))
  BY <1>1 DEF SentUpTo, Sent
<1>6. QED
  BY <1>2, <1>3, <1>4, <1>5

LEMMA HandleGoalKeepsInv ==
  ASSUME Careful, CarefulInv, NEW g \in Goals, HandleGoal(g)
  PROVE  CarefulInv'
<1>1. TypeOK /\ OneThread /\ Handover /\ FinalJointInv /\ \A h \in Goals : GoalInv(h)
  BY CarefulInvByGoal
<1>2. \A h \in Goals : status[h] \in {"unsent", "succeeded"}
  BY DEF Careful, HandleGoal, MayFollow
<1>3. ~pointChanged /\ timer = "idle"
  BY <1>1, <1>2, HandedIsCurrent DEF Handover, HandleGoal, Current
<1>4. /\ UNCHANGED <<joint, item, fillVars, p2Vars, pointChanged, timerVars, node>>
      /\ status' = [status EXCEPT ![g] = "executing"] /\ status[g] = "unsent"
      /\ pc' = [pc EXCEPT ![g] = "start"]
  BY DEF HandleGoal
<1>5. TypeOK'
  BY <1>1, CallbacksKeepTypes
<1>6. OneThread'
  BY <1>1, <1>2, <1>4 DEF OneThread, TypeOK, GoalsTypeOK, Current, Terminal
<1>7. Handover' /\ FinalJointInv'
  BY <1>1, <1>3, <1>4 DEF Handover, FinalJointInv, timerVars
<1>8. ASSUME NEW h \in Goals \ {g} PROVE GoalInv(h)'
  <2>1. Resting(h)
    BY <1>1, <1>2 DEF Resting, GoalInv, GoalStreaming, GoalCounting, OneThread, Terminal
  <2>2. QED  BY <1>1, <1>4, <2>1, RestKept, RestingMeetsGoalInv
               DEF TypeOK, GoalsTypeOK, timerVars
<1>9. GoalInv(g)'
  <2>1. pc'[g] = "start" /\ status'[g] = "executing" /\ ~Handed(g)'
    BY <1>1, <1>4 DEF TypeOK, GoalsTypeOK, Handed, Waiting
  <2>2. Stream!Progress(g)' = 0
    BY <1>1, <1>4, TimerViewKept DEF GoalInv, GoalCounting, OneThread
  <2>3. QED  BY <2>1, <2>2 DEF GoalInv, GoalFilling, SplineFilling, RawFilling, FilledUp,
               GoalStreaming, GoalCounting
<1>10. QED
  BY <1>5, <1>6, <1>7, <1>8, <1>9, CarefulInvByGoal

LEMMA HandleCancelKeepsInv ==
  ASSUME CarefulInv, NEW g \in Goals, HandleCancel(g)
  PROVE  CarefulInv'
<1>1. TypeOK /\ OneThread /\ Handover /\ FinalJointInv /\ \A h \in Goals : GoalInv(h)
  BY CarefulInvByGoal
<1>2. /\ UNCHANGED <<pc, joint, item, fillVars, p2Vars, pointChanged, timerVars, node>>
      /\ status' = [status EXCEPT ![g] = "canceling"] /\ status[g] = "executing"
  BY DEF HandleCancel
<1>3. TypeOK'
  BY <1>1, CallbacksKeepTypes
<1>4. OneThread'
  BY <1>1, <1>2 DEF OneThread, TypeOK, GoalsTypeOK, Current, Terminal
<1>5. \A h \in Goals : Handed(h)' <=> Handed(h)
  BY <1>1, <1>2 DEF TypeOK, GoalsTypeOK, Handed, Waiting
<1>6. Handover' /\ FinalJointInv'
  BY <1>1, <1>2, <1>5 DEF Handover, FinalJointInv, timerVars
<1>7. ASSUME NEW h \in Goals PROVE GoalInv(h)'
  <2>1. GoalFilling(h)'
    BY <1>1, <1>2, <1>5 DEF GoalInv, GoalFilling, SplineFilling, RawFilling, FilledUp, Filled,
       fillVars, p2Vars
  <2>2. status'[h] = "succeeded" => status[h] = "succeeded"
    BY <1>1, <1>2 DEF TypeOK, GoalsTypeOK
  <2>3. GoalStreaming(h)' /\ GoalCounting(h)'
    BY <1>1, <1>2, <1>5, <2>2, TimerViewKept
    DEF GoalInv, GoalStreaming, GoalCounting, Stream!Total
  <2>4. QED  BY <2>1, <2>3 DEF GoalInv
<1>8. QED
  BY <1>3, <1>4, <1>6, <1>7, CarefulInvByGoal

\* What every step of a thread has in common.
LEMMA ThreadFrame ==
  ASSUME CarefulInv, NEW g \in Goals, ExecuteMove(g)
  PROVE  /\ TypeOK' /\ OneThread'
         /\ UNCHANGED timerVars
         /\ ~PollShutdown(g)
         /\ Current(g) /\ status[g] \in {"executing", "canceling"}
         /\ \A h \in Goals \ {g} : GoalInv(h)'
<1> USE DEF ExecuteMove, FillStep, Start, ClearTime, SplineClear, SplineSample, SplineNext,
        RawClear, RawPush, SetLen, SetCnt, SetFlag, Wait, PollAgain, PollCanceled,
        PollShutdown, Finish, Goto
<1>1. TypeOK /\ OneThread /\ \A h \in Goals : GoalInv(h)
  BY CarefulInvByGoal
<1>2. TypeOK'
  BY <1>1, ThreadKeepsGoals, ThreadKeepsFill, ThreadKeepsRest DEF TypeOK
<1>3. ~PollShutdown(g)
  BY <1>1 DEF OneThread
<1>4. UNCHANGED <<timerVars, node>>
  BY <1>3
<1>5. pc[g] \notin {"none", "ended"}
  OBVIOUS
<1>6. status[g] \in {"executing", "canceling"} /\ Current(g)
  BY ONLY <1>1, <1>5, ActiveIsCurrent
<1>7. \A h \in Goals \ {g} : pc'[h] = pc[h] /\ status'[h] = status[h]
  BY <1>1 DEF TypeOK, GoalsTypeOK
<1>8. /\ pc'[g] # "none"
      /\ \/ pc'[g] # "ended" /\ status'[g] = status[g]
         \/ pc'[g] = "ended" /\ status'[g] \in Terminal
  BY <1>1, <1>3 DEF TypeOK, GoalsTypeOK, Terminal
<1>9. OneThread'
  BY <1>1, <1>4, <1>6, <1>7, <1>8 DEF OneThread, Current, Terminal
<1>10. ASSUME NEW h \in Goals \ {g} PROVE GoalInv(h)'
  <2>1. Resting(h)
    BY <1>6, OtherRests
  <2>2. published' = published
    BY <1>4 DEF timerVars
  <2>3. QED  BY ONLY <1>7, <2>1, <2>2, RestKept, RestingMeetsGoalInv
<1>11. QED
  BY <1>2, <1>3, <1>4, <1>6, <1>9, <1>10

\* While a thread fills the vectors the timer rests, so what is left to show
\* of such a step is what it does to the vectors.
LEMMA FillingStep ==
  ASSUME CarefulInv, NEW g \in Goals, ExecuteMove(g), ~Handed(g),
         pc[g] # "finish", pc'[g] \notin {"wait", "poll", "finish", "ended"},
         pointChanged' => pointChanged, status' = status,
         GoalFilling(g)'
  PROVE  CarefulInv'
<1>1. TypeOK /\ OneThread /\ Handover /\ FinalJointInv /\ GoalInv(g)
  BY CarefulInvByGoal
<1>2. /\ TypeOK' /\ OneThread' /\ UNCHANGED timerVars
      /\ Current(g) /\ status[g] \in {"executing", "canceling"}
      /\ \A h \in Goals \ {g} : GoalInv(h)'
  BY ThreadFrame
<1>3. ~pointChanged /\ timer = "idle"
  BY <1>1, <1>2, TimerRests
<1>4. Handover' /\ FinalJointInv'
  BY <1>1, <1>2, <1>3 DEF Handover, FinalJointInv, timerVars
<1>5. ~Handed(g)'
  BY <1>2 DEF Handed, Waiting
<1>6. Stream!Progress(g)' = 0
  <2>1. pc[g] \notin {"wait", "poll", "finish", "ended"}
    BY <1>1, <1>2 DEF Handed, Waiting, OneThread, Terminal
  <2>2. Stream!Progress(g)' = Stream!Progress(g)
    BY <1>2, ProgressKept DEF timerVars
  <2>3. QED  BY <1>1, <2>1, <2>2 DEF GoalInv, GoalCounting
<1>7. GoalStreaming(g)' /\ GoalCounting(g)'
  BY <1>2, <1>5, <1>6 DEF GoalStreaming, GoalCounting
<1>8. QED
  BY <1>2, <1>4, <1>7, CarefulInvByGoal DEF GoalInv

LEMMA StartKeepsInv ==
  ASSUME CarefulInv, NEW g \in Goals, Start(g) PROVE CarefulInv'
<1>1. TypeOK /\ OneThread /\ Handover /\ FinalJointInv /\ GoalInv(g)
  BY CarefulInvByGoal
<1>2. ExecuteMove(g) /\ ~Handed(g)
  <2>1. pc[g] = "start"  BY DEF Start, Goto
  <2>2. status[g] # "canceled"  BY <1>1, <2>1 DEF OneThread, Terminal
  <2>3. QED  BY <2>1, <2>2 DEF ExecuteMove, Handed, Waiting
<1>3. /\ pc'[g] = IF Waypoints[g] > 3 THEN "clearTime"
                  ELSE IF Waypoints[g] > 0 THEN "rawClear" ELSE "finish"
      /\ joint'[g] = 1 /\ item'[g] = 0
  BY <1>1 DEF Start, Goto, TypeOK, GoalsTypeOK
<1>4. /\ TypeOK' /\ OneThread' /\ UNCHANGED timerVars
      /\ Current(g) /\ status[g] \in {"executing", "canceling"}
      /\ \A h \in Goals \ {g} : GoalInv(h)'
  BY <1>2, ThreadFrame
<1>5. ~Handed(g)'
  BY <1>3, <1>4 DEF Handed, Waiting, Start
<1>6. GoalFilling(g)'
  BY <1>3, <1>5, RmControlAssumption
  DEF GoalFilling, SplineFilling, RawFilling, FilledUp, RmControlAssumption
<1>7. CASE Waypoints[g] > 0
  BY <1>2, <1>3, <1>6, <1>7, FillingStep DEF Start, Goto
<1>8. CASE Waypoints[g] = 0
  <2>1. SampleCount(g) = 0
    BY <1>8 DEF SampleCount
  <2>2. ~pointChanged /\ timer = "idle"
    BY <1>1, <1>2, <1>4, TimerRests
  <2>3. Handover' /\ FinalJointInv'
    BY <1>1, <1>4, <2>2 DEF Handover, FinalJointInv, timerVars, Start
  <2>4. Stream!Progress(g)' = 0 /\ Stream!Total(g)' = 0
    <3>1. Stream!Progress(g) = 0
      BY <1>1 DEF GoalInv, GoalCounting, Start, Goto
    <3>2. published' = published  BY <1>4 DEF timerVars
    <3>3. QED  BY <3>1, <3>2, <2>1, ProgressKept DEF Stream!Total
  <2>5. GoalStreaming(g)' /\ GoalCounting(g)'
    BY <1>3, <1>5, <1>8, <2>1, <2>4 DEF GoalStreaming, GoalCounting, SentUpTo
  <2>6. QED
    BY <1>4, <1>6, <2>3, <2>5, CarefulInvByGoal DEF GoalInv
<1>9. QED
  BY <1>7, <1>8, RmControlAssumption DEF RmControlAssumption

\* The typed facts the filling steps start from.
LEMMA FillingFacts ==
  ASSUME CarefulInv, NEW g \in Goals,
         pc[g] \in {"clearTime", "splineClear", "splineFill", "rawClear", "rawPush",
                   "setLen", "setCnt", "setFlag"}
  PROVE  /\ GoalFilling(g)
         /\ ~Handed(g) /\ status[g] # "canceled"
         /\ pc \in [Goals -> Places] /\ joint \in [Goals -> Joints] /\ item \in [Goals -> Nat]
         /\ buffer \in [Joints -> Seq(Sample)] /\ xOut \in Int /\ timeCount \in Nat
         /\ joint[g] \in 1..JointCount /\ JointCount \in Nat /\ Joints = 1..JointCount
         /\ Waypoints[g] \in Nat /\ Duration[g] \in Nat
<1>1. TypeOK /\ OneThread /\ GoalInv(g)
  BY CarefulInvByGoal
<1>2. status[g] # "canceled"
  BY <1>1 DEF OneThread, Terminal
<1>3. QED
  BY <1>1, <1>2, RmControlAssumption
  DEF TypeOK, GoalsTypeOK, FillTypeOK, GoalInv, Handed, Waiting, RmControlAssumption, Joints

LEMMA SplineKeepsInv ==
  ASSUME CarefulInv, NEW g \in Goals,
         ClearTime(g) \/ SplineClear(g) \/ SplineSample(g) \/ SplineNext(g)
  PROVE  CarefulInv'
<1> USE DEF ClearTime, SplineClear, SplineSample, SplineNext, Goto
<1>1. pc[g] \in {"clearTime", "splineClear", "splineFill"}
  OBVIOUS
<1>2. /\ GoalFilling(g)
      /\ ~Handed(g) /\ status[g] # "canceled"
      /\ pc \in [Goals -> Places] /\ joint \in [Goals -> Joints]
      /\ buffer \in [Joints -> Seq(Sample)] /\ xOut \in Int
      /\ joint[g] \in 1..JointCount /\ JointCount \in Nat /\ Joints = 1..JointCount
      /\ Waypoints[g] \in Nat /\ Duration[g] \in Nat
  BY <1>1, FillingFacts
<1>3. Waypoints[g] > 3 /\ SplineFilling(g)
  BY <1>1, <1>2 DEF GoalFilling, SplineFilling
<1>4. /\ pc'[g] \in {"splineClear", "splineFill", "setLen"} /\ ~Handed(g)'
      /\ status' = status
  BY <1>2 DEF Handed, Waiting
<1>5. RawFilling(g)'
  BY <1>4 DEF RawFilling
<1>6. CASE ClearTime(g)
  <2>1. pc'[g] = "splineClear" /\ joint'[g] = 1 /\ timeCount' = 0
    BY <1>2, <1>3, <1>6 DEF SplineFilling
  <2>2. SplineFilling(g)' /\ FilledUp(g)'
    BY <1>3, <1>4, <2>1 DEF SplineFilling, FilledUp
  <2>3. QED  BY <1>2, <1>4, <1>5, <1>6, <2>1, <2>2, FillingStep
             DEF GoalFilling, ExecuteMove, FillStep
<1>7. CASE SplineClear(g)
  <2>1. /\ pc'[g] = "splineFill" /\ joint'[g] = joint[g] /\ timeCount' = timeCount
        /\ xOut' = -1 /\ buffer'[joint[g]] = <<>>
        /\ \A j \in Joints \ {joint[g]} : buffer'[j] = buffer[j]
    BY <1>2, <1>7
  <2>2. SplineFilling(g)' /\ FilledUp(g)'
    BY <1>2, <1>3, <1>4, <1>7, <2>1, PrefixEmpty DEF SplineFilling, FilledUp
  <2>3. QED  BY <1>2, <1>4, <1>5, <1>7, <2>1, <2>2, FillingStep
             DEF GoalFilling, ExecuteMove, FillStep
<1>8. CASE SplineSample(g)
  <2>1. /\ pc'[g] = "splineFill" /\ joint'[g] = joint[g] /\ xOut' = xOut + 1
        /\ buffer'[joint[g]] = Append(buffer[joint[g]], <<g, xOut + 1>>)
        /\ \A j \in Joints \ {joint[g]} : buffer'[j] = buffer[j]
        /\ timeCount' = IF joint[g] = 1 THEN timeCount + 1 ELSE timeCount
    BY <1>2, <1>8
  <2>2. xOut >= -1 /\ buffer[joint[g]] = Prefix(g, xOut + 1) /\ xOut * Rate < Duration[g]
    BY <1>3, <1>8 DEF SplineFilling
  <2>3. buffer'[joint[g]] = Prefix(g, xOut + 2)
    <3>1. xOut + 1 \in Nat  BY <1>2, <2>2
    <3>2. Append(Prefix(g, xOut + 1), <<g, xOut + 1>>) = Prefix(g, (xOut + 1) + 1)
      BY <3>1, PrefixAppend
    <3>3. (xOut + 1) + 1 = xOut + 2  BY <1>2
    <3>4. QED  BY <2>1, <2>2, <3>2, <3>3
  <2>4. /\ xOut' >= -1 /\ (xOut' > 0 => (xOut' - 1) * Rate < Duration[g])
        /\ buffer'[joint'[g]] = Prefix(g, xOut' + 1)
    BY <1>2, <2>1, <2>2, <2>3
  <2>5. /\ timeCount' = IF joint'[g] = 1 THEN xOut' + 1 ELSE SampleCount(g)
        /\ \A j \in 1..(joint'[g] - 1) : buffer'[j] = Prefix(g, SampleCount(g))
    BY <1>2, <1>3, <1>8, <2>1, <2>2 DEF SplineFilling
  <2>6. SplineFilling(g)' /\ FilledUp(g)'
    BY <1>3, <1>4, <2>1, <2>4, <2>5 DEF SplineFilling, FilledUp
  <2>7. QED  BY <1>2, <1>4, <1>5, <1>8, <2>1, <2>6, FillingStep
             DEF GoalFilling, ExecuteMove, FillStep
<1>9. CASE SplineNext(g)
  <2>1. /\ pc'[g] = IF joint[g] < JointCount THEN "splineClear" ELSE "setLen"
        /\ joint'[g] = IF joint[g] < JointCount THEN joint[g] + 1 ELSE joint[g]
        /\ buffer' = buffer /\ timeCount' = timeCount /\ xOut' = xOut
    BY <1>2, <1>9 DEF fillVars
  <2>2. SampleCount(g) = xOut + 1
    BY <1>2, <1>3, <1>9, SplineEnd DEF SplineFilling
  <2>3. \A j \in 1..joint[g] : buffer[j] = Prefix(g, SampleCount(g))
    <3>1. buffer[joint[g]] = Prefix(g, SampleCount(g))
      BY <1>3, <1>9, <2>2 DEF SplineFilling
    <3>2. \A j \in 1..(joint[g] - 1) : buffer[j] = Prefix(g, SampleCount(g))
      BY <1>3, <1>9 DEF SplineFilling
    <3>3. \A j \in 1..joint[g] : j = joint[g] \/ j \in 1..(joint[g] - 1)
      BY <1>2
    <3>4. QED  BY <3>1, <3>2, <3>3
  <2>4. timeCount = SampleCount(g) /\ SampleCount(g) > 0
    <3>1. timeCount = SampleCount(g)
      BY <1>3, <1>9, <2>2 DEF SplineFilling
    <3>2. Waypoints[g] > 0
      BY <1>2, <1>3
    <3>3. QED  BY <3>1, <3>2, SampleCountPositive
  <2>5. SplineFilling(g)'
    BY <1>2, <1>3, <2>1, <2>3, <2>4 DEF SplineFilling
  <2>6. FilledUp(g)'
    BY <1>2, <1>4, <2>1, <2>3, <2>4 DEF FilledUp, Filled
  <2>7. QED  BY <1>2, <1>4, <1>5, <1>9, <2>1, <2>5, <2>6, FillingStep
             DEF GoalFilling, ExecuteMove, FillStep
<1>10. QED
  BY <1>6, <1>7, <1>8, <1>9

LEMMA RawKeepsInv ==
  ASSUME CarefulInv, NEW g \in Goals, RawClear(g) \/ RawPush(g)
  PROVE  CarefulInv'
<1> USE DEF RawClear, RawPush, Goto
<1>1. pc[g] \in {"rawClear", "rawPush"}
  OBVIOUS
<1>2. /\ GoalFilling(g)
      /\ ~Handed(g) /\ status[g] # "canceled"
      /\ pc \in [Goals -> Places] /\ joint \in [Goals -> Joints] /\ item \in [Goals -> Nat]
      /\ buffer \in [Joints -> Seq(Sample)]
      /\ joint[g] \in 1..JointCount /\ JointCount \in Nat /\ Joints = 1..JointCount
      /\ Waypoints[g] \in Nat
  BY <1>1, FillingFacts
<1>3. Waypoints[g] \in 1..3 /\ RawFilling(g)
  BY <1>1, <1>2 DEF GoalFilling, RawFilling
<1>4. /\ pc'[g] \in {"rawClear", "rawPush", "setLen"} /\ ~Handed(g)'
      /\ status' = status
  BY <1>2 DEF Handed, Waiting
<1>5. SplineFilling(g)'
  BY <1>4 DEF SplineFilling
<1>6. SampleCount(g) = Waypoints[g] /\ SampleCount(g) > 0
  BY <1>3 DEF SampleCount
<1>7. CASE RawClear(g)
  <2>1. /\ pc'[g] = IF joint[g] < JointCount THEN "rawClear" ELSE "rawPush"
        /\ joint'[g] = IF joint[g] < JointCount THEN joint[g] + 1 ELSE 1
        /\ item'[g] = 0
        /\ buffer'[joint[g]] = <<>>
        /\ \A j \in Joints \ {joint[g]} : buffer'[j] = buffer[j]
    BY <1>2, <1>3, <1>7 DEF RawFilling
  <2>2. \A j \in 1..joint[g] : buffer'[j] = Prefix(g, 0)
    BY <1>2, <1>3, <1>7, <2>1, PrefixEmpty DEF RawFilling
  <2>3. RawFilling(g)' /\ FilledUp(g)'
    BY <1>2, <1>3, <1>4, <2>1, <2>2 DEF RawFilling, FilledUp
  <2>4. QED  BY <1>2, <1>4, <1>5, <1>7, <2>1, <2>3, FillingStep
             DEF GoalFilling, ExecuteMove, FillStep
<1>8. CASE RawPush(g)
  <2> DEFINE lastJoint == joint[g] = JointCount
             lastItem  == item[g] + 1 = Waypoints[g]
  <2>1. /\ pc'[g] = IF lastJoint /\ lastItem THEN "setLen" ELSE "rawPush"
        /\ joint'[g] = IF lastJoint THEN 1 ELSE joint[g] + 1
        /\ item'[g] = IF lastJoint THEN item[g] + 1 ELSE item[g]
        /\ buffer'[joint[g]] = Append(buffer[joint[g]], <<g, item[g]>>)
        /\ \A j \in Joints \ {joint[g]} : buffer'[j] = buffer[j]
    BY <1>2, <1>8
  <2>2. /\ item[g] \in Nat /\ item[g] < Waypoints[g]
        /\ \A j \in Joints :
             buffer[j] = Prefix(g, IF j < joint[g] THEN item[g] + 1 ELSE item[g])
    BY <1>2, <1>3, <1>8 DEF RawFilling
  <2>3. buffer'[joint[g]] = Prefix(g, item[g] + 1)
    <3>1. Append(Prefix(g, item[g]), <<g, item[g]>>) = Prefix(g, item[g] + 1)
      BY <2>2, PrefixAppend
    <3>2. buffer[joint[g]] = Prefix(g, item[g])
      BY <1>2, <2>2
    <3>3. QED  BY <2>1, <3>1, <3>2
  <2>4. \A j \in Joints :
          buffer'[j] = Prefix(g, IF j < joint[g] + 1 THEN item[g] + 1 ELSE item[g])
    <3> SUFFICES ASSUME NEW j \in Joints
                 PROVE  buffer'[j] =
                          Prefix(g, IF j < joint[g] + 1 THEN item[g] + 1 ELSE item[g])
      OBVIOUS
    <3>1. CASE j = joint[g]
      BY <1>2, <2>3, <3>1
    <3>2. CASE j # joint[g]
      <4>1. (j < joint[g] + 1) <=> (j < joint[g])
        BY <1>2, <3>2
      <4>2. QED  BY <2>1, <2>2, <3>2, <4>1
    <3>3. QED  BY <3>1, <3>2
  <2>5. RawFilling(g)'
    <3>1. CASE ~lastJoint
      BY <1>2, <1>3, <2>1, <2>2, <2>4, <3>1 DEF RawFilling
    <3>2. CASE lastJoint
      <4>1. \A j \in Joints : buffer'[j] = Prefix(g, item[g] + 1)
        BY <1>2, <2>4, <3>2
      <4>2. QED  BY <1>2, <1>3, <2>1, <2>2, <3>2, <4>1 DEF RawFilling
    <3>3. QED  BY <3>1, <3>2
  <2>6. FilledUp(g)'
    <3>1. CASE lastJoint /\ lastItem
      <4>1. \A j \in Joints : buffer'[j] = Prefix(g, SampleCount(g))
        <5>1. \A j \in Joints : j < joint[g] + 1
          BY <1>2, <3>1
        <5>2. QED  BY <1>6, <2>4, <3>1, <5>1
      <4>2. QED  BY <1>3, <1>4, <1>6, <2>1, <3>1, <4>1 DEF FilledUp, Filled
    <3>2. CASE ~(lastJoint /\ lastItem)
      BY <1>4, <2>1, <3>2 DEF FilledUp
    <3>3. QED  BY <3>1, <3>2
  <2>7. QED  BY <1>2, <1>4, <1>5, <1>8, <2>1, <2>5, <2>6, FillingStep
             DEF GoalFilling, ExecuteMove, FillStep
<1>9. QED
  BY <1>7, <1>8

LEMMA SetKeepsInv ==
  ASSUME CarefulInv, NEW g \in Goals, SetLen(g) \/ SetCnt(g)
  PROVE  CarefulInv'
<1> USE DEF SetLen, SetCnt, Goto
<1>1. pc[g] \in {"setLen", "setCnt"}
  OBVIOUS
<1>2. /\ GoalFilling(g)
      /\ ~Handed(g) /\ status[g] # "canceled"
      /\ pc \in [Goals -> Places] /\ Waypoints[g] \in Nat
  BY <1>1, FillingFacts
<1>3. /\ pc'[g] \in {"setCnt", "setFlag"} /\ ~Handed(g)'
      /\ status' = status
  BY <1>2 DEF Handed, Waiting
<1>4. SplineFilling(g)' /\ RawFilling(g)'
  BY <1>3 DEF SplineFilling, RawFilling
<1>5. SampleCount(g) > 0 /\ Filled(g) /\ Filled(g)'
  BY <1>1, <1>2 DEF GoalFilling, FilledUp, Filled, fillVars
<1>6. CASE SetLen(g)
  <2>1. pc'[g] = "setCnt"
    BY <1>2, <1>6
  <2>2. vectorLen' = SampleCount(g)
    BY <1>2, <1>6 DEF GoalFilling, FilledUp, SampleCount
  <2>3. FilledUp(g)'
    BY <1>3, <1>5, <2>1, <2>2 DEF FilledUp
  <2>4. QED  BY <1>2, <1>3, <1>4, <1>6, <2>1, <2>3, FillingStep DEF GoalFilling, ExecuteMove
<1>7. CASE SetCnt(g)
  <2>1. pc'[g] = "setFlag" /\ vectorLen' = SampleCount(g) /\ vectorCnt' = 0
    BY <1>2, <1>7 DEF GoalFilling, FilledUp
  <2>2. FilledUp(g)'
    BY <1>3, <1>5, <2>1 DEF FilledUp
  <2>3. QED  BY <1>2, <1>3, <1>4, <1>7, <2>1, <2>2, FillingStep DEF GoalFilling, ExecuteMove
<1>8. QED
  BY <1>6, <1>7

LEMMA SampleCountNat == \A g \in Goals : SampleCount(g) \in Nat
  BY SampleCountType

\* Raising point_changed hands the vectors and the counters over.
LEMMA SetFlagKeepsInv ==
  ASSUME CarefulInv, NEW g \in Goals, SetFlag(g)
  PROVE  CarefulInv'
<1>1. TypeOK /\ OneThread /\ Handover /\ FinalJointInv /\ GoalInv(g)
  BY CarefulInvByGoal
<1>2. /\ TypeOK' /\ OneThread' /\ UNCHANGED timerVars
      /\ Current(g) /\ status[g] \in {"executing", "canceling"}
      /\ \A h \in Goals \ {g} : GoalInv(h)'
  BY ThreadFrame DEF ExecuteMove
<1>3. /\ pc[g] = "setFlag" /\ pc'[g] = "wait" /\ pointChanged'
      /\ status' = status /\ UNCHANGED <<fillVars, p2Vars>>
  BY <1>1 DEF SetFlag, Goto, TypeOK, GoalsTypeOK
<1>4. ~Handed(g) /\ Handed(g)' /\ status'[g] # "succeeded"
  BY <1>2, <1>3 DEF Handed, Waiting
<1>5. ~pointChanged /\ timer = "idle" /\ finalJoint = 0
  BY <1>1, <1>2, <1>4, TimerRests DEF FinalJointInv
<1>6. /\ timer' = "idle" /\ finalJoint' = 0
      /\ vectorLen' = SampleCount(g) /\ vectorCnt' = 0 /\ published' = published
  BY <1>1, <1>2, <1>3, <1>5 DEF timerVars, p2Vars, GoalInv, GoalFilling, FilledUp
<1>7. Handover' /\ FinalJointInv'
  BY <1>3, <1>4, <1>6 DEF Handover, FinalJointInv, CountKeepSend, WaitMoveFinishTime, MinInterval
<1>8. GoalFilling(g)'
  <2>1. SampleCount(g) > 0 /\ Filled(g)'
    BY <1>1, <1>3 DEF GoalInv, GoalFilling, FilledUp, Filled, fillVars
  <2>2. QED  BY <1>3, <2>1 DEF GoalFilling, SplineFilling, RawFilling, FilledUp
<1>9. TimerSends(g)'
  BY <1>6, SampleCountNat DEF TimerSends, SentUpTo
<1>10. TimerCounts(g)'
  <2>1. Stream!Progress(g)' = 0
    BY <1>1, <1>3, <1>6, ProgressKept DEF GoalInv, GoalCounting
  <2>2. QED  BY <1>6, <2>1 DEF TimerCounts
<1>11. GoalStreaming(g)' /\ GoalCounting(g)'
  BY <1>3, <1>4, <1>9, <1>10 DEF GoalStreaming, GoalCounting
<1>12. QED
  BY <1>2, <1>7, <1>8, <1>11, CarefulInvByGoal DEF GoalInv

\* In the waiting loop the thread reads point_changed and its goal's status.
LEMMA WaitKeepsInv ==
  ASSUME CarefulInv, NEW g \in Goals, Wait(g) \/ PollAgain(g) \/ PollCanceled(g)
  PROVE  CarefulInv'
<1>1. TypeOK /\ OneThread /\ Handover /\ FinalJointInv /\ GoalInv(g)
  BY CarefulInvByGoal
<1>2. /\ TypeOK' /\ OneThread' /\ UNCHANGED timerVars
      /\ Current(g) /\ status[g] \in {"executing", "canceling"}
      /\ \A h \in Goals \ {g} : GoalInv(h)'
  BY ThreadFrame DEF ExecuteMove
<1>3. /\ pc[g] \in {"wait", "poll"} /\ Handed(g)
      /\ UNCHANGED <<fillVars, p2Vars, pointChanged>>
      /\ \/ pc'[g] \in {"wait", "poll"} /\ status'[g] = status[g]
         \/ pc'[g] = "finish" /\ ~pointChanged /\ status'[g] = status[g]
         \/ pc'[g] = "ended" /\ status'[g] = "canceled"
  BY <1>1 DEF Wait, PollAgain, PollCanceled, Goto, TypeOK, GoalsTypeOK, Handed, Waiting
<1>4. /\ pc'[g] = "finish" => ~Handed(g)'
      /\ pc'[g] # "finish" => Handed(g)'
      /\ status'[g] # "succeeded"
  BY <1>2, <1>3 DEF Handed, Waiting
<1>5. Handover' /\ FinalJointInv'
  BY <1>1, <1>2, <1>3, <1>4 DEF Handover, FinalJointInv, timerVars
<1>6. GoalFilling(g)'
  <2>1. SampleCount(g) > 0 /\ Filled(g)'
    BY <1>1, <1>3 DEF GoalInv, GoalFilling, FilledUp, Filled, fillVars
  <2>2. QED  BY <1>3, <2>1 DEF GoalFilling, SplineFilling, RawFilling, FilledUp
<1>7. /\ pointChanged => TimerSends(g)' /\ TimerCounts(g)'
      /\ ~pointChanged => /\ SentUpTo(g, SampleCount(g))'
                          /\ Stream!Progress(g)' = Stream!Total(g)'
  BY <1>1, <1>2, <1>3, TimerViewKept DEF GoalInv, GoalStreaming, GoalCounting, Stream!Total
<1>8. GoalStreaming(g)' /\ GoalCounting(g)'
  BY <1>3, <1>4, <1>7 DEF GoalStreaming, GoalCounting
<1>9. QED
  BY <1>2, <1>5, <1>6, <1>8, CarefulInvByGoal DEF GoalInv

LEMMA FinishKeepsInv ==
  ASSUME CarefulInv, NEW g \in Goals, Finish(g)
  PROVE  CarefulInv'
<1>1. TypeOK /\ OneThread /\ Handover /\ FinalJointInv /\ GoalInv(g)
  BY CarefulInvByGoal
<1>2. /\ TypeOK' /\ OneThread' /\ UNCHANGED timerVars
      /\ Current(g) /\ status[g] \in {"executing", "canceling"}
      /\ \A h \in Goals \ {g} : GoalInv(h)'
  BY ThreadFrame DEF ExecuteMove
<1>3. /\ pc[g] = "finish" /\ pc'[g] = "ended" /\ status'[g] = "succeeded"
      /\ UNCHANGED <<fillVars, p2Vars, pointChanged>>
  BY <1>1 DEF Finish, Goto, TypeOK, GoalsTypeOK
<1>4. ~Handed(g) /\ ~Handed(g)'
  BY <1>2, <1>3 DEF Handed, Waiting
<1>5. ~pointChanged /\ timer = "idle"
  BY <1>1, <1>2, <1>4, TimerRests
<1>6. Handover' /\ FinalJointInv'
  BY <1>1, <1>2, <1>3, <1>5 DEF Handover, FinalJointInv, timerVars
<1>7. Resting(g)'
  BY <1>1, <1>2, <1>3, TimerViewKept
  DEF Resting, GoalInv, GoalStreaming, GoalCounting, Stream!Total
<1>8. QED
  BY <1>2, <1>6, <1>7, RestingMeetsGoalInv, CarefulInvByGoal

-----------------------------------------------------------------------------
(* The careful client: the timer callback.                                  *)

LEMMA ConflictFree == CarefulInv => NoConflict
<1> SUFFICES ASSUME CarefulInv PROVE NoConflict
  OBVIOUS
<1>1. TypeOK /\ OneThread /\ Handover
  BY CarefulInvByGoal
<1>2. ASSUME NEW j \in Joints, NEW g \in Writers(j)
      PROVE  g \in Goals /\ Current(g) /\ ~Handed(g)
  <2>1. g \in Goals /\ pc[g] \in {"splineClear", "splineFill", "rawClear", "rawPush"}
    BY DEF Writers
  <2>2. status[g] \in {"executing", "canceling"} /\ Current(g)
    BY <1>1, <2>1, ActiveIsCurrent
  <2>3. QED  BY <2>1, <2>2 DEF Handed, Waiting
<1>3. ASSUME NEW j \in Joints, NEW g \in Writers(j) PROVE ~Reading
  BY <1>1, <1>2, <1>3, TimerRests DEF Reading
<1>4. ASSUME NEW j \in Joints, NEW g \in Writers(j) PROVE Writers(j) = {g}
  BY <1>1, <1>2, <1>4 DEF OneThread
<1>5. ~Conflict
  BY <1>3, <1>4 DEF Conflict
<1>6. QED
  BY <1>1, <1>5 DEF NoConflict, OneThread

\* What the timer finds when it runs at all: a goal whose vectors it has.
LEMMA TimerFinds ==
  ASSUME CarefulInv, NEW g \in Goals, Handed(g)
  PROVE  /\ SampleCount(g) \in Nat \ {0}
         /\ Filled(g)
         /\ pc[g] \in {"wait", "poll", "ended"} /\ status[g] # "succeeded" /\ Current(g)
         /\ \A h \in Goals \ {g} : Resting(h)
         /\ \A j \in Joints : Writers(j) = {}
<1>1. TypeOK /\ OneThread /\ Handover /\ GoalInv(g)
  BY CarefulInvByGoal
<1>2. Current(g)
  BY <1>1, HandedIsCurrent
<1>3. pc[g] \in {"wait", "poll", "ended"} /\ status[g] # "succeeded"
  BY <1>1, <1>2 DEF Handed, Waiting, OneThread, Terminal, Current
<1>4. \A h \in Goals \ {g} : Resting(h)
  BY <1>2, OtherRests
<1>5. SampleCount(g) \in Nat \ {0} /\ Filled(g)
  BY <1>1, SampleCountNat DEF GoalInv, GoalFilling, FilledUp
<1>6. \A j \in Joints : Writers(j) = {}
  BY <1>3, <1>4 DEF Writers, Resting
<1>7. QED
  BY <1>2, <1>3, <1>4, <1>5, <1>6

LEMMA AlwaysInRange ==
  ASSUME CarefulInv, NEW g \in Goals, Handed(g), pointChanged, Reading
  PROVE  /\ InRange
         /\ timer = "read" => /\ vectorCnt \in 0..(SampleCount(g) - 1)
                              /\ buffer[timerJoint][ReadIndex + 1] = <<g, vectorCnt>>
         /\ timer = "repeat" => buffer[timerJoint][ReadIndex + 1] = <<g, SampleCount(g) - 1>>
<1>1. SampleCount(g) \in Nat \ {0} /\ Filled(g)
  BY TimerFinds
<1>2. timer \in {"read", "repeat"} /\ timerJoint \in Joints
  BY DEF Reading
<1>3. /\ Len(buffer[timerJoint]) = SampleCount(g)
      /\ \A k \in 0..(SampleCount(g) - 1) : buffer[timerJoint][k + 1] = <<g, k>>
  BY <1>1, <1>2, PrefixRead DEF Filled
<1>4. vectorCnt \in Nat /\ TimerSends(g)
  BY CarefulInvByGoal DEF GoalInv, GoalStreaming, TypeOK, CountersTypeOK
<1>5. CASE timer = "read"
  <2>1. vectorCnt \in 0..(SampleCount(g) - 1) /\ ReadIndex = vectorCnt
    BY <1>1, <1>4, <1>5 DEF TimerSends, ReadIndex
  <2>2. QED  BY <1>3, <1>5, <2>1 DEF InRange
<1>6. CASE timer = "repeat"
  <2>1. ReadIndex = SampleCount(g) - 1 /\ ReadIndex \in 0..(SampleCount(g) - 1)
    BY <1>1, <1>4, <1>6 DEF TimerSends, ReadIndex
  <2>2. QED  BY <1>3, <1>6, <2>1 DEF InRange
<1>7. QED
  BY <1>2, <1>5, <1>6

\* What is left to show of a step of the timer.
LEMMA TimerFrame ==
  ASSUME CarefulInv, TimerStep, NEW g \in Goals, Handed(g), pointChanged,
         Handover' \/ UNCHANGED pointChanged, FinalJointInv',
         pointChanged' => TimerSends(g)' /\ TimerCounts(g)',
         ~pointChanged' => /\ SentUpTo(g, SampleCount(g))'
                           /\ Stream!Progress(g)' = Stream!Total(g)',
         \A h \in Goals \ {g} : Resting(h)'
  PROVE  CarefulInv'
<1>1. TypeOK /\ OneThread /\ Handover
  BY CarefulInvByGoal
<1>2. TypeOK'
  BY <1>1, TimerKeepsTypes
<1>3. ~ReadOutOfRange
  BY AlwaysInRange DEF ReadOutOfRange
<1>4. UNCHANGED <<goalVars, fillVars, node>>
  BY <1>3 DEF TimerStep, TimerTick, TimerCompare, ReadJoint, PublishSample, Advance,
              PublishRepeat, ResetCnt, ResetLen, ResetFlag
<1>5. OneThread'
  BY <1>1, <1>4 DEF OneThread, Current, goalVars
<1>6. Handed(g)' /\ pc' = pc /\ status' = status
  BY <1>4 DEF Handed, Waiting, goalVars
<1>7. Handover'
  BY <1>6 DEF Handover
<1>8. /\ SampleCount(g) \in Nat \ {0} /\ Filled(g)
      /\ pc[g] \in {"wait", "poll", "ended"} /\ status[g] # "succeeded"
  BY TimerFinds
<1>9. GoalFilling(g)'
  <2>1. Filled(g)'
    BY <1>4, <1>8 DEF Filled, fillVars
  <2>2. QED  BY <1>6, <1>8, <2>1 DEF GoalFilling, SplineFilling, RawFilling, FilledUp
<1>10. GoalStreaming(g)' /\ GoalCounting(g)'
  BY <1>6, <1>8 DEF GoalStreaming, GoalCounting
<1>11. \A h \in Goals \ {g} : GoalInv(h)'
  BY RestingMeetsGoalInv
<1>12. QED
  BY <1>2, <1>5, <1>7, <1>9, <1>10, <1>11, CarefulInvByGoal DEF GoalInv

\* The facts a step of the timer starts from.
LEMMA TimerFacts ==
  ASSUME CarefulInv, NEW g \in Goals, Handed(g), pointChanged
  PROVE  /\ TypeOK /\ FinalJointInv /\ TimerSends(g) /\ TimerCounts(g)
         /\ SampleCount(g) \in Nat \ {0} /\ CountKeepSend \in Nat
         /\ vectorLen \in Nat /\ vectorCnt \in Nat /\ loaded \in Nat /\ finalJoint \in Nat
         /\ timerJoint \in 1..(JointCount + 1) /\ JointCount \in Nat /\ Joints = 1..JointCount
         /\ jointMsg \in Message /\ published \in Seq(Message)
         /\ Stream!Progress(g) \in Nat
         /\ Stream!Total(g) = SampleCount(g) + CountKeepSend + 1
         /\ \A h \in Goals \ {g} : Resting(h)
<1>1. TypeOK /\ FinalJointInv /\ TimerSends(g) /\ TimerCounts(g)
  BY CarefulInvByGoal DEF GoalInv, GoalStreaming, GoalCounting
<1>2. SampleCount(g) \in Nat \ {0} /\ \A h \in Goals \ {g} : Resting(h)
  BY TimerFinds
<1>3. CountKeepSend \in Nat
  BY DEF CountKeepSend, WaitMoveFinishTime, MinInterval
<1>4. Stream!Total(g) = SampleCount(g) + CountKeepSend + 1
  BY <1>2, <1>3 DEF Stream!Total
<1>5. Stream!Progress(g) \in Nat
  BY <1>1, ProgressType
<1>6. QED
  BY <1>1, <1>2, <1>3, <1>4, <1>5, RmControlAssumption
  DEF TypeOK, CountersTypeOK, TimerTypeOK, RmControlAssumption, Joints

\* Steps that publish nothing.
LEMMA QuietTimerKeepsInv ==
  ASSUME CarefulInv, NEW g \in Goals, Handed(g), pointChanged,
         TimerTick \/ TimerCompare \/ ReadJoint \/ Advance
           \/ ResetCnt \/ ResetLen \/ ResetFlag
  PROVE  CarefulInv'
<1>1. /\ TypeOK /\ FinalJointInv /\ TimerSends(g) /\ TimerCounts(g)
      /\ SampleCount(g) \in Nat \ {0} /\ CountKeepSend \in Nat
      /\ vectorLen \in Nat /\ vectorCnt \in Nat /\ loaded \in Nat /\ finalJoint \in Nat
      /\ timerJoint \in 1..(JointCount + 1) /\ JointCount \in Nat /\ Joints = 1..JointCount
      /\ jointMsg \in Message
      /\ Stream!Progress(g) \in Nat
      /\ Stream!Total(g) = SampleCount(g) + CountKeepSend + 1
      /\ \A h \in Goals \ {g} : Resting(h)
  BY TimerFacts
<1> USE DEF TimerTick, TimerCompare, ReadJoint, Advance, ResetCnt, ResetLen, ResetFlag, TimerGoto
<1>2. TimerStep
  BY DEF TimerStep
<1>3. UNCHANGED <<goalVars, published>>
  OBVIOUS
<1>4. /\ Stream!Progress(g)' = Stream!Progress(g)
      /\ Stream!Total(g)' = Stream!Total(g)
  BY <1>3, ProgressKept DEF Stream!Total
<1>5. \A h \in Goals \ {g} : Resting(h)'
  BY <1>1, <1>3, RestKept DEF goalVars
<1>6. /\ SentUpTo(g, SampleCount(g)) <=> SentUpTo(g, SampleCount(g))'
      /\ \A k : Sent(Whole(g, k)) <=> Sent(Whole(g, k))'
  BY <1>3 DEF SentUpTo, Sent
<1>7. CASE TimerTick
  <2>1. timer = "idle" /\ timer' = "compare" /\ UNCHANGED <<p2Vars, finalJoint, pointChanged>>
    BY <1>7
  <2>2. TimerSends(g)'
    BY <1>1, <1>6, <2>1 DEF TimerSends, SentUpTo, p2Vars
  <2>3. TimerCounts(g)'
    BY <1>1, <1>4, <2>1 DEF TimerCounts, p2Vars
  <2>4. QED  BY <1>1, <1>2, <1>5, <2>1, <2>2, <2>3, TimerFrame DEF FinalJointInv
<1>8. CASE TimerCompare
  <2>1. /\ timer = "compare" /\ timerJoint' = 1
        /\ UNCHANGED <<vectorCnt, vectorLen, pointChanged>>
        /\ vectorLen = SampleCount(g) /\ vectorCnt <= SampleCount(g)
        /\ SentUpTo(g, vectorCnt) /\ SentUpTo(g, vectorCnt)'
    BY <1>1, <1>6, <1>8 DEF TimerSends, p2Vars, SentUpTo
  <2>2. TimerSends(g)'
    BY <1>1, <1>6, <1>8, <2>1 DEF TimerSends
  <2>3. TimerCounts(g)' /\ FinalJointInv'
    BY <1>1, <1>4, <1>8, <2>1 DEF TimerCounts, FinalJointInv
  <2>4. QED  BY <1>2, <1>5, <2>1, <2>2, <2>3, TimerFrame
<1>9. CASE ReadJoint
  <2>1. /\ Reading /\ timer' = timer /\ timerJoint' = timerJoint + 1
        /\ UNCHANGED <<vectorCnt, vectorLen, finalJoint, pointChanged>>
        /\ jointMsg' = [jointMsg EXCEPT ![timerJoint] = buffer[timerJoint][ReadIndex + 1]]
        /\ timer \in {"read", "repeat"} /\ timerJoint \in Joints
    BY <1>9 DEF p2Vars, Reading
  <2>2. /\ jointMsg'[timerJoint] = buffer[timerJoint][ReadIndex + 1]
        /\ \A j \in 1..(timerJoint - 1) : jointMsg'[j] = jointMsg[j]
    BY <1>1, <2>1 DEF Message
  <2>3. /\ timer = "read" => jointMsg'[timerJoint] = <<g, vectorCnt>>
        /\ timer = "repeat" => jointMsg'[timerJoint] = <<g, SampleCount(g) - 1>>
    BY <2>1, <2>2, AlwaysInRange
  <2>4. \A j \in 1..(timerJoint' - 1) : j = timerJoint \/ j \in 1..(timerJoint - 1)
    BY <1>1, <2>1
  <2>5. /\ timer = "read" => \A j \in 1..(timerJoint' - 1) : jointMsg'[j] = <<g, vectorCnt>>
        /\ timer = "repeat" =>
             \A j \in 1..(timerJoint' - 1) : jointMsg'[j] = <<g, SampleCount(g) - 1>>
    BY <1>1, <2>2, <2>3, <2>4 DEF TimerSends, TimerCounts
  <2>6. TimerSends(g)'
    BY <1>1, <1>6, <2>1, <2>5 DEF TimerSends, SentUpTo
  <2>7. TimerCounts(g)' /\ FinalJointInv'
    BY <1>1, <1>4, <2>1, <2>5 DEF TimerCounts, FinalJointInv
  <2>8. QED  BY <1>2, <1>5, <2>1, <2>6, <2>7, TimerFrame
<1>10. CASE Advance
  <2>1. /\ timer = "advance" /\ timer' = "idle" /\ vectorCnt' = vectorCnt + 1
        /\ UNCHANGED <<vectorLen, finalJoint, pointChanged>>
    BY <1>1, <1>10 DEF TimerSends
  <2>2. /\ vectorLen = SampleCount(g) /\ vectorCnt < SampleCount(g)
        /\ SentUpTo(g, vectorCnt) /\ Sent(Whole(g, vectorCnt))
    BY <1>1, <2>1 DEF TimerSends
  <2>3. \A k \in 0..vectorCnt : Sent(Whole(g, k))'
    <3>1. \A k \in 0..vectorCnt : k = vectorCnt \/ k \in 0..(vectorCnt - 1)
      BY <1>1
    <3>2. QED  BY <1>6, <2>2, <3>1 DEF SentUpTo
  <2>4. SentUpTo(g, vectorCnt)'
    BY <1>1, <2>1, <2>3 DEF SentUpTo
  <2>5. TimerSends(g)'
    BY <1>1, <2>1, <2>2, <2>4 DEF TimerSends
  <2>6. TimerCounts(g)' /\ FinalJointInv'
    BY <1>1, <1>4, <2>1, <2>2 DEF TimerCounts, FinalJointInv
  <2>7. QED  BY <1>2, <1>5, <2>1, <2>5, <2>6, TimerFrame
<1>11. CASE ResetCnt \/ ResetLen
  <2>1. /\ timer \in {"resetCnt", "resetLen"} /\ timer' \in {"resetLen", "resetFlag"}
        /\ UNCHANGED <<finalJoint, pointChanged>>
    BY <1>11
  <2>2. TimerSends(g)' /\ TimerCounts(g)' /\ FinalJointInv'
    BY <1>1, <1>4, <1>6, <2>1 DEF TimerSends, TimerCounts, FinalJointInv
  <2>3. QED  BY <1>2, <1>5, <2>1, <2>2, TimerFrame
<1>12. CASE ResetFlag
  <2>1. timer = "resetFlag" /\ timer' = "idle" /\ finalJoint' = finalJoint /\ ~pointChanged'
    BY <1>12
  <2>2. /\ SentUpTo(g, SampleCount(g))' /\ Stream!Progress(g)' = Stream!Total(g)'
        /\ finalJoint = 0
    BY <1>1, <1>4, <1>6, <2>1 DEF TimerSends, TimerCounts
  <2>3. Handover' /\ FinalJointInv'
    BY <1>1, <2>1, <2>2 DEF Handover, FinalJointInv
  <2>4. QED  BY <1>2, <1>5, <2>1, <2>2, <2>3, TimerFrame
<1>13. QED
  BY <1>7, <1>8, <1>9, <1>10, <1>11, <1>12

\* A whole set point of g is published: the other goals keep what they sent.
LEMMA PublishingKeepsRest ==
  ASSUME CarefulInv, NEW g \in Goals, NEW k \in 0..SampleCount(g),
         published' = Append(published, Whole(g, k)), UNCHANGED goalVars,
         NEW h \in Goals \ {g}, Resting(h)
  PROVE  Resting(h)'
<1>1. TypeOK
  BY CarefulInvByGoal
<1>2. Stream!Progress(h)' = Stream!Progress(h)
  BY <1>1, ProgressAppend
<1>3. SentUpTo(h, SampleCount(h)) => SentUpTo(h, SampleCount(h))'
  BY <1>1, SentAppend DEF SentUpTo
<1>4. QED
  BY <1>2, <1>3 DEF Resting, goalVars, Stream!Total

LEMMA PublishSampleSends ==
  ASSUME CarefulInv, NEW g \in Goals, Handed(g), pointChanged, PublishSample
  PROVE  /\ vectorCnt \in 0..(SampleCount(g) - 1)
         /\ jointMsg = Whole(g, vectorCnt)
         /\ Stream!Progress(g) = vectorCnt
<1>1. /\ TimerSends(g) /\ TimerCounts(g) /\ SampleCount(g) \in Nat \ {0}
      /\ vectorCnt \in Nat /\ jointMsg \in Message
      /\ timerJoint \in 1..(JointCount + 1) /\ JointCount \in Nat /\ Joints = 1..JointCount
  BY TimerFacts
<1>2. timer = "read" /\ timerJoint > JointCount
  BY DEF PublishSample, TimerGoto
<1>3. \A j \in Joints : j \in 1..(timerJoint - 1)
  BY <1>1, <1>2
<1>4. \A j \in Joints : jointMsg[j] = <<g, vectorCnt>>
  BY <1>1, <1>2, <1>3 DEF TimerSends
<1>5. jointMsg = Whole(g, vectorCnt)
  BY <1>1, <1>4 DEF Whole, Message
<1>6. QED
  BY <1>1, <1>2, <1>5 DEF TimerSends, TimerCounts

LEMMA PublishRepeatSends ==
  ASSUME CarefulInv, NEW g \in Goals, Handed(g), pointChanged, PublishRepeat
  PROVE  /\ jointMsg = Whole(g, SampleCount(g) - 1)
         /\ vectorCnt = SampleCount(g) /\ finalJoint <= CountKeepSend
         /\ Stream!Progress(g) = SampleCount(g) + finalJoint
<1>1. /\ TimerSends(g) /\ TimerCounts(g)
      /\ jointMsg \in Message
      /\ timerJoint \in 1..(JointCount + 1) /\ JointCount \in Nat /\ Joints = 1..JointCount
  BY TimerFacts
<1>2. timer = "repeat" /\ timerJoint > JointCount
  BY DEF PublishRepeat, TimerGoto
<1>3. \A j \in Joints : j \in 1..(timerJoint - 1)
  BY <1>1, <1>2
<1>4. \A j \in Joints : jointMsg[j] = <<g, SampleCount(g) - 1>>
  BY <1>1, <1>2, <1>3 DEF TimerCounts
<1>5. QED
  BY <1>1, <1>2, <1>4 DEF Whole, Message, TimerSends, TimerCounts

LEMMA PublishSampleKeepsInv ==
  ASSUME CarefulInv, NEW g \in Goals, Handed(g), pointChanged, PublishSample
  PROVE  CarefulInv'
<1>1. /\ TypeOK /\ FinalJointInv /\ TimerSends(g) /\ TimerCounts(g)
      /\ SampleCount(g) \in Nat \ {0} /\ vectorCnt \in Nat
      /\ \A h \in Goals \ {g} : Resting(h)
  BY TimerFacts
<1>2. /\ vectorCnt \in 0..(SampleCount(g) - 1)
      /\ jointMsg = Whole(g, vectorCnt)
      /\ Stream!Progress(g) = vectorCnt
  BY PublishSampleSends
<1>3. /\ timer = "read" /\ timer' = "advance" /\ loaded' = vectorCnt
      /\ UNCHANGED <<goalVars, vectorCnt, vectorLen, finalJoint, pointChanged>>
      /\ published' = Append(published, jointMsg)
  BY DEF PublishSample, TimerGoto, p2Vars
<1>4. PICK k \in 0..(SampleCount(g) - 1) : k = vectorCnt
  BY <1>2
<1>5. published' = Append(published, Whole(g, k)) /\ k \in 0..SampleCount(g)
  BY <1>1, <1>2, <1>3, <1>4
<1>6. \A h \in Goals \ {g} : Resting(h)'
  BY <1>1, <1>3, <1>5, PublishingKeepsRest
<1>7. Stream!Progress(g)' = vectorCnt + 1
  BY <1>1, <1>2, <1>5, ProgressAppend
<1>8. Sent(Whole(g, k))' /\ \A x : Sent(x) => Sent(x)'
  BY <1>1, <1>5, SentAppend
<1>9. TimerSends(g)'
  BY <1>1, <1>3, <1>4, <1>8 DEF TimerSends, SentUpTo
<1>10. TimerCounts(g)' /\ FinalJointInv'
  BY <1>1, <1>3, <1>7 DEF TimerCounts, FinalJointInv
<1>11. QED
  BY <1>3, <1>6, <1>9, <1>10, TimerFrame DEF TimerStep

LEMMA PublishRepeatKeepsInv ==
  ASSUME CarefulInv, NEW g \in Goals, Handed(g), pointChanged, PublishRepeat
  PROVE  CarefulInv'
<1>1. /\ TypeOK /\ FinalJointInv /\ TimerSends(g) /\ TimerCounts(g)
      /\ SampleCount(g) \in Nat \ {0} /\ vectorCnt \in Nat /\ finalJoint \in Nat
      /\ CountKeepSend \in Nat
      /\ \A h \in Goals \ {g} : Resting(h)
  BY TimerFacts
<1>2. /\ jointMsg = Whole(g, SampleCount(g) - 1)
      /\ vectorCnt = SampleCount(g) /\ finalJoint <= CountKeepSend
      /\ Stream!Progress(g) = SampleCount(g) + finalJoint
  BY PublishRepeatSends
<1>3. /\ timer = "repeat" /\ timer' = "idle" /\ finalJoint' = finalJoint + 1
      /\ UNCHANGED <<goalVars, vectorCnt, vectorLen, pointChanged>>
      /\ published' = Append(published, jointMsg)
  BY DEF PublishRepeat, TimerGoto, p2Vars
<1>4. /\ published' = Append(published, Whole(g, SampleCount(g) - 1))
      /\ SampleCount(g) - 1 \in 0..SampleCount(g)
  BY <1>1, <1>2, <1>3
<1>5. \A h \in Goals \ {g} : Resting(h)'
  BY <1>1, <1>3, <1>4, PublishingKeepsRest
<1>6. Stream!Progress(g)' = SampleCount(g) + finalJoint + 1
  BY <1>1, <1>2, <1>4, ProgressAppend
<1>7. \A x : Sent(x) => Sent(x)'
  BY <1>1, <1>4, SentAppend
<1>8. TimerSends(g)'
  BY <1>1, <1>2, <1>3, <1>7 DEF TimerSends, SentUpTo
<1>9. TimerCounts(g)' /\ FinalJointInv'
  BY <1>1, <1>2, <1>3, <1>6 DEF TimerCounts, FinalJointInv
<1>10. QED
  BY <1>3, <1>5, <1>8, <1>9, TimerFrame DEF TimerStep

-----------------------------------------------------------------------------
(* The careful client: the theorems.                                        *)

LEMMA TimerHasGoal ==
  ASSUME CarefulInv, TimerStep \/ RacyRead
  PROVE  pointChanged /\ \E g \in Goals : Handed(g)
<1>1. Handover
  BY CarefulInvByGoal
<1>2. timer = "idle" => pointChanged
  BY DEF TimerStep, RacyRead, TimerTick, TimerCompare, ReadJoint, ReadOutOfRange, Reading,
         PublishSample, Advance, PublishRepeat, ResetCnt, ResetLen, ResetFlag, TimerGoto
<1>3. QED
  BY <1>1, <1>2 DEF Handover

\* The steps a careful client cannot cause.
LEMMA NoFault ==
  ASSUME Careful, CarefulInv
  PROVE  ~ReadOutOfRange /\ ~RacyRead /\ ~MemoryFault /\ ~Shutdown /\ ~Exit
<1>1. ~MemoryFault
  BY ConflictFree DEF NoConflict, MemoryFault
<1>2. ~Shutdown /\ ~Exit
  BY CarefulInvByGoal DEF Careful, Shutdown, Exit, OneThread
<1>3. ASSUME RacyRead PROVE FALSE
  <2>1. PICK g \in Goals : Handed(g)
    BY <1>3, TimerHasGoal
  <2>2. Writers(timerJoint) = {}
    BY <1>3, <2>1, TimerFinds DEF RacyRead, Reading
  <2>3. QED  BY <1>3, <2>2 DEF RacyRead
<1>4. ASSUME ReadOutOfRange PROVE FALSE
  <2>1. pointChanged /\ \E g \in Goals : Handed(g)
    BY <1>4, TimerHasGoal DEF TimerStep
  <2>2. QED  BY <1>4, <2>1, AlwaysInRange DEF ReadOutOfRange
<1>5. QED
  BY <1>1, <1>2, <1>3, <1>4

LEMMA CarefulStutter == ASSUME CarefulInv, UNCHANGED vars PROVE CarefulInv'
<1>1. TypeOK /\ OneThread /\ Handover /\ FinalJointInv /\ \A g \in Goals : GoalInv(g)
  BY CarefulInvByGoal
<1>2. /\ UNCHANGED <<goalVars, fillVars, p2Vars, pointChanged, timerVars, node>>
      /\ UNCHANGED <<status, pc, joint, item, buffer, timeCount, xOut, vectorLen, vectorCnt>>
  BY DEF vars, goalVars, fillVars, p2Vars
<1>3. TypeOK'
  BY <1>1, TypeNext
<1>4. OneThread' /\ Handover' /\ FinalJointInv'
  BY <1>1, <1>2 DEF OneThread, Handover, FinalJointInv, Current, Handed, Waiting, timerVars
<1>5. ASSUME NEW g \in Goals PROVE GoalInv(g)'
  <2>1. GoalInv(g) /\ (Handed(g)' <=> Handed(g))
    BY <1>1, <1>2 DEF Handed, Waiting
  <2>2. GoalFilling(g)'
    BY <1>2, <2>1 DEF GoalInv, GoalFilling, SplineFilling, RawFilling, FilledUp, Filled
  <2>3. GoalStreaming(g)' /\ GoalCounting(g)'
    BY <1>2, <2>1, TimerViewKept DEF GoalInv, GoalStreaming, GoalCounting, Stream!Total
  <2>4. QED  BY <2>2, <2>3 DEF GoalInv
<1>6. QED
  BY <1>3, <1>4, <1>5, CarefulInvByGoal

LEMMA CarefulNext == ASSUME Careful, CarefulInv, [Next]_vars PROVE CarefulInv'
<1>1. ASSUME NEW g \in Goals, HandleGoal(g) \/ HandleCancel(g) PROVE CarefulInv'
  BY <1>1, HandleGoalKeepsInv, HandleCancelKeepsInv
<1>2. ASSUME NEW g \in Goals, ExecuteMove(g) PROVE CarefulInv'
  <2>1. ~PollShutdown(g)
    BY <1>2, ThreadFrame
  <2>2. QED
    BY <1>2, <2>1, StartKeepsInv, SplineKeepsInv, RawKeepsInv, SetKeepsInv, SetFlagKeepsInv,
       WaitKeepsInv, FinishKeepsInv
    DEF ExecuteMove, FillStep
<1>3. CASE TimerStep
  <2>1. pointChanged /\ \E g \in Goals : Handed(g)
    BY <1>3, TimerHasGoal
  <2>2. PICK g \in Goals : Handed(g)
    BY <2>1
  <2>3. ~ReadOutOfRange
    BY NoFault
  <2>4. QED
    BY <1>3, <2>1, <2>2, <2>3, QuietTimerKeepsInv, PublishSampleKeepsInv, PublishRepeatKeepsInv
    DEF TimerStep
<1>4. CASE UNCHANGED vars
  BY <1>4, CarefulStutter
<1>5. QED
  BY <1>1, <1>2, <1>3, <1>4, NoFault DEF Next

(* What a client that waits for success relies on, cancels included: one     *)
(* thread at a time, vectors that change hands with point_changed, samples   *)
(* where the timer expects them, and a count of what is out.                 *)
THEOREM CarefulInvariant == ASSUME Careful PROVE Spec => []CarefulInv
<1>1. Init => CarefulInv
  BY CarefulInit
<1>2. CarefulInv /\ [Next]_vars => CarefulInv'
  BY CarefulNext
<1>3. QED
  BY <1>1, <1>2, PTL DEF Spec

(* Such a client never makes two actors meet at a vector, and the node does  *)
(* not crash under it.                                                       *)
THEOREM CarefulNoConflict == ASSUME Careful PROVE Spec => []NoConflict
  BY CarefulInvariant, ConflictFree, PTL

(* For such a client a goal that is reported as succeeded has had every one  *)
(* of its set points published.                                              *)
THEOREM CarefulSucceeded == ASSUME Careful PROVE Spec => []SucceededMeansSent
<1>1. CarefulInv => SucceededMeansSent
  BY CarefulInvByGoal DEF SucceededMeansSent, GoalInv, GoalStreaming, SentUpTo
<1>2. QED
  BY <1>1, CarefulInvariant, PTL

(* Every step of the server is a step of TrajectoryStream or leaves its view *)
(* unchanged, so no goal succeeds early and no set point is lost, sent twice *)
(* or sent out of order.                                                     *)
LEMMA StreamStep ==
  ASSUME Careful, CarefulInv, [Next]_vars
  PROVE  [Stream!StreamNext]_(Stream!streamVars)
<1> USE DEF Stream!StreamNext, Stream!streamVars
<1>1. TypeOK /\ OneThread /\ \A h \in Goals : GoalInv(h)
  BY CarefulInvByGoal
<1>2. ASSUME NEW g \in Goals, HandleGoal(g) PROVE Stream!Accept(g)
  BY <1>2 DEF HandleGoal, Careful, MayFollow, Stream!Accept, timerVars
<1>3. ASSUME NEW g \in Goals, HandleCancel(g) PROVE Stream!Cancel(g)
  BY <1>3 DEF HandleCancel, Stream!Cancel, timerVars
<1>4. ASSUME NEW g \in Goals, ExecuteMove(g)
      PROVE  Stream!Canceled(g) \/ Stream!Succeed(g) \/ UNCHANGED Stream!streamVars
  <2>1. ~PollShutdown(g) /\ UNCHANGED published /\ status[g] \in {"executing", "canceling"}
    BY <1>4, ThreadFrame DEF timerVars
  <2>2. CASE PollCanceled(g)
    BY <2>1, <2>2 DEF PollCanceled, Stream!Canceled
  <2>3. CASE Finish(g)
    <3>1. Stream!Progress(g) = Stream!Total(g)
      BY <1>1, <2>3 DEF Finish, Goto, GoalInv, GoalCounting
    <3>2. QED  BY <2>1, <2>3, <3>1 DEF Finish, Stream!Succeed
  <2>4. CASE ~PollCanceled(g) /\ ~Finish(g)
    BY <1>4, <2>1, <2>4 DEF ExecuteMove, FillStep, Start, ClearTime, SplineClear, SplineSample,
       SplineNext, RawClear, RawPush, SetLen, SetCnt, SetFlag, Wait, PollAgain
  <2>5. QED  BY <2>2, <2>3, <2>4
<1>5. CASE TimerStep
  <2>1. pointChanged /\ \E g \in Goals : Handed(g)
    BY <1>5, TimerHasGoal
  <2>2. PICK g \in Goals : Handed(g)
    BY <2>1
  <2>3. status[g] \in {"executing", "canceling", "canceled"}
    BY <2>2, TimerFinds DEF Current
  <2>4. /\ SampleCount(g) \in Nat \ {0} /\ finalJoint \in Nat /\ CountKeepSend \in Nat
        /\ Stream!Total(g) = SampleCount(g) + CountKeepSend + 1
    BY <2>1, <2>2, TimerFacts
  <2>5. ASSUME NEW k, jointMsg = Whole(g, k),
               k = IF Stream!Progress(g) < SampleCount(g)
                   THEN Stream!Progress(g) ELSE SampleCount(g) - 1
        PROVE  jointMsg = Stream!Message(g, Stream!Progress(g))
    BY <2>5 DEF Stream!Message, Stream!SetPoint, Whole, Joints
  <2>6. CASE PublishSample
    <3>1. /\ vectorCnt \in 0..(SampleCount(g) - 1)
          /\ jointMsg = Whole(g, vectorCnt)
          /\ Stream!Progress(g) = vectorCnt
      BY <2>1, <2>2, <2>6, PublishSampleSends
    <3>2. jointMsg = Stream!Message(g, Stream!Progress(g))
      BY <2>4, <2>5, <3>1
    <3>3. Stream!Publish(g)
      BY <2>3, <2>4, <2>6, <3>1, <3>2 DEF PublishSample, Stream!Publish, goalVars
    <3>4. QED  BY <3>3
  <2>7. CASE PublishRepeat
    <3>1. /\ jointMsg = Whole(g, SampleCount(g) - 1)
          /\ finalJoint <= CountKeepSend
          /\ Stream!Progress(g) = SampleCount(g) + finalJoint
      BY <2>1, <2>2, <2>7, PublishRepeatSends
    <3>2. jointMsg = Stream!Message(g, Stream!Progress(g))
      BY <2>4, <2>5, <3>1
    <3>3. Stream!Publish(g)
      BY <2>3, <2>4, <2>7, <3>1, <3>2 DEF PublishRepeat, Stream!Publish, goalVars
    <3>4. QED  BY <3>3
  <2>8. CASE ~PublishSample /\ ~PublishRepeat
    BY <1>5, <2>8, NoFault DEF TimerStep, TimerTick, TimerCompare, ReadJoint, Advance,
       ResetCnt, ResetLen, ResetFlag, goalVars
  <2>9. QED  BY <2>6, <2>7, <2>8
<1>6. CASE UNCHANGED vars
  BY <1>6 DEF vars, goalVars, timerVars
<1>7. QED
  BY <1>2, <1>3, <1>4, <1>5, <1>6, NoFault DEF Next

(* For a client that waits for success, the server implements the safety     *)
(* part of TrajectoryStream.                                                 *)
THEOREM ServesStream == ASSUME Careful PROVE Spec => Stream!StreamSafety
<1>1. Init => Stream!StreamInit
  BY DEF Init, Stream!StreamInit
<1>2. CarefulInv /\ [Next]_vars => [Stream!StreamNext]_(Stream!streamVars)
  BY StreamStep
<1>3. QED
  BY <1>1, <1>2, CarefulInvariant, PTL DEF Spec, Stream!StreamSafety
=============================================================================
