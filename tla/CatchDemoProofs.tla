--------------------------- MODULE CatchDemoProofs ----------------------------
(* The catch demos: past the wait behind a move that move has succeeded. The *)
(* proof does not read the program step by step: it rests on how a move, its *)
(* wait and the reset of the flag follow each other, which concatenating     *)
(* pieces of program preserves.                                              *)
EXTENDS CatchDemo, TLAPS

USE ArmServerAssumption, CatchDemoAssumption

-----------------------------------------------------------------------------
(* Well-formed programs. *)

Waits == {"awaitRun", "awaitPoses", "awaitObject"}
Kinds == Waits \cup Reads \cup {"hand", "reset"}
Steps == [do : {"send"}, topic : Topics] \cup [do : Kinds, topic : {None}]

\* In p a move is waited for at once and the flag cleared after the wait, a
\* wait is never without its move, and coordinates are read after the wait for
\* an object.
WellFormedAt(p, i) ==
  /\ p[i] = SendStep("move") => i < Len(p) /\ p[i + 1].do = "awaitRun"
  /\ p[i].do = "awaitRun" => /\ 1 < i /\ p[i - 1] = SendStep("move")
                             /\ i < Len(p) /\ p[i + 1].do = "reset"
  /\ p[i].do = "reset" => 1 < i /\ p[i - 1].do = "awaitRun"
  /\ p[i].do \in Reads => 1 < i /\ p[i - 1].do \in Reads \cup {"awaitObject"}

WellFormed(p) == p \in Seq(Steps) /\ \A i \in 1..Len(p) : WellFormedAt(p, i)

LEMMA StepTypes ==
  /\ \A t \in Topics : SendStep(t) \in Steps
  /\ \A s \in Kinds : StepOf(s) \in Steps
  BY DEF SendStep, StepOf, Steps

LEMMA WellFormedConcat ==
  ASSUME NEW p, NEW q, WellFormed(p), WellFormed(q)
  PROVE  WellFormed(p \o q)
<1> DEFINE pq == p \o q
<1>1. /\ p \in Seq(Steps) /\ q \in Seq(Steps) /\ pq \in Seq(Steps)
      /\ Len(p) \in Nat /\ Len(q) \in Nat /\ Len(pq) = Len(p) + Len(q)
  BY DEF WellFormed
<1>2. \A i \in 1..Len(p) : pq[i] = p[i]
  BY <1>1
<1>3. \A i \in 1..Len(q) : pq[Len(p) + i] = q[i]
  BY <1>1
<1> HIDE DEF pq
<1>4. ASSUME NEW i \in 1..Len(p) PROVE WellFormedAt(pq, i)
  <2>1. WellFormedAt(p, i) /\ pq[i] = p[i]
    BY <1>2 DEF WellFormed
  <2>2. i < Len(p) => i < Len(pq) /\ pq[i + 1] = p[i + 1]
    BY <1>1, <1>2
  <2>3. 1 < i => pq[i - 1] = p[i - 1]
    BY <1>1, <1>2
  <2>4. QED  BY <2>1, <2>2, <2>3 DEF WellFormedAt
<1>5. ASSUME NEW i \in 1..Len(q) PROVE WellFormedAt(pq, Len(p) + i)
  <2> DEFINE k == Len(p) + i
  <2>1. WellFormedAt(q, i) /\ pq[k] = q[i]
    BY <1>3 DEF WellFormed
  <2>2. i < Len(q) => k < Len(pq) /\ pq[k + 1] = q[i + 1]
    <3>1. i < Len(q) => k + 1 = Len(p) + (i + 1) /\ i + 1 \in 1..Len(q)
      BY <1>1
    <3>2. QED  BY <1>1, <1>3, <3>1
  <2>3. 1 < i => 1 < k /\ pq[k - 1] = q[i - 1]
    <3>1. 1 < i => 1 < k /\ k - 1 = Len(p) + (i - 1) /\ i - 1 \in 1..Len(q)
      BY <1>1
    <3>2. 1 < i => pq[Len(p) + (i - 1)] = q[i - 1]
      BY <1>3, <3>1
    <3>3. QED  BY <3>1, <3>2
  <2> HIDE DEF k
  <2>4. QED  BY <2>1, <2>2, <2>3 DEF WellFormedAt, k
<1>6. ASSUME NEW i \in 1..Len(pq) PROVE WellFormedAt(pq, i)
  <2>1. CASE i \in 1..Len(p)  BY <1>4, <2>1
  <2>2. CASE i \notin 1..Len(p)
    <3>1. i - Len(p) \in 1..Len(q) /\ i = Len(p) + (i - Len(p))
      BY <1>1, <2>2
    <3>2. QED  BY <1>5, <3>1
  <2>3. QED  BY <2>1, <2>2
<1>7. QED  BY <1>1, <1>6 DEF WellFormed, pq

LEMMA MoveAndWaitWellFormed == WellFormed(MoveAndWait)
<1>1. /\ Len(MoveAndWait) = 3
      /\ MoveAndWait[1] = SendStep("move") /\ MoveAndWait[2] = StepOf("awaitRun")
      /\ MoveAndWait[3] = StepOf("reset")
  BY DEF MoveAndWait
<1>2. MoveAndWait \in Seq(Steps)
  BY StepTypes DEF MoveAndWait, Kinds, Waits
<1> HIDE DEF MoveAndWait
<1>3. \A i \in 1..Len(MoveAndWait) : i = 1 \/ i = 2 \/ i = 3
  BY <1>1
<1>4. QED
  BY <1>1, <1>2, <1>3 DEF WellFormed, WellFormedAt, SendStep, StepOf, Reads

\* A piece without a move needs no wait.
LEMMA QuietWellFormed ==
  ASSUME NEW p \in Seq(Steps),
         \A i \in 1..Len(p) : /\ p[i] # SendStep("move")
                              /\ p[i].do \notin Reads \cup {"awaitRun", "reset"}
  PROVE  WellFormed(p)
  BY DEF WellFormed, WellFormedAt

LEMMA PrologueWellFormed == WellFormed(<<SendStep("frame"), StepOf("hand")>>)
<1> DEFINE p == <<SendStep("frame"), StepOf("hand")>>
<1>1. p \in Seq(Steps) /\ Len(p) = 2 /\ p[1] = SendStep("frame") /\ p[2] = StepOf("hand")
  BY StepTypes DEF Kinds
<1> HIDE DEF p
<1>2. \A i \in 1..Len(p) : /\ p[i] # SendStep("move")
                           /\ p[i].do \notin Reads \cup {"awaitRun", "reset"}
  <2>1. \A i \in 1..Len(p) : i = 1 \/ i = 2
    BY <1>1
  <2>2. QED  BY <1>1, <2>1 DEF SendStep, StepOf, Reads
<1>3. WellFormed(p)
  BY <1>1, <1>2, QuietWellFormed
<1>4. QED  BY <1>3 DEF p

LEMMA HandWellFormed == WellFormed(<<StepOf("hand")>>)
<1> DEFINE p == <<StepOf("hand")>>
<1>1. p \in Seq(Steps) /\ Len(p) = 1 /\ p[1] = StepOf("hand")
  BY StepTypes DEF Kinds
<1> HIDE DEF p
<1>2. WellFormed(p)
  BY <1>1, QuietWellFormed DEF SendStep, StepOf, Reads
<1>3. QED  BY <1>2 DEF p

LEMMA LookWellFormed == WellFormed(Look)
<1>1. /\ Len(Look) = 7
      /\ Look[1] = SendStep("lift") /\ Look[2] = SendStep("state")
      /\ Look[3] = StepOf("awaitPoses") /\ Look[4] = StepOf("awaitObject")
      /\ Look[5] = StepOf("readX") /\ Look[6] = StepOf("readY") /\ Look[7] = StepOf("readZ")
  BY DEF Look
<1>2. Look \in Seq(Steps)
  BY StepTypes DEF Look, Kinds, Waits, Reads
<1> HIDE DEF Look
<1>3. \A i \in 1..Len(Look) : i = 1 \/ i = 2 \/ i = 3 \/ i = 4 \/ i = 5 \/ i = 6 \/ i = 7
  BY <1>1
<1>4. QED
  BY <1>1, <1>2, <1>3 DEF WellFormed, WellFormedAt, SendStep, StepOf, Reads

(* The program of the demos sends no move without waiting for it, clears the *)
(* flag after every wait and reads coordinates only after an object was seen. *)
THEOREM ProgramWellFormed == WellFormed(Program)
<1>1. WellFormed(Approach)
  BY PrologueWellFormed, MoveAndWaitWellFormed, WellFormedConcat DEF Approach
<1>2. WellFormed(MoveAndWait \o MoveAndWait)
  BY MoveAndWaitWellFormed, WellFormedConcat
<1>3. WellFormed(MoveAndWait \o MoveAndWait \o MoveAndWait)
  BY <1>2, MoveAndWaitWellFormed, WellFormedConcat
<1>4. WellFormed(Grasp) /\ WellFormed(Retreat)
  BY <1>3, HandWellFormed, WellFormedConcat DEF Grasp, Retreat
<1>5. WellFormed(Approach \o Look)
  BY <1>1, LookWellFormed, WellFormedConcat
<1>6. WellFormed(Approach \o Look \o Grasp)
  BY <1>4, <1>5, WellFormedConcat
<1>7. QED  BY <1>4, <1>6, WellFormedConcat DEF Program
-----------------------------------------------------------------------------
(* What the worker's place tells of the places around it. *)

LEMMA AtStep ==
  ASSUME CatchTypeOK, ~Done
  PROVE  /\ pc \in 1..Len(Program) /\ Program[pc] \in Steps
         /\ WellFormedAt(Program, pc)
<1>1. Program \in Seq(Steps) /\ \A i \in 1..Len(Program) : WellFormedAt(Program, i)
  BY ProgramWellFormed DEF WellFormed
<1>2. pc \in 1..Len(Program)
  BY <1>1 DEF CatchTypeOK, Done
<1>3. QED  BY <1>1, <1>2

\* The step before the one the worker has come to.
LEMMA CameFrom ==
  ASSUME CatchTypeOK, ~Done, pc' = pc + 1
  PROVE  /\ At("awaitRun")' => Program[pc] = SendStep("move")
         /\ At("reset")' => At("awaitRun")
         /\ \A s \in Reads : At(s)' => \E r \in Reads \cup {"awaitObject"} : At(r)
         /\ Program[pc] = SendStep("move") => At("awaitRun")'
         /\ At("awaitRun") => At("reset")'
<1>1. /\ Program \in Seq(Steps) /\ \A i \in 1..Len(Program) : WellFormedAt(Program, i)
      /\ pc \in 1..Len(Program)
  BY ProgramWellFormed, AtStep DEF WellFormed
<1>2. Len(Program) \in Nat
  BY <1>1
<1>3. ASSUME ~Done' PROVE WellFormedAt(Program, pc + 1)
  BY <1>1, <1>2, <1>3 DEF Done
<1>4. WellFormedAt(Program, pc)
  BY <1>1
<1>5. pc < Len(Program) <=> ~Done'
  BY <1>1, <1>2 DEF Done
<1>6. (pc + 1) - 1 = pc
  BY <1>1
<1>7. QED  BY <1>1, <1>3, <1>4, <1>5, <1>6 DEF At, WellFormedAt

-----------------------------------------------------------------------------
LEMMA CatchInvInit == CatchInit => CatchInv
<1> SUFFICES ASSUME CatchInit PROVE CatchInv
  OBVIOUS
<1>1. CatchTypeOK
  <2>1. /\ aoyi \in BOOLEAN /\ runState \in BOOLEAN /\ pose2 \in BOOLEAN /\ pose3 \in BOOLEAN
        /\ matched \in BOOLEAN
    BY Zenon DEF CatchInit
  <2>2. Len(Program) \in Nat
    BY ProgramWellFormed DEF WellFormed
  <2>3. QED  BY <2>1, <2>2 DEF CatchInit, ServerInit, CatchTypeOK, Commands
<1>2. Accounted /\ StepsAfterSuccess
  BY DEF CatchInit, ServerInit, Accounted, StepsAfterSuccess, Commands
<1>3. ~At("awaitRun") /\ \A s \in Reads : ~At(s)
  <2> SUFFICES ASSUME ~Done PROVE Program[pc].do # "awaitRun" /\ Program[pc].do \notin Reads
    BY DEF At
  <2>1. WellFormedAt(Program, pc) /\ pc = 1
    BY <1>1, AtStep DEF CatchInit
  <2>2. QED  BY <2>1 DEF WellFormedAt
<1>4. FlagIsFresh /\ ObjectSeen
  BY <1>3 DEF CatchInit, FlagIsFresh, ObjectSeen
<1>5. QED  BY <1>1, <1>2, <1>4 DEF CatchInv

\* A command goes out.
LEMMA PublishKeeps ==
  ASSUME CatchInv, NEW t \in Topics, PublishTo(t), ~At("awaitRun"), ~At("reset"),
         \A s \in Reads \cup {"awaitObject"} : ~At(s), ~Done,
         (Program[pc] = SendStep("move")) <=> (t = "move")
  PROVE  CatchInv'
<1>1. CatchTypeOK /\ Accounted /\ StepsAfterSuccess /\ FlagIsFresh
  BY DEF CatchInv
<1>2. /\ sent < MaxCommands /\ sent' = sent + 1 /\ pc' = pc + 1
      /\ UNCHANGED <<aoyi, camera, runState, pose2, pose3, object, delivered, missed, matched>>
  BY DEF PublishTo, callbackVars
<1>3. PICK outcome \in {"queued", "lost"} : Publish(sent + 1, t, outcome)
  BY DEF PublishTo, Send, Lose
<1>4. /\ topic' = [topic EXCEPT ![sent + 1] = t]
      /\ phase' = [phase EXCEPT ![sent + 1] = outcome]
      /\ replied' = replied
  BY <1>3 DEF Publish
<1>5. sent \in Nat /\ sent + 1 \in Commands /\ phase[sent + 1] = "unsent"
  BY <1>1, <1>2, <1>3 DEF CatchTypeOK, Commands, Publish
<1>6. pc \in 1..Len(Program) /\ Len(Program) \in Nat
  BY <1>1, AtStep, ProgramWellFormed DEF WellFormed
<1>7. CatchTypeOK'
  <2>1. (/\ aoyi \in BOOLEAN /\ runState \in BOOLEAN /\ pose2 \in BOOLEAN /\ pose3 \in BOOLEAN
         /\ matched \in BOOLEAN)'
    BY <1>1, <1>2, Zenon DEF CatchTypeOK
  <2>2. (topic \in [Commands -> Topics \cup {None}])'
    BY <1>1, <1>4 DEF CatchTypeOK
  <2>3. (phase \in [Commands -> {"unsent", "lost", "queued", "running", "ok", "failed"}])'
    BY <1>1, <1>4 DEF CatchTypeOK
  <2>4. QED  BY <1>1, <1>2, <1>4, <1>5, <1>6, <2>1, <2>2, <2>3 DEF CatchTypeOK
<1>8. /\ \A c \in Commands : c # sent + 1 => phase'[c] = phase[c] /\ topic'[c] = topic[c]
      /\ phase'[sent + 1] = outcome /\ topic'[sent + 1] = t
  BY <1>1, <1>4, <1>5 DEF CatchTypeOK
<1>9. \A c \in 1..sent : c \in Commands /\ c # sent + 1
  BY <1>1, <1>5 DEF CatchTypeOK, Commands
<1>10. t = "move" => At("awaitRun")'
  BY <1>1, <1>2, CameFrom
<1>11. At("awaitRun")' => t = "move"
  BY <1>1, <1>2, CameFrom
<1>12. Accounted'
  <2>1. (\A c \in Commands : phase[c] = "unsent" <=> c > sent)'
    BY <1>1, <1>2, <1>3, <1>5, <1>8 DEF Accounted, Commands
  <2>2. (\A c \in replied : phase[c] \in {"ok", "failed"})'
    BY <1>1, <1>4, <1>5, <1>8 DEF Accounted, CatchTypeOK
  <2>3. (\A c \in 1..sent :
           topic[c] = "move" /\ (c < sent \/ ~At("awaitRun")) => c \in delivered)'
    <3> SUFFICES ASSUME NEW c \in 1..(sent + 1), topic'[c] = "move",
                        c < sent + 1 \/ ~At("awaitRun")'
                 PROVE  c \in delivered
      BY <1>2
    <3>1. c # sent + 1
      BY <1>8, <1>10
    <3>2. c \in 1..sent /\ topic[c] = "move"
      BY <1>5, <1>8, <1>9, <3>1
    <3>3. QED  BY <1>1, <3>2 DEF Accounted
  <2>4. QED  BY <2>1, <2>2, <2>3 DEF Accounted
<1>13. StepsAfterSuccess'
  <2> SUFFICES ASSUME NEW c \in 1..(sent + 1), topic'[c] = "move",
                      c < sent + 1 \/ ~At("awaitRun")'
               PROVE  phase'[c] = "ok"
    BY <1>2 DEF StepsAfterSuccess
  <2>1. c # sent + 1
    BY <1>8, <1>10
  <2>2. c \in 1..sent /\ c \in Commands /\ topic[c] = "move"
    BY <1>5, <1>8, <1>9, <2>1
  <2>3. phase[c] = "ok"
    BY <1>1, <2>2 DEF StepsAfterSuccess
  <2>4. QED  BY <1>8, <2>1, <2>2, <2>3
<1>14. FlagIsFresh'
  <2>1. runState' => FALSE
    BY <1>1, <1>2 DEF FlagIsFresh
  <2>2. At("awaitRun")' => sent' > 0 /\ topic'[sent'] = "move"
    BY <1>2, <1>5, <1>8, <1>11
  <2>3. QED  BY <2>1, <2>2 DEF FlagIsFresh
<1>15. ObjectSeen'
  BY <1>1, <1>2, CameFrom DEF ObjectSeen
<1>16. QED  BY <1>7, <1>12, <1>13, <1>14, <1>15 DEF CatchInv
\* The worker goes on without a command: from a wait only if it is over.
LEMMA AdvanceKeeps ==
  ASSUME CatchInv, ~Done, pc' = pc + 1, Program[pc] # SendStep("move"),
         UNCHANGED <<serverVars, aoyi, sent, pose2, pose3, object, delivered, missed, matched>>,
         camera' = camera \/ (camera' = camera \cup {object} /\ \E s \in Reads : At(s)),
         IF At("reset") THEN runState' = FALSE ELSE runState' = runState,
         At("awaitRun") => runState,
         At("awaitObject") => object # Nothing
  PROVE  CatchInv'
<1>1. CatchTypeOK /\ Accounted /\ StepsAfterSuccess /\ FlagIsFresh /\ ObjectSeen
  BY DEF CatchInv
<1>2. pc \in 1..Len(Program) /\ Len(Program) \in Nat
  BY <1>1, AtStep, ProgramWellFormed DEF WellFormed
<1>3. ~At("awaitRun")' /\ (At("reset")' => At("awaitRun"))
  BY <1>1, CameFrom
<1>4. CatchTypeOK'
  <2>1. (/\ aoyi \in BOOLEAN /\ runState \in BOOLEAN /\ pose2 \in BOOLEAN /\ pose3 \in BOOLEAN
         /\ matched \in BOOLEAN)'
    <3>1. runState' \in BOOLEAN
      BY <1>1, Zenon DEF CatchTypeOK
    <3>2. QED  BY <1>1, <3>1, Zenon DEF CatchTypeOK
  <2>2. camera' \subseteq {"zero", "place"}
    BY <1>1 DEF CatchTypeOK, ObjectSeen
  <2>3. QED  BY <1>1, <1>2, <2>1, <2>2 DEF CatchTypeOK, serverVars
<1>5. \A c \in 1..sent : topic[c] = "move" => c \in delivered /\ phase[c] = "ok"
  <2> SUFFICES ASSUME NEW c \in 1..sent, topic[c] = "move"
               PROVE  c \in delivered /\ phase[c] = "ok"
    OBVIOUS
  <2>1. CASE c < sent \/ ~At("awaitRun")
    BY <1>1, <2>1 DEF Accounted, StepsAfterSuccess
  <2>2. CASE c = sent /\ At("awaitRun")
    BY <1>1, <2>2 DEF FlagIsFresh
  <2>3. QED  BY <1>1, <2>1, <2>2 DEF CatchTypeOK
<1>6. Accounted' /\ StepsAfterSuccess'
  BY <1>1, <1>5 DEF Accounted, StepsAfterSuccess, serverVars
<1>7. FlagIsFresh'
  <2>1. runState' => runState /\ ~At("reset")
    OBVIOUS
  <2>2. At("awaitRun") => At("reset")'
    BY <1>1, CameFrom
  <2>3. QED  BY <1>1, <1>3, <2>1, <2>2 DEF FlagIsFresh, serverVars
<1>8. ObjectSeen'
  <2>1. \A s \in Reads : At(s)' => \E r \in Reads \cup {"awaitObject"} : At(r)
    BY <1>1, CameFrom
  <2>2. QED  BY <1>1, <2>1 DEF ObjectSeen
<1>9. QED  BY <1>4, <1>6, <1>7, <1>8 DEF CatchInv

LEMMA WorkerKeeps ==
  ASSUME CatchInv, WorkerStep
  PROVE  CatchInv'
<1>1. CatchTypeOK
  BY DEF CatchInv
<1>2. CASE PublishCommand
  <2>1. /\ ~Done /\ Program[pc].do = "send" /\ Program[pc] \in Steps
        /\ PublishTo(Program[pc].topic)
    BY <1>1, <1>2, AtStep DEF PublishCommand, At
  <2>2. Program[pc].topic \in Topics /\ Program[pc] = SendStep(Program[pc].topic)
    BY <2>1 DEF Steps, Kinds, Waits, Reads, SendStep
  <2>3. (Program[pc] = SendStep("move")) <=> (Program[pc].topic = "move")
    BY <2>2 DEF SendStep
  <2>4. ~At("awaitRun") /\ ~At("reset") /\ \A s \in Reads \cup {"awaitObject"} : ~At(s)
    BY <2>1 DEF At, Reads
  <2>5. QED  BY <2>1, <2>2, <2>3, <2>4, PublishKeeps
<1>3. CASE SetGripper
  <2>1. ~Done /\ Program[pc].do = "hand" /\ PublishTo("gripper") /\ "gripper" \in Topics
    BY <1>3 DEF SetGripper, At
  <2>2. ~At("awaitRun") /\ ~At("reset") /\ \A s \in Reads \cup {"awaitObject"} : ~At(s)
    BY <2>1 DEF At, Reads
  <2>3. Program[pc] # SendStep("move")
    BY <2>1 DEF SendStep
  <2>4. QED  BY <2>1, <2>2, <2>3, PublishKeeps
<1>4. CASE HandOverSocket
  <2>1. ~Done /\ Program[pc].do = "hand"
    BY <1>4 DEF HandOverSocket, At
  <2>2. QED
    BY <1>4, <2>1, AdvanceKeeps DEF HandOverSocket, At, SendStep, callbackVars
<1>5. CASE Await
  <2>1. /\ ~Done /\ Program[pc].do \in Waits
        /\ Program[pc].do = "awaitRun" => runState
        /\ Program[pc].do = "awaitObject" => object # Nothing
    BY <1>5 DEF Await, At, Waits
  <2>2. /\ Program[pc] # SendStep("move") /\ ~At("reset")
        /\ At("awaitRun") => runState
        /\ At("awaitObject") => object # Nothing
    BY <2>1 DEF At, Waits, SendStep
  <2>3. /\ pc' = pc + 1 /\ camera' = camera /\ runState' = runState
        /\ UNCHANGED <<serverVars, aoyi, sent, pose2, pose3, object, delivered, missed, matched>>
    BY <1>5 DEF Await, callbackVars
  <2>4. QED  BY <2>1, <2>2, <2>3, AdvanceKeeps
<1>6. CASE ResetRun
  <2>1. ~Done /\ Program[pc].do = "reset"
    BY <1>6 DEF ResetRun, At
  <2>2. Program[pc] # SendStep("move") /\ At("reset") /\ ~At("awaitRun") /\ ~At("awaitObject")
    BY <2>1 DEF At, SendStep
  <2>3. /\ pc' = pc + 1 /\ camera' = camera /\ runState' = FALSE
        /\ UNCHANGED <<serverVars, aoyi, sent, pose2, pose3, object, delivered, missed, matched>>
    BY <1>6 DEF ResetRun
  <2>4. QED  BY <2>1, <2>2, <2>3, AdvanceKeeps
<1>7. CASE ReadCoordinate
  <2>1. ~Done /\ Program[pc].do \in Reads /\ \E s \in Reads : At(s)
    BY <1>7 DEF ReadCoordinate, At, Reads
  <2>2. /\ Program[pc] # SendStep("move")
        /\ ~At("reset") /\ ~At("awaitRun") /\ ~At("awaitObject")
    BY <2>1 DEF At, Reads, SendStep
  <2>3. /\ pc' = pc + 1 /\ camera' = camera \cup {object} /\ runState' = runState
        /\ UNCHANGED <<serverVars, aoyi, sent, pose2, pose3, object, delivered, missed, matched>>
    BY <1>7 DEF ReadCoordinate, callbackVars
  <2>4. QED  BY <2>1, <2>2, <2>3, AdvanceKeeps
<1>8. QED
  BY <1>2, <1>3, <1>4, <1>5, <1>6, <1>7 DEF WorkerStep

-----------------------------------------------------------------------------
(* The other actors. *)

\* The worker's place and numbers stay, and so do the answers it went by.
LEMMA OthersKeep ==
  ASSUME CatchInv, CatchTypeOK', Accounted', FlagIsFresh', UNCHANGED <<pc, sent, topic>>,
         \A c \in Commands : phase[c] = "ok" => phase'[c] = "ok",
         object # Nothing => object' # Nothing
  PROVE  CatchInv'
<1>1. \A c \in 1..sent : c \in Commands
  BY DEF CatchInv, CatchTypeOK, Commands
<1>2. StepsAfterSuccess' /\ ObjectSeen'
  BY <1>1 DEF CatchInv, StepsAfterSuccess, ObjectSeen, At, Done
<1>3. QED  BY <1>2 DEF CatchInv

LEMMA DriverKeeps ==
  ASSUME CatchInv, NEW c \in Commands, DriverStep(c)
  PROVE  CatchInv'
<1>1. CatchTypeOK /\ Accounted /\ FlagIsFresh
  BY DEF CatchInv
<1>2. UNCHANGED <<topic, workerVars, callbackVars, matched>>
  BY DEF DriverStep, Serve, Answer
<1>3. PICK p \in {"running", "ok", "failed"} :
        /\ phase' = [phase EXCEPT ![c] = p]
        /\ phase[c] \in {"queued", "running"}
        /\ replied' = replied \/ (replied' = replied \cup {c} /\ p \in {"ok", "failed"})
  BY DEF DriverStep, Serve, Answer
<1>4. /\ \A d \in Commands : d # c => phase'[d] = phase[d]
      /\ phase'[c] = p
  BY <1>1, <1>3 DEF CatchTypeOK
<1>5. CatchTypeOK'
  <2>1. (/\ aoyi \in BOOLEAN /\ runState \in BOOLEAN /\ pose2 \in BOOLEAN /\ pose3 \in BOOLEAN
         /\ matched \in BOOLEAN)'
    BY <1>1, <1>2, Zenon DEF CatchTypeOK, workerVars, callbackVars
  <2>2. QED  BY <1>1, <1>2, <1>3, <2>1 DEF CatchTypeOK, workerVars, callbackVars
<1>6. Accounted'
  <2>1. (\A d \in Commands : phase[d] = "unsent" <=> d > sent)'
    BY <1>1, <1>2, <1>3, <1>4 DEF Accounted, workerVars
  <2>2. (\A d \in replied : phase[d] \in {"ok", "failed"})'
    <3>1. \A d \in replied : d \in Commands /\ d # c /\ phase[d] \in {"ok", "failed"}
      BY <1>1, <1>3 DEF Accounted, CatchTypeOK
    <3>2. QED  BY <1>3, <1>4, <3>1
  <2>3. QED
    BY <1>1, <1>2, <2>1, <2>2 DEF Accounted, At, Done, workerVars, callbackVars
<1>7. FlagIsFresh'
  <2>1. runState => sent # c /\ phase'[sent] = "ok"
    <3>1. runState => sent \in Commands /\ phase[sent] = "ok"
      BY <1>1 DEF FlagIsFresh, CatchTypeOK
    <3>2. QED  BY <1>3, <1>4, <3>1
  <2>2. QED  BY <1>1, <1>2, <2>1 DEF FlagIsFresh, At, Done, workerVars, callbackVars
<1>8. QED
  BY <1>2, <1>3, <1>4, <1>5, <1>6, <1>7, OthersKeep DEF workerVars, callbackVars

\* The result of the move the worker waits for: no other can be on its way.
LEMMA MovejpKeeps ==
  ASSUME CatchInv, NEW c \in Commands, MovejpResult(c)
  PROVE  CatchInv'
<1>1. CatchTypeOK /\ Accounted /\ FlagIsFresh
  BY DEF CatchInv
<1>2. /\ c \in replied /\ c \notin delivered /\ topic[c] = "move"
      /\ delivered' = delivered \cup {c}
      /\ runState' = (phase[c] = "ok")
      /\ UNCHANGED <<topic, phase, replied, aoyi, pc, sent, camera, pose2, pose3, object, missed,
                     matched>>
  BY DEF MovejpResult, serverVars, workerVars
<1>3. c = sent /\ At("awaitRun")
  <2>1. c \in 1..sent
    BY <1>1, <1>2 DEF Accounted, CatchTypeOK, Commands
  <2>2. ~(c < sent \/ ~At("awaitRun"))
    BY <1>1, <1>2, <2>1 DEF Accounted
  <2>3. QED  BY <1>1, <2>1, <2>2 DEF CatchTypeOK
<1>4. CatchTypeOK'
  <2>1. (/\ aoyi \in BOOLEAN /\ runState \in BOOLEAN /\ pose2 \in BOOLEAN /\ pose3 \in BOOLEAN
         /\ matched \in BOOLEAN)'
    BY <1>1, <1>2, Zenon DEF CatchTypeOK
  <2>2. QED  BY <1>1, <1>2, <2>1 DEF CatchTypeOK
<1>5. Accounted'
  BY <1>1, <1>2 DEF Accounted, At, Done
<1>6. FlagIsFresh'
  BY <1>1, <1>2, <1>3 DEF FlagIsFresh, At, Done
<1>7. QED  BY <1>2, <1>4, <1>5, <1>6, OthersKeep

LEMMA QuietKeeps ==
  ASSUME CatchInv, Match \/ Detect
           \/ \E c \in Commands : MissResult(c) \/ ArmStateResult(c) \/ OriginalStateResult(c)
  PROVE  CatchInv'
<1>1. CatchTypeOK /\ Accounted /\ FlagIsFresh
  BY DEF CatchInv
<1>2. /\ UNCHANGED <<topic, phase, replied, aoyi, pc, sent, camera, runState, delivered>>
      /\ missed' \subseteq replied
      /\ object' = object \/ object' \in {"zero", "place"}
  BY <1>1 DEF Match, Detect, MissResult, ArmStateResult, OriginalStateResult, serverVars,
              workerVars, callbackVars, CatchTypeOK
<1>3. (pose2' = pose2 \/ pose2') /\ (pose3' = pose3 \/ pose3') /\ (matched' = matched \/ matched')
  BY DEF Match, Detect, MissResult, ArmStateResult, OriginalStateResult, callbackVars
<1>4. CatchTypeOK'
  <2>1. (/\ aoyi \in BOOLEAN /\ runState \in BOOLEAN /\ pose2 \in BOOLEAN /\ pose3 \in BOOLEAN
         /\ matched \in BOOLEAN)'
    BY <1>1, <1>2, <1>3, Zenon DEF CatchTypeOK, Match, Detect, MissResult, ArmStateResult,
       OriginalStateResult, callbackVars
  <2>2. QED  BY <1>1, <1>2, <2>1 DEF CatchTypeOK
<1>5. Accounted' /\ FlagIsFresh'
  BY <1>1, <1>2 DEF Accounted, FlagIsFresh, At, Done
<1>6. object # Nothing => object' # Nothing
  BY <1>2
<1>7. QED  BY <1>2, <1>4, <1>5, <1>6, OthersKeep

LEMMA CatchInvNext == ASSUME CatchInv, [CatchNext]_catchVars PROVE CatchInv'
<1>1. CASE UNCHANGED catchVars
  <2>1. UNCHANGED <<serverVars, workerVars, callbackVars, matched>>
    BY <1>1 DEF catchVars
  <2>2. (/\ aoyi \in BOOLEAN /\ runState \in BOOLEAN /\ pose2 \in BOOLEAN /\ pose3 \in BOOLEAN
         /\ matched \in BOOLEAN)'
    BY <2>1, Zenon DEF CatchInv, CatchTypeOK, workerVars, callbackVars
  <2>3. QED
    BY <2>1, <2>2
    DEF CatchInv, CatchTypeOK, StepsAfterSuccess, Accounted, FlagIsFresh, ObjectSeen, At, Done,
        serverVars, workerVars, callbackVars
<1>2. QED
  BY <1>1, WorkerKeeps, DriverKeeps, MovejpKeeps, QuietKeeps DEF CatchNext, Callback

(* A move whose wait the worker has passed has succeeded, whatever the order  *)
(* in which drivers, detector, discovery and callbacks take their turns, and  *)
(* although results may get lost and commands fail.                          *)
THEOREM CatchInvariant == CatchSpec => []CatchInv
  BY CatchInvInit, CatchInvNext, PTL DEF CatchSpec

(* "If it does not succeed, the program is not carried on".                   *)
THEOREM CatchAfterSuccess == CatchSpec => []StepsAfterSuccess
<1>1. CatchInv => StepsAfterSuccess  BY DEF CatchInv
<1>2. QED  BY <1>1, CatchInvariant, PTL

LEMMA ServerStep ==
  ASSUME CatchInv, [CatchNext]_catchVars
  PROVE  [ServerNext]_serverVars
<1>1. CASE UNCHANGED serverVars
  BY <1>1
<1>2. ASSUME NEW t \in Topics, PublishTo(t) PROVE ServerNext
  <2>1. sent + 1 \in Commands
    BY <1>2 DEF PublishTo, CatchInv, CatchTypeOK, Commands
  <2>2. Send(sent + 1, t) \/ Lose(sent + 1, t)
    BY <1>2 DEF PublishTo
  <2>3. QED  BY <2>1, <2>2 DEF ServerNext
<1>3. CASE PublishCommand
  <2>1. Program[pc].topic \in Topics
    BY <1>3, AtStep DEF PublishCommand, At, CatchInv, Steps, Kinds, Waits, Reads
  <2>2. QED  BY <1>2, <1>3, <2>1 DEF PublishCommand
<1>4. CASE SetGripper
  BY <1>2, <1>4 DEF SetGripper
<1>5. ASSUME NEW c \in Commands, DriverStep(c) PROVE ServerNext
  BY <1>5 DEF DriverStep, ServerNext
<1>6. QED
  BY <1>1, <1>3, <1>4, <1>5
  DEF CatchNext, WorkerStep, HandOverSocket, Await, ResetRun, ReadCoordinate, Match, Callback,
      MovejpResult, ArmStateResult, OriginalStateResult, Detect, MissResult, catchVars

(* The demo only commands the drivers as ArmServer lets a client: a command   *)
(* is published once, in its turn, and never taken back.                      *)
THEOREM CatchUsesServer == CatchSpec => ServerSpec
<1>1. CatchInit => ServerInit
  BY DEF CatchInit
<1>2. QED
  BY <1>1, CatchInvariant, ServerStep, PTL DEF CatchSpec, ServerSpec
=============================================================================
