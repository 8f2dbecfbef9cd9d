----------------------------- MODULE MjcfProofs -----------------------------
(* The MJCF cache: as long as no run dies between starting its converter and *)
(* ending it, a checksum vouches for a whole and fully patched model, and a  *)
(* verdict "ok" of the pre-warm driver stands for a cache the launch will    *)
(* hit; for any number of launches, descriptions and kinds of converter      *)
(* output, and wherever the launches and the driver's child are stopped.     *)
EXTENDS PrewarmMjcf, TLAPS

USE EnsureMjcfAssumption DEF EnsureMjcfAssumption

-----------------------------------------------------------------------------
(* The tables behind finalize_conversion. *)

LEMMA StepTable ==
  /\ Len(FinalSteps) = 6
  /\ FinalSteps[1] = "parse" /\ FinalSteps[2] = "lidar" /\ FinalSteps[3] = "wheels"
  /\ FinalSteps[4] = "parse" /\ FinalSteps[5] = "inertial" /\ FinalSteps[6] = "parse"
  BY DEF FinalSteps

LEMMA DoneTable ==
  /\ DoneBefore[2] = <<>>
  /\ DoneBefore[3] = Append(DoneBefore[2], "lidar")
  /\ DoneBefore[4] = Append(DoneBefore[3], "wheels")
  /\ DoneBefore[5] = DoneBefore[4]
  /\ DoneBefore[6] = Append(DoneBefore[5], "inertial")
  /\ DoneBefore[6] = AllPatches
  BY DEF DoneBefore, AllPatches

LEMMA DoneNext ==
  ASSUME NEW i \in {2, 3, 5}
  PROVE  DoneBefore[i + 1] = Append(DoneBefore[i], FinalSteps[i])
<1>1. DoneBefore[2 + 1] = Append(DoneBefore[2], FinalSteps[2])
  BY DEF DoneBefore, FinalSteps
<1>2. DoneBefore[3 + 1] = Append(DoneBefore[3], FinalSteps[3])
  BY DEF DoneBefore, FinalSteps
<1>3. DoneBefore[5 + 1] = Append(DoneBefore[5], FinalSteps[5])
  BY DEF DoneBefore, FinalSteps, AllPatches
<1>4. QED
  <2>1. i = 2 \/ i = 3 \/ i = 5  OBVIOUS
  <2>2. QED  BY <1>1, <1>2, <1>3, <2>1, Zenon

(* Content stays content when a patch is appended or its end is lost. *)
LEMMA ContentPatched ==
  ASSUME NEW c \in Content, NEW p \in Patches \cup {"partly"}
  PROVE  [c EXCEPT !.done = Append(@, p)] \in Content
<1>1. Append(c.done, p) \in Seq(Patches \cup {"partly"})
  BY DEF Content
<1>2. QED  BY <1>1 DEF Content

LEMMA ContentCut ==
  ASSUME NEW c \in Content, NEW w \in BOOLEAN
  PROVE  [c EXCEPT !.whole = w] \in Content
  BY DEF Content

-----------------------------------------------------------------------------

LEMMA CacheInvInit == Init => CacheInv
<1> SUFFICES ASSUME Init PROVE CacheInv
  OBVIOUS
<1> USE DEF Init
<1>1. TypeOK
  <2>1. abort \in [Runs -> BOOLEAN] /\ converted \in BOOLEAN
    BY Zenon
  <2>2. QED  BY <2>1, StepTable DEF TypeOK, Live, Handled
<1>2. OneRun /\ ConverterContained /\ ChecksumFollows
  BY DEF OneRun, ConverterContained, ChecksumFollows, Ended, Live, Handled
<1>3. ConverterKnows
  BY DEF ConverterKnows
<1>4. ModelFollows
  BY DEF ModelFollows
<1>5. CacheIsSound /\ PublishedIsPatched
  BY DEF CacheIsSound, PublishedIsPatched
<1>6. QED  BY <1>1, <1>2, <1>3, <1>4, <1>5 DEF CacheInv

(* A run starts over whatever files the ones before have left. *)
LEMMA StartKeeps ==
  ASSUME CacheInv, ~MayOrphan, NEW r \in Runs, Start(r)
  PROVE  CacheInv'
<1> USE StepTable DEF CacheInv, Start, Goto, PollReturns, Parses, TypeOK, convVars, fileVars,
        scriptVars
<1>1. TypeOK'
  <2>1. converted' \in BOOLEAN
    BY Zenon
  <2>2. QED  BY <2>1 DEF Handled
<1>2. OneRun' /\ ConverterContained'
  BY DEF OneRun, Ended, ConverterContained, Live, Handled
<1>3. ChecksumFollows'
  BY DEF ChecksumFollows, Handled, OneRun, Ended, CacheIsSound
<1>4. CacheIsSound' /\ PublishedIsPatched'
  BY DEF ChecksumFollows, Handled, CacheIsSound, PublishedIsPatched, Usable, ModelFollows,
         ConverterContained, Live, Made
<1>5. ConverterKnows'
  BY DEF ConverterKnows, OneRun, Ended, ConverterContained, Live, Made
<1>6. ModelFollows'
  BY DEF ModelFollows, OneRun, Ended, ConverterContained, ConverterKnows, Live, Made,
         Usable, Applies
<1>7. QED  BY <1>1, <1>2, <1>3, <1>4, <1>5, <1>6

(* Polling ends with an answer and touches no file. *)
LEMMA PollGivesUpKeeps ==
  ASSUME CacheInv, ~MayOrphan, NEW r \in Runs, PollGivesUp(r)
  PROVE  CacheInv'
<1> USE StepTable DEF CacheInv, PollGivesUp, Goto, PollReturns, Parses, TypeOK, convVars, fileVars,
        scriptVars
<1>1. TypeOK'
  BY DEF Live, Handled, ConverterKnows, Made, ModelFollows, Applies
<1>2. OneRun' /\ ConverterContained'
  BY DEF OneRun, Ended, ConverterContained, Live, Handled
<1>3. ChecksumFollows'
  BY DEF ChecksumFollows, Handled, OneRun, Ended, CacheIsSound
<1>4. CacheIsSound' /\ PublishedIsPatched'
  BY DEF ChecksumFollows, Handled, CacheIsSound, PublishedIsPatched, Usable, ModelFollows,
         ConverterContained, Live, Made
<1>5. ConverterKnows'
  BY DEF ConverterKnows, OneRun, Ended, ConverterContained, Live, Made
<1>6. ModelFollows'
  BY DEF ModelFollows, OneRun, Ended, ConverterContained, ConverterKnows, Live, Made,
         Usable, Applies
<1>7. QED  BY <1>1, <1>2, <1>3, <1>4, <1>5, <1>6

(* A file that parses takes the next place in FinalSteps, or the last. *)
LEMMA ParseKeeps ==
  ASSUME CacheInv, ~MayOrphan, NEW r \in Runs, Parse(r)
  PROVE  CacheInv'
<1> USE StepTable, DoneTable DEF CacheInv, Parse, Goto, PollReturns, Parses, TypeOK, convVars, fileVars,
        scriptVars
<1>1. TypeOK'
  BY DEF Live, Handled, ConverterKnows, Made, ModelFollows, Applies
<1>2. OneRun' /\ ConverterContained'
  BY DEF OneRun, Ended, ConverterContained, Live, Handled
<1>3. ChecksumFollows'
  BY DEF ChecksumFollows, Handled, OneRun, Ended, CacheIsSound
<1>4. CacheIsSound' /\ PublishedIsPatched'
  BY DEF ChecksumFollows, Handled, CacheIsSound, PublishedIsPatched, Usable, ModelFollows,
         ConverterContained, Live, Made
<1>5. ConverterKnows'
  BY DEF ConverterKnows, OneRun, Ended, ConverterContained, Live, Made
<1>6. ModelFollows'
  BY DEF ModelFollows, OneRun, Ended, ConverterContained, ConverterKnows, Live, Made,
         Usable, Applies
<1>7. QED  BY <1>1, <1>2, <1>3, <1>4, <1>5, <1>6

(* The patches go on in the order of FinalSteps. *)
LEMMA ReadPatchKeeps ==
  ASSUME CacheInv, ~MayOrphan, NEW r \in Runs, ReadPatch(r)
  PROVE  CacheInv'
<1> USE StepTable, ContentPatched, DoneTable DEF CacheInv, ReadPatch, Goto, PollReturns, Parses, TypeOK, convVars, fileVars,
        scriptVars
<1>1. TypeOK'
  BY DEF Live, Handled, ConverterKnows, Made, ModelFollows, Applies
<1>2. OneRun' /\ ConverterContained'
  BY DEF OneRun, Ended, ConverterContained, Live, Handled
<1>3. ChecksumFollows'
  BY DEF ChecksumFollows, Handled, OneRun, Ended, CacheIsSound
<1>4. CacheIsSound' /\ PublishedIsPatched'
  BY DEF ChecksumFollows, Handled, CacheIsSound, PublishedIsPatched, Usable, ModelFollows,
         ConverterContained, Live, Made
<1>5. ConverterKnows'
  BY DEF ConverterKnows, OneRun, Ended, ConverterContained, Live, Made
<1>6. ModelFollows'
  <2>1. at \in {2, 3, 5}
    BY DEF Patches
  <2>2. Made(mjcf, Key[r], DoneBefore[at]) /\ mjcf.whole /\ mjcf \in Content
    BY <2>1 DEF ModelFollows, Made
  <2>3. DoneBefore[at + 1] = Append(DoneBefore[at], FinalSteps[at])
    BY <2>1, DoneNext
  <2>4. text' # NoFile
    <3>1. text' = [mjcf EXCEPT !.done = Append(@, FinalSteps[at])]
      OBVIOUS
    <3>2. text' \in Content
      <4>1. mjcf \in Content /\ FinalSteps[at] \in Patches \cup {"partly"}
        BY <2>2
      <4>2. [mjcf EXCEPT !.done = Append(@, FinalSteps[at])] \in Content
        BY <4>1, ContentPatched
      <4>3. QED  BY <3>1, <4>2
    <3>3. QED  BY <3>2
  <2>5. Made(text', Key[r], DoneBefore[at + 1]) /\ text'.whole
    BY <2>2, <2>3, <2>4 DEF Made, Content
  <2>6. QED
    BY <2>1, <2>5 DEF ModelFollows, OneRun, Ended, Made
<1>7. QED  BY <1>1, <1>2, <1>3, <1>4, <1>5, <1>6

(* A patch that does not match ends the run, with the file as it is. *)
LEMMA PatchMismatchKeeps ==
  ASSUME CacheInv, ~MayOrphan, NEW r \in Runs, PatchMismatch(r)
  PROVE  CacheInv'
<1> USE StepTable DEF CacheInv, PatchMismatch, Goto, PollReturns, Parses, TypeOK, convVars, fileVars,
        scriptVars
<1>1. TypeOK'
  <2>1. mjcf' \in Content \cup {NoFile}
    <3>1. CASE UNCHANGED mjcf
      BY <3>1
    <3>2. CASE mjcf # NoFile /\ mjcf' = [mjcf EXCEPT !.done = Append(@, "partly")]
      <4>1. mjcf \in Content
        BY <3>2
      <4>2. [mjcf EXCEPT !.done = Append(@, "partly")] \in Content
        BY <4>1, ContentPatched
      <4>3. QED  BY <3>2, <4>2
    <3>3. QED  BY <3>1, <3>2
  <2>2. QED  BY <2>1 DEF Handled
<1>2. OneRun' /\ ConverterContained'
  BY DEF OneRun, Ended, ConverterContained, Live, Handled
<1>3. ChecksumFollows'
  BY DEF ChecksumFollows, Handled, OneRun, Ended, CacheIsSound
<1>4. CacheIsSound' /\ PublishedIsPatched'
  BY DEF ChecksumFollows, Handled, CacheIsSound, PublishedIsPatched, Usable, ModelFollows,
         ConverterContained, Live, Made
<1>5. ConverterKnows'
  BY DEF ConverterKnows, OneRun, Ended, ConverterContained, Live, Made
<1>6. ModelFollows'
  BY DEF ModelFollows, OneRun, Ended, ConverterContained, ConverterKnows, Live, Made,
         Usable, Applies
<1>7. QED  BY <1>1, <1>2, <1>3, <1>4, <1>5, <1>6

(* write_text in its two halves. *)
LEMMA TruncateKeeps ==
  ASSUME CacheInv, ~MayOrphan, NEW r \in Runs, Truncate(r)
  PROVE  CacheInv'
<1> USE StepTable, ContentCut DEF CacheInv, Truncate, Goto, PollReturns, Parses, TypeOK, convVars, fileVars,
        scriptVars
<1>1. TypeOK'
  BY DEF Live, Handled, ConverterKnows, Made, ModelFollows, Applies
<1>2. OneRun' /\ ConverterContained'
  BY DEF OneRun, Ended, ConverterContained, Live, Handled
<1>3. ChecksumFollows'
  BY DEF ChecksumFollows, Handled, OneRun, Ended, CacheIsSound
<1>4. CacheIsSound' /\ PublishedIsPatched'
  BY DEF ChecksumFollows, Handled, CacheIsSound, PublishedIsPatched, Usable, ModelFollows,
         ConverterContained, Live, Made
<1>5. ConverterKnows'
  BY DEF ConverterKnows, OneRun, Ended, ConverterContained, Live, Made
<1>6. ModelFollows'
  BY DEF ModelFollows, OneRun, Ended, ConverterContained, ConverterKnows, Live, Made,
         Usable, Applies
<1>7. QED  BY <1>1, <1>2, <1>3, <1>4, <1>5, <1>6

LEMMA WriteKeeps ==
  ASSUME CacheInv, ~MayOrphan, NEW r \in Runs, Write(r)
  PROVE  CacheInv'
<1> USE StepTable DEF CacheInv, Write, Goto, PollReturns, Parses, TypeOK, convVars, fileVars,
        scriptVars
<1>1. TypeOK'
  BY DEF Live, Handled, ConverterKnows, Made, ModelFollows, Applies
<1>2. OneRun' /\ ConverterContained'
  BY DEF OneRun, Ended, ConverterContained, Live, Handled
<1>3. ChecksumFollows'
  BY DEF ChecksumFollows, Handled, OneRun, Ended, CacheIsSound
<1>4. CacheIsSound' /\ PublishedIsPatched'
  BY DEF ChecksumFollows, Handled, CacheIsSound, PublishedIsPatched, Usable, ModelFollows,
         ConverterContained, Live, Made
<1>5. ConverterKnows'
  BY DEF ConverterKnows, OneRun, Ended, ConverterContained, Live, Made
<1>6. ModelFollows'
  BY DEF ModelFollows, OneRun, Ended, ConverterContained, ConverterKnows, Live, Made,
         Usable, Applies
<1>7. QED  BY <1>1, <1>2, <1>3, <1>4, <1>5, <1>6

(* The converter reads the URDF of its own run, and writes its model. *)
LEMMA ConvReadKeeps ==
  ASSUME CacheInv, ~MayOrphan, NEW r \in Runs, ConvRead(r)
  PROVE  CacheInv'
<1> USE StepTable DEF CacheInv, ConvRead, Goto, PollReturns, Parses, TypeOK, convVars, fileVars,
        scriptVars
<1>1. TypeOK'
  <2>1. PICK f \in Outputs :
          convOut' = [convOut EXCEPT ![r] = [key |-> urdf, whole |-> TRUE,
                                             fits |-> f, done |-> <<>>]]
    OBVIOUS
  <2>2. [key |-> urdf, whole |-> TRUE, fits |-> f, done |-> <<>>] \in Content
    BY DEF Content
  <2>3. convOut' \in [Runs -> Content \cup {NoFile}]
    BY <2>1, <2>2
  <2>4. QED  BY <2>3 DEF Live
<1>2. OneRun' /\ ConverterContained'
  BY DEF OneRun, Ended, ConverterContained, Live, Handled
<1>3. ChecksumFollows'
  BY DEF ChecksumFollows, Handled, OneRun, Ended, CacheIsSound
<1>4. CacheIsSound' /\ PublishedIsPatched'
  BY DEF ChecksumFollows, Handled, CacheIsSound, PublishedIsPatched, Usable, ModelFollows,
         ConverterContained, Live, Made
<1>5. ConverterKnows'
  <2>1. PICK f \in Outputs :
          convOut' = [convOut EXCEPT ![r] = [key |-> urdf, whole |-> TRUE,
                                             fits |-> f, done |-> <<>>]]
    OBVIOUS
  <2>2. pc[r] \in {"install", "poll", "stop"} /\ urdf = Key[r]
    BY DEF ConverterContained, ConverterKnows, Live
  <2>3. convOut'[r] = [key |-> Key[r], whole |-> TRUE, fits |-> f, done |-> <<>>]
    BY <2>1, <2>2
  <2>4. convOut'[r] \in Content
    BY <2>3 DEF Content
  <2>5. Made(convOut'[r], Key[r], <<>>) /\ convOut'[r].whole
    <3>1. /\ convOut'[r].key = Key[r] /\ convOut'[r].done = <<>>
          /\ convOut'[r].whole = TRUE
      BY <2>3
    <3>2. convOut'[r] # NoFile
      BY <2>4
    <3>3. QED  BY <3>1, <3>2 DEF Made
  <2>6. \A s \in Runs \ {r} : convOut'[s] = convOut[s] /\ conv'[s] = conv[s]
    BY <2>1
  <2>7. QED  BY <2>5, <2>6 DEF ConverterKnows
<1>6. ModelFollows'
  BY DEF ModelFollows, OneRun, Ended, ConverterContained, ConverterKnows, Live, Made,
         Usable, Applies
<1>7. QED  BY <1>1, <1>2, <1>3, <1>4, <1>5, <1>6

LEMMA ConvOpenKeeps ==
  ASSUME CacheInv, ~MayOrphan, NEW r \in Runs, ConvOpen(r)
  PROVE  CacheInv'
<1> USE StepTable DEF CacheInv, ConvOpen, Goto, PollReturns, Parses, TypeOK, convVars, fileVars,
        scriptVars
<1>1. TypeOK'
  <2>1. convOut[r] \in Content
    BY DEF ConverterKnows, Made
  <2>2. mjcf' \in Content
    BY <2>1, ContentCut
  <2>3. QED  BY <2>2 DEF Live
<1>2. OneRun' /\ ConverterContained'
  BY DEF OneRun, Ended, ConverterContained, Live, Handled
<1>3. ChecksumFollows'
  BY DEF ChecksumFollows, Handled, OneRun, Ended, CacheIsSound
<1>4. CacheIsSound' /\ PublishedIsPatched'
  BY DEF ChecksumFollows, Handled, CacheIsSound, PublishedIsPatched, Usable, ModelFollows,
         ConverterContained, Live, Made
<1>5. ConverterKnows'
  BY DEF ConverterKnows, OneRun, Ended, ConverterContained, Live, Made
<1>6. ModelFollows'
  <2>1. convOut[r] \in Content
    BY DEF ConverterKnows, Made
  <2>2. mjcf' \in Content
    BY <2>1, ContentCut
  <2>3. Made(mjcf', Key[r], <<>>)
    BY <2>1, <2>2 DEF ConverterKnows, Made, Content
  <2>4. pc[r] \in {"install", "poll", "stop"}
    BY DEF ConverterContained, Live
  <2>5. QED  BY <2>3, <2>4 DEF ModelFollows, OneRun, Ended, Made, Usable
<1>7. QED  BY <1>1, <1>2, <1>3, <1>4, <1>5, <1>6

(* Every other step of a run, its converter or a signal: one leaf each. *)
LEMMA RunKeeps ==
  ASSUME CacheInv, ~MayOrphan, NEW r \in Runs, RunStep(r) \/ Signal(r)
  PROVE  CacheInv'
<1> USE StepTable
<1> USE DEF CacheInv, TypeOK, OneRun, ConverterContained, ChecksumFollows, ConverterKnows,
        ModelFollows, CacheIsSound, PublishedIsPatched, Made, Usable, Ended, Live, Handled,
        Goto, convVars, fileVars, scriptVars
<1>1. CASE Check(r)  BY <1>1 DEF Check, CacheValid
<1>2. CASE UnlinkSum(r)  BY <1>2 DEF UnlinkSum
<1>3. CASE WriteUrdf(r)  BY <1>3 DEF WriteUrdf
<1>4. CASE UnlinkMjcf(r)  BY <1>4, SMTT(60) DEF UnlinkMjcf
<1>5. CASE Spawn(r)  BY <1>5 DEF Spawn
<1>6. CASE Install(r)  BY <1>6 DEF Install
<1>7. CASE PollStable(r)  BY <1>7 DEF PollStable, PollReturns
<1>8. CASE PollExited(r)  BY <1>8 DEF PollExited, PollReturns, Parses
<1>9. CASE Stop(r)  BY <1>9 DEF Stop, KillConverter
<1>10. CASE CheckAbort(r)  BY <1>10 DEF CheckAbort
<1>11. CASE OpenSum(r)  BY <1>11 DEF OpenSum
<1>12. CASE WriteSum(r)  BY <1>12 DEF WriteSum
<1>13. CASE Restore(r)  BY <1>13 DEF Restore
<1>14. CASE Publish(r)  BY <1>14 DEF Publish
<1>15. CASE ConvClose(r)  BY <1>15 DEF ConvClose
<1>16. CASE ConvExit(r)  BY <1>16 DEF ConvExit
<1>17. CASE ForwardSignal(r)  BY <1>17 DEF ForwardSignal, KillConverter
<1>18. CASE DefaultSignal(r)  BY <1>18 DEF DefaultSignal
<1>19. CASE Kill(r)  BY <1>19 DEF Kill
<1>20. CASE \/ PollGivesUp(r) \/ Parse(r) \/ ReadPatch(r) \/ PatchMismatch(r)
            \/ Truncate(r) \/ Write(r) \/ ConvRead(r) \/ ConvOpen(r)
  BY <1>20, PollGivesUpKeeps, ParseKeeps, ReadPatchKeeps, PatchMismatchKeeps, TruncateKeeps,
     WriteKeeps, ConvReadKeeps, ConvOpenKeeps
<1>21. QED
  BY <1>1, <1>2, <1>3, <1>4, <1>5, <1>6, <1>7, <1>8, <1>9, <1>10, <1>11, <1>12, <1>13, <1>14, <1>15, <1>16, <1>17, <1>18, <1>19, <1>20
  DEF RunStep, ScriptStep, ConvStep, Signal

LEMMA CacheInvNext == ASSUME ~MayOrphan PROVE CacheInv /\ [Next]_vars => CacheInv'
<1> SUFFICES ASSUME CacheInv, [Next]_vars PROVE CacheInv'
  OBVIOUS
<1>1. ASSUME NEW r \in Runs, Start(r) PROVE CacheInv'
  BY <1>1, StartKeeps
<1>2. ASSUME NEW r \in Runs, RunStep(r) \/ Signal(r) PROVE CacheInv'
  BY <1>2, RunKeeps
<1> USE StepTable
<1> USE DEF CacheInv, TypeOK, OneRun, ConverterContained, ChecksumFollows, ConverterKnows,
        ModelFollows, CacheIsSound, PublishedIsPatched, Made, Usable, Ended, Live, Handled,
        convVars, fileVars, scriptVars
<1>3. CASE Reboot
  BY <1>3 DEF Reboot
<1>4. CASE UNCHANGED vars
  BY <1>4 DEF vars
<1>5. QED  BY <1>1, <1>2, <1>3, <1>4 DEF Next

(* At every line, signal, kill and reboot the files are as CacheInv says.    *)
THEOREM CacheInvariant == ASSUME ~MayOrphan PROVE Spec => []CacheInv
  BY CacheInvInit, CacheInvNext, PTL DEF Spec

(* A checksum that the next launch accepts vouches for a model that is       *)
(* complete and fully patched, whatever was interrupted before.              *)
THEOREM CacheSound == ASSUME ~MayOrphan PROVE Spec => []CacheIsSound
<1>1. CacheInv => CacheIsSound  BY DEF CacheInv
<1>2. QED  BY <1>1, CacheInvariant, PTL

(* What is latched on the topic is the patched model of the run's own        *)
(* description, after a conversion and after a cache hit alike.              *)
THEOREM PublishedPatched == ASSUME ~MayOrphan PROVE Spec => []PublishedIsPatched
<1>1. CacheInv => PublishedIsPatched  BY DEF CacheInv
<1>2. QED  BY <1>1, CacheInvariant, PTL

(* The converter never outlives the part of main that watches it.            *)
THEOREM ConverterIsContained == ASSUME ~MayOrphan PROVE Spec => []ConverterContained
<1>1. CacheInv => ConverterContained  BY DEF CacheInv
<1>2. QED  BY <1>1, CacheInvariant, PTL

-----------------------------------------------------------------------------
(* The pre-warm driver over the cache. *)

LEMMA PrewarmInvInit == PrewarmInit => PrewarmInv
<1> SUFFICES ASSUME PrewarmInit PROVE PrewarmInv
  OBVIOUS
<1>1. CacheInv
  BY CacheInvInit DEF PrewarmInit
<1>2. DriverAlone /\ PrewarmOkMeansHit
  BY DEF PrewarmInit, DriverAlone, PrewarmOkMeansHit
<1>3. QED  BY <1>1, <1>2 DEF PrewarmInv

-----------------------------------------------------------------------------
(* The cache stays sound under the driver. *)

\* The old checksum is removed while no run is alive.
LEMMA DiscardKeeps ==
  ASSUME CacheInv, Discard
  PROVE  CacheInv'
<1>1. \A r \in Runs : pc[r] \in {"none", "ended"}
  BY DEF Discard, Ended
<1>2. /\ UNCHANGED <<mjcf, urdf, scriptVars, convVars>>
      /\ checksum' = checksum \/ checksum' = NoFile
  BY DEF Discard
<1>3. TypeOK' /\ CacheIsSound'
  <2>1. (abort \in [Runs -> BOOLEAN] /\ converted \in BOOLEAN)'
    BY <1>2, Zenon DEF CacheInv, TypeOK, scriptVars
  <2>2. QED
    BY <1>2, <2>1, EnsureMjcfAssumption
    DEF EnsureMjcfAssumption, CacheInv, TypeOK, CacheIsSound, scriptVars, convVars
<1>4. ChecksumFollows'
  BY <1>1, <1>2 DEF ChecksumFollows, Handled, scriptVars
<1>5. /\ OneRun' /\ ConverterContained' /\ ConverterKnows' /\ ModelFollows'
      /\ PublishedIsPatched'
  BY <1>2
  DEF CacheInv, OneRun, Ended, ConverterContained, ConverterKnows, ModelFollows,
      PublishedIsPatched, scriptVars, convVars
<1>6. QED  BY <1>3, <1>4, <1>5 DEF CacheInv

\* Every other step is one of Next, or none, on the cache.
LEMMA CacheStep ==
  ASSUME [PrewarmNext]_driverVars, ~Discard
  PROVE  [Next]_vars
<1>1. Child \in Runs
  BY PrewarmAssumption
<1>2. ASSUME DriverStep PROVE [Next]_vars
  BY <1>1, <1>2
  DEF DriverStep, DriverSpawn, PollFiles, PollChildEnded, PollTimeout, Terminate,
      WaitReturns, WaitTimeout, Verify, Next, Signal
<1>3. ASSUME NEW r \in Runs, Start(r) \/ RunStep(r) \/ Signal(r) PROVE Next
  BY <1>3 DEF Next
<1>4. CASE Reboot \/ UNCHANGED driverVars
  BY <1>4 DEF Next, driverVars
<1>5. QED  BY <1>2, <1>3, <1>4 DEF PrewarmNext, Others

LEMMA CacheKept ==
  ASSUME ~MayOrphan, CacheInv, [PrewarmNext]_driverVars
  PROVE  CacheInv'
<1>1. CASE Discard
  BY <1>1, DiscardKeeps
<1>2. CASE ~Discard
  BY <1>2, CacheStep, CacheInvNext
<1>3. QED  BY <1>1, <1>2

-----------------------------------------------------------------------------
(* The driver works alone with its child. *)

\* A run that has ended, or has not begun, does nothing, nor has it a
\* converter that could, nor is there anybody left to signal.
LEMMA EndedIsStill ==
  ASSUME CacheInv, NEW r \in Runs, Ended(r)
  PROVE  ~RunStep(r) /\ ~Signal(r)
<1>1. conv[r] \notin Live
  BY DEF CacheInv, ConverterContained, Ended
<1>2. ~ConvStep(r)
  BY <1>1 DEF ConvStep, ConvRead, ConvOpen, ConvClose, ConvExit, Live
<1>3. ~Signal(r)
  BY DEF Signal, ForwardSignal, DefaultSignal, Kill, Ended, Handled
<1>4. ~ScriptStep(r)
  BY DEF ScriptStep, Check, UnlinkSum, WriteUrdf, UnlinkMjcf, Spawn, Install, PollStable,
         PollExited, PollGivesUp, PollReturns, Stop, CheckAbort, Parse, ReadPatch,
         PatchMismatch, Truncate, Write, OpenSum, WriteSum, Restore, Publish, Goto, Ended
<1>5. QED  BY <1>2, <1>3, <1>4 DEF RunStep

\* A step of one run leaves the others where they are.
LEMMA OthersStay ==
  ASSUME CacheInv, NEW r \in Runs, RunStep(r) \/ Signal(r)
  PROVE  \A s \in Runs \ {r} : pc'[s] = pc[s]
<1>1. pc \in [Runs -> Handled \cup {"none", "check", "unlinkSum", "writeUrdf", "unlinkMjcf",
                                   "spawn", "install", "publish", "spin", "ended"}]
  BY DEF CacheInv, TypeOK
<1>2. CASE ScriptStep(r)
  <2>1. \E there : pc' = [pc EXCEPT ![r] = there]
    BY <1>2 DEF ScriptStep, Check, UnlinkSum, WriteUrdf, UnlinkMjcf, Spawn, Install,
           PollStable, PollExited, PollGivesUp, PollReturns, Stop, CheckAbort, Parse,
           ReadPatch, PatchMismatch, Truncate, Write, OpenSum, WriteSum, Restore, Publish, Goto
  <2>2. QED  BY <1>1, <2>1
<1>3. CASE ConvStep(r) \/ ForwardSignal(r)
  BY <1>3 DEF ConvStep, ConvRead, ConvOpen, ConvClose, ConvExit, ForwardSignal, scriptVars
<1>4. CASE DefaultSignal(r) \/ Kill(r)
  BY <1>1, <1>4 DEF DefaultSignal, Kill
<1>5. QED  BY <1>2, <1>3, <1>4 DEF RunStep, Signal

LEMMA DriverAloneNext ==
  ASSUME ~MayOrphan, PrewarmInv, [PrewarmNext]_driverVars
  PROVE  DriverAlone'
<1> USE PrewarmAssumption DEF Others
<1> DEFINE Through == {"spawn", "verify", "ok", "failed"}
<1>1. CacheInv /\ DriverAlone
  BY DEF PrewarmInv
<1>2. pc \in [Runs -> Handled \cup {"none", "check", "unlinkSum", "writeUrdf", "unlinkMjcf",
                                   "spawn", "install", "publish", "spin", "ended"}]
  BY <1>1 DEF CacheInv, TypeOK
<1>3. CASE Discard
  BY <1>3 DEF Discard, DriverAlone, DriverGoto, Ended, scriptVars
<1>4. CASE DriverSpawn
  BY <1>1, <1>2, <1>4 DEF DriverSpawn, DriverAlone, DriverGoto, Start, Goto, Ended
<1>5. CASE PollFiles \/ PollChildEnded \/ PollTimeout \/ WaitReturns \/ Verify
  <2>1. UNCHANGED pc /\ driver # "idle"
    BY <1>5 DEF PollFiles, PollChildEnded, PollTimeout, WaitReturns, Verify, DriverGoto, vars,
                scriptVars
  <2>2. driver' \in Through => Ended(Child)
    BY <1>1, <1>5 DEF PollFiles, PollChildEnded, PollTimeout, WaitReturns, Verify, DriverGoto,
                      DriverAlone
  <2>3. QED  BY <1>1, <2>1, <2>2 DEF DriverAlone, Ended
<1>6. CASE Terminate
  <2>1. /\ driver # "idle" /\ driver' = "wait"
        /\ UNCHANGED vars \/ Signal(Child)
    BY <1>6 DEF Terminate, Signal
  <2>2. \A s \in Others : pc'[s] = pc[s]
    BY <1>1, <2>1, OthersStay DEF vars, scriptVars
  <2>3. QED  BY <1>1, <2>1, <2>2 DEF DriverAlone, Ended
<1>7. CASE WaitTimeout
  BY <1>1, <1>2, <1>7 DEF WaitTimeout, DriverGoto, Kill, DriverAlone, Ended
<1>8. ASSUME driver = "idle", driver' = driver PROVE DriverAlone'
  BY <1>8 DEF DriverAlone
<1>9. ASSUME driver # "idle", driver' = driver, NEW r \in Runs, RunStep(r) \/ Signal(r)
      PROVE  DriverAlone'
  <2>1. ~Ended(r)
    BY <1>1, <1>9, EndedIsStill
  <2>2. r = Child /\ driver \notin Through
    BY <1>1, <1>9, <2>1 DEF DriverAlone
  <2>3. \A s \in Others : pc'[s] = pc[s]
    BY <1>1, <1>9, <2>2, OthersStay
  <2>4. QED  BY <1>1, <1>9, <2>2, <2>3 DEF DriverAlone, Ended
<1>10. CASE Reboot /\ driver' = IF driver = "idle" THEN "idle" ELSE "failed"
  BY <1>10 DEF Reboot, DriverAlone, Ended
<1>11. CASE UNCHANGED driverVars
  BY <1>1, <1>11 DEF driverVars, vars, scriptVars, DriverAlone, Ended
<1>12. QED
  BY <1>3, <1>4, <1>5, <1>6, <1>7, <1>8, <1>9, <1>10, <1>11 DEF PrewarmNext, DriverStep

-----------------------------------------------------------------------------
(* The verdict. *)

\* Once the driver is through nobody is left to touch the files.
LEMMA VerdictStays ==
  ASSUME PrewarmInv, PrewarmNext, driver = "ok", driver' = "ok"
  PROVE  mjcf' = mjcf
<1> USE PrewarmAssumption DEF Others
<1>1. CacheInv /\ \A r \in Runs : Ended(r)
  BY DEF PrewarmInv, DriverAlone
<1>2. \A r \in Runs : ~RunStep(r) /\ ~Signal(r)
  BY <1>1, EndedIsStill
<1>3. ~DriverStep
  BY DEF DriverStep, Discard, DriverSpawn, PollFiles, PollChildEnded, PollTimeout, Terminate,
         WaitReturns, WaitTimeout, Verify, DriverGoto
<1>4. QED  BY <1>2, <1>3 DEF PrewarmNext

LEMMA PrewarmInvNext ==
  ASSUME ~MayOrphan, PrewarmInv, [PrewarmNext]_driverVars
  PROVE  PrewarmInv'
<1>1. CacheInv' /\ DriverAlone'
  BY CacheKept, DriverAloneNext DEF PrewarmInv
<1>2. PrewarmOkMeansHit'
  <2> SUFFICES ASSUME driver' = "ok" PROVE Usable(mjcf, expected)'
    BY DEF PrewarmOkMeansHit
  <2>1. CASE driver = "ok"
    <3>1. mjcf' = mjcf
      BY <2>1, VerdictStays DEF driverVars, vars, fileVars
    <3>2. QED  BY <2>1, <3>1 DEF PrewarmInv, PrewarmOkMeansHit, Usable, expected
  <2>2. CASE driver # "ok"
    <3>1. CacheValid(expected) /\ UNCHANGED vars
      BY <2>2 DEF PrewarmNext, DriverStep, Discard, DriverSpawn, PollFiles, PollChildEnded,
         PollTimeout, Terminate, WaitReturns, WaitTimeout, Verify, DriverGoto, driverVars
    <3>2. expected \in Keys
      BY EnsureMjcfAssumption, PrewarmAssumption DEF EnsureMjcfAssumption, expected
    <3>3. Usable(mjcf, expected)
      BY <3>1, <3>2 DEF PrewarmInv, CacheInv, CacheIsSound, CacheValid
    <3>4. QED  BY <3>1, <3>3 DEF Usable, expected, vars, fileVars
  <2>3. QED  BY <2>1, <2>2
<1>3. QED  BY <1>1, <1>2 DEF PrewarmInv

\* The driver leaves the cache as sound as it has found it, and works alone.
THEOREM PrewarmInvariant == ASSUME ~MayOrphan PROVE PrewarmSpec => []PrewarmInv
  BY PrewarmInvInit, PrewarmInvNext, PTL DEF PrewarmSpec

(* A driver that says the cache is warm leaves a cache that the launch hits  *)
(* and that holds the whole patched model of the description it asked for.   *)
THEOREM PrewarmOk == ASSUME ~MayOrphan PROVE PrewarmSpec => []PrewarmOkMeansHit
<1>1. PrewarmInv => PrewarmOkMeansHit  BY DEF PrewarmInv
<1>2. QED  BY <1>1, PrewarmInvariant, PTL

(* The cache stays sound, with the driver taking part and after it.          *)
THEOREM PrewarmCacheSound ==
  ASSUME ~MayOrphan PROVE PrewarmSpec => [](CacheIsSound /\ PublishedIsPatched)
<1>1. PrewarmInv => CacheIsSound /\ PublishedIsPatched  BY DEF PrewarmInv, CacheInv
<1>2. QED  BY <1>1, PrewarmInvariant, PTL
=============================================================================
