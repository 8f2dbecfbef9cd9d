------------------------------ MODULE EnsureMjcf ------------------------------
(***************************************************************************)
(* The cached URDF -> MJCF conversion of                                   *)
(* r2d3_mujoco/scripts/ensure_mjcf.py: launches of the script, one after   *)
(* the other, that share a cache directory, with the converter each of     *)
(* them starts and the signals each of them may receive.                   *)
(*                                                                         *)
(* The file system is what lasts from one run to the next, so every change *)
(* of it is a step of its own, and a write_text is two: the file is        *)
(* truncated, then written.  A robot description and a world are           *)
(* abstracted to the checksum they have.                                   *)
(***************************************************************************)
EXTENDS Integers, Sequences, FiniteSets

CONSTANTS
  Runs,        \* launches of the script
  Keys,        \* the checksums compute_checksum may return
  Key,         \* the checksum of each run
  Forced,      \* runs with --force
  Outputs,     \* what the converter may write, as the patches that match it
  MayOrphan,   \* TRUE: a run may die and leave its converter behind
  NoFile,      \* no such file
  Empty        \* a file without content

Patches == {"lidar", "wheels", "inertial"}

\* What mujoco_description_formatted.xml may hold: the checksum of the
\* description it was made from, whether it is complete, the patches that
\* match it and those that were applied.
Content == [key : Keys \cup {NoFile}, whole : BOOLEAN, fits : SUBSET Patches,
            done : Seq(Patches \cup {"partly"})]

ASSUME EnsureMjcfAssumption ==
  /\ Key \in [Runs -> Keys]
  /\ Forced \subseteq Runs
  /\ Outputs \subseteq SUBSET Patches
  /\ MayOrphan \in BOOLEAN
  /\ NoFile \notin Keys \cup Content /\ Empty \notin Keys /\ NoFile # Empty

\* What finalize_conversion does in turn.
FinalSteps == <<"parse", "lidar", "wheels", "parse", "inertial", "parse">>

AllPatches == <<"lidar", "wheels", "inertial">>

VARIABLES
  mjcf,       \* mujoco_description_formatted.xml
  checksum,   \* the checksum file
  urdf,       \* robot_input.urdf
  pc,         \* where each run is in main
  abort,      \* abort.is_set() in each run
  converted,  \* converted, of the run that is alive
  at,         \* its place in FinalSteps
  text,       \* text, the model it is patching
  published,  \* what each run has latched on the topic
  conv,       \* state of the converter process of each run
  convOut,    \* what that converter is going to write
  holders     \* converters that hold the present mjcf file open

fileVars   == <<mjcf, checksum, urdf>>
scriptVars == <<pc, abort, converted, at, text, published>>
convVars   == <<conv, convOut, holders>>

vars == <<fileVars, scriptVars, convVars>>

\* Converter processes that have not ended.
Live == {"starting", "working", "writing", "done"}

\* The part of main in which _forward_signal is installed.
Handled == {"poll", "stop", "checkAbort", "step", "truncate", "write",
            "sumOpen", "sumWrite", "restore"}

Ended(r) == pc[r] \in {"none", "ended"}

Goto(r, here, there) ==
  /\ pc[r] = here
  /\ pc' = [pc EXCEPT ![r] = there]

Init ==
  /\ mjcf = NoFile /\ checksum = NoFile /\ urdf = NoFile
  /\ pc = [r \in Runs |-> "none"]
  /\ abort = [r \in Runs |-> FALSE]
  /\ converted = FALSE
  /\ at = 1
  /\ text = NoFile
  /\ published = [r \in Runs |-> NoFile]
  /\ conv = [r \in Runs |-> "none"]
  /\ convOut = [r \in Runs |-> NoFile]
  /\ holders = {}

\* mjcf_parses_as_xml
Parses == mjcf # NoFile /\ mjcf.whole

\* cache_valid
CacheValid(k) == mjcf # NoFile /\ checksum = k

-----------------------------------------------------------------------------
(* main, up to the converter's start.                                      *)

\* A run starts when the one before has ended.
Start(r) ==
  /\ \A s \in Runs : Ended(s)
  /\ Goto(r, "none", "check")
  /\ converted' = FALSE /\ at' = 1 /\ text' = NoFile
  /\ UNCHANGED <<fileVars, abort, published, convVars>>

Check(r) ==
  /\ Goto(r, "check", IF r \notin Forced /\ CacheValid(Key[r]) THEN "publish"
                                                               ELSE "unlinkSum")
  /\ UNCHANGED <<fileVars, abort, converted, at, text, published, convVars>>

\* Mutant: the old checksum stays while the model is replaced.
UnlinkSumKept(r) ==
  /\ Goto(r, "unlinkSum", "writeUrdf")
  /\ UNCHANGED <<fileVars, abort, converted, at, text, published, convVars>>

UnlinkSum(r) ==
  /\ Goto(r, "unlinkSum", "writeUrdf")
  /\ checksum' = NoFile
  /\ UNCHANGED <<mjcf, urdf, abort, converted, at, text, published, convVars>>

WriteUrdf(r) ==
  /\ Goto(r, "writeUrdf", "unlinkMjcf")
  /\ urdf' = Key[r]
  /\ UNCHANGED <<mjcf, checksum, abort, converted, at, text, published, convVars>>

\* Mutant: the model of an earlier run is left where it is.
UnlinkMjcfKept(r) ==
  /\ Goto(r, "unlinkMjcf", "spawn")
  /\ UNCHANGED <<fileVars, abort, converted, at, text, published, convVars>>

\* Whoever still has the file open goes on writing to a file without a name.
UnlinkMjcf(r) ==
  /\ Goto(r, "unlinkMjcf", "spawn")
  /\ mjcf' = NoFile
  /\ holders' = {}
  /\ UNCHANGED <<checksum, urdf, abort, converted, at, text, published, conv, convOut>>

Spawn(r) ==
  /\ Goto(r, "spawn", "install")
  /\ conv' = [conv EXCEPT ![r] = "starting"]
  /\ UNCHANGED <<fileVars, abort, converted, at, text, published, convOut, holders>>

Install(r) ==
  /\ Goto(r, "install", "poll")
  /\ UNCHANGED <<fileVars, abort, converted, at, text, published, convVars>>

-----------------------------------------------------------------------------
(* _wait_for_stable_output and the end of the converter.                   *)

PollReturns(r, result) ==
  /\ Goto(r, "poll", "stop")
  /\ converted' = result
  /\ UNCHANGED <<fileVars, abort, at, text, published, convVars>>

\* The size has not changed for two seconds, which a converter that pauses in
\* the middle of the file cannot be told from.
PollStable(r) == mjcf # NoFile /\ PollReturns(r, TRUE)

\* converter_exit_acceptable
PollExited(r) ==
  /\ conv[r] \in {"exited", "failed"}
  /\ PollReturns(r, conv[r] = "exited" /\ Parses)

\* Mutant: there is no deadline.
PollNoDeadline(r) == abort[r] /\ PollReturns(r, FALSE)

\* abort is set, or the deadline is over, which may be at any time here.
PollGivesUp(r) == PollReturns(r, FALSE)

\* SIGTERM, later SIGKILL, to the process group of the converter of r.
KillConverter(r) ==
  /\ conv' = [conv EXCEPT ![r] = IF @ \in Live THEN "failed" ELSE @]
  /\ convOut' = [convOut EXCEPT ![r] = NoFile]
  /\ holders' = holders \ {r}

Stop(r) ==
  /\ Goto(r, "stop", "checkAbort")
  /\ KillConverter(r)
  /\ UNCHANGED <<fileVars, abort, converted, at, text, published>>

CheckAbort(r) ==
  /\ Goto(r, "checkAbort", IF ~abort[r] /\ converted THEN "step" ELSE "ended")
  /\ at' = 1
  /\ UNCHANGED <<fileVars, abort, converted, text, published, convVars>>

-----------------------------------------------------------------------------
(* finalize_conversion.                                                    *)

\* Mutant: well-formedness is not checked.
ParseSkipped(r) ==
  /\ FinalSteps[at] = "parse"
  /\ Goto(r, "step", IF mjcf = NoFile THEN "ended"
                     ELSE IF at < Len(FinalSteps) THEN "step" ELSE "sumOpen")
  /\ at' = IF at < Len(FinalSteps) THEN at + 1 ELSE at
  /\ UNCHANGED <<fileVars, abort, converted, text, published, convVars>>

Parse(r) ==
  /\ FinalSteps[at] = "parse"
  /\ Goto(r, "step", IF ~Parses THEN "ended"
                     ELSE IF at < Len(FinalSteps) THEN "step" ELSE "sumOpen")
  /\ at' = IF Parses /\ at < Len(FinalSteps) THEN at + 1 ELSE at
  /\ UNCHANGED <<fileVars, abort, converted, text, published, convVars>>

\* The patch finds the expected number of places.  Raising the lidar is the
\* one patch that matches its own result.
Applies(p) ==
  /\ mjcf # NoFile
  /\ p \in mjcf.fits
  /\ p # "lidar" => \A i \in DOMAIN mjcf.done : mjcf.done[i] # p

ReadPatch(r) ==
  /\ FinalSteps[at] \in Patches
  /\ Applies(FinalSteps[at])
  /\ Goto(r, "step", "truncate")
  /\ text' = [mjcf EXCEPT !.done = Append(@, FinalSteps[at])]
  /\ UNCHANGED <<fileVars, abort, converted, at, published, convVars>>

\* A file that matches in part may be rewritten before the count is refused.
PatchMismatch(r) ==
  /\ FinalSteps[at] \in Patches
  /\ ~Applies(FinalSteps[at])
  /\ Goto(r, "step", "ended")
  /\ \/ UNCHANGED mjcf
     \/ mjcf # NoFile /\ mjcf' = [mjcf EXCEPT !.done = Append(@, "partly")]
  /\ UNCHANGED <<checksum, urdf, abort, converted, at, text, published, convVars>>

Truncate(r) ==
  /\ Goto(r, "truncate", "write")
  /\ mjcf' = [text EXCEPT !.whole = FALSE]
  /\ UNCHANGED <<checksum, urdf, abort, converted, at, text, published, convVars>>

Write(r) ==
  /\ Goto(r, "write", "step")
  /\ mjcf' = text
  /\ text' = NoFile
  /\ at' = at + 1
  /\ UNCHANGED <<checksum, urdf, abort, converted, published, convVars>>

OpenSum(r) ==
  /\ Goto(r, "sumOpen", "sumWrite")
  /\ checksum' = Empty
  /\ UNCHANGED <<mjcf, urdf, abort, converted, at, text, published, convVars>>

WriteSum(r) ==
  /\ Goto(r, "sumWrite", "restore")
  /\ checksum' = Key[r]
  /\ UNCHANGED <<mjcf, urdf, abort, converted, at, text, published, convVars>>

-----------------------------------------------------------------------------
(* The rest of main, and publish_cached.                                   *)

Restore(r) ==
  /\ Goto(r, "restore", "publish")
  /\ UNCHANGED <<fileVars, abort, converted, at, text, published, convVars>>

\* The file is read again here, in both paths.
Publish(r) ==
  /\ Goto(r, "publish", IF mjcf = NoFile THEN "ended" ELSE "spin")
  /\ published' = [published EXCEPT ![r] = mjcf]
  /\ UNCHANGED <<fileVars, abort, converted, at, text, convVars>>

ScriptStep(r) ==
  \/ Check(r) \/ UnlinkSum(r) \/ WriteUrdf(r) \/ UnlinkMjcf(r) \/ Spawn(r) \/ Install(r)
  \/ PollStable(r) \/ PollExited(r) \/ PollGivesUp(r) \/ Stop(r) \/ CheckAbort(r)
  \/ Parse(r) \/ ReadPatch(r) \/ PatchMismatch(r) \/ Truncate(r) \/ Write(r)
  \/ OpenSum(r) \/ WriteSum(r) \/ Restore(r) \/ Publish(r)

-----------------------------------------------------------------------------
(* The converter, as the script sees it.                                   *)

\* It reads the URDF file, and what it makes of it some patches may not fit.
ConvRead(r) ==
  /\ conv[r] = "starting"
  /\ conv' = [conv EXCEPT ![r] = "working"]
  /\ \E f \in Outputs :
       convOut' = [convOut EXCEPT ![r] = [key |-> urdf, whole |-> TRUE,
                                          fits |-> f, done |-> <<>>]]
  /\ UNCHANGED <<fileVars, scriptVars, holders>>

ConvOpen(r) ==
  /\ conv[r] = "working"
  /\ conv' = [conv EXCEPT ![r] = "writing"]
  /\ mjcf' = [convOut[r] EXCEPT !.whole = FALSE]
  /\ holders' = holders \cup {r}
  /\ UNCHANGED <<checksum, urdf, scriptVars, convOut>>

\* Having written its output it publishes on its own topic and spins.
ConvClose(r) ==
  /\ conv[r] = "writing"
  /\ conv' = [conv EXCEPT ![r] = "done"]
  /\ mjcf' = IF r \in holders THEN convOut[r] ELSE mjcf
  /\ convOut' = [convOut EXCEPT ![r] = NoFile]
  /\ holders' = holders \ {r}
  /\ UNCHANGED <<checksum, urdf, scriptVars>>

\* It may end by itself at any time, with exit code 0 or another.
ConvExit(r) ==
  /\ conv[r] \in Live
  /\ \E end \in {"exited", "failed"} : conv' = [conv EXCEPT ![r] = end]
  /\ convOut' = [convOut EXCEPT ![r] = NoFile]
  /\ holders' = holders \ {r}
  /\ UNCHANGED <<fileVars, scriptVars>>

ConvStep(r) == ConvRead(r) \/ ConvOpen(r) \/ ConvClose(r) \/ ConvExit(r)

-----------------------------------------------------------------------------
(* Signals, kills and reboots.                                             *)

\* _forward_signal
ForwardSignal(r) ==
  /\ pc[r] \in Handled
  /\ abort' = [abort EXCEPT ![r] = TRUE]
  /\ KillConverter(r)
  /\ UNCHANGED <<fileVars, pc, converted, at, text, published>>

\* Where the handler is not installed, SIGINT and SIGTERM end the run: by
\* default, as KeyboardInterrupt, or through rclpy's own handler in spin.
\* Between Popen and the two signal() calls that leaves the converter behind.
DefaultSignal(r) ==
  /\ ~Ended(r) /\ pc[r] \notin Handled
  /\ conv[r] \in Live => MayOrphan
  /\ pc' = [pc EXCEPT ![r] = "ended"]
  /\ UNCHANGED <<fileVars, abort, converted, at, text, published, convVars>>

\* SIGKILL reaches the script and never the converter's own session.
Kill(r) ==
  /\ ~Ended(r)
  /\ conv[r] \in Live => MayOrphan
  /\ pc' = [pc EXCEPT ![r] = "ended"]
  /\ UNCHANGED <<fileVars, abort, converted, at, text, published, convVars>>

Reboot ==
  /\ \E r \in Runs : ~Ended(r)
  /\ pc' = [r \in Runs |-> IF pc[r] = "none" THEN "none" ELSE "ended"]
  /\ conv' = [r \in Runs |-> IF conv[r] \in Live THEN "failed" ELSE conv[r]]
  /\ convOut' = [r \in Runs |-> NoFile]
  /\ holders' = {}
  /\ UNCHANGED <<fileVars, abort, converted, at, text, published>>

-----------------------------------------------------------------------------

RunStep(r) == ScriptStep(r) \/ ConvStep(r)
Signal(r) == ForwardSignal(r) \/ DefaultSignal(r) \/ Kill(r)

Next == \/ \E r \in Runs : Start(r) \/ RunStep(r) \/ Signal(r)
        \/ Reboot

Spec == Init /\ [][Next]_vars

\* A script that can go on goes on; nothing is assumed of the converter.
FairSpec == Spec /\ \A r \in Runs : WF_vars(ScriptStep(r))

-----------------------------------------------------------------------------
(* Properties.                                                             *)

TypeOK ==
  /\ mjcf \in Content \cup {NoFile}
  /\ checksum \in Keys \cup {NoFile, Empty}
  /\ urdf \in Keys \cup {NoFile}
  /\ pc \in [Runs -> Handled \cup {"none", "check", "unlinkSum", "writeUrdf", "unlinkMjcf",
                                   "spawn", "install", "publish", "spin", "ended"}]
  /\ abort \in [Runs -> BOOLEAN]
  /\ converted \in BOOLEAN
  /\ at \in 1..Len(FinalSteps)
  /\ text \in Content \cup {NoFile}
  /\ published \in [Runs -> Content \cup {NoFile}]
  /\ conv \in [Runs -> Live \cup {"none", "exited", "failed"}]
  /\ convOut \in [Runs -> Content \cup {NoFile}]
  /\ holders \subseteq Runs

\* File content c is the complete, fully patched model for key k.
Usable(c, k) == c # NoFile /\ c.key = k /\ c.whole /\ c.done = AllPatches

(* Whatever was interrupted, killed or rebooted at whatever line, a cache  *)
(* that the next launch takes for valid holds the whole model of that very *)
(* description with every patch applied once: finalize_conversion writes   *)
(* the checksum last and main removes it first.                            *)
CacheIsSound == checksum \in Keys => Usable(mjcf, checksum)

(* What a run publishes, after a conversion or out of the cache, is the    *)
(* whole and fully patched model of the description this run was given.    *)
PublishedIsPatched ==
  \A r \in Runs : published[r] # NoFile => Usable(published[r], Key[r])

(* The converter never outlives the part of main that watches it, so it    *)
(* cannot write into a file that is being patched, cached or published.    *)
ConverterContained ==
  \A r \in Runs : conv[r] \in Live => pc[r] \in {"install", "poll", "stop"}

-----------------------------------------------------------------------------
(* Why the three hold while no converter is left behind: the inductive      *)
(* invariant behind them.                                                  *)

OneRun == \A r, s \in Runs : ~Ended(r) /\ ~Ended(s) => r = s

\* The checksum is away from the moment the files change until they are done.
ChecksumFollows ==
  \A r \in Runs :
    /\ pc[r] \in (Handled \ {"sumWrite", "restore"})
               \cup {"writeUrdf", "unlinkMjcf", "spawn", "install"} => checksum = NoFile
    /\ pc[r] = "sumWrite" => checksum = Empty
    /\ pc[r] \in {"restore", "publish"} => checksum = Key[r]

\* Content c comes from the converter of a run with key k, d having been applied.
Made(c, k, d) == c # NoFile /\ c.key = k /\ c.done = d

\* The converter of a run works for the key of that run.
ConverterKnows ==
  /\ holders \subseteq {r \in Runs : conv[r] = "writing"}
  /\ \A r \in Runs :
       /\ pc[r] \in {"unlinkMjcf", "spawn", "install", "poll", "stop"} => urdf = Key[r]
       /\ conv[r] \in {"working", "writing"} =>
            Made(convOut[r], Key[r], <<>>) /\ convOut[r].whole

\* Before step i of FinalSteps these patches have been applied.
DoneBefore == << <<>>, <<>>, <<"lidar">>, <<"lidar", "wheels">>, <<"lidar", "wheels">>,
                 AllPatches >>

\* What the model file is at each line.
ModelFollows ==
  \A r \in Runs :
    /\ pc[r] = "spawn" => mjcf = NoFile
    /\ pc[r] \in {"install", "poll", "stop", "checkAbort"} =>
         mjcf = NoFile \/ Made(mjcf, Key[r], <<>>)
    /\ pc[r] = "step" /\ at = 1 => mjcf = NoFile \/ Made(mjcf, Key[r], <<>>)
    /\ pc[r] = "step" /\ at > 1 => Made(mjcf, Key[r], DoneBefore[at]) /\ mjcf.whole
    /\ pc[r] \in {"truncate", "write"} =>
         /\ at \in {2, 3, 5}
         /\ Made(text, Key[r], DoneBefore[at + 1]) /\ text.whole
    /\ pc[r] \in {"sumOpen", "sumWrite"} => Usable(mjcf, Key[r])

CacheInv == /\ TypeOK /\ OneRun /\ ConverterContained
            /\ ChecksumFollows /\ ConverterKnows /\ ModelFollows
            /\ CacheIsSound /\ PublishedIsPatched

-----------------------------------------------------------------------------
(* A run never waits for ever for a converter that hangs, dies or writes   *)
(* half a file: it publishes or it ends.                                   *)
EveryRunSettles ==
  \A r \in Runs : pc[r] = "check" ~> pc[r] \in {"spin", "ended"}

(* A run that is asked to shut down ends, and does not "sit in             *)
(* rclpy.spin() ignoring the shutdown request" (ensure_mjcf.py:672-673).   *)
ShutdownHonoured == \A r \in Runs : abort[r] ~> pc[r] = "ended"
=============================================================================
