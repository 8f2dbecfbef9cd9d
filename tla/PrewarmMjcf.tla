----------------------------- MODULE PrewarmMjcf -----------------------------
(***************************************************************************)
(* container/prewarm-mjcf.py: the driver that fills the cache of           *)
(* EnsureMjcf while an image is built, or by hand over a cache in use.  It *)
(* starts one run of the script, watches the cache directory from outside, *)
(* stops the run and decides from the files whether the cache is warm.     *)
(***************************************************************************)
EXTENDS EnsureMjcf

CONSTANT Child   \* the run the driver starts

ASSUME PrewarmAssumption == Child \in Runs /\ Child \notin Forced

VARIABLE driver  \* where the driver is

driverVars == <<vars, driver>>

expected == Key[Child]

DriverGoto(here, there) ==
  /\ driver = here
  /\ driver' = there

PrewarmInit == Init /\ driver = "idle"

\* main removes the checksum of another key before the child starts.
Discard ==
  /\ DriverGoto("idle", "spawn")
  /\ \A r \in Runs : Ended(r)
  /\ checksum' = IF checksum = expected THEN checksum ELSE NoFile
  /\ UNCHANGED <<mjcf, urdf, scriptVars, convVars>>

DriverSpawn == DriverGoto("spawn", "poll") /\ Start(Child)

\* Both files are there, whatever is in them.
PollFiles ==
  /\ DriverGoto("poll", "terminate")
  /\ checksum # NoFile /\ mjcf # NoFile
  /\ UNCHANGED vars

PollChildEnded ==
  /\ DriverGoto("poll", "verify")
  /\ Ended(Child)
  /\ UNCHANGED vars

PollTimeout ==
  /\ DriverGoto("poll", "giveUp")
  /\ UNCHANGED vars

\* child.terminate(), unless the child has ended.
Terminate ==
  /\ driver \in {"terminate", "giveUp"}
  /\ driver' = "wait"
  /\ IF Ended(Child) THEN UNCHANGED vars
                     ELSE ForwardSignal(Child) \/ DefaultSignal(Child)

WaitReturns ==
  /\ DriverGoto("wait", "verify")
  /\ Ended(Child)
  /\ UNCHANGED vars

\* 30 s are enough for every step of the child but the spin it may be in.
WaitTimeout ==
  /\ DriverGoto("wait", "verify")
  /\ pc[Child] = "spin"
  /\ Kill(Child)

\* The checksum must be there and the expected one, and the file must be; a
\* missing interpreter of the converter is a failure too.
Verify ==
  /\ driver = "verify"
  /\ \/ driver' = IF CacheValid(expected) THEN "ok" ELSE "failed"
     \/ driver' = "failed"
  /\ UNCHANGED vars

DriverStep == \/ Discard \/ DriverSpawn \/ PollFiles \/ PollChildEnded \/ PollTimeout
              \/ Terminate \/ WaitReturns \/ WaitTimeout \/ Verify

\* Until the driver starts, and once it is through, others use the cache.
Others == Runs \ {Child}

PrewarmNext ==
  \/ DriverStep
  \/ /\ driver = "idle"
     /\ \E r \in Others : Start(r)
     /\ UNCHANGED driver
  \/ (\E r \in Runs : RunStep(r)) /\ UNCHANGED driver
  \/ (\E r \in Others : Signal(r)) /\ UNCHANGED driver
  \/ Reboot /\ driver' = IF driver = "idle" THEN "idle" ELSE "failed"

PrewarmSpec == PrewarmInit /\ [][PrewarmNext]_driverVars

\* The driver goes on once it has started; so does a run of the script.
PrewarmFairSpec ==
  /\ PrewarmSpec
  /\ WF_driverVars(DriverStep /\ driver # "idle")
  /\ \A r \in Runs : WF_driverVars(ScriptStep(r) /\ UNCHANGED driver)

-----------------------------------------------------------------------------
(* Properties.                                                             *)

(* An image is built only over a cache the launch will hit, with the whole *)
(* patched model in it, although the driver stops the child by a poll of   *)
(* files it does not read.                                                 *)
PrewarmOkMeansHit == driver = "ok" => Usable(mjcf, expected)

\* While the driver is at work its child is the only run there may be, and it
\* has ended where the driver reads the files.
DriverAlone ==
  /\ driver # "idle" => \A r \in Others : Ended(r)
  /\ driver \in {"spawn", "verify", "ok", "failed"} => Ended(Child)

PrewarmInv == CacheInv /\ DriverAlone /\ PrewarmOkMeansHit

(* Every run of the script settles, and the driver comes to a verdict even  *)
(* where its child has swallowed the SIGTERM and spins for ever.           *)
EverythingSettles ==
  EveryRunSettles /\ (driver = "spawn" ~> driver \in {"ok", "failed"})
=============================================================================
