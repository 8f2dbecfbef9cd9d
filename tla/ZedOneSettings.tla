--------------------------- MODULE ZedOneSettings ---------------------------
(***************************************************************************)
(* The dynamic parameters of the ZED One node, which keeps a flag for each *)
(* parameter and one for all of them.  Its grab thread sends what is       *)
(* flagged and sets the parameters that follow from it (a range of one     *)
(* value is a manual value), through rclcpp and so through the node's own  *)
(* callback.  rclcpp, external, runs one callback at a time; between the   *)
(* callback and the rest of the grab thread there is no mutex.             *)
(* A parameter is a pair: <<"wb", "auto">>, <<"exposure", "min">>, ...;    *)
(* saturation stands for sharpness and gamma, compensation for             *)
(* antibanding.                                                            *)
(***************************************************************************)
EXTENDS Integers, Sequences, SequencesExt

CONSTANTS
  OneLaunches,     \* what is changed, whether the modes are manual, which of Ranged there are
  Lo, Hi,          \* the full range of exposure and gains: 28 .. 30000, 1000 .. 16000, 1 .. 256
  MaxOneChanges,   \* bound on the calls that change parameters
  MaxOneRefusals   \* bound on the settings that the SDK refuses

Ranged == {"exposure", "analog", "digital"}
Automatic(g) == <<g, "auto">>
Value(g) == <<g, "value">>
Low(g) == <<g, "min">>
High(g) == <<g, "max">>
Temperature == <<"wb", "temperature">>
Images == {<<"image", "saturation">>, <<"image", "compensation">>, <<"image", "denoising">>}
PubRate == <<"sensors", "rate">>
Flagged == Images \cup {Automatic("wb"), Temperature}
             \cup Ranged \X {"auto", "value", "min", "max"}
OneParams == Flagged \cup {PubRate}

\* The code declares all of Ranged; an exposure or gain that an instance leaves
\* out is not changed either.
ASSUME ZedOneSettingsAssumption ==
  /\ OneLaunches \subseteq [touched : SUBSET OneParams, manual : BOOLEAN, ranged : SUBSET Ranged]
  /\ \A l \in OneLaunches, p \in Ranged \X {"auto", "value", "min", "max"} :
       p \in l.touched => p[1] \in l.ranged
  /\ Lo \in Int /\ Hi \in Int /\ Lo < Hi
  /\ MaxOneChanges \in Nat /\ MaxOneRefusals \in Nat

VARIABLES
  one,         \* of OneLaunches
  registered,  \* _paramChangeCallbackHandle is there
  stored,      \* the values that rclcpp stores
  member,      \* _camSaturation, _camAutoWB, _camAutoExpTimeRangeMin, ...
  changed,     \* the parameters that _camDynParMapChanged marks
  due,         \* _triggerUpdateDynParams
  camera,      \* what the camera has; a manual value is a range of one value
  steps,       \* what is left of applyDynamicSettings
  disturbed,   \* history: parameters whose last change may be lost
  rounds,      \* history: applyDynamicSettings calls since the last event
  oneChanges,  \* calls so far
  oneRefusals  \* refusals so far

oneSettingsVars == <<one, registered, stored, member, changed, due, camera, steps, disturbed,
                     rounds, oneChanges, oneRefusals>>

-----------------------------------------------------------------------------
(* The callback.                                                           *)

Domain(p) == IF p[2] \in {"value", "min", "max"} THEN Lo..Hi ELSE 0..1

\* What a call of the callback works on; count is count_ok > 0.
Before == [member |-> member, changed |-> changed, count |-> FALSE, refused |-> FALSE]

\* Mutant: a parameter that keeps its value keeps its mark.
UpdateParamMarked(n, p, v) ==
  [n EXCEPT !.member = [@ EXCEPT ![p] = v], !.changed = @ \cup {p}]

\* updateIntParam, updateBoolParam
UpdateParam(n, p, v) ==
  [n EXCEPT !.member = [@ EXCEPT ![p] = v],
            !.changed = IF v = n.member[p] THEN @ \ {p} ELSE @ \cup {p}]

\* A parameter of a call, and what follows from it if it has another value.
Handle(n, p, v, Follow(_)) ==
  LET m == UpdateParam(n, p, v)
  IN IF v = n.member[p] THEN m ELSE Follow([m EXCEPT !.count = TRUE])
Alone(n) == n

\* A value fixes the range, and a range of one value fixes the value.
FixRange(n, g, v) ==
  UpdateParam(UpdateParam(UpdateParam(n, Automatic(g), 0), Low(g), v), High(g), v)
FixValue(n, g, v) ==
  IF n.member[Low(g)] # n.member[High(g)] THEN UpdateParam(n, Automatic(g), 1)
  ELSE UpdateParam(UpdateParam(n, Automatic(g), 0), Value(g), v)
HandleRanged(n, p, v) ==
  Handle(n, p, v, LAMBDA m : CASE p[2] = "auto" -> m
                               [] p[2] = "value" -> FixRange(m, p[1], v)
                               [] OTHER -> FixValue(m, p[1], v))

HandleSaturationSharpnessGamma(n, p, v) == Handle(n, p, v, Alone)
HandleWhiteBalance(n, p, v) ==
  Handle(n, p, v, LAMBDA m : IF p = Temperature THEN UpdateParam(m, Automatic("wb"), 0) ELSE m)
HandleExposure(n, p, v) == HandleRanged(n, p, v)
HandleAnalogGain(n, p, v) == HandleRanged(n, p, v)
HandleDigitalGain(n, p, v) == HandleRanged(n, p, v)

\* Nothing handles denoising, which is in the map: "not mapped".
HandleDynamicVideoParam(n, p, v) ==
  CASE p[1] = "image" /\ p[2] # "denoising" -> HandleSaturationSharpnessGamma(n, p, v)
    [] p[1] = "wb" -> HandleWhiteBalance(n, p, v)
    [] p[1] = "exposure" -> HandleExposure(n, p, v)
    [] p[1] = "analog" -> HandleAnalogGain(n, p, v)
    [] p[1] = "digital" -> HandleDigitalGain(n, p, v)
    [] OTHER -> [n EXCEPT !.refused = TRUE]

\* An iteration of the loop, which a refusal leaves.
HandleOneParam(n, change) ==
  IF n.refused THEN n
  ELSE IF change[1] = PubRate THEN [n EXCEPT !.member = [@ EXCEPT ![PubRate] = change[2]]]
  ELSE HandleDynamicVideoParam(n, change[1], change[2])

\* callback_dynamicParamChange, called by rclcpp with `batch`.
Callback(batch) ==
  \E n \in {FoldLeft(HandleOneParam, Before, batch)} :
    /\ member' = n.member /\ changed' = n.changed /\ due' = n.count
    /\ stored' = IF n.refused THEN stored
                 ELSE FoldLeft(LAMBDA f, c : [f EXCEPT ![c[1]] = c[2]], stored, batch)

-----------------------------------------------------------------------------
(* The clients.                                                            *)

\* The parameters that are set together with p.
Mates(p) == IF p[1] = "image" THEN {p} ELSE {q \in OneParams : q[1] = p[1]}
AllMates(set) == UNION {Mates(p) : p \in set}

OneBatches ==
  LET single == UNION {{<<p, v>> : v \in Domain(p)} : p \in one.touched}
  IN {<<c>> : c \in single} \cup {b \in single \X single : b[1][1] # b[2][1]}

\* The grab thread is still at the parameters of p, or about to set the flag
\* of all of them by a count it has made.
Busy(p) == \E i \in DOMAIN steps : steps[i].op = "rearm" \/ steps[i].at \in Mates(p)

SetParameters ==
  /\ registered /\ oneChanges < MaxOneChanges /\ oneChanges' = oneChanges + 1 /\ rounds' = 0
  /\ \E batch \in OneBatches :
       /\ Callback(batch)
       /\ disturbed' = disturbed \cup
            AllMates({q \in {batch[i][1] : i \in DOMAIN batch} :
                        \/ Mates(q) \cap changed # {} \/ Busy(q)
                        \/ stored' = stored /\ \E r \in Mates(q) : member'[r] # member[r]})
            \cup (IF due' THEN {} ELSE AllMates(changed))
  /\ UNCHANGED <<one, registered, camera, steps, oneRefusals>>

\* add_on_set_parameters_callback, after the threads have been started.
Register ==
  /\ ~registered /\ registered' = TRUE
  /\ UNCHANGED <<one, stored, member, changed, due, camera, steps, disturbed, rounds,
                 oneChanges, oneRefusals>>

-----------------------------------------------------------------------------
(* The grab thread.                                                        *)

Run(op, p, v) == <<[op |-> op, at |-> p, v |-> v]>>
Now(op) == steps # <<>> /\ Head(steps).op = op
P == Head(steps).at
Then(next) == steps' = next \o Tail(steps)
Aside == UNCHANGED <<one, registered, oneChanges>>
Reads ==
  /\ Aside /\ UNCHANGED <<stored, member, changed, due, camera, disturbed, rounds, oneRefusals>>

ApplyRanged(g) ==
  IF g \notin one.ranged THEN <<>>
  ELSE Run("mode", Automatic(g), 0) \o Run("unmark", Automatic(g), 0) \o Run("range", Low(g), 0)

ApplySaturationSharpnessGamma == Run("send", <<"image", "saturation">>, 0)
ApplyWhiteBalance == Run("send", Automatic("wb"), 0) \o Run("balance", Temperature, 0)
ApplyExposure == ApplyRanged("exposure")
ApplyAnalogGain == ApplyRanged("analog")
ApplyDigitalGain == ApplyRanged("digital")
ApplyExposureCompensationAndDenoising ==
  Run("send", <<"image", "compensation">>, 0) \o Run("send", <<"image", "denoising">>, 0)

\* handleDynamicSettings and applyDynamicSettings
ApplyDynamicSettings ==
  /\ steps = <<>> /\ due
  /\ steps' = ApplySaturationSharpnessGamma \o ApplyWhiteBalance \o ApplyExposure
                \o ApplyAnalogGain \o ApplyDigitalGain
                \o ApplyExposureCompensationAndDenoising \o Run("count", PubRate, 0)
  /\ rounds' = rounds + 1 /\ Aside
  /\ UNCHANGED <<stored, member, changed, due, camera, disturbed, oneRefusals>>

\* What a setting makes of the camera, which chooses its temperature itself
\* while its white balance is automatic; a temperature ends that.
Own == 2
Dialled(p) ==
  CASE p = Automatic("wb") /\ member[p] = 1 -> [camera EXCEPT ![p] = 1, ![Temperature] = Own]
    [] p = Temperature -> [camera EXCEPT ![p] = member[p], ![Automatic("wb")] = 0]
    [] p[2] = "value" -> [camera EXCEPT ![Low(p[1])] = member[p], ![High(p[1])] = member[p]]
    [] p[2] = "min" -> [camera EXCEPT ![p] = member[p], ![High(p[1])] = member[High(p[1])]]
    [] OTHER -> [camera EXCEPT ![p] = member[p]]

\* setVideoSetting and setVideoSettingRange, the call of the SDK: `marks` are
\* the marks that ask for it and that are taken off if it succeeds, ...
SetCamera(marks, next) ==
  /\ IF changed \cap marks = {} THEN Then(next) /\ UNCHANGED <<camera, disturbed, rounds, oneRefusals>>
     ELSE \/ /\ Then(Run("clear", P, 0) \o next) /\ camera' = Dialled(P)
             /\ UNCHANGED <<disturbed, rounds, oneRefusals>>
          \/ /\ oneRefusals < MaxOneRefusals /\ oneRefusals' = oneRefusals + 1 /\ rounds' = 0
             /\ Then(<<>>) /\ disturbed' = disturbed \cup Mates(P) /\ UNCHANGED camera
  /\ Aside /\ UNCHANGED <<stored, member, changed, due>>
SetVideoSetting == Now("send") /\ SetCamera({P}, <<>>)

\* ... and the statement after it.
ClearMark ==
  /\ Now("clear") /\ Then(<<>>)
  /\ changed' = changed \ (IF P[2] = "min" THEN {P, High(P[1])} ELSE {P})
  /\ Aside /\ UNCHANGED <<stored, member, due, camera, disturbed, rounds, oneRefusals>>

\* The manual temperature, unless white balance is automatic.
Balance ==
  /\ Now("balance")
  /\ IF member[Automatic("wb")] = 0
       THEN Then(Run("send", Temperature, 0) \o Run("set", Automatic("wb"), 0)) /\ UNCHANGED changed
       ELSE Then(<<>>) /\ changed' = changed \ {Temperature}
  /\ Aside /\ UNCHANGED <<stored, member, due, camera, disturbed, rounds, oneRefusals>>

\* `if (_camAutoExposure)`: the full range is set, or the manual value sent.
Mode ==
  /\ Now("mode")
  /\ LET g == P[1]
     IN Then(IF member[Automatic(g)] = 0 THEN Run("send", Value(g), 0) \o Run("force", Value(g), 0)
             ELSE IF Automatic(g) \in changed THEN Run("set", Low(g), Lo) \o Run("set", High(g), Hi)
             ELSE <<>>)
  /\ Reads

\* The manual value as the range.
ForceRange ==
  /\ Now("force")
  /\ LET g == P[1] IN Then(Run("set", Automatic(g), 0) \o Run("set", Low(g), member[P])
                            \o Run("set", High(g), member[P]))
  /\ Reads

Unmark ==
  /\ Now("unmark") /\ Then(<<>>) /\ changed' = changed \ {P, Value(P[1])}
  /\ Aside /\ UNCHANGED <<stored, member, due, camera, disturbed, rounds, oneRefusals>>

SetVideoSettingRange ==
  Now("range") /\ SetCamera({P, High(P[1])}, Run("settle", P, 0))

Settled(g) ==
  IF member[Low(g)] = member[High(g)]
    THEN Run("set", Automatic(g), 0) \o Run("set", Value(g), member[Low(g)])
    ELSE Run("set", Automatic(g), 1)

\* `if (_camAutoExpTimeRangeMin == _camAutoExpTimeRangeMax)`
Settle == Now("settle") /\ Then(Settled(P[1])) /\ Reads

\* set_parameter by the grab thread, with the callback once it is registered.
\* A value that the node has already, but the camera has not, loses its mark.
SetParameter ==
  /\ Now("set") /\ Then(<<>>)
  /\ IF registered
       THEN /\ Callback(<<<<P, Head(steps).v>>>>)
            /\ disturbed' = IF P \in changed \cap DOMAIN camera /\ P \notin changed' /\ camera[P] # member[P]
                            THEN disturbed \cup Mates(P) ELSE disturbed
     ELSE /\ stored' = [stored EXCEPT ![P] = Head(steps).v]
          /\ disturbed' = disturbed \cup Mates(P) /\ UNCHANGED <<member, changed, due>>
  /\ Aside /\ UNCHANGED <<camera, rounds, oneRefusals>>

\* The marks that are left are counted, and then _triggerUpdateDynParams is set.
CountMarks == Now("count") /\ Then(Run("rearm", PubRate, IF changed = {} THEN 0 ELSE 1)) /\ Reads
Rearm ==
  /\ Now("rearm") /\ Then(<<>>) /\ due' = (Head(steps).v = 1)
  /\ Aside /\ UNCHANGED <<stored, member, changed, camera, disturbed, rounds, oneRefusals>>

\* getVideoParams marks everything; the camera starts with the full ranges.
OneSettingsInit ==
  /\ one \in OneLaunches
  /\ member = [p \in OneParams |-> IF p[2] = "auto" THEN (IF one.manual THEN 0 ELSE 1)
                                   ELSE IF p[2] = "max" THEN Hi
                                   ELSE IF p[2] \in {"value", "min"} THEN Lo ELSE 0]
  /\ registered = FALSE /\ stored = member /\ due = TRUE
  /\ changed = Flagged \ ((Ranged \ one.ranged) \X {"auto", "value", "min", "max"})
  /\ camera = [p \in Flagged \ (Ranged \X {"auto", "value"}) |->
                 IF p[2] = "max" THEN Hi ELSE IF p[2] = "min" THEN Lo
                 ELSE IF p = Temperature THEN Own ELSE 1]
  /\ steps = <<>> /\ disturbed = {} /\ rounds = 0 /\ oneChanges = 0 /\ oneRefusals = 0

OneApply ==
  \/ ApplyDynamicSettings \/ SetVideoSetting \/ ClearMark \/ Balance \/ Mode \/ ForceRange \/ Unmark
  \/ SetVideoSettingRange \/ Settle \/ SetParameter \/ CountMarks \/ Rearm
OneSettingsNext == OneApply \/ SetParameters \/ Register
OneSettingsSpec == OneSettingsInit /\ [][OneSettingsNext]_oneSettingsVars

-----------------------------------------------------------------------------
(* Properties.                                                             *)

OneSettingsTypeOK ==
  /\ registered \in BOOLEAN /\ due \in BOOLEAN /\ changed \subseteq Flagged
  /\ \A p \in OneParams : {member[p], stored[p]} \subseteq Domain(p)
  /\ \A p \in DOMAIN camera : camera[p] \in Domain(p) \cup {Own}
  /\ disturbed \subseteq OneParams /\ oneChanges \in 0..MaxOneChanges
  /\ oneRefusals \in 0..MaxOneRefusals

\* A change that the node has accepted arrives, whatever it makes the grab
\* thread set in its turn: when nothing is being sent and nothing is due, no
\* mark is left, the camera and rclcpp have the values of the node, and value,
\* range and mode of an exposure or gain agree.  Disturbed are the parameters
\* that the SDK has refused, that were set again before they had been sent (a
\* call with the same value takes the mark off) or while they were, that were
\* waiting when a call changed nothing (it takes the flag of all of them), that
\* were set before the callback was there, and those whose mark the grab thread
\* itself takes off by setting what the node has already: a range narrowed to
\* the value the parameter had anyway, or widened to the full one.  The manual temperature is not
\* sent when automatic white balance is switched off by its own parameter: its
\* mark has been taken off before.  A manual value counts in manual mode only.
Matches(p) ==
  /\ (p[2] = "value" => member[Automatic(p[1])] = 0) => member[p] = stored[p]
  /\ p \in DOMAIN camera =>
       camera[p] \in IF p = Temperature THEN {member[p], Own} ELSE {member[p]}
Agree(g) ==
  /\ member[Automatic(g)] = 0 <=> member[Low(g)] = member[High(g)]
  /\ member[Automatic(g)] = 0 => member[Value(g)] = member[Low(g)]
OneSettingsReach ==
  steps = <<>> /\ ~due =>
    /\ \A p \in OneParams \ disturbed :
         p \notin changed /\ Matches(p)
    /\ \A g \in one.ranged : Automatic(g) \notin disturbed => Agree(g)

\* The grab thread and its own callback come to rest: what they set in turn
\* takes two rounds at most.
OneSettingsRest == rounds <= 2

OneSettingsInv == OneSettingsTypeOK /\ OneSettingsReach /\ OneSettingsRest
=============================================================================
