---------------------------- MODULE ZedSettings -----------------------------
(***************************************************************************)
(* The dynamic parameters of the ZED node: a parameter callback writes the *)
(* members of the node and marks them as changed, and the grab thread      *)
(* sends what differs to the camera, a call of the SDK after the other,    *)
(* without a mutex between them.  Each parameter stands for those that the *)
(* code treats alike: "exposure" for exposure and gain, "analog_range" for *)
(* its two ends, "people" for the classes of objects and their thresholds. *)
(* rclcpp is external: it refuses a parameter of another type, and stores  *)
(* the values of a call when the callback has accepted all of them.        *)
(***************************************************************************)
EXTENDS Integers, Sequences, SequencesExt

CONSTANTS
  Launched,    \* the cameras, the settings of the launch and what is changed
  GrabRate,    \* mCamGrabFrameRate, the highest rate
  MaxChanges,  \* bound on the calls that change parameters
  MaxRefusals  \* bound on the calls that the SDK refuses

Autos == {"auto_exposure_gain", "auto_whitebalance"}
Manual == {"exposure", "exposure_time", "analog_gain", "temperature"}
AutoOf(p) == IF p = "temperature" THEN "auto_whitebalance" ELSE "auto_exposure_gain"
Usb3 == {"brightness"}
Gmsl2 == {"exposure_time", "exposure_range", "compensation", "analog_gain", "analog_range",
          "digital_range", "denoising", "antibanding"}
Common == {"sharpness", "exposure", "temperature"} \cup Autos
Rates == {"point_cloud_freq", "fused_pointcloud_freq"}
Params == Usb3 \cup Gmsl2 \cup Common \cup Rates \cup
          {"depth_confidence", "people", "class", "keypoints"}
VideoParams == Usb3 \cup Gmsl2 \cup Common

Kinds == {"usb3", "zedx", "virtual", "stream", "svo"}   \* the last three: of a ZED X
ZedX == Kinds \ {"usb3"}

ASSUME ZedSettingsAssumption ==
  /\ Launched \subseteq [kind : Kinds, custom : BOOLEAN, initial : [Autos -> 0..1],
                         touched : SUBSET Params]
  /\ GrabRate \in Nat \ {0} /\ MaxChanges \in Nat /\ MaxRefusals \in Nat

VARIABLES
  launched,  \* of Launched
  server,    \* the values that rclcpp stores
  wish,      \* the members of the node: mCamSharpness, mCamAutoWB, mPcPubRate, ...
  trigger,   \* mTriggerAutoExpGain, mTriggerAutoWB
  dirty,     \* mCamSettingsDirty, mObjDetRtParamsDirty, mBodyTrkRtParamsDirty
  dial,      \* what the camera and the SDK have
  queue,     \* what is left of the iteration of the grab thread
  excused,   \* history: parameters of which the last value may not be sent
  broken,    \* history: parameters of calls that were refused half-way
  changes,   \* calls so far
  refusals   \* refusals so far

history == <<excused, broken>>
settingsVars == <<launched, server, wish, trigger, dirty, dial, queue, history, changes, refusals>>

-----------------------------------------------------------------------------
(* The parameters.                                                         *)

\* getVideoParams
VideoDeclared == Common \cup (IF launched.kind \in ZedX THEN Gmsl2 ELSE Usb3)

\* getDepthParams, with depth
DepthDeclared == {"depth_confidence", "point_cloud_freq"}

\* getOdParams and getCustomOdParams
ObjDeclared == IF launched.custom THEN {"class"} ELSE {"people"}

Declared == VideoDeclared \cup DepthDeclared \cup ObjDeclared \cup
            {"fused_pointcloud_freq", "keypoints"}

\* A rate that is not positive is the highest one.
Rate(v, highest) == IF v <= 0 THEN highest ELSE v

\* The values a client sends: 2 is out of the range that the callback checks.
Sent(p) ==
  CASE p \in Rates -> 0..GrabRate [] p \in {"class", "keypoints"} -> 0..2 [] OTHER -> 0..1

\* What a call of the callback works on.
Members == [wish |-> wish, trigger |-> trigger, dirty |-> dirty, refused |-> FALSE]
Set(n, p, v) == [n EXCEPT !.wish = [@ EXCEPT ![p] = v]]
Refuse(n) == [n EXCEPT !.refused = TRUE]
Dirty(n, group) == [n EXCEPT !.dirty = @ \cup {group}]

\* A manual value switches its automatic mode off, which is not sent.
SetManual(n, p, v) == Set(Set(n, p, v), AutoOf(p), 0)

HandleGmsl2Params(n, p, v) ==
  Dirty(IF p \in Manual THEN SetManual(n, p, v) ELSE Set(n, p, v), "video")

HandleUsb3Params(n, p, v) == Dirty(Set(n, p, v), "video")

\* Mutant: an automatic mode is not sent when it is changed.
HandleAutoUntriggered(n, p, v) == Dirty(Set(n, p, v), "video")

\* video.auto_exposure_gain, video.auto_whitebalance
HandleAuto(n, p, v) ==
  Dirty([Set(n, p, v) EXCEPT !.trigger = @ \cup (IF v # n.wish[p] THEN {p} ELSE {})], "video")

HandleCommonVideoParams(n, p, v) ==
  IF p \in Autos THEN HandleAuto(n, p, v)
  ELSE Dirty(IF p \in Manual THEN SetManual(n, p, v) ELSE Set(n, p, v), "video")

HandleDepthParams(n, p, v) == Set(n, p, IF p \in Rates THEN Rate(v, GrabRate) ELSE v)

HandleVideoDepthDynamicParams(n, p, v) ==
  CASE p \in Gmsl2 -> HandleGmsl2Params(n, p, v)
    [] p \in Usb3 -> HandleUsb3Params(n, p, v)
    [] p \in Common -> HandleCommonVideoParams(n, p, v)
    [] p \in {"depth_confidence", "point_cloud_freq"} -> HandleDepthParams(n, p, v)
    [] OTHER -> n

\* Any parameter at all makes the object filter dirty.
HandleOdDynamicParams(n, p, v) == Dirty(IF p = "people" THEN Set(n, p, v) ELSE n, "obj")

HandleCustomOdDynamicParams(n, p, v) ==
  IF p # "class" THEN n ELSE IF v > 1 THEN Refuse(n) ELSE Dirty(Set(n, p, v), "obj")

HandleBodyTrkDynamicParams(n, p, v) ==
  IF p = "keypoints" /\ v > 1 THEN Refuse(n)
  ELSE Dirty(IF p = "keypoints" THEN Set(n, p, v) ELSE n, "body")

\* The parameters that the callback handles itself.
HandleOwnParams(n, p, v) ==
  LET highest == n.wish["point_cloud_freq"]
  IN IF p # "fused_pointcloud_freq" THEN n
     ELSE IF v > highest THEN Refuse(n) ELSE Set(n, p, Rate(v, highest))

\* An iteration of the callback: the first refusal leaves its loop, and what
\* was set before stays.
HandleParam(n, change) ==
  LET Then(m, Handle(_, _, _)) == IF m.refused THEN m ELSE Handle(m, change[1], change[2])
      Objects(m, p, v) == IF launched.custom THEN HandleCustomOdDynamicParams(m, p, v)
                          ELSE HandleOdDynamicParams(m, p, v)
  IN Then(Then(Then(Then(n, HandleOwnParams), HandleVideoDepthDynamicParams), Objects),
          HandleBodyTrkDynamicParams)

-----------------------------------------------------------------------------
(* The calls.                                                              *)

Changes == UNION {{<<p, v>> : v \in Sent(p)} : p \in Declared \cap launched.touched}
Batches == {<<c>> : c \in Changes} \cup {b \in Changes \X Changes : b[1][1] # b[2][1]}
Of(batch) == {batch[i][1] : i \in DOMAIN batch}

\* rclcpp stores a value.
Store(f, c) == [f EXCEPT ![c[1]] = c[2]]

\* The group of a parameter, as the flags `dirty` name it.
Group(p) == IF p = "people" THEN "obj" ELSE IF p = "keypoints" THEN "body" ELSE "video"

\* The grab thread sends a group, or has still to clear its flag.
Sending(group) ==
  \/ Contains(queue, <<"clear", group>>)
  \/ group = "video" /\ \E p \in Params : Contains(queue, <<"send", p>>)

\* The manual values of the automatic modes of a set.
Under(set) == {p \in Manual \cap Declared : AutoOf(p) \in set}

\* callback_dynamicParamChange, called with one parameter by set_parameters and
\* with all of a call by set_parameters_atomically.
DynamicParamChange ==
  /\ changes < MaxChanges /\ changes' = changes + 1
  /\ \E batch \in Batches :
     \E n \in {FoldLeft(HandleParam, Members, batch)} :
     \E other \in {{q \in Declared : n.wish[q] # wish[q]}} :
       /\ wish' = n.wish /\ trigger' = n.trigger /\ dirty' = n.dirty
       /\ dial' = [q \in Declared |-> IF q \in Rates THEN n.wish[q] ELSE dial[q]]
       /\ server' = IF n.refused THEN server
                    ELSE FoldLeft(Store, server, batch)
       /\ \E set \in {IF n.refused THEN other ELSE other \cup Of(batch)} :
            excused' = (excused \ set) \cup {q \in set \cup Under(set) : Sending(Group(q))}
       /\ broken' = IF n.refused THEN broken \cup other ELSE broken \ Of(batch)
  /\ UNCHANGED <<launched, queue, refusals>>

-----------------------------------------------------------------------------
(* The grab thread.                                                        *)

At(step) == queue # <<>> /\ Head(queue) = step
Next(steps) == queue' = steps \o Tail(queue)

\* An iteration, as far as it sends settings.
Iterate ==
  /\ queue = <<>> /\ queue' = <<<<"depth", "">>, <<"video", "">>, <<"obj", "">>, <<"body", "">>>>
  /\ UNCHANGED <<launched, server, wish, trigger, dirty, dial, history, changes, refusals>>

\* applyDepthSettings: the run parameters are filled when depth is required.
ApplyDepthSettings ==
  /\ At(<<"depth", "">>) /\ Next(<<>>)
  /\ dial' \in {dial, [dial EXCEPT !["depth_confidence"] = wish["depth_confidence"]]}
  /\ UNCHANGED <<launched, server, wish, trigger, dirty, history, changes, refusals>>

\* applyZEDXSettings
ZedXSteps ==
  IF launched.kind \notin ZedX THEN <<>>
  ELSE <<<<"send", "exposure_time">>, <<"send", "exposure_range">>, <<"send", "compensation">>,
         <<"send", "analog_gain">>, <<"send", "analog_range">>, <<"send", "digital_range">>,
         <<"send", "denoising">>, <<"send", "antibanding">>>>

\* applyVideoSettings, once in ten frames.
VideoSteps ==
  <<<<"send", "auto_exposure_gain">>, <<"send", "exposure">>, <<"send", "auto_whitebalance">>,
    <<"send", "temperature">>, <<"send", "brightness">>, <<"send", "sharpness">>>>
  \o ZedXSteps \o <<<<"clear", "video">>>>

ApplyVideoSettings ==
  /\ At(<<"video", "">>)
  /\ \/ Next(<<>>)
     \/ launched.kind # "svo" /\ "video" \in dirty /\ Next(VideoSteps)
  /\ UNCHANGED <<launched, server, wish, trigger, dirty, dial, history, changes, refusals>>

\* mCamSettingsDirty = false, mObjDetRtParamsDirty = false, ...
Clear ==
  /\ \E group \in dirty : At(<<"clear", group>>) /\ dirty' = dirty \ {group}
  /\ Next(<<>>)
  /\ UNCHANGED <<launched, server, wish, trigger, dial, history, changes, refusals>>

\* The step has nothing to send.
Skip(p) ==
  /\ At(<<"send", p>>) /\ Next(<<>>)
  /\ UNCHANGED <<launched, server, wish, trigger, dirty, dial, history, changes, refusals>>

\* getCameraSettings or setCameraSettings fails.
Refused(p, given) ==
  /\ At(<<"send", p>>) /\ Next(<<>>)
  /\ refusals < MaxRefusals /\ refusals' = refusals + 1 /\ excused' = excused \cup given
  /\ UNCHANGED <<launched, server, wish, trigger, dirty, dial, broken, changes>>

\* setCameraSettings succeeds: the camera has the values of `given`.
Accepted(p, given) ==
  /\ At(<<"send", p>>) /\ Next(<<>>)
  /\ dial' = [q \in Declared |-> IF q \in given THEN wish[q] ELSE dial[q]]
  /\ trigger' = trigger \ {p} /\ excused' = excused \ given
  /\ UNCHANGED <<launched, server, wish, dirty, broken, changes, refusals>>

\* An automatic mode is sent when it was changed by its own parameter.
SendAuto(a) ==
  IF a \in trigger THEN Accepted(a, {a}) \/ Refused(a, {a}) ELSE Skip(a)

\* A value is sent if the camera has another one.
SendIfDifferent(p) ==
  /\ At(<<"send", p>>)
  /\ \/ Accepted(p, {p})
     \/ dial[p] # wish[p] /\ Refused(p, {p})

\* A manual value, unless the mode is automatic; the camera leaves its own
\* automatic mode with it.  A camera that has come to the value by itself is
\* sent nothing and stays in it.
SendManual(p) ==
  /\ At(<<"send", p>>)
  /\ IF wish[AutoOf(p)] = 1 THEN Skip(p)
     ELSE IF dial[p] # wish[p] THEN Accepted(p, {p, AutoOf(p)}) \/ Refused(p, {p, AutoOf(p)})
     ELSE /\ Next(<<>>)
          /\ excused' = IF dial[AutoOf(p)] = 1 THEN excused \cup {p, AutoOf(p)} ELSE excused \ {p}
          /\ UNCHANGED <<launched, server, wish, trigger, dirty, dial, broken, changes, refusals>>

ApplyAutoExposureGainSettings == SendAuto("auto_exposure_gain")
ApplyExposureGainSettings == SendManual("exposure")
ApplyWhiteBalanceSettings == SendAuto("auto_whitebalance") \/ SendManual("temperature")
ApplyBrightnessContrastHueSettings ==
  IF launched.kind \in ZedX THEN Skip("brightness") ELSE SendIfDifferent("brightness")
ApplySaturationSharpnessGammaSettings == SendIfDifferent("sharpness")

\* A virtual camera has no ranges, and one that is streamed only the values
\* that its sender does not keep to itself.
SendUnless(kind, p) == IF launched.kind = kind THEN Skip(p) ELSE SendIfDifferent(p)
ApplyZedXExposureSettings == SendManual("exposure_time")
ApplyZedXAutoExposureTimeRange == SendUnless("virtual", "exposure_range")
ApplyZedXExposureCompensation == SendUnless("stream", "compensation")
ApplyZedXAnalogDigitalGain == SendManual("analog_gain")
ApplyZedXAutoAnalogGainRange == SendUnless("virtual", "analog_range")
ApplyZedXAutoDigitalGainRange == SendUnless("virtual", "digital_range")
ApplyZedXDenoising == SendUnless("stream", "denoising")
ApplyZedXAEAntibanding == SendUnless("stream", "antibanding")

\* processDetectedObjects and processBodies, with a subscriber; the filter of
\* own classes is passed with every frame.
ProcessDetectedObjects ==
  /\ At(<<"obj", "">>)
  /\ \/ Next(<<>>) /\ UNCHANGED dial
     \/ LET sent == IF launched.custom THEN {"class"}
                    ELSE IF "obj" \in dirty THEN {"people"} ELSE {}
        IN /\ dial' = [q \in Declared |-> IF q \in sent THEN wish[q] ELSE dial[q]]
           /\ Next(IF "obj" \in dirty THEN <<<<"clear", "obj">>>> ELSE <<>>)
  /\ UNCHANGED <<launched, server, wish, trigger, dirty, history, changes, refusals>>

ProcessBodies ==
  /\ At(<<"body", "">>)
  /\ \/ Next(<<>>) /\ UNCHANGED dial
     \/ /\ "body" \in dirty /\ Next(<<<<"clear", "body">>>>)
        /\ dial' = [dial EXCEPT !["keypoints"] = wish["keypoints"]]
  /\ UNCHANGED <<launched, server, wish, trigger, dirty, history, changes, refusals>>

\* The camera's automatic modes choose their values themselves.
Adapt ==
  /\ launched.kind # "svo"
  /\ \E p \in Manual \cap Declared : dial[AutoOf(p)] = 1 /\ dial' = [dial EXCEPT ![p] = 1 - @]
  /\ UNCHANGED <<launched, server, wish, trigger, dirty, queue, history, changes, refusals>>

SettingsInit ==
  /\ launched \in Launched
  /\ server = [p \in Declared |-> IF p \in Autos THEN launched.initial[p]
                                ELSE IF p \in Rates THEN GrabRate ELSE 0]
  /\ wish = server /\ trigger = Autos /\ dirty = {"video", "obj", "body"}
  /\ dial = [p \in Declared |-> IF p \in Rates THEN GrabRate ELSE IF p \in Autos THEN 1 ELSE 0]
  /\ queue = <<>> /\ excused = {} /\ broken = {} /\ changes = 0 /\ refusals = 0

ApplyVideo ==
  \/ ApplyAutoExposureGainSettings \/ ApplyExposureGainSettings \/ ApplyWhiteBalanceSettings
  \/ ApplyBrightnessContrastHueSettings \/ ApplySaturationSharpnessGammaSettings
  \/ ApplyZedXExposureSettings \/ ApplyZedXAutoExposureTimeRange
  \/ ApplyZedXExposureCompensation \/ ApplyZedXAnalogDigitalGain
  \/ ApplyZedXAutoAnalogGainRange \/ ApplyZedXAutoDigitalGainRange \/ ApplyZedXDenoising
  \/ ApplyZedXAEAntibanding

SettingsNext ==
  \/ DynamicParamChange \/ Adapt \/ Iterate \/ ApplyDepthSettings \/ ApplyVideoSettings
  \/ ApplyVideo \/ Clear \/ ProcessDetectedObjects \/ ProcessBodies
SettingsSpec == SettingsInit /\ [][SettingsNext]_settingsVars

-----------------------------------------------------------------------------
(* Properties.                                                             *)

Steps == ({"depth", "video", "obj", "body"} \X {""}) \cup ({"send"} \X Params)
           \cup ({"clear"} \X {"video", "obj", "body"})

SettingsTypeOK ==
  /\ launched \in Launched /\ trigger \subseteq Autos /\ dirty \subseteq {"video", "obj", "body"}
  /\ {server, wish, dial} \subseteq [Declared -> Nat]
  /\ \A p \in Declared : {server[p], wish[p], dial[p]} \subseteq Sent(p)
  /\ \A p \in Rates : wish[p] > 0
  /\ queue \in Seq(Steps) /\ excused \cup broken \subseteq Params
  /\ changes \in 0..MaxChanges /\ refusals \in 0..MaxRefusals

\* The settings that this camera is sent.
Reached ==
  CASE launched.kind = "svo" -> {}
    [] launched.kind = "usb3" -> Usb3 \cup Common
    [] launched.kind = "virtual" -> (Gmsl2 \ {"exposure_range", "analog_range", "digital_range"}) \cup Common
    [] launched.kind = "stream" -> (Gmsl2 \ {"compensation", "denoising", "antibanding"}) \cup Common
    [] OTHER -> Gmsl2 \cup Common

\* A change that was answered with success reaches the camera: when nothing is
\* marked as changed and nothing is being sent, the camera has the values that
\* rclcpp has, and each automatic mode that the node has switched on or off.
\* Excused is what the SDK refused, what a callback wrote while its group was
\* being sent (the flag it set is cleared with the others), and a manual value
\* the camera had just then come to by itself; and what a call of several
\* parameters set before one of them was refused.
Has(p) ==
  \/ p \in Manual /\ wish[AutoOf(p)] = 1
  \/ dial[p] = IF p \in Autos THEN wish[p] ELSE server[p]
SettingsReach ==
  \A p \in (Declared \cap (Reached \cup {"people", "keypoints"})) \ (excused \cup broken) :
    Group(p) \notin dirty /\ ~Sending(Group(p)) => Has(p)

\* Why: the grab thread has come past a parameter when its step is done and the
\* mark, if it is set, is about to be cleared.  What it has come past the camera
\* has from the node, unless it is excused, and the node from rclcpp.
Passed(p) == ~Contains(queue, <<"send", p>>) /\ ("video" \in dirty => Sending("video"))
Told == \A p \in Declared \ (Autos \cup Rates \cup broken) : wish[p] = server[p]

\* An automatic mode is switched on by its own parameter, which triggers it, but
\* off by a manual value as well, the first of which is always there.
FirstOf(a) == IF a = "auto_whitebalance" THEN "temperature" ELSE "exposure"
AutosKept ==
  \A a \in Autos :
    /\ wish[a] = 1 /\ (a \notin trigger \/ (Passed(a) /\ a \notin excused)) => dial[a] = 1
    /\ wish[a] = 0 /\ Passed(FirstOf(a)) /\ a \notin excused => dial[a] = 0

\* A manual value stays only while the camera's automatic mode is off.
ManualsKept ==
  \A p \in (Manual \cap Declared) \ excused :
    wish[AutoOf(p)] = 0 /\ Passed(p) => dial[p] = wish[p] /\ dial[AutoOf(p)] = 0

OthersKept ==
  /\ \A p \in (Reached \cap Declared) \ (Manual \cup Autos \cup excused) : Passed(p) => dial[p] = wish[p]
  /\ \A p \in ({"people", "keypoints"} \cap Declared) \ excused :
       (Group(p) \in dirty => Sending(Group(p))) => dial[p] = wish[p]

SettingsInv == SettingsTypeOK /\ SettingsReach /\ Told /\ AutosKept /\ ManualsKept /\ OthersKept
=============================================================================
