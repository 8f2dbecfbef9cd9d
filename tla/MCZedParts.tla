------------------------------ MODULE MCZedParts ----------------------------
(* The frames of the ZED node, its parameters, and those of the ZED One    *)
(* node.  They share no variable: a behaviour is one of any of the three,  *)
(* and the other two keep an initial state.                                *)
(* Frames: subscribers of the images, of the cloud, or tracking, which     *)
(* share the grab thread and nothing else; only those who publish look at  *)
(* the source of the frames.  Parameters: the groups that are handled and  *)
(* sent together, one launch for each.                                     *)
EXTENDS ZedPipeline, ZedSettings, ZedOneSettings

VARIABLE part

MCLaunches ==
  {[topics |-> t, tracking |-> FALSE] : t \in {VideoTopics, {"rgb"}, {"cloud"}}}
    \cup {[topics |-> {}, tracking |-> TRUE]}

ZedLaunch(k, c, a, t) == [kind |-> k, custom |-> c, initial |-> [m \in Autos |-> a], touched |-> t]
MCLaunched ==
  {ZedLaunch("usb3", FALSE, 1, {"exposure", "auto_exposure_gain"}),
   ZedLaunch("usb3", FALSE, 0, {"brightness"}),
   ZedLaunch("zedx", FALSE, 0, {"analog_gain"}),
   ZedLaunch("virtual", FALSE, 0, {"compensation"}),
   ZedLaunch("stream", FALSE, 0, {"exposure_range"}),
   ZedLaunch("svo", FALSE, 0, {"point_cloud_freq", "fused_pointcloud_freq"}),
   ZedLaunch("svo", FALSE, 0, {"people", "keypoints"}),
   ZedLaunch("svo", TRUE, 0, {"class", "depth_confidence"})}

OneLaunch(g, t, m) == [ranged |-> g, touched |-> t, manual |-> m]
MCOneLaunches ==
  {OneLaunch({"exposure"}, {Automatic("exposure"), Value("exposure")}, FALSE),
   OneLaunch({"analog"}, {Low("analog")}, FALSE),
   OneLaunch({"digital"}, {High("digital")}, TRUE),
   OneLaunch({}, {Automatic("wb"), Temperature}, FALSE),
   OneLaunch({}, {<<"image", "saturation">>, <<"image", "denoising">>, PubRate}, FALSE)}

Fixed(p, q) == part = p \/ q
PartsInit ==
  /\ part \in {"frames", "settings", "one"}
  /\ ZpInit /\ Fixed("frames", launch = CHOOSE l \in Launches : l.tracking)
  /\ launch.tracking \/ launch.topics = VideoTopics => input = "live"
  /\ launch.topics = {"rgb"} => input = "svo"
  /\ SettingsInit /\ Fixed("settings", launched = CHOOSE l \in Launched : TRUE)
  /\ OneSettingsInit /\ Fixed("one", one = CHOOSE l \in OneLaunches : TRUE)

FramesStep == part = "frames" /\ ZpNext /\ UNCHANGED <<part, settingsVars, oneSettingsVars>>
SettingsStep == part = "settings" /\ SettingsNext /\ UNCHANGED <<part, zpVars, oneSettingsVars>>
OneStep == part = "one" /\ OneSettingsNext /\ UNCHANGED <<part, zpVars, settingsVars>>
PartsNext == FramesStep \/ SettingsStep \/ OneStep

\* Of the fairness of ZpSpec, that which HandedOver needs.
PartsSpec ==
  /\ PartsInit /\ [][PartsNext]_<<part, zpVars, settingsVars, oneSettingsVars>>
  /\ WF_zpVars(part = "frames" /\ GrabStep) /\ WF_zpVars(part = "frames" /\ VideoStep)
  /\ SF_zpVars(part = "frames" /\ WorkStep("vd"))
=============================================================================
